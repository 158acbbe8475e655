--------------------------- MODULE MC_WifiSession ---------------------------
(* Instances of WifiSession for TLC. *)
EXTENDS WifiSession, TLC

CONSTANTS p1, p2, r1, r2

AnyRequest == Permutations(Requests)
=============================================================================
