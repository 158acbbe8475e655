---------------------------- MODULE MC_WifiCalls ----------------------------
(* Instances of WifiCalls for TLC. *)
EXTENDS WifiCalls, TLC

CONSTANTS r1, r2

AnyRequest == Permutations(Requests)
=============================================================================
