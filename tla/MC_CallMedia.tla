---------------------------- MODULE MC_CallMedia ----------------------------
(* Instances of CallMedia for TLC. *)
EXTENDS CallMedia, TLC

CONSTANTS b1, b2
=============================================================================
