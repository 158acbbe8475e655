--------------------------- MODULE MC_PresenceTask ---------------------------
(* Instances of PresenceTask for TLC. *)
EXTENDS PresenceTask, TLC

CONSTANTS p, q, r, a, b, t1, t2, t3, t4

\* A task is only ever told apart from another.
AnyTask == Permutations(Tasks)
=============================================================================
