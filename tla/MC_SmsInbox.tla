---------------------------- MODULE MC_SmsInbox ----------------------------
(* Instances of SmsInbox for TLC: two correspondents. *)
EXTENDS SmsInbox, TLC

CONSTANTS m1, m2, m3, out, ann, bob, q1, q2

\* Ann writes m1 and m2 and is written to, Bob writes m3.
Correspondents == [m \in Messages |-> IF m = m3 THEN bob ELSE ann]

AnyRequest == Permutations(Requests)
=============================================================================
