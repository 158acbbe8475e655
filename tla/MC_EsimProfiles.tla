---------------------------- MODULE MC_EsimProfiles ----------------------------
(* Two requests on a modem with two profiles: one changes the profile in use *)
(* or its number, or adds one, meanwhile another one removes one or reads.   *)
EXTENDS EsimProfiles

CONSTANTS r1, r2, p1, p2

AddAndRemove == [r \in Calls |-> IF r = r1 THEN {"enable", "download", "number"} ELSE {"delete", "read"}]
=============================================================================
