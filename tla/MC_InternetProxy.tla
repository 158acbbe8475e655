-------------------------- MODULE MC_InternetProxy --------------------------
(* Instances of InternetProxy for TLC. *)
EXTENDS InternetProxy

CONSTANTS a, b, wwan0, wwan1, s1

\* One password, another one, and none, on the same ports.
Old          == [password |-> "old", port |-> 1]
ThreeConfigs == {Old, [password |-> "new", port |-> 1], [password |-> "", port |-> 1]}

\* One modem has two interfaces, the other one shares one of the names.
SharedName == [m \in Modems |-> IF m = a THEN Interfaces ELSE {wwan0}]
=============================================================================
