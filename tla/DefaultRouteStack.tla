-------------------------- MODULE DefaultRouteStack --------------------------
(***************************************************************************)
(* What the connector promises about the default route: it belongs to the  *)
(* connection that asked for it last and is still there. Connecting puts a *)
(* modem on top; a modem that goes, from the top or from below, leaves the *)
(* order of the others alone.                                              *)
(***************************************************************************)
EXTENDS SequencesExt

CONSTANT Modems

VARIABLE stack   \* the modems that asked for the default route, newest first

Members == {stack[i] : i \in DOMAIN stack}

Promote(m) == m \notin Members /\ stack' = <<m>> \o stack

Retire(m) == \E i \in DOMAIN stack : stack[i] = m /\ stack' = RemoveAt(stack, i)

Init == stack = <<>>

Next == \E m \in Modems : Promote(m) \/ Retire(m)

Spec == Init /\ [][Next]_stack
=============================================================================
