------------------------- MODULE InternetRoutesStack -------------------------
(***************************************************************************)
(* InternetRoutes implements DefaultRouteStack. The stack is nowhere in    *)
(* the code: it is read off the chain the tracked connections form, each   *)
(* with the routes it moved aside among its changes.                       *)
(***************************************************************************)
EXTENDS InternetRoutes, SequencesExt

\* m took the default route from n, or inherited that from a connection that went.
TookFrom(m, n) == conns[m].tracked /\ \E ch \in conns[m].changes : ch.orig.iface = n

\* n has demoted m and is about to be tracked.
Taking(n, m) == op[n].pc = "track" /\ \E ch \in op[n].done : ch.orig.iface = m

Holders ==
  {m \in Modems : /\ conns[m].tracked
                  /\ conns[m].dflt \/ \E n \in Modems : TookFrom(n, m) \/ Taking(n, m)}

\* The holders in the order of the chain; a broken chain counts as no holder.
Chains == {s \in SetToSeqs(Holders) : \A i \in 1..(Len(s) - 1) : TookFrom(s[i], s[i + 1])}

Chain == IF Chains = {} THEN <<>> ELSE CHOOSE s \in Chains : TRUE

Abstract == INSTANCE DefaultRouteStack WITH stack <- Chain

\* In whatever order modems connect and disconnect, the default route goes to
\* the newest connection that asked for it and is still there.
LastComeFirstServed == Abstract!Spec
=============================================================================
