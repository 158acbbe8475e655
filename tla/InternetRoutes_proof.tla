------------------------ MODULE InternetRoutes_proof ------------------------
(***************************************************************************)
(* Type correctness and the write-ahead rule of InternetRoutes, for every  *)
(* set of modems, interfaces, families, routes and requests, any number of *)
(* concurrent operations, failures and restarts. Then, for operations that *)
(* follow each other without a failure on bearers of one family: what the  *)
(* kernel, the database and memory hold agree, however many modems there   *)
(* are and in whatever order they connect and disconnect, and the default  *)
(* route is passed on as DefaultRouteStack says.                           *)
(***************************************************************************)
EXTENDS InternetRoutesStack, FiniteSetTheorems, SequenceTheorems, WellFoundedInduction, TLAPS

MovePCs  == {"moveDel", "moveAdd", "moveUndo"}
CleanPCs == {"unroute", "restoreAdd", "dropState"}
BackPCs  == CleanPCs \cup {"restoreDel", "stale"}
Rets     == {"none", "sync", "bearerDown", "abort", "forget", "plan"}

\* A modem the startup recovery has not reached does nothing and is unknown.
Booted(m) == m \in booting => op[m].pc = "idle" /\ ~conns[m].tracked

\* While a takeover is ahead or under way its modem is not tracked: what
\* another modem's clean-up rewrites is the record of a tracked one.
Fresh(m) ==
  (op[m].pc \in MovePCs \cup {"bearerUp", "plan"} \/ op[m].ret = "plan") /\ op[m].kind # "keep"
    => ~conns[m].tracked

\* WriteAhead, for one modem.
Ahead(m) ==
  op[m].pc \in MovePCs /\ op[m].kind # "keep"
    => stored[m].saved /\ op[m].todo \cup op[m].done \subseteq stored[m].changes

\* A clean-up knows where to go on.
Back(m) == op[m].pc \in BackPCs => op[m].ret # "none"

Safe(m) == Booted(m) /\ Fresh(m) /\ Ahead(m) /\ Back(m)

IInv == TypeOK /\ \A m \in Modems : Safe(m)

\* A place that has nothing to do with a takeover.
Calm(o) ==
  /\ o.pc \notin MovePCs \cup {"bearerUp", "plan"} /\ o.ret # "plan"
  /\ o.pc \in BackPCs => o.ret # "none"

-----------------------------------------------------------------------------
(* The operators on routes return routes and changes. *)

LEMMA NoOpType == NoOp \in Op
BY SMT DEF NoOp, Op, PCs, Kinds

LEMMA ChangesType ==
  ASSUME NEW K, K \subseteq Route, NEW P, NEW C \in DefaultRouteChanges(K, P)
  PROVE  C \subseteq Change
<1> DEFINE mv == Moved(K, P)
<1>1. mv \subseteq Route
  BY DEF Moved
<1>2. FallbackMetrics(K, mv) \subseteq Nat
  <2> SUFFICES ASSUME NEW r \in mv, NEW k \in FallbackBase(r)..(FallbackBase(r) + 2 * Cardinality(K))
               PROVE  k \in Nat
    BY DEF FallbackMetrics
  <2>1. r.metric \in Nat
    BY <1>1 DEF Route
  <2>2. FallbackBase(r) \in Nat
    BY <2>1 DEF FallbackBase, DefaultRouteMetric
  <2> QED
    BY <2>2, SMT
<1>3. PICK f \in [mv -> FallbackMetrics(K, mv)] :
         C = {[orig |-> r, repl |-> Replaced(r, f[r])] : r \in mv}
  BY DEF DefaultRouteChanges
<1>4. ASSUME NEW r \in mv PROVE [orig |-> r, repl |-> Replaced(r, f[r])] \in Change
  <2>1. f[r] \in Nat
    BY <1>2, <1>3
  <2>2. Replaced(r, f[r]) \in Route
    BY <1>1, <2>1 DEF Replaced, Route
  <2> QED
    BY <1>1, <2>2 DEF Change
<1> QED
  BY <1>3, <1>4

LEMMA SecondaryType ==
  ASSUME NEW F, NEW K, NEW k \in SecondaryMetrics(F, K)
  PROVE  k \in Nat
BY SMT DEF SecondaryMetrics, SecondaryRouteMetric

LEMMA OwnType ==
  ASSUME NEW m \in Modems, NEW k \in Nat
  PROVE  OwnRoutes(m, k) \subseteq Route
BY ConstantsAssumption DEF OwnRoutes, Route, Ifaces

LEMMA FoundType ==
  ASSUME TypeOK, NEW m \in Modems
  PROVE  FoundRoutes(m) \subseteq Route
<1>1. \A r \in kernel : r.metric \in Nat
  BY DEF TypeOK, Route
<1>2. ASSUME NEW x \in FoundRoutes(m)
      PROVE  x \in Route
  <2>1. PICK r \in kernel : x \in OwnRoutes(m, r.metric)
    BY <1>2 DEF FoundRoutes
  <2> QED
    BY <1>1, <2>1, OwnType
<1> QED
  BY <1>2

LEMMA ReroutedType ==
  ASSUME NEW t \in Connection, NEW C, C \subseteq Change
  PROVE  /\ Rerouted(t, C) \in Connection
         /\ Rerouted(t, C).tracked = t.tracked
<1>1. {c.repl : c \in {d \in C : d.orig \in t.routes}} \subseteq Route
  BY DEF Change
<1>2. \A R : IsDefault(R) \in BOOLEAN
  BY DEF IsDefault
<1> QED
  BY <1>1, <1>2 DEF Rerouted, Connection

LEMMA BackwardsType ==
  ASSUME NEW C, C \subseteq Change
  PROVE  Backwards(C) \subseteq Change
BY DEF Backwards, Change

-----------------------------------------------------------------------------
(* Where an operation goes next: its type, and what Safe asks of its place. *)

LEMMA UnroutePCType ==
  ASSUME NEW o
  PROVE  /\ RestorePC(o) \in {"restoreAdd", "dropState"}
         /\ UnroutePC(o) \in CleanPCs
BY DEF RestorePC, UnroutePC, CleanPCs

LEMMA CleanupType ==
  ASSUME NEW o \in Op, NEW R, R \subseteq Route, NEW C, C \subseteq Change, NEW ret \in Rets
  PROVE  /\ Cleanup(o, R, C, ret) \in Op
         /\ Cleanup(o, R, C, ret).pc \in CleanPCs
         /\ Cleanup(o, R, C, ret).ret = ret
         /\ Cleanup(o, R, C, ret).kind = o.kind
<1> DEFINE n == [o EXCEPT !.routes = R, !.todo = C, !.ret = ret, !.err = FALSE, !.kept = FALSE]
<1>1. n \in Op /\ n.ret = ret /\ n.kind = o.kind
  BY DEF Op, Rets
<1>2. UnroutePC(n) \in CleanPCs
  BY UnroutePCType
<1> HIDE DEF n
<1>3. Cleanup(o, R, C, ret) = [n EXCEPT !.pc = UnroutePC(n)]
  BY DEF Cleanup, n
<1> QED
  BY <1>1, <1>2, <1>3 DEF Op, PCs, CleanPCs

LEMMA StaleType ==
  ASSUME NEW o \in Op, NEW ret \in Rets
  PROVE  /\ Stale(o, ret) \in Op
         /\ Stale(o, ret).pc = "stale"
         /\ Stale(o, ret).ret = ret
         /\ Stale(o, ret).kind = o.kind
BY DEF Stale, Op, PCs, Rets

LEMMA CleanupTrackedType ==
  ASSUME TypeOK, NEW m \in Modems, NEW o \in Op
  PROVE  CleanupTracked(m, o) \in Op /\ Calm(CleanupTracked(m, o))
<1> DEFINE n == [o EXCEPT !.dflt = conns[m].dflt, !.done = conns[m].changes]
<1>1. conns[m] \in Connection
  BY DEF TypeOK
<1>2. n \in Op
  BY <1>1 DEF Op, Connection
<1>3. conns[m].routes \subseteq Route /\ (IF conns[m].dflt THEN conns[m].changes ELSE {}) \subseteq Change
  BY <1>1 DEF Connection
<1> HIDE DEF n
<1>4. CleanupTracked(m, o)
        = Cleanup(n, conns[m].routes, IF conns[m].dflt THEN conns[m].changes ELSE {}, "sync")
  BY DEF CleanupTracked, n
<1> QED
  BY <1>2, <1>3, <1>4, CleanupType DEF Rets, Calm, CleanPCs, MovePCs

LEMMA CopiedType ==
  ASSUME TypeOK, NEW m \in Modems, NEW o \in Op, o.ret = "none"
  PROVE  Copied(m, o) \in Op /\ Calm(Copied(m, o))
<1>1. conns[m] \in Connection
  BY DEF TypeOK
<1>2. Copied(m, o) \in Op /\ Copied(m, o).pc = "report" /\ Copied(m, o).ret = o.ret
  BY <1>1 DEF Copied, Op, PCs, Connection
<1> QED
  BY <1>2 DEF Calm, MovePCs, BackPCs, CleanPCs

LEMMA TeardownType ==
  ASSUME TypeOK, NEW m \in Modems, NEW o \in Op
  PROVE  Teardown(m, o) \in Op /\ Calm(Teardown(m, o))
<1>1. CASE conns[m].tracked
  BY <1>1, CleanupTrackedType DEF Teardown
<1>2. CASE ~conns[m].tracked /\ bearer[m]
  <2>1. stored[m].changes \subseteq Change
    BY DEF TypeOK, Entry
  <2> QED
    BY <1>2, <2>1, FoundType, CleanupType DEF Teardown, Rets, Calm, CleanPCs, MovePCs
<1>3. CASE ~conns[m].tracked /\ ~bearer[m]
  BY <1>3, StaleType DEF Teardown, Rets, Calm, MovePCs
<1> QED
  BY <1>1, <1>2, <1>3

LEMMA RecoveryType ==
  ASSUME TypeOK, NEW m \in Modems, NEW o \in Op, NEW fallback \in BOOLEAN
  PROVE  /\ Recovery(m, o, fallback) \in Op
         /\ Recovery(m, o, fallback).pc \in {"plan", "saveAlways", "track"}
         /\ Recovery(m, o, fallback).ret = o.ret
         /\ Recovery(m, o, fallback).kind = o.kind
<1> DEFINE F == FoundRoutes(m)
           d == IF F = {} THEN fallback ELSE IsDefault(F)
           n == [o EXCEPT !.added = F, !.dflt = d, !.done = stored[m].changes]
<1>1. F \subseteq Route
  BY FoundType
<1>2. d \in BOOLEAN
  BY DEF IsDefault
<1>3. stored[m].changes \subseteq Change
  BY DEF TypeOK, Entry
<1> HIDE DEF F, d
<1>4. n \in Op /\ n.ret = o.ret /\ n.kind = o.kind
  BY <1>1, <1>2, <1>3 DEF Op
<1> HIDE DEF n
<1>5. Recovery(m, o, fallback)
        = [n EXCEPT !.pc = IF d /\ ~stored[m].saved THEN "plan" ELSE Found(o)]
  BY DEF Recovery, n, F, d
<1>6. Found(o) \in {"saveAlways", "track"}
  BY DEF Found
<1> QED
  BY <1>4, <1>5, <1>6 DEF Op, PCs

LEMMA SettleType ==
  ASSUME NEW m \in Modems, NEW o \in Op
  PROVE  /\ Settle(m, o) \in Op
         /\ Settle(m, o).pc \in {"addRoute", "saveAlways", "track"}
         /\ Settle(m, o).ret = o.ret
         /\ Settle(m, o).kind = o.kind
<1>1. OwnRoutes(m, DefaultRouteMetric) \subseteq Route
  BY OwnType DEF DefaultRouteMetric
<1>2. Found(o) \in {"saveAlways", "track"}
  BY DEF Found
<1> QED
  BY <1>1, <1>2 DEF Settle, Op, PCs

LEMMA BackOutType ==
  ASSUME NEW o \in Op, NEW done, done \subseteq Change
  PROVE  BackOut(o, done) \in Op /\ Calm(BackOut(o, done))
<1> DEFINE n == [o EXCEPT !.done = done, !.failed = TRUE]
<1>1. n \in Op
  BY DEF Op
<1> HIDE DEF n
<1>2. BackOut(o, done) \in {Cleanup(n, {}, done, "abort"), Cleanup(n, {}, {}, "forget"), NoOp}
  BY DEF BackOut, n
<1>3. Calm(NoOp)
  BY SMT DEF NoOp, Calm, MovePCs, BackPCs, CleanPCs
<1>4. ASSUME NEW C, C \subseteq Change, NEW ret \in {"abort", "forget"}
      PROVE  Cleanup(n, {}, C, ret) \in Op /\ Calm(Cleanup(n, {}, C, ret))
  BY <1>1, <1>4, CleanupType DEF Rets, Calm, CleanPCs, MovePCs
<1> QED
  BY <1>2, <1>3, <1>4, NoOpType

LEMMA UndoType ==
  ASSUME NEW o \in Op
  PROVE  Undo(o) \in Op /\ Calm(Undo(o))
<1> DEFINE n == [o EXCEPT !.failed = TRUE]
<1>1. n \in Op /\ o.added \subseteq Route /\ (IF o.want THEN o.done ELSE {}) \subseteq Change
  BY DEF Op
<1> HIDE DEF n
<1>2. Undo(o) = Cleanup(n, o.added, IF o.want THEN o.done ELSE {}, "abort")
  BY DEF Undo, n
<1> QED
  BY <1>1, <1>2, CleanupType DEF Rets, Calm, CleanPCs, MovePCs

LEMMA SharedType ==
  ASSUME NEW o \in Op, NEW C, C \subseteq Change
  PROVE  /\ Shared(o, C) \in Op
         /\ Shared(o, C).pc = o.pc
         /\ Shared(o, C).ret = o.ret
         /\ Shared(o, C).kind = o.kind
         /\ Shared(o, C).todo = o.todo
         /\ Shared(o, C).done = o.done
<1> DEFINE slice(routes) == Rerouted([Untracked EXCEPT !.routes = routes], C).routes
<1>1. ASSUME NEW R, R \subseteq Route PROVE slice(R) \subseteq Route
  <2>1. [Untracked EXCEPT !.routes = R] \in Connection
    BY <1>1 DEF Untracked, Connection
  <2> QED
    BY <2>1, ReroutedType DEF Connection
<1>2. o.routes \subseteq Route /\ o.added \subseteq Route
  BY DEF Op
<1>3. slice(o.routes) \subseteq Route /\ slice(o.added) \subseteq Route
  BY <1>1, <1>2
<1>4. Shared(o, C) = IF o.pc = "unroute" /\ o.ret = "sync" THEN [o EXCEPT !.routes = slice(o.routes)]
                     ELSE IF o.pc = "report" THEN [o EXCEPT !.added = slice(o.added)] ELSE o
  BY DEF Shared
<1> HIDE DEF slice
<1> QED
  BY <1>3, <1>4 DEF Op

LEMMA AfterRemovalType ==
  ASSUME NEW C, C \subseteq Change, NEW R, NEW I, I \subseteq Change
  PROVE  ChangesAfterRemoval(C, R, I) \subseteq Change
BY DEF ChangesAfterRemoval

LEMMA SavedAlwaysType ==
  ASSUME TypeOK, NEW S, NEW cs \in [Modems -> Connection]
  PROVE  SavedAlways(S, cs) \in [Modems -> Preference]
BY DEF SavedAlways, TypeOK, Preference, Connection

LEMMA CountedType ==
  ASSUME TypeOK, NEW ok \in Outcomes, Counted(ok)
  PROVE  ok \in BOOLEAN /\ faults' \in 0..MaxFaults
<1>1. ok \in BOOLEAN /\ (~ok => faults < MaxFaults)
  BY DEF Outcomes
<1>2. faults' = IF ok THEN faults ELSE faults + 1
  BY DEF Counted
<1> QED
  BY <1>1, <1>2, ConstantsAssumption DEF TypeOK

LEMMA GotoType ==
  ASSUME TypeOK, NEW m \in Modems, NEW o \in Op, Goto(m, o)
  PROVE  op' \in [Modems -> Op] /\ op'[m] = o /\ \A n \in Modems \ {m} : op'[n] = op[n]
BY DEF Goto, TypeOK

-----------------------------------------------------------------------------
(* What keeps a modem safe. *)

\* Steps of other modems: the record of a modem on its way to be tracked is its own.
LEMMA SafeElsewhere ==
  ASSUME NEW n \in Modems, Safe(n), booting' \subseteq booting,
         op'[n].pc = op[n].pc, op'[n].kind = op[n].kind, op'[n].ret = op[n].ret,
         op'[n].todo = op[n].todo, op'[n].done = op[n].done,
         conns'[n].tracked = conns[n].tracked,
         stored'[n] = stored[n] \/ conns[n].tracked
  PROVE  Safe(n)'
BY DEF Safe, Booted, Fresh, Ahead, Back

\* A step to a place that has nothing to do with a takeover.
LEMMA SafeCalm ==
  ASSUME NEW m \in Modems, m \notin booting', Calm(op'[m])
  PROVE  Safe(m)'
BY DEF Safe, Booted, Fresh, Ahead, Back, Calm, MovePCs

\* A step within an operation that moves no route.
LEMMA SafeWithin ==
  ASSUME NEW m \in Modems, Safe(m), booting' \subseteq booting, op[m].pc # "idle",
         op'[m].pc \notin MovePCs, op'[m].kind = op[m].kind,
         conns'[m].tracked = conns[m].tracked,
         op'[m].pc \in {"bearerUp", "plan"} \/ op'[m].ret = "plan"
           => op[m].pc \in MovePCs \cup {"bearerUp", "plan"} \/ op[m].ret = "plan",
         op'[m].pc \in BackPCs => op'[m].ret # "none"
  PROVE  Safe(m)'
BY DEF Safe, Booted, Fresh, Ahead, Back

\* The modem whose step it is looks after itself; the others see no difference.
LEMMA SafeAll ==
  ASSUME IInv, NEW m \in Modems, NEW o \in Op, Goto(m, o), booting' \subseteq booting,
         \A n \in Modems \ {m} : /\ conns'[n].tracked = conns[n].tracked
                                 /\ stored'[n] = stored[n] \/ conns[n].tracked,
         Safe(m)'
  PROVE  \A n \in Modems : Safe(n)'
<1>1. \A n \in Modems \ {m} : op'[n] = op[n]
  BY GotoType DEF IInv
<1>2. ASSUME NEW n \in Modems \ {m} PROVE Safe(n)'
  BY <1>1, SafeElsewhere DEF IInv
<1> QED
  BY <1>2

LEMMA WithoutType ==
  ASSUME NEW K, NEW r
  PROVE  Without(K, r) \subseteq K
BY DEF Without

\* A step of one operation keeps IInv if its modem stays safe and the types fit.
LEMMA StepOf ==
  ASSUME IInv, NEW m \in Modems, NEW o \in Op, Goto(m, o),
         kernel' \subseteq Route, stored' \in [Modems -> Entry],
         always' \in [Modems -> Preference], conns' \in [Modems -> Connection],
         pref' \in [Modems -> BOOLEAN], bearer' \in [Modems -> BOOLEAN],
         addrs' \subseteq Modems, booting' \subseteq booting,
         faults' \in 0..MaxFaults, crashes' = crashes,
         \A n \in Modems \ {m} : /\ conns'[n].tracked = conns[n].tracked
                                 /\ stored'[n] = stored[n] \/ conns[n].tracked,
         Safe(m)'
  PROVE  IInv'
<1>1. \A n \in Modems : Safe(n)'
  BY SafeAll
<1>2. op' \in [Modems -> Op]
  BY GotoType DEF IInv
<1>3. TypeOK'
  BY <1>2 DEF TypeOK, IInv
<1> QED
  BY <1>1, <1>3 DEF IInv

-----------------------------------------------------------------------------
(* Every step of a clean-up keeps IInv. *)

LEMMA UnrouteStep ==
  ASSUME IInv, NEW m \in Modems, Unroute(m)
  PROVE  IInv'
<1> DEFINE stop(ok) == ~ok /\ op[m].ret \in {"forget", "plan"}
           n(ok, r) == [op[m] EXCEPT !.routes = @ \ {r}, !.err = @ \/ ~ok,
                          !.kept = @ \/ (~ok /\ (stop(ok) \/ op[m].todo = {})),
                          !.todo = IF stop(ok) THEN {} ELSE @]
           o(ok, r) == [n(ok, r) EXCEPT !.pc = UnroutePC(n(ok, r))]
<1>1. PICK ok \in Outcomes, r \in op[m].routes :
        /\ kernel' = IF ok THEN Without(kernel, r) ELSE kernel
        /\ Counted(ok)
        /\ Goto(m, o(ok, r))
  BY DEF Unroute
<1>2. TypeOK /\ op[m] \in Op /\ ok \in BOOLEAN /\ faults' \in 0..MaxFaults
  BY <1>1, CountedType DEF IInv, TypeOK
<1>3. n(ok, r) \in Op /\ n(ok, r).ret = op[m].ret /\ n(ok, r).kind = op[m].kind
  BY <1>2 DEF Op
<1> HIDE DEF n
<1>4. /\ o(ok, r) \in Op /\ o(ok, r).pc \in CleanPCs
      /\ o(ok, r).ret = op[m].ret /\ o(ok, r).kind = op[m].kind
  BY <1>3, UnroutePCType DEF Op, PCs, CleanPCs
<1> HIDE DEF o
<1>5. op'[m] = o(ok, r)
  BY <1>1, <1>2, <1>4, GotoType
<1>6. UNCHANGED <<stored, always, conns, pref, bearer, addrs, booting, crashes>>
  BY DEF Unroute, disk, memory, link
<1>7. Safe(m)'
  <2>1. op[m].pc = "unroute" /\ Safe(m)
    BY DEF Unroute, IInv
  <2> QED
    BY <1>4, <1>5, <1>6, <2>1, SafeWithin DEF Safe, Back, BackPCs, MovePCs, CleanPCs
<1>8. kernel' \subseteq Route
  BY <1>1, <1>2, WithoutType DEF TypeOK
<1> QED
  BY <1>1, <1>2, <1>4, <1>6, <1>7, <1>8, StepOf DEF TypeOK

LEMMA RestoreAddStep ==
  ASSUME IInv, NEW m \in Modems, RestoreAdd(m)
  PROVE  IInv'
<1> DEFINE n(c) == [op[m] EXCEPT !.todo = @ \ {c}, !.err = TRUE, !.kept = TRUE]
           o(back, c) == IF back THEN [op[m] EXCEPT !.pc = "restoreDel"]
                                 ELSE [n(c) EXCEPT !.pc = RestorePC(n(c))]
<1>1. PICK ok \in Outcomes, c \in op[m].todo, back \in BOOLEAN :
        /\ kernel' = IF back THEN kernel \cup {c.orig} ELSE kernel
        /\ Counted(ok)
        /\ Goto(m, o(back, c))
  <2>1. PICK ok \in Outcomes, c \in op[m].todo :
          /\ kernel' = IF ok /\ Restorable(c.orig) THEN kernel \cup {c.orig} ELSE kernel
          /\ Counted(ok)
          /\ Goto(m, o(ok /\ Restorable(c.orig), c))
    BY DEF RestoreAdd
  <2>2. (ok /\ Restorable(c.orig)) \in BOOLEAN
    OBVIOUS
  <2> QED
    BY <2>1, <2>2
<1>2. TypeOK /\ op[m] \in Op /\ faults' \in 0..MaxFaults
  BY <1>1, CountedType DEF IInv, TypeOK
<1>3. n(c) \in Op /\ n(c).ret = op[m].ret /\ n(c).kind = op[m].kind
  BY <1>2 DEF Op
<1> HIDE DEF n
<1>4. /\ o(back, c) \in Op /\ o(back, c).pc \in CleanPCs \cup {"restoreDel"}
      /\ o(back, c).ret = op[m].ret /\ o(back, c).kind = op[m].kind
  BY <1>2, <1>3, UnroutePCType DEF Op, PCs, CleanPCs
<1> HIDE DEF o
<1>5. op'[m] = o(back, c)
  BY <1>1, <1>2, <1>4, GotoType
<1>6. UNCHANGED <<stored, always, conns, pref, bearer, addrs, booting, crashes>>
  BY DEF RestoreAdd, disk, memory, link
<1>7. Safe(m)'
  <2>1. op[m].pc = "restoreAdd" /\ Safe(m)
    BY DEF RestoreAdd, IInv
  <2> QED
    BY <1>4, <1>5, <1>6, <2>1, SafeWithin DEF Safe, Back, BackPCs, MovePCs, CleanPCs
<1>8. kernel' \subseteq Route
  BY <1>1, <1>2 DEF TypeOK, Op, Change
<1> QED
  BY <1>1, <1>2, <1>4, <1>6, <1>7, <1>8, StepOf DEF TypeOK

LEMMA RestoreDelStep ==
  ASSUME IInv, NEW m \in Modems, RestoreDel(m)
  PROVE  IInv'
<1> DEFINE n(ok, c) == [op[m] EXCEPT !.todo = @ \ {c}, !.err = @ \/ ~ok, !.kept = @ \/ ~ok]
           o(ok, c) == [n(ok, c) EXCEPT !.pc = RestorePC(n(ok, c))]
<1>1. PICK ok \in Outcomes, c \in op[m].todo :
        /\ kernel' = IF ok THEN Without(kernel, c.repl) ELSE kernel
        /\ Counted(ok)
        /\ Goto(m, o(ok, c))
  BY DEF RestoreDel
<1>2. TypeOK /\ op[m] \in Op /\ ok \in BOOLEAN /\ faults' \in 0..MaxFaults
  BY <1>1, CountedType DEF IInv, TypeOK
<1>3. n(ok, c) \in Op /\ n(ok, c).ret = op[m].ret /\ n(ok, c).kind = op[m].kind
  BY <1>2 DEF Op
<1> HIDE DEF n
<1>4. /\ o(ok, c) \in Op /\ o(ok, c).pc \in CleanPCs
      /\ o(ok, c).ret = op[m].ret /\ o(ok, c).kind = op[m].kind
  BY <1>3, UnroutePCType DEF Op, PCs, CleanPCs
<1> HIDE DEF o
<1>5. op'[m] = o(ok, c)
  BY <1>1, <1>2, <1>4, GotoType
<1>6. UNCHANGED <<stored, always, conns, pref, bearer, addrs, booting, crashes>>
  BY DEF RestoreDel, disk, memory, link
<1>7. Safe(m)'
  <2>1. op[m].pc = "restoreDel" /\ Safe(m)
    BY DEF RestoreDel, IInv
  <2> QED
    BY <1>4, <1>5, <1>6, <2>1, SafeWithin DEF Safe, Back, BackPCs, MovePCs, CleanPCs
<1>8. kernel' \subseteq Route
  BY <1>1, <1>2, WithoutType DEF TypeOK
<1> QED
  BY <1>1, <1>2, <1>4, <1>6, <1>7, <1>8, StepOf DEF TypeOK


LEMMA DropStateStep ==
  ASSUME IInv, NEW m \in Modems, DropState(m)
  PROVE  IInv'
<1> DEFINE next(bad) == CASE bad /\ op[m].ret = "plan" -> "abort"
                          [] bad /\ op[m].ret = "sync" /\ op[m].kind = "current" -> "stale"
                          [] bad /\ op[m].ret = "sync" /\ op[m].kind # "current" -> "bearerDown"
                          [] OTHER -> op[m].ret
           n(bad) == [op[m] EXCEPT !.pc = next(bad), !.failed = @ \/ bad]
           o(bad) == IF next(bad) = "stale" THEN Stale(n(bad), "forget") ELSE n(bad)
<1>1. PICK ok \in Outcomes, bad \in BOOLEAN :
        /\ stored' = stored \/ stored' = [stored EXCEPT ![m] = NoEntry]
        /\ kernel' \subseteq kernel /\ addrs' \subseteq addrs
        /\ Counted(ok)
        /\ Goto(m, o(bad))
  <2>1. PICK ok \in Outcomes :
          /\ stored' = IF Spent(op[m], ok) THEN [stored EXCEPT ![m] = NoEntry] ELSE stored
          /\ kernel' = kernel \/ kernel' = Unaddressed(m)
          /\ addrs' = addrs \/ addrs' = addrs \ {m}
          /\ Counted(ok)
          /\ Goto(m, o(op[m].err \/ ~ok))
    BY DEF DropState
  <2>2. (op[m].err \/ ~ok) \in BOOLEAN
    OBVIOUS
  <2>3. kernel' \subseteq kernel /\ addrs' \subseteq addrs
    BY <2>1 DEF Unaddressed
  <2> QED
    BY <2>1, <2>2, <2>3
<1>2. /\ TypeOK /\ op[m] \in Op /\ faults' \in 0..MaxFaults /\ Safe(m)
      /\ op[m].pc = "dropState" /\ op[m].ret \in Rets \ {"none"}
  <2>1. op[m] \in Op /\ Safe(m) /\ op[m].pc = "dropState"
    BY DEF IInv, TypeOK, DropState
  <2> QED
    BY <1>1, <2>1, CountedType DEF IInv, Safe, Back, BackPCs, CleanPCs, Rets, Op
<1>3. next(bad) \in {"sync", "bearerDown", "abort", "forget", "stale"} \cup {op[m].ret}
  OBVIOUS
<1>4. next(bad) = "plan" => op[m].ret = "plan"
  OBVIOUS
<1> HIDE DEF next
<1>5. /\ n(bad) \in Op /\ n(bad).ret = op[m].ret /\ n(bad).kind = op[m].kind
      /\ n(bad).pc = next(bad)
  <2>1. next(bad) \in PCs
    BY <1>2, <1>3 DEF PCs, Rets
  <2> QED
    BY <1>2, <2>1 DEF Op
<1> HIDE DEF n
<1>6. /\ o(bad) \in Op /\ o(bad).pc = next(bad) /\ o(bad).kind = op[m].kind
      /\ o(bad).ret \in {op[m].ret, "forget"}
  BY <1>5, StaleType DEF Rets
<1> HIDE DEF o
<1>7. op'[m] = o(bad)
  BY <1>1, <1>2, <1>6, GotoType
<1>8. UNCHANGED <<always, conns, pref, bearer, booting, crashes>>
  BY DEF DropState, memory
<1>9. Safe(m)'
  <2>1. op'[m].pc \notin MovePCs \cup {"bearerUp"}
    BY <1>2, <1>3, <1>6, <1>7 DEF MovePCs, Rets
  <2>2. op'[m].pc = "plan" \/ op'[m].ret = "plan" => op[m].ret = "plan"
    BY <1>4, <1>6, <1>7
  <2>3. op'[m].ret # "none" /\ op'[m].kind = op[m].kind /\ op[m].pc # "idle"
    BY <1>2, <1>6, <1>7
  <2>4. op'[m].pc \in {"bearerUp", "plan"} \/ op'[m].ret = "plan" => op[m].ret = "plan"
    BY <2>1, <2>2
  <2>5. Safe(m) /\ booting' \subseteq booting /\ conns'[m].tracked = conns[m].tracked
    BY <1>2, <1>8
  <2>6. op'[m].pc \notin MovePCs
    BY <2>1
  <2> QED
    BY <2>3, <2>4, <2>5, <2>6, SafeWithin
<1>10. stored' \in [Modems -> Entry]
  <2>1. NoEntry \in Entry /\ stored \in [Modems -> Entry]
    BY <1>2 DEF TypeOK, Entry, NoEntry
  <2>2. CASE stored' = stored
    BY <2>1, <2>2
  <2>3. CASE stored' = [stored EXCEPT ![m] = NoEntry]
    BY <2>1, <2>3
  <2> QED
    BY <1>1, <2>2, <2>3
<1>11. \A k \in Modems \ {m} : stored'[k] = stored[k]
  BY <1>1, <1>2 DEF TypeOK
<1>12. kernel' \subseteq Route /\ addrs' \subseteq Modems
  BY <1>1, <1>2 DEF TypeOK
<1> QED
  BY <1>1, <1>2, <1>6, <1>8, <1>9, <1>10, <1>11, <1>12, StepOf DEF TypeOK

LEMMA BearerDownStep ==
  ASSUME IInv, NEW m \in Modems, BearerDown(m)
  PROVE  IInv'
<1> DEFINE n(ok) == [op[m] EXCEPT !.failed = @ \/ ~ok]
           o(ok) == Stale(n(ok), "forget")
<1>1. PICK ok \in Outcomes :
        /\ bearer' = IF ok THEN [bearer EXCEPT ![m] = FALSE] ELSE bearer
        /\ Counted(ok)
        /\ Goto(m, o(ok))
  BY DEF BearerDown
<1>2. /\ TypeOK /\ op[m] \in Op /\ ok \in BOOLEAN /\ faults' \in 0..MaxFaults
      /\ Safe(m) /\ op[m].pc = "bearerDown"
  BY <1>1, CountedType DEF IInv, TypeOK, BearerDown
<1>3. n(ok) \in Op
  BY <1>2 DEF Op
<1> HIDE DEF n
<1>4. o(ok) \in Op /\ Calm(o(ok))
  BY <1>3, StaleType DEF Rets, Calm, MovePCs
<1> HIDE DEF o
<1>5. op'[m] = o(ok)
  BY <1>1, <1>2, <1>4, GotoType
<1>6. UNCHANGED <<kernel, stored, always, conns, pref, addrs, booting, crashes>>
  BY DEF BearerDown, disk, memory
<1>7. Safe(m)'
  BY <1>2, <1>4, <1>5, <1>6, SafeCalm DEF Safe, Booted
<1>8. bearer' \in [Modems -> BOOLEAN]
  BY <1>1, <1>2 DEF TypeOK
<1> QED
  BY <1>1, <1>2, <1>4, <1>6, <1>7, <1>8, StepOf DEF TypeOK

LEMMA LoadStaleStep ==
  ASSUME IInv, NEW m \in Modems, LoadStale(m)
  PROVE  IInv'
<1> DEFINE C == Cleanup(op[m], stored[m].preferred \cap kernel, stored[m].changes, op[m].ret)
<1>1. PICK ok \in Outcomes, o \in { [op[m] EXCEPT !.pc = "abort"],
                                     [op[m] EXCEPT !.pc = op[m].ret, !.failed = TRUE],
                                     C,
                                     [op[m] EXCEPT !.pc = op[m].ret] } :
        Counted(ok) /\ Goto(m, o)
  <2>1. PICK ok \in Outcomes :
          /\ Counted(ok)
          /\ Goto(m, CASE ~ok /\ op[m].ret = "plan" -> [op[m] EXCEPT !.pc = "abort"]
                       [] ~ok /\ op[m].ret # "plan" -> [op[m] EXCEPT !.pc = op[m].ret, !.failed = TRUE]
                       [] ok /\ stored[m].saved -> C
                       [] OTHER -> [op[m] EXCEPT !.pc = op[m].ret])
    BY DEF LoadStale
  <2> HIDE DEF C
  <2> QED
    BY <2>1
<1>2. /\ TypeOK /\ op[m] \in Op /\ faults' \in 0..MaxFaults /\ Safe(m)
      /\ op[m].pc = "stale" /\ op[m].ret \in Rets \ {"none"}
  <2>1. op[m] \in Op /\ Safe(m) /\ op[m].pc = "stale"
    BY DEF IInv, TypeOK, LoadStale
  <2> QED
    BY <1>1, <2>1, CountedType DEF IInv, Safe, Back, BackPCs, Rets, Op
<1>3. C \in Op /\ C.pc \in CleanPCs /\ C.ret = op[m].ret /\ C.kind = op[m].kind
  <2>1. stored[m] \in Entry
    BY <1>2 DEF TypeOK
  <2> QED
    BY <1>2, <2>1, CleanupType DEF Entry
<1> HIDE DEF C
<1>4. /\ o \in Op /\ o.ret = op[m].ret /\ o.kind = op[m].kind
      /\ o.pc \in CleanPCs \cup {"abort", op[m].ret}
  <2>1. op[m] \in Op /\ op[m].ret \in PCs /\ "abort" \in PCs
    BY <1>2 DEF PCs, Rets
  <2>2. CASE o = [op[m] EXCEPT !.pc = "abort"]
    BY <2>1, <2>2 DEF Op
  <2>3. CASE o = [op[m] EXCEPT !.pc = op[m].ret, !.failed = TRUE]
    BY <2>1, <2>3 DEF Op
  <2>4. CASE o = C
    BY <1>3, <2>4
  <2>5. CASE o = [op[m] EXCEPT !.pc = op[m].ret]
    BY <2>1, <2>5 DEF Op
  <2> QED
    BY <1>1, <2>2, <2>3, <2>4, <2>5
<1>5. op'[m] = o
  BY <1>1, <1>2, <1>4, GotoType
<1>6. UNCHANGED <<kernel, stored, always, conns, pref, bearer, addrs, booting, crashes>>
  BY DEF LoadStale, disk, memory, link
<1>7. Safe(m)'
  BY <1>2, <1>4, <1>5, <1>6, SafeWithin DEF MovePCs, CleanPCs, Rets
<1> QED
  BY <1>1, <1>2, <1>4, <1>6, <1>7, StepOf DEF TypeOK

LEMMA ForgetStep ==
  ASSUME IInv, NEW m \in Modems, Forget(m)
  PROVE  IInv'
<1> DEFINE up == [NoOp EXCEPT !.kind = "connect", !.want = op[m].want,
                              !.always = op[m].always, !.pc = "bearerUp"]
           gone == [conns EXCEPT ![m] = Untracked]
<1>1. PICK o \in {up, NoOp} :
        /\ Goto(m, o)
        /\ conns' = gone \/ (conns' = conns /\ o = NoOp)
        /\ pref' = [pref EXCEPT ![m] = FALSE] \/ pref' = pref
  <2> HIDE DEF gone
  <2>1. PICK o \in {up, NoOp} :
          /\ Goto(m, o)
          /\ op[m].kind = "connect" \/ o = NoOp
          /\ conns' = IF op[m].kind = "keep" \/ (op[m].kind = "current" /\ op[m].failed)
                      THEN conns ELSE gone
          /\ pref' = [pref EXCEPT ![m] = FALSE] \/ pref' = pref
    <3>1. CASE op[m].kind = "connect" /\ ~op[m].failed
      BY <3>1 DEF Forget, gone
    <3>2. CASE ~(op[m].kind = "connect" /\ ~op[m].failed)
      BY <3>2 DEF Forget, gone
    <3> QED
      BY <3>1, <3>2
  <2> HIDE DEF up
  <2> QED
    BY <2>1
<1>2. TypeOK /\ op[m] \in Op /\ Safe(m) /\ op[m].pc = "forget"
  BY DEF IInv, TypeOK, Forget
<1>3. /\ up \in Op /\ up.pc = "bearerUp" /\ up.ret = "none"
      /\ NoOp \in Op /\ Calm(NoOp)
  <2>1. op[m].want \in BOOLEAN /\ op[m].always \in BOOLEAN
    BY <1>2 DEF Op
  <2>2. up \in Op /\ up.pc = "bearerUp" /\ up.ret = NoOp.ret
    BY <2>1, NoOpType DEF Op, PCs, Kinds
  <2>3. NoOp.ret = "none" /\ Calm(NoOp)
    BY SMT DEF NoOp, Calm, MovePCs, BackPCs, CleanPCs
  <2> QED
    BY <2>2, <2>3, NoOpType
<1> HIDE DEF up
<1>4. op'[m] = o /\ o \in Op
  BY <1>1, <1>2, <1>3, GotoType
<1>5. UNCHANGED <<kernel, stored, always, bearer, addrs, booting, faults, crashes>>
  BY DEF Forget, disk, link
<1>6. conns' \in [Modems -> Connection] /\ pref' \in [Modems -> BOOLEAN]
  <2>1. Untracked \in Connection
    BY DEF Untracked, Connection
  <2> QED
    BY <1>1, <1>2, <2>1 DEF TypeOK
<1>7. \A k \in Modems \ {m} : conns'[k] = conns[k]
  BY <1>1, <1>2 DEF TypeOK
<1>8. m \notin booting'
  BY <1>2, <1>5 DEF Safe, Booted
<1>9. CASE o = NoOp
  <2>1. Safe(m)'
    BY <1>3, <1>4, <1>8, <1>9, SafeCalm
  <2> QED
    BY <1>1, <1>2, <1>4, <1>5, <1>6, <1>7, <2>1, StepOf DEF TypeOK
<1>10. CASE o = up /\ conns' = gone
  <2>1. ~conns'[m].tracked
    BY <1>2, <1>10 DEF TypeOK, Untracked
  <2>2. Safe(m)'
    BY <1>3, <1>4, <1>8, <1>10, <2>1 DEF Safe, Booted, Fresh, Ahead, Back, MovePCs, BackPCs, CleanPCs
  <2> QED
    BY <1>1, <1>2, <1>4, <1>5, <1>6, <1>7, <2>2, StepOf DEF TypeOK
<1> QED
  BY <1>1, <1>9, <1>10


-----------------------------------------------------------------------------
(* Every step of a connect or a recovery keeps IInv. *)

LEMMA BearerUpStep ==
  ASSUME IInv, NEW m \in Modems, BearerUp(m)
  PROVE  IInv'
<1>1. TypeOK /\ op[m] \in Op /\ Safe(m) /\ op[m].pc = "bearerUp"
  BY DEF IInv, TypeOK, BearerUp
<1>2. UNCHANGED <<kernel, stored, always, conns, pref, booting, crashes>>
  BY DEF BearerUp, disk, memory
<1>3. PICK o \in Op :
        /\ Goto(m, o)
        /\ \/ o.pc \in {"abort", "stale", "addRoute"} /\ o.kind = op[m].kind
           \/ o = NoOp
        /\ o.pc = "stale" => o.ret = "plan"
        /\ bearer' = [bearer EXCEPT ![m] = TRUE] \/ bearer' = [bearer EXCEPT ![m] = FALSE]
        /\ addrs' \subseteq Modems /\ faults' \in 0..MaxFaults
  <2>1. CASE \E ok \in Outcomes \ {TRUE}, connected \in BOOLEAN :
               /\ bearer' = [bearer EXCEPT ![m] = connected]
               /\ Goto(m, IF connected THEN [op[m] EXCEPT !.pc = "abort"] ELSE NoOp)
               /\ Counted(ok)
               /\ UNCHANGED addrs
    <3>1. PICK ok \in Outcomes, connected \in BOOLEAN :
               /\ bearer' = [bearer EXCEPT ![m] = connected]
               /\ Goto(m, IF connected THEN [op[m] EXCEPT !.pc = "abort"] ELSE NoOp)
               /\ Counted(ok)
               /\ addrs' = addrs
      BY <2>1
    <3>2. faults' \in 0..MaxFaults /\ addrs' \subseteq Modems
      BY <1>1, <3>1, CountedType DEF TypeOK
    <3>3. [op[m] EXCEPT !.pc = "abort"] \in Op /\ NoOp \in Op
      BY <1>1, NoOpType DEF Op, PCs
    <3>4. [op[m] EXCEPT !.pc = "abort"].kind = op[m].kind /\ [op[m] EXCEPT !.pc = "abort"].pc = "abort"
      BY <1>1 DEF Op
    <3>5. NoOp.pc = "idle"
      BY DEF NoOp
    <3> QED
      BY <3>1, <3>2, <3>3, <3>4, <3>5
  <2>2. CASE /\ bearer' = [bearer EXCEPT ![m] = TRUE]
             /\ addrs' = addrs \cup {m}
             /\ IF op[m].want THEN Goto(m, Stale(op[m], "plan"))
                ELSE \E k \in SecondaryMetrics(FamiliesOf[m], kernel) :
                       Goto(m, [op[m] EXCEPT !.pc = "addRoute", !.routes = OwnRoutes(m, k)])
             /\ UNCHANGED faults
    <3>1. faults' \in 0..MaxFaults /\ addrs' \subseteq Modems
      BY <1>1, <2>2 DEF TypeOK
    <3>2. CASE op[m].want
      BY <1>1, <2>2, <3>1, <3>2, StaleType DEF Rets
    <3>3. CASE ~op[m].want
      <4>1. PICK k \in SecondaryMetrics(FamiliesOf[m], kernel) :
              Goto(m, [op[m] EXCEPT !.pc = "addRoute", !.routes = OwnRoutes(m, k)])
        BY <2>2, <3>3
      <4>2. OwnRoutes(m, k) \subseteq Route
        BY OwnType, SecondaryType
      <4> DEFINE o == [op[m] EXCEPT !.pc = "addRoute", !.routes = OwnRoutes(m, k)]
      <4>3. o \in Op /\ o.pc = "addRoute" /\ o.kind = op[m].kind
        BY <1>1, <4>2 DEF Op, PCs
      <4> HIDE DEF o
      <4> QED
        BY <2>2, <3>1, <4>1, <4>3 DEF o
    <3> QED
      BY <3>2, <3>3
  <2> QED
    BY <2>1, <2>2 DEF BearerUp
<1>4. op'[m] = o
  BY <1>1, <1>3, GotoType
<1>5. Safe(m)'
  <2>1. CASE o = NoOp
    <3>1. Calm(NoOp)
      BY SMT DEF NoOp, Calm, MovePCs, BackPCs, CleanPCs
    <3>2. m \notin booting'
      BY <1>1, <1>2 DEF Safe, Booted
    <3> QED
      BY <1>4, <2>1, <3>1, <3>2, SafeCalm
  <2>2. CASE o.pc \in {"abort", "stale", "addRoute"} /\ o.kind = op[m].kind
    BY <1>1, <1>2, <1>3, <1>4, <2>2, SafeWithin DEF MovePCs, BackPCs, CleanPCs
  <2> QED
    BY <1>3, <2>1, <2>2
<1>6. bearer' \in [Modems -> BOOLEAN]
  BY <1>1, <1>3 DEF TypeOK
<1> QED
  BY <1>1, <1>2, <1>3, <1>5, <1>6, StepOf DEF TypeOK

LEMMA PlanStep ==
  ASSUME IInv, NEW m \in Modems, Plan(m)
  PROVE  IInv'
<1> DEFINE P == IF op[m].kind = "connect" THEN OwnRoutes(m, DefaultRouteMetric) ELSE op[m].added
           refused == IF op[m].kind = "connect" THEN [op[m] EXCEPT !.pc = "abort"] ELSE NoOp
           go(C) == [op[m] EXCEPT !.pc = "moveDel", !.todo = C, !.done = {}]
<1>1. TypeOK /\ op[m] \in Op /\ Safe(m) /\ op[m].pc = "plan"
  BY DEF IInv, TypeOK, Plan
<1>2. UNCHANGED <<kernel, always, conns, pref, bearer, addrs, booting, crashes>>
  BY DEF Plan, memory, link
<1>3. m \notin booting'
  BY <1>1, <1>2 DEF Safe, Booted
<1>4. PICK ok \in Outcomes, C \in DefaultRouteChanges(kernel, P) :
        /\ Counted(ok)
        /\ \/ Goto(m, Settle(m, op[m])) /\ UNCHANGED stored
           \/ stored' = [stored EXCEPT ![m] = Recorded(P, C)] /\ Goto(m, go(C))
           \/ Goto(m, refused) /\ UNCHANGED stored
  BY DEF Plan
<1>5. faults' \in 0..MaxFaults
  BY <1>1, <1>4, CountedType
<1>6. CASE Goto(m, Settle(m, op[m])) /\ UNCHANGED stored
  <2>1. op'[m] = Settle(m, op[m])
    BY <1>1, <1>6, SettleType, GotoType
  <2>2. Safe(m)'
    BY <1>1, <1>2, <2>1, SettleType, SafeWithin DEF MovePCs, BackPCs, CleanPCs
  <2> QED
    BY <1>1, <1>2, <1>5, <1>6, <2>2, SettleType, StepOf DEF TypeOK
<1>7. CASE stored' = [stored EXCEPT ![m] = Recorded(P, C)] /\ Goto(m, go(C))
  <2>1. C \subseteq Change
    BY <1>1, ChangesType DEF TypeOK
  <2>2. P \subseteq Route
    BY <1>1, OwnType DEF Op, DefaultRouteMetric
  <2> HIDE DEF P
  <2>3. Recorded(P, C) \in Entry
    BY <2>1, <2>2 DEF Recorded, Entry
  <2>4. /\ stored' \in [Modems -> Entry] /\ stored'[m] = Recorded(P, C)
        /\ \A k \in Modems \ {m} : stored'[k] = stored[k]
    BY <1>1, <1>7, <2>3 DEF TypeOK
  <2>5. /\ go(C) \in Op /\ go(C).pc = "moveDel" /\ go(C).kind = op[m].kind
        /\ go(C).todo = C /\ go(C).done = {}
    BY <1>1, <2>1 DEF Op, PCs
  <2> HIDE DEF go
  <2>6. op'[m] = go(C)
    BY <1>1, <1>7, <2>5, GotoType
  <2>7. Fresh(m)'
    BY <1>1, <1>2, <2>5, <2>6 DEF Safe, Fresh
  <2>8. Ahead(m)'
    BY <2>4, <2>5, <2>6 DEF Ahead, Recorded
  <2>9. Safe(m)'
    BY <1>3, <2>5, <2>6, <2>7, <2>8 DEF Safe, Booted, Back, BackPCs, CleanPCs
  <2> QED
    BY <1>1, <1>2, <1>5, <1>7, <2>4, <2>5, <2>9, StepOf DEF TypeOK
<1>8. CASE Goto(m, refused) /\ UNCHANGED stored
  <2>1. CASE op[m].kind = "connect"
    <3> DEFINE o == [op[m] EXCEPT !.pc = "abort"]
    <3>1. o \in Op /\ o.pc = "abort" /\ o.kind = op[m].kind
      BY <1>1 DEF Op, PCs
    <3>2. Goto(m, o)
      BY <1>8, <2>1
    <3> HIDE DEF o
    <3>3. op'[m] = o
      BY <1>1, <3>1, <3>2, GotoType
    <3>4. Safe(m)'
      BY <1>1, <1>2, <3>1, <3>3, SafeWithin DEF MovePCs, BackPCs, CleanPCs
    <3> QED
      BY <1>1, <1>2, <1>5, <1>8, <3>1, <3>2, <3>4, StepOf DEF TypeOK
  <2>2. CASE op[m].kind # "connect"
    <3>1. Goto(m, NoOp) /\ op'[m] = NoOp
      BY <1>1, <1>8, <2>2, NoOpType, GotoType
    <3>2. Calm(NoOp)
      BY SMT DEF NoOp, Calm, MovePCs, BackPCs, CleanPCs
    <3>3. Safe(m)'
      BY <1>3, <3>1, <3>2, SafeCalm
    <3> QED
      BY <1>1, <1>2, <1>5, <1>8, <3>1, <3>3, NoOpType, StepOf DEF TypeOK
  <2> QED
    BY <2>1, <2>2
<1> QED
  BY <1>4, <1>6, <1>7, <1>8


LEMMA MoveDelStep ==
  ASSUME IInv, NEW m \in Modems, MoveDel(m)
  PROVE  IInv'
<1> DEFINE go == [op[m] EXCEPT !.pc = "moveAdd"]
           back == BackOut(op[m], op[m].done)
<1>1. TypeOK /\ op[m] \in Op /\ Safe(m) /\ op[m].pc = "moveDel"
  BY DEF IInv, TypeOK, MoveDel
<1>2. UNCHANGED <<stored, always, conns, pref, bearer, addrs, booting, crashes>>
  BY DEF MoveDel, disk, memory, link
<1>3. PICK ok \in Outcomes, c \in op[m].todo :
        /\ kernel' = IF ok THEN Without(kernel, c.orig) ELSE kernel
        /\ Counted(ok)
        /\ Goto(m, IF ok THEN go ELSE back)
  BY DEF MoveDel
<1>4. faults' \in 0..MaxFaults /\ kernel' \subseteq Route
  BY <1>1, <1>3, CountedType, WithoutType DEF TypeOK
<1>5. /\ go \in Op /\ go.pc = "moveAdd" /\ go.ret = op[m].ret /\ go.kind = op[m].kind
      /\ go.todo = op[m].todo /\ go.done = op[m].done
  BY <1>1 DEF Op, PCs
<1>6. back \in Op /\ Calm(back)
  <2>1. op[m].done \subseteq Change
    BY <1>1 DEF Op
  <2> QED
    BY <1>1, <2>1, BackOutType
<1> HIDE DEF go, back
<1>7. m \notin booting'
  BY <1>1, <1>2 DEF Safe, Booted
<1>8. CASE ok
  <2>1. op'[m] = go
    BY <1>1, <1>3, <1>5, <1>8, GotoType
  <2>2. Safe(m)'
    BY <1>1, <1>2, <1>5, <1>7, <2>1 DEF Safe, Booted, Fresh, Ahead, Back, MovePCs, BackPCs, CleanPCs
  <2> QED
    BY <1>1, <1>2, <1>3, <1>4, <1>5, <1>8, <2>2, StepOf DEF TypeOK
<1>9. CASE ~ok
  <2>1. op'[m] = back
    BY <1>1, <1>3, <1>6, <1>9, GotoType
  <2>2. Safe(m)'
    BY <1>6, <1>7, <2>1, SafeCalm
  <2> QED
    BY <1>1, <1>2, <1>3, <1>4, <1>6, <1>9, <2>2, StepOf DEF TypeOK
<1> QED
  BY <1>8, <1>9

LEMMA MoveAddStep ==
  ASSUME IInv, NEW m \in Modems, MoveAdd(m)
  PROVE  IInv'
<1> DEFINE n(c) == [op[m] EXCEPT !.todo = @ \ {c}, !.done = @ \cup {c}]
           undo == [op[m] EXCEPT !.pc = "moveUndo"]
           more(c) == [n(c) EXCEPT !.pc = "moveDel"]
<1>1. TypeOK /\ op[m] \in Op /\ Safe(m) /\ op[m].pc = "moveAdd"
  BY DEF IInv, TypeOK, MoveAdd
<1>2. UNCHANGED <<stored, always, conns, pref, bearer, addrs, booting, crashes>>
  BY DEF MoveAdd, disk, memory, link
<1>3. PICK ok \in Outcomes, c \in op[m].todo :
        \E o \in {undo, more(c), Settle(m, n(c))} :
        /\ kernel' = kernel \cup {c.repl} \/ kernel' = kernel
        /\ Counted(ok)
        /\ Goto(m, o)
  <2>1. PICK ok \in Outcomes, c \in op[m].todo :
        /\ kernel' = IF ok /\ Accepted(c.repl) THEN kernel \cup {c.repl} ELSE kernel
        /\ Counted(ok)
        /\ Goto(m, CASE ~(ok /\ Accepted(c.repl)) -> undo
                     [] (ok /\ Accepted(c.repl)) /\ n(c).todo # {} -> more(c)
                     [] OTHER -> Settle(m, n(c)))
    BY DEF MoveAdd
  <2> HIDE DEF n, undo, more
  <2> QED
    BY <2>1
<1>3a. PICK o \in {undo, more(c), Settle(m, n(c))} :
        /\ kernel' = kernel \cup {c.repl} \/ kernel' = kernel
        /\ Counted(ok)
        /\ Goto(m, o)
  BY <1>3
<1>4. faults' \in 0..MaxFaults /\ kernel' \subseteq Route
  BY <1>1, <1>3a, CountedType DEF TypeOK, Op, Change
<1>5. m \notin booting'
  BY <1>1, <1>2 DEF Safe, Booted
<1>6. /\ n(c) \in Op /\ n(c).ret = op[m].ret /\ n(c).kind = op[m].kind
      /\ n(c).todo \cup n(c).done = op[m].todo \cup op[m].done
  BY <1>1, <1>3 DEF Op
<1> HIDE DEF n
<1>7. /\ more(c) \in Op /\ more(c).pc = "moveDel"
      /\ more(c).ret = op[m].ret /\ more(c).kind = op[m].kind
      /\ more(c).todo \cup more(c).done = op[m].todo \cup op[m].done
  BY <1>6 DEF Op, PCs
<1>8. /\ undo \in Op /\ undo.pc = "moveUndo" /\ undo.ret = op[m].ret /\ undo.kind = op[m].kind
      /\ undo.todo = op[m].todo /\ undo.done = op[m].done
  BY <1>1 DEF Op, PCs
<1> HIDE DEF more, undo
<1>9. CASE o \in {undo, more(c)}
  <2>1. o \in Op /\ op'[m] = o
    BY <1>1, <1>3a, <1>7, <1>8, <1>9, GotoType
  <2>2. /\ op'[m].pc \in {"moveDel", "moveUndo"} /\ op'[m].kind = op[m].kind
        /\ op'[m].todo \cup op'[m].done = op[m].todo \cup op[m].done
    BY <1>7, <1>8, <1>9, <2>1
  <2>3. Safe(m)'
    BY <1>1, <1>2, <1>5, <2>2 DEF Safe, Booted, Fresh, Ahead, Back, MovePCs, BackPCs, CleanPCs
  <2> QED
    BY <1>1, <1>2, <1>3a, <1>4, <2>1, <2>3, StepOf DEF TypeOK
<1>10. CASE o = Settle(m, n(c))
  <2>1. /\ o \in Op /\ op'[m] = o
        /\ o.pc \in {"addRoute", "saveAlways", "track"} /\ o.kind = op[m].kind
    BY <1>1, <1>3a, <1>6, <1>10, SettleType, GotoType
  <2>2. Safe(m)'
    BY <1>1, <1>2, <2>1, SafeWithin DEF MovePCs, BackPCs, CleanPCs
  <2> QED
    BY <1>1, <1>2, <1>3a, <1>4, <2>1, <2>2, StepOf DEF TypeOK
<1> QED
  BY <1>3a, <1>9, <1>10

LEMMA MoveUndoStep ==
  ASSUME IInv, NEW m \in Modems, MoveUndo(m)
  PROVE  IInv'
<1>1. TypeOK /\ op[m] \in Op /\ Safe(m) /\ op[m].pc = "moveUndo"
  BY DEF IInv, TypeOK, MoveUndo
<1>2. UNCHANGED <<stored, always, conns, pref, bearer, addrs, booting, crashes>>
  BY DEF MoveUndo, disk, memory, link
<1>3. PICK ok \in Outcomes, c \in op[m].todo :
        \E D \in {op[m].done, op[m].done \cup {c}} :
        /\ kernel' = kernel \cup {c.orig} \/ kernel' = kernel
        /\ Counted(ok)
        /\ Goto(m, BackOut(op[m], D))
  <2>1. PICK ok \in Outcomes, c \in op[m].todo :
        /\ kernel' = IF ok /\ Restorable(c.orig) THEN kernel \cup {c.orig} ELSE kernel
        /\ Counted(ok)
        /\ Goto(m, BackOut(op[m], IF ok /\ Restorable(c.orig) THEN op[m].done ELSE op[m].done \cup {c}))
    BY DEF MoveUndo
  <2> QED
    BY <2>1
<1>3a. PICK D \in {op[m].done, op[m].done \cup {c}} :
        /\ kernel' = kernel \cup {c.orig} \/ kernel' = kernel
        /\ Counted(ok)
        /\ Goto(m, BackOut(op[m], D))
  BY <1>3
<1>4. faults' \in 0..MaxFaults /\ kernel' \subseteq Route /\ D \subseteq Change
  BY <1>1, <1>3a, CountedType DEF TypeOK, Op, Change
<1>5. BackOut(op[m], D) \in Op /\ Calm(BackOut(op[m], D))
  BY <1>1, <1>4, BackOutType
<1>6. Safe(m)'
  <2>1. op'[m] = BackOut(op[m], D)
    BY <1>1, <1>3a, <1>5, GotoType
  <2> QED
    BY <1>1, <1>2, <1>5, <2>1, SafeCalm DEF Safe, Booted
<1> QED
  BY <1>1, <1>2, <1>3a, <1>4, <1>5, <1>6, StepOf DEF TypeOK

LEMMA AddRouteStep ==
  ASSUME IInv, NEW m \in Modems, AddRoute(m)
  PROVE  IInv'
<1> DEFINE rest(r) == op[m].routes \ {r}
           next(r) == IF rest(r) = {} THEN "saveAlways" ELSE "addRoute"
           go(r) == [op[m] EXCEPT !.routes = rest(r), !.added = @ \cup {r}, !.pc = next(r)]
           n == [op[m] EXCEPT !.failed = TRUE]
           back == Cleanup(n, op[m].added, op[m].done, "abort")
<1>1. TypeOK /\ op[m] \in Op /\ Safe(m) /\ op[m].pc = "addRoute"
  BY DEF IInv, TypeOK, AddRoute
<1>2. UNCHANGED <<stored, always, conns, pref, bearer, addrs, booting, crashes>>
  BY DEF AddRoute, disk, memory, link
<1>3. PICK ok \in Outcomes, r \in op[m].routes :
        \E o \in {go(r), back} :
        /\ kernel' = kernel \cup {r} \/ kernel' = kernel
        /\ Counted(ok)
        /\ Goto(m, o)
  <2>1. PICK ok \in Outcomes, r \in op[m].routes :
        /\ kernel' = IF ok /\ Accepted(r) THEN kernel \cup {r} ELSE kernel
        /\ Counted(ok)
        /\ Goto(m, IF ok /\ Accepted(r) THEN go(r) ELSE back)
    BY DEF AddRoute
  <2> HIDE DEF go, back
  <2> QED
    BY <2>1
<1>3a. PICK o \in {go(r), back} :
        /\ kernel' = kernel \cup {r} \/ kernel' = kernel
        /\ Counted(ok)
        /\ Goto(m, o)
  BY <1>3
<1>4. faults' \in 0..MaxFaults /\ kernel' \subseteq Route
  BY <1>1, <1>3a, CountedType DEF TypeOK, Op
<1>5. back \in Op /\ Calm(back)
  <2>1. n \in Op /\ op[m].added \subseteq Route /\ op[m].done \subseteq Change
    BY <1>1 DEF Op
  <2> QED
    BY <2>1, CleanupType DEF Rets, Calm, CleanPCs, MovePCs
<1>6. next(r) \in {"saveAlways", "addRoute"}
  OBVIOUS
<1> HIDE DEF next
<1>7. go(r) \in Op /\ go(r).pc = next(r) /\ go(r).ret = op[m].ret /\ go(r).kind = op[m].kind
  BY <1>1, <1>3a, <1>6 DEF Op, PCs
<1> HIDE DEF go, back
<1>8. o \in Op /\ op'[m] = o
  BY <1>1, <1>3a, <1>5, <1>7, GotoType
<1>9. Safe(m)'
  <2>1. CASE o = go(r)
    BY <1>1, <1>2, <1>6, <1>7, <1>8, <2>1, SafeWithin DEF MovePCs, BackPCs, CleanPCs
  <2>2. CASE o = back
    BY <1>1, <1>2, <1>5, <1>8, <2>2, SafeCalm DEF Safe, Booted
  <2> QED
    BY <1>3a, <2>1, <2>2
<1> QED
  BY <1>1, <1>2, <1>3a, <1>4, <1>8, <1>9, StepOf DEF TypeOK


LEMMA SaveAlwaysStep ==
  ASSUME IInv, NEW m \in Modems, SaveAlways(m)
  PROVE  IInv'
<1> DEFINE p == IF op[m].always THEN [on |-> TRUE, dflt |-> op[m].dflt] ELSE AlwaysOff
           go(pc) == [op[m] EXCEPT !.pc = pc]
<1>1. TypeOK /\ op[m] \in Op /\ Safe(m) /\ op[m].pc = "saveAlways"
  BY DEF IInv, TypeOK, SaveAlways
<1>2. UNCHANGED <<kernel, stored, conns, pref, bearer, addrs, booting, crashes>>
  BY DEF SaveAlways, memory, link
<1>3. PICK ok \in Outcomes :
        \E o \in {go("commit"), go("track"), Undo(op[m]), NoOp} :
        /\ always' = [always EXCEPT ![m] = p] \/ always' = always
        /\ Counted(ok)
        /\ Goto(m, o)
  <2>1. PICK ok \in Outcomes :
        /\ always' = IF ~ok THEN always ELSE [always EXCEPT ![m] = p]
        /\ Counted(ok)
        /\ Goto(m, CASE ok /\ op[m].kind = "connect" -> go("commit")
                     [] ok /\ op[m].kind # "connect" -> go("track")
                     [] ~ok /\ op[m].kind = "connect" -> Undo(op[m])
                     [] OTHER -> NoOp)
    BY DEF SaveAlways
  <2> HIDE DEF p, go
  <2> QED
    BY <2>1
<1>4. PICK o \in {go("commit"), go("track"), Undo(op[m]), NoOp} : Goto(m, o)
  BY <1>3
<1>5. p \in Preference
  BY <1>1 DEF Op, Preference, AlwaysOff
<1>6. always' \in [Modems -> Preference] /\ faults' \in 0..MaxFaults
  BY <1>1, <1>3, <1>5, CountedType DEF TypeOK
<1>7. ASSUME NEW pc \in {"commit", "track"}
      PROVE  go(pc) \in Op /\ go(pc).pc = pc /\ go(pc).ret = op[m].ret /\ go(pc).kind = op[m].kind
  BY <1>1 DEF Op, PCs
<1> HIDE DEF go, p
<1>8. o \in Op /\ op'[m] = o
  BY <1>1, <1>4, <1>7, UndoType, NoOpType, GotoType
<1>9. Safe(m)'
  <2>1. CASE o \in {go("commit"), go("track")}
    BY <1>1, <1>2, <1>7, <1>8, <2>1, SafeWithin DEF MovePCs, BackPCs, CleanPCs
  <2>2. CASE o \in {Undo(op[m]), NoOp}
    <3>1. Calm(NoOp)
      BY SMT DEF NoOp, Calm, MovePCs, BackPCs, CleanPCs
    <3>2. m \notin booting'
      BY <1>1, <1>2 DEF Safe, Booted
    <3> QED
      BY <1>1, <1>8, <2>2, <3>1, <3>2, UndoType, SafeCalm
  <2> QED
    BY <1>4, <2>1, <2>2
<1> QED
  BY <1>1, <1>2, <1>4, <1>6, <1>8, <1>9, StepOf DEF TypeOK

LEMMA TrackStep ==
  ASSUME IInv, NEW m \in Modems, Track(m)
  PROVE  IInv'
<1> DEFINE t == [tracked |-> TRUE, routes |-> op[m].added, changes |-> op[m].done,
                 dflt |-> op[m].dflt, always |-> op[m].always]
<1>1. TypeOK /\ op[m] \in Op /\ Safe(m) /\ op[m].pc = "track"
  BY DEF IInv, TypeOK, Track
<1>2. UNCHANGED <<kernel, stored, always, bearer, addrs, booting, crashes>>
  BY DEF Track, disk, link
<1>3. PICK ok \in Outcomes :
        /\ Counted(ok)
        /\ conns' = IF ~ok THEN conns ELSE [conns EXCEPT ![m] = t]
        /\ pref' = IF ok THEN [pref EXCEPT ![m] = op[m].dflt] ELSE pref
        /\ Goto(m, NoOp)
  BY DEF Track, Remember, memory
<1>4. t \in Connection /\ op[m].dflt \in BOOLEAN
  BY <1>1 DEF Op, Connection
<1> HIDE DEF t
<1>5. /\ faults' \in 0..MaxFaults /\ conns' \in [Modems -> Connection]
      /\ pref' \in [Modems -> BOOLEAN]
      /\ \A k \in Modems \ {m} : conns'[k] = conns[k]
  BY <1>1, <1>3, <1>4, CountedType DEF TypeOK
<1>6. Safe(m)'
  <2>1. op'[m] = NoOp
    BY <1>1, <1>3, NoOpType, GotoType
  <2>2. Calm(NoOp)
    BY SMT DEF NoOp, Calm, MovePCs, BackPCs, CleanPCs
  <2> QED
    BY <1>1, <1>2, <2>1, <2>2, SafeCalm DEF Safe, Booted
<1> QED
  BY <1>1, <1>2, <1>3, <1>5, <1>6, NoOpType, StepOf DEF TypeOK

LEMMA ReportStep ==
  ASSUME IInv, NEW m \in Modems, Report(m)
  PROVE  IInv'
<1> DEFINE t == [tracked |-> TRUE, routes |-> op[m].added, changes |-> op[m].done,
                 dflt |-> op[m].dflt, always |-> op[m].always]
           again == [NoOp EXCEPT !.pc = "lookup", !.kind = "current",
                                 !.dflt = op[m].dflt, !.always = op[m].always]
<1>1. TypeOK /\ op[m] \in Op /\ Safe(m) /\ op[m].pc = "report"
  BY DEF IInv, TypeOK, Report
<1>2. UNCHANGED <<kernel, stored, always, bearer, addrs, booting, crashes>>
  BY DEF Report, disk, link
<1>3. PICK readable \in Outcomes :
        /\ Counted(readable)
        /\ conns' = [conns EXCEPT ![m] = t]
        /\ pref' = [pref EXCEPT ![m] = op[m].dflt]
        /\ Goto(m, IF readable THEN NoOp ELSE again)
  BY DEF Report, Remember
<1>4. t \in Connection /\ op[m].dflt \in BOOLEAN /\ op[m].always \in BOOLEAN
  BY <1>1 DEF Op, Connection
<1> HIDE DEF t
<1>5. /\ faults' \in 0..MaxFaults /\ conns' \in [Modems -> Connection]
      /\ pref' \in [Modems -> BOOLEAN]
      /\ \A k \in Modems \ {m} : conns'[k] = conns[k]
  BY <1>1, <1>3, <1>4, CountedType DEF TypeOK
<1>6. again \in Op /\ again.pc = "lookup" /\ again.ret = NoOp.ret
  BY <1>4, NoOpType DEF Op, PCs, Kinds
<1> HIDE DEF again
<1>7. Calm(NoOp) /\ Calm(again)
  <2>1. NoOp.pc = "idle" /\ NoOp.ret = "none"
    BY DEF NoOp
  <2> QED
    BY <1>6, <2>1 DEF Calm, MovePCs, BackPCs, CleanPCs
<1>8. PICK x \in Op : Goto(m, x) /\ Calm(x)
  BY <1>3, <1>6, <1>7, NoOpType
<1>9. op'[m] = x
  BY <1>1, <1>8, GotoType
<1>10. Safe(m)'
  BY <1>1, <1>2, <1>8, <1>9, SafeCalm DEF Safe, Booted
<1> QED
  BY <1>1, <1>2, <1>5, <1>8, <1>10, StepOf DEF TypeOK

LEMMA AbortStep ==
  ASSUME IInv, NEW m \in Modems, Abort(m)
  PROVE  IInv'
<1>1. TypeOK /\ op[m] \in Op /\ Safe(m) /\ op[m].pc = "abort"
  BY DEF IInv, TypeOK, Abort
<1>2. UNCHANGED <<stored, always, conns, pref, booting, crashes>>
  BY DEF Abort, disk, memory
<1>3. PICK ok \in Outcomes :
        /\ bearer' = IF ok THEN [bearer EXCEPT ![m] = FALSE] ELSE bearer
        /\ Counted(ok)
        /\ Goto(m, NoOp)
  BY DEF Abort
<1>4. kernel' \subseteq Route /\ addrs' \subseteq Modems
  BY <1>1 DEF Abort, Unaddressed, TypeOK
<1>5. faults' \in 0..MaxFaults /\ bearer' \in [Modems -> BOOLEAN]
  BY <1>1, <1>3, CountedType DEF TypeOK
<1>6. Safe(m)'
  <2>1. op'[m] = NoOp
    BY <1>1, <1>3, NoOpType, GotoType
  <2>2. Calm(NoOp)
    BY SMT DEF NoOp, Calm, MovePCs, BackPCs, CleanPCs
  <2> QED
    BY <1>1, <1>2, <2>1, <2>2, SafeCalm DEF Safe, Booted
<1> QED
  BY <1>1, <1>2, <1>3, <1>4, <1>5, <1>6, NoOpType, StepOf DEF TypeOK

-----------------------------------------------------------------------------
(* Every step that changes several connections at once keeps IInv. *)

\* A step under Connector.mu: others may find the routes of a clean-up rerouted.
LEMMA StepOfAll ==
  ASSUME IInv, NEW m \in Modems, NEW o \in Op, NEW C, C \subseteq Change,
         op' = [n \in Modems |-> IF n = m THEN o ELSE Shared(op[n], C)],
         always' \in [Modems -> Preference], conns' \in [Modems -> Connection],
         pref' \in [Modems -> BOOLEAN], faults' \in 0..MaxFaults,
         stored' \in [Modems -> Entry], \A n \in Modems \ {m} : stored'[n] = stored[n],
         UNCHANGED <<kernel, bearer, addrs, booting, crashes>>,
         \A n \in Modems : conns'[n].tracked = conns[n].tracked,
         Safe(m)'
  PROVE  IInv'
<1>1. TypeOK /\ \A n \in Modems : op[n] \in Op /\ Safe(n)
  BY DEF IInv, TypeOK
<1>2. \A n \in Modems \ {m} : op'[n] = Shared(op[n], C)
  OBVIOUS
<1>3. op' \in [Modems -> Op]
  BY <1>1, SharedType
<1>4. ASSUME NEW n \in Modems \ {m} PROVE Safe(n)'
  BY <1>1, <1>2, SharedType, SafeElsewhere
<1>5. TypeOK'
  BY <1>1, <1>3 DEF TypeOK
<1> QED
  BY <1>4, <1>5 DEF IInv

LEMMA CommitStep ==
  ASSUME IInv, NEW m \in Modems, Commit(m)
  PROVE  IInv'
<1> DEFINE moved == [n \in Modems |-> Rerouted(conns[n], op[m].done)]
           hit   == {n \in Modems : \E c \in op[m].done : c.orig \in conns[n].routes}
           half  == [n \in Modems |-> [conns[n] EXCEPT !.routes = moved[n].routes]]
           entry == Recorded(op[m].added, op[m].done)
           go    == [op[m] EXCEPT !.pc = "track"]
<1>1. TypeOK /\ op[m] \in Op /\ Safe(m) /\ op[m].pc = "commit" /\ op[m].done \subseteq Change
  BY DEF IInv, TypeOK, Commit, Op
<1>2. UNCHANGED <<kernel, bearer, addrs, booting, crashes>>
  BY DEF Commit, link
<1>3. PICK ok \in Outcomes, saved \in BOOLEAN, written \in SUBSET Modems :
        /\ stored' = IF saved /\ hit # {} THEN [stored EXCEPT ![m] = entry] ELSE stored
        /\ always' = SavedAlways(written, moved)
        /\ conns' = IF ok THEN moved ELSE half
        /\ pref' = [n \in Modems |-> IF ok /\ n \in hit THEN moved[n].dflt ELSE pref[n]]
        /\ op' = [n \in Modems |-> IF n = m THEN IF ok THEN go ELSE Undo(op[m])
                                   ELSE Shared(op[n], op[m].done)]
        /\ Counted(ok)
  BY DEF Commit
<1>4. \A n \in Modems : moved[n] \in Connection /\ moved[n].tracked = conns[n].tracked
  BY <1>1, ReroutedType DEF TypeOK
<1>5. \A n \in Modems : half[n] \in Connection /\ half[n].tracked = conns[n].tracked
  <2> SUFFICES ASSUME NEW n \in Modems
               PROVE  half[n] \in Connection /\ half[n].tracked = conns[n].tracked
    OBVIOUS
  <2>1. conns[n] \in Connection /\ moved[n].routes \subseteq Route
    BY <1>1, <1>4 DEF TypeOK, Connection
  <2> HIDE DEF moved
  <2> QED
    BY <2>1 DEF Connection
<1>13. stored' \in [Modems -> Entry] /\ \A n \in Modems \ {m} : stored'[n] = stored[n]
  <2>1. entry \in Entry
    BY <1>1 DEF Recorded, Entry, Op
  <2> HIDE DEF entry, hit
  <2> QED
    BY <1>1, <1>3, <2>1 DEF TypeOK
<1>6. moved \in [Modems -> Connection] /\ half \in [Modems -> Connection]
  BY <1>4, <1>5
<1>7. pref' \in [Modems -> BOOLEAN]
  <2>1. \A n \in Modems : moved[n].dflt \in BOOLEAN /\ pref[n] \in BOOLEAN
    BY <1>1, <1>4 DEF Connection, TypeOK
  <2> HIDE DEF moved, hit
  <2> QED
    BY <1>3, <2>1
<1> HIDE DEF moved, half, hit
<1>8. always' \in [Modems -> Preference] /\ faults' \in 0..MaxFaults
  BY <1>1, <1>3, <1>6, SavedAlwaysType, CountedType
<1>9. conns' \in [Modems -> Connection] /\ \A n \in Modems : conns'[n].tracked = conns[n].tracked
  BY <1>3, <1>4, <1>5, <1>6
<1>10. go \in Op /\ go.pc = "track" /\ go.ret = op[m].ret /\ go.kind = op[m].kind
  BY <1>1 DEF Op, PCs
<1> HIDE DEF go
<1>11. CASE ok
  <2>1. op' = [n \in Modems |-> IF n = m THEN go ELSE Shared(op[n], op[m].done)]
    BY <1>3, <1>11
  <2>2. Safe(m)'
    BY <1>1, <1>2, <1>9, <1>10, <2>1, SafeWithin DEF MovePCs, BackPCs, CleanPCs
  <2> QED
    BY <1>1, <1>2, <1>7, <1>8, <1>9, <1>10, <1>13, <2>1, <2>2, StepOfAll
<1>12. CASE ~ok
  <2>1. op' = [n \in Modems |-> IF n = m THEN Undo(op[m]) ELSE Shared(op[n], op[m].done)]
    BY <1>3, <1>12
  <2>2. Safe(m)'
    BY <1>1, <1>2, <2>1, UndoType, SafeCalm DEF Safe, Booted
  <2> QED
    BY <1>1, <1>2, <1>7, <1>8, <1>9, <1>13, UndoType, <2>1, <2>2, StepOfAll
<1> QED
  BY <1>11, <1>12

LEMMA SyncStep ==
  ASSUME IInv, NEW m \in Modems, Sync(m)
  PROVE  IInv'
<1> DEFINE go(ok) == [op[m] EXCEPT !.pc = "bearerDown", !.failed = @ \/ ~ok]
<1>1. TypeOK /\ op[m] \in Op /\ Safe(m) /\ op[m].pc = "sync" /\ op[m].done \subseteq Change
  BY DEF IInv, TypeOK, Sync, Op
<1>2. UNCHANGED <<kernel, bearer, addrs, booting, crashes>>
  BY DEF Sync, link
<1>3. ASSUME NEW ok \in BOOLEAN
      PROVE  /\ go(ok) \in Op /\ go(ok).pc = "bearerDown"
             /\ go(ok).ret = op[m].ret /\ go(ok).kind = op[m].kind
  BY <1>1 DEF Op, PCs
<1> HIDE DEF go
<1>4. CASE op[m].dflt
  <2> DEFINE back == Backwards(op[m].done)
             next == [n \in Modems |-> Rerouted(conns[n], back)]
             hit  == {n \in Modems : \E c \in back : c.orig \in conns[n].routes}
  <2>1. PICK ok \in Outcomes, written \in SUBSET Modems :
          /\ conns' = next
          /\ pref' = [n \in Modems |-> IF n \in hit THEN next[n].dflt ELSE pref[n]]
          /\ always' = SavedAlways(written, next)
          /\ op' = [n \in Modems |-> IF n = m THEN go(ok) ELSE Shared(op[n], back)]
          /\ Counted(ok)
          /\ UNCHANGED stored
    BY <1>4 DEF Sync, SyncRestore, go
  <2>2. back \subseteq Change
    BY <1>1, BackwardsType
  <2> HIDE DEF back
  <2>3. \A n \in Modems : next[n] \in Connection /\ next[n].tracked = conns[n].tracked
    BY <1>1, <2>2, ReroutedType DEF TypeOK
  <2>4. next \in [Modems -> Connection]
    BY <2>3
  <2>5. pref' \in [Modems -> BOOLEAN]
    <3>1. \A n \in Modems : next[n].dflt \in BOOLEAN /\ pref[n] \in BOOLEAN
      BY <1>1, <2>3 DEF Connection, TypeOK
    <3> HIDE DEF next, hit
    <3> QED
      BY <2>1, <3>1
  <2> HIDE DEF next, hit
  <2>6. /\ always' \in [Modems -> Preference]
        /\ faults' \in 0..MaxFaults /\ ok \in BOOLEAN
    BY <1>1, <2>1, <2>4, SavedAlwaysType, CountedType
  <2>7. Safe(m)'
    BY <1>1, <1>2, <1>3, <2>1, <2>3, <2>6, SafeWithin DEF MovePCs, BackPCs, CleanPCs
  <2>8. stored' \in [Modems -> Entry] /\ \A n \in Modems \ {m} : stored'[n] = stored[n]
    BY <1>1, <2>1 DEF TypeOK
  <2> QED
    BY <1>2, <1>3, <2>1, <2>2, <2>3, <2>4, <2>5, <2>6, <2>7, <2>8, StepOfAll
<1>5. CASE ~op[m].dflt
  <2> DEFINE heirs == {n \in Modems \ {m} : /\ conns[n].tracked
                                            /\ \E c \in conns[n].changes : c.repl \in conns[m].routes}
             next(n) == ChangesAfterRemoval(conns[n].changes, conns[m].routes, op[m].done)
             entry(n) == IF next(n) = {} THEN NoEntry ELSE Recorded(conns[n].routes, next(n))
  <2>1. PICK ok \in Outcomes, written \in SUBSET heirs :
          /\ stored' = [n \in Modems |-> IF n \in written THEN entry(n) ELSE stored[n]]
          /\ conns' = [n \in Modems |-> IF ok /\ n \in heirs
                                        THEN [conns[n] EXCEPT !.changes = next(n)] ELSE conns[n]]
          /\ Counted(ok)
          /\ Goto(m, go(ok))
          /\ UNCHANGED <<always, pref>>
    BY <1>5 DEF Sync, SyncRemoval, go
  <2>2. heirs \subseteq Modems \ {m} /\ \A n \in heirs : conns[n].tracked
    OBVIOUS
  <2>3. \A n \in Modems : next(n) \subseteq Change
    BY <1>1, AfterRemovalType DEF TypeOK, Connection
  <2> HIDE DEF next, heirs
  <2>4. \A n \in Modems : entry(n) \in Entry
    BY <1>1, <2>3 DEF TypeOK, Connection, Entry, Recorded, NoEntry
  <2> HIDE DEF entry
  <2>5. /\ stored' \in [Modems -> Entry]
        /\ \A n \in Modems : stored'[n] = stored[n] \/ conns[n].tracked
        /\ stored'[m] = stored[m]
    BY <1>1, <2>1, <2>2, <2>4 DEF TypeOK
  <2>6. conns' \in [Modems -> Connection] /\ \A n \in Modems : conns'[n].tracked = conns[n].tracked
    BY <1>1, <2>1, <2>3 DEF TypeOK, Connection
  <2>7. faults' \in 0..MaxFaults /\ ok \in BOOLEAN
    BY <1>1, <2>1, CountedType
  <2>8. op'[m] = go(ok)
    BY <1>1, <1>3, <2>1, <2>7, GotoType
  <2>9. Safe(m)'
    BY <1>1, <1>2, <1>3, <2>6, <2>7, <2>8, SafeWithin DEF MovePCs, BackPCs, CleanPCs
  <2> QED
    BY <1>1, <1>2, <1>3, <2>1, <2>5, <2>6, <2>7, <2>9, StepOf DEF TypeOK
<1> QED
  BY <1>1, <1>4, <1>5 DEF Op


-----------------------------------------------------------------------------
(* The entry points keep IInv. *)

LEMMA ClearType ==
  ASSUME TypeOK, NEW m \in Modems, NEW ok \in Outcomes, Clear(m, ok)
  PROVE  /\ ok \in BOOLEAN /\ faults' \in 0..MaxFaults
         /\ pref' \in [Modems -> BOOLEAN] /\ always' \in [Modems -> Preference]
<1>1. DefaultPreferred(m) \in BOOLEAN
  BY DEF DefaultPreferred, TypeOK, Preference
<1>2. AlwaysOff \in Preference
  BY DEF AlwaysOff, Preference
<1> QED
  BY <1>1, <1>2, CountedType DEF Clear, TypeOK

\* The start of a clean-up on behalf of a user or of the monitor.
LEMMA TeardownStep ==
  ASSUME IInv, NEW m \in Modems, NEW o \in Op, CanBegin(m), Goto(m, Teardown(m, o)),
         pref' \in [Modems -> BOOLEAN], always' \in [Modems -> Preference],
         faults' \in 0..MaxFaults,
         UNCHANGED <<kernel, stored, conns, bearer, addrs, booting, crashes>>
  PROVE  IInv'
<1>1. TypeOK /\ booting' = {}
  BY DEF IInv, CanBegin
<1>2. Teardown(m, o) \in Op /\ Calm(Teardown(m, o))
  BY <1>1, TeardownType
<1>3. op'[m] = Teardown(m, o)
  BY <1>1, <1>2, GotoType
<1>4. Safe(m)'
  BY <1>1, <1>2, <1>3, SafeCalm
<1> QED
  BY <1>1, <1>2, <1>4, StepOf DEF TypeOK

LEMMA ConnectStep ==
  ASSUME IInv, NEW m \in Modems, Connect(m)
  PROVE  IInv'
<1> DEFINE o(req, ok) == [NoOp EXCEPT !.kind = "connect", !.want = req.dflt,
                                      !.always = req.always, !.failed = ~ok]
<1>1. PICK req \in Requests[m], ok \in Outcomes :
        Clear(m, ok) /\ Goto(m, Teardown(m, o(req, ok)))
  BY DEF Connect
<1>2. /\ ok \in BOOLEAN /\ faults' \in 0..MaxFaults
      /\ pref' \in [Modems -> BOOLEAN] /\ always' \in [Modems -> Preference]
  BY <1>1, ClearType DEF IInv
<1>3. req \in [dflt : BOOLEAN, always : BOOLEAN]
  BY <1>1, ConstantsAssumption
<1>4. o(req, ok) \in Op
  BY <1>2, <1>3, NoOpType DEF Op, Kinds
<1> HIDE DEF o
<1>5. CanBegin(m) /\ UNCHANGED <<kernel, stored, conns, bearer, addrs, booting, crashes>>
  BY DEF Connect, link
<1> QED
  BY <1>1, <1>2, <1>4, <1>5, TeardownStep

LEMMA DisconnectStep ==
  ASSUME IInv, NEW m \in Modems, Disconnect(m)
  PROVE  IInv'
<1> DEFINE o(ok) == [NoOp EXCEPT !.kind = "disconnect", !.failed = ~ok]
<1>1. PICK ok \in Outcomes : Clear(m, ok) /\ Goto(m, Teardown(m, o(ok)))
  BY DEF Disconnect
<1>2. /\ ok \in BOOLEAN /\ faults' \in 0..MaxFaults
      /\ pref' \in [Modems -> BOOLEAN] /\ always' \in [Modems -> Preference]
  BY <1>1, ClearType DEF IInv
<1>3. o(ok) \in Op
  BY <1>2, NoOpType DEF Op, Kinds
<1> HIDE DEF o
<1>4. CanBegin(m) /\ UNCHANGED <<kernel, stored, conns, bearer, addrs, booting, crashes>>
  BY DEF Disconnect, link
<1> QED
  BY <1>1, <1>2, <1>3, <1>4, TeardownStep

LEMMA RestoreStep ==
  ASSUME IInv, NEW m \in Modems, Restore(m)
  PROVE  IInv'
<1> DEFINE o == [NoOp EXCEPT !.kind = "restore"]
<1>1. o \in Op
  BY NoOpType DEF Op, Kinds
<1>2. CanBegin(m) /\ Goto(m, Teardown(m, o))
  BY DEF Restore
<1> HIDE DEF o
<1>3. UNCHANGED <<kernel, stored, always, conns, pref, bearer, addrs, booting, faults, crashes>>
  BY DEF Restore, disk, memory, link
<1> QED
  BY <1>1, <1>2, <1>3, TeardownStep DEF IInv, TypeOK

\* The start of a recovery: nothing of a takeover is under way, and if one is
\* ahead the modem is not tracked, or the monitor's.
LEMMA RecoveryStep ==
  ASSUME IInv, NEW m \in Modems, NEW o \in Op, NEW fallback \in BOOLEAN,
         Goto(m, Recovery(m, o, fallback)), o.ret = "none", booting' \subseteq booting \ {m},
         conns' \in [Modems -> Connection], faults' \in 0..MaxFaults,
         \A n \in Modems \ {m} : conns'[n] = conns[n],
         o.kind = "keep" \/ ~conns'[m].tracked,
         UNCHANGED <<kernel, stored, always, pref, bearer, addrs, crashes>>
  PROVE  IInv'
<1> DEFINE r == Recovery(m, o, fallback)
<1>1. TypeOK
  BY DEF IInv
<1>2. r \in Op /\ r.pc \in {"plan", "saveAlways", "track"} /\ r.ret = "none" /\ r.kind = o.kind
  BY <1>1, RecoveryType
<1> HIDE DEF r
<1>3. op'[m] = r
  BY <1>1, <1>2, GotoType DEF r
<1>4. Safe(m)'
  BY <1>2, <1>3 DEF Safe, Booted, Fresh, Ahead, Back, MovePCs, BackPCs, CleanPCs
<1> QED
  BY <1>1, <1>2, <1>4, StepOf DEF TypeOK, r

\* A status request that looks its bearer up.
LEMMA LookUpStep ==
  ASSUME IInv, NEW m \in Modems, NEW o \in Op, NEW fallback \in BOOLEAN,
         Goto(m, LookUp(m, o, fallback)), o.ret = "none", m \notin booting, booting' = booting,
         conns' \in [Modems -> Connection], faults' \in 0..MaxFaults,
         \A n \in Modems \ {m} : conns'[n] = conns[n], ~conns'[m].tracked,
         UNCHANGED <<kernel, stored, always, pref, bearer, addrs, crashes>>
  PROVE  IInv'
<1>1. CASE bearer[m]
  BY <1>1, RecoveryStep DEF LookUp
<1>2. CASE ~bearer[m]
  <2> DEFINE x == Stale(o, "forget")
  <2>1. TypeOK /\ Goto(m, x)
    BY <1>2 DEF IInv, LookUp
  <2>2. x \in Op /\ Calm(x)
    BY StaleType DEF Rets, Calm, MovePCs
  <2> HIDE DEF x
  <2>3. op'[m] = x
    BY <2>1, <2>2, GotoType
  <2>4. Safe(m)'
    BY <2>2, <2>3, SafeCalm
  <2> QED
    BY <2>1, <2>2, <2>4, StepOf DEF TypeOK
<1> QED
  BY <1>1, <1>2

LEMMA KeepAliveStep ==
  ASSUME IInv, NEW m \in Modems, KeepAlive(m)
  PROVE  IInv'
<1> DEFINE base == [NoOp EXCEPT !.want = always[m].dflt, !.always = TRUE]
           k == [base EXCEPT !.kind = "keep"]
           c == [base EXCEPT !.kind = "connect"]
<1>1. /\ TypeOK /\ CanBegin(m) /\ booting = {}
      /\ UNCHANGED <<kernel, stored, always, conns, pref, bearer, addrs, booting, faults, crashes>>
  BY DEF IInv, KeepAlive, CanBegin, disk, memory, link
<1>2. always[m].dflt \in BOOLEAN
  BY <1>1 DEF TypeOK, Preference
<1>3. base \in Op /\ base.ret = NoOp.ret /\ base.want = always[m].dflt
  BY <1>2, NoOpType DEF Op
<1>4. NoOp.ret = "none"
  BY DEF NoOp
<1>5. Goto(m, IF bearer[m] THEN Recovery(m, k, base.want) ELSE Teardown(m, c))
  BY DEF KeepAlive
<1> HIDE DEF base
<1>6. k \in Op /\ k.ret = "none" /\ k.kind = "keep" /\ c \in Op
  BY <1>3, <1>4 DEF Op, Kinds
<1> HIDE DEF k, c
<1>7. CASE bearer[m]
  BY <1>1, <1>2, <1>3, <1>5, <1>6, <1>7, RecoveryStep DEF TypeOK
<1>8. CASE ~bearer[m]
  BY <1>1, <1>5, <1>6, <1>8, TeardownStep DEF TypeOK
<1> QED
  BY <1>7, <1>8

LEMMA CurrentStep ==
  ASSUME IInv, NEW m \in Modems, Current(m)
  PROVE  IInv'
<1> DEFINE lost(readable) == conns[m].tracked /\ ~readable
           fallback(readable) == IF lost(readable) THEN conns[m].dflt ELSE DefaultPreferred(m)
           o(readable) == [NoOp EXCEPT !.kind = "current",
                             !.always = IF lost(readable) THEN conns[m].always ELSE always[m].on]
<1>1. /\ TypeOK /\ CanBegin(m) /\ booting = {}
      /\ UNCHANGED <<kernel, stored, always, pref, bearer, addrs, booting, crashes>>
  BY DEF IInv, Current, CanBegin, disk, link
<1>2. PICK readable \in Outcomes :
        /\ Counted(readable)
        /\ conns' = [conns EXCEPT ![m] = IF conns[m].tracked /\ readable THEN @ ELSE Untracked]
        /\ Goto(m, CASE conns[m].tracked /\ readable /\ bearer[m] -> Copied(m, o(readable))
                     [] conns[m].tracked /\ readable /\ ~bearer[m] -> CleanupTracked(m, o(readable))
                     [] OTHER -> LookUp(m, o(readable), fallback(readable)))
  BY DEF Current
<1>3. conns[m] \in Connection /\ Untracked \in Connection /\ ~Untracked.tracked
  BY <1>1 DEF TypeOK, Untracked, Connection
<1>4. /\ readable \in BOOLEAN /\ faults' \in 0..MaxFaults
      /\ conns' \in [Modems -> Connection]
      /\ \A n \in Modems \ {m} : conns'[n] = conns[n]
  BY <1>1, <1>2, <1>3, CountedType DEF TypeOK
<1>5. fallback(readable) \in BOOLEAN
  BY <1>1, <1>3 DEF DefaultPreferred, TypeOK, Preference, Connection
<1>6. o(readable) \in Op /\ o(readable).ret = NoOp.ret
  <2>1. (IF lost(readable) THEN conns[m].always ELSE always[m].on) \in BOOLEAN
    BY <1>1, <1>3 DEF TypeOK, Preference, Connection
  <2> HIDE DEF lost
  <2> QED
    BY <2>1, NoOpType DEF Op, Kinds
<1>7. NoOp.ret = "none"
  BY DEF NoOp
<1> HIDE DEF o, fallback, lost
<1>8. ASSUME NEW x \in Op, Calm(x), Goto(m, x) PROVE IInv'
  <2>1. op'[m] = x
    BY <1>1, <1>8, GotoType
  <2>2. Safe(m)'
    BY <1>1, <1>8, <2>1, SafeCalm
  <2> QED
    BY <1>1, <1>4, <1>8, <2>2, StepOf DEF TypeOK
<1>9. CASE conns[m].tracked /\ readable /\ bearer[m]
  BY <1>1, <1>2, <1>6, <1>7, <1>8, <1>9, CopiedType
<1>10. CASE conns[m].tracked /\ readable /\ ~bearer[m]
  BY <1>1, <1>2, <1>6, <1>8, <1>10, CleanupTrackedType
<1>11. CASE ~(conns[m].tracked /\ readable)
  <2>1. ~conns'[m].tracked
    BY <1>1, <1>2, <1>3, <1>11 DEF TypeOK
  <2>2. Goto(m, LookUp(m, o(readable), fallback(readable)))
    BY <1>2, <1>11
  <2> QED
    BY <1>1, <1>4, <1>5, <1>6, <1>7, <2>1, <2>2, LookUpStep
<1> QED
  BY <1>9, <1>10, <1>11

LEMMA ForgottenStep ==
  ASSUME IInv, NEW m \in Modems, Forgotten(m)
  PROVE  IInv'
<1> DEFINE o == [NoOp EXCEPT !.kind = "current", !.always = op[m].always]
<1>1. /\ TypeOK /\ op[m] \in Op /\ m \notin booting
      /\ UNCHANGED <<kernel, stored, always, pref, bearer, addrs, booting, faults, crashes>>
      /\ conns' = [conns EXCEPT ![m] = Untracked]
      /\ Goto(m, LookUp(m, o, op[m].dflt))
  BY DEF IInv, TypeOK, Forgotten, Safe, Booted, disk, link
<1>2. Untracked \in Connection /\ ~Untracked.tracked
  BY DEF Untracked, Connection
<1>3. /\ conns' \in [Modems -> Connection] /\ ~conns'[m].tracked
      /\ \A n \in Modems \ {m} : conns'[n] = conns[n]
  BY <1>1, <1>2 DEF TypeOK
<1>4. NoOp.ret = "none" /\ op[m].dflt \in BOOLEAN /\ op[m].always \in BOOLEAN
  BY <1>1 DEF NoOp, Op
<1>5. o \in Op /\ o.ret = "none"
  BY <1>4, NoOpType DEF Op, Kinds
<1> HIDE DEF o
<1> QED
  BY <1>1, <1>3, <1>4, <1>5, LookUpStep DEF TypeOK

LEMMA RecoverStep ==
  ASSUME IInv, NEW m \in Modems, Recover(m)
  PROVE  IInv'
<1> DEFINE o == [NoOp EXCEPT !.kind = "recover", !.always = always[m].on]
<1>1. /\ TypeOK /\ Safe(m) /\ m \in booting /\ booting' = booting \ {m}
      /\ UNCHANGED <<kernel, stored, always, conns, pref, bearer, addrs, crashes>>
  BY DEF IInv, Recover, disk, memory, link
<1>2. PICK reached \in Outcomes :
        /\ Counted(reached)
        /\ Goto(m, CASE ~reached -> NoOp
                     [] reached /\ bearer[m] -> Recovery(m, o, DefaultPreferred(m))
                     [] OTHER -> Stale(o, "forget"))
  BY DEF Recover
<1>3. faults' \in 0..MaxFaults
  BY <1>1, <1>2, CountedType
<1>4. ~conns[m].tracked
  BY <1>1 DEF Safe, Booted
<1>5. DefaultPreferred(m) \in BOOLEAN /\ always[m].on \in BOOLEAN
  BY <1>1 DEF DefaultPreferred, TypeOK, Preference
<1>6. o \in Op /\ o.ret = NoOp.ret
  BY <1>5, NoOpType DEF Op, Kinds
<1>7. NoOp.ret = "none" /\ Calm(NoOp)
  BY SMT DEF NoOp, Calm, MovePCs, BackPCs, CleanPCs
<1> HIDE DEF o
<1>8. ASSUME NEW x \in Op, Calm(x), Goto(m, x) PROVE IInv'
  <2>1. op'[m] = x
    BY <1>1, <1>8, GotoType
  <2>2. Safe(m)'
    BY <1>1, <1>8, <2>1, SafeCalm
  <2> QED
    BY <1>1, <1>3, <1>8, <2>2, StepOf DEF TypeOK
<1>9. CASE ~reached
  BY <1>2, <1>7, <1>8, <1>9, NoOpType
<1>10. CASE reached /\ bearer[m]
  BY <1>1, <1>2, <1>3, <1>4, <1>5, <1>6, <1>7, <1>10, RecoveryStep DEF TypeOK
<1>11. CASE reached /\ ~bearer[m]
  <2>1. Stale(o, "forget") \in Op /\ Calm(Stale(o, "forget"))
    BY <1>6, StaleType DEF Rets, Calm, MovePCs
  <2> QED
    BY <1>2, <1>8, <1>11, <2>1
<1> QED
  BY <1>9, <1>10, <1>11

-----------------------------------------------------------------------------
(* So does the environment. *)

LEMMA BearerLostStep ==
  ASSUME IInv, NEW m \in Modems, BearerLost(m)
  PROVE  IInv'
<1>1. TypeOK /\ UNCHANGED <<stored, always, conns, pref, op, booting, crashes>>
  BY DEF IInv, BearerLost, disk, memory
<1>2. kernel' \subseteq Route /\ addrs' \subseteq Modems
  BY <1>1 DEF BearerLost, TypeOK
<1>3. faults' \in 0..MaxFaults
  BY <1>1, ConstantsAssumption DEF BearerLost, TypeOK
<1>4. bearer' \in [Modems -> BOOLEAN]
  BY <1>1 DEF BearerLost, TypeOK
<1>5. TypeOK'
  BY <1>1, <1>2, <1>3, <1>4 DEF TypeOK
<1>6. ASSUME NEW n \in Modems PROVE Safe(n)'
  BY <1>1, SafeElsewhere DEF IInv
<1> QED
  BY <1>5, <1>6 DEF IInv

LEMMA HostRoutesType == HostRoutes \subseteq Route
BY ConstantsAssumption DEF Route, Ifaces

LEMMA RestartStep ==
  ASSUME IInv, NEW machine \in Restarts, Restart(machine)
  PROVE  IInv'
<1>1. /\ TypeOK /\ UNCHANGED <<stored, always, faults>>
      /\ conns' = [m \in Modems |-> Untracked] /\ op' = [m \in Modems |-> NoOp]
      /\ pref' = [m \in Modems |-> FALSE] /\ booting' = Modems
      /\ crashes < MaxCrashes /\ crashes' = crashes + 1
  BY DEF IInv, Restart, disk
<1>2. Untracked \in Connection /\ ~Untracked.tracked
  BY DEF Untracked, Connection
<1>3. NoOp.pc = "idle" /\ NoOp.ret = "none"
  BY DEF NoOp
<1>4. crashes' \in 0..MaxCrashes
  BY <1>1, ConstantsAssumption DEF TypeOK
<1>5. /\ kernel' \subseteq Route /\ addrs' \subseteq Modems
      /\ bearer' \in [Modems -> BOOLEAN]
  BY <1>1, HostRoutesType DEF Restart, TypeOK
<1>6. TypeOK'
  BY <1>1, <1>2, <1>4, <1>5, NoOpType DEF TypeOK
<1>7. ASSUME NEW m \in Modems PROVE Safe(m)'
  BY <1>1, <1>2, <1>3 DEF Safe, Booted, Fresh, Ahead, Back, MovePCs, BackPCs, CleanPCs
<1> QED
  BY <1>6, <1>7 DEF IInv

-----------------------------------------------------------------------------
(* The invariant, and what follows from it. *)

LEMMA InitIInv == Init => IInv
<1> SUFFICES ASSUME Init PROVE IInv
  OBVIOUS
<1>1. Untracked \in Connection /\ NoEntry \in Entry /\ AlwaysOff \in Preference
  BY DEF Untracked, Connection, NoEntry, Entry, AlwaysOff, Preference
<1>2. 0 \in 0..MaxFaults /\ 0 \in 0..MaxCrashes
  BY ConstantsAssumption
<1>3. TypeOK
  BY <1>1, <1>2, NoOpType, HostRoutesType DEF Init, TypeOK
<1>4. NoOp.pc = "idle" /\ NoOp.ret = "none"
  BY DEF NoOp
<1>5. ASSUME NEW m \in Modems PROVE Safe(m)
  BY <1>4 DEF Init, Safe, Booted, Fresh, Ahead, Back, MovePCs, BackPCs, CleanPCs
<1> QED
  BY <1>3, <1>5 DEF IInv

LEMMA NextIInv == IInv /\ [Next]_vars => IInv'
<1> SUFFICES ASSUME IInv, [Next]_vars PROVE IInv'
  OBVIOUS
<1>1. CASE UNCHANGED vars
  BY <1>1 DEF vars, disk, memory, link, IInv, TypeOK, Safe, Booted, Fresh, Ahead, Back
<1>2. ASSUME NEW m \in Modems, ModemStep(m) PROVE IInv'
  BY <1>2, UnrouteStep, RestoreAddStep, RestoreDelStep, DropStateStep, SyncStep,
     BearerDownStep, LoadStaleStep, ForgetStep, BearerUpStep, PlanStep, MoveDelStep,
     MoveAddStep, MoveUndoStep, AddRouteStep, SaveAlwaysStep, CommitStep, TrackStep,
     AbortStep, ReportStep, ForgottenStep DEF ModemStep
<1>3. ASSUME NEW m \in Modems,
             Connect(m) \/ Disconnect(m) \/ Restore(m) \/ KeepAlive(m) \/ Current(m) \/ Recover(m)
      PROVE  IInv'
  BY <1>3, ConnectStep, DisconnectStep, RestoreStep, KeepAliveStep, CurrentStep, RecoverStep
<1>4. ASSUME NEW m \in Modems, BearerLost(m) PROVE IInv'
  BY <1>4, BearerLostStep
<1>5. ASSUME NEW machine \in Restarts, Restart(machine) PROVE IInv'
  BY <1>5, RestartStep
<1> QED
  BY <1>1, <1>2, <1>3, <1>4, <1>5 DEF Next

\* IInv is an invariant.
THEOREM Invariance == Spec => []IInv
<1>1. Init => IInv
  BY InitIInv
<1>2. IInv /\ [Next]_vars => IInv'
  BY NextIInv
<1> QED
  BY <1>1, <1>2, PTL DEF Spec

\* Every reachable state is well typed, whatever fails and whoever overlaps:
\* no operation leaves its program, every plan is made of routes.
THEOREM TypeCorrect == Spec => []TypeOK
<1>1. IInv => TypeOK
  BY DEF IInv
<1> QED
  BY <1>1, Invariance, PTL

\* Every route a connect or a recovery has moved, or is about to move, is in
\* the database before it is touched and until the takeover is over, whatever
\* other modems do meanwhile, whatever fails and whenever the process restarts.
THEOREM WriteAheadRule == Spec => []WriteAhead
<1>1. IInv => WriteAhead
  BY DEF IInv, Safe, Ahead, WriteAhead, MovePCs
<1> QED
  BY <1>1, Invariance, PTL

-----------------------------------------------------------------------------
(* One operation at a time, nothing fails, every bearer has the same one    *)
(* family: between operations memory, database and kernel tell one story.   *)

\* Operations follow each other, no call fails and nothing restarts.
OneAtATime ==
  /\ MaxBusy <= 1 /\ MaxFaults = 0 /\ MaxCrashes = 0
  /\ \A f, g \in Families : f = g

Family         == CHOOSE f \in Families : TRUE
OwnRoute(m, k) == [iface |-> m, fam |-> Family, metric |-> k]

\* A routing table in which changes have been applied, or taken back.
Applied(K, C)  == (K \ {c.orig : c \in C}) \cup {c.repl : c \in C}
Reverted(K, C) == (K \ {c.repl : c \in C}) \cup {c.orig : c \in C}

\* The changes that connections have made, their routes, and the kernel's table.
Made(cs)     == UNION {cs[n].changes : n \in Modems}
Owned(cs)    == UNION {cs[n].routes : n \in Modems}
KernelOf(cs) == Applied(HostRoutes, Made(cs)) \cup Owned(cs)

\* A connection has one route, and is the default route by its metric.
ShapedAs(t, n, k) ==
  k >= DefaultRouteMetric /\ t.routes = {OwnRoute(n, k)} /\ (t.dflt <=> k = DefaultRouteMetric)

Shaped(cs, n) ==
  IF cs[n].tracked THEN \E k \in Nat : ShapedAs(cs[n], n, k)
  ELSE cs[n].routes = {} /\ cs[n].changes = {} /\ ~cs[n].dflt

\* A change moves a route of the host, or is alone and moves that of a modem.
HostMove(c) == c.orig \in HostRoutes /\ c.repl \notin HostRoutes
ModemMove(cs, p, c, n) ==
  /\ n # p /\ c.orig = OwnRoute(n, DefaultRouteMetric)
  /\ cs[n].routes = {c.repl} /\ cs[p].changes = {c}

MovesDown(c) ==
  /\ c.orig.metric <= DefaultRouteMetric /\ c.repl.metric > DefaultRouteMetric
  /\ c.repl = Replaced(c.orig, c.repl.metric)

Sound(cs, p) ==
  \A c \in cs[p].changes :
    MovesDown(c) /\ (HostMove(c) \/ \E n \in Modems : ModemMove(cs, p, c, n))

\* No route is moved twice.
Distinct(cs) ==
  \A p, q \in Modems : \A c \in cs[p].changes, d \in cs[q].changes :
    c.orig = d.orig \/ c.repl = d.repl => p = q /\ c = d

\* Who has moved something aside is the default route, or was moved itself.
MovedBy(cs, p, n) == \E c \in cs[p].changes : c.repl \in cs[n].routes
Linked(cs, n) == cs[n].changes # {} => cs[n].dflt \/ \E p \in Modems : MovedBy(cs, p, n)

\* Connections do not move each other in a circle.
RankedBy(cs, rk) ==
  \A p, n \in Modems : \A c \in cs[p].changes : c.orig.iface = n => rk[n] < rk[p]
Ranked(cs) == \E rk \in [Modems -> Nat] : RankedBy(cs, rk)

Unique(K) == \A r, s \in K : r.metric = s.metric => r = s

\* The default route is better than every other one.
Wins(cs, K) ==
  \A m \in Modems : cs[m].dflt => \A r \in K : r.iface # m => r.metric > DefaultRouteMetric

Chained(cs) ==
  /\ \A n \in Modems : Shaped(cs, n) /\ Sound(cs, n) /\ Linked(cs, n)
  /\ Distinct(cs) /\ Ranked(cs)
  /\ Unique(KernelOf(cs)) /\ Wins(cs, KernelOf(cs))

\* The database has a record of every connection that has moved something.
OnRecord(cs, st) ==
  \A n \in Modems : st[n].changes = cs[n].changes /\ (st[n].saved <=> cs[n].changes # {})

Settled(cs, K, st) == Chained(cs) /\ K = KernelOf(cs) /\ OnRecord(cs, st)

Conns == [Modems -> Connection]

-----------------------------------------------------------------------------
(* Routes of one family. *)

\* With one family, a modem's own routes of a metric are one route.
LEMMA OneFamily ==
  ASSUME OneAtATime, NEW m \in Modems
  PROVE  /\ Family \in Families /\ Family \in Nat
         /\ \A r \in Route : r.fam = Family
         /\ FamiliesOf[m] = {Family}
         /\ \A k : OwnRoutes(m, k) = {OwnRoute(m, k)}
         /\ \A k \in Nat : OwnRoute(m, k) \in Route
<1>1. FamiliesOf[m] \subseteq Families /\ FamiliesOf[m] # {}
  BY ConstantsAssumption
<1>2. Family \in Families
  BY <1>1 DEF Family
<1>3. \A f \in Families : f = Family
  BY <1>2 DEF OneAtATime
<1>4. FamiliesOf[m] = {Family}
  BY <1>1, <1>3
<1>5. \A k : OwnRoutes(m, k) = {OwnRoute(m, k)}
  BY <1>4 DEF OwnRoutes, OwnRoute
<1>6. \A r \in Route : r.fam = Family
  BY <1>3 DEF Route
<1>7. \A k \in Nat : OwnRoute(m, k) \in Route
  BY <1>2 DEF OwnRoute, Route, Ifaces
<1> QED
  BY <1>2, <1>4, <1>5, <1>6, <1>7, ConstantsAssumption

\* A route is known by its interface and its metric.
LEMMA SameRoute ==
  ASSUME OneAtATime, Modems # {}, NEW r \in Route, NEW s \in Route,
         r.iface = s.iface, r.metric = s.metric
  PROVE  r = s
<1>1. r.fam = s.fam
  BY OneFamily
<1> QED
  BY <1>1 DEF Route

\* The kernel deletes the route that was meant, and nothing else.
LEMMA WithoutOne ==
  ASSUME OneAtATime, Modems # {}, NEW K, K \subseteq Route, NEW r \in Route,
         r \in K \/ r.metric # 0
  PROVE  Without(K, r) = K \ {r}
<1> DEFINE hits == {x \in K : /\ x.iface = r.iface /\ x.fam = r.fam
                              /\ r.metric = 0 \/ x.metric = r.metric}
           best == {x \in hits : \A y \in hits : x.metric <= y.metric}
<1>1. \A x \in K : x \in Route /\ x.metric \in Nat
  BY DEF Route
<1>2. r.metric \in Nat
  BY DEF Route
<1>3. ASSUME NEW x \in best PROVE x = r
  <2>1. x \in hits /\ x \in Route /\ x.iface = r.iface /\ (r.metric = 0 \/ x.metric = r.metric)
    BY <1>1, <1>3
  <2>2. x.metric = r.metric
    <3>1. CASE r.metric = 0
      <4>1. r \in hits
        BY <3>1
      <4> QED
        BY <1>1, <1>2, <1>3, <2>1, <3>1, <4>1
    <3> QED
      BY <2>1, <3>1
  <2> QED
    BY <2>1, <2>2, SameRoute
<1>4. ASSUME r \in K PROVE r \in best
  <2>1. r \in hits
    BY <1>4
  <2>2. \A y \in hits : r.metric <= y.metric
    BY <1>1, <1>2
  <2> QED
    BY <2>1, <2>2
<1>5. Without(K, r) = K \ best
  BY DEF Without
<1> HIDE DEF best, hits
<1> QED
  BY <1>3, <1>4, <1>5

\* What the plan of a takeover says, of a table in which every metric is one route's.
LEMMA PlanOf ==
  ASSUME OneAtATime, NEW m \in Modems, NEW K, K \subseteq Route, Unique(K),
         NEW C \in DefaultRouteChanges(K, {OwnRoute(m, DefaultRouteMetric)})
  PROVE  /\ \A c \in C : /\ c.orig \in K /\ c.orig # OwnRoute(m, DefaultRouteMetric)
                         /\ MovesDown(c) /\ c.repl \in Route
                         /\ \A x \in K : x.metric # c.repl.metric
         /\ \A r \in K : r.metric <= DefaultRouteMetric /\ r # OwnRoute(m, DefaultRouteMetric)
                           => \E c \in C : c.orig = r
         /\ \A c, d \in C : c.orig = d.orig \/ c.repl.metric = d.repl.metric => c = d
<1> DEFINE own == OwnRoute(m, DefaultRouteMetric)
           mv  == Moved(K, {own})
<1>1. own.metric = DefaultRouteMetric /\ own.fam = Family
  BY DEF OwnRoute
<1>2. \A r \in Route : r.fam = Family /\ r.metric \in Nat
  BY OneFamily DEF Route
<1>3. \A r : r \in mv <=> r \in K /\ r # own /\ r.metric <= DefaultRouteMetric
  BY <1>1, <1>2 DEF Moved
<1> HIDE DEF mv
<1>4. PICK f \in [mv -> FallbackMetrics(K, mv)] :
        /\ \A r \in mv : IsFallback(f, r, K)
        /\ C = {[orig |-> r, repl |-> Replaced(r, f[r])] : r \in mv}
  BY DEF DefaultRouteChanges, mv
<1>5. ASSUME NEW r \in mv
      PROVE  /\ r \in Route /\ r.metric \in Nat /\ f[r] \in Nat /\ f[r] > DefaultRouteMetric
             /\ \A x \in K : x.metric # f[r]
             /\ \A s \in mv : s.metric < r.metric => f[s] # f[r]
             /\ Replaced(r, f[r]) \in Route /\ Replaced(r, f[r]).metric = f[r]
  <2>1. r \in K /\ r \in Route /\ r.metric \in Nat
    BY <1>2, <1>3
  <2>2. f[r] >= FallbackBase(r) /\ f[r] \notin UsedMetrics(r, K, f)
    BY <1>4 DEF IsFallback
  <2>3. f[r] \in Nat
    <3>1. \A s \in mv : s.metric \in Nat
      BY <1>2, <1>3
    <3>2. f[r] \in FallbackMetrics(K, mv)
      BY <1>4
    <3>3. PICK s \in mv : f[r] \in FallbackBase(s)..(FallbackBase(s) + 2 * Cardinality(K))
      BY <3>2 DEF FallbackMetrics
    <3>4. FallbackBase(s) \in Nat
      BY <3>1 DEF FallbackBase, DefaultRouteMetric
    <3> QED
      BY <3>3, <3>4, SMT
  <2>4. f[r] > DefaultRouteMetric
    BY <2>1, <2>2, <2>3 DEF FallbackBase, DefaultRouteMetric
  <2>5. \A x \in K : x.metric # f[r]
    BY <1>2, <2>1, <2>2 DEF UsedMetrics
  <2>6. \A s \in mv : s.metric < r.metric => f[s] # f[r]
    <3> SUFFICES ASSUME NEW s \in mv, s.metric < r.metric PROVE f[s] # f[r]
      OBVIOUS
    <3>1. s.fam = r.fam /\ s \in DOMAIN f
      BY <1>2, <1>3, <1>4, <2>1
    <3> QED
      BY <2>2, <3>1 DEF UsedMetrics
  <2>7. Replaced(r, f[r]) \in Route /\ Replaced(r, f[r]).metric = f[r]
    BY <2>1, <2>3 DEF Replaced, Route
  <2> QED
    BY <2>1, <2>3, <2>4, <2>5, <2>6, <2>7
<1>6. ASSUME NEW c \in C
      PROVE  \E r \in mv : c = [orig |-> r, repl |-> Replaced(r, f[r])]
  BY <1>4
<1>7. ASSUME NEW c \in C
      PROVE  /\ c.orig \in mv /\ c.repl = Replaced(c.orig, f[c.orig])
             /\ c = [orig |-> c.orig, repl |-> c.repl]
             /\ c.repl.metric = f[c.orig]
  <2>1. PICK r \in mv : c = [orig |-> r, repl |-> Replaced(r, f[r])]
    BY <1>6
  <2> QED
    BY <1>5, <2>1
<1>8. ASSUME NEW c \in C, NEW d \in C, c.repl.metric = d.repl.metric
      PROVE  c.orig = d.orig
  <2>1. f[c.orig] = f[d.orig] /\ c.orig \in mv /\ d.orig \in mv
    BY <1>7, <1>8
  <2>2. ~(c.orig.metric < d.orig.metric) /\ ~(d.orig.metric < c.orig.metric)
    BY <1>5, <2>1
  <2>3. c.orig.metric = d.orig.metric
    BY <1>5, <2>1, <2>2
  <2> QED
    BY <1>3, <2>1, <2>3 DEF Unique
<1>9. ASSUME NEW c \in C, NEW d \in C, c.orig = d.orig
      PROVE  c = d
  BY <1>7, <1>9
<1>10. ASSUME NEW r \in mv PROVE \E c \in C : c.orig = r
  <2>1. [orig |-> r, repl |-> Replaced(r, f[r])] \in C
    BY <1>4
  <2> QED
    BY <2>1
<1>11. \A c \in C : MovesDown(c)
  BY <1>3, <1>5, <1>7 DEF MovesDown
<1> QED
  BY <1>3, <1>5, <1>7, <1>8, <1>9, <1>10, <1>11

-----------------------------------------------------------------------------
(* The table between operations. *)

\* Membership in the kernel's table, spelt out.
LEMMA KernelHas ==
  ASSUME NEW cs, NEW r
  PROVE  r \in KernelOf(cs) <=>
           \/ r \in HostRoutes /\ \A n \in Modems : \A c \in cs[n].changes : c.orig # r
           \/ \E n \in Modems : \E c \in cs[n].changes : c.repl = r
           \/ \E n \in Modems : r \in cs[n].routes
<1>1. r \in KernelOf(cs) <=> r \in Applied(HostRoutes, Made(cs)) \/ \E n \in Modems : r \in cs[n].routes
  BY DEF KernelOf, Owned
<1>2. \A c : c \in Made(cs) <=> \E n \in Modems : c \in cs[n].changes
  BY DEF Made
<1>3. r \in Applied(HostRoutes, Made(cs)) <=>
        \/ r \in HostRoutes /\ \A c \in Made(cs) : c.orig # r
        \/ \E c \in Made(cs) : c.repl = r
  BY DEF Applied
<1> QED
  BY <1>1, <1>2, <1>3

\* The kernel's table consists of routes.
LEMMA KernelType ==
  ASSUME NEW cs \in Conns
  PROVE  KernelOf(cs) \subseteq Route
<1> SUFFICES ASSUME NEW r \in KernelOf(cs) PROVE r \in Route
  OBVIOUS
<1>1. \A n \in Modems : cs[n].routes \subseteq Route /\ \A c \in cs[n].changes : c.repl \in Route
  BY DEF Conns, Connection, Change
<1> QED
  BY <1>1, KernelHas, HostRoutesType

\* The changes and the routes of a connection, told apart.
LEMMA ChainFacts ==
  ASSUME OneAtATime, NEW cs \in Conns, Chained(cs)
  PROVE  /\ \A n \in Modems : \A r \in cs[n].routes :
              /\ r.iface = n /\ cs[n].tracked /\ cs[n].routes = {r}
              /\ r.metric \in Nat /\ r.metric >= DefaultRouteMetric
              /\ r = OwnRoute(n, r.metric)
              /\ cs[n].dflt <=> r.metric = DefaultRouteMetric
         /\ \A n \in Modems : cs[n].tracked => cs[n].routes # {}
         /\ \A n \in Modems : cs[n].dflt => cs[n].tracked
         /\ \A n \in Modems : \A c \in cs[n].changes :
              /\ c.orig \in Route /\ c.repl \in Route /\ cs[n].tracked
              /\ c.orig.metric <= DefaultRouteMetric /\ c.repl.metric > DefaultRouteMetric
              /\ c.repl.iface = c.orig.iface
              /\ \/ HostMove(c) /\ c.orig.iface \in Wans
                 \/ \E h \in Modems : ModemMove(cs, n, c, h) /\ c.orig.iface = h
<1>1. ASSUME NEW n \in Modems, NEW r \in cs[n].routes
      PROVE  /\ r.iface = n /\ cs[n].tracked /\ cs[n].routes = {r}
             /\ r.metric \in Nat /\ r.metric >= DefaultRouteMetric
             /\ r = OwnRoute(n, r.metric)
             /\ cs[n].dflt <=> r.metric = DefaultRouteMetric
  <2>1. Shaped(cs, n)
    BY DEF Chained
  <2>2. cs[n].tracked
    BY <1>1, <2>1 DEF Shaped
  <2>3. PICK k \in Nat : ShapedAs(cs[n], n, k)
    BY <2>1, <2>2 DEF Shaped
  <2>4. r = OwnRoute(n, k) /\ cs[n].routes = {r}
    BY <1>1, <2>3 DEF ShapedAs
  <2>5. r.iface = n /\ r.metric = k
    BY <2>4 DEF OwnRoute
  <2> QED
    BY <2>2, <2>3, <2>4, <2>5 DEF ShapedAs
<1>2. ASSUME NEW n \in Modems, cs[n].tracked PROVE cs[n].routes # {}
  BY <1>2 DEF Chained, Shaped, ShapedAs
<1>3. ASSUME NEW n \in Modems, cs[n].dflt PROVE cs[n].tracked
  BY <1>3 DEF Chained, Shaped
<1>4. ASSUME NEW n \in Modems, NEW c \in cs[n].changes
      PROVE  /\ c.orig \in Route /\ c.repl \in Route /\ cs[n].tracked
             /\ c.orig.metric <= DefaultRouteMetric /\ c.repl.metric > DefaultRouteMetric
             /\ c.repl.iface = c.orig.iface
             /\ \/ HostMove(c) /\ c.orig.iface \in Wans
                \/ \E h \in Modems : ModemMove(cs, n, c, h) /\ c.orig.iface = h
  <2>1. c.orig \in Route /\ c.repl \in Route
    BY DEF Conns, Connection, Change
  <2>2. cs[n].tracked
    BY <1>4 DEF Chained, Shaped
  <2>3. MovesDown(c) /\ (HostMove(c) \/ \E h \in Modems : ModemMove(cs, n, c, h))
    BY DEF Chained, Sound
  <2>4. c.repl.iface = c.orig.iface
    BY <2>1, <2>3 DEF MovesDown, Replaced, Route
  <2>5. HostMove(c) => c.orig.iface \in Wans
    BY ConstantsAssumption DEF HostMove
  <2>6. \A h \in Modems : ModemMove(cs, n, c, h) => c.orig.iface = h
    BY DEF ModemMove, OwnRoute
  <2> QED
    BY <2>1, <2>2, <2>3, <2>4, <2>5, <2>6 DEF MovesDown
<1> QED
  BY <1>1, <1>2, <1>3, <1>4

\* Whose the routes in the kernel's table are.
LEMMA KernelFacts ==
  ASSUME OneAtATime, NEW cs \in Conns, Chained(cs)
  PROVE  /\ KernelOf(cs) \subseteq Route
         /\ \A n \in Modems, r \in KernelOf(cs) : r.iface = n => r \in cs[n].routes
         /\ \A r \in KernelOf(cs) : r.metric <= DefaultRouteMetric =>
              \/ r \in HostRoutes
              \/ \E n \in Modems : cs[n].dflt /\ r \in cs[n].routes
         /\ \A n \in Modems : \A c \in cs[n].changes : c.orig \notin KernelOf(cs) /\ c.repl \in KernelOf(cs)
<1> DEFINE K == KernelOf(cs)
<1>0. K \subseteq Route
  BY KernelType
<1>1. ASSUME NEW n \in Modems, NEW r \in K, r.iface = n
      PROVE  r \in cs[n].routes
  <2>1. r \notin HostRoutes
    BY <1>1, ConstantsAssumption
  <2>2. ASSUME NEW p \in Modems, NEW c \in cs[p].changes, c.repl = r
        PROVE  r \in cs[n].routes
    <3>1. c.orig.iface \notin Wans
      BY <1>1, <2>2, ChainFacts, ConstantsAssumption
    <3>2. PICK h \in Modems : ModemMove(cs, p, c, h) /\ c.orig.iface = h
      BY <3>1, ChainFacts
    <3> QED
      BY <1>1, <2>2, <3>2, ChainFacts DEF ModemMove
  <2>3. ASSUME NEW p \in Modems, r \in cs[p].routes
        PROVE  r \in cs[n].routes
    BY <1>1, <2>3, ChainFacts
  <2> QED
    BY <2>1, <2>2, <2>3, KernelHas
<1>2. ASSUME NEW r \in K, r.metric <= DefaultRouteMetric
      PROVE  r \in HostRoutes \/ \E n \in Modems : cs[n].dflt /\ r \in cs[n].routes
  <2>1. \A p \in Modems : \A c \in cs[p].changes : c.repl # r
    <3> SUFFICES ASSUME NEW p \in Modems, NEW c \in cs[p].changes, c.repl = r PROVE FALSE
      OBVIOUS
    <3>1. c.repl.metric > DefaultRouteMetric /\ r.metric \in Nat
      BY <1>0, ChainFacts DEF Route
    <3> QED
      BY <1>2, <3>1 DEF DefaultRouteMetric
  <2>2. \A n \in Modems : r \in cs[n].routes => cs[n].dflt
    <3> SUFFICES ASSUME NEW n \in Modems, r \in cs[n].routes PROVE cs[n].dflt
      OBVIOUS
    <3>1. r.metric \in Nat /\ r.metric >= DefaultRouteMetric /\ (cs[n].dflt <=> r.metric = DefaultRouteMetric)
      BY ChainFacts
    <3> QED
      BY <1>2, <3>1 DEF DefaultRouteMetric
  <2> QED
    BY <2>1, <2>2, KernelHas
<1>3. ASSUME NEW n \in Modems, NEW c \in cs[n].changes
      PROVE  c.orig \notin K /\ c.repl \in K
  <2>1. c.orig.metric <= DefaultRouteMetric /\ c.orig.metric \in Nat
    BY ChainFacts DEF Route
  <2>2. ASSUME c.orig \in HostRoutes, c.orig \in K PROVE FALSE
    <3>1. c.orig.iface \in Wans
      BY <2>2, ConstantsAssumption
    <3>2. \A p \in Modems : c.orig \notin cs[p].routes
      BY <3>1, ChainFacts, ConstantsAssumption
    <3>3. PICK p \in Modems : \E d \in cs[p].changes : d.repl = c.orig
      BY <2>2, <3>2, KernelHas
    <3> QED
      BY <2>1, <3>3, ChainFacts DEF DefaultRouteMetric
  <2>3. ASSUME NEW h \in Modems, ModemMove(cs, n, c, h), c.orig.iface = h, c.orig \in K PROVE FALSE
    <3>1. c.orig \in cs[h].routes
      BY <1>1, <2>3
    <3>2. c.orig = c.repl
      BY <2>3, <3>1 DEF ModemMove
    <3> QED
      BY <2>1, <3>2, ChainFacts DEF DefaultRouteMetric
  <2>4. c.orig \notin K
    BY <2>2, <2>3, ChainFacts DEF HostMove
  <2> QED
    BY <2>4, KernelHas
<1> QED
  BY <1>0, <1>1, <1>2, <1>3

\* Taking over: the new connection with what it has moved is the default route
\* of a chain, and the kernel's table is what adding its route makes of the
\* table after the changes.
LEMMA TakenOver ==
  ASSUME OneAtATime, NEW cs \in Conns, Chained(cs), NEW m \in Modems, ~cs[m].tracked,
         NEW C \in DefaultRouteChanges(KernelOf(cs), {OwnRoute(m, DefaultRouteMetric)}),
         NEW t \in Connection, t.tracked, t.changes = C, t.dflt,
         t.routes = {OwnRoute(m, DefaultRouteMetric)},
         NEW cs2, cs2 = [n \in Modems |-> IF n = m THEN t ELSE Rerouted(cs[n], C)]
  PROVE  /\ Chained(cs2)
         /\ KernelOf(cs2) = Applied(KernelOf(cs), C) \cup {OwnRoute(m, DefaultRouteMetric)}
         /\ \A r \in Applied(KernelOf(cs), C) : r.metric # DefaultRouteMetric
<1> DEFINE K   == KernelOf(cs)
           own == OwnRoute(m, DefaultRouteMetric)
<1>0. K \subseteq Route /\ Unique(K) /\ Modems # {} /\ own \in Route /\ own.iface = m
      /\ own.metric = DefaultRouteMetric /\ \A r \in Route : r.metric \in Nat
  BY KernelFacts, OneFamily DEF Chained, OwnRoute, DefaultRouteMetric, Route
<1>1. own \notin K /\ cs[m].routes = {} /\ cs[m].changes = {}
  <2>1. cs[m].routes = {} /\ cs[m].changes = {}
    BY DEF Chained, Shaped
  <2> QED
    BY <1>0, <2>1, KernelFacts
<1>2. /\ \A c \in C : /\ c.orig \in K /\ c.orig # own
                      /\ MovesDown(c) /\ c.repl \in Route
                      /\ \A x \in K : x.metric # c.repl.metric
      /\ \A r \in K : r.metric <= DefaultRouteMetric /\ r # own => \E c \in C : c.orig = r
      /\ \A c, d \in C : c.orig = d.orig \/ c.repl.metric = d.repl.metric => c = d
  BY <1>0, PlanOf
<1>3. ASSUME NEW c \in C
      PROVE  /\ c.orig.metric \in Nat /\ c.repl.metric \in Nat /\ c.orig \in Route
             /\ c.orig.metric <= DefaultRouteMetric /\ c.repl.metric > DefaultRouteMetric
             /\ c.repl.iface = c.orig.iface
  <2>1. c.orig \in Route /\ c.repl \in Route /\ MovesDown(c)
    BY <1>0, <1>2
  <2>2. c.repl.iface = c.orig.iface
    BY <2>1 DEF MovesDown, Replaced, Route
  <2> QED
    BY <1>0, <2>1, <2>2 DEF MovesDown
<1>4. ASSUME NEW h \in Modems, cs[h].dflt
      PROVE  \E c \in C : /\ C = {c} /\ c.orig = OwnRoute(h, DefaultRouteMetric)
                          /\ cs[h].routes = {c.orig} /\ h # m
  <2>1. PICK r \in cs[h].routes : r = OwnRoute(h, DefaultRouteMetric) /\ cs[h].routes = {r} /\ r.metric = DefaultRouteMetric
    BY <1>4, ChainFacts
  <2>2. r \in K /\ r # own /\ h # m
    BY <1>1, <2>1, KernelHas
  <2>3. PICK c \in C : c.orig = r
    BY <1>2, <2>1, <2>2 DEF DefaultRouteMetric
  <2>4. ASSUME NEW d \in C PROVE d = c
    <3>1. d.orig \in K /\ d.orig.metric <= DefaultRouteMetric /\ d.orig.metric \in Nat
      BY <1>2, <1>3
    <3>2. d.orig.iface = h
      BY <1>4, <3>1 DEF Chained, Wins, DefaultRouteMetric
    <3>3. d.orig \in cs[h].routes
      BY <3>1, <3>2, KernelFacts
    <3> QED
      BY <1>2, <2>1, <2>3, <3>3
  <2> QED
    BY <2>1, <2>2, <2>3, <2>4
<1>5. ASSUME NEW c \in C
      PROVE  HostMove(c) \/ \E h \in Modems : cs[h].dflt /\ c.orig = OwnRoute(h, DefaultRouteMetric)
  <2>1. CASE c.orig \in HostRoutes
    <3>1. ASSUME c.repl \in HostRoutes PROVE FALSE
      <4>1. \A n \in Modems : \A d \in cs[n].changes : d.orig # c.repl
        BY <1>3, ChainFacts DEF DefaultRouteMetric
      <4>2. c.repl \in K
        BY <3>1, <4>1, KernelHas
      <4> QED
        BY <1>2, <4>2
    <3> QED
      BY <2>1, <3>1 DEF HostMove
  <2>2. ASSUME NEW h \in Modems, cs[h].dflt, c.orig \in cs[h].routes
        PROVE  c.orig = OwnRoute(h, DefaultRouteMetric)
    BY <2>2, ChainFacts
  <2> QED
    BY <1>2, <1>3, <2>1, <2>2, KernelFacts
<1>6. ASSUME NEW n \in Modems, n # m
      PROVE  /\ cs2[n].tracked = cs[n].tracked /\ cs2[n].changes = cs[n].changes /\ ~cs2[n].dflt
             /\ ~cs[n].dflt => cs2[n] = cs[n]
             /\ cs[n].dflt => \E c \in C : /\ C = {c} /\ c.orig = OwnRoute(n, DefaultRouteMetric)
                                            /\ cs2[n].routes = {c.repl} /\ cs[n].routes = {c.orig}
                                            /\ c.repl = OwnRoute(n, c.repl.metric)
  <2>0. cs2[n] = Rerouted(cs[n], C) /\ cs[n] \in Connection
    BY <1>6 DEF Conns
  <2>1. CASE ~cs[n].dflt
    <3>1. ASSUME NEW c \in C, c.orig \in cs[n].routes PROVE FALSE
      <4>1. c.orig.metric >= DefaultRouteMetric /\ (cs[n].dflt <=> c.orig.metric = DefaultRouteMetric)
        BY <3>1, ChainFacts
      <4> QED
        BY <1>3, <2>1, <4>1 DEF DefaultRouteMetric
    <3>2. {c \in C : c.orig \in cs[n].routes} = {}
      BY <3>1
    <3>3. cs2[n] = cs[n]
      BY <2>0, <3>2 DEF Rerouted
    <3> QED
      BY <2>1, <3>3
  <2>2. CASE cs[n].dflt
    <3>1. PICK c \in C : /\ C = {c} /\ c.orig = OwnRoute(n, DefaultRouteMetric)
                          /\ cs[n].routes = {c.orig}
      BY <1>4, <2>2
    <3>2. {d \in C : d.orig \in cs[n].routes} = {c}
      BY <3>1
    <3>3. (cs[n].routes \ {d.orig : d \in {c}}) \cup {d.repl : d \in {c}} = {c.repl}
      BY <3>1
    <3>4. Rerouted(cs[n], C) = [cs[n] EXCEPT !.routes = {c.repl}, !.dflt = IsDefault({c.repl})]
      BY <3>2, <3>3 DEF Rerouted
    <3>5. ~IsDefault({c.repl})
      BY <1>3 DEF IsDefault, DefaultRouteMetric
    <3>6. /\ cs2[n].routes = {c.repl} /\ ~cs2[n].dflt
          /\ cs2[n].tracked = cs[n].tracked /\ cs2[n].changes = cs[n].changes
      BY <2>0, <3>4, <3>5 DEF Connection
    <3>7. c.repl = OwnRoute(n, c.repl.metric)
      BY <1>2, <3>1 DEF MovesDown, Replaced, OwnRoute
    <3> QED
      BY <2>2, <3>1, <3>6, <3>7
  <2> QED
    BY <2>1, <2>2
<1>7. cs2[m] = t
  OBVIOUS
<1>8. ASSUME NEW n \in Modems PROVE Shaped(cs2, n)
  <2>1. CASE n = m
    BY <1>7, <2>1 DEF Shaped, ShapedAs, DefaultRouteMetric
  <2>2. CASE n # m /\ ~cs[n].dflt
    BY <1>6, <2>2 DEF Chained, Shaped
  <2>3. CASE n # m /\ cs[n].dflt
    <3>1. cs2[n].tracked /\ ~cs2[n].dflt
      BY <1>6, <2>3, ChainFacts
    <3>2. PICK c \in C : cs2[n].routes = {c.repl} /\ c.repl = OwnRoute(n, c.repl.metric)
      BY <1>6, <2>3
    <3>3. ShapedAs(cs2[n], n, c.repl.metric) /\ c.repl.metric \in Nat
      BY <1>3, <3>1, <3>2 DEF ShapedAs, DefaultRouteMetric
    <3> QED
      BY <3>1, <3>3 DEF Shaped
  <2> QED
    BY <2>1, <2>2, <2>3
<1>9. ASSUME NEW p \in Modems, p # m, NEW c \in cs[p].changes, NEW h \in Modems, ModemMove(cs, p, c, h)
      PROVE  h # m /\ ~cs[h].dflt /\ cs2[h] = cs[h]
  <2>1. c.repl \in cs[h].routes /\ c.repl.metric > DefaultRouteMetric
    BY <1>9, ChainFacts DEF ModemMove
  <2>2. h # m /\ ~cs[h].dflt
    BY <1>1, <2>1, ChainFacts DEF DefaultRouteMetric
  <2> QED
    BY <1>6, <2>2
<1>10. ASSUME NEW p \in Modems PROVE Sound(cs2, p)
  <2> SUFFICES ASSUME NEW c \in cs2[p].changes
               PROVE  MovesDown(c) /\ (HostMove(c) \/ \E h \in Modems : ModemMove(cs2, p, c, h))
    BY DEF Sound
  <2>1. CASE p # m
    <3>1. c \in cs[p].changes /\ cs2[p].changes = cs[p].changes
      BY <1>6, <2>1
    <3>2. MovesDown(c) /\ (HostMove(c) \/ \E h \in Modems : ModemMove(cs, p, c, h))
      BY <3>1 DEF Chained, Sound
    <3> QED
      BY <1>9, <2>1, <3>1, <3>2 DEF ModemMove
  <2>2. CASE p = m
    <3>1. c \in C /\ MovesDown(c) /\ cs2[p].changes = C
      BY <1>2, <1>7, <2>2
    <3>2. ASSUME NEW h \in Modems, cs[h].dflt, c.orig = OwnRoute(h, DefaultRouteMetric)
          PROVE  ModemMove(cs2, p, c, h)
      BY <1>4, <1>6, <2>2, <3>1, <3>2 DEF ModemMove
    <3> QED
      BY <1>5, <3>1, <3>2
  <2> QED
    BY <2>1, <2>2
<1>11. ASSUME NEW p \in Modems, p # m, NEW c \in cs[p].changes, NEW d \in C
       PROVE  c.orig # d.orig /\ c.repl # d.repl
  BY <1>2, KernelFacts
<1>12. Distinct(cs2)
  <2> SUFFICES ASSUME NEW p \in Modems, NEW q \in Modems, NEW c \in cs2[p].changes, NEW d \in cs2[q].changes,
                      c.orig = d.orig \/ c.repl = d.repl
               PROVE  p = q /\ c = d
    BY DEF Distinct
  <2>1. CASE p # m /\ q # m
    <3>1. c \in cs[p].changes /\ d \in cs[q].changes
      BY <1>6, <2>1
    <3> QED
      BY <3>1 DEF Chained, Distinct
  <2>2. CASE p = m /\ q = m
    BY <1>2, <1>7, <2>2
  <2>3. CASE p = m /\ q # m
    BY <1>6, <1>7, <1>11, <2>3
  <2>4. CASE p # m /\ q = m
    BY <1>6, <1>7, <1>11, <2>4
  <2> QED
    BY <2>1, <2>2, <2>3, <2>4
<1>13. ASSUME NEW n \in Modems PROVE Linked(cs2, n)
  <2> SUFFICES ASSUME cs2[n].changes # {}, n # m
               PROVE  \E p \in Modems : MovedBy(cs2, p, n)
    BY <1>7 DEF Linked
  <2>1. CASE cs[n].dflt
    <3>1. PICK c \in C : cs2[n].routes = {c.repl}
      BY <1>6, <2>1
    <3> QED
      BY <1>7, <3>1 DEF MovedBy
  <2>2. CASE ~cs[n].dflt
    <3>1. cs2[n] = cs[n] /\ cs[n].changes # {}
      BY <1>6, <2>2
    <3>2. PICK p \in Modems : MovedBy(cs, p, n)
      BY <2>2, <3>1 DEF Chained, Linked
    <3>3. p # m
      BY <1>1, <3>2 DEF MovedBy
    <3>4. cs2[p].changes = cs[p].changes
      BY <1>6, <3>3
    <3> QED
      BY <3>1, <3>2, <3>4 DEF MovedBy
  <2> QED
    BY <2>1, <2>2
<1>14. Ranked(cs2)
  <2>1. PICK rk \in [Modems -> Nat] : RankedBy(cs, rk)
    BY DEF Chained, Ranked
  <2>2. PICK k \in Nat : \A h \in Modems : cs[h].dflt => rk[h] < k
    <3>1. CASE \E h \in Modems : cs[h].dflt
      <4>1. PICK h \in Modems : cs[h].dflt
        BY <3>1
      <4>2. ASSUME NEW g \in Modems, cs[g].dflt PROVE g = h
        <5>1. PICK c \in C : C = {c} /\ c.orig = OwnRoute(h, DefaultRouteMetric)
          BY <1>4, <4>1
        <5>2. c.orig = OwnRoute(g, DefaultRouteMetric)
          BY <1>4, <4>2, <5>1
        <5> QED
          BY <5>1, <5>2 DEF OwnRoute
      <4>3. rk[h] + 1 \in Nat /\ rk[h] < rk[h] + 1
        OBVIOUS
      <4> QED
        BY <4>2, <4>3
    <3> QED
      BY <3>1
  <2> DEFINE rk2 == [rk EXCEPT ![m] = k]
  <2>3. rk2 \in [Modems -> Nat] /\ rk2[m] = k /\ \A n \in Modems : n # m => rk2[n] = rk[n]
    OBVIOUS
  <2> HIDE DEF rk2
  <2>4. ASSUME NEW p \in Modems, NEW n \in Modems, NEW c \in cs2[p].changes, c.orig.iface = n
        PROVE  rk2[n] < rk2[p]
    <3>1. CASE p = m
      <4>1. c \in C
        BY <1>7, <3>1
      <4>2. ~HostMove(c)
        BY <2>4, ConstantsAssumption DEF HostMove
      <4>3. PICK h \in Modems : cs[h].dflt /\ c.orig = OwnRoute(h, DefaultRouteMetric)
        BY <1>5, <4>1, <4>2
      <4>4. n = h /\ n # m
        BY <1>4, <2>4, <4>3 DEF OwnRoute
      <4> QED
        BY <2>2, <2>3, <3>1, <4>3, <4>4
    <3>2. CASE p # m
      <4>1. c \in cs[p].changes
        BY <1>6, <3>2
      <4>2. c.orig.iface \notin Wans
        BY <2>4, ConstantsAssumption
      <4>3. PICK h \in Modems : ModemMove(cs, p, c, h) /\ c.orig.iface = h
        BY <4>1, <4>2, ChainFacts
      <4>4. n # m
        BY <1>9, <2>4, <3>2, <4>1, <4>3
      <4> QED
        BY <2>1, <2>3, <2>4, <3>2, <4>1, <4>4 DEF RankedBy
    <3> QED
      BY <3>1, <3>2
  <2> QED
    BY <2>3, <2>4 DEF Ranked, RankedBy
<1>15. ASSUME NEW r
       PROVE  r \in KernelOf(cs2) <=> r \in Applied(K, C) \cup {own}
  <2>1. r \in Applied(K, C) <=> (r \in K /\ \A c \in C : c.orig # r) \/ \E c \in C : c.repl = r
    BY DEF Applied
  <2>2. ASSUME r \in KernelOf(cs2) PROVE r \in Applied(K, C) \cup {own}
    <3>1. CASE r \in HostRoutes /\ \A n \in Modems : \A c \in cs2[n].changes : c.orig # r
      <4>1. \A n \in Modems : \A c \in cs[n].changes : c.orig # r
        BY <1>1, <1>6, <3>1
      <4>2. r \in K /\ \A c \in C : c.orig # r
        BY <1>7, <3>1, <4>1, KernelHas
      <4> QED
        BY <2>1, <4>2
    <3>2. ASSUME NEW n \in Modems, NEW c \in cs2[n].changes, c.repl = r
          PROVE  r \in Applied(K, C)
      <4>1. CASE n = m
        BY <1>7, <2>1, <3>2, <4>1
      <4>2. CASE n # m
        <5>1. c \in cs[n].changes
          BY <1>6, <4>2
        <5>2. r \in K /\ r.metric > DefaultRouteMetric
          BY <3>2, <5>1, ChainFacts, KernelFacts
        <5>3. \A d \in C : d.orig # r
          BY <1>3, <5>2 DEF DefaultRouteMetric
        <5> QED
          BY <2>1, <5>2, <5>3
      <4> QED
        BY <4>1, <4>2
    <3>3. ASSUME NEW n \in Modems, r \in cs2[n].routes
          PROVE  r \in Applied(K, C) \cup {own}
      <4>1. CASE n = m
        BY <1>7, <3>3, <4>1
      <4>2. CASE n # m /\ cs[n].dflt
        BY <1>6, <2>1, <3>3, <4>2
      <4>3. CASE n # m /\ ~cs[n].dflt
        <5>1. r \in cs[n].routes
          BY <1>6, <3>3, <4>3
        <5>2. r \in K /\ r.metric \in Nat /\ r.metric > DefaultRouteMetric
          BY <4>3, <5>1, ChainFacts, KernelHas DEF DefaultRouteMetric
        <5>3. \A d \in C : d.orig # r
          BY <1>3, <5>2 DEF DefaultRouteMetric
        <5> QED
          BY <2>1, <5>2, <5>3
      <4> QED
        BY <4>1, <4>2, <4>3
    <3> QED
      BY <2>2, <3>1, <3>2, <3>3, KernelHas
  <2>3. ASSUME r \in K, \A c \in C : c.orig # r PROVE r \in KernelOf(cs2)
    <3>1. CASE r \in HostRoutes /\ \A n \in Modems : \A c \in cs[n].changes : c.orig # r
      <4>1. \A n \in Modems : \A c \in cs2[n].changes : c.orig # r
        BY <1>6, <1>7, <2>3, <3>1
      <4> QED
        BY <3>1, <4>1, KernelHas
    <3>2. ASSUME NEW n \in Modems, NEW c \in cs[n].changes, c.repl = r PROVE r \in KernelOf(cs2)
      <4>1. n # m
        BY <1>1
      <4>2. c \in cs2[n].changes
        BY <1>6, <4>1
      <4> QED
        BY <3>2, <4>2, KernelHas
    <3>3. ASSUME NEW n \in Modems, r \in cs[n].routes PROVE r \in KernelOf(cs2)
      <4>1. n # m
        BY <1>1, <3>3
      <4>2. ~cs[n].dflt
        BY <1>6, <2>3, <3>3, <4>1
      <4>3. r \in cs2[n].routes
        BY <1>6, <3>3, <4>1, <4>2
      <4> QED
        BY <4>3, KernelHas
    <3> QED
      BY <2>3, <3>1, <3>2, <3>3, KernelHas
  <2>4. ASSUME NEW c \in C, c.repl = r PROVE r \in KernelOf(cs2)
    <3>1. c \in cs2[m].changes
      BY <1>7
    <3> QED
      BY <2>4, <3>1, KernelHas
  <2>5. ASSUME r = own PROVE r \in KernelOf(cs2)
    <3>1. r \in cs2[m].routes
      BY <1>7, <2>5
    <3> QED
      BY <3>1, KernelHas
  <2> QED
    BY <2>1, <2>2, <2>3, <2>4, <2>5
<1>16. KernelOf(cs2) = Applied(K, C) \cup {own}
  BY <1>15
<1>17. ASSUME NEW r \in Applied(K, C)
       PROVE  /\ r.metric \in Nat /\ r.metric > DefaultRouteMetric
              /\ \/ r \in K /\ \A c \in C : c.orig # r
                 \/ \E c \in C : c.repl = r
  <2>1. CASE r \in K /\ \A c \in C : c.orig # r
    <3>1. ~(r.metric <= DefaultRouteMetric)
      BY <1>1, <1>2, <2>1
    <3> QED
      BY <1>0, <2>1, <3>1 DEF DefaultRouteMetric
  <2>2. CASE \E c \in C : c.repl = r
    BY <1>3, <2>2
  <2> QED
    BY <2>1, <2>2 DEF Applied
<1>18. Unique(KernelOf(cs2))
  <2> SUFFICES ASSUME NEW r \in Applied(K, C) \cup {own}, NEW s \in Applied(K, C) \cup {own}, r.metric = s.metric
               PROVE  r = s
    BY <1>16 DEF Unique
  <2>1. CASE r = own \/ s = own
    <3>1. \A x \in Applied(K, C) : x.metric # DefaultRouteMetric
      BY <1>17 DEF DefaultRouteMetric
    <3> QED
      BY <1>0, <2>1, <3>1
  <2>2. CASE r \in Applied(K, C) /\ s \in Applied(K, C)
    <3>1. CASE r \in K /\ s \in K
      BY <1>0, <3>1 DEF Unique
    <3>2. CASE r \in K /\ \E c \in C : c.repl = s
      BY <1>2, <3>2
    <3>3. CASE s \in K /\ \E c \in C : c.repl = r
      BY <1>2, <3>3
    <3>4. ASSUME NEW c \in C, NEW d \in C, c.repl = r, d.repl = s PROVE r = s
      BY <1>2, <3>4
    <3> QED
      BY <1>17, <2>2, <3>1, <3>2, <3>3, <3>4
  <2> QED
    BY <2>1, <2>2
<1>19. Wins(cs2, KernelOf(cs2))
  <2> SUFFICES ASSUME NEW n \in Modems, cs2[n].dflt, NEW r \in Applied(K, C) \cup {own}, r.iface # n
               PROVE  r.metric > DefaultRouteMetric
    BY <1>16 DEF Wins
  <2>1. n = m
    BY <1>6
  <2>2. r \in Applied(K, C)
    BY <1>0, <2>1
  <2> QED
    BY <1>17, <2>2
<1>20. Chained(cs2)
  BY <1>8, <1>10, <1>12, <1>13, <1>14, <1>18, <1>19 DEF Chained
<1>21. \A r \in Applied(K, C) : r.metric # DefaultRouteMetric
  BY <1>17 DEF DefaultRouteMetric
<1> QED
  BY <1>16, <1>20, <1>21

\* A connection that is not the default route joins at the end of the table.
LEMMA JoinsLast ==
  ASSUME OneAtATime, NEW cs \in Conns, Chained(cs), NEW m \in Modems, ~cs[m].tracked,
         NEW k \in Nat, k > DefaultRouteMetric, \A x \in KernelOf(cs) : x.metric # k,
         NEW t \in Connection, t.tracked, t.changes = {}, ~t.dflt, t.routes = {OwnRoute(m, k)},
         NEW cs2, cs2 = [n \in Modems |-> IF n = m THEN t ELSE Rerouted(cs[n], {})]
  PROVE  /\ Chained(cs2)
         /\ KernelOf(cs2) = KernelOf(cs) \cup {OwnRoute(m, k)}
<1> DEFINE K   == KernelOf(cs)
           own == OwnRoute(m, k)
<1>0. own.iface = m /\ own.metric = k
  BY DEF OwnRoute
<1>1. cs[m].routes = {} /\ cs[m].changes = {}
  BY DEF Chained, Shaped
<1>2. ASSUME NEW n \in Modems, n # m PROVE cs2[n] = cs[n]
  <2>1. {c \in {} : c.orig \in cs[n].routes} = {}
    OBVIOUS
  <2> QED
    BY <1>2, <2>1 DEF Rerouted
<1>3. cs2[m] = t
  OBVIOUS
<1>4. \A n \in Modems : cs2[n].changes = cs[n].changes
  BY <1>1, <1>2, <1>3
<1>5. ASSUME NEW n \in Modems PROVE Shaped(cs2, n) /\ Linked(cs2, n)
  <2>1. CASE n = m
    <3>1. ShapedAs(t, m, k)
      BY DEF ShapedAs, DefaultRouteMetric
    <3> QED
      BY <1>3, <2>1, <3>1 DEF Shaped, Linked
  <2>2. CASE n # m
    <3>1. cs2[n] = cs[n] /\ Shaped(cs, n) /\ Linked(cs, n)
      BY <1>2, <2>2 DEF Chained
    <3>2. \A p \in Modems : MovedBy(cs, p, n) => MovedBy(cs2, p, n)
      BY <1>4, <3>1 DEF MovedBy
    <3> QED
      BY <3>1, <3>2 DEF Shaped, Linked
  <2> QED
    BY <2>1, <2>2
<1>6. ASSUME NEW p \in Modems PROVE Sound(cs2, p)
  <2> SUFFICES ASSUME NEW c \in cs[p].changes
               PROVE  MovesDown(c) /\ (HostMove(c) \/ \E h \in Modems : ModemMove(cs2, p, c, h))
    BY <1>4 DEF Sound
  <2>1. MovesDown(c) /\ (HostMove(c) \/ \E h \in Modems : ModemMove(cs, p, c, h))
    BY DEF Chained, Sound
  <2>2. ASSUME NEW h \in Modems, ModemMove(cs, p, c, h) PROVE ModemMove(cs2, p, c, h)
    <3>1. h # m
      BY <1>1, <2>2 DEF ModemMove
    <3> QED
      BY <1>2, <1>4, <2>2, <3>1 DEF ModemMove
  <2> QED
    BY <2>1, <2>2
<1>7. Distinct(cs2) /\ Ranked(cs2)
  BY <1>4 DEF Chained, Distinct, Ranked, RankedBy
<1>8. ASSUME NEW r PROVE r \in KernelOf(cs2) <=> r \in K \cup {own}
  <2>1. (\E n \in Modems : r \in cs2[n].routes) <=> (\E n \in Modems : r \in cs[n].routes) \/ r = own
    <3>1. cs2[m].routes = {own}
      BY <1>3
    <3> QED
      BY <1>1, <1>2, <3>1
  <2> QED
    BY <1>4, <2>1, KernelHas
<1>9. KernelOf(cs2) = K \cup {own}
  BY <1>8
<1>10. Unique(KernelOf(cs2))
  BY <1>0, <1>9 DEF Chained, Unique
<1>11. Wins(cs2, KernelOf(cs2))
  <2> SUFFICES ASSUME NEW n \in Modems, cs2[n].dflt, NEW r \in K \cup {own}, r.iface # n
               PROVE  r.metric > DefaultRouteMetric
    BY <1>9 DEF Wins
  <2>1. n # m /\ cs[n].dflt
    BY <1>2, <1>3
  <2> QED
    BY <1>0, <2>1 DEF Chained, Wins
<1> QED
  BY <1>5, <1>6, <1>7, <1>9, <1>10, <1>11 DEF Chained

-----------------------------------------------------------------------------
(* Going away. *)

\* What the default route has moved, next to what is left without its route.
LEMMA TopFacts ==
  ASSUME OneAtATime, NEW cs \in Conns, Chained(cs), NEW m \in Modems, cs[m].dflt
  PROVE  /\ cs[m].routes = {OwnRoute(m, DefaultRouteMetric)}
         /\ \A n \in Modems : n # m => ~cs[n].dflt
         /\ \A x \in KernelOf(cs) \ cs[m].routes : x.metric \in Nat /\ x.metric > DefaultRouteMetric
         /\ \A c, d \in cs[m].changes : c.orig.metric = d.orig.metric => c = d
         /\ \A c \in cs[m].changes : c.repl \in KernelOf(cs) \ cs[m].routes
<1> DEFINE K == KernelOf(cs)
<1>1. PICK own \in cs[m].routes : own = OwnRoute(m, own.metric) /\ cs[m].routes = {own}
                                  /\ own.metric = DefaultRouteMetric
  BY ChainFacts
<1>2. own \in K
  BY KernelHas
<1>3. ASSUME NEW n \in Modems, n # m, cs[n].dflt PROVE FALSE
  <2>1. PICK r \in cs[n].routes : r.metric = DefaultRouteMetric /\ r.iface = n
    BY <1>3, ChainFacts
  <2>2. r \in K
    BY KernelHas
  <2>3. r = own
    BY <1>1, <1>2, <2>1, <2>2 DEF Chained, Unique
  <2> QED
    BY <1>3, <2>1, <2>3, ChainFacts
<1>4. ASSUME NEW x \in K \ cs[m].routes PROVE x.metric \in Nat /\ x.metric > DefaultRouteMetric
  <2>1. x.iface # m
    BY KernelFacts
  <2>2. x \in Route
    BY KernelFacts
  <2> QED
    BY <2>1, <2>2 DEF Chained, Wins, Route
<1>5. ASSUME NEW c \in cs[m].changes, NEW d \in cs[m].changes, c.orig.metric = d.orig.metric
      PROVE  c = d
  <2>1. CASE HostMove(c) /\ HostMove(d)
    <3>1. c.orig.fam = d.orig.fam
      BY ChainFacts, OneFamily
    <3>2. c.orig = d.orig
      BY <1>5, <2>1, <3>1, ConstantsAssumption DEF HostMove
    <3> QED
      BY <3>2 DEF Chained, Distinct
  <2>2. CASE \E h \in Modems : ModemMove(cs, m, c, h)
    BY <2>2 DEF ModemMove
  <2>3. CASE \E h \in Modems : ModemMove(cs, m, d, h)
    BY <2>3 DEF ModemMove
  <2> QED
    BY <2>1, <2>2, <2>3, ChainFacts
<1>6. ASSUME NEW c \in cs[m].changes PROVE c.repl \in K \ cs[m].routes
  <2>1. c.repl \in K /\ c.repl.metric > DefaultRouteMetric
    BY ChainFacts, KernelFacts
  <2> QED
    BY <1>1, <2>1 DEF DefaultRouteMetric
<1> QED
  BY <1>1, <1>3, <1>4, <1>5, <1>6

\* The default route goes: whoever it had taken it from is the default again.
LEMMA Restored ==
  ASSUME OneAtATime, NEW cs \in Conns, Chained(cs), NEW m \in Modems, cs[m].dflt,
         NEW D, D = cs[m].changes,
         NEW cs2, cs2 = [n \in Modems |-> IF n = m THEN Untracked ELSE Rerouted(cs[n], Backwards(D))]
  PROVE  /\ Chained(cs2)
         /\ KernelOf(cs2) = Reverted(KernelOf(cs) \ cs[m].routes, D)
         /\ \A n \in Modems : cs2[n].changes = IF n = m THEN {} ELSE cs[n].changes
         /\ \A n \in Modems : n # m => cs2[n].tracked = cs[n].tracked
<1> DEFINE K      == KernelOf(cs)
           own    == OwnRoute(m, DefaultRouteMetric)
           hit(n) == \E c \in D : c.repl \in cs[n].routes
<1>1. /\ cs[m].routes = {own} /\ own.iface = m /\ own.metric = DefaultRouteMetric
      /\ \A n \in Modems : n # m => ~cs[n].dflt
      /\ \A x \in K \ {own} : x.metric \in Nat /\ x.metric > DefaultRouteMetric
      /\ \A c, d \in D : c.orig.metric = d.orig.metric => c = d
      /\ \A c \in D : c.repl \in K \ {own}
  BY TopFacts DEF OwnRoute
<1>2. ASSUME NEW c \in D
      PROVE  /\ c.orig \in Route /\ c.orig.metric \in Nat /\ c.orig.metric <= DefaultRouteMetric
             /\ c.repl.metric > DefaultRouteMetric /\ c.repl.iface = c.orig.iface
             /\ \/ HostMove(c) /\ c.orig.iface \in Wans
                \/ \E h \in Modems : ModemMove(cs, m, c, h) /\ c.orig.iface = h
  BY ChainFacts DEF Route
<1>3. ASSUME NEW n \in Modems, NEW c \in D, c.repl \in cs[n].routes
      PROVE  ModemMove(cs, m, c, n) /\ D = {c} /\ n # m
  <2>1. c.orig.iface = n
    BY <1>2, <1>3, ChainFacts
  <2>2. n \notin Wans
    BY ConstantsAssumption
  <2>3. PICK h \in Modems : ModemMove(cs, m, c, h) /\ c.orig.iface = h
    BY <1>2, <2>1, <2>2
  <2> QED
    BY <2>1, <2>3 DEF ModemMove
<1>4. cs2[m] = Untracked
  OBVIOUS
<1>5. ASSUME NEW n \in Modems, n # m
      PROVE  /\ cs2[n].tracked = cs[n].tracked /\ cs2[n].changes = cs[n].changes
             /\ ~hit(n) => cs2[n] = cs[n]
             /\ hit(n) => \E c \in D : /\ D = {c} /\ c.orig = OwnRoute(n, DefaultRouteMetric)
                                       /\ cs2[n].routes = {c.orig} /\ cs[n].routes = {c.repl}
                                       /\ cs2[n].dflt /\ cs[n].tracked
  <2> DEFINE B == Backwards(D)
  <2>0. cs2[n] = Rerouted(cs[n], B) /\ cs[n] \in Connection
    BY <1>5 DEF Conns
  <2>1. CASE ~hit(n)
    <3>1. {b \in B : b.orig \in cs[n].routes} = {}
      BY <2>1 DEF Backwards
    <3>2. cs2[n] = cs[n]
      BY <2>0, <3>1 DEF Rerouted
    <3> QED
      BY <2>1, <3>2
  <2>2. CASE hit(n)
    <3>1. PICK c \in D : c.repl \in cs[n].routes
      BY <2>2
    <3>2. ModemMove(cs, m, c, n) /\ D = {c}
      BY <1>3, <3>1
    <3>3. c.orig = OwnRoute(n, DefaultRouteMetric) /\ cs[n].routes = {c.repl} /\ cs[n].tracked
      BY <3>1, <3>2, ChainFacts DEF ModemMove
    <3>4. B = {[orig |-> c.repl, repl |-> c.orig]}
      BY <3>2 DEF Backwards
    <3> DEFINE b == [orig |-> c.repl, repl |-> c.orig]
    <3>5. {d \in B : d.orig \in cs[n].routes} = {b}
      BY <3>3, <3>4
    <3>6. (cs[n].routes \ {d.orig : d \in {b}}) \cup {d.repl : d \in {b}} = {c.orig}
      BY <3>3
    <3>7. Rerouted(cs[n], B) = [cs[n] EXCEPT !.routes = {c.orig}, !.dflt = IsDefault({c.orig})]
      BY <3>5, <3>6 DEF Rerouted
    <3>8. IsDefault({c.orig}) = TRUE
      BY <1>2 DEF IsDefault
    <3>9. /\ cs2[n].routes = {c.orig} /\ cs2[n].dflt
          /\ cs2[n].tracked = cs[n].tracked /\ cs2[n].changes = cs[n].changes
      BY <2>0, <3>7, <3>8 DEF Connection
    <3> QED
      BY <2>2, <3>2, <3>3, <3>9
  <2> QED
    BY <2>1, <2>2
<1> HIDE DEF hit
<1>6. ASSUME NEW n \in Modems PROVE Shaped(cs2, n)
  <2>1. CASE n = m
    BY <1>4, <2>1 DEF Shaped, Untracked
  <2>2. CASE n # m /\ ~hit(n)
    BY <1>5, <2>2 DEF Chained, Shaped
  <2>3. CASE n # m /\ hit(n)
    <3>1. cs2[n].tracked /\ ShapedAs(cs2[n], n, DefaultRouteMetric)
      BY <1>5, <2>3 DEF ShapedAs, DefaultRouteMetric
    <3>2. DefaultRouteMetric \in Nat
      BY DEF DefaultRouteMetric
    <3> QED
      BY <3>1, <3>2 DEF Shaped
  <2> QED
    BY <2>1, <2>2, <2>3
<1>7. ASSUME NEW p \in Modems, p # m, NEW c \in cs[p].changes, NEW h \in Modems, ModemMove(cs, p, c, h)
      PROVE  h # m /\ ~hit(h) /\ cs2[h] = cs[h]
  <2>1. c.repl \in cs[h].routes /\ cs[h].routes = {c.repl} /\ c.repl.metric > DefaultRouteMetric
    BY <1>7, ChainFacts DEF ModemMove
  <2>2. h # m
    BY <1>1, <2>1 DEF DefaultRouteMetric
  <2>3. \A d \in D : d.repl # c.repl
    BY <1>7 DEF Chained, Distinct
  <2>4. ~hit(h)
    BY <2>1, <2>3 DEF hit
  <2> QED
    BY <1>5, <2>2, <2>4
<1>8. ASSUME NEW p \in Modems PROVE Sound(cs2, p)
  <2> SUFFICES ASSUME NEW c \in cs2[p].changes
               PROVE  MovesDown(c) /\ (HostMove(c) \/ \E h \in Modems : ModemMove(cs2, p, c, h))
    BY DEF Sound
  <2>1. p # m
    BY <1>4 DEF Untracked
  <2>2. c \in cs[p].changes /\ cs2[p].changes = cs[p].changes
    BY <1>5, <2>1
  <2>3. MovesDown(c) /\ (HostMove(c) \/ \E h \in Modems : ModemMove(cs, p, c, h))
    BY <2>2 DEF Chained, Sound
  <2> QED
    BY <1>7, <2>1, <2>2, <2>3 DEF ModemMove
<1>9. \A n \in Modems : cs2[n].changes = IF n = m THEN {} ELSE cs[n].changes
  BY <1>4, <1>5 DEF Untracked
<1>10. Distinct(cs2)
  BY <1>9 DEF Chained, Distinct
<1>11. Ranked(cs2)
  BY <1>9 DEF Chained, Ranked, RankedBy
<1>12. ASSUME NEW n \in Modems PROVE Linked(cs2, n)
  <2> SUFFICES ASSUME cs2[n].changes # {}, n # m, ~cs2[n].dflt
               PROVE  \E p \in Modems : MovedBy(cs2, p, n)
    BY <1>9 DEF Linked
  <2>1. ~hit(n) /\ cs2[n] = cs[n] /\ cs[n].changes # {} /\ ~cs[n].dflt
    BY <1>1, <1>5
  <2>2. PICK p \in Modems : MovedBy(cs, p, n)
    BY <2>1 DEF Chained, Linked
  <2>3. p # m
    BY <2>1, <2>2 DEF MovedBy, hit
  <2> QED
    BY <1>9, <2>1, <2>2, <2>3 DEF MovedBy
<1>13. ASSUME NEW r
       PROVE  r \in KernelOf(cs2) <=> r \in Reverted(K \ {own}, D)
  <2>1. r \in Reverted(K \ {own}, D) <=>
          (r \in K /\ r # own /\ \A c \in D : c.repl # r) \/ \E c \in D : c.orig = r
    BY DEF Reverted
  <2>2. ASSUME r \in KernelOf(cs2), \A c \in D : c.orig # r
        PROVE  r \in K /\ r # own /\ \A c \in D : c.repl # r
    <3>1. CASE r \in HostRoutes /\ \A n \in Modems : \A c \in cs2[n].changes : c.orig # r
      <4>1. \A n \in Modems : \A c \in cs[n].changes : c.orig # r
        BY <1>9, <2>2, <3>1
      <4>2. r \in K /\ r.iface \in Wans
        BY <3>1, <4>1, KernelHas, ConstantsAssumption
      <4>3. ASSUME NEW c \in D, c.repl = r PROVE FALSE
        <5>1. c.orig.iface \in Wans
          BY <1>2, <4>2, <4>3
        <5>2. \A h \in Modems : c.orig.iface # h
          BY <5>1, ConstantsAssumption
        <5>3. HostMove(c)
          BY <1>2, <5>2
        <5> QED
          BY <3>1, <4>3, <5>3 DEF HostMove
      <4> QED
        BY <1>1, <4>2, <4>3, ConstantsAssumption
    <3>2. ASSUME NEW n \in Modems, NEW c \in cs2[n].changes, c.repl = r
          PROVE  r \in K /\ r # own /\ \A d \in D : d.repl # r
      <4>1. n # m /\ c \in cs[n].changes
        BY <1>9
      <4>2. r \in K /\ r.metric > DefaultRouteMetric
        BY <3>2, <4>1, ChainFacts, KernelFacts
      <4>3. \A d \in D : d.repl # r
        BY <3>2, <4>1 DEF Chained, Distinct
      <4> QED
        BY <1>1, <4>2, <4>3 DEF DefaultRouteMetric
    <3>3. ASSUME NEW n \in Modems, r \in cs2[n].routes
          PROVE  r \in K /\ r # own /\ \A d \in D : d.repl # r
      <4>1. n # m
        BY <1>4, <3>3 DEF Untracked
      <4>2. ~hit(n)
        BY <1>5, <2>2, <3>3, <4>1
      <4>3. r \in cs[n].routes
        BY <1>5, <3>3, <4>1, <4>2
      <4>4. r \in K /\ r.iface = n
        BY <4>3, KernelHas, ChainFacts
      <4> QED
        BY <1>1, <4>1, <4>2, <4>3, <4>4 DEF hit
    <3> QED
      BY <2>2, <3>1, <3>2, <3>3, KernelHas
  <2>3. ASSUME r \in K, r # own, \A c \in D : c.repl # r
        PROVE  r \in KernelOf(cs2)
    <3>1. CASE r \in HostRoutes /\ \A n \in Modems : \A c \in cs[n].changes : c.orig # r
      <4>1. \A n \in Modems : \A c \in cs2[n].changes : c.orig # r
        BY <1>9, <3>1
      <4> QED
        BY <3>1, <4>1, KernelHas
    <3>2. ASSUME NEW n \in Modems, NEW c \in cs[n].changes, c.repl = r PROVE r \in KernelOf(cs2)
      <4>1. n # m
        BY <2>3, <3>2
      <4>2. c \in cs2[n].changes
        BY <1>9, <4>1
      <4> QED
        BY <3>2, <4>2, KernelHas
    <3>3. ASSUME NEW n \in Modems, r \in cs[n].routes PROVE r \in KernelOf(cs2)
      <4>1. n # m
        BY <1>1, <2>3, <3>3
      <4>2. cs[n].routes = {r}
        BY <3>3, ChainFacts
      <4>3. ~hit(n)
        BY <2>3, <4>2 DEF hit
      <4>4. r \in cs2[n].routes
        BY <1>5, <3>3, <4>1, <4>3
      <4> QED
        BY <4>4, KernelHas
    <3> QED
      BY <2>3, <3>1, <3>2, <3>3, KernelHas
  <2>4. ASSUME NEW c \in D, c.orig = r PROVE r \in KernelOf(cs2)
    <3>1. CASE HostMove(c)
      <4>1. \A n \in Modems : \A d \in cs2[n].changes : d.orig # r
        <5> SUFFICES ASSUME NEW n \in Modems, NEW d \in cs2[n].changes, d.orig = r PROVE FALSE
          OBVIOUS
        <5>1. n # m /\ d \in cs[n].changes
          BY <1>9
        <5> QED
          BY <2>4, <5>1 DEF Chained, Distinct
      <4> QED
        BY <2>4, <3>1, <4>1, KernelHas DEF HostMove
    <3>2. ASSUME NEW h \in Modems, ModemMove(cs, m, c, h) PROVE r \in KernelOf(cs2)
      <4>1. h # m /\ hit(h)
        BY <3>2 DEF ModemMove, hit
      <4>2. r \in cs2[h].routes
        BY <1>5, <2>4, <4>1
      <4> QED
        BY <4>2, KernelHas
    <3> QED
      BY <1>2, <3>1, <3>2
  <2> QED
    BY <2>1, <2>2, <2>3, <2>4
<1>14. KernelOf(cs2) = Reverted(K \ {own}, D)
  BY <1>13
<1>15. ASSUME NEW r \in KernelOf(cs2), \A c \in D : c.orig # r
       PROVE  r \in K /\ r # own
  BY <1>14, <1>15 DEF Reverted
<1>16. Unique(KernelOf(cs2))
  <2> SUFFICES ASSUME NEW r \in KernelOf(cs2), NEW s \in KernelOf(cs2), r.metric = s.metric
               PROVE  r = s
    BY DEF Unique
  <2>1. CASE (\A c \in D : c.orig # r) /\ (\A c \in D : c.orig # s)
    BY <1>15, <2>1 DEF Chained, Unique
  <2>2. ASSUME NEW c \in D, c.orig = r, \A d \in D : d.orig # s PROVE r = s
    <3>1. s \in K \ {own}
      BY <1>15, <2>2
    <3>2. s.metric \in Nat /\ s.metric > DefaultRouteMetric /\ r.metric \in Nat /\ r.metric <= DefaultRouteMetric
      BY <1>1, <1>2, <2>2, <3>1
    <3> QED
      BY <3>2 DEF DefaultRouteMetric
  <2>3. ASSUME NEW c \in D, c.orig = s, \A d \in D : d.orig # r PROVE r = s
    <3>1. r \in K \ {own}
      BY <1>15, <2>3
    <3>2. r.metric \in Nat /\ r.metric > DefaultRouteMetric /\ s.metric \in Nat /\ s.metric <= DefaultRouteMetric
      BY <1>1, <1>2, <2>3, <3>1
    <3> QED
      BY <3>2 DEF DefaultRouteMetric
  <2>4. ASSUME NEW c \in D, NEW d \in D, c.orig = r, d.orig = s PROVE r = s
    BY <1>1, <2>4
  <2> QED
    BY <2>1, <2>2, <2>3, <2>4
<1>17. Wins(cs2, KernelOf(cs2))
  <2> SUFFICES ASSUME NEW n \in Modems, cs2[n].dflt, NEW r \in KernelOf(cs2), r.iface # n
               PROVE  r.metric > DefaultRouteMetric
    BY DEF Wins
  <2>1. n # m
    BY <1>4 DEF Untracked
  <2>2. PICK c \in D : D = {c} /\ c.orig = OwnRoute(n, DefaultRouteMetric)
    BY <1>1, <1>5, <2>1
  <2>3. c.orig # r
    BY <2>2 DEF OwnRoute
  <2>4. r \in K \ {own}
    BY <1>15, <2>2, <2>3
  <2> QED
    BY <1>1, <2>4
<1> QED
  BY <1>1, <1>5, <1>6, <1>8, <1>9, <1>10, <1>11, <1>12, <1>14, <1>16, <1>17 DEF Chained

\* A connection that was moved aside goes: whoever moved it inherits what it
\* had moved itself.
Heirs(cs, m) == {n \in Modems \ {m} : /\ cs[n].tracked
                                      /\ \E c \in cs[n].changes : c.repl \in cs[m].routes}

\* The chain without a connection that was moved aside is a chain again, and
\* its table is the old one without that connection's route.
LEMMA Removed ==
  ASSUME OneAtATime, NEW cs \in Conns, Chained(cs), NEW m \in Modems, cs[m].tracked, ~cs[m].dflt,
         NEW cs2,
         cs2 = [n \in Modems |->
                  IF n = m THEN Untracked
                  ELSE IF n \in Heirs(cs, m)
                  THEN [cs[n] EXCEPT !.changes = ChangesAfterRemoval(cs[n].changes, cs[m].routes, cs[m].changes)]
                  ELSE cs[n]]
  PROVE  /\ Chained(cs2)
         /\ KernelOf(cs2) = KernelOf(cs) \ cs[m].routes
         /\ \A n \in Modems : n # m => cs2[n].tracked = cs[n].tracked
<1> DEFINE K       == KernelOf(cs)
           heir(n) == n \in Heirs(cs, m)
<1>1. PICK own \in cs[m].routes : /\ cs[m].routes = {own} /\ own.iface = m /\ own.metric \in Nat
                                  /\ own.metric > DefaultRouteMetric
  <2>1. PICK own \in cs[m].routes : /\ cs[m].routes = {own} /\ own.iface = m /\ own.metric \in Nat
                                    /\ own.metric >= DefaultRouteMetric
                                    /\ (cs[m].dflt <=> own.metric = DefaultRouteMetric)
    BY ChainFacts
  <2> QED
    BY <2>1 DEF DefaultRouteMetric
<1>2. ASSUME NEW n \in Modems, NEW c \in cs[n].changes, c.repl = own
      PROVE  ModemMove(cs, n, c, m) /\ heir(n) /\ n # m /\ cs[n].changes = {c}
  <2>1. c.orig.iface = m /\ m \notin Wans
    BY <1>1, <1>2, ChainFacts, ConstantsAssumption
  <2>2. ModemMove(cs, n, c, m)
    BY <2>1, ChainFacts
  <2> QED
    BY <1>1, <1>2, <2>2, ChainFacts DEF ModemMove, Heirs
<1>3. ASSUME NEW n \in Modems, heir(n)
      PROVE  n # m /\ \E c \in cs[n].changes : c.repl = own /\ cs[n].changes = {c} /\ c.orig.iface = m
  <2>1. n # m /\ \E c \in cs[n].changes : c.repl = own
    BY <1>1, <1>3 DEF Heirs
  <2>2. PICK c \in cs[n].changes : c.repl = own
    BY <2>1
  <2>3. ModemMove(cs, n, c, m)
    BY <1>2, <2>2
  <2> QED
    BY <1>2, <2>1, <2>2, <2>3 DEF ModemMove, OwnRoute
<1>4. ASSUME NEW n \in Modems, NEW q \in Modems, heir(n), heir(q) PROVE n = q
  <2>1. PICK c \in cs[n].changes : c.repl = own
    BY <1>3, <1>4
  <2>2. PICK d \in cs[q].changes : d.repl = own
    BY <1>3, <1>4
  <2> QED
    BY <2>1, <2>2 DEF Chained, Distinct
<1>5. cs[m].changes # {} => \E n \in Modems : heir(n)
  <2> SUFFICES ASSUME cs[m].changes # {} PROVE \E n \in Modems : heir(n)
    OBVIOUS
  <2>1. PICK p \in Modems : MovedBy(cs, p, m)
    BY DEF Chained, Linked
  <2>2. PICK c \in cs[p].changes : c.repl = own
    BY <1>1, <2>1 DEF MovedBy
  <2> QED
    BY <1>2, <2>2
<1>6. ASSUME NEW n \in Modems
      PROVE  /\ n = m => cs2[n] = Untracked
             /\ n # m => /\ cs2[n].tracked = cs[n].tracked /\ cs2[n].routes = cs[n].routes
                         /\ cs2[n].dflt = cs[n].dflt
             /\ n # m /\ ~heir(n) => cs2[n].changes = cs[n].changes
             /\ heir(n) => cs2[n].changes = cs[m].changes
  <2>1. cs[n] \in Connection
    BY DEF Conns
  <2>2. CASE n = m
    BY <1>3, <2>2
  <2>3. CASE n # m /\ ~heir(n)
    BY <2>3
  <2>4. CASE heir(n)
    <3>1. PICK c \in cs[n].changes : c.repl = own /\ cs[n].changes = {c}
      BY <1>3, <2>4
    <3>2. {d \in cs[n].changes : d.repl \in cs[m].routes} = {c}
      BY <1>1, <3>1
    <3>3. ChangesAfterRemoval(cs[n].changes, cs[m].routes, cs[m].changes) = cs[m].changes
      BY <3>1, <3>2 DEF ChangesAfterRemoval
    <3>4. cs2[n] = [cs[n] EXCEPT !.changes = cs[m].changes] /\ n # m
      BY <1>3, <2>4, <3>3
    <3> QED
      BY <2>1, <2>4, <3>4 DEF Connection
  <2> QED
    BY <2>2, <2>3, <2>4
<1> HIDE DEF heir
\* The changes of cs2 are those of cs but for the one that moved m.
<1>7. ASSUME NEW n \in Modems, NEW d \in cs2[n].changes
      PROVE  /\ n # m /\ d.repl # own
             /\ \/ ~heir(n) /\ d \in cs[n].changes
                \/ heir(n) /\ d \in cs[m].changes
  <2>1. n # m
    BY <1>6 DEF Untracked
  <2>2. CASE heir(n)
    <3>1. d \in cs[m].changes
      BY <1>6, <2>2
    <3> QED
      BY <1>2, <2>1, <2>2, <3>1
  <2>3. CASE ~heir(n)
    <3>1. d \in cs[n].changes
      BY <1>6, <2>1, <2>3
    <3> QED
      BY <1>2, <2>1, <2>3, <3>1
  <2> QED
    BY <2>2, <2>3
<1>8. ASSUME NEW n \in Modems, NEW d \in cs[n].changes, d.repl # own
      PROVE  \E p \in Modems : d \in cs2[p].changes
  <2>1. CASE n = m
    BY <1>5, <1>6, <2>1
  <2>2. CASE n # m
    <3>1. ~heir(n)
      BY <1>3, <1>8
    <3> QED
      BY <1>6, <2>2, <3>1
  <2> QED
    BY <2>1, <2>2
<1>9. ASSUME NEW r
      PROVE  r \in KernelOf(cs2) <=> r \in K \ {own}
  <2>1. ASSUME r \in KernelOf(cs2) PROVE r \in K /\ r # own
    <3>1. CASE r \in HostRoutes /\ \A n \in Modems : \A c \in cs2[n].changes : c.orig # r
      <4>1. r.iface \in Wans
        BY <3>1, ConstantsAssumption
      <4>2. ASSUME NEW n \in Modems, NEW c \in cs[n].changes, c.orig = r PROVE FALSE
        <5>1. c.repl # own
          BY <1>1, <4>1, <4>2, ChainFacts, ConstantsAssumption
        <5> QED
          BY <1>8, <3>1, <4>2, <5>1
      <4> QED
        BY <1>1, <3>1, <4>1, <4>2, KernelHas, ConstantsAssumption
    <3>2. ASSUME NEW n \in Modems, NEW c \in cs2[n].changes, c.repl = r PROVE r \in K /\ r # own
      BY <1>7, <3>2, KernelHas
    <3>3. ASSUME NEW n \in Modems, r \in cs2[n].routes PROVE r \in K /\ r # own
      <4>1. n # m
        BY <1>6, <3>3 DEF Untracked
      <4>2. r \in cs[n].routes
        BY <1>6, <3>3, <4>1
      <4> QED
        BY <1>1, <4>1, <4>2, KernelHas, ChainFacts
    <3> QED
      BY <2>1, <3>1, <3>2, <3>3, KernelHas
  <2>2. ASSUME r \in K, r # own PROVE r \in KernelOf(cs2)
    <3>1. CASE r \in HostRoutes /\ \A n \in Modems : \A c \in cs[n].changes : c.orig # r
      <4>1. \A n \in Modems : \A c \in cs2[n].changes : c.orig # r
        BY <1>7, <3>1
      <4> QED
        BY <3>1, <4>1, KernelHas
    <3>2. ASSUME NEW n \in Modems, NEW c \in cs[n].changes, c.repl = r PROVE r \in KernelOf(cs2)
      BY <1>8, <2>2, <3>2, KernelHas
    <3>3. ASSUME NEW n \in Modems, r \in cs[n].routes PROVE r \in KernelOf(cs2)
      <4>1. n # m
        BY <1>1, <2>2, <3>3
      <4>2. r \in cs2[n].routes
        BY <1>6, <3>3, <4>1
      <4> QED
        BY <4>2, KernelHas
    <3> QED
      BY <2>2, <3>1, <3>2, <3>3, KernelHas
  <2> QED
    BY <2>1, <2>2
<1>10. KernelOf(cs2) = K \ cs[m].routes
  BY <1>1, <1>9
<1>11. ASSUME NEW n \in Modems PROVE Shaped(cs2, n)
  <2>1. CASE n = m
    BY <1>6, <2>1 DEF Shaped, Untracked
  <2>2. CASE n # m /\ cs[n].tracked
    <3>1. PICK k \in Nat : ShapedAs(cs[n], n, k)
      BY <2>2 DEF Chained, Shaped
    <3>2. ShapedAs(cs2[n], n, k) /\ cs2[n].tracked
      BY <1>6, <2>2, <3>1 DEF ShapedAs
    <3> QED
      BY <3>2 DEF Shaped
  <2>3. CASE n # m /\ ~cs[n].tracked
    <3>1. ~heir(n)
      BY <1>3, <2>3, ChainFacts
    <3> QED
      BY <1>6, <2>3, <3>1 DEF Chained, Shaped
  <2> QED
    BY <2>1, <2>2, <2>3
<1>12. PICK rk \in [Modems -> Nat] : RankedBy(cs, rk)
  BY DEF Chained, Ranked
<1>13. ASSUME NEW p \in Modems, NEW d \in cs2[p].changes, NEW h \in Modems, d.orig.iface = h
       PROVE  rk[h] < rk[p] /\ rk[h] \in Nat /\ rk[p] \in Nat
  <2>1. CASE ~heir(p)
    BY <1>7, <1>12, <1>13, <2>1 DEF RankedBy
  <2>2. CASE heir(p)
    <3>1. PICK c \in cs[p].changes : c.orig.iface = m
      BY <1>3, <2>2
    <3>2. rk[m] < rk[p] /\ rk[h] < rk[m]
      BY <1>7, <1>12, <1>13, <2>2, <3>1 DEF RankedBy
    <3> QED
      BY <1>12, <3>2
  <2> QED
    BY <2>1, <2>2
<1>14. Ranked(cs2)
  BY <1>12, <1>13 DEF Ranked, RankedBy
<1>15. ASSUME NEW p \in Modems, NEW d \in cs2[p].changes
       PROVE  MovesDown(d) /\ (HostMove(d) \/ \E h \in Modems : ModemMove(cs2, p, d, h))
  <2>1. PICK q \in Modems : /\ d \in cs[q].changes /\ cs2[p].changes = cs[q].changes
    BY <1>6, <1>7
  <2>2. MovesDown(d) /\ (HostMove(d) \/ \E h \in Modems : ModemMove(cs, q, d, h))
    BY <2>1 DEF Chained, Sound
  <2>3. ASSUME NEW h \in Modems, ModemMove(cs, q, d, h) PROVE ModemMove(cs2, p, d, h)
    <3>1. d.orig.iface = h
      BY <2>3 DEF ModemMove, OwnRoute
    <3>2. h # p
      BY <1>13, <3>1
    <3>3. h # m
      BY <1>1, <1>7, <2>3 DEF ModemMove
    <3> QED
      BY <1>6, <2>1, <2>3, <3>2, <3>3 DEF ModemMove
  <2> QED
    BY <2>2, <2>3
<1>16. Distinct(cs2)
  <2> SUFFICES ASSUME NEW p \in Modems, NEW q \in Modems, NEW c \in cs2[p].changes, NEW d \in cs2[q].changes,
                      c.orig = d.orig \/ c.repl = d.repl
               PROVE  p = q /\ c = d
    BY DEF Distinct
  <2>1. CASE ~heir(p) /\ ~heir(q)
    BY <1>7, <2>1 DEF Chained, Distinct
  <2>2. CASE heir(p) /\ heir(q)
    BY <1>4, <1>7, <2>2 DEF Chained, Distinct
  <2>3. CASE heir(p) /\ ~heir(q)
    <3>1. q # m /\ d \in cs[q].changes /\ c \in cs[m].changes
      BY <1>7, <2>3
    <3> QED
      BY <3>1 DEF Chained, Distinct
  <2>4. CASE ~heir(p) /\ heir(q)
    <3>1. p # m /\ c \in cs[p].changes /\ d \in cs[m].changes
      BY <1>7, <2>4
    <3> QED
      BY <3>1 DEF Chained, Distinct
  <2> QED
    BY <2>1, <2>2, <2>3, <2>4
<1>17. ASSUME NEW n \in Modems PROVE Linked(cs2, n)
  <2> SUFFICES ASSUME cs2[n].changes # {}, ~cs2[n].dflt
               PROVE  \E p \in Modems : MovedBy(cs2, p, n)
    BY DEF Linked
  <2>1. n # m /\ ~cs[n].dflt /\ cs2[n].routes = cs[n].routes /\ cs[n].changes # {}
    <3>1. n # m
      BY <1>6 DEF Untracked
    <3> QED
      BY <1>3, <1>6, <3>1
  <2>2. PICK q \in Modems : MovedBy(cs, q, n)
    BY <2>1 DEF Chained, Linked
  <2>3. PICK d \in cs[q].changes : d.repl \in cs[n].routes
    BY <2>2 DEF MovedBy
  <2>4. d.repl # own
    BY <1>1, <2>1, <2>3, ChainFacts
  <2>5. PICK p \in Modems : d \in cs2[p].changes
    BY <1>8, <2>3, <2>4
  <2> QED
    BY <2>1, <2>3, <2>5 DEF MovedBy
<1>18. Unique(KernelOf(cs2))
  BY <1>10 DEF Chained, Unique
<1>19. Wins(cs2, KernelOf(cs2))
  <2> SUFFICES ASSUME NEW n \in Modems, cs2[n].dflt, NEW r \in K, r.iface # n
               PROVE  r.metric > DefaultRouteMetric
    BY <1>10 DEF Wins
  <2>1. n # m /\ cs[n].dflt
    <3>1. n # m
      BY <1>6 DEF Untracked
    <3> QED
      BY <1>6, <3>1
  <2> QED
    BY <2>1 DEF Chained, Wins
<1> QED
  BY <1>6, <1>10, <1>11, <1>14, <1>15, <1>16, <1>17, <1>18, <1>19 DEF Chained, Sound

-----------------------------------------------------------------------------
(* The places of an operation, and what memory, database and kernel are at  *)
(* each of them.                                                            *)

\* The connections without the one of m, and with the one its operation is for.
Left(m)    == [conns EXCEPT ![m] = Untracked]
Joining(o, routes) ==
  [tracked |-> TRUE, routes |-> routes, changes |-> o.done, dflt |-> o.dflt, always |-> o.always]
Again(m)   == [conns EXCEPT ![m] = Joining(op[m], op[m].added)]
After(m, routes) ==
  [n \in Modems |-> IF n = m THEN Joining(op[m], routes) ELSE Rerouted(conns[n], op[m].done)]

\* A clean-up of a tracked connection, and the kernel's table at its changes.
Cleaning(m) ==
  /\ op[m].ret = "sync" /\ ~op[m].err /\ ~op[m].kept /\ ~op[m].failed
  /\ op[m].kind \in {"connect", "disconnect", "restore"}
  /\ conns[m].tracked /\ Chained(conns)
  /\ op[m].dflt = conns[m].dflt /\ op[m].done = conns[m].changes
  /\ op[m].todo \subseteq op[m].done /\ (~op[m].dflt => op[m].todo = {})

Behind(o) == IF o.dflt THEN o.done \ o.todo ELSE {}
Undone(m) == Reverted(KernelOf(conns) \ conns[m].routes, Behind(op[m]))

Unrouting(m) ==
  /\ op[m].pc = "unroute" /\ Cleaning(m) /\ OnRecord(conns, stored)
  /\ op[m].routes = conns[m].routes /\ Behind(op[m]) = {}
  /\ kernel = KernelOf(conns)

Restoring(m) ==
  /\ op[m].pc = "restoreAdd" /\ Cleaning(m) /\ OnRecord(conns, stored)
  /\ op[m].todo # {} /\ kernel = Undone(m)

Deleting(m) ==
  /\ op[m].pc = "restoreDel" /\ Cleaning(m) /\ OnRecord(conns, stored)
  /\ op[m].todo # {}
  /\ kernel = Undone(m) \cup {c.orig : c \in {d \in op[m].todo : IsLast(d, op[m].todo)}}

Dropping(m) ==
  /\ op[m].pc = "dropState" /\ Cleaning(m) /\ OnRecord(conns, stored)
  /\ op[m].todo = {} /\ kernel = Undone(m)

Syncing(m) ==
  /\ op[m].pc = "sync" /\ Cleaning(m) /\ OnRecord(Left(m), stored)
  /\ op[m].todo = {} /\ kernel = Undone(m)

Leaving(m) ==
  /\ op[m].pc \in {"bearerDown", "stale", "forget"} /\ (op[m].pc = "stale" => op[m].ret = "forget")
  /\ op[m].kind \in {"connect", "disconnect", "restore", "current"} /\ ~op[m].failed
  /\ Settled(Left(m), kernel, stored)
  /\ op[m].pc # "bearerDown" => ~bearer[m]

\* The connection a connect request makes.
Arriving(m) ==
  /\ op[m].pc \in {"bearerUp", "stale", "plan"} /\ (op[m].pc = "stale" => op[m].ret = "plan")
  /\ op[m].kind = "connect" /\ ~conns[m].tracked /\ Settled(conns, kernel, stored)
  /\ op[m].added = {} /\ op[m].done = {} /\ ~op[m].dflt
  /\ op[m].pc # "bearerUp" => m \in addrs /\ bearer[m]

Plans(m, C) == C \in DefaultRouteChanges(KernelOf(conns), {OwnRoute(m, DefaultRouteMetric)})

\* All the records, m's being that of the given changes.
RecordedWith(m, C) ==
  \A n \in Modems :
    LET changes == IF n = m THEN C ELSE conns[n].changes
    IN  stored[n].changes = changes /\ (stored[n].saved <=> changes # {})

Moving(m) ==
  /\ op[m].pc \in {"moveDel", "moveAdd"} /\ op[m].kind = "connect"
  /\ ~conns[m].tracked /\ Chained(conns)
  /\ Plans(m, op[m].todo \cup op[m].done) /\ RecordedWith(m, op[m].todo \cup op[m].done)
  /\ op[m].todo # {} /\ op[m].todo \cap op[m].done = {} /\ op[m].added = {}
  /\ kernel = Applied(KernelOf(conns), op[m].done) \
                (IF op[m].pc = "moveDel" THEN {}
                 ELSE {c.orig : c \in {d \in op[m].todo : IsFirst(d, op[m].todo)}})
  /\ m \in addrs /\ bearer[m]

Adding(m) ==
  /\ op[m].pc = "addRoute" /\ op[m].kind = "connect" /\ ~conns[m].tracked
  /\ op[m].added = {} /\ op[m].routes # {}
  /\ Settled(After(m, op[m].routes), kernel \cup op[m].routes, stored)
  /\ \A r \in op[m].routes, x \in kernel : x.metric # r.metric
  /\ m \in addrs /\ bearer[m]

Saving(m) ==
  /\ op[m].pc \in {"saveAlways", "commit"} /\ op[m].kind = "connect" /\ ~conns[m].tracked
  /\ Settled(After(m, op[m].added), kernel, stored)
  /\ m \in addrs /\ bearer[m]

\* A connection about to be tracked, a new one or one the monitor looked at.
Tracking(m) ==
  /\ op[m].pc \in {"plan", "saveAlways", "track"}
  /\ op[m].pc # "track" => op[m].kind = "keep"
  /\ op[m].pc = "plan" => op[m].dflt
  /\ Settled(Again(m), kernel, stored)
  /\ m \in addrs /\ bearer[m]

\* A status request holds a copy of a tracked connection, which nobody changes.
Reporting(m) ==
  /\ op[m].pc = "report" /\ conns[m].tracked /\ bearer[m] /\ m \in addrs
  /\ Settled(conns, kernel, stored) /\ Joining(op[m], op[m].added) = conns[m]

Phase(m) ==
  \/ Unrouting(m) \/ Restoring(m) \/ Deleting(m) \/ Dropping(m) \/ Syncing(m) \/ Leaving(m)
  \/ Arriving(m) \/ Moving(m) \/ Adding(m) \/ Saving(m) \/ Tracking(m)
  \/ Reporting(m)

\* A modem that does nothing has a bearer for its connection, with its addresses.
Up(n)    == (bearer[n] <=> conns[n].tracked) /\ (conns[n].tracked => n \in addrs)
Quiet(n) == op[n].pc = "idle" /\ Up(n)

Resting == Settled(conns, kernel, stored) /\ \A n \in Modems : Quiet(n)
Busy(m) == Phase(m) /\ \A n \in Modems : n # m => Quiet(n)

SerialInv == booting = {} /\ (Resting \/ \E m \in Modems : Busy(m))

\* Nothing here depends on who is always on.
LEMMA SameChain ==
  ASSUME NEW cs, NEW cs2, Chained(cs),
         \A n \in Modems : /\ cs2[n].tracked = cs[n].tracked /\ cs2[n].routes = cs[n].routes
                           /\ cs2[n].changes = cs[n].changes /\ cs2[n].dflt = cs[n].dflt
  PROVE  Chained(cs2) /\ KernelOf(cs2) = KernelOf(cs)
<1>1. KernelOf(cs2) = KernelOf(cs)
  <2>1. ASSUME NEW r PROVE r \in KernelOf(cs2) <=> r \in KernelOf(cs)
    BY KernelHas
  <2> QED
    BY <2>1
<1>2. ASSUME NEW n \in Modems PROVE Shaped(cs2, n) /\ Sound(cs2, n) /\ Linked(cs2, n)
  <2>1. Shaped(cs, n) /\ Sound(cs, n) /\ Linked(cs, n)
    BY DEF Chained
  <2>2. Shaped(cs2, n)
    BY <2>1 DEF Shaped, ShapedAs
  <2>3. Sound(cs2, n)
    BY <2>1 DEF Sound, ModemMove
  <2>4. Linked(cs2, n)
    BY <2>1 DEF Linked, MovedBy
  <2> QED
    BY <2>2, <2>3, <2>4
<1>3. Distinct(cs2) /\ Ranked(cs2)
  BY DEF Chained, Distinct, Ranked, RankedBy
<1>4. Unique(KernelOf(cs2)) /\ Wins(cs2, KernelOf(cs2))
  BY <1>1 DEF Chained, Wins
<1> QED
  BY <1>1, <1>2, <1>3, <1>4 DEF Chained

\* Nothing fails.
LEMMA NoFault ==
  ASSUME OneAtATime, TypeOK
  PROVE  /\ \A ok \in Outcomes : ok
         /\ ~(faults < MaxFaults) /\ ~(crashes < MaxCrashes)
<1>1. MaxFaults = 0 /\ MaxCrashes = 0 /\ faults \in 0..MaxFaults /\ crashes \in 0..MaxCrashes
  BY DEF OneAtATime, TypeOK
<1>2. ~(faults < MaxFaults) /\ ~(crashes < MaxCrashes)
  BY <1>1
<1>3. {b \in {FALSE} : faults < MaxFaults} = {}
  BY <1>2
<1> QED
  BY <1>2, <1>3 DEF Outcomes

\* The other modems do not see a step of an operation.
LEMMA QuietKept ==
  ASSUME TypeOK, NEW m \in Modems, Busy(m), NEW o, op' = [op EXCEPT ![m] = o],
         \A n \in Modems : n # m => /\ bearer'[n] = bearer[n] /\ conns'[n].tracked = conns[n].tracked
                                    /\ n \in addrs => n \in addrs'
  PROVE  /\ \A n \in Modems : n # m => Quiet(n)'
         /\ op'[m] = o
BY DEF Busy, Quiet, Up, TypeOK


\* What a clean-up finds in the kernel.
LEMMA UndoneFacts ==
  ASSUME OneAtATime, TypeOK, NEW m \in Modems, Cleaning(m)
  PROVE  /\ conns \in Conns /\ Modems # {}
         /\ \A r \in Undone(m) : r \in Route /\ r.iface # m
         /\ \A c \in op[m].done : /\ c.orig \in Route /\ c.repl \in Route
                                  /\ c.orig.metric \in Nat /\ c.repl.metric \in Nat
                                  /\ c.orig.metric <= DefaultRouteMetric
                                  /\ c.repl.metric > DefaultRouteMetric
                                  /\ c.orig.iface \in Wans
                                     \/ \E h \in Modems : h # m /\ conns[h].tracked /\ c.orig.iface = h
         /\ \A c, d \in op[m].done : c.orig.metric = d.orig.metric /\ op[m].dflt => c = d
         /\ \A x \in Undone(m) : x.metric <= DefaultRouteMetric =>
              ~op[m].dflt \/ \E c \in Behind(op[m]) : c.orig = x
<1> DEFINE o == op[m]
           K == KernelOf(conns) \ conns[m].routes
<1>1. conns \in Conns /\ Chained(conns) /\ o.done = conns[m].changes /\ o.dflt = conns[m].dflt
  BY DEF TypeOK, Conns, Cleaning
<1>2. ASSUME NEW c \in o.done
      PROVE  /\ c.orig \in Route /\ c.repl \in Route
             /\ c.orig.metric \in Nat /\ c.repl.metric \in Nat
             /\ c.orig.metric <= DefaultRouteMetric /\ c.repl.metric > DefaultRouteMetric
             /\ c.orig.iface # m
             /\ c.orig.iface \in Wans \/ \E h \in Modems : h # m /\ conns[h].tracked /\ c.orig.iface = h
  <2>1. c \in conns[m].changes
    BY <1>1
  <2>2. /\ c.orig \in Route /\ c.repl \in Route
        /\ c.orig.metric <= DefaultRouteMetric /\ c.repl.metric > DefaultRouteMetric
        /\ \/ HostMove(c) /\ c.orig.iface \in Wans
           \/ \E h \in Modems : ModemMove(conns, m, c, h) /\ c.orig.iface = h
    BY <1>1, <2>1, ChainFacts
  <2>3. ASSUME NEW h \in Modems, ModemMove(conns, m, c, h)
        PROVE  h # m /\ conns[h].tracked
    BY <1>1, <2>3, ChainFacts DEF ModemMove
  <2>4. c.orig.iface # m
    BY <2>2, <2>3, ConstantsAssumption
  <2> QED
    BY <2>2, <2>3, <2>4 DEF Route
<1>3. ASSUME NEW r \in Undone(m) PROVE r \in Route /\ r.iface # m
  <2>1. r \in K \/ \E c \in o.done : c.orig = r
    BY DEF Undone, Reverted, Behind
  <2>2. ASSUME r \in K PROVE r \in Route /\ r.iface # m
    BY <1>1, <2>2, KernelFacts
  <2> QED
    BY <1>2, <2>1, <2>2
<1>4. ASSUME NEW c \in o.done, NEW d \in o.done, c.orig.metric = d.orig.metric, o.dflt PROVE c = d
  BY <1>1, <1>4, TopFacts
<1>5. ASSUME NEW x \in Undone(m), x.metric <= DefaultRouteMetric, o.dflt
      PROVE  \E c \in Behind(o) : c.orig = x
  <2>1. x \in K \/ \E c \in Behind(o) : c.orig = x
    BY DEF Undone, Reverted
  <2>2. ASSUME x \in K PROVE FALSE
    <3>1. x.metric \in Nat /\ x.metric > DefaultRouteMetric
      BY <1>1, <1>5, <2>2, TopFacts
    <3> QED
      BY <1>5, <3>1 DEF DefaultRouteMetric
  <2> QED
    BY <2>1, <2>2
<1> QED
  BY <1>1, <1>2, <1>3, <1>4, <1>5

\* The own route of the connection that goes is deleted, and no other.
LEMMA SerialUnroute ==
  ASSUME OneAtATime, TypeOK, NEW m \in Modems, Busy(m), Unrouting(m), Unroute(m)
  PROVE  Busy(m)'
<1> DEFINE o == op[m]
<1>1. PICK ok \in Outcomes, r \in o.routes :
        LET rest == o.routes \ {r}
            stop == ~ok /\ o.ret \in {"forget", "plan"}
            n    == [o EXCEPT !.routes = rest, !.err = @ \/ ~ok,
                              !.kept = @ \/ (~ok /\ (stop \/ o.todo = {})),
                              !.todo = IF stop THEN {} ELSE @]
        IN  /\ kernel' = IF ok THEN Without(kernel, r) ELSE kernel
            /\ op' = [op EXCEPT ![m] = [n EXCEPT !.pc = UnroutePC(n)]]
  BY DEF Unroute, Goto
<1>2. ok
  BY NoFault
<1>3. o \in Op /\ conns \in Conns /\ Chained(conns) /\ Cleaning(m)
  BY DEF TypeOK, Conns, Unrouting, Cleaning
<1>4. r \in conns[m].routes /\ conns[m].routes = {r} /\ r.metric # 0 /\ o.routes \ {r} = {}
  <2>1. r \in conns[m].routes /\ conns[m].routes = {r} /\ r.metric >= DefaultRouteMetric
    BY <1>3, ChainFacts DEF Unrouting
  <2> QED
    BY <2>1 DEF Unrouting, DefaultRouteMetric
<1> DEFINE stop == ~ok /\ o.ret \in {"forget", "plan"}
           n  == [o EXCEPT !.routes = o.routes \ {r}, !.err = @ \/ ~ok,
                           !.kept = @ \/ (~ok /\ (stop \/ o.todo = {})),
                           !.todo = IF stop THEN {} ELSE @]
           o2 == [n EXCEPT !.pc = UnroutePC(n)]
<1>5. op' = [op EXCEPT ![m] = o2]
  BY <1>1
<1>6. /\ o2.ret = o.ret /\ o2.err = FALSE /\ o2.kept = FALSE
      /\ o2.failed = o.failed /\ o2.kind = o.kind
      /\ o2.dflt = o.dflt /\ o2.done = o.done /\ o2.todo = o.todo
      /\ o2.pc = IF o.todo # {} THEN "restoreAdd" ELSE "dropState"
  <2>1. /\ n.ret = o.ret /\ n.err = FALSE /\ n.kept = FALSE
        /\ n.failed = o.failed /\ n.kind = o.kind
        /\ n.dflt = o.dflt /\ n.done = o.done /\ n.todo = o.todo /\ n.routes = {} /\ n \in Op
    BY <1>2, <1>3, <1>4 DEF Op, Cleaning
  <2> HIDE DEF n
  <2> QED
    BY <2>1 DEF Op, UnroutePC, RestorePC
<1> HIDE DEF n, o2
<1>7. op'[m] = o2 /\ \A k \in Modems : k # m => Quiet(k)'
  BY <1>5, QuietKept DEF Unroute, memory, link
<1>8. kernel' = Undone(m)'
  <2>1. KernelOf(conns) \subseteq Route
    BY <1>3, KernelFacts
  <2>2. r \in KernelOf(conns) /\ r \in Route
    BY <1>4, <2>1, KernelHas
  <2>3. kernel' = KernelOf(conns) \ conns[m].routes
    BY <1>1, <1>2, <1>4, <2>1, <2>2, WithoutOne DEF Unrouting
  <2>4. Behind(op'[m]) = {}
    BY <1>6, <1>7 DEF Unrouting, Behind
  <2>5. \A S : Reverted(S, {}) = S
    BY DEF Reverted
  <2>6. Undone(m)' = Reverted(KernelOf(conns) \ conns[m].routes, Behind(op'[m]))
    BY DEF Undone, Unroute, memory
  <2> QED
    BY <2>3, <2>4, <2>5, <2>6
<1>9. Cleaning(m)' /\ OnRecord(conns, stored)'
  BY <1>3, <1>6, <1>7 DEF Cleaning, Unrouting, Unroute, memory, disk
<1>10. Restoring(m)' \/ Dropping(m)'
  BY <1>6, <1>7, <1>8, <1>9 DEF Restoring, Dropping
<1> QED
  BY <1>7, <1>10 DEF Busy, Phase

\* Nothing is in the way of the original that is put back.
LEMMA SerialRestoreAdd ==
  ASSUME OneAtATime, TypeOK, NEW m \in Modems, Busy(m), Restoring(m), RestoreAdd(m)
  PROVE  Busy(m)'
<1> DEFINE o == op[m]
<1>1. PICK ok \in Outcomes, c \in o.todo :
        LET done == ok /\ Restorable(c.orig)
            n    == [o EXCEPT !.todo = @ \ {c}, !.err = TRUE, !.kept = TRUE]
        IN  /\ IsLast(c, o.todo)
            /\ kernel' = IF done THEN kernel \cup {c.orig} ELSE kernel
            /\ op' = [op EXCEPT ![m] = IF done THEN [o EXCEPT !.pc = "restoreDel"]
                                       ELSE [n EXCEPT !.pc = RestorePC(n)]]
  BY DEF RestoreAdd, Goto
<1>2. ok
  BY NoFault
<1>3. o \in Op /\ Cleaning(m) /\ o.todo \subseteq o.done /\ o.dflt
  BY DEF TypeOK, Restoring, Cleaning
<1>4. c \in o.done /\ c \notin Behind(o)
  BY <1>3 DEF Behind
<1>5. Restorable(c.orig)
  <2>1. Sourced(c.orig)
    BY <1>3, <1>4, UndoneFacts DEF Sourced, Busy, Quiet, Up
  <2>2. ASSUME NEW x \in kernel, x.metric = c.orig.metric PROVE FALSE
    <3>1. x \in Undone(m) /\ x.metric <= DefaultRouteMetric
      BY <1>3, <1>4, <2>2, UndoneFacts DEF Restoring
    <3>2. PICK d \in Behind(o) : d.orig = x
      BY <1>3, <3>1, UndoneFacts
    <3>3. d \in o.done
      BY <3>2 DEF Behind
    <3>4. d = c
      BY <1>3, <1>4, <2>2, <3>2, <3>3, UndoneFacts
    <3> QED
      BY <1>4, <3>4
  <2> QED
    BY <2>1, <2>2 DEF Restorable, MetricTaken
<1> DEFINE o2 == [o EXCEPT !.pc = "restoreDel"]
<1>6. kernel' = kernel \cup {c.orig} /\ op' = [op EXCEPT ![m] = o2]
  BY <1>1, <1>2, <1>5
<1>7. /\ o2.pc = "restoreDel" /\ o2.ret = o.ret /\ o2.err = o.err /\ o2.kept = o.kept
      /\ o2.failed = o.failed /\ o2.kind = o.kind /\ o2.dflt = o.dflt /\ o2.done = o.done /\ o2.todo = o.todo
  BY <1>3 DEF Op
<1> HIDE DEF o2
<1>8. op'[m] = o2 /\ \A k \in Modems : k # m => Quiet(k)'
  BY <1>6, QuietKept DEF RestoreAdd, memory, link
<1>9. {d \in o.todo : IsLast(d, o.todo)} = {c}
  <2> SUFFICES ASSUME NEW d \in o.todo, IsLast(d, o.todo) PROVE d = c
    BY <1>1
  <2>1. ~Precedes(c.orig, d.orig) /\ ~Precedes(d.orig, c.orig)
    BY <1>1 DEF IsLast
  <2>2. c.orig.fam = d.orig.fam /\ c.orig.metric \in Nat /\ d.orig.metric \in Nat
    BY <1>3, <1>4, UndoneFacts, OneFamily
  <2>3. c.orig.metric = d.orig.metric
    BY <2>1, <2>2 DEF Precedes
  <2> QED
    BY <1>3, <1>4, <2>3, UndoneFacts
<1>10. kernel' = Undone(m)' \cup {c.orig}
  <2>1. Undone(m)' = Undone(m)
    <3>1. Behind(op'[m]) = Behind(op[m])
      BY <1>7, <1>8 DEF Behind
    <3> QED
      BY <3>1 DEF Undone, RestoreAdd, memory
  <2> QED
    BY <1>6, <2>1 DEF Restoring
<1>11. {d.orig : d \in {e \in op'[m].todo : IsLast(e, op'[m].todo)}} = {c.orig}
  BY <1>7, <1>8, <1>9
<1>12. Cleaning(m)' /\ OnRecord(conns, stored)'
  BY <1>3, <1>7, <1>8 DEF Cleaning, Restoring, RestoreAdd, memory, disk
<1>13. Deleting(m)'
  BY <1>7, <1>8, <1>10, <1>11, <1>12 DEF Deleting, Restoring
<1> QED
  BY <1>8, <1>13 DEF Busy, Phase

\* The route under its fallback metric goes after the original is back.
LEMMA SerialRestoreDel ==
  ASSUME OneAtATime, TypeOK, NEW m \in Modems, Busy(m), Deleting(m), RestoreDel(m)
  PROVE  Busy(m)'
<1> DEFINE o == op[m]
<1>1. PICK ok \in Outcomes, c \in o.todo :
        LET n == [o EXCEPT !.todo = @ \ {c}, !.err = @ \/ ~ok, !.kept = @ \/ ~ok]
        IN  /\ IsLast(c, o.todo)
            /\ kernel' = IF ok THEN Without(kernel, c.repl) ELSE kernel
            /\ op' = [op EXCEPT ![m] = [n EXCEPT !.pc = RestorePC(n)]]
  BY DEF RestoreDel, Goto
<1>2. ok
  BY NoFault
<1>3. o \in Op /\ Cleaning(m) /\ o.todo \subseteq o.done /\ o.dflt /\ conns \in Conns
  BY DEF TypeOK, Deleting, Cleaning, Conns
<1>4. c \in o.done /\ c \notin Behind(o)
  BY <1>3 DEF Behind
<1>5. {d \in o.todo : IsLast(d, o.todo)} = {c}
  <2> SUFFICES ASSUME NEW d \in o.todo, IsLast(d, o.todo) PROVE d = c
    BY <1>1
  <2>1. ~Precedes(c.orig, d.orig) /\ ~Precedes(d.orig, c.orig)
    BY <1>1 DEF IsLast
  <2>2. c.orig.fam = d.orig.fam /\ c.orig.metric \in Nat /\ d.orig.metric \in Nat
    BY <1>3, <1>4, UndoneFacts, OneFamily
  <2>3. c.orig.metric = d.orig.metric
    BY <2>1, <2>2 DEF Precedes
  <2> QED
    BY <1>3, <1>4, <2>3, UndoneFacts
<1>6. kernel = Undone(m) \cup {c.orig}
  BY <1>5 DEF Deleting
<1> DEFINE n  == [o EXCEPT !.todo = @ \ {c}, !.err = @ \/ ~ok, !.kept = @ \/ ~ok]
           o2 == [n EXCEPT !.pc = RestorePC(n)]
<1>7. op' = [op EXCEPT ![m] = o2]
  BY <1>1
<1>8. /\ o2.ret = o.ret /\ o2.err = FALSE /\ o2.kept = FALSE
      /\ o2.failed = o.failed /\ o2.kind = o.kind
      /\ o2.dflt = o.dflt /\ o2.done = o.done /\ o2.todo = o.todo \ {c}
      /\ o2.pc = IF o2.todo # {} THEN "restoreAdd" ELSE "dropState"
  <2>1. /\ n.ret = o.ret /\ n.err = FALSE /\ n.kept = FALSE
        /\ n.failed = o.failed /\ n.kind = o.kind
        /\ n.dflt = o.dflt /\ n.done = o.done /\ n.todo = o.todo \ {c} /\ n \in Op
    BY <1>2, <1>3 DEF Op, Cleaning
  <2> HIDE DEF n
  <2> QED
    BY <2>1 DEF Op, RestorePC
<1> HIDE DEF n, o2
<1>9. op'[m] = o2 /\ \A k \in Modems : k # m => Quiet(k)'
  BY <1>7, QuietKept DEF RestoreDel, memory, link
<1>10. Behind(o2) = Behind(o) \cup {c}
  BY <1>3, <1>4, <1>8 DEF Behind
<1>11. kernel' = Undone(m)'
  <2>1. kernel \subseteq Route /\ c.repl \in Route /\ c.repl.metric # 0
    BY <1>3, <1>4, <1>6, UndoneFacts DEF DefaultRouteMetric
  <2>2. kernel' = kernel \ {c.repl}
    BY <1>1, <1>2, <1>3, <2>1, WithoutOne, UndoneFacts
  <2>3. \A d \in o.done : d.orig # c.repl
    BY <1>3, <1>4, UndoneFacts DEF DefaultRouteMetric
  <2>4. c.repl # c.orig /\ \A d \in Behind(o) : d.orig # c.repl
    BY <1>4, <2>3 DEF Behind
  <2> DEFINE K == KernelOf(conns) \ conns[m].routes
  <2>5. Reverted(K, Behind(o) \cup {c}) = (Reverted(K, Behind(o)) \cup {c.orig}) \ {c.repl}
    <3> DEFINE B == Behind(o)
    <3>1. ASSUME NEW r
          PROVE  /\ r \in Reverted(K, B) <=> (r \in K /\ \A d \in B : d.repl # r) \/ \E d \in B : d.orig = r
                 /\ r \in Reverted(K, B \cup {c}) <=>
                      (r \in K /\ \A d \in B \cup {c} : d.repl # r) \/ \E d \in B \cup {c} : d.orig = r
      BY DEF Reverted
    <3> HIDE DEF B, K
    <3>2. \A d \in B : d.orig # c.repl
      BY <2>4 DEF B
    <3> QED
      BY <2>4, <3>1, <3>2 DEF B
  <2>6. Undone(m)' = Reverted(K, Behind(o2))
    BY <1>9 DEF Undone, RestoreDel, memory
  <2> QED
    BY <1>6, <1>10, <2>2, <2>5, <2>6 DEF Undone
<1>12. Cleaning(m)' /\ OnRecord(conns, stored)'
  BY <1>3, <1>8, <1>9 DEF Cleaning, Deleting, RestoreDel, memory, disk
<1>13. Restoring(m)' \/ Dropping(m)'
  BY <1>8, <1>9, <1>11, <1>12 DEF Restoring, Dropping
<1> QED
  BY <1>9, <1>13 DEF Busy, Phase

\* The record goes; the bearer's addresses take no route with them.
LEMMA SerialDropState ==
  ASSUME OneAtATime, TypeOK, NEW m \in Modems, Busy(m), Dropping(m), DropState(m)
  PROVE  Busy(m)'
<1> DEFINE o == op[m]
<1>1. o \in Op /\ Cleaning(m) /\ o.ret = "sync" /\ ~o.err /\ ~o.kept /\ ~o.failed
  BY DEF TypeOK, Dropping, Cleaning
<1> DEFINE o2 == [o EXCEPT !.pc = "sync", !.failed = @ \/ FALSE]
<1>2. /\ stored' = [stored EXCEPT ![m] = NoEntry] /\ kernel' = Unaddressed(m)
      /\ addrs' = addrs \ {m} /\ op' = [op EXCEPT ![m] = o2]
      /\ UNCHANGED <<conns, bearer>>
  <2>1. PICK ok \in Outcomes :
          LET bad  == o.err \/ ~ok
              next == CASE bad /\ o.ret = "plan" -> "abort"
                        [] bad /\ o.ret = "sync" /\ o.kind = "current" -> "stale"
                        [] bad /\ o.ret = "sync" /\ o.kind # "current" -> "bearerDown"
                        [] OTHER -> o.ret
              n    == [o EXCEPT !.pc = next, !.failed = @ \/ bad]
              mine == o.ret \in {"sync", "bearerDown", "abort"}
          IN  /\ stored' = IF Spent(o, ok) THEN [stored EXCEPT ![m] = NoEntry] ELSE stored
              /\ kernel' = IF mine THEN Unaddressed(m) ELSE kernel
              /\ addrs' = IF mine THEN addrs \ {m} ELSE addrs
              /\ Goto(m, IF next = "stale" THEN Stale(n, "forget") ELSE n)
    BY DEF DropState
  <2>2. (o.err \/ ~ok) = FALSE /\ Spent(o, ok)
    BY <1>1, <2>1, NoFault DEF Spent
  <2>3. UNCHANGED <<conns, bearer>>
    BY DEF DropState, memory
  <2> QED
    BY <1>1, <2>1, <2>2, <2>3 DEF Goto
<1>3. /\ o2.pc = "sync" /\ o2.ret = o.ret /\ o2.err = o.err /\ o2.kept = o.kept
      /\ o2.failed = FALSE
      /\ o2.kind = o.kind /\ o2.dflt = o.dflt /\ o2.done = o.done /\ o2.todo = o.todo
  BY <1>1 DEF Op
<1> HIDE DEF o2
<1>4. op'[m] = o2 /\ \A k \in Modems : k # m => Quiet(k)'
  BY <1>2, QuietKept
<1>5. kernel' = Undone(m)'
  <2>1. kernel = Undone(m)
    BY DEF Dropping
  <2>2. kernel' = kernel
    BY <1>1, <1>2, <2>1, UndoneFacts DEF Unaddressed
  <2>3. Undone(m)' = Undone(m)
    BY <1>2, <1>3, <1>4 DEF Undone, Behind
  <2> QED
    BY <2>1, <2>2, <2>3
<1>6. Cleaning(m)'
  BY <1>1, <1>2, <1>3, <1>4 DEF Cleaning
<1>7. OnRecord(Left(m), stored)'
  <2>1. Left(m)' = Left(m) /\ \A n \in Modems : Left(m)[n].changes = IF n = m THEN {} ELSE conns[n].changes
    BY <1>2 DEF Left, TypeOK, Untracked
  <2>2. \A n \in Modems : stored'[n] = IF n = m THEN NoEntry ELSE stored[n]
    BY <1>2 DEF TypeOK
  <2>3. OnRecord(conns, stored)
    BY DEF Dropping
  <2>4. ASSUME NEW n \in Modems
        PROVE  /\ stored'[n].changes = Left(m)[n].changes
               /\ stored'[n].saved <=> Left(m)[n].changes # {}
    <3>1. CASE n = m
      BY <2>1, <2>2, <3>1 DEF NoEntry
    <3>2. CASE n # m
      BY <2>1, <2>2, <2>3, <3>2 DEF OnRecord
    <3> QED
      BY <3>1, <3>2
  <2>5. OnRecord(Left(m), stored')
    BY <2>4 DEF OnRecord
  <2> QED
    BY <2>1, <2>5 DEF OnRecord
<1>8. Syncing(m)'
  BY <1>3, <1>4, <1>5, <1>6, <1>7 DEF Syncing, Dropping
<1> QED
  BY <1>4, <1>8 DEF Busy, Phase

\* The table at the end of a clean-up is that of the connections that stay.
LEMMA SerialSync ==
  ASSUME OneAtATime, TypeOK, NEW m \in Modems, Busy(m), Syncing(m), Sync(m)
  PROVE  Busy(m)'
<1> DEFINE o == op[m]
           D == conns[m].changes
           o2 == [o EXCEPT !.pc = "bearerDown", !.failed = @ \/ FALSE]
<1>1. /\ o \in Op /\ Cleaning(m) /\ conns \in Conns /\ Chained(conns) /\ conns[m].tracked
      /\ o.dflt = conns[m].dflt /\ o.done = D /\ o.todo = {} /\ ~o.failed
      /\ o.kind \in {"connect", "disconnect", "restore"}
  BY DEF TypeOK, Syncing, Cleaning, Conns
<1>2. o2 \in Op /\ o2.pc = "bearerDown" /\ o2.failed = FALSE /\ o2.kind = o.kind
  BY <1>1 DEF Op, PCs
<1>3. \A n \in Modems : n # m => op[n].pc = "idle"
  BY DEF Busy, Quiet
<1>4. kernel' = kernel /\ UNCHANGED <<bearer, addrs>>
  BY DEF Sync, link
<1>5. OnRecord(Left(m), stored)
  BY DEF Syncing
<1>6. \A n \in Modems : Left(m)[n].changes = IF n = m THEN {} ELSE conns[n].changes
  BY DEF Left, TypeOK, Untracked
<1>7. CASE o.dflt
  <2> DEFINE back == Backwards(D)
             cs2  == [n \in Modems |-> IF n = m THEN Untracked ELSE Rerouted(conns[n], back)]
  <2>1. /\ conns' = [n \in Modems |-> Rerouted(conns[n], back)] /\ stored' = stored
        /\ op' = [n \in Modems |-> IF n = m THEN o2 ELSE Shared(op[n], back)]
    <3>1. SyncRestore(m)
      BY <1>7 DEF Sync
    <3>2. PICK ok \in Outcomes :
            /\ conns' = [n \in Modems |-> Rerouted(conns[n], Backwards(op[m].done))]
            /\ op' = [n \in Modems |->
                        IF n = m THEN [op[n] EXCEPT !.pc = "bearerDown", !.failed = @ \/ ~ok]
                        ELSE Shared(op[n], Backwards(op[m].done))]
            /\ UNCHANGED stored
      BY <3>1 DEF SyncRestore
    <3>3. ok
      BY <3>2, NoFault
    <3>4. o2 = [o EXCEPT !.pc = "bearerDown", !.failed = @ \/ ~ok]
      BY <1>1, <3>3 DEF Op
    <3> QED
      BY <1>1, <3>2, <3>4
  <2> HIDE DEF o2
  <2>2. op' = [op EXCEPT ![m] = o2]
    <3>1. \A n \in Modems : n # m => Shared(op[n], back) = op[n]
      BY <1>3 DEF Shared
    <3> QED
      BY <2>1, <3>1 DEF TypeOK
  <2>3. \A n \in Modems : conns'[n].tracked = conns[n].tracked
    <3>1. \A n \in Modems : conns[n] \in Connection
      BY DEF TypeOK
    <3>2. ASSUME NEW t \in Connection PROVE Rerouted(t, back).tracked = t.tracked
      BY DEF Rerouted, Connection
    <3> QED
      BY <2>1, <3>1, <3>2
  <2>4. op'[m] = o2 /\ \A n \in Modems : n # m => Quiet(n)'
    BY <1>4, <2>2, <2>3, QuietKept
  <2>5. Left(m)' = cs2
    BY <2>1 DEF Left
  <2>6. /\ Chained(cs2) /\ KernelOf(cs2) = Reverted(KernelOf(conns) \ conns[m].routes, D)
        /\ \A n \in Modems : cs2[n].changes = IF n = m THEN {} ELSE conns[n].changes
    <3>1. conns[m].dflt
      BY <1>1, <1>7
    <3>2. cs2 = [n \in Modems |-> IF n = m THEN Untracked
                                 ELSE Rerouted(conns[n], Backwards(conns[m].changes))]
      OBVIOUS
    <3> HIDE DEF back, cs2
    <3> QED
      BY <1>1, <3>1, <3>2, Restored
  <2> HIDE DEF cs2
  <2>7. kernel' = KernelOf(cs2)
    <3>1. Behind(o) = D
      BY <1>1, <1>7 DEF Behind
    <3> QED
      BY <1>4, <2>6, <3>1 DEF Syncing, Undone
  <2>8. OnRecord(cs2, stored')
    BY <1>5, <1>6, <2>1, <2>6 DEF OnRecord
  <2>9. Settled(Left(m), kernel, stored)'
    BY <2>5, <2>6, <2>7, <2>8 DEF Settled, Chained
  <2>10. Leaving(m)'
    BY <1>1, <1>2, <2>4, <2>9 DEF Leaving
  <2> QED
    BY <2>4, <2>10 DEF Busy, Phase
<1>8. CASE ~o.dflt
  <2> DEFINE heirs == Heirs(conns, m)
             next(n) == ChangesAfterRemoval(conns[n].changes, conns[m].routes, op[m].done)
             entry(n) == IF next(n) = {} THEN NoEntry ELSE Recorded(conns[n].routes, next(n))
             cs2 == [n \in Modems |-> IF n = m THEN Untracked
                                      ELSE IF n \in heirs THEN [conns[n] EXCEPT !.changes = next(n)]
                                      ELSE conns[n]]
  <2>1. /\ conns' = [n \in Modems |-> IF n \in heirs THEN [conns[n] EXCEPT !.changes = next(n)] ELSE conns[n]]
        /\ stored' = [n \in Modems |-> IF n \in heirs THEN entry(n) ELSE stored[n]]
        /\ op' = [op EXCEPT ![m] = o2]
    <3>1. SyncRemoval(m)
      BY <1>8 DEF Sync
    <3>2. PICK ok \in Outcomes, written \in SUBSET heirs :
            /\ ok <=> written = heirs
            /\ stored' = [n \in Modems |-> IF n \in written THEN entry(n) ELSE stored[n]]
            /\ conns' = [n \in Modems |-> IF ok /\ n \in heirs
                                          THEN [conns[n] EXCEPT !.changes = next(n)]
                                          ELSE conns[n]]
            /\ op' = [op EXCEPT ![m] = [o EXCEPT !.pc = "bearerDown", !.failed = @ \/ ~ok]]
      BY <3>1 DEF SyncRemoval, Goto, Heirs
    <3>3. ok
      BY <3>2, NoFault
    <3>4. o2 = [o EXCEPT !.pc = "bearerDown", !.failed = @ \/ ~ok]
      BY <1>1, <3>3 DEF Op
    <3> QED
      BY <3>2, <3>3, <3>4
  <2> HIDE DEF o2
  <2>2. \A n \in Modems : conns[n] \in Connection
    BY DEF TypeOK
  <2>3. \A n \in Modems : conns'[n].tracked = conns[n].tracked
    <3> HIDE DEF next, heirs
    <3> QED
      BY <2>1, <2>2 DEF Connection
  <2>4. op'[m] = o2 /\ \A n \in Modems : n # m => Quiet(n)'
    BY <1>4, <2>1, <2>3, QuietKept
  <2>5. Left(m)' = cs2
    <3>1. m \notin heirs
      BY DEF Heirs
    <3> HIDE DEF next, heirs
    <3> QED
      BY <2>1, <3>1 DEF Left
  <2>6. Chained(cs2) /\ KernelOf(cs2) = KernelOf(conns) \ conns[m].routes
    <3>1. conns[m].tracked /\ ~conns[m].dflt
      BY <1>1, <1>8
    <3>2. cs2 = [n \in Modems |->
                  IF n = m THEN Untracked
                  ELSE IF n \in Heirs(conns, m)
                  THEN [conns[n] EXCEPT !.changes =
                          ChangesAfterRemoval(conns[n].changes, conns[m].routes, conns[m].changes)]
                  ELSE conns[n]]
      BY <1>1
    <3> HIDE DEF cs2
    <3> QED
      BY <1>1, <3>1, <3>2, Removed
  <2>7. kernel' = KernelOf(cs2)
    <3>1. Behind(o) = {}
      BY <1>8 DEF Behind
    <3>2. \A S : Reverted(S, {}) = S
      BY DEF Reverted
    <3> QED
      BY <1>4, <2>6, <3>1, <3>2 DEF Syncing, Undone
  <2>8. ASSUME NEW n \in Modems
        PROVE  stored'[n].changes = cs2[n].changes /\ (stored'[n].saved <=> cs2[n].changes # {})
    <3>1. stored[n].changes = Left(m)[n].changes /\ (stored[n].saved <=> Left(m)[n].changes # {})
      BY <1>5 DEF OnRecord
    <3>2. CASE n = m
      <4>1. m \notin heirs
        BY DEF Heirs
      <4>2. stored'[n] = stored[n] /\ cs2[n].changes = {}
        BY <2>1, <3>2, <4>1 DEF Untracked
      <4> QED
        BY <1>6, <3>1, <3>2, <4>2
    <3>3. CASE n # m /\ n \notin heirs
      BY <1>6, <2>1, <3>1, <3>3
    <3>4. CASE n # m /\ n \in heirs
      <4>1. stored'[n] = entry(n)
        BY <2>1, <3>4
      <4> HIDE DEF next
      <4>2. cs2[n].changes = next(n)
        BY <2>2, <3>4 DEF Connection
      <4> QED
        BY <4>1, <4>2 DEF NoEntry, Recorded
    <3> QED
      BY <3>2, <3>3, <3>4
  <2>9. Settled(Left(m), kernel, stored)'
    <3> HIDE DEF cs2
    <3>1. OnRecord(cs2, stored')
      BY <2>8 DEF OnRecord
    <3> QED
      BY <2>5, <2>6, <2>7, <3>1 DEF Settled, Chained
  <2>10. Leaving(m)'
    BY <1>1, <1>2, <2>4, <2>9 DEF Leaving
  <2> QED
    BY <2>4, <2>10 DEF Busy, Phase
<1> QED
  BY <1>7, <1>8

\* The bearer goes down when its routes are gone.
LEMMA SerialBearerDown ==
  ASSUME OneAtATime, TypeOK, NEW m \in Modems, Busy(m), Leaving(m), BearerDown(m)
  PROVE  Busy(m)'
<1> DEFINE o2 == Stale([op[m] EXCEPT !.failed = @ \/ FALSE], "forget")
<1>1. op[m] \in Op /\ ~op[m].failed
  BY DEF TypeOK, Leaving
<1>2. /\ op' = [op EXCEPT ![m] = o2] /\ bearer' = [bearer EXCEPT ![m] = FALSE]
      /\ UNCHANGED <<kernel, stored, conns, addrs>>
  <2>1. PICK ok \in Outcomes :
          /\ bearer' = IF ok THEN [bearer EXCEPT ![m] = FALSE] ELSE bearer
          /\ op' = [op EXCEPT ![m] = Stale([op[m] EXCEPT !.failed = @ \/ ~ok], "forget")]
    BY DEF BearerDown, Goto
  <2>2. ok
    BY <2>1, NoFault
  <2>3. [op[m] EXCEPT !.failed = @ \/ ~ok] = [op[m] EXCEPT !.failed = @ \/ FALSE]
    BY <1>1, <2>2 DEF Op
  <2> QED
    BY <2>1, <2>2, <2>3 DEF BearerDown, disk, memory
<1>3. /\ o2.pc = "stale" /\ o2.ret = "forget" /\ o2.kind = op[m].kind /\ ~o2.failed
  BY <1>1 DEF Op, Stale
<1> HIDE DEF o2
<1>4. op'[m] = o2 /\ \A n \in Modems : n # m => Quiet(n)'
  BY <1>2, QuietKept DEF TypeOK
<1>5. Left(m)' = Left(m) /\ ~bearer'[m]
  BY <1>2 DEF Left, TypeOK
<1>6. Settled(Left(m), kernel, stored)'
  BY <1>2, <1>5 DEF Leaving, Settled, Chained, OnRecord
<1>7. Leaving(m)'
  BY <1>3, <1>4, <1>5, <1>6 DEF Leaving
<1> QED
  BY <1>4, <1>7 DEF Busy, Phase

\* There is no record left of a connection that goes or of one that comes.
LEMMA SerialLoadStale ==
  ASSUME OneAtATime, TypeOK, NEW m \in Modems, Busy(m), Leaving(m) \/ Arriving(m), LoadStale(m)
  PROVE  Busy(m)'
<1> DEFINE o2 == [op[m] EXCEPT !.pc = op[m].ret]
<1>1. op[m] \in Op /\ op[m].pc = "stale"
  BY DEF TypeOK, LoadStale
<1>2. ~stored[m].saved
  <2>1. CASE Leaving(m)
    <3>1. Left(m)[m].changes = {}
      BY DEF Left, TypeOK, Untracked
    <3> QED
      BY <2>1, <3>1 DEF Leaving, Settled, OnRecord
  <2>2. CASE Arriving(m)
    <3>1. conns[m].changes = {}
      BY <2>2 DEF Arriving, Settled, Chained, Shaped
    <3> QED
      BY <2>2, <3>1 DEF Arriving, Settled, OnRecord
  <2> QED
    BY <2>1, <2>2
<1>3. op' = [op EXCEPT ![m] = o2] /\ UNCHANGED <<kernel, stored, conns, bearer, addrs>>
  BY <1>2, NoFault DEF LoadStale, Goto, disk, memory, link
<1>4. o2.pc = op[m].ret /\ \A f \in {"kind", "failed", "added", "done", "dflt"} : o2[f] = op[m][f]
  BY <1>1 DEF Op
<1>5. /\ o2.pc = op[m].ret /\ o2.kind = op[m].kind /\ o2.failed = op[m].failed
      /\ o2.added = op[m].added /\ o2.done = op[m].done /\ o2.dflt = op[m].dflt
  BY <1>4
<1> HIDE DEF o2
<1>6. op'[m] = o2 /\ \A n \in Modems : n # m => Quiet(n)'
  BY <1>3, QuietKept
<1>7. CASE Leaving(m)
  <2>1. op[m].ret = "forget"
    BY <1>1, <1>7 DEF Leaving
  <2>2. Left(m)' = Left(m)
    BY <1>3 DEF Left
  <2>3. Settled(Left(m), kernel, stored)'
    BY <1>3, <1>7, <2>2 DEF Leaving, Settled, Chained, OnRecord
  <2>4. Leaving(m)'
    BY <1>1, <1>3, <1>5, <1>6, <1>7, <2>1, <2>3 DEF Leaving
  <2> QED
    BY <1>6, <2>4 DEF Busy, Phase
<1>8. CASE Arriving(m)
  <2>1. op[m].ret = "plan"
    BY <1>1, <1>8 DEF Arriving
  <2>2. Settled(conns, kernel, stored)'
    BY <1>3, <1>8 DEF Arriving, Settled, Chained, OnRecord
  <2>3. Arriving(m)'
    BY <1>1, <1>3, <1>5, <1>6, <1>8, <2>1, <2>2 DEF Arriving
  <2> QED
    BY <1>6, <2>3 DEF Busy, Phase
<1> QED
  BY <1>7, <1>8

\* What is left in memory is what the kernel and the database hold.
LEMMA SerialForget ==
  ASSUME OneAtATime, TypeOK, NEW m \in Modems, Busy(m), Leaving(m), Forget(m)
  PROVE  Busy(m)' \/ Resting'
<1> DEFINE o == op[m]
           o2 == [NoOp EXCEPT !.kind = "connect", !.want = o.want, !.always = o.always, !.pc = "bearerUp"]
<1>1. /\ o.kind \in {"connect", "disconnect", "restore", "current"} /\ ~o.failed /\ o.pc = "forget"
      /\ Settled(Left(m), kernel, stored) /\ ~bearer[m]
  BY DEF Leaving, Forget
<1>2. /\ conns' = Left(m)
      /\ op' = [op EXCEPT ![m] = IF o.kind = "connect" THEN o2 ELSE NoOp]
      /\ UNCHANGED <<kernel, stored, bearer, addrs>>
  BY <1>1 DEF Forget, Goto, Left, disk, link
<1>3. Settled(conns, kernel, stored)'
  BY <1>1, <1>2 DEF Settled, Chained, OnRecord
<1>4. ~conns'[m].tracked /\ \A n \in Modems : n # m => conns'[n] = conns[n]
  BY <1>2 DEF Left, TypeOK, Untracked
<1>5. \A n \in Modems : n # m => Quiet(n)'
  BY <1>2, <1>4, QuietKept
<1>6. CASE o.kind = "connect"
  <2>1. op'[m] = o2
    BY <1>2, <1>6 DEF TypeOK
  <2>2. o2.pc = "bearerUp" /\ o2.kind = "connect" /\ o2.added = {} /\ o2.done = {} /\ ~o2.dflt
    BY DEF NoOp
  <2> HIDE DEF o2
  <2>3. Arriving(m)'
    BY <1>3, <1>4, <2>1, <2>2 DEF Arriving
  <2> QED
    BY <1>5, <2>3 DEF Busy, Phase
<1>7. CASE o.kind # "connect"
  <2>1. op'[m].pc = "idle"
    BY <1>2, <1>7 DEF TypeOK, NoOp
  <2>2. Quiet(m)'
    BY <1>1, <1>2, <1>4, <2>1 DEF Quiet, Up
  <2> QED
    BY <1>3, <1>5, <2>2 DEF Resting
<1> QED
  BY <1>6, <1>7

\* A connection that is moved aside stays what it was.
LEMMA ReroutedKeeps ==
  ASSUME NEW t \in Connection, NEW C
  PROVE  Rerouted(t, C).tracked = t.tracked /\ Rerouted(t, C).changes = t.changes
BY DEF Rerouted, Connection

\* There is nothing known of a modem without a connection.
LEMMA Newcomer ==
  ASSUME NEW m \in Modems, ~conns[m].tracked, Settled(conns, kernel, stored)
  PROVE  /\ conns[m].changes = {} /\ conns[m].routes = {} /\ ~stored[m].saved
         /\ stored[m].changes = {}
<1>1. conns[m].changes = {} /\ conns[m].routes = {}
  BY DEF Settled, Chained, Shaped
<1> QED
  BY <1>1 DEF Settled, OnRecord

\* The table after a takeover, with the own route in place.
LEMMA TakeoverSettles ==
  ASSUME OneAtATime, conns \in Conns, Chained(conns), NEW m \in Modems, ~conns[m].tracked,
         NEW C, Plans(m, C), RecordedWith(m, C),
         NEW t \in Connection, t.tracked, t.changes = C, t.dflt,
         t.routes = {OwnRoute(m, DefaultRouteMetric)},
         NEW cs2, cs2 = [n \in Modems |-> IF n = m THEN t ELSE Rerouted(conns[n], C)]
  PROVE  /\ Settled(cs2, Applied(KernelOf(conns), C) \cup {OwnRoute(m, DefaultRouteMetric)}, stored)
         /\ \A x \in Applied(KernelOf(conns), C) : x.metric # DefaultRouteMetric
<1>1. /\ Chained(cs2)
      /\ KernelOf(cs2) = Applied(KernelOf(conns), C) \cup {OwnRoute(m, DefaultRouteMetric)}
      /\ \A r \in Applied(KernelOf(conns), C) : r.metric # DefaultRouteMetric
  BY TakenOver DEF Plans
<1>2. ASSUME NEW n \in Modems
      PROVE  stored[n].changes = cs2[n].changes /\ (stored[n].saved <=> cs2[n].changes # {})
  <2>1. CASE n = m
    BY <2>1 DEF RecordedWith
  <2>2. CASE n # m
    <3>1. cs2[n].changes = conns[n].changes
      BY <2>2, ReroutedKeeps DEF Conns
    <3> QED
      BY <2>2, <3>1 DEF RecordedWith
  <2> QED
    BY <2>1, <2>2
<1> QED
  BY <1>1, <1>2 DEF Settled, OnRecord

\* What a takeover under way finds in the kernel.
LEMMA PlanFacts ==
  ASSUME OneAtATime, TypeOK, NEW m \in Modems, Chained(conns), ~conns[m].tracked,
         NEW C, Plans(m, C)
  PROVE  /\ KernelOf(conns) \subseteq Route /\ Modems # {}
         /\ \A c \in C : /\ c.orig \in KernelOf(conns) /\ c.orig \in Route /\ c.repl \in Route
                         /\ c.orig.metric \in Nat /\ c.repl.metric \in Nat
                         /\ c.repl.metric > DefaultRouteMetric
                         /\ c.repl.iface \in Wans
                            \/ \E h \in Modems : h # m /\ conns[h].tracked /\ c.repl.iface = h
                         /\ \A x \in KernelOf(conns) : x.metric # c.repl.metric
         /\ \A c, d \in C : c.orig.metric = d.orig.metric \/ c.repl.metric = d.repl.metric => c = d
<1> DEFINE K == KernelOf(conns)
<1>1. conns \in Conns /\ K \subseteq Route /\ Unique(K)
  BY KernelType DEF TypeOK, Conns, Chained
<1>2. /\ \A c \in C : /\ c.orig \in K /\ c.orig # OwnRoute(m, DefaultRouteMetric)
                      /\ MovesDown(c) /\ c.repl \in Route
                      /\ \A x \in K : x.metric # c.repl.metric
      /\ \A c, d \in C : c.orig = d.orig \/ c.repl.metric = d.repl.metric => c = d
  BY <1>1, PlanOf DEF Plans
<1>3. ASSUME NEW c \in C
      PROVE  \/ c.repl.iface \in Wans
             \/ \E h \in Modems : h # m /\ conns[h].tracked /\ c.repl.iface = h
  <2>1. c.orig \in K /\ c.orig \in Route /\ c.repl.iface = c.orig.iface
    <3>1. c.orig \in K /\ c.orig \in Route /\ c.repl = Replaced(c.orig, c.repl.metric)
      BY <1>1, <1>2 DEF MovesDown
    <3> QED
      BY <3>1 DEF Replaced, Route
  <2>2. ASSUME NEW h \in Modems, c.orig.iface = h PROVE h # m /\ conns[h].tracked
    <3>1. c.orig \in conns[h].routes
      BY <1>1, <2>1, <2>2, KernelFacts
    <3> QED
      BY <1>1, <3>1, ChainFacts
  <2>3. c.orig.iface \in Modems \cup Wans
    BY <2>1 DEF Route, Ifaces
  <2> QED
    BY <2>1, <2>2, <2>3
<1>4. ASSUME NEW c \in C, NEW d \in C, c.orig.metric = d.orig.metric PROVE c = d
  BY <1>1, <1>2, <1>4 DEF Unique
<1>5. ASSUME NEW c \in C
      PROVE  c.orig \in Route /\ c.repl \in Route /\ c.orig.metric \in Nat /\ c.repl.metric \in Nat
  BY <1>1, <1>2 DEF Route
<1>6. \A c \in C : c.repl.metric > DefaultRouteMetric
  BY <1>2 DEF MovesDown
<1> QED
  BY <1>1, <1>2, <1>3, <1>4, <1>5, <1>6

\* A connection that does not want the default route gets a metric of its own.
LEMMA SerialBearerUp ==
  ASSUME OneAtATime, TypeOK, NEW m \in Modems, Busy(m), Arriving(m), BearerUp(m)
  PROVE  Busy(m)'
<1> DEFINE o == op[m]
<1>1. /\ o \in Op /\ o.kind = "connect" /\ o.added = {} /\ o.done = {} /\ ~o.dflt
      /\ ~conns[m].tracked /\ Settled(conns, kernel, stored) /\ conns \in Conns /\ kernel \subseteq Route
  BY DEF TypeOK, Arriving, Conns
<1>2. /\ bearer' = [bearer EXCEPT ![m] = TRUE] /\ addrs' = addrs \cup {m}
      /\ IF o.want THEN op' = [op EXCEPT ![m] = Stale(o, "plan")]
         ELSE \E k \in SecondaryMetrics(FamiliesOf[m], kernel) :
                op' = [op EXCEPT ![m] = [o EXCEPT !.pc = "addRoute", !.routes = OwnRoutes(m, k)]]
      /\ UNCHANGED <<kernel, stored, conns>>
  <2>1. Outcomes \ {TRUE} = {}
    BY NoFault DEF Outcomes
  <2> QED
    BY <2>1 DEF BearerUp, Goto, disk, memory
<1>3. bearer'[m] /\ m \in addrs'
  BY <1>2 DEF TypeOK
<1>4. Settled(conns, kernel, stored)'
  BY <1>1, <1>2 DEF Settled, Chained, OnRecord
<1>5. CASE o.want
  <2> DEFINE o2 == Stale(o, "plan")
  <2>1. op' = [op EXCEPT ![m] = o2]
    BY <1>2, <1>5
  <2>2. /\ o2.pc = "stale" /\ o2.ret = "plan" /\ o2.kind = "connect" /\ o2.added = {}
        /\ o2.done = {} /\ ~o2.dflt
    BY <1>1 DEF Stale, Op
  <2> HIDE DEF o2
  <2>3. op'[m] = o2 /\ \A n \in Modems : n # m => Quiet(n)'
    BY <1>2, <2>1, QuietKept DEF TypeOK
  <2>4. Arriving(m)'
    BY <1>1, <1>2, <1>3, <1>4, <2>2, <2>3 DEF Arriving
  <2> QED
    BY <2>3, <2>4 DEF Busy, Phase
<1>6. CASE ~o.want
  <2>1. PICK k \in SecondaryMetrics(FamiliesOf[m], kernel) :
          op' = [op EXCEPT ![m] = [o EXCEPT !.pc = "addRoute", !.routes = OwnRoutes(m, k)]]
    BY <1>2, <1>6
  <2> DEFINE o2  == [o EXCEPT !.pc = "addRoute", !.routes = OwnRoutes(m, k)]
             own == OwnRoute(m, k)
             t   == Joining(o2, {own})
             cs2 == [n \in Modems |-> IF n = m THEN t ELSE Rerouted(conns[n], {})]
  <2>2. k \in Nat /\ k > DefaultRouteMetric
    <3>1. k \in SecondaryRouteMetric..(SecondaryRouteMetric + Cardinality(kernel))
      BY DEF SecondaryMetrics
    <3> QED
      BY <3>1 DEF SecondaryRouteMetric, DefaultRouteMetric
  <2>3. \A x \in kernel : x.metric # k
    <3>1. \A x \in kernel : x.fam \in FamiliesOf[m]
      BY <1>1, OneFamily
    <3> QED
      BY <3>1 DEF SecondaryMetrics
  <2>4. own \in Route /\ OwnRoutes(m, k) = {own} /\ own.metric = k
    BY <2>2, OneFamily DEF OwnRoute
  <2>5. /\ o2.pc = "addRoute" /\ o2.kind = "connect" /\ o2.added = {} /\ o2.routes = {own}
        /\ o2.done = {} /\ o2.dflt = FALSE /\ o2.always \in BOOLEAN
    BY <1>1, <2>4 DEF Op
  <2>6. op'[m] = o2 /\ \A n \in Modems : n # m => Quiet(n)'
    BY <1>2, <2>1, QuietKept DEF TypeOK
  <2> HIDE DEF o2
  <2>7. t \in Connection /\ t.tracked /\ t.changes = {} /\ ~t.dflt /\ t.routes = {own}
    BY <2>4, <2>5 DEF Joining, Connection
  <2>8. After(m, op[m].routes)' = cs2
    BY <1>2, <2>5, <2>6 DEF After
  <2> HIDE DEF t
  <2>9. Chained(cs2) /\ KernelOf(cs2) = KernelOf(conns) \cup {own}
    <3>1. KernelOf(conns) = kernel /\ Chained(conns)
      BY <1>1 DEF Settled
    <3> QED
      BY <1>1, <2>2, <2>3, <2>7, <3>1, JoinsLast
  <2>10. ASSUME NEW n \in Modems
         PROVE  stored[n].changes = cs2[n].changes /\ (stored[n].saved <=> cs2[n].changes # {})
    <3>1. cs2[n].changes = conns[n].changes
      BY <1>1, <2>7, Newcomer, ReroutedKeeps DEF Conns
    <3> QED
      BY <1>1, <3>1 DEF Settled, OnRecord
  <2> HIDE DEF cs2
  <2>11. Settled(cs2, kernel \cup {own}, stored)
    BY <1>1, <2>9, <2>10 DEF Settled, OnRecord
  <2>12. kernel' \cup op'[m].routes = kernel \cup {own}
    BY <1>2, <2>5, <2>6
  <2>13. Settled(After(m, op[m].routes), kernel \cup op[m].routes, stored)'
    BY <1>2, <2>8, <2>11, <2>12 DEF Settled, Chained, OnRecord
  <2>14. Adding(m)'
    BY <1>1, <1>2, <1>3, <2>3, <2>4, <2>5, <2>6, <2>13 DEF Adding
  <2> QED
    BY <2>6, <2>14 DEF Busy, Phase
<1> QED
  BY <1>5, <1>6

\* The plan is on record before the first route is touched.
LEMMA SerialPlan ==
  ASSUME OneAtATime, TypeOK, NEW m \in Modems, Busy(m), Arriving(m), Plan(m)
  PROVE  Busy(m)'
<1> DEFINE o   == op[m]
           own == OwnRoute(m, DefaultRouteMetric)
<1>1. /\ o \in Op /\ o.pc = "plan" /\ o.kind = "connect" /\ o.added = {} /\ o.done = {} /\ ~o.dflt
      /\ ~conns[m].tracked /\ Settled(conns, kernel, stored) /\ conns \in Conns
      /\ kernel = KernelOf(conns) /\ Chained(conns) /\ m \in addrs /\ bearer[m]
  BY DEF TypeOK, Arriving, Conns, Plan, Settled
<1>2. own \in Route /\ OwnRoutes(m, DefaultRouteMetric) = {own} /\ own.metric = DefaultRouteMetric
  BY OneFamily DEF OwnRoute, DefaultRouteMetric
<1>3. PICK C \in DefaultRouteChanges(kernel, {own}) :
        /\ IF C = {}
           THEN op' = [op EXCEPT ![m] = Settle(m, o)] /\ UNCHANGED stored
           ELSE /\ stored' = [stored EXCEPT ![m] = Recorded({own}, C)]
                /\ op' = [op EXCEPT ![m] = [o EXCEPT !.pc = "moveDel", !.todo = C, !.done = {}]]
        /\ UNCHANGED <<kernel, conns, bearer, addrs>>
  <2>1. ~stored[m].saved
    BY <1>1, Newcomer
  <2> QED
    BY <1>1, <1>2, <2>1, NoFault DEF Plan, Goto, memory, link
<1>4. Plans(m, C)
  BY <1>1, <1>3 DEF Plans
<1>5. CASE C = {}
  <2> DEFINE o2  == [o EXCEPT !.pc = "addRoute", !.routes = {own}, !.dflt = TRUE]
             t   == Joining(o2, {own})
             cs2 == [n \in Modems |-> IF n = m THEN t ELSE Rerouted(conns[n], C)]
  <2>1. op' = [op EXCEPT ![m] = o2] /\ stored' = stored
    BY <1>1, <1>2, <1>3, <1>5 DEF Settle
  <2>2. /\ o2.pc = "addRoute" /\ o2.kind = "connect" /\ o2.added = {} /\ o2.routes = {own}
        /\ o2.done = {} /\ o2.dflt = TRUE /\ o2.always \in BOOLEAN
    BY <1>1 DEF Op
  <2> HIDE DEF o2
  <2>3. op'[m] = o2 /\ \A n \in Modems : n # m => Quiet(n)'
    BY <1>3, <2>1, QuietKept
  <2>4. t \in Connection /\ t.tracked /\ t.changes = C /\ t.dflt /\ t.routes = {own}
    BY <1>2, <1>5, <2>2 DEF Joining, Connection
  <2>5. After(m, op[m].routes)' = cs2
    BY <1>3, <1>5, <2>2, <2>3 DEF After
  <2> HIDE DEF t
  <2>6. RecordedWith(m, C)
    BY <1>1, <1>5, Newcomer DEF RecordedWith, Settled, OnRecord
  <2>7. /\ Settled(cs2, Applied(kernel, C) \cup {own}, stored)
        /\ \A x \in Applied(kernel, C) : x.metric # DefaultRouteMetric
    <3> HIDE DEF cs2
    <3>1. cs2 = [n \in Modems |-> IF n = m THEN t ELSE Rerouted(conns[n], C)]
      BY DEF cs2
    <3> QED
      BY <1>1, <1>4, <2>4, <2>6, <3>1, TakeoverSettles
  <2> HIDE DEF cs2
  <2>8. Applied(kernel, C) = kernel
    BY <1>5 DEF Applied
  <2>9. kernel' \cup op'[m].routes = kernel \cup {own}
    BY <1>3, <2>2, <2>3
  <2>10. Settled(After(m, op[m].routes), kernel \cup op[m].routes, stored)'
    BY <2>1, <2>5, <2>7, <2>8, <2>9 DEF Settled, Chained, OnRecord
  <2>11. Adding(m)'
    BY <1>1, <1>2, <1>3, <2>2, <2>3, <2>7, <2>8, <2>10 DEF Adding
  <2> QED
    BY <2>3, <2>11 DEF Busy, Phase
<1>6. CASE C # {}
  <2> DEFINE o2 == [o EXCEPT !.pc = "moveDel", !.todo = C, !.done = {}]
  <2>1. op' = [op EXCEPT ![m] = o2] /\ stored' = [stored EXCEPT ![m] = Recorded({own}, C)]
    BY <1>3, <1>6
  <2>2. /\ o2.pc = "moveDel" /\ o2.kind = "connect" /\ o2.todo = C /\ o2.done = {} /\ o2.added = {}
    BY <1>1 DEF Op
  <2> HIDE DEF o2
  <2>3. op'[m] = o2 /\ \A n \in Modems : n # m => Quiet(n)'
    BY <1>3, <2>1, QuietKept
  <2>4. kernel' = Applied(KernelOf(conns), {})
    BY <1>1, <1>3 DEF Applied
  <2>5. RecordedWith(m, C)'
    <3>1. \A n \in Modems : stored'[n] = IF n = m THEN Recorded({own}, C) ELSE stored[n]
      BY <2>1 DEF TypeOK
    <3> QED
      BY <1>1, <1>3, <1>6, <3>1 DEF RecordedWith, Recorded, Settled, OnRecord
  <2>6. Plans(m, C)' /\ Chained(conns)'
    BY <1>1, <1>3, <1>4 DEF Plans, Chained
  <2>7. op'[m].todo \cup op'[m].done = C
    BY <2>2, <2>3
  <2>8. Plans(m, op[m].todo \cup op[m].done)' /\ RecordedWith(m, op[m].todo \cup op[m].done)'
    BY <2>5, <2>6, <2>7 DEF Plans, RecordedWith
  <2>9. Moving(m)'
    BY <1>1, <1>3, <1>6, <2>2, <2>3, <2>4, <2>6, <2>8 DEF Moving
  <2> QED
    BY <2>3, <2>9 DEF Busy, Phase
<1> QED
  BY <1>5, <1>6

\* The route of the host that goes first is there, and it is one.
LEMMA SerialMoveDel ==
  ASSUME OneAtATime, TypeOK, NEW m \in Modems, Busy(m), Moving(m), MoveDel(m)
  PROVE  Busy(m)'
<1> DEFINE o == op[m]
           K == KernelOf(conns)
           C == o.todo \cup o.done
           o2 == [o EXCEPT !.pc = "moveAdd"]
<1>1. /\ o \in Op /\ o.pc = "moveDel" /\ o.kind = "connect" /\ o.added = {} /\ o.todo # {}
      /\ o.todo \cap o.done = {} /\ ~conns[m].tracked /\ Chained(conns)
      /\ Plans(m, C) /\ RecordedWith(m, C) /\ m \in addrs /\ bearer[m]
      /\ kernel = Applied(K, o.done)
  BY DEF TypeOK, Moving, MoveDel
<1>2. PICK c \in o.todo :
        /\ IsFirst(c, o.todo)
        /\ kernel' = Without(kernel, c.orig) /\ op' = [op EXCEPT ![m] = o2]
        /\ UNCHANGED <<stored, conns, bearer, addrs>>
  BY NoFault DEF MoveDel, Goto, disk, memory, link
<1>3. /\ o2.pc = "moveAdd" /\ o2.kind = o.kind /\ o2.todo = o.todo /\ o2.done = o.done
      /\ o2.added = o.added
  BY <1>1 DEF Op
<1> HIDE DEF o2
<1>4. op'[m] = o2 /\ \A n \in Modems : n # m => Quiet(n)'
  BY <1>2, QuietKept
<1>5. c.orig \in kernel
  <2>1. c.orig \in K
    BY <1>1, PlanFacts
  <2>2. ASSUME NEW d \in o.done, d.orig = c.orig PROVE FALSE
    <3>1. d = c
      BY <1>1, <2>2, PlanFacts
    <3> QED
      BY <1>1, <3>1
  <2> QED
    BY <1>1, <2>1, <2>2 DEF Applied
<1>6. kernel' = kernel \ {c.orig}
  <2>1. c.orig \in Route /\ Modems # {}
    BY <1>1, PlanFacts
  <2> QED
    BY <1>2, <1>5, <2>1, WithoutOne DEF TypeOK
<1>7. {d \in o.todo : IsFirst(d, o.todo)} = {c}
  <2> SUFFICES ASSUME NEW d \in o.todo, IsFirst(d, o.todo) PROVE d = c
    BY <1>2
  <2>1. ~Precedes(c.orig, d.orig) /\ ~Precedes(d.orig, c.orig)
    BY <1>2 DEF IsFirst
  <2>2. /\ c.orig \in Route /\ d.orig \in Route
        /\ c.orig.metric \in Nat /\ d.orig.metric \in Nat
    BY <1>1, PlanFacts
  <2>3. c.orig.metric = d.orig.metric
    BY <2>1, <2>2, OneFamily DEF Precedes
  <2> QED
    BY <1>1, <2>3, PlanFacts
<1>8. Plans(m, op[m].todo \cup op[m].done)' /\ RecordedWith(m, op[m].todo \cup op[m].done)'
  BY <1>1, <1>2, <1>3, <1>4 DEF Plans, RecordedWith
<1>9. Chained(conns)'
  BY <1>1, <1>2 DEF Chained
<1>10. kernel' = Applied(KernelOf(conns'), op'[m].done)
                   \ {e.orig : e \in {d \in op'[m].todo : IsFirst(d, op'[m].todo)}}
  BY <1>1, <1>2, <1>3, <1>4, <1>6, <1>7
<1>11. Moving(m)'
  BY <1>1, <1>2, <1>3, <1>4, <1>8, <1>9, <1>10 DEF Moving
<1> QED
  BY <1>4, <1>11 DEF Busy, Phase

\* One more change of the plan is applied; after the last one the table is as
\* planned, but for the own route.
LEMMA SerialMoveAdd ==
  ASSUME OneAtATime, TypeOK, NEW m \in Modems, Busy(m), Moving(m), MoveAdd(m)
  PROVE  Busy(m)'
<1> DEFINE o    == op[m]
           K    == KernelOf(conns)
           C    == o.todo \cup o.done
           own  == OwnRoute(m, DefaultRouteMetric)
<1>1. /\ o \in Op /\ o.pc = "moveAdd" /\ o.kind = "connect" /\ o.added = {} /\ o.todo # {}
      /\ o.todo \cap o.done = {} /\ ~conns[m].tracked /\ Chained(conns)
      /\ Plans(m, C) /\ RecordedWith(m, C) /\ m \in addrs /\ bearer[m] /\ conns \in Conns
      /\ kernel = Applied(K, o.done) \ {e.orig : e \in {d \in o.todo : IsFirst(d, o.todo)}}
  BY DEF TypeOK, Moving, MoveAdd, Conns
<1>2. PICK c \in o.todo :
        LET n == [o EXCEPT !.todo = @ \ {c}, !.done = @ \cup {c}]
        IN  /\ IsFirst(c, o.todo)
            /\ Accepted(c.repl) =>
                 /\ kernel' = kernel \cup {c.repl}
                 /\ op' = [op EXCEPT ![m] = IF n.todo # {} THEN [n EXCEPT !.pc = "moveDel"]
                                            ELSE Settle(m, n)]
            /\ UNCHANGED <<stored, conns, bearer, addrs>>
  BY NoFault DEF MoveAdd, Goto, disk, memory, link
<1>3. c \in C /\ \A d \in C : d.orig = c.orig \/ d.repl.metric = c.repl.metric => d = c
  BY <1>1, PlanFacts
<1>4. {d \in o.todo : IsFirst(d, o.todo)} = {c}
  <2> SUFFICES ASSUME NEW d \in o.todo, IsFirst(d, o.todo) PROVE d = c
    BY <1>2
  <2>1. ~Precedes(c.orig, d.orig) /\ ~Precedes(d.orig, c.orig)
    BY <1>2 DEF IsFirst
  <2>2. /\ c.orig \in Route /\ d.orig \in Route
        /\ c.orig.metric \in Nat /\ d.orig.metric \in Nat
    BY <1>1, PlanFacts
  <2>3. c.orig.metric = d.orig.metric
    BY <2>1, <2>2, OneFamily DEF Precedes
  <2> QED
    BY <1>1, <2>3, PlanFacts
<1>5. kernel = Applied(K, o.done) \ {c.orig}
  BY <1>1, <1>4
<1>6. \A d \in o.done : d # c /\ d \in C
  BY <1>1
<1>7. Accepted(c.repl)
  <2>1. Sourced(c.repl)
    <3>1. \/ c.repl.iface \in Wans
          \/ \E h \in Modems : h # m /\ conns[h].tracked /\ c.repl.iface = h
      BY <1>1, PlanFacts
    <3> QED
      BY <3>1 DEF Sourced, Busy, Quiet, Up
  <2>2. ASSUME NEW x \in kernel, x.metric = c.repl.metric PROVE FALSE
    <3>1. x \in K \/ \E d \in o.done : d.repl = x
      BY <1>5 DEF Applied
    <3> QED
      BY <1>1, <1>3, <1>6, <2>2, <3>1, PlanFacts
  <2> QED
    BY <2>1, <2>2 DEF Accepted, MetricTaken
<1>8. kernel' = Applied(K, o.done \cup {c})
  <2>1. c.orig # c.repl /\ \A d \in o.done : d.repl # c.orig
    <3>1. \A d \in C : d.repl.metric # c.orig.metric
      BY <1>1, PlanFacts
    <3> QED
      BY <1>3, <1>6, <3>1
  <2>2. kernel' = (Applied(K, o.done) \ {c.orig}) \cup {c.repl}
    BY <1>2, <1>5, <1>7
  <2> DEFINE B == o.done
  <2>3. ASSUME NEW r
        PROVE  /\ r \in Applied(K, B) <=> (r \in K /\ \A d \in B : d.orig # r) \/ \E d \in B : d.repl = r
               /\ r \in Applied(K, B \cup {c}) <=>
                    (r \in K /\ \A d \in B \cup {c} : d.orig # r) \/ \E d \in B \cup {c} : d.repl = r
    BY DEF Applied
  <2>4. \A d \in B : d.repl # c.orig
    BY <2>1
  <2> HIDE DEF B, K
  <2>5. Applied(K, B \cup {c}) = (Applied(K, B) \ {c.orig}) \cup {c.repl}
    BY <2>1, <2>3, <2>4
  <2> QED
    BY <2>2, <2>5 DEF B
<1> DEFINE n == [o EXCEPT !.todo = @ \ {c}, !.done = @ \cup {c}]
<1>9. /\ n \in Op /\ n.todo = o.todo \ {c} /\ n.done = o.done \cup {c} /\ n.kind = "connect"
      /\ n.added = {} /\ n.always \in BOOLEAN
  BY <1>1 DEF Op
<1>10. op' = [op EXCEPT ![m] = IF n.todo # {} THEN [n EXCEPT !.pc = "moveDel"] ELSE Settle(m, n)]
  BY <1>2, <1>7
<1> HIDE DEF n
<1>11. CASE n.todo # {}
  <2> DEFINE o2 == [n EXCEPT !.pc = "moveDel"]
  <2>1. op' = [op EXCEPT ![m] = o2]
    BY <1>10, <1>11
  <2>2. /\ o2.pc = "moveDel" /\ o2.kind = "connect" /\ o2.todo = o.todo \ {c}
        /\ o2.done = o.done \cup {c} /\ o2.added = {}
    BY <1>9 DEF Op
  <2> HIDE DEF o2
  <2>3. op'[m] = o2 /\ \A k \in Modems : k # m => Quiet(k)'
    BY <1>2, <2>1, QuietKept
  <2>4. op'[m].todo \cup op'[m].done = C /\ op'[m].todo \cap op'[m].done = {} /\ op'[m].todo # {}
    BY <1>1, <1>9, <1>11, <2>2, <2>3
  <2>5. Chained(conns)'
    BY <1>1, <1>2 DEF Chained
  <2>6. Plans(m, op[m].todo \cup op[m].done)' /\ RecordedWith(m, op[m].todo \cup op[m].done)'
    <3>1. Plans(m, C) /\ RecordedWith(m, C)
      BY <1>1
    <3> HIDE DEF C
    <3> QED
      BY <1>2, <2>4, <3>1 DEF Plans, RecordedWith
  <2>7. kernel' = Applied(KernelOf(conns'), op'[m].done)
    BY <1>2, <1>8, <2>2, <2>3
  <2>8. Moving(m)'
    <3> HIDE DEF C
    <3> QED
      BY <1>1, <1>2, <2>2, <2>3, <2>4, <2>5, <2>6, <2>7 DEF Moving
  <2> QED
    BY <2>3, <2>8 DEF Busy, Phase
<1>12. CASE n.todo = {}
  <2> DEFINE o2  == [n EXCEPT !.pc = "addRoute", !.routes = {own}, !.dflt = TRUE]
             t   == Joining(o2, {own})
             cs2 == [k \in Modems |-> IF k = m THEN t ELSE Rerouted(conns[k], C)]
  <2>1. own \in Route /\ OwnRoutes(m, DefaultRouteMetric) = {own} /\ own.metric = DefaultRouteMetric
    BY OneFamily DEF OwnRoute, DefaultRouteMetric
  <2>2. op' = [op EXCEPT ![m] = o2]
    BY <1>9, <1>10, <1>12, <2>1 DEF Settle
  <2>3. /\ o2.pc = "addRoute" /\ o2.kind = "connect" /\ o2.added = {} /\ o2.routes = {own}
        /\ o2.done = C /\ o2.dflt = TRUE /\ o2.always \in BOOLEAN
    <3>1. o.done \cup {c} = C
      BY <1>9, <1>12
    <3> QED
      BY <1>9, <3>1 DEF Op
  <2> HIDE DEF o2
  <2>4. op'[m] = o2 /\ \A k \in Modems : k # m => Quiet(k)'
    BY <1>2, <2>2, QuietKept
  <2>5. t \in Connection /\ t.tracked /\ t.changes = C /\ t.dflt /\ t.routes = {own}
    <3>1. C \subseteq Change
      BY <1>1 DEF Op
    <3> QED
      BY <2>1, <2>3, <3>1 DEF Joining, Connection
  <2>6. After(m, op[m].routes)' = cs2
    BY <1>2, <2>3, <2>4 DEF After
  <2> HIDE DEF t
  <2>7. /\ Settled(cs2, Applied(K, C) \cup {own}, stored)
        /\ \A x \in Applied(K, C) : x.metric # DefaultRouteMetric
    <3>1. cs2 = [k \in Modems |-> IF k = m THEN t ELSE Rerouted(conns[k], C)]
      OBVIOUS
    <3>2. Plans(m, C) /\ RecordedWith(m, C)
      BY <1>1
    <3> HIDE DEF cs2, C
    <3> QED
      BY <1>1, <2>5, <3>1, <3>2, TakeoverSettles
  <2>8. kernel' = Applied(K, C)
    BY <1>8, <1>9, <1>12
  <2> HIDE DEF cs2
  <2>9. kernel' \cup op'[m].routes = Applied(K, C) \cup {own}
    BY <2>3, <2>4, <2>8
  <2>10. Settled(After(m, op[m].routes), kernel \cup op[m].routes, stored)'
    BY <1>2, <2>6, <2>7, <2>9 DEF Settled, Chained, OnRecord
  <2>11. Adding(m)'
    BY <1>1, <1>2, <2>1, <2>3, <2>4, <2>7, <2>8, <2>10 DEF Adding
  <2> QED
    BY <2>4, <2>11 DEF Busy, Phase
<1> QED
  BY <1>11, <1>12

\* The own route is added where nothing else is.
LEMMA SerialAddRoute ==
  ASSUME OneAtATime, TypeOK, NEW m \in Modems, Busy(m), Adding(m), AddRoute(m)
  PROVE  Busy(m)'
<1> DEFINE o   == op[m]
           cs2 == After(m, o.routes)
<1>1. /\ o \in Op /\ o.kind = "connect" /\ ~conns[m].tracked /\ o.added = {}
      /\ m \in addrs /\ bearer[m]
      /\ Settled(cs2, kernel \cup o.routes, stored)
      /\ \A r \in o.routes, x \in kernel : x.metric # r.metric
  BY DEF TypeOK, Adding
<1>2. PICK r \in o.routes :
        /\ Accepted(r) =>
             /\ kernel' = kernel \cup {r}
             /\ op' = [op EXCEPT ![m] =
                         [o EXCEPT !.routes = @ \ {r}, !.added = @ \cup {r},
                                   !.pc = IF o.routes \ {r} = {} THEN "saveAlways" ELSE "addRoute"]]
        /\ UNCHANGED <<stored, conns, bearer, addrs>>
  BY NoFault DEF AddRoute, Goto, disk, memory, link
<1>3. o.routes = {r} /\ r.iface = m
  <2>1. Shaped(cs2, m)
    BY <1>1 DEF Settled, Chained
  <2>2. cs2[m].tracked /\ cs2[m].routes = o.routes
    BY DEF After, Joining
  <2>3. PICK k \in Nat : o.routes = {OwnRoute(m, k)}
    BY <2>1, <2>2 DEF Shaped, ShapedAs
  <2> QED
    BY <2>3 DEF OwnRoute
<1>4. Accepted(r)
  BY <1>1, <1>3 DEF Accepted, Sourced, MetricTaken
<1> DEFINE o2 == [o EXCEPT !.routes = @ \ {r}, !.added = @ \cup {r},
                           !.pc = IF o.routes \ {r} = {} THEN "saveAlways" ELSE "addRoute"]
<1>5. op' = [op EXCEPT ![m] = o2] /\ kernel' = kernel \cup o.routes
  BY <1>2, <1>3, <1>4
<1>6. /\ o2.pc = "saveAlways" /\ o2.kind = "connect" /\ o2.added = o.routes
      /\ o2.done = o.done /\ o2.dflt = o.dflt /\ o2.always = o.always
  BY <1>1, <1>3 DEF Op
<1> HIDE DEF o2
<1>7. op'[m] = o2 /\ \A n \in Modems : n # m => Quiet(n)'
  BY <1>2, <1>5, QuietKept
<1>8. After(m, op[m].added)' = cs2
  BY <1>2, <1>6, <1>7 DEF After, Joining
<1> HIDE DEF cs2
<1>9. Settled(After(m, op[m].added), kernel, stored)'
  BY <1>1, <1>2, <1>5, <1>8 DEF Settled, Chained, OnRecord
<1>10. Saving(m)'
  BY <1>1, <1>2, <1>6, <1>7, <1>9 DEF Saving
<1> QED
  BY <1>7, <1>10 DEF Busy, Phase

\* The always-on preference touches neither routes nor records.
LEMMA SerialSaveAlways ==
  ASSUME OneAtATime, TypeOK, NEW m \in Modems, Busy(m), Saving(m) \/ Tracking(m), SaveAlways(m)
  PROVE  Busy(m)'
<1> DEFINE o == op[m]
           o2 == [o EXCEPT !.pc = IF o.kind = "connect" THEN "commit" ELSE "track"]
<1>1. o \in Op /\ o.pc = "saveAlways"
  BY DEF TypeOK, SaveAlways
<1>2. op' = [op EXCEPT ![m] = o2] /\ UNCHANGED <<kernel, stored, conns, bearer, addrs>>
  BY NoFault DEF SaveAlways, Goto, memory, link
<1>3. /\ o2.pc = (IF o.kind = "connect" THEN "commit" ELSE "track") /\ o2.kind = o.kind
      /\ o2.added = o.added /\ o2.done = o.done /\ o2.dflt = o.dflt /\ o2.always = o.always
  BY <1>1 DEF Op
<1> HIDE DEF o2
<1>4. op'[m] = o2 /\ \A n \in Modems : n # m => Quiet(n)'
  BY <1>2, QuietKept
<1>5. CASE Saving(m)
  <2>1. After(m, op[m].added)' = After(m, op[m].added)
    <3>1. /\ op'[m].added = op[m].added /\ op'[m].done = op[m].done
          /\ Joining(op'[m], op'[m].added) = Joining(op[m], op[m].added)
      BY <1>3, <1>4 DEF Joining
    <3>2. \A n \in Modems : Rerouted(conns'[n], op'[m].done) = Rerouted(conns[n], op[m].done)
      BY <1>2, <3>1
    <3> QED
      BY <3>1, <3>2 DEF After
  <2>2. Settled(After(m, op[m].added), kernel, stored)'
    BY <1>2, <1>5, <2>1 DEF Saving, Settled, Chained, OnRecord
  <2>3. Saving(m)'
    BY <1>2, <1>3, <1>4, <1>5, <2>2 DEF Saving
  <2> QED
    BY <1>4, <2>3 DEF Busy, Phase
<1>6. CASE Tracking(m)
  <2>1. Again(m)' = Again(m)
    BY <1>2, <1>3, <1>4 DEF Again, Joining
  <2>2. Settled(Again(m), kernel, stored)'
    BY <1>2, <1>6, <2>1 DEF Tracking, Settled, Chained, OnRecord
  <2>3. op'[m].pc = "track"
    BY <1>1, <1>3, <1>4, <1>6 DEF Tracking
  <2>4. Tracking(m)'
    BY <1>2, <1>6, <2>2, <2>3 DEF Tracking
  <2> QED
    BY <1>4, <2>4 DEF Busy, Phase
<1> QED
  BY <1>5, <1>6

\* The connections that were moved aside are demoted; the record, written once
\* more, says what it said.
LEMMA SerialCommit ==
  ASSUME OneAtATime, TypeOK, NEW m \in Modems, Busy(m), Saving(m), Commit(m)
  PROVE  Busy(m)'
<1> DEFINE o     == op[m]
           cs2   == After(m, o.added)
           moved == [n \in Modems |-> Rerouted(conns[n], o.done)]
           o2    == [o EXCEPT !.pc = "track"]
           entry == Recorded(o.added, o.done)
<1>1. /\ o \in Op /\ o.kind = "connect" /\ ~conns[m].tracked /\ m \in addrs /\ bearer[m]
      /\ Settled(cs2, kernel, stored)
  BY DEF TypeOK, Saving
<1>2. /\ conns' = moved
      /\ stored' \in {stored, [stored EXCEPT ![m] = entry]}
      /\ stored' # stored => \E n \in Modems : \E c \in o.done : c.orig \in conns[n].routes
      /\ op' = [n \in Modems |-> IF n = m THEN o2 ELSE Shared(op[n], o.done)]
      /\ UNCHANGED <<kernel, bearer, addrs>>
  BY NoFault DEF Commit, link
<1>3. op' = [op EXCEPT ![m] = o2]
  <2>1. \A n \in Modems : n # m => Shared(op[n], o.done) = op[n]
    BY DEF Shared, Busy, Quiet
  <2> HIDE DEF o2
  <2> QED
    BY <1>2, <2>1 DEF TypeOK
<1>4. /\ o2.pc = "track" /\ o2.added = o.added /\ o2.done = o.done
      /\ o2.dflt = o.dflt /\ o2.always = o.always
  BY <1>1 DEF Op
<1> HIDE DEF o2
<1>5. \A n \in Modems : conns'[n].tracked = conns[n].tracked
  BY <1>2, ReroutedKeeps DEF TypeOK
<1>6. op'[m] = o2 /\ \A n \in Modems : n # m => Quiet(n)'
  BY <1>2, <1>3, <1>5, QuietKept
<1>7. Again(m)' = cs2
  BY <1>2, <1>4, <1>6 DEF Again, After, Joining
<1>8. OnRecord(cs2, stored')
  <2>1. CASE stored' = stored
    BY <1>1, <2>1 DEF Settled, OnRecord
  <2>2. CASE stored' # stored
    <3>1. stored' = [stored EXCEPT ![m] = entry] /\ o.done # {}
      BY <1>2, <2>2
    <3>2. cs2[m].changes = o.done
      BY DEF After, Joining
    <3> HIDE DEF cs2
    <3> QED
      BY <1>1, <3>1, <3>2 DEF Settled, OnRecord, Recorded, TypeOK
  <2> QED
    BY <2>1, <2>2
<1> HIDE DEF cs2
<1>9. Settled(Again(m), kernel, stored)'
  BY <1>1, <1>2, <1>7, <1>8 DEF Settled, Chained, OnRecord
<1>10. Tracking(m)'
  BY <1>1, <1>2, <1>4, <1>6, <1>9 DEF Tracking
<1> QED
  BY <1>6, <1>10 DEF Busy, Phase

\* Memory catches up with the kernel.
LEMMA SerialTrack ==
  ASSUME OneAtATime, TypeOK, NEW m \in Modems, Busy(m), Tracking(m), Track(m)
  PROVE  Resting'
<1>1. /\ conns' = Again(m) /\ op' = [op EXCEPT ![m] = NoOp]
      /\ UNCHANGED <<kernel, stored, bearer, addrs>>
  BY NoFault DEF Track, Remember, Goto, Again, Joining, disk, link
<1>2. Settled(conns, kernel, stored)'
  BY <1>1 DEF Tracking, Settled, Chained, OnRecord
<1>3. conns'[m].tracked /\ \A n \in Modems : n # m => conns'[n] = conns[n]
  BY <1>1 DEF Again, Joining, TypeOK
<1>4. \A n \in Modems : n # m => Quiet(n)'
  BY <1>1, <1>3, QuietKept
<1>5. Quiet(m)'
  BY <1>1, <1>3 DEF Quiet, Up, Tracking, TypeOK, NoOp
<1> QED
  BY <1>2, <1>4, <1>5 DEF Resting

\* The copy of the connection is written back as it was taken.
LEMMA SerialReport ==
  ASSUME OneAtATime, TypeOK, NEW m \in Modems, Busy(m), Reporting(m), Report(m)
  PROVE  Resting' /\ conns' = conns /\ op' = [op EXCEPT ![m] = NoOp]
<1>1. /\ conns' = [conns EXCEPT ![m] = Joining(op[m], op[m].added)]
      /\ op' = [op EXCEPT ![m] = NoOp]
      /\ UNCHANGED <<kernel, stored, bearer, addrs>>
  BY NoFault DEF Report, Remember, Goto, Joining, disk, link
<1>2. conns' = conns
  BY <1>1 DEF Reporting, TypeOK
<1>3. Settled(conns, kernel, stored)'
  BY <1>1, <1>2 DEF Reporting, Settled, Chained, OnRecord
<1>4. \A n \in Modems : n # m => Quiet(n)'
  BY <1>1, <1>2, QuietKept
<1>5. Quiet(m)'
  BY <1>1, <1>2 DEF Quiet, Up, Reporting, TypeOK, NoOp
<1> QED
  BY <1>1, <1>2, <1>3, <1>4, <1>5 DEF Resting

\* The monitor's second look at the default route finds nothing to move.
LEMMA SerialPlanAgain ==
  ASSUME OneAtATime, TypeOK, NEW m \in Modems, Busy(m), Tracking(m), Plan(m)
  PROVE  Busy(m)'
<1> DEFINE o   == op[m]
           own == OwnRoute(m, DefaultRouteMetric)
           cs2 == Again(m)
<1>1. /\ o \in Op /\ o.pc = "plan" /\ o.kind = "keep" /\ o.dflt
      /\ Settled(cs2, kernel, stored) /\ m \in addrs /\ bearer[m]
  BY DEF TypeOK, Tracking, Plan
<1>2. cs2 \in Conns /\ cs2[m].routes = o.added /\ cs2[m].dflt /\ cs2[m].tracked
  <2>1. Joining(o, o.added) \in Connection
    BY <1>1 DEF Joining, Op, Connection
  <2> QED
    BY <1>1, <2>1 DEF Again, Joining, Conns, TypeOK
<1> HIDE DEF cs2
<1>3. Chained(cs2) /\ kernel = KernelOf(cs2) /\ kernel \subseteq Route
  BY <1>1 DEF Settled, TypeOK
<1>4. o.added = {own}
  BY <1>2, <1>3, TopFacts
<1>5. \A C \in DefaultRouteChanges(kernel, {own}) : C = {}
  <2> SUFFICES ASSUME NEW C \in DefaultRouteChanges(kernel, {own}), NEW c \in C PROVE FALSE
    OBVIOUS
  <2>1. c.orig \in kernel /\ c.orig # own /\ MovesDown(c)
    BY <1>3, PlanOf DEF Chained
  <2>2. c.orig \in KernelOf(cs2) \ cs2[m].routes
    BY <1>2, <1>3, <1>4, <2>1
  <2>3. c.orig.metric \in Nat /\ c.orig.metric > DefaultRouteMetric
    BY <1>2, <1>3, <2>2, TopFacts
  <2> QED
    BY <2>1, <2>3 DEF MovesDown, DefaultRouteMetric
<1> DEFINE o2 == [o EXCEPT !.pc = "saveAlways"]
<1>6. op' = [op EXCEPT ![m] = o2] /\ UNCHANGED <<kernel, stored, conns, bearer, addrs>>
  <2>1. Settle(m, o) = o2
    BY <1>1 DEF Settle, Found
  <2>2. PICK C \in DefaultRouteChanges(kernel, {own}) :
          C = {} => op' = [op EXCEPT ![m] = Settle(m, o)] /\ UNCHANGED stored
    BY <1>1, <1>4, NoFault DEF Plan, Goto
  <2> HIDE DEF o2
  <2> QED
    BY <1>5, <2>1, <2>2 DEF Plan, memory, link
<1>7. /\ o2.pc = "saveAlways" /\ o2.kind = "keep" /\ o2.added = o.added
      /\ o2.done = o.done /\ o2.dflt = o.dflt /\ o2.always = o.always
  BY <1>1 DEF Op
<1> HIDE DEF o2
<1>8. op'[m] = o2 /\ \A n \in Modems : n # m => Quiet(n)'
  BY <1>6, QuietKept
<1>9. Again(m)' = cs2
  BY <1>6, <1>7, <1>8 DEF Again, Joining, cs2
<1>10. Settled(Again(m), kernel, stored)'
  BY <1>1, <1>6, <1>9 DEF Settled, Chained, OnRecord
<1>11. Tracking(m)'
  BY <1>1, <1>6, <1>7, <1>8, <1>10 DEF Tracking
<1> QED
  BY <1>8, <1>11 DEF Busy, Phase

-----------------------------------------------------------------------------
(* Between operations. *)

\* The kernel and the database say of a connection what memory says.
LEMMA FoundIsKnown ==
  ASSUME OneAtATime, conns \in Conns, Settled(conns, kernel, stored), NEW m \in Modems, conns[m].tracked
  PROVE  /\ FoundRoutes(m) = conns[m].routes /\ FoundRoutes(m) # {}
         /\ conns[m].changes = stored[m].changes
         /\ IsDefault(FoundRoutes(m)) <=> conns[m].dflt
<1>1. Chained(conns) /\ kernel = KernelOf(conns) /\ OnRecord(conns, stored)
  BY DEF Settled
<1>2. PICK r \in conns[m].routes : TRUE
  BY <1>1, ChainFacts
<1>3. /\ conns[m].routes = {r} /\ r = OwnRoute(m, r.metric) /\ r.iface = m
      /\ r.metric \in Nat /\ r.metric >= DefaultRouteMetric
      /\ conns[m].dflt <=> r.metric = DefaultRouteMetric
  BY <1>1, <1>2, ChainFacts
<1>4. {x \in kernel : x.iface = m} = {r}
  <2>1. r \in kernel
    BY <1>1, <1>2, KernelHas
  <2>2. \A x \in kernel : x.iface = m => x \in conns[m].routes
    BY <1>1, KernelFacts
  <2> QED
    BY <1>3, <2>1, <2>2
<1>5. FoundRoutes(m) = {r}
  <2> DEFINE mine == {x \in kernel : x.iface = m}
             best == {x \in mine : \A y \in mine : x.metric <= y.metric}
  <2>1. best = {r}
    BY <1>3, <1>4
  <2>2. FoundRoutes(m) = UNION {OwnRoutes(m, x.metric) : x \in best}
    BY DEF FoundRoutes
  <2>3. OwnRoutes(m, r.metric) = {r}
    BY <1>3, OneFamily
  <2> HIDE DEF best
  <2> QED
    BY <2>1, <2>2, <2>3
<1>6. IsDefault({r}) <=> conns[m].dflt
  BY <1>3 DEF IsDefault, DefaultRouteMetric
<1> QED
  BY <1>1, <1>3, <1>5, <1>6 DEF OnRecord

\* To forget a modem that has no connection changes nothing.
LEMMA LeftAlone ==
  ASSUME TypeOK, Settled(conns, kernel, stored), NEW m \in Modems, ~conns[m].tracked
  PROVE  Settled(Left(m), kernel, stored)
<1>1. Chained(conns) /\ conns \in Conns
  BY DEF Settled, TypeOK, Conns
<1>2. conns[m].routes = {} /\ conns[m].changes = {} /\ ~conns[m].dflt
  BY <1>1 DEF Chained, Shaped
<1>3. \A n \in Modems : /\ Left(m)[n].tracked = conns[n].tracked /\ Left(m)[n].routes = conns[n].routes
                        /\ Left(m)[n].changes = conns[n].changes /\ Left(m)[n].dflt = conns[n].dflt
  BY <1>1, <1>2 DEF Left, Untracked, Conns, Connection
<1>4. Chained(Left(m)) /\ KernelOf(Left(m)) = KernelOf(conns)
  BY <1>1, <1>3, SameChain
<1> QED
  BY <1>3, <1>4 DEF Settled, OnRecord

\* Connect, Disconnect, Restore and the monitor's reconnect begin with a clean-up.
LEMMA SerialTeardown ==
  ASSUME OneAtATime, TypeOK, NEW m \in Modems, Resting, NEW o \in Op,
         o.kind \in {"connect", "disconnect", "restore"}, ~o.failed,
         op' = [op EXCEPT ![m] = Teardown(m, o)],
         UNCHANGED <<kernel, stored, conns, bearer, addrs>>
  PROVE  Busy(m)'
<1>1. /\ conns \in Conns /\ Settled(conns, kernel, stored) /\ Chained(conns)
      /\ \A n \in Modems : Quiet(n) /\ Up(n)
  BY DEF TypeOK, Conns, Resting, Settled, Quiet
<1>2. \A n \in Modems : n # m => Quiet(n)'
  BY <1>1 DEF Quiet, Up, TypeOK
<1>3. CASE conns[m].tracked
  <2> DEFINE routes == conns[m].routes
             changes == IF conns[m].dflt THEN conns[m].changes ELSE {}
             n  == [[o EXCEPT !.dflt = conns[m].dflt, !.done = conns[m].changes]
                      EXCEPT !.routes = routes, !.todo = changes, !.ret = "sync",
                             !.err = FALSE, !.kept = FALSE]
             o2 == [n EXCEPT !.pc = UnroutePC(n)]
  <2>1. op'[m] = o2
    BY <1>3 DEF Teardown, CleanupTracked, Cleanup, TypeOK
  <2>2. routes # {}
    BY <1>1, <1>3, ChainFacts
  <2>3. n.routes = routes
    BY DEF Op
  <2>4. UnroutePC(n) = "unroute"
    <3> HIDE DEF n
    <3> QED
      BY <2>2, <2>3 DEF UnroutePC
  <2>5. /\ o2.pc = "unroute" /\ o2.kind = o.kind /\ o2.failed = o.failed
        /\ o2.ret = "sync" /\ o2.err = FALSE /\ o2.kept = FALSE /\ o2.routes = routes
        /\ o2.dflt = conns[m].dflt /\ o2.done = conns[m].changes /\ o2.todo = changes
    BY <2>4 DEF Op
  <2> HIDE DEF o2, n
  <2>6. Cleaning(m)'
    BY <1>1, <1>3, <2>1, <2>5 DEF Cleaning, Chained
  <2>7. Behind(op'[m]) = {}
    BY <2>1, <2>5 DEF Behind
  <2>8. Unrouting(m)'
    BY <1>1, <2>1, <2>5, <2>6, <2>7 DEF Unrouting, Settled, OnRecord
  <2> QED
    BY <1>2, <2>8 DEF Busy, Phase
<1>4. CASE ~conns[m].tracked
  <2> DEFINE o2 == Stale(o, "forget")
  <2>1. op'[m] = o2
    BY <1>1, <1>4 DEF Teardown, TypeOK, Up
  <2>2. o2.pc = "stale" /\ o2.ret = "forget" /\ o2.kind = o.kind /\ o2.failed = o.failed
    BY DEF Stale, Op
  <2> HIDE DEF o2
  <2>3. Left(m)' = Left(m) /\ ~bearer'[m]
    BY <1>1, <1>4 DEF Left, Up
  <2>4. Settled(Left(m), kernel, stored)
    BY <1>1, <1>4, LeftAlone
  <2>5. Settled(Left(m), kernel, stored)'
    BY <2>3, <2>4 DEF Settled, Chained, OnRecord
  <2>6. Leaving(m)'
    BY <2>1, <2>2, <2>3, <2>5 DEF Leaving
  <2> QED
    BY <1>2, <2>6 DEF Busy, Phase
<1> QED
  BY <1>3, <1>4

\* The monitor finds of a tracked connection what memory knows of it.
LEMMA SerialKeepAlive ==
  ASSUME OneAtATime, TypeOK, NEW m \in Modems, Resting, KeepAlive(m)
  PROVE  Busy(m)'
<1> DEFINE o  == [NoOp EXCEPT !.want = always[m].dflt, !.always = TRUE]
           ok == [o EXCEPT !.kind = "keep"]
           oc == [o EXCEPT !.kind = "connect"]
<1>1. /\ op' = [op EXCEPT ![m] = IF bearer[m] THEN Recovery(m, ok, o.want) ELSE Teardown(m, oc)]
      /\ UNCHANGED <<kernel, stored, conns, bearer, addrs>>
  BY DEF KeepAlive, Goto, disk, memory, link
<1>2. o \in Op /\ ok \in Op /\ oc \in Op /\ oc.kind = "connect" /\ oc.failed = FALSE /\ ok.kind = "keep" /\ ok.always = TRUE
  <2>1. always[m].dflt \in BOOLEAN
    BY DEF TypeOK, Preference
  <2> QED
    BY <2>1 DEF NoOp, Op, PCs, Kinds
<1>3. CASE ~bearer[m]
  <2> HIDE DEF oc
  <2> QED
    BY <1>1, <1>2, <1>3, SerialTeardown
<1>4. CASE bearer[m]
  <2>1. /\ conns \in Conns /\ Settled(conns, kernel, stored) /\ Chained(conns)
        /\ conns[m].tracked /\ m \in addrs
    BY <1>4 DEF TypeOK, Conns, Resting, Settled, Quiet, Up
  <2>2. /\ FoundRoutes(m) = conns[m].routes /\ FoundRoutes(m) # {}
        /\ conns[m].changes = stored[m].changes
        /\ IsDefault(FoundRoutes(m)) <=> conns[m].dflt
    BY <2>1, FoundIsKnown
  <2> DEFINE found == FoundRoutes(m)
             dflt  == IF found = {} THEN o.want ELSE IsDefault(found)
             n     == [ok EXCEPT !.added = found, !.dflt = dflt, !.done = stored[m].changes]
             o2    == [n EXCEPT !.pc = IF dflt /\ ~stored[m].saved THEN "plan" ELSE Found(ok)]
  <2>3. op'[m] = o2
    BY <1>1, <1>4 DEF Recovery, TypeOK
  <2>4. /\ o2.pc \in {"plan", "saveAlways"} /\ o2.kind = "keep"
        /\ o2.added = conns[m].routes /\ o2.done = conns[m].changes
        /\ o2.pc = "plan" => o2.dflt
        /\ o2.dflt <=> conns[m].dflt
        /\ o2.dflt \in BOOLEAN
    <3>1. Found(ok) = "saveAlways"
      BY <1>2 DEF Found
    <3>2. (dflt <=> conns[m].dflt) /\ dflt \in BOOLEAN
      BY <2>2 DEF IsDefault
    <3> HIDE DEF dflt, ok
    <3>3. /\ n.kind = "keep" /\ n.added = found /\ n.dflt = dflt /\ n.done = stored[m].changes
      BY <1>2 DEF Op
    <3>4. o2.kind = n.kind /\ o2.added = n.added /\ o2.dflt = n.dflt /\ o2.done = n.done
          /\ o2.pc = IF dflt /\ ~stored[m].saved THEN "plan" ELSE "saveAlways"
      BY <1>2, <3>1 DEF Op
    <3> HIDE DEF n, o2
    <3> QED
      BY <2>2, <3>2, <3>3, <3>4
  <2> HIDE DEF o2
  <2>5. \A k \in Modems : k # m => Quiet(k)'
    BY <1>1 DEF Resting, Quiet, Up, TypeOK
  <2>6. \A k \in Modems : /\ Again(m)'[k].tracked = conns[k].tracked
                          /\ Again(m)'[k].routes = conns[k].routes
                          /\ Again(m)'[k].changes = conns[k].changes
                          /\ Again(m)'[k].dflt = conns[k].dflt
    <3>1. ASSUME NEW k \in Modems
          PROVE  Again(m)'[k] = IF k = m THEN Joining(o2, o2.added) ELSE conns[k]
      BY <1>1, <2>1, <2>3 DEF Again, Conns
    <3>2. conns[m].tracked = TRUE /\ conns[m].dflt = o2.dflt
      <4>1. conns[m].tracked \in BOOLEAN /\ conns[m].dflt \in BOOLEAN
        BY <2>1 DEF Conns, Connection
      <4> QED
        BY <2>1, <2>4, <4>1
    <3>3. /\ Joining(o2, o2.added).tracked = TRUE /\ Joining(o2, o2.added).routes = conns[m].routes
          /\ Joining(o2, o2.added).changes = conns[m].changes /\ Joining(o2, o2.added).dflt = conns[m].dflt
      BY <2>4, <3>2 DEF Joining
    <3> QED
      BY <3>1, <3>2, <3>3
  <2> DEFINE cs2 == Again(m)'
  <2>7. Settled(cs2, kernel, stored)
    <3> HIDE DEF cs2
    <3>1. \A k \in Modems : /\ cs2[k].tracked = conns[k].tracked /\ cs2[k].routes = conns[k].routes
                            /\ cs2[k].changes = conns[k].changes /\ cs2[k].dflt = conns[k].dflt
      BY <2>6 DEF cs2
    <3>2. Chained(cs2) /\ KernelOf(cs2) = KernelOf(conns)
      BY <2>1, <3>1, SameChain
    <3> QED
      BY <2>1, <3>1, <3>2 DEF Settled, OnRecord
  <2>8. Settled(Again(m), kernel, stored)'
    BY <1>1, <2>7 DEF Settled, Chained, OnRecord
  <2>9. Tracking(m)'
    BY <1>1, <1>4, <2>1, <2>3, <2>4, <2>8 DEF Tracking
  <2> QED
    BY <2>5, <2>9 DEF Busy, Phase
<1> QED
  BY <1>3, <1>4

\* An operation begins only when no other is under way.
LEMMA CurrentIs ==
  ASSUME OneAtATime, TypeOK, NEW m \in Modems, Resting, Current(m)
  PROVE  LET o == [NoOp EXCEPT !.kind = "current", !.always = always[m].on]
         IN  /\ o \in Op /\ o.kind = "current" /\ o.failed = FALSE
             /\ IF conns[m].tracked
                THEN conns' = conns /\ op' = [op EXCEPT ![m] = Copied(m, o)]
                ELSE /\ conns' = [conns EXCEPT ![m] = Untracked]
                     /\ op' = [op EXCEPT ![m] = Stale(o, "forget")]
             /\ UNCHANGED <<kernel, stored, bearer, addrs>>
<1> DEFINE o == [NoOp EXCEPT !.kind = "current", !.always = always[m].on]
<1>1. conns[m].tracked <=> bearer[m]
  BY DEF Resting, Quiet, Up
<1>2. PICK readable \in Outcomes :
        LET tracked  == conns[m].tracked /\ readable
            lost     == conns[m].tracked /\ ~readable
            fallback == IF lost THEN conns[m].dflt ELSE DefaultPreferred(m)
            x == [NoOp EXCEPT !.kind = "current",
                              !.always = IF lost THEN conns[m].always ELSE always[m].on]
        IN  /\ conns' = [conns EXCEPT ![m] = IF tracked THEN @ ELSE Untracked]
            /\ op' = [op EXCEPT ![m] = CASE tracked /\ bearer[m] -> Copied(m, x)
                                         [] tracked /\ ~bearer[m] -> CleanupTracked(m, x)
                                         [] OTHER -> LookUp(m, x, fallback)]
  BY DEF Current, Goto
<1>3. readable
  BY NoFault
<1>4. o \in Op /\ o.kind = "current" /\ o.failed = FALSE
  <2>1. always[m].on \in BOOLEAN
    BY DEF TypeOK, Preference
  <2> QED
    BY <2>1 DEF NoOp, Op, PCs, Kinds
<1>5. CASE conns[m].tracked
  <2>1. conns' = conns /\ op' = [op EXCEPT ![m] = Copied(m, o)]
    BY <1>1, <1>2, <1>3, <1>5 DEF TypeOK
  <2> HIDE DEF o
  <2> QED
    BY <1>4, <1>5, <2>1 DEF o, Current, disk, link
<1>6. CASE ~conns[m].tracked
  <2>1. conns' = [conns EXCEPT ![m] = Untracked] /\ op' = [op EXCEPT ![m] = Stale(o, "forget")]
    BY <1>1, <1>2, <1>3, <1>6 DEF LookUp
  <2> HIDE DEF o
  <2> QED
    BY <1>4, <1>6, <2>1 DEF o, Current, disk, link
<1> QED
  BY <1>5, <1>6

\* A status request copies a connection, or finds none.
LEMMA SerialCurrent ==
  ASSUME OneAtATime, TypeOK, NEW m \in Modems, Resting, Current(m)
  PROVE  Busy(m)'
<1> DEFINE o == [NoOp EXCEPT !.kind = "current", !.always = always[m].on]
<1>1. /\ o \in Op /\ o.kind = "current" /\ o.failed = FALSE
      /\ conns[m].tracked => conns' = conns /\ op' = [op EXCEPT ![m] = Copied(m, o)]
      /\ ~conns[m].tracked => /\ conns' = [conns EXCEPT ![m] = Untracked]
                              /\ op' = [op EXCEPT ![m] = Stale(o, "forget")]
      /\ UNCHANGED <<kernel, stored, bearer, addrs>>
  BY CurrentIs
<1> HIDE DEF o
<1>2. Settled(conns, kernel, stored) /\ \A n \in Modems : Quiet(n) /\ Up(n)
  BY DEF Resting, Quiet
<1>3. \A n \in Modems : n # m => Quiet(n)'
  BY <1>1, <1>2 DEF Quiet, Up, TypeOK
<1>4. CASE conns[m].tracked
  <2> DEFINE o2 == Copied(m, o)
  <2>1. op'[m] = o2 /\ conns' = conns /\ conns[m] \in Connection
    BY <1>1, <1>4 DEF TypeOK
  <2>2. /\ o2.pc = "report" /\ o2.added = conns[m].routes /\ o2.done = conns[m].changes
        /\ o2.dflt = conns[m].dflt /\ o2.always = conns[m].always
    BY <1>1 DEF Copied, Op
  <2> HIDE DEF o2
  <2>3. Joining(o2, o2.added) = conns[m]
    BY <1>4, <2>1, <2>2 DEF Joining, Connection
  <2>4. Settled(conns, kernel, stored)'
    BY <1>1, <1>2, <2>1 DEF Settled, Chained, OnRecord
  <2>5. Reporting(m)'
    BY <1>1, <1>2, <1>4, <2>1, <2>2, <2>3, <2>4 DEF Reporting, Up
  <2> QED
    BY <1>3, <2>5 DEF Busy, Phase
<1>5. CASE ~conns[m].tracked
  <2> DEFINE o2 == Stale(o, "forget")
  <2>1. op'[m] = o2 /\ conns' = [conns EXCEPT ![m] = Untracked]
    BY <1>1, <1>5 DEF TypeOK
  <2>2. o2.pc = "stale" /\ o2.ret = "forget" /\ o2.kind = "current" /\ o2.failed = FALSE
    BY <1>1 DEF Stale, Op
  <2> HIDE DEF o2
  <2>3. Left(m)' = Left(m)
    BY <2>1 DEF Left, TypeOK
  <2>4. Settled(Left(m), kernel, stored)
    BY <1>2, <1>5, LeftAlone
  <2>5. Settled(Left(m), kernel, stored)'
    BY <1>1, <2>3, <2>4 DEF Settled, Chained, OnRecord
  <2>6. Leaving(m)'
    BY <1>1, <1>2, <1>5, <2>1, <2>2, <2>5 DEF Leaving, Up
  <2> QED
    BY <1>3, <2>6 DEF Busy, Phase
<1> QED
  BY <1>4, <1>5

\* So every operation begins in one of these states.
LEMMA SerialBegin ==
  ASSUME OneAtATime, TypeOK, NEW m \in Modems, Resting,
         Connect(m) \/ Disconnect(m) \/ Restore(m) \/ KeepAlive(m) \/ Current(m)
  PROVE  Busy(m)'
<1>1. CASE Connect(m)
  <2>1. PICK req \in Requests[m], ok \in Outcomes :
          op' = [op EXCEPT ![m] = Teardown(m, [NoOp EXCEPT !.kind = "connect", !.want = req.dflt,
                                                !.always = req.always, !.failed = ~ok])]
    BY <1>1 DEF Connect, Goto
  <2> DEFINE o == [NoOp EXCEPT !.kind = "connect", !.want = req.dflt,
                               !.always = req.always, !.failed = ~ok]
  <2>2. o \in Op /\ o.kind = "connect" /\ o.failed = FALSE
    <3>1. req.dflt \in BOOLEAN /\ req.always \in BOOLEAN
      BY ConstantsAssumption
    <3>2. ok
      BY NoFault
    <3> QED
      BY <3>1, <3>2 DEF NoOp, Op, PCs, Kinds
  <2>3. UNCHANGED <<kernel, stored, conns, bearer, addrs>>
    BY <1>1 DEF Connect, link
  <2> HIDE DEF o
  <2>4. op' = [op EXCEPT ![m] = Teardown(m, o)]
    BY <2>1 DEF o
  <2> QED
    BY <2>2, <2>3, <2>4, SerialTeardown
<1>2. CASE Disconnect(m)
  <2>1. PICK ok \in Outcomes :
          op' = [op EXCEPT ![m] = Teardown(m, [NoOp EXCEPT !.kind = "disconnect", !.failed = ~ok])]
    BY <1>2 DEF Disconnect, Goto
  <2> DEFINE o == [NoOp EXCEPT !.kind = "disconnect", !.failed = ~ok]
  <2>2. o \in Op /\ o.kind = "disconnect" /\ o.failed = FALSE
    <3>1. ok
      BY NoFault
    <3> QED
      BY <3>1 DEF NoOp, Op, PCs, Kinds
  <2>3. UNCHANGED <<kernel, stored, conns, bearer, addrs>>
    BY <1>2 DEF Disconnect, link
  <2> HIDE DEF o
  <2>4. op' = [op EXCEPT ![m] = Teardown(m, o)]
    BY <2>1 DEF o
  <2> QED
    BY <2>2, <2>3, <2>4, SerialTeardown
<1>3. CASE Restore(m)
  <2> DEFINE o == [NoOp EXCEPT !.kind = "restore"]
  <2>1. /\ op' = [op EXCEPT ![m] = Teardown(m, o)]
        /\ UNCHANGED <<kernel, stored, conns, bearer, addrs>>
    BY <1>3 DEF Restore, Goto, disk, memory, link
  <2>2. o \in Op /\ o.kind = "restore" /\ o.failed = FALSE
    BY DEF NoOp, Op, PCs, Kinds
  <2> HIDE DEF o
  <2> QED
    BY <2>1, <2>2, SerialTeardown
<1>4. CASE KeepAlive(m)
  BY <1>4, SerialKeepAlive
<1>5. CASE Current(m)
  BY <1>5, SerialCurrent
<1> QED
  BY <1>1, <1>2, <1>3, <1>4, <1>5

\* Nobody begins while an operation is under way.
LEMMA NoneBegins ==
  ASSUME OneAtATime, NEW m \in Modems, Busy(m), NEW n \in Modems, CanBegin(n)
  PROVE  FALSE
<1>1. op[m].pc # "idle"
  BY DEF Busy, Phase, Unrouting, Restoring, Deleting, Dropping, Syncing, Leaving, Arriving,
         Moving, Adding, Saving, Tracking, Reporting
<1>2. {k \in Modems : op[k].pc # "idle"} = {m}
  BY <1>1 DEF Busy, Quiet
<1>3. Cardinality({m}) = 1
  BY FS_Singleton
<1>4. 1 < MaxBusy
  BY <1>2, <1>3 DEF CanBegin
<1> QED
  BY <1>4, ConstantsAssumption DEF OneAtATime

\* What a step of the operation under way can be, phase by phase.
LEMMA PhaseStep ==
  ASSUME NEW m \in Modems, Busy(m), ModemStep(m)
  PROVE  \/ Unrouting(m) /\ Unroute(m)
         \/ Restoring(m) /\ RestoreAdd(m)
         \/ Deleting(m) /\ RestoreDel(m)
         \/ Dropping(m) /\ DropState(m)
         \/ Syncing(m) /\ Sync(m)
         \/ Leaving(m) /\ (BearerDown(m) \/ LoadStale(m) \/ Forget(m))
         \/ Arriving(m) /\ (BearerUp(m) \/ LoadStale(m) \/ Plan(m))
         \/ Moving(m) /\ (MoveDel(m) \/ MoveAdd(m))
         \/ Adding(m) /\ AddRoute(m)
         \/ Saving(m) /\ (SaveAlways(m) \/ Commit(m))
         \/ Tracking(m) /\ (Plan(m) \/ SaveAlways(m) \/ Track(m))
         \/ Reporting(m) /\ Report(m)
<1> DEFINE pc == op[m].pc
<1>1. /\ (Unroute(m) => pc = "unroute") /\ (RestoreAdd(m) => pc = "restoreAdd") /\ (RestoreDel(m) => pc = "restoreDel")
      /\ (DropState(m) => pc = "dropState") /\ (Sync(m) => pc = "sync") /\ (BearerDown(m) => pc = "bearerDown")
      /\ (LoadStale(m) => pc = "stale") /\ (Forget(m) => pc = "forget") /\ (BearerUp(m) => pc = "bearerUp")
      /\ (Plan(m) => pc = "plan") /\ (MoveDel(m) => pc = "moveDel") /\ (MoveAdd(m) => pc = "moveAdd")
      /\ (MoveUndo(m) => pc = "moveUndo") /\ (AddRoute(m) => pc = "addRoute") /\ (SaveAlways(m) => pc = "saveAlways")
      /\ (Commit(m) => pc = "commit") /\ (Track(m) => pc = "track") /\ (Abort(m) => pc = "abort")
      /\ (Report(m) => pc = "report") /\ (Forgotten(m) => pc = "lookup")
  BY DEF Report, Forgotten, Unroute, RestoreAdd, RestoreDel, DropState, Sync, BearerDown, LoadStale, Forget, BearerUp,
         Plan, MoveDel, MoveAdd, MoveUndo, AddRoute, SaveAlways, Commit, Track, Abort
<1>2. /\ (Unrouting(m) => pc = "unroute") /\ (Restoring(m) => pc = "restoreAdd") /\ (Deleting(m) => pc = "restoreDel")
      /\ (Dropping(m) => pc = "dropState") /\ (Syncing(m) => pc = "sync")
      /\ (Leaving(m) => pc \in {"bearerDown", "stale", "forget"})
      /\ (Arriving(m) => pc \in {"bearerUp", "stale", "plan"})
      /\ (Moving(m) => pc \in {"moveDel", "moveAdd"}) /\ (Adding(m) => pc = "addRoute")
      /\ (Saving(m) => pc \in {"saveAlways", "commit"})
      /\ (Tracking(m) => pc \in {"plan", "saveAlways", "track"}) /\ (Reporting(m) => pc = "report")
  BY DEF Unrouting, Restoring, Deleting, Dropping, Syncing, Leaving, Arriving, Moving, Adding, Saving, Tracking, Reporting
<1> HIDE DEF pc
<1>3. Unrouting(m) => Unroute(m)
  BY <1>1, <1>2 DEF ModemStep
<1>4. Restoring(m) => RestoreAdd(m)
  BY <1>1, <1>2 DEF ModemStep
<1>5. Deleting(m) => RestoreDel(m)
  BY <1>1, <1>2 DEF ModemStep
<1>6. Dropping(m) => DropState(m)
  BY <1>1, <1>2 DEF ModemStep
<1>7. Syncing(m) => Sync(m)
  BY <1>1, <1>2 DEF ModemStep
<1>8. Leaving(m) => BearerDown(m) \/ LoadStale(m) \/ Forget(m)
  BY <1>1, <1>2 DEF ModemStep
<1>9. Arriving(m) => BearerUp(m) \/ LoadStale(m) \/ Plan(m)
  BY <1>1, <1>2 DEF ModemStep
<1>10. Moving(m) => MoveDel(m) \/ MoveAdd(m)
  BY <1>1, <1>2 DEF ModemStep
<1>11. Adding(m) => AddRoute(m)
  BY <1>1, <1>2 DEF ModemStep
<1>12. Saving(m) => SaveAlways(m) \/ Commit(m)
  BY <1>1, <1>2 DEF ModemStep
<1>13. Tracking(m) => Plan(m) \/ SaveAlways(m) \/ Track(m)
  BY <1>1, <1>2 DEF ModemStep
<1>14. Phase(m)
  BY DEF Busy
<1>15. Reporting(m) => Report(m)
  BY <1>1, <1>2 DEF ModemStep
<1> QED
  BY <1>15, <1>3, <1>4, <1>5, <1>6, <1>7, <1>8, <1>9, <1>10, <1>11, <1>12, <1>13, <1>14 DEF Phase

\* One step of the operation under way.
LEMMA SerialStep ==
  ASSUME OneAtATime, TypeOK, NEW m \in Modems, Busy(m), ModemStep(m)
  PROVE  Busy(m)' \/ Resting'
<1>1. CASE Unrouting(m) /\ Unroute(m)
  BY <1>1, SerialUnroute
<1>2. CASE Restoring(m) /\ RestoreAdd(m)
  BY <1>2, SerialRestoreAdd
<1>3. CASE Deleting(m) /\ RestoreDel(m)
  BY <1>3, SerialRestoreDel
<1>4. CASE Dropping(m) /\ DropState(m)
  BY <1>4, SerialDropState
<1>5. CASE Syncing(m) /\ Sync(m)
  BY <1>5, SerialSync
<1>6. CASE Leaving(m) /\ (BearerDown(m) \/ LoadStale(m) \/ Forget(m))
  BY <1>6, SerialBearerDown, SerialLoadStale, SerialForget
<1>7. CASE Arriving(m) /\ (BearerUp(m) \/ LoadStale(m) \/ Plan(m))
  BY <1>7, SerialBearerUp, SerialLoadStale, SerialPlan
<1>8. CASE Moving(m) /\ (MoveDel(m) \/ MoveAdd(m))
  BY <1>8, SerialMoveDel, SerialMoveAdd
<1>9. CASE Adding(m) /\ AddRoute(m)
  BY <1>9, SerialAddRoute
<1>10. CASE Saving(m) /\ (SaveAlways(m) \/ Commit(m))
  BY <1>10, SerialSaveAlways, SerialCommit
<1>11. CASE Tracking(m) /\ (Plan(m) \/ SaveAlways(m) \/ Track(m))
  BY <1>11, SerialPlanAgain, SerialSaveAlways, SerialTrack
<1>12. CASE Reporting(m) /\ Report(m)
  BY <1>12, SerialReport
<1> QED
  BY <1>1, <1>2, <1>3, <1>4, <1>5, <1>6, <1>7, <1>8, <1>9, <1>10, <1>11, <1>12, PhaseStep

\* An idle modem takes no step.
LEMMA IdleStays ==
  ASSUME NEW m \in Modems, op[m].pc = "idle"
  PROVE  ~ModemStep(m)
BY DEF ModemStep, Unroute, RestoreAdd, RestoreDel, DropState, Sync, BearerDown, LoadStale, Forget,
       BearerUp, Plan, MoveDel, MoveAdd, MoveUndo, AddRoute, SaveAlways, Commit, Track, Abort,
       Report, Forgotten

\* Without a connection there is nothing to find.
LEMMA SerialInit ==
  ASSUME OneAtATime, Init
  PROVE  SerialInv
<1>1. /\ kernel = HostRoutes /\ stored = [m \in Modems |-> NoEntry]
      /\ conns = [m \in Modems |-> Untracked] /\ bearer = [m \in Modems |-> FALSE]
      /\ op = [m \in Modems |-> NoOp] /\ booting = {}
  BY DEF Init
<1>2. KernelOf(conns) = HostRoutes
  <2>1. ASSUME NEW r PROVE r \in KernelOf(conns) <=> r \in HostRoutes
    BY <1>1, KernelHas DEF Untracked
  <2> QED
    BY <2>1
<1>3. Chained(conns)
  <2>1. \A n \in Modems : Shaped(conns, n) /\ Sound(conns, n) /\ Linked(conns, n)
    BY <1>1 DEF Untracked, Shaped, Sound, Linked
  <2>2. Distinct(conns) /\ Wins(conns, KernelOf(conns))
    BY <1>1 DEF Untracked, Distinct, Wins
  <2>3. Ranked(conns)
    <3> DEFINE rk == [n \in Modems |-> 0]
    <3>1. rk \in [Modems -> Nat] /\ RankedBy(conns, rk)
      BY <1>1 DEF Untracked, RankedBy
    <3> QED
      BY <3>1 DEF Ranked
  <2>4. Unique(HostRoutes)
    <3>1. \A r, s \in HostRoutes : r.fam = s.fam
      BY ConstantsAssumption DEF OneAtATime
    <3> QED
      BY <3>1, ConstantsAssumption DEF Unique
  <2> QED
    BY <1>2, <2>1, <2>2, <2>3, <2>4 DEF Chained
<1>4. OnRecord(conns, stored)
  BY <1>1 DEF OnRecord, Untracked, NoEntry
<1>5. \A n \in Modems : Quiet(n)
  BY <1>1 DEF Quiet, Up, Untracked, NoOp
<1> QED
  BY <1>1, <1>2, <1>3, <1>4, <1>5 DEF SerialInv, Resting, Settled

\* Every step leads from one of these states to another.
LEMMA SerialNext ==
  ASSUME OneAtATime, TypeOK, SerialInv, Next
  PROVE  SerialInv'
<1>1. booting = {} /\ ~(faults < MaxFaults) /\ ~(crashes < MaxCrashes)
  BY NoFault DEF SerialInv
<1>2. PICK m \in Modems : \/ Connect(m) \/ Disconnect(m) \/ Restore(m) \/ KeepAlive(m)
                          \/ Current(m) \/ ModemStep(m)
  BY <1>1 DEF Next, Recover, BearerLost, Restart
<1>3. booting' = {}
  BY <1>1, <1>2 DEF Connect, Disconnect, Restore, KeepAlive, Current, ModemStep, Unroute, RestoreAdd,
                    RestoreDel, DropState, Sync, BearerDown, LoadStale, Forget, BearerUp, Plan, MoveDel,
                    MoveAdd, MoveUndo, AddRoute, SaveAlways, Commit, Track, Abort, Report, Forgotten
<1>4. CASE Resting
  <2>1. ~ModemStep(m)
    BY <1>4, IdleStays DEF Resting, Quiet
  <2>2. Busy(m)'
    BY <1>2, <1>4, <2>1, SerialBegin
  <2> QED
    BY <1>3, <2>2 DEF SerialInv
<1>5. ASSUME NEW n \in Modems, Busy(n) PROVE SerialInv'
  <2>1. ~CanBegin(m)
    BY <1>5, NoneBegins
  <2>2. ModemStep(m)
    BY <1>2, <2>1 DEF Connect, Disconnect, Restore, KeepAlive, Current
  <2>3. n = m
    BY <1>5, <2>2, IdleStays DEF Busy, Quiet
  <2>4. Busy(m)' \/ Resting'
    BY <1>5, <2>2, <2>3, SerialStep
  <2> QED
    BY <1>3, <2>4 DEF SerialInv
<1> QED
  BY <1>4, <1>5 DEF SerialInv

\* The invariant is about the variables of the module.
LEMMA SerialStutter ==
  ASSUME SerialInv, UNCHANGED vars
  PROVE  SerialInv'
<1>1. UNCHANGED <<kernel, stored, conns, bearer, addrs, op, booting>>
  BY DEF vars, disk, memory, link
<1>2. ASSUME Resting PROVE Resting'
  BY <1>1, <1>2 DEF Resting, Settled, Chained, OnRecord, Quiet, Up
<1>3. ASSUME NEW m \in Modems, Busy(m) PROVE Busy(m)'
  <2>1. \A n \in Modems : n # m => Quiet(n)'
    BY <1>1, <1>3 DEF Busy, Quiet, Up
  <2>2. Cleaning(m) => Cleaning(m)'
    BY <1>1 DEF Cleaning, Chained
  <2>3. Undone(m)' = Undone(m)
    BY <1>1 DEF Undone
  <2>4. OnRecord(conns, stored) => OnRecord(conns, stored)'
    BY <1>1 DEF OnRecord
  <2>5. Left(m)' = Left(m) /\ Again(m)' = Again(m)
    BY <1>1 DEF Left, Again
  <2>6. After(m, op[m].added)' = After(m, op[m].added) /\ After(m, op[m].routes)' = After(m, op[m].routes)
    BY <1>1 DEF After
  <2>7. Unrouting(m) \/ Restoring(m) \/ Deleting(m) \/ Dropping(m) => Phase(m)'
    BY <1>1, <2>2, <2>3, <2>4 DEF Phase, Unrouting, Restoring, Deleting, Dropping
  <2>8. Syncing(m) => Phase(m)'
    BY <1>1, <2>2, <2>3, <2>5 DEF Phase, Syncing, OnRecord
  <2>9. Leaving(m) => Phase(m)'
    BY <1>1, <2>5 DEF Phase, Leaving, Settled, Chained, OnRecord
  <2>10. Arriving(m) => Phase(m)'
    BY <1>1 DEF Phase, Arriving, Settled, Chained, OnRecord
  <2>11. Moving(m) => Phase(m)'
    BY <1>1 DEF Phase, Moving, Plans, RecordedWith, Chained
  <2>12. Adding(m) \/ Saving(m) => Phase(m)'
    BY <1>1, <2>6 DEF Phase, Adding, Saving, Settled, Chained, OnRecord
  <2>13. Tracking(m) => Phase(m)'
    BY <1>1, <2>5 DEF Phase, Tracking, Settled, Chained, OnRecord
  <2>14. Reporting(m) => Phase(m)'
    BY <1>1 DEF Phase, Reporting, Settled, Chained, OnRecord
  <2> QED
    BY <1>3, <2>1, <2>7, <2>8, <2>9, <2>10, <2>11, <2>12, <2>13, <2>14 DEF Busy, Phase
<1> QED
  BY <1>1, <1>2, <1>3 DEF SerialInv

\* Between operations memory, database and kernel tell one story, and in the
\* middle of one each is where its next step expects it.
THEOREM Serial ==
  ASSUME OneAtATime
  PROVE  Spec => []SerialInv
<1>1. Init => SerialInv
  BY SerialInit
<1>2. TypeOK /\ SerialInv /\ [Next]_vars => SerialInv'
  BY SerialNext, SerialStutter
<1> QED
  BY <1>1, <1>2, TypeCorrect, PTL DEF Spec

\* At rest no operation is under way.
LEMMA RestingAtRest ==
  ASSUME SerialInv, AtRest
  PROVE  Resting
<1> SUFFICES ASSUME NEW m \in Modems, Busy(m) PROVE FALSE
  BY DEF SerialInv
<1> QED
  BY DEF AtRest, Busy, Phase, Unrouting, Restoring, Deleting, Dropping, Syncing, Leaving, Arriving,
         Moving, Adding, Saving, Tracking, Reporting

\* Connections that follow each other, in whatever order they took the default
\* route from each other and went away, leave the host's routes as they were
\* and no record (cleanupApplied, syncCleanedUpDefaultRouteState).
THEOREM AllRestoredInSeries ==
  ASSUME OneAtATime
  PROVE  Spec => []AllRestored
<1>1. SerialInv => AllRestored
  <2> SUFFICES ASSUME SerialInv, AtRest, \A m \in Modems : ~conns[m].tracked
               PROVE  kernel = HostRoutes /\ \A m \in Modems : ~stored[m].saved
    BY DEF AllRestored
  <2>1. Settled(conns, kernel, stored)
    BY RestingAtRest DEF Resting
  <2>2. \A m \in Modems : conns[m].routes = {} /\ conns[m].changes = {} /\ ~stored[m].saved
    BY <2>1, Newcomer
  <2>3. ASSUME NEW r PROVE r \in KernelOf(conns) <=> r \in HostRoutes
    BY <2>2, KernelHas
  <2>4. KernelOf(conns) = HostRoutes
    BY <2>3
  <2> QED
    BY <2>1, <2>2, <2>4 DEF Settled
<1> QED
  BY <1>1, Serial, PTL

\* The connection shown as the default route is the one the kernel prefers.
THEOREM DefaultWinsInSeries ==
  ASSUME OneAtATime
  PROVE  Spec => []DefaultWins
<1>1. SerialInv => DefaultWins
  <2> SUFFICES ASSUME SerialInv, AtRest PROVE DefaultWins
    BY DEF DefaultWins
  <2>1. Settled(conns, kernel, stored)
    BY RestingAtRest DEF Resting
  <2>2. Wins(conns, kernel)
    BY <2>1 DEF Settled, Chained
  <2> QED
    BY <2>2 DEF DefaultWins, Wins
<1> QED
  BY <1>1, Serial, PTL

\* recoverTrackedConnection would find in kernel and database what memory knows.
THEOREM RecoverReconstructsInSeries ==
  ASSUME OneAtATime
  PROVE  Spec => []RecoverReconstructs
<1>1. TypeOK /\ SerialInv => RecoverReconstructs
  <2> SUFFICES ASSUME TypeOK, SerialInv, AtRest, NEW m \in Modems, conns[m].tracked
               PROVE  /\ conns[m].routes = FoundRoutes(m)
                      /\ conns[m].changes = stored[m].changes
                      /\ conns[m].dflt = IsDefault(FoundRoutes(m))
    BY DEF RecoverReconstructs
  <2>1. Settled(conns, kernel, stored) /\ conns \in Conns
    BY RestingAtRest DEF Resting, TypeOK, Conns
  <2>2. /\ FoundRoutes(m) = conns[m].routes /\ conns[m].changes = stored[m].changes
        /\ IsDefault(FoundRoutes(m)) <=> conns[m].dflt
    BY <2>1, FoundIsKnown
  <2>3. conns[m].dflt \in BOOLEAN /\ IsDefault(FoundRoutes(m)) \in BOOLEAN
    BY <2>1 DEF Conns, Connection, IsDefault
  <2> QED
    BY <2>2, <2>3
<1> QED
  BY <1>1, Serial, TypeCorrect, PTL

\* In a table of connections every interface of the host has a route.
LEMMA HostHasRoute ==
  ASSUME OneAtATime, NEW cs \in Conns, Chained(cs), NEW w \in HostRoutes
  PROVE  \E r \in KernelOf(cs) : r.iface = w.iface /\ r.fam = w.fam
<1>1. CASE \E n \in Modems : \E c \in cs[n].changes : c.orig = w
  <2>0. PICK n \in Modems : \E c \in cs[n].changes : c.orig = w
    BY <1>1
  <2>1. PICK c \in cs[n].changes : c.orig = w
    BY <2>0
  <2>2. c.repl \in KernelOf(cs)
    BY <2>1, KernelHas
  <2>3. c.repl = Replaced(w, c.repl.metric)
    BY <2>1 DEF Chained, Sound, MovesDown
  <2>4. w \in [iface : Wans, fam : Families, metric : Nat]
    BY ConstantsAssumption
  <2>5. c.repl.iface = w.iface /\ c.repl.fam = w.fam
    BY <2>3, <2>4 DEF Replaced
  <2> QED
    BY <2>2, <2>5
<1>2. CASE ~\E n \in Modems : \E c \in cs[n].changes : c.orig = w
  <2>1. w \in KernelOf(cs)
    BY <1>2, KernelHas
  <2> QED
    BY <2>1
<1> QED
  BY <1>1, <1>2

\* A clean-up takes the routes of the host only to put better ones in.
LEMMA UndoneHasRoute ==
  ASSUME OneAtATime, TypeOK, NEW m \in Modems, Cleaning(m), NEW w \in HostRoutes
  PROVE  \E r \in Undone(m) : r.iface = w.iface /\ r.fam = w.fam
<1> DEFINE K == KernelOf(conns) \ conns[m].routes
           B == Behind(op[m])
<1>1. /\ conns \in Conns /\ Chained(conns) /\ op[m].done = conns[m].changes
      /\ B \subseteq conns[m].changes
  BY DEF TypeOK, Conns, Cleaning, Behind
<1>2. PICK r \in KernelOf(conns) : r.iface = w.iface /\ r.fam = w.fam
  BY <1>1, HostHasRoute
<1>3. r \notin conns[m].routes
  <2>1. w.iface \in Wans /\ w.iface \notin Modems
    BY ConstantsAssumption
  <2> QED
    BY <1>1, <1>2, <2>1, ChainFacts
<1>4. CASE \E c \in B : c.repl = r
  <2>1. PICK c \in B : c.repl = r
    BY <1>4
  <2>2. c.orig \in Route /\ r = Replaced(c.orig, r.metric)
    BY <1>1, <2>1, ChainFacts DEF Chained, Sound, MovesDown
  <2>3. c.orig.iface = w.iface /\ c.orig.fam = w.fam
    BY <1>2, <2>2 DEF Replaced, Route
  <2>4. c.orig \in Undone(m)
    BY <2>1 DEF Undone, Reverted
  <2> QED
    BY <2>3, <2>4
<1>5. CASE ~\E c \in B : c.repl = r
  <2>1. r \in Undone(m)
    BY <1>2, <1>3, <1>5 DEF Undone, Reverted
  <2> QED
    BY <1>2, <2>1
<1> QED
  BY <1>4, <1>5

\* In series and without failures a route of the host is in the kernel under
\* its own or a fallback metric, or the record of the takeover that is moving
\* it says how to put it back: in the middle of every operation too.
THEOREM NoRouteLostInSeries ==
  ASSUME OneAtATime
  PROVE  Spec => []NoRouteLost
<1>1. TypeOK /\ SerialInv => NoRouteLost
  <2> SUFFICES ASSUME TypeOK, SerialInv, NEW w \in HostRoutes
               PROVE  \/ \E r \in kernel : r.iface = w.iface /\ r.fam = w.fam
                      \/ \E m \in Modems : \E c \in stored[m].changes :
                           c.orig.iface = w.iface /\ c.orig.fam = w.fam
    BY DEF NoRouteLost
  <2>1. conns \in Conns /\ w.iface \notin Modems
    BY ConstantsAssumption DEF TypeOK, Conns
  <2>2. CASE Resting
    BY <2>1, <2>2, HostHasRoute DEF Resting, Settled
  <2>3. ASSUME NEW m \in Modems, Busy(m)
        PROVE  \/ \E r \in kernel : r.iface = w.iface /\ r.fam = w.fam
               \/ \E c \in stored[m].changes : c.orig.iface = w.iface /\ c.orig.fam = w.fam
    <3> DEFINE o == op[m]
    <3>1. Phase(m) /\ o \in Op
      BY <2>3 DEF Busy, TypeOK
    <3>2. CASE Restoring(m) \/ Deleting(m) \/ Dropping(m) \/ Syncing(m)
      <4>1. Cleaning(m) /\ Undone(m) \subseteq kernel
        BY <3>2 DEF Restoring, Deleting, Dropping, Syncing
      <4> QED
        BY <4>1, UndoneHasRoute
    <3>3. CASE Unrouting(m)
      BY <2>1, <3>3, HostHasRoute DEF Unrouting, Cleaning
    <3>4. CASE Leaving(m)
      <4>1. Left(m) \in Conns
        BY <2>1 DEF Left, Conns, Connection, Untracked
      <4> QED
        BY <3>4, <4>1, HostHasRoute DEF Leaving, Settled
    <3>5. CASE Arriving(m)
      BY <2>1, <3>5, HostHasRoute DEF Arriving, Settled
    <3>6. CASE Tracking(m)
      <4>1. Again(m) \in Conns
        BY <2>1, <3>1 DEF Again, Joining, Conns, Connection, Op
      <4> QED
        BY <3>6, <4>1, HostHasRoute DEF Tracking, Settled
    <3>7. ASSUME NEW R \in SUBSET Route PROVE After(m, R) \in Conns
      <4>1. Joining(o, R) \in Connection
        BY <3>1 DEF Joining, Connection, Op
      <4>2. o.done \in SUBSET Change /\ \A n \in Modems : conns[n] \in Connection
        BY <2>1, <3>1 DEF Op, Conns
      <4>3. \A n \in Modems : Rerouted(conns[n], o.done) \in Connection
        BY <4>2, ReroutedType
      <4> QED
        BY <4>1, <4>3 DEF After, Conns
    <3>8. CASE Saving(m)
      <4>1. After(m, o.added) \in Conns
        BY <3>1, <3>7 DEF Op
      <4> QED
        BY <3>8, <4>1, HostHasRoute DEF Saving, Settled
    <3>9. CASE Adding(m)
      <4>1. After(m, o.routes) \in Conns
        BY <3>1, <3>7 DEF Op
      <4>2. Settled(After(m, o.routes), kernel \cup o.routes, stored)
        BY <3>9 DEF Adding
      <4>3. PICK r \in kernel \cup o.routes : r.iface = w.iface /\ r.fam = w.fam
        BY <4>1, <4>2, HostHasRoute DEF Settled
      <4>4. After(m, o.routes)[m].routes = o.routes
        BY DEF After, Joining
      <4>5. r \notin o.routes
        BY <2>1, <4>1, <4>2, <4>3, <4>4, ChainFacts DEF Settled
      <4> QED
        BY <4>3, <4>5
    <3>10. CASE Moving(m)
      <4> DEFINE C == o.todo \cup o.done
      <4>1. /\ Chained(conns) /\ ~conns[m].tracked /\ Plans(m, C) /\ stored[m].changes = C
            /\ {e.orig : e \in {d \in o.todo : IsFirst(d, o.todo)}} \subseteq {e.orig : e \in C}
        BY <3>10 DEF Moving, RecordedWith
      <4>2. PICK r \in KernelOf(conns) : r.iface = w.iface /\ r.fam = w.fam
        BY <2>1, <4>1, HostHasRoute
      <4>3. CASE \E c \in C : c.orig = r
        BY <4>1, <4>2, <4>3
      <4>4. CASE ~\E c \in C : c.orig = r
        <5>1. r \in Applied(KernelOf(conns), o.done)
          BY <4>2, <4>4 DEF Applied
        <5>2. r \in kernel
          BY <3>10, <4>1, <4>4, <5>1 DEF Moving
        <5> QED
          BY <4>2, <5>2
      <4> QED
        BY <4>3, <4>4
    <3>11. CASE Reporting(m)
      BY <2>1, <3>11, HostHasRoute DEF Reporting, Settled
    <3> QED
      BY <3>1, <3>2, <3>3, <3>4, <3>5, <3>6, <3>8, <3>9, <3>10, <3>11 DEF Phase
  <2> QED
    BY <2>2, <2>3 DEF SerialInv
<1> QED
  BY <1>1, Serial, TypeCorrect, PTL

-----------------------------------------------------------------------------
(* Who took the default route from whom: the list the connections form. *)

\* In memory cs, p took the default route from n, or inherited that.
Took(cs, p, n) == cs[p].tracked /\ \E c \in cs[p].changes : c.orig.iface = n

\* The sequence s lists the modems H in the order in which they took the default
\* route, newest first: each took it from the next one and from no other, and
\* nobody took it from the first.
Lists(s, H, cs) ==
  /\ s \in Seq(Modems) /\ \A i, j \in DOMAIN s : s[i] = s[j] => i = j
  /\ H = {s[i] : i \in DOMAIN s}
  /\ \A i \in 1 .. Len(s) - 1 : Took(cs, s[i], s[i + 1])
  /\ \A p, n, q \in H : Took(cs, p, n) /\ Took(cs, p, q) => n = q
  /\ s # <<>> => \A p \in Modems : ~Took(cs, p, s[1])

\* The order of the naturals as a relation.
Less == {p \in Nat \X Nat : p[1] < p[2]}

\* A least index exists: what is needed of induction here.
LEMMA LessIsWellFounded == IsWellFoundedOn(Less, Nat)
BY NatLessThanWellFounded, Zenon DEF OpToRel, Less

\* A list determines the chain InternetRoutesStack reads off memory: there is no
\* other way to order its modems by who took the route from whom.
LEMMA OnlyList ==
  ASSUME NEW H, NEW cs, NEW s, Lists(s, H, cs),
         NEW X, X = {t \in SetToSeqs(H) : \A i \in 1 .. Len(t) - 1 : Took(cs, t[i], t[i + 1])}
  PROVE  s \in X /\ \A t \in X : t = s
<1> DEFINE n == Len(s)
<1>1. /\ s \in Seq(Modems) /\ n \in Nat /\ DOMAIN s = 1 .. n /\ H = {s[i] : i \in 1 .. n}
      /\ \A i, j \in 1 .. n : s[i] = s[j] => i = j
  BY DEF Lists
<1>2. s \in [1 .. n -> H]
  BY <1>1
<1>3. s \in Bijection(1 .. n, H)
  BY <1>1, <1>2 DEF Bijection, Injection, Surjection, IsInjective
<1>4. Cardinality(H) = n /\ IsFiniteSet(H)
  BY <1>1, <1>3, FS_CountingElements, FS_NatBijection DEF ExistsBijection
<1>5. s \in X
  BY <1>1, <1>2, <1>4 DEF SetToSeqs, Lists
<1>6. ASSUME NEW t \in X PROVE t = s
  <2>1. t \in [1 .. n -> H] /\ \A i, j \in 1 .. n : i # j => t[i] # t[j]
    BY <1>4 DEF SetToSeqs
  <2>2. t \in Injection(1 .. n, H)
    BY <2>1 DEF Injection, IsInjective
  <2>3. Cardinality(1 .. n) = n
    <3> HIDE DEF n
    <3>1. Cardinality(1 .. n) = IF 1 > n THEN 0 ELSE n - 1 + 1
      BY <1>1, FS_Interval
    <3> QED
      BY <1>1, <3>1
  <2>4. \A x \in H : \E i \in 1 .. n : t[i] = x
    BY <1>4, <2>2, <2>3, FS_Injection DEF Surjection
  <2>5. Len(t) = n
    BY <1>1, <2>1
  <2>6. \A i \in 1 .. n - 1 : Took(cs, t[i], t[i + 1]) /\ Took(cs, s[i], s[i + 1])
    BY <1>1, <2>5 DEF Lists
  <2>7. \A p, y, q \in H : Took(cs, p, y) /\ Took(cs, p, q) => y = q
    BY DEF Lists
  <2>8. n # 0 => t[1] = s[1]
    <3> SUFFICES ASSUME n # 0 PROVE t[1] = s[1]
      OBVIOUS
    <3>1. s # <<>> /\ \A p \in H : ~Took(cs, p, s[1])
      BY <1>1 DEF Lists
    <3>2. PICK i \in 1 .. n : t[i] = s[1]
      <4>1. s[1] \in H
        BY <1>1
      <4> QED
        BY <2>4, <4>1
    <3>3. CASE i = 1
      BY <3>2, <3>3
    <3>4. CASE i # 1
      <4>1. i - 1 \in 1 .. n - 1 /\ (i - 1) + 1 = i /\ t[i - 1] \in H
        BY <1>1, <2>1, <3>4
      <4> QED
        BY <2>6, <3>1, <3>2, <4>1
    <3> QED
      BY <3>3, <3>4
  <2> DEFINE D == {i \in 1 .. n : t[i] # s[i]}
  <2>9. D = {}
    <3> SUFFICES ASSUME D # {} PROVE FALSE
      OBVIOUS
    <3>1. PICK i \in D : \A j \in D : <<j, i>> \notin Less
      <4>1. D \subseteq Nat
        BY <1>1
      <4> HIDE DEF D
      <4> QED
        BY <4>1, LessIsWellFounded, WFMin
    <3>2. i \in 1 .. n /\ t[i] # s[i] /\ i # 1
      BY <2>8
    <3>3. i - 1 \in 1 .. n - 1 /\ i - 1 \in 1 .. n /\ (i - 1) + 1 = i
      BY <1>1, <3>2
    <3>4. t[i - 1] = s[i - 1]
      <4>1. <<i - 1, i>> \in Less
        BY <1>1, <3>2, <3>3 DEF Less
      <4>2. i - 1 \notin D
        BY <3>1, <4>1
      <4> QED
        BY <3>3, <4>2
    <3>5. t[i] \in H /\ s[i] \in H /\ t[i - 1] \in H
      BY <1>2, <2>1, <3>2, <3>3
    <3>6. Took(cs, t[i - 1], t[i]) /\ Took(cs, s[i - 1], s[i])
      BY <2>6, <3>3
    <3> QED
      BY <2>7, <3>2, <3>4, <3>5, <3>6
  <2> QED
    BY <1>2, <2>1, <2>9
<1> QED
  BY <1>5, <1>6

\* So the chain is the list, before a step and after it.
LEMMA ChainIs ==
  /\ \A s : Lists(s, Holders, conns) => Chain = s
  /\ \A s : Lists(s, Holders', conns') => Chain' = s
<1>1. ASSUME NEW s, Lists(s, Holders, conns) PROVE Chain = s
  <2>1. Chains = {t \in SetToSeqs(Holders) : \A i \in 1 .. Len(t) - 1 : Took(conns, t[i], t[i + 1])}
    BY DEF Chains, TookFrom, Took
  <2>2. s \in Chains /\ \A t \in Chains : t = s
    BY <1>1, <2>1, OnlyList
  <2> QED
    BY <2>2 DEF Chain
<1>2. ASSUME NEW s, Lists(s, Holders', conns') PROVE Chain' = s
  <2>1. Chains' = {t \in SetToSeqs(Holders') : \A i \in 1 .. Len(t) - 1 : Took(conns', t[i], t[i + 1])}
    BY DEF Chains, TookFrom, Took
  <2>2. s \in Chains' /\ \A t \in Chains' : t = s
    BY <1>2, <2>1, OnlyList
  <2> QED
    BY <2>2 DEF Chain
<1> QED
  BY <1>1, <1>2

\* Who takes the route from the first modem of a list is the first of the next.
LEMMA Pushed ==
  ASSUME NEW s, NEW H, NEW cs, Lists(s, H, cs), NEW m \in Modems, m \notin H, NEW cs2,
         \A p, n \in H : Took(cs, p, n) => Took(cs2, p, n),
         \A p, n, q \in H \cup {m} : Took(cs2, p, n) /\ Took(cs2, p, q) => n = q,
         \A p \in Modems : ~Took(cs2, p, m),
         s # <<>> => Took(cs2, m, s[1])
  PROVE  Lists(<<m>> \o s, H \cup {m}, cs2)
<1> DEFINE t == <<m>> \o s
           k == Len(s)
<1>1. /\ s \in Seq(Modems) /\ k \in Nat /\ DOMAIN s = 1 .. k /\ H = {s[i] : i \in 1 .. k}
      /\ \A i, j \in 1 .. k : s[i] = s[j] => i = j
      /\ \A i \in 1 .. k - 1 : Took(cs, s[i], s[i + 1])
  BY DEF Lists
<1>2. t \in Seq(Modems) /\ Len(t) = k + 1 /\ DOMAIN t = 1 .. k + 1
      /\ t[1] = m /\ \A i \in 2 .. k + 1 : t[i] = s[i - 1]
  <2>1. <<m>> \in Seq(Modems) /\ Len(<<m>>) = 1 /\ <<m>>[1] = m
    OBVIOUS
  <2>2. t \in Seq(Modems) /\ Len(t) = 1 + k
        /\ \A i \in 1 .. 1 + k : t[i] = IF i <= 1 THEN <<m>>[i] ELSE s[i - 1]
    <3> HIDE DEF k
    <3>1. <<m>> \o s \in Seq(Modems) /\ Len(<<m>> \o s) = 1 + Len(s)
          /\ \A i \in 1 .. 1 + Len(s) : (<<m>> \o s)[i] = IF i <= 1 THEN <<m>>[i] ELSE s[i - 1]
      BY <1>1, <2>1, ConcatProperties
    <3> QED
      BY <3>1 DEF k
  <2> HIDE DEF t, k
  <2> QED
    BY <1>1, <2>1, <2>2
<1> HIDE DEF t, k
<1>3. \A i, j \in 1 .. k + 1 : t[i] = t[j] => i = j
  <2>1. \A i \in 1 .. k + 1 : i = 1 \/ (i - 1 \in 1 .. k /\ t[i] = s[i - 1] /\ t[i] \in H)
    BY <1>1, <1>2
  <2> QED
    BY <1>1, <1>2, <2>1
<1>4. H \cup {m} = {t[i] : i \in 1 .. k + 1}
  <2>1. \A i \in 1 .. k : i + 1 \in 1 .. k + 1 /\ t[i + 1] = s[i]
    BY <1>1, <1>2
  <2>2. \A i \in 1 .. k + 1 : i = 1 \/ (i - 1 \in 1 .. k /\ t[i] = s[i - 1])
    BY <1>1, <1>2
  <2>3. 1 \in 1 .. k + 1
    BY <1>1
  <2> QED
    BY <1>1, <1>2, <2>1, <2>2, <2>3
<1>5. ASSUME NEW i \in 1 .. k PROVE Took(cs2, t[i], t[i + 1])
  <2>1. t[i + 1] = s[i] /\ s[i] \in H
    BY <1>1, <1>2
  <2>2. CASE i = 1
    <3>1. s # <<>>
      BY <1>1, <2>2 DEF k
    <3> QED
      BY <1>2, <2>1, <2>2, <3>1
  <2>3. CASE i # 1
    <3>1. i - 1 \in 1 .. k - 1 /\ i - 1 \in 1 .. k /\ (i - 1) + 1 = i /\ t[i] = s[i - 1]
      BY <1>1, <1>2, <2>3
    <3>2. s[i - 1] \in H /\ Took(cs, s[i - 1], s[i])
      BY <1>1, <3>1
    <3> QED
      BY <2>1, <3>1, <3>2
  <2> QED
    BY <2>2, <2>3
<1>6. Len(t) - 1 = k
  BY <1>1, <1>2
<1>7. \A p, n, q \in H \cup {m} : Took(cs2, p, n) /\ Took(cs2, p, q) => n = q
  OBVIOUS
<1>8. Lists(t, H \cup {m}, cs2)
  BY <1>2, <1>3, <1>4, <1>5, <1>6, <1>7 DEF Lists
<1> QED
  BY <1>8 DEF t

\* A modem leaves a list when the one before it takes over what it had taken.
LEMMA Dropped ==
  ASSUME NEW s, NEW H, NEW cs, Lists(s, H, cs), NEW i \in 1 .. Len(s), NEW cs2,
         \A p, n \in H \ {s[i]} : Took(cs, p, n) => Took(cs2, p, n),
         \A p, n, q \in H \ {s[i]} : Took(cs2, p, n) /\ Took(cs2, p, q) => n = q,
         i > 1 /\ i < Len(s) => Took(cs2, s[i - 1], s[i + 1]),
         i > 1 => \A p \in Modems : ~Took(cs2, p, s[1]),
         i = 1 /\ Len(s) > 1 => \A p \in Modems : ~Took(cs2, p, s[2])
  PROVE  Lists(RemoveAt(s, i), H \ {s[i]}, cs2)
<1> DEFINE t == RemoveAt(s, i)
           k == Len(s)
<1>1. /\ s \in Seq(Modems) /\ k \in Nat /\ DOMAIN s = 1 .. k /\ H = {s[j] : j \in 1 .. k}
      /\ \A j, l \in 1 .. k : s[j] = s[l] => j = l
      /\ \A j \in 1 .. k - 1 : Took(cs, s[j], s[j + 1])
      /\ k = Len(s) /\ i \in 1 .. k
  BY DEF Lists
<1>0. k \in Nat /\ i \in Int /\ 1 <= i /\ i <= k
  BY <1>1
<1>2. t \in Seq(Modems) /\ Len(t) = k - 1 /\ DOMAIN t = 1 .. k - 1
      /\ \A j \in 1 .. k - 1 : t[j] = IF j < i THEN s[j] ELSE s[j + 1]
  <2> DEFINE u == SubSeq(s, 1, i - 1)
             v == SubSeq(s, i + 1, k)
  <2>1. u \in Seq(Modems) /\ Len(u) = i - 1 /\ \A j \in 1 .. i - 1 : u[j] = s[j]
    <3> HIDE DEF k
    <3>1. 1 \in Int /\ i - 1 \in Int /\ \A j \in 1 .. i - 1 : s[j] \in Modems
      BY <1>1, ElementOfSeq
    <3>2. /\ SubSeq(s, 1, i - 1) \in Seq(Modems)
          /\ Len(SubSeq(s, 1, i - 1)) = IF 1 <= i - 1 THEN i - 1 - 1 + 1 ELSE 0
          /\ \A j \in 1 .. i - 1 - 1 + 1 : SubSeq(s, 1, i - 1)[j] = s[1 + j - 1]
      BY <3>1, SubSeqProperties
    <3> QED
      BY <1>1, <3>2
  <2>2. v \in Seq(Modems) /\ Len(v) = k - i /\ \A j \in 1 .. k - i : v[j] = s[i + j]
    <3> HIDE DEF k
    <3>1. i + 1 \in Int /\ k \in Int /\ \A j \in i + 1 .. k : s[j] \in Modems
      BY <1>1, ElementOfSeq
    <3>2. /\ SubSeq(s, i + 1, k) \in Seq(Modems)
          /\ Len(SubSeq(s, i + 1, k)) = IF i + 1 <= k THEN k - (i + 1) + 1 ELSE 0
          /\ \A j \in 1 .. k - (i + 1) + 1 : SubSeq(s, i + 1, k)[j] = s[i + 1 + j - 1]
      BY <3>1, SubSeqProperties
    <3>3. k - (i + 1) + 1 = k - i /\ \A j \in 1 .. k - i : i + 1 + j - 1 = i + j
      BY <1>0
    <3>4. (IF i + 1 <= k THEN k - (i + 1) + 1 ELSE 0) = k - i
      BY <1>0
    <3> QED
      BY <3>2, <3>3, <3>4
  <2>3. t = u \o v
    BY DEF RemoveAt
  <2> HIDE DEF u, v, t, k
  <2>0. u \in Seq(Modems) /\ v \in Seq(Modems)
    BY <2>1, <2>2
  <2>4. u \o v \in Seq(Modems) /\ Len(u \o v) = Len(u) + Len(v)
        /\ \A j \in 1 .. Len(u) + Len(v) : (u \o v)[j] = IF j <= Len(u) THEN u[j] ELSE v[j - Len(u)]
    BY <2>0, ConcatProperties
  <2>5. Len(u) + Len(v) = k - 1
    BY <1>1, <2>1, <2>2
  <2>6. ASSUME NEW j \in 1 .. k - 1 PROVE t[j] = IF j < i THEN s[j] ELSE s[j + 1]
    <3>1. CASE j < i
      BY <1>1, <2>1, <2>3, <2>4, <2>5, <3>1
    <3>2. CASE ~(j < i)
      <4>0. j \in Int /\ 1 <= j /\ j <= k - 1 /\ i <= j
        BY <1>0, <3>2
      <4>1. j - (i - 1) \in 1 .. k - i /\ i + (j - (i - 1)) = j + 1
        BY <1>0, <4>0
      <4> QED
        BY <1>1, <2>1, <2>2, <2>3, <2>4, <2>5, <3>2, <4>1
    <3> QED
      BY <3>1, <3>2
  <2>7. Len(t) = k - 1 /\ t \in Seq(Modems)
    BY <2>3, <2>4, <2>5
  <2> QED
    BY <2>6, <2>7
<1> HIDE DEF t, k
<1>3. \A j, l \in 1 .. k - 1 : t[j] = t[l] => j = l
  <2> SUFFICES ASSUME NEW j \in 1 .. k - 1, NEW l \in 1 .. k - 1, t[j] = t[l] PROVE j = l
    OBVIOUS
  <2> DEFINE a(x) == IF x < i THEN x ELSE x + 1
  <2>1. a(j) \in 1 .. k /\ a(l) \in 1 .. k /\ t[j] = s[a(j)] /\ t[l] = s[a(l)]
    BY <1>1, <1>2
  <2>2. a(j) = a(l)
    BY <1>1, <2>1
  <2> QED
    BY <1>1, <2>2
<1>4. H \ {s[i]} = {t[j] : j \in 1 .. k - 1}
  <2>1. ASSUME NEW j \in 1 .. k - 1 PROVE t[j] \in H \ {s[i]}
    BY <1>1, <1>2
  <2>2. ASSUME NEW x \in H \ {s[i]} PROVE \E j \in 1 .. k - 1 : t[j] = x
    <3>1. PICK l \in 1 .. k : s[l] = x /\ l # i
      BY <1>1
    <3>2. CASE l < i
      BY <1>1, <1>2, <3>1, <3>2
    <3>3. CASE l > i
      <4>1. l - 1 \in 1 .. k - 1 /\ ~(l - 1 < i) /\ (l - 1) + 1 = l
        BY <1>1, <3>3
      <4> QED
        BY <1>2, <3>1, <4>1
    <3> QED
      BY <1>1, <3>1, <3>2, <3>3
  <2> QED
    BY <2>1, <2>2
<1>5. ASSUME NEW j \in 1 .. k - 2 PROVE Took(cs2, t[j], t[j + 1])
  <2>1. j \in 1 .. k - 1 /\ j + 1 \in 1 .. k - 1 /\ t[j] \in H \ {s[i]} /\ t[j + 1] \in H \ {s[i]}
    <3>1. j \in 1 .. k - 1 /\ j + 1 \in 1 .. k - 1
      BY <1>0
    <3> QED
      BY <1>4, <3>1
  <2>2. CASE j + 1 < i
    <3>1. t[j] = s[j] /\ t[j + 1] = s[j + 1]
      BY <1>1, <1>2, <2>1, <2>2
    <3> QED
      BY <1>1, <2>1, <3>1
  <2>3. CASE j >= i
    <3>1. t[j] = s[j + 1] /\ t[j + 1] = s[(j + 1) + 1] /\ j + 1 \in 1 .. k - 1
      BY <1>1, <1>2, <2>1, <2>3
    <3> QED
      BY <1>1, <2>1, <3>1
  <2>4. CASE j + 1 = i
    <3>1. t[j] = s[i - 1] /\ t[j + 1] = s[i + 1] /\ i > 1 /\ i < k
      BY <1>1, <1>2, <2>1, <2>4
    <3> QED
      BY <3>1 DEF k
  <2> QED
    BY <1>1, <2>2, <2>3, <2>4
<1>6. ASSUME t # <<>>, NEW p \in Modems PROVE ~Took(cs2, p, t[1])
  <2>1. 1 \in 1 .. k - 1 /\ k > 1
    BY <1>1, <1>2, <1>6
  <2>2. t[1] = IF 1 < i THEN s[1] ELSE s[2]
    BY <1>2, <2>1
  <2> QED
    BY <1>1, <2>1, <2>2 DEF k
<1>7. Len(t) - 1 = k - 2
  BY <1>1, <1>2
<1>8. Lists(t, H \ {s[i]}, cs2)
  BY <1>2, <1>3, <1>4, <1>5, <1>6, <1>7 DEF Lists
<1> QED
  BY <1>8 DEF t

\* The holders as memory alone tells them, while nobody is about to be tracked.
HeldIn(cs) ==
  {n \in Modems : cs[n].tracked /\ (cs[n].dflt \/ \E p \in Modems : Took(cs, p, n))}

\* The monitor is about to track what is tracked already.
Same(m) == conns[m].tracked /\ conns[m].changes = op[m].done /\ conns[m].dflt = op[m].dflt

\* The plan moves the route of the default connection, if there is one.
TakesTop(m) ==
  /\ Chained(conns)
  /\ IF op[m].dflt THEN \A n \in Modems : conns[n].dflt <=> \E c \in op[m].done : c.orig.iface = n
     ELSE op[m].done = {}

\* Nobody took the route from a modem that is about to be tracked.
TakesNone(m) ==
  /\ ~conns[m].tracked /\ \A p \in Modems : ~Took(conns, p, m)
  /\ ~op[m].dflt => op[m].done = {}

\* Before a connection goes, who it took the route from has it back, or somebody
\* else took that over.
Gives(m) ==
  \A c \in conns[m].changes, n \in Modems : c.orig.iface = n =>
    /\ n # m
    /\ IF conns[m].dflt THEN conns[n].dflt ELSE \E p \in Modems \ {m} : Took(conns, p, n)

\* What the order of the holders depends on at each step of an operation.
Known(m) ==
  /\ op[m].kind = "keep" /\ op[m].pc \in {"plan", "saveAlways", "track"} => Same(m)
  /\ op[m].kind = "connect" /\ op[m].pc \in {"addRoute", "saveAlways", "commit"} => TakesTop(m)
  /\ op[m].kind = "connect" /\ op[m].pc = "track" => TakesNone(m)
  /\ op[m].pc = "track" => op[m].kind \in {"connect", "keep"}
  /\ op[m].pc \in {"bearerDown", "stale", "forget"} /\ conns[m].tracked => Gives(m)

\* The holders form a list.
InOrder == \E s : Lists(s, Holders, conns)

\* The invariant under the refinement, next to SerialInv.
Ordered == InOrder /\ \A m \in Modems : Known(m)

\* In a chain of connections, who took the route from whom is a single change,
\* and the one it was taken from is tracked and not the default route.
LEMMA TookFacts ==
  ASSUME OneAtATime, NEW cs \in Conns, Chained(cs), NEW p \in Modems, NEW n \in Modems, Took(cs, p, n)
  PROVE  /\ p # n /\ cs[p].tracked /\ cs[n].tracked /\ ~cs[n].dflt
         /\ \E c \in cs[p].changes : /\ cs[p].changes = {c} /\ cs[n].routes = {c.repl}
                                     /\ c.orig = OwnRoute(n, DefaultRouteMetric) /\ c.orig.iface = n
         /\ \A q \in Modems : Took(cs, p, q) => n = q
<1>1. PICK c \in cs[p].changes : c.orig.iface = n
  BY DEF Took
<1>2. n \notin Wans
  BY ConstantsAssumption
<1>3. ModemMove(cs, p, c, n) /\ c.repl.metric > DefaultRouteMetric
  BY <1>1, <1>2, ChainFacts
<1>4. cs[n].tracked /\ ~cs[n].dflt
  <2>1. c.repl \in cs[n].routes
    BY <1>3 DEF ModemMove
  <2> QED
    BY <1>3, <2>1, ChainFacts DEF DefaultRouteMetric
<1>5. ASSUME NEW q \in Modems, Took(cs, p, q) PROVE n = q
  BY <1>1, <1>3, <1>5 DEF Took, ModemMove
<1> QED
  BY <1>1, <1>3, <1>4, <1>5 DEF ModemMove, Took

\* While nobody is about to be tracked, memory alone tells the holders.
LEMMA HoldersAre ==
  /\ (\A p \in Modems : op[p].pc # "track") => Holders = HeldIn(conns)
  /\ (\A p \in Modems : op'[p].pc # "track") => Holders' = HeldIn(conns')
BY DEF Holders, HeldIn, TookFrom, Taking, Took

\* A step that neither changes the holders nor who took what keeps the chain.
LEMMA SameList ==
  ASSUME InOrder, Holders' = Holders,
         \A p, n \in Holders : Took(conns', p, n) <=> Took(conns, p, n),
         \A p \in Modems, n \in Holders : Took(conns', p, n) => Took(conns, p, n)
  PROVE  InOrder' /\ Chain' = Chain
<1>1. PICK s : Lists(s, Holders, conns)
  BY DEF InOrder
<1>2. \A i \in DOMAIN s : s[i] \in Holders
  BY <1>1 DEF Lists
<1>3. s \in Seq(Modems) /\ Len(s) \in Nat /\ DOMAIN s = 1 .. Len(s)
  BY <1>1 DEF Lists
<1>4. \A i \in 1 .. Len(s) - 1 : i \in DOMAIN s /\ i + 1 \in DOMAIN s
  BY <1>3
<1>5. s # <<>> => s[1] \in Holders
  BY <1>2, <1>3
<1>6. \A i \in 1 .. Len(s) - 1 : Took(conns', s[i], s[i + 1])
  BY <1>1, <1>2, <1>4 DEF Lists
<1>7. Lists(s, Holders, conns')
  BY <1>1, <1>5, <1>6 DEF Lists
<1>8. Chain = s /\ Chain' = s
  BY <1>1, <1>7, ChainIs
<1> QED
  BY <1>7, <1>8 DEF InOrder

\* Neither does a step that leaves the connections in memory as they are.
LEMMA Undisturbed ==
  ASSUME InOrder, NEW m \in Modems, \A n \in Modems : n # m => op[n].pc = "idle" /\ op'[n].pc = "idle",
         \A n \in Modems : /\ conns'[n].tracked = conns[n].tracked /\ conns'[n].dflt = conns[n].dflt
                           /\ conns'[n].changes = conns[n].changes,
         op[m].pc = "track" => Same(m), op'[m].pc = "track" => Same(m)', Known(m)'
  PROVE  Ordered' /\ Chain' = Chain
<1>1. \A p, n \in Modems : Took(conns', p, n) <=> Took(conns, p, n)
  BY DEF Took
<1>2. Holders = HeldIn(conns)
  <2>1. \A p, n \in Modems : Taking(p, n) => Took(conns, p, n)
    BY DEF Taking, Took, Same
  <2> QED
    BY <2>1 DEF Holders, HeldIn, TookFrom, Took
<1>3. Holders' = HeldIn(conns')
  <2>1. \A p, n \in Modems : Taking(p, n)' => Took(conns', p, n)
    BY DEF Taking, Took, Same
  <2> QED
    BY <2>1 DEF Holders, HeldIn, TookFrom, Took
<1>4. Holders' = Holders /\ Holders \subseteq Modems
  BY <1>1, <1>2, <1>3 DEF HeldIn
<1>5. InOrder' /\ Chain' = Chain
  BY <1>1, <1>4, SameList
<1>6. \A n \in Modems : n # m => Known(n)'
  BY DEF Known
<1> QED
  BY <1>5, <1>6 DEF Ordered

\* A planned takeover moves the route of the default connection and of no other.
LEMMA PlanTakesTop ==
  ASSUME OneAtATime, conns \in Conns, Chained(conns), NEW m \in Modems, ~conns[m].tracked,
         NEW C, Plans(m, C)
  PROVE  \A n \in Modems : conns[n].dflt <=> \E c \in C : c.orig.iface = n
<1> DEFINE K   == KernelOf(conns)
           own == OwnRoute(m, DefaultRouteMetric)
<1>1. K \subseteq Route /\ Unique(K)
  BY KernelFacts DEF Chained
<1>2. /\ \A c \in C : c.orig \in K /\ MovesDown(c)
      /\ \A r \in K : r.metric <= DefaultRouteMetric /\ r # own => \E c \in C : c.orig = r
  BY <1>1, PlanOf DEF Plans
<1>3. ASSUME NEW n \in Modems, conns[n].dflt PROVE \E c \in C : c.orig.iface = n
  <2>1. conns[n].tracked /\ n # m
    BY <1>3, ChainFacts
  <2>2. PICK r \in conns[n].routes : r.iface = n /\ r.metric = DefaultRouteMetric
    BY <1>3, <2>1, ChainFacts
  <2>3. r \in K /\ r # own
    BY <2>1, <2>2, KernelHas DEF OwnRoute
  <2>4. r.metric <= DefaultRouteMetric
    BY <2>2 DEF DefaultRouteMetric
  <2> QED
    BY <1>2, <2>2, <2>3, <2>4
<1>4. ASSUME NEW n \in Modems, NEW c \in C, c.orig.iface = n PROVE conns[n].dflt
  <2>1. c.orig \in K /\ c.orig.metric <= DefaultRouteMetric
    BY <1>2 DEF MovesDown
  <2>2. c.orig \notin HostRoutes
    BY <1>4, ConstantsAssumption
  <2>3. PICK h \in Modems : conns[h].dflt /\ c.orig \in conns[h].routes
    BY <2>1, <2>2, KernelFacts
  <2> QED
    BY <1>4, <2>3, ChainFacts
<1> QED
  BY <1>3, <1>4

\* While m is busy, a step of m changes nobody else's operation.
LEMMA OthersIdle ==
  ASSUME TypeOK, NEW m \in Modems, Busy(m), NEW o, op' = [op EXCEPT ![m] = o]
  PROVE  op'[m] = o /\ \A n \in Modems : n # m => op[n].pc = "idle" /\ op'[n].pc = "idle"
BY DEF Busy, Quiet, TypeOK

-----------------------------------------------------------------------------
(* The steps of an operation, as the stack sees them. *)

\* Deleting routes, restoring routes and dropping the record are not seen.
LEMMA OrderedCleaning ==
  ASSUME OneAtATime, TypeOK, Ordered, NEW m \in Modems, Busy(m), Cleaning(m),
         Unroute(m) \/ RestoreAdd(m) \/ RestoreDel(m) \/ DropState(m)
  PROVE  Ordered' /\ Chain' = Chain
<1> DEFINE pcs == {"unroute", "restoreAdd", "restoreDel", "dropState", "sync"}
<1>1. op[m] \in Op /\ op[m].kind \in {"connect", "disconnect", "restore"} /\ op[m].ret = "sync" /\ ~op[m].err
  BY DEF TypeOK, Cleaning
<1>2. \A n : UnroutePC(n) \in pcs /\ RestorePC(n) \in pcs
  BY DEF UnroutePC, RestorePC
<1>3. \E o : o.kind = op[m].kind /\ o.pc \in pcs /\ op' = [op EXCEPT ![m] = o]
  <2>1. CASE Unroute(m)
    <3>1. PICK n \in Op, p \in pcs : n.kind = op[m].kind /\ op' = [op EXCEPT ![m] = [n EXCEPT !.pc = p]]
      <4>1. PICK ok \in Outcomes, r \in op[m].routes :
              LET stop == ~ok /\ op[m].ret \in {"forget", "plan"}
                  n    == [op[m] EXCEPT !.routes = op[m].routes \ {r}, !.err = @ \/ ~ok,
                                        !.kept = @ \/ (~ok /\ (stop \/ op[m].todo = {})),
                                        !.todo = IF stop THEN {} ELSE @]
              IN  op' = [op EXCEPT ![m] = [n EXCEPT !.pc = UnroutePC(n)]]
        BY <2>1 DEF Unroute, Goto
      <4> DEFINE n == [op[m] EXCEPT !.routes = op[m].routes \ {r}, !.err = @ \/ ~ok,
                                    !.kept = @ \/ (~ok /\ (FALSE \/ op[m].todo = {})), !.todo = @]
      <4>2. n \in Op /\ n.kind = op[m].kind
        BY <1>1 DEF Op
      <4>3. op' = [op EXCEPT ![m] = [n EXCEPT !.pc = UnroutePC(n)]]
        BY <1>1, <4>1
      <4> HIDE DEF n
      <4> QED
        BY <1>2, <4>2, <4>3
    <3> QED
      BY <3>1 DEF Op, PCs
  <2>2. CASE RestoreAdd(m)
    <3>1. PICK ok \in Outcomes, c \in op[m].todo :
            LET done == ok /\ Restorable(c.orig)
                n    == [op[m] EXCEPT !.todo = @ \ {c}, !.err = TRUE, !.kept = TRUE]
            IN  op' = [op EXCEPT ![m] = IF done THEN [op[m] EXCEPT !.pc = "restoreDel"]
                                        ELSE [n EXCEPT !.pc = RestorePC(n)]]
      BY <2>2 DEF RestoreAdd, Goto
    <3> DEFINE n == [op[m] EXCEPT !.todo = @ \ {c}, !.err = TRUE, !.kept = TRUE]
    <3>2. n \in Op /\ n.kind = op[m].kind
      BY <1>1 DEF Op
    <3>3. [op[m] EXCEPT !.pc = "restoreDel"].kind = op[m].kind /\ [op[m] EXCEPT !.pc = "restoreDel"].pc = "restoreDel"
      BY <1>1 DEF Op
    <3> HIDE DEF n
    <3>4. [n EXCEPT !.pc = RestorePC(n)].kind = op[m].kind /\ [n EXCEPT !.pc = RestorePC(n)].pc = RestorePC(n)
      BY <3>2 DEF Op
    <3> QED
      BY <1>2, <3>1, <3>3, <3>4 DEF n
  <2>3. CASE RestoreDel(m)
    <3>1. PICK ok \in Outcomes, c \in op[m].todo :
            LET n == [op[m] EXCEPT !.todo = @ \ {c}, !.err = @ \/ ~ok, !.kept = @ \/ ~ok]
            IN  op' = [op EXCEPT ![m] = [n EXCEPT !.pc = RestorePC(n)]]
      BY <2>3 DEF RestoreDel, Goto
    <3> DEFINE n == [op[m] EXCEPT !.todo = @ \ {c}, !.err = @ \/ ~ok, !.kept = @ \/ ~ok]
    <3>2. n \in Op /\ n.kind = op[m].kind
      BY <1>1 DEF Op
    <3> HIDE DEF n
    <3>3. [n EXCEPT !.pc = RestorePC(n)].kind = op[m].kind /\ [n EXCEPT !.pc = RestorePC(n)].pc = RestorePC(n)
      BY <3>2 DEF Op
    <3> QED
      BY <1>2, <3>1, <3>3 DEF n
  <2>4. CASE DropState(m)
    <3>1. PICK ok \in Outcomes :
            LET bad  == op[m].err \/ ~ok
                next == CASE bad /\ op[m].ret = "plan" -> "abort"
                          [] bad /\ op[m].ret = "sync" /\ op[m].kind = "current" -> "stale"
                          [] bad /\ op[m].ret = "sync" /\ op[m].kind # "current" -> "bearerDown"
                          [] OTHER -> op[m].ret
                n    == [op[m] EXCEPT !.pc = next, !.failed = @ \/ bad]
            IN  op' = [op EXCEPT ![m] = IF next = "stale" THEN Stale(n, "forget") ELSE n]
      BY <2>4 DEF DropState, Goto
    <3>2. ok
      BY NoFault
    <3>3. op' = [op EXCEPT ![m] = [op[m] EXCEPT !.pc = "sync", !.failed = @ \/ FALSE]]
      BY <1>1, <3>1, <3>2
    <3>4. [op[m] EXCEPT !.pc = "sync", !.failed = @ \/ FALSE].kind = op[m].kind
          /\ [op[m] EXCEPT !.pc = "sync", !.failed = @ \/ FALSE].pc = "sync"
      BY <1>1 DEF Op
    <3> QED
      BY <3>3, <3>4
  <2> QED
    BY <2>1, <2>2, <2>3, <2>4
<1>4. PICK o : o.kind = op[m].kind /\ o.pc \in pcs /\ op' = [op EXCEPT ![m] = o]
  BY <1>3
<1>5. op'[m] = o /\ \A n \in Modems : n # m => op[n].pc = "idle" /\ op'[n].pc = "idle"
  BY <1>4, OthersIdle
<1>6. conns' = conns /\ op[m].pc # "track"
  BY DEF Unroute, RestoreAdd, RestoreDel, DropState, memory
<1>7. Known(m)' /\ op'[m].pc # "track"
  BY <1>1, <1>4, <1>5 DEF Known
<1> QED
  BY <1>5, <1>6, <1>7, Undisturbed DEF Ordered

\* Neither is the bearer going down (BearerDown, LoadStale).
LEMMA OrderedLeaving ==
  ASSUME OneAtATime, TypeOK, Ordered, NEW m \in Modems, Busy(m), Leaving(m), BearerDown(m) \/ LoadStale(m)
  PROVE  Ordered' /\ Chain' = Chain
<1>1. op[m] \in Op /\ op[m].kind \in {"connect", "disconnect", "restore", "current"}
      /\ (op[m].pc = "stale" => op[m].ret = "forget") /\ op[m].pc \in {"bearerDown", "stale"}
  BY DEF TypeOK, Leaving, BearerDown, LoadStale
<1>2. \E o : o.kind = op[m].kind /\ o.pc \in {"stale", "forget"} /\ op' = [op EXCEPT ![m] = o]
  <2>1. CASE BearerDown(m)
    <3>1. PICK ok \in Outcomes : op' = [op EXCEPT ![m] = Stale([op[m] EXCEPT !.failed = @ \/ ~ok], "forget")]
      BY <2>1 DEF BearerDown, Goto
    <3>2. Stale([op[m] EXCEPT !.failed = @ \/ ~ok], "forget").kind = op[m].kind
          /\ Stale([op[m] EXCEPT !.failed = @ \/ ~ok], "forget").pc = "stale"
      BY <1>1 DEF Stale, Op
    <3> QED
      BY <3>1, <3>2
  <2>2. CASE LoadStale(m)
    <3>1. ~stored[m].saved
      <4>1. Left(m)[m].changes = {}
        BY DEF Left, TypeOK, Untracked
      <4> QED
        BY <4>1 DEF Leaving, Settled, OnRecord
    <3>2. op' = [op EXCEPT ![m] = [op[m] EXCEPT !.pc = op[m].ret]]
      BY <2>2, <3>1, NoFault DEF LoadStale, Goto
    <3>3. [op[m] EXCEPT !.pc = op[m].ret].kind = op[m].kind /\ [op[m] EXCEPT !.pc = op[m].ret].pc = "forget"
      BY <1>1, <2>2 DEF Op, LoadStale
    <3> QED
      BY <3>2, <3>3
  <2> QED
    BY <2>1, <2>2
<1>3. PICK o : o.kind = op[m].kind /\ o.pc \in {"stale", "forget"} /\ op' = [op EXCEPT ![m] = o]
  BY <1>2
<1>4. op'[m] = o /\ \A n \in Modems : n # m => op[n].pc = "idle" /\ op'[n].pc = "idle"
  BY <1>3, OthersIdle
<1>5. conns' = conns
  BY DEF BearerDown, LoadStale, memory
<1>6. conns[m].tracked => Gives(m)
  BY <1>1 DEF Ordered, Known
<1>7. Known(m)'
  BY <1>1, <1>3, <1>4, <1>5, <1>6 DEF Known, Gives
<1> QED
  BY <1>1, <1>3, <1>4, <1>5, <1>7, Undisturbed DEF Ordered

\* Nor the plan of a new connection (BearerUp, LoadStale, Plan).
LEMMA OrderedArriving ==
  ASSUME OneAtATime, TypeOK, Ordered, NEW m \in Modems, Busy(m), Arriving(m),
         BearerUp(m) \/ LoadStale(m) \/ Plan(m)
  PROVE  Ordered' /\ Chain' = Chain
<1>1. /\ op[m] \in Op /\ op[m].kind = "connect" /\ (op[m].pc = "stale" => op[m].ret = "plan")
      /\ ~conns[m].tracked /\ Settled(conns, kernel, stored) /\ Chained(conns)
      /\ op[m].added = {} /\ op[m].done = {} /\ ~op[m].dflt
      /\ op[m].pc \in {"bearerUp", "stale", "plan"}
  BY DEF TypeOK, Arriving, Settled
<1>2. conns \in Conns
  BY DEF TypeOK, Conns
<1>3. \E o : /\ o.kind = "connect" /\ o.pc # "track"
             /\ o.pc \in {"addRoute", "saveAlways", "commit"} =>
                  IF o.dflt THEN Plans(m, o.done) ELSE o.done = {}
             /\ op' = [op EXCEPT ![m] = o]
  <2>1. CASE BearerUp(m)
    <3>1. CASE op[m].want
      <4>1. op' = [op EXCEPT ![m] = Stale(op[m], "plan")]
        BY <2>1, <3>1, NoFault DEF BearerUp, Goto
      <4>2. Stale(op[m], "plan").kind = "connect" /\ Stale(op[m], "plan").pc = "stale"
        BY <1>1 DEF Stale, Op
      <4> QED
        BY <4>1, <4>2
    <3>2. CASE ~op[m].want
      <4>1. PICK k \in SecondaryMetrics(FamiliesOf[m], kernel) :
              op' = [op EXCEPT ![m] = [op[m] EXCEPT !.pc = "addRoute", !.routes = OwnRoutes(m, k)]]
        BY <2>1, <3>2, NoFault DEF BearerUp, Goto
      <4> DEFINE o == [op[m] EXCEPT !.pc = "addRoute", !.routes = OwnRoutes(m, k)]
      <4>2. o.kind = "connect" /\ o.pc = "addRoute" /\ o.done = {} /\ ~o.dflt
        BY <1>1 DEF Op
      <4> QED
        BY <4>1, <4>2
    <3> QED
      BY <3>1, <3>2
  <2>2. CASE LoadStale(m)
    <3>1. ~stored[m].saved
      BY <1>1, Newcomer
    <3>2. op' = [op EXCEPT ![m] = [op[m] EXCEPT !.pc = op[m].ret]]
      BY <2>2, <3>1, NoFault DEF LoadStale, Goto
    <3>3. [op[m] EXCEPT !.pc = op[m].ret].kind = op[m].kind /\ [op[m] EXCEPT !.pc = op[m].ret].pc = "plan"
      BY <1>1, <2>2 DEF Op, LoadStale
    <3> QED
      BY <1>1, <3>2, <3>3
  <2>3. CASE Plan(m)
    <3> DEFINE preferred == OwnRoutes(m, DefaultRouteMetric)
    <3>1. ~stored[m].saved /\ kernel = KernelOf(conns)
      BY <1>1, Newcomer DEF Settled
    <3>2. PICK ok \in Outcomes, changes \in DefaultRouteChanges(kernel, preferred) :
            IF changes = {} /\ ok THEN op' = [op EXCEPT ![m] = Settle(m, op[m])]
            ELSE IF ok /\ ~stored[m].saved
            THEN op' = [op EXCEPT ![m] = [op[m] EXCEPT !.pc = "moveDel", !.todo = changes, !.done = {}]]
            ELSE TRUE
      BY <1>1, <2>3 DEF Plan, Goto
    <3>3. ok
      BY <3>2, NoFault
    <3>4. CASE changes = {}
      <4> DEFINE o == [op[m] EXCEPT !.pc = "addRoute", !.routes = preferred, !.dflt = TRUE]
      <4>1. op' = [op EXCEPT ![m] = o]
        BY <1>1, <3>2, <3>3, <3>4 DEF Settle
      <4>2. o.kind = "connect" /\ o.pc = "addRoute" /\ o.done = {} /\ o.dflt
        BY <1>1 DEF Op
      <4>3. Plans(m, {})
        <5>1. preferred = {OwnRoute(m, DefaultRouteMetric)}
          BY OneFamily
        <5> QED
          BY <3>1, <3>2, <3>4, <5>1 DEF Plans
      <4> HIDE DEF o
      <4> QED
        BY <4>1, <4>2, <4>3
    <3>5. CASE changes # {}
      <4> DEFINE o == [op[m] EXCEPT !.pc = "moveDel", !.todo = changes, !.done = {}]
      <4>1. op' = [op EXCEPT ![m] = o]
        BY <3>1, <3>2, <3>3, <3>5
      <4>2. o.kind = "connect" /\ o.pc = "moveDel"
        BY <1>1 DEF Op
      <4> HIDE DEF o
      <4> QED
        BY <4>1, <4>2
    <3> QED
      BY <3>4, <3>5
  <2> QED
    BY <2>1, <2>2, <2>3
<1>4. PICK o : /\ o.kind = "connect" /\ o.pc # "track"
               /\ o.pc \in {"addRoute", "saveAlways", "commit"} =>
                    IF o.dflt THEN Plans(m, o.done) ELSE o.done = {}
               /\ op' = [op EXCEPT ![m] = o]
  BY <1>3
<1>5. op'[m] = o /\ \A n \in Modems : n # m => op[n].pc = "idle" /\ op'[n].pc = "idle"
  BY <1>4, OthersIdle
<1>6. conns' = conns
  BY DEF BearerUp, LoadStale, Plan, memory
<1>7. o.dflt /\ Plans(m, o.done) => \A n \in Modems : conns[n].dflt <=> \E c \in o.done : c.orig.iface = n
  BY <1>1, <1>2, PlanTakesTop
<1>8. o.pc \in {"addRoute", "saveAlways", "commit"} => TakesTop(m)'
  BY <1>1, <1>4, <1>5, <1>6, <1>7 DEF TakesTop, Chained
<1>9. Known(m)'
  BY <1>1, <1>4, <1>5, <1>6, <1>8 DEF Known
<1> QED
  BY <1>1, <1>4, <1>5, <1>6, <1>9, Undisturbed DEF Ordered

\* Nor moving the routes of others (MoveDel, MoveAdd).
LEMMA OrderedMoving ==
  ASSUME OneAtATime, TypeOK, Ordered, NEW m \in Modems, Busy(m), Moving(m), MoveDel(m) \/ MoveAdd(m)
  PROVE  Ordered' /\ Chain' = Chain
<1>1. /\ op[m] \in Op /\ op[m].kind = "connect" /\ op[m].pc \in {"moveDel", "moveAdd"}
      /\ ~conns[m].tracked /\ Chained(conns) /\ Plans(m, op[m].todo \cup op[m].done)
  BY DEF TypeOK, Moving
<1>2. conns \in Conns
  BY DEF TypeOK, Conns
<1>3. \E o : /\ o.kind = "connect" /\ o.pc \in {"moveDel", "moveAdd", "moveUndo", "addRoute"}
             /\ o.pc = "addRoute" => o.dflt /\ o.done = op[m].todo \cup op[m].done
             /\ op' = [op EXCEPT ![m] = o]
  <2>1. CASE MoveDel(m)
    <3>1. op' = [op EXCEPT ![m] = [op[m] EXCEPT !.pc = "moveAdd"]]
      BY <2>1, NoFault DEF MoveDel, Goto
    <3>2. [op[m] EXCEPT !.pc = "moveAdd"].kind = "connect" /\ [op[m] EXCEPT !.pc = "moveAdd"].pc = "moveAdd"
      BY <1>1 DEF Op
    <3> QED
      BY <3>1, <3>2
  <2>2. CASE MoveAdd(m)
    <3>1. PICK ok \in Outcomes, c \in op[m].todo :
            LET added == ok /\ Accepted(c.repl)
                n     == [op[m] EXCEPT !.todo = @ \ {c}, !.done = @ \cup {c}]
            IN  op' = [op EXCEPT ![m] = CASE ~added -> [op[m] EXCEPT !.pc = "moveUndo"]
                                          [] added /\ n.todo # {} -> [n EXCEPT !.pc = "moveDel"]
                                          [] OTHER -> Settle(m, n)]
      BY <2>2 DEF MoveAdd, Goto
    <3> DEFINE added == ok /\ Accepted(c.repl)
               n     == [op[m] EXCEPT !.todo = @ \ {c}, !.done = @ \cup {c}]
    <3>2. n \in Op /\ n.kind = "connect" /\ n.todo = op[m].todo \ {c} /\ n.done = op[m].done \cup {c}
      BY <1>1 DEF Op
    <3>3. CASE ~added
      <4> DEFINE o == [op[m] EXCEPT !.pc = "moveUndo"]
      <4>1. op' = [op EXCEPT ![m] = o]
        BY <3>1, <3>3
      <4>2. o.kind = "connect" /\ o.pc = "moveUndo"
        BY <1>1 DEF Op
      <4> HIDE DEF o
      <4> QED
        BY <4>1, <4>2
    <3>4. CASE added /\ n.todo # {}
      <4> HIDE DEF added
      <4> DEFINE o == [n EXCEPT !.pc = "moveDel"]
      <4>1. op' = [op EXCEPT ![m] = o]
        BY <3>1, <3>4 DEF added
      <4> HIDE DEF n
      <4>2. o.kind = "connect" /\ o.pc = "moveDel"
        BY <3>2 DEF Op
      <4> HIDE DEF o
      <4> QED
        BY <4>1, <4>2
    <3>5. CASE added /\ n.todo = {}
      <4> DEFINE o == [n EXCEPT !.pc = "addRoute", !.routes = OwnRoutes(m, DefaultRouteMetric), !.dflt = TRUE]
      <4> HIDE DEF added
      <4>1. op' = [op EXCEPT ![m] = Settle(m, n)]
        BY <3>1, <3>5 DEF added
      <4> HIDE DEF n
      <4>2. Settle(m, n) = o
        BY <3>2 DEF Settle
      <4>3. o.kind = "connect" /\ o.pc = "addRoute" /\ o.dflt /\ o.done = n.done
        BY <3>2 DEF Op
      <4>4. o.done = op[m].todo \cup op[m].done
        BY <3>2, <3>5, <4>3
      <4> HIDE DEF o
      <4> QED
        BY <4>1, <4>2, <4>3, <4>4
    <3> HIDE DEF n, added
    <3> QED
      BY <3>3, <3>4, <3>5
  <2> QED
    BY <2>1, <2>2
<1>4. PICK o : /\ o.kind = "connect" /\ o.pc \in {"moveDel", "moveAdd", "moveUndo", "addRoute"}
               /\ o.pc = "addRoute" => o.dflt /\ o.done = op[m].todo \cup op[m].done
               /\ op' = [op EXCEPT ![m] = o]
  BY <1>3
<1>5. op'[m] = o /\ \A n \in Modems : n # m => op[n].pc = "idle" /\ op'[n].pc = "idle"
  BY <1>4, OthersIdle
<1>6. conns' = conns
  BY DEF MoveDel, MoveAdd, memory
<1>7. \A n \in Modems : conns[n].dflt <=> \E c \in op[m].todo \cup op[m].done : c.orig.iface = n
  BY <1>1, <1>2, PlanTakesTop
<1>8. o.pc = "addRoute" => TakesTop(m)'
  BY <1>1, <1>4, <1>5, <1>6, <1>7 DEF TakesTop, Chained
<1>9. Known(m)'
  BY <1>1, <1>4, <1>5, <1>6, <1>8 DEF Known
<1> QED
  BY <1>1, <1>4, <1>5, <1>6, <1>9, Undisturbed DEF Ordered

\* Nor adding the own routes (AddRoute).
LEMMA OrderedAdding ==
  ASSUME OneAtATime, TypeOK, Ordered, NEW m \in Modems, Busy(m), Adding(m), AddRoute(m)
  PROVE  Ordered' /\ Chain' = Chain
<1>1. op[m] \in Op /\ op[m].kind = "connect" /\ op[m].pc = "addRoute" /\ ~conns[m].tracked
  BY DEF TypeOK, Adding
<1>2. TakesTop(m)
  BY <1>1 DEF Ordered, Known
<1>3. \E o : /\ o.kind = "connect"
             /\ \/ o.pc \in {"unroute", "restoreAdd", "dropState"}
                \/ o.pc \in {"addRoute", "saveAlways"} /\ o.dflt = op[m].dflt /\ o.done = op[m].done
             /\ op' = [op EXCEPT ![m] = o]
  <2>1. PICK ok \in Outcomes, r \in op[m].routes :
          LET added == ok /\ Accepted(r)
              rest  == op[m].routes \ {r}
          IN  op' = [op EXCEPT ![m] =
                       IF added
                       THEN [op[m] EXCEPT !.routes = rest, !.added = @ \cup {r},
                                          !.pc = IF rest = {} THEN "saveAlways" ELSE "addRoute"]
                       ELSE Cleanup([op[m] EXCEPT !.failed = TRUE], op[m].added, op[m].done, "abort")]
    BY DEF AddRoute, Goto
  <2> DEFINE added == ok /\ Accepted(r)
             rest == op[m].routes \ {r}
  <2>2. CASE added
    <3> DEFINE o == [op[m] EXCEPT !.routes = rest, !.added = @ \cup {r},
                                  !.pc = IF rest = {} THEN "saveAlways" ELSE "addRoute"]
    <3>1. op' = [op EXCEPT ![m] = o]
      BY <2>1, <2>2
    <3>2. o.kind = "connect" /\ o.pc \in {"addRoute", "saveAlways"} /\ o.dflt = op[m].dflt /\ o.done = op[m].done
      BY <1>1 DEF Op
    <3> HIDE DEF o
    <3> QED
      BY <3>1, <3>2
  <2>3. CASE ~added
    <3> DEFINE n == [[op[m] EXCEPT !.failed = TRUE] EXCEPT
                        !.routes = op[m].added, !.todo = op[m].done, !.ret = "abort",
                        !.err = FALSE, !.kept = FALSE]
               o == [n EXCEPT !.pc = UnroutePC(n)]
    <3>1. op' = [op EXCEPT ![m] = o]
      BY <2>1, <2>3 DEF Cleanup
    <3>2. n \in Op /\ n.kind = "connect"
      BY <1>1 DEF Op
    <3> HIDE DEF n
    <3>3. o.kind = "connect" /\ o.pc = UnroutePC(n)
      BY <3>2 DEF Op
    <3>4. UnroutePC(n) \in {"unroute", "restoreAdd", "dropState"}
      BY DEF UnroutePC, RestorePC
    <3> HIDE DEF o
    <3> QED
      BY <3>1, <3>3, <3>4
  <2> QED
    BY <2>2, <2>3
<1>4. PICK o : /\ o.kind = "connect"
               /\ \/ o.pc \in {"unroute", "restoreAdd", "dropState"}
                  \/ o.pc \in {"addRoute", "saveAlways"} /\ o.dflt = op[m].dflt /\ o.done = op[m].done
               /\ op' = [op EXCEPT ![m] = o]
  BY <1>3
<1>5. op'[m] = o /\ \A n \in Modems : n # m => op[n].pc = "idle" /\ op'[n].pc = "idle"
  BY <1>4, OthersIdle
<1>6. conns' = conns
  BY DEF AddRoute, memory
<1>7. o.pc \in {"addRoute", "saveAlways"} => TakesTop(m)'
  BY <1>2, <1>4, <1>5, <1>6 DEF TakesTop, Chained
<1>8. Known(m)'
  BY <1>4, <1>5, <1>6, <1>7 DEF Known
<1> QED
  BY <1>1, <1>4, <1>5, <1>6, <1>8, Undisturbed DEF Ordered

\* Nor saving the preference (SaveAlways).
LEMMA OrderedSaveAlways ==
  ASSUME OneAtATime, TypeOK, Ordered, NEW m \in Modems, Busy(m), Saving(m) \/ Tracking(m), SaveAlways(m)
  PROVE  Ordered' /\ Chain' = Chain
<1> DEFINE pc == IF op[m].kind = "connect" THEN "commit" ELSE "track"
           o  == [op[m] EXCEPT !.pc = pc]
<1>1. op[m] \in Op /\ op[m].pc = "saveAlways" /\ op[m].kind \in {"connect", "keep"}
  BY DEF TypeOK, SaveAlways, Saving, Tracking
<1>2. op' = [op EXCEPT ![m] = o]
  BY <1>1, NoFault DEF SaveAlways, Goto
<1>3. o.kind = op[m].kind /\ o.pc = pc /\ o.done = op[m].done /\ o.dflt = op[m].dflt
  BY <1>1 DEF Op
<1> HIDE DEF o
<1>4. op'[m] = o /\ \A n \in Modems : n # m => op[n].pc = "idle" /\ op'[n].pc = "idle"
  BY <1>2, OthersIdle
<1>5. conns' = conns
  BY DEF SaveAlways, memory
<1>6. op[m].kind = "connect" => TakesTop(m)'
  <2>1. op[m].kind = "connect" => TakesTop(m)
    BY <1>1 DEF Ordered, Known
  <2> QED
    BY <1>3, <1>4, <1>5, <2>1 DEF TakesTop, Chained
<1>7. op[m].kind = "keep" => Same(m)'
  <2>1. op[m].kind = "keep" => Same(m)
    BY <1>1 DEF Ordered, Known
  <2> QED
    BY <1>3, <1>4, <1>5, <2>1 DEF Same
<1>8. Known(m)' /\ (op'[m].pc = "track" => Same(m)')
  BY <1>1, <1>3, <1>4, <1>6, <1>7 DEF Known
<1> QED
  BY <1>1, <1>4, <1>5, <1>8, Undisturbed DEF Ordered

\* Commit demotes in memory whom the new connection has moved: it stays a
\* holder, now as one the route is being taken from.
LEMMA OrderedCommit ==
  ASSUME OneAtATime, TypeOK, Ordered, NEW m \in Modems, Busy(m), Saving(m), Commit(m)
  PROVE  Ordered' /\ Chain' = Chain
<1> DEFINE D  == op[m].done
           o2 == [op[m] EXCEPT !.pc = "track"]
<1>1. /\ op[m] \in Op /\ op[m].kind = "connect" /\ op[m].pc = "commit" /\ ~conns[m].tracked
      /\ conns \in Conns
  BY DEF TypeOK, Saving, Commit, Conns
<1>2. /\ conns' = [n \in Modems |-> Rerouted(conns[n], D)]
      /\ op' = [n \in Modems |-> IF n = m THEN o2 ELSE Shared(op[n], D)]
  BY NoFault DEF Commit
<1>3. op' = [op EXCEPT ![m] = o2]
  <2>1. \A n \in Modems : n # m => Shared(op[n], D) = op[n]
    BY DEF Shared, Busy, Quiet
  <2> HIDE DEF o2
  <2> QED
    BY <1>2, <2>1 DEF TypeOK
<1>4. /\ o2.pc = "track" /\ o2.kind = "connect" /\ o2.done = D /\ o2.dflt = op[m].dflt
  BY <1>1 DEF Op
<1> HIDE DEF o2
<1>5. op'[m] = o2 /\ \A n \in Modems : n # m => op[n].pc = "idle" /\ op'[n].pc = "idle"
  BY <1>3, OthersIdle
<1>6. Chained(conns) /\ IF op[m].dflt THEN \A n \in Modems : conns[n].dflt <=> \E c \in D : c.orig.iface = n
                        ELSE D = {}
  BY <1>1 DEF Ordered, Known, TakesTop
<1>7. \A n \in Modems : conns'[n].tracked = conns[n].tracked /\ conns'[n].changes = conns[n].changes
  BY <1>1, <1>2, ReroutedKeeps DEF Conns
<1>8. \A p, n \in Modems : Took(conns', p, n) <=> Took(conns, p, n)
  BY <1>7 DEF Took
<1>9. ASSUME NEW n \in Modems
      PROVE  conns[n].dflt <=> conns'[n].dflt \/ \E c \in D : c.orig.iface = n
  <2>1. ASSUME ~\E c \in D : c.orig.iface = n PROVE conns'[n] = conns[n]
    <3>1. {c \in D : c.orig \in conns[n].routes} = {}
      BY <1>1, <1>6, <2>1, ChainFacts
    <3> QED
      BY <1>2, <3>1 DEF Rerouted
  <2> QED
    BY <1>6, <2>1
<1>10. Holders = HeldIn(conns)
  BY <1>1, <1>5, HoldersAre
<1>11. \A p, n \in Modems : Taking(p, n)' <=> p = m /\ \E c \in D : c.orig.iface = n
  BY <1>4, <1>5 DEF Taking
<1>12. Holders' = {n \in Modems : conns'[n].tracked /\ (conns'[n].dflt \/ \E p \in Modems : Took(conns', p, n) \/ Taking(p, n)')}
  BY DEF Holders, TookFrom, Took
<1>13. Holders' = Holders /\ Holders \subseteq Modems
  BY <1>7, <1>8, <1>9, <1>10, <1>11, <1>12 DEF HeldIn
<1>14. InOrder' /\ Chain' = Chain
  BY <1>8, <1>13, SameList DEF Ordered
<1>15. \A p \in Modems : ~Took(conns, p, m)
  BY <1>1, <1>6, TookFacts
<1>16. TakesNone(m)'
  BY <1>1, <1>4, <1>5, <1>6, <1>7, <1>8, <1>15 DEF TakesNone
<1>17. \A n \in Modems : Known(n)'
  BY <1>4, <1>5, <1>16 DEF Known
<1> QED
  BY <1>14, <1>17 DEF Ordered

\* The monitor plans nothing new for a connection that is tracked (Plan).
LEMMA OrderedPlanAgain ==
  ASSUME OneAtATime, TypeOK, Ordered, NEW m \in Modems, Busy(m), Tracking(m), Plan(m)
  PROVE  Ordered' /\ Chain' = Chain
<1>1. op[m] \in Op /\ op[m].pc = "plan" /\ op[m].kind = "keep"
  BY DEF TypeOK, Tracking, Plan
<1>2. Same(m)
  BY <1>1 DEF Ordered, Known
<1>3. \E o : /\ \/ o.pc = "saveAlways" /\ o.kind = "keep" /\ o.done = op[m].done /\ o.dflt = op[m].dflt
                \/ o.pc \in {"moveDel", "idle"}
             /\ op' = [op EXCEPT ![m] = o]
  <2>1. PICK ok \in Outcomes, changes \in DefaultRouteChanges(kernel, op[m].added) :
          op' = [op EXCEPT ![m] =
                   IF changes = {} /\ ok THEN Settle(m, op[m])
                   ELSE IF ok /\ ~stored[m].saved
                   THEN [op[m] EXCEPT !.pc = "moveDel", !.todo = changes, !.done = {}]
                   ELSE NoOp]
    BY <1>1 DEF Plan, Goto
  <2>2. Settle(m, op[m]) = [op[m] EXCEPT !.pc = "saveAlways"]
    BY <1>1 DEF Settle, Found
  <2>3. /\ [op[m] EXCEPT !.pc = "saveAlways"].pc = "saveAlways" /\ [op[m] EXCEPT !.pc = "saveAlways"].kind = "keep"
        /\ [op[m] EXCEPT !.pc = "saveAlways"].done = op[m].done
        /\ [op[m] EXCEPT !.pc = "saveAlways"].dflt = op[m].dflt
    BY <1>1 DEF Op
  <2>4. [op[m] EXCEPT !.pc = "moveDel", !.todo = changes, !.done = {}].pc = "moveDel" /\ NoOp.pc = "idle"
    BY <1>1 DEF Op, NoOp
  <2> QED
    BY <2>1, <2>2, <2>3, <2>4
<1>4. PICK o : /\ \/ o.pc = "saveAlways" /\ o.kind = "keep" /\ o.done = op[m].done /\ o.dflt = op[m].dflt
                  \/ o.pc \in {"moveDel", "idle"}
               /\ op' = [op EXCEPT ![m] = o]
  BY <1>3
<1>5. op'[m] = o /\ \A n \in Modems : n # m => op[n].pc = "idle" /\ op'[n].pc = "idle"
  BY <1>4, OthersIdle
<1>6. conns' = conns
  BY DEF Plan, memory
<1>7. Known(m)'
  BY <1>2, <1>4, <1>5, <1>6 DEF Known, Same
<1> QED
  BY <1>1, <1>4, <1>5, <1>6, <1>7, Undisturbed DEF Ordered

\* Track puts a connection that is the default route on top of the others; a
\* secondary one, or one the monitor looked at, changes nothing.
LEMMA OrderedTrack ==
  ASSUME OneAtATime, TypeOK, Ordered, NEW m \in Modems, Busy(m), Tracking(m), Track(m)
  PROVE  Ordered' /\ (Chain' = Chain \/ Abstract!Promote(m))
<1> DEFINE o == op[m]
           t == Joining(o, o.added)
<1>1. /\ conns' = [conns EXCEPT ![m] = t] /\ op' = [op EXCEPT ![m] = NoOp]
      /\ o \in Op /\ o.pc = "track" /\ conns \in Conns
  BY NoFault DEF Track, Remember, Goto, Joining, TypeOK, Conns
<1>2. o.kind \in {"connect", "keep"}
  BY <1>1 DEF Ordered, Known
<1>3. /\ conns'[m] = t /\ \A n \in Modems : n # m => conns'[n] = conns[n]
      /\ t.tracked = TRUE /\ t.changes = o.done /\ t.dflt = o.dflt
      /\ conns' = Again(m)
  BY <1>1 DEF Conns, Joining, Again
<1>4. op'[m] = NoOp /\ \A n \in Modems : n # m => op[n].pc = "idle" /\ op'[n].pc = "idle"
  BY <1>1, OthersIdle
<1>5. \A n \in Modems : op'[n].pc = "idle"
  BY <1>4 DEF NoOp
<1>6. \A n \in Modems : Known(n)'
  BY <1>5 DEF Known
<1>7. CASE o.kind = "keep"
  <2>1. Same(m)
    BY <1>1, <1>7 DEF Ordered, Known
  <2>2. conns[m].tracked \in BOOLEAN
    BY <1>1 DEF Conns, Connection
  <2>3. \A n \in Modems : /\ conns'[n].tracked = conns[n].tracked /\ conns'[n].dflt = conns[n].dflt
                          /\ conns'[n].changes = conns[n].changes
    BY <1>3, <2>1, <2>2 DEF Same
  <2> QED
    BY <1>4, <1>5, <1>6, <2>1, <2>3, Undisturbed DEF Ordered
<1>8. CASE o.kind = "connect"
  <2>1. TakesNone(m)
    BY <1>1, <1>8 DEF Ordered, Known
  <2>2. Chained(conns') /\ conns' \in Conns
    <3>1. t \in Connection
      BY <1>1 DEF Joining, Op, Connection
    <3>2. conns' \in Conns
      BY <1>1, <3>1 DEF Conns
    <3>3. Settled(Again(m), kernel, stored)
      BY DEF Tracking
    <3> QED
      BY <1>3, <3>2, <3>3 DEF Settled
  <2>3. \A p, n \in Modems : p # m => (Took(conns', p, n) <=> Took(conns, p, n))
    BY <1>3 DEF Took
  <2>4. \A n \in Modems : Took(conns', m, n) <=> \E c \in o.done : c.orig.iface = n
    BY <1>3 DEF Took
  <2>5. \A p \in Modems : ~Took(conns', p, m)
    BY <2>1, <2>2, <2>3, TookFacts DEF TakesNone
  <2>6. \A n \in Modems : ~Took(conns, m, n)
    BY <2>1 DEF TakesNone, Took
  <2>7. \A p, n \in Modems : Taking(p, n) <=> p = m /\ Took(conns', m, n)
    BY <1>1, <1>4, <2>4 DEF Taking
  <2>8. Holders = {n \in Modems : conns[n].tracked /\ (conns[n].dflt \/ \E p \in Modems : Took(conns', p, n))}
    BY <2>3, <2>6, <2>7 DEF Holders, TookFrom, Took
  <2>9. Holders' = HeldIn(conns')
    BY <1>5, HoldersAre
  <2>10. m \notin Holders
    BY <2>1, <2>8 DEF TakesNone
  <2>11. CASE ~o.dflt
    <3>1. o.done = {}
      BY <2>1, <2>11 DEF TakesNone
    <3>2. \A n \in Modems : n # m => (n \in Holders' <=> n \in Holders)
      BY <1>3, <2>8, <2>9 DEF HeldIn
    <3>3. m \notin Holders'
      BY <1>3, <2>5, <2>9, <2>11 DEF HeldIn
    <3>4. Holders' = Holders
      BY <2>8, <2>9, <2>10, <3>2, <3>3 DEF HeldIn
    <3>5. \A p, n \in Modems : Took(conns', p, n) <=> Took(conns, p, n)
      BY <2>3, <2>4, <2>6, <3>1
    <3> QED
      BY <1>6, <2>8, <3>4, <3>5, SameList DEF Ordered
  <2>12. CASE o.dflt
    <3>1. \A n \in Modems : n # m => ~conns[n].dflt
      <4>1. conns'[m].dflt
        BY <1>3, <2>12
      <4> QED
        BY <1>3, <2>2, <4>1, TopFacts
    <3>2. Holders' = Holders \cup {m}
      <4>1. \A n \in Modems : n # m => (n \in Holders' <=> n \in Holders)
        BY <1>3, <2>8, <2>9 DEF HeldIn
      <4>2. m \in Holders'
        BY <1>3, <2>9, <2>12 DEF HeldIn
      <4> QED
        BY <2>8, <2>9, <4>1, <4>2 DEF HeldIn
    <3>3. PICK s : Lists(s, Holders, conns)
      BY DEF Ordered, InOrder
    <3>4. s # <<>> => Took(conns', m, s[1])
      <4> SUFFICES ASSUME s # <<>> PROVE Took(conns', m, s[1])
        OBVIOUS
      <4>1. s[1] \in Holders /\ \A p \in Modems : ~Took(conns, p, s[1])
        <5>1. s \in Seq(Modems) /\ Len(s) \in Nat /\ 1 \in DOMAIN s
          BY <3>3 DEF Lists
        <5> QED
          BY <3>3, <5>1 DEF Lists
      <4>2. ~conns[s[1]].dflt
        BY <2>8, <2>10, <3>1, <4>1
      <4>3. PICK p \in Modems : Took(conns', p, s[1])
        BY <2>8, <4>1, <4>2
      <4>4. s[1] \in Modems
        BY <2>8, <4>1
      <4> QED
        BY <2>3, <4>1, <4>3, <4>4
    <3>5. \A p, n \in Holders : Took(conns, p, n) => Took(conns', p, n)
      BY <2>3, <2>8, <2>10
    <3>6. \A p, n, q \in Holders \cup {m} : Took(conns', p, n) /\ Took(conns', p, q) => n = q
      <4>1. Holders \cup {m} \subseteq Modems
        BY <2>8
      <4> QED
        BY <2>2, <4>1, TookFacts
    <3>7. Lists(<<m>> \o s, Holders', conns')
      BY <2>5, <2>10, <3>2, <3>3, <3>4, <3>5, <3>6, Pushed
    <3>8. Chain = s /\ Chain' = <<m>> \o s
      BY <3>3, <3>7, ChainIs
    <3>9. Abstract!Promote(m)
      <4>1. Holders = {s[i] : i \in DOMAIN s}
        BY <3>3 DEF Lists
      <4> QED
        BY <2>10, <3>8, <4>1 DEF Abstract!Promote, Abstract!Members
    <3> QED
      BY <1>6, <3>7, <3>9 DEF Ordered, InOrder
  <2> QED
    BY <2>11, <2>12
<1> QED
  BY <1>2, <1>7, <1>8

\* Forget takes the default connection off the top; a connection that was not
\* the default route has left before, or was never in the list.
LEMMA OrderedForget ==
  ASSUME OneAtATime, TypeOK, Ordered, NEW m \in Modems, Busy(m), Leaving(m), Forget(m)
  PROVE  Ordered' /\ (Chain' = Chain \/ Abstract!Retire(m))
<1> DEFINE L == Left(m)
<1>1. /\ op[m].kind \in {"connect", "disconnect", "restore", "current"} /\ ~op[m].failed
      /\ op[m].pc = "forget" /\ Chained(L) /\ conns \in Conns
  BY DEF Leaving, Forget, Settled, TypeOK, Conns
<1>2. conns' = L
  BY <1>1 DEF Forget, Left
<1>3. L \in Conns
  BY <1>1 DEF Left, Conns, Connection, Untracked
<1>4. PICK o : /\ o \in {NoOp, [NoOp EXCEPT !.kind = "connect", !.want = op[m].want,
                                            !.always = op[m].always, !.pc = "bearerUp"]}
               /\ op' = [op EXCEPT ![m] = o]
  BY DEF Forget, Goto
<1>5. o.pc \in {"idle", "bearerUp"} /\ op' = [op EXCEPT ![m] = o]
  <2>1. NoOp.pc = "idle"
    BY DEF NoOp
  <2>2. [NoOp EXCEPT !.kind = "connect", !.want = op[m].want,
                     !.always = op[m].always, !.pc = "bearerUp"].pc = "bearerUp"
    BY DEF NoOp
  <2> QED
    BY <1>4, <2>1, <2>2
<1>6. op'[m] = o /\ \A n \in Modems : n # m => op[n].pc = "idle" /\ op'[n].pc = "idle"
  BY <1>5, OthersIdle
<1>7. \A n \in Modems : Known(n)'
  BY <1>5, <1>6 DEF Known
<1>8. Holders = HeldIn(conns) /\ Holders' = HeldIn(L)
  BY <1>1, <1>2, <1>5, <1>6, HoldersAre
<1>9. /\ ~L[m].tracked /\ \A n \in Modems : n # m => L[n] = conns[n]
  BY DEF Left, TypeOK, Untracked
<1> HIDE DEF L
<1>10. \A p, n \in Modems : Took(L, p, n) <=> p # m /\ Took(conns, p, n)
  BY <1>9 DEF Took
<1>11. m \notin HeldIn(L)
  BY <1>9 DEF HeldIn
<1>12. CASE ~conns[m].tracked
  <2>1. \A p, n \in Modems : Took(L, p, n) <=> Took(conns, p, n)
    BY <1>10, <1>12 DEF Took
  <2>2. HeldIn(L) = HeldIn(conns)
    BY <1>9, <1>12, <2>1 DEF HeldIn
  <2>3. \A n \in Holders : n \in Modems
    BY <1>8 DEF HeldIn
  <2> QED
    BY <1>2, <1>7, <1>8, <2>1, <2>2, <2>3, SameList DEF Ordered
<1>13. CASE conns[m].tracked
  <2>1. Gives(m)
    BY <1>1, <1>13 DEF Ordered, Known
  <2>2. \A n \in Modems : Took(conns, m, n) =>
          n # m /\ IF conns[m].dflt THEN conns[n].dflt ELSE \E p \in Modems \ {m} : Took(conns, p, n)
    BY <2>1 DEF Gives, Took
  <2>3. \A p \in Modems : ~Took(conns, p, m)
    <3> SUFFICES ASSUME NEW p \in Modems, Took(conns, p, m) PROVE FALSE
      OBVIOUS
    <3>1. p # m
      BY <2>2
    <3>2. Took(L, p, m)
      BY <1>10, <3>1
    <3> QED
      BY <1>1, <1>3, <1>9, <3>2, TookFacts
  <2>4. \A p, n \in Modems : Took(conns, p, n) /\ p # m => ~conns[n].dflt /\ n # m
    <3> SUFFICES ASSUME NEW p \in Modems, NEW n \in Modems, Took(conns, p, n), p # m
                 PROVE  ~conns[n].dflt /\ n # m
      OBVIOUS
    <3>1. Took(L, p, n)
      BY <1>10
    <3> QED
      BY <1>1, <1>3, <1>9, <2>3, <3>1, TookFacts
  <2>5. PICK s : Lists(s, Holders, conns)
    BY DEF Ordered, InOrder
  <2>6. HeldIn(L) = HeldIn(conns) \ {m}
    <3>1. ASSUME NEW n \in Modems, n # m PROVE n \in HeldIn(L) <=> n \in HeldIn(conns)
      <4>1. (\E p \in Modems : Took(L, p, n)) \/ conns[n].dflt <=> (\E p \in Modems : Took(conns, p, n)) \/ conns[n].dflt
        BY <1>10, <2>2
      <4> QED
        BY <1>9, <3>1, <4>1 DEF HeldIn
    <3> QED
      BY <1>11, <3>1 DEF HeldIn
  <2>7. CASE ~conns[m].dflt
    <3>1. m \notin HeldIn(conns)
      BY <2>3, <2>7 DEF HeldIn
    <3>2. Holders' = Holders /\ m \notin Holders /\ Holders \subseteq Modems
      BY <1>8, <2>6, <3>1 DEF HeldIn
    <3>3. \A p, n \in Holders : Took(L, p, n) <=> Took(conns, p, n)
      BY <1>10, <3>2
    <3>4. \A p \in Modems, n \in Holders : Took(L, p, n) => Took(conns, p, n)
      BY <1>10, <3>2
    <3> QED
      BY <1>2, <1>7, <3>2, <3>3, <3>4, SameList DEF Ordered
  <2>8. CASE conns[m].dflt
    <3>1. m \in Holders /\ Holders \subseteq Modems
      BY <1>8, <1>13, <2>8 DEF HeldIn
    <3>2. s \in Seq(Modems) /\ Len(s) \in Nat /\ DOMAIN s = 1 .. Len(s) /\ \A i \in 1 .. Len(s) : s[i] \in Modems
      BY <2>5 DEF Lists
    <3>3. s[1] = m /\ 1 \in 1 .. Len(s)
      <4>1. PICK i \in 1 .. Len(s) : s[i] = m
        BY <2>5, <3>1, <3>2 DEF Lists
      <4>2. i = 1
        <5> SUFFICES ASSUME i # 1 PROVE FALSE
          OBVIOUS
        <5>1. i - 1 \in 1 .. Len(s) - 1 /\ i - 1 \in 1 .. Len(s) /\ (i - 1) + 1 = i
          BY <3>2
        <5>2. Took(conns, s[i - 1], s[i])
          BY <2>5, <5>1 DEF Lists
        <5> QED
          BY <2>3, <3>2, <4>1, <5>1, <5>2
      <4> QED
        BY <4>1, <4>2
    <3>4. \A p, n \in Holders \ {m} : Took(conns, p, n) => Took(L, p, n)
      BY <1>10, <3>1
    <3>5. \A p, n, q \in Holders \ {m} : Took(L, p, n) /\ Took(L, p, q) => n = q
      BY <1>1, <1>3, <3>1, TookFacts
    <3>6. ASSUME Len(s) > 1, NEW p \in Modems PROVE ~Took(L, p, s[2])
      <4>1. 1 \in 1 .. Len(s) - 1 /\ 2 \in 1 .. Len(s)
        BY <3>2, <3>6
      <4>2. Took(conns, m, s[2])
        BY <2>5, <3>3, <4>1 DEF Lists
      <4>3. conns[s[2]].dflt
        BY <2>2, <2>8, <3>2, <4>1, <4>2
      <4> QED
        BY <1>10, <2>4, <3>2, <4>1, <4>3
    <3>7. Lists(RemoveAt(s, 1), Holders \ {s[1]}, L)
      BY <2>5, <3>3, <3>4, <3>5, <3>6, Dropped
    <3>8. Lists(RemoveAt(s, 1), Holders', conns')
      BY <1>2, <1>8, <2>6, <3>3, <3>7
    <3>9. Chain = s /\ Chain' = RemoveAt(s, 1)
      BY <2>5, <3>8, ChainIs
    <3>10. Abstract!Retire(m)
      BY <3>2, <3>3, <3>9 DEF Abstract!Retire, Abstract!RemoveAt, RemoveAt
    <3> QED
      BY <1>7, <3>8, <3>10 DEF Ordered, InOrder
  <2> QED
    BY <2>7, <2>8
<1> QED
  BY <1>12, <1>13

\* Rerouting backwards promotes exactly the connection the route was taken from.
LEMMA Returned ==
  ASSUME OneAtATime, NEW cs \in Conns, Chained(cs), NEW m \in Modems, cs[m].dflt,
         NEW n \in Modems, NEW t, t = Rerouted(cs[n], Backwards(cs[m].changes))
  PROVE  t.tracked = cs[n].tracked /\ t.changes = cs[n].changes /\ (t.dflt <=> cs[n].dflt \/ Took(cs, m, n))
<1> DEFINE D    == cs[m].changes
           back == Backwards(D)
           hit  == {b \in back : b.orig \in cs[n].routes}
<1>1. cs[n] \in Connection /\ cs[m].tracked
  BY ChainFacts DEF Conns
<1>2. t.tracked = cs[n].tracked /\ t.changes = cs[n].changes
  BY <1>1, ReroutedKeeps
<1>3. CASE ~Took(cs, m, n)
  <2>1. \A c \in D : c.repl \notin cs[n].routes
    <3> SUFFICES ASSUME NEW c \in D, c.repl \in cs[n].routes PROVE FALSE
      OBVIOUS
    <3>1. c.repl.iface = n /\ c.repl.iface = c.orig.iface
      BY ChainFacts
    <3> QED
      BY <1>1, <1>3, <3>1 DEF Took
  <2>2. hit = {}
    BY <2>1 DEF Backwards
  <2>3. t = cs[n]
    BY <2>2 DEF Rerouted
  <2> QED
    BY <1>2, <1>3, <2>3
<1>4. CASE Took(cs, m, n)
  <2>1. PICK c \in D : D = {c} /\ cs[n].routes = {c.repl} /\ c.orig = OwnRoute(n, DefaultRouteMetric)
    BY <1>4, TookFacts
  <2> DEFINE b == [orig |-> c.repl, repl |-> c.orig]
  <2>2. back = {b} /\ b.orig = c.repl /\ b.repl = c.orig
    BY <2>1 DEF Backwards
  <2> HIDE DEF back, b
  <2>3. hit = {b}
    BY <2>1, <2>2
  <2> HIDE DEF hit
  <2>4. (cs[n].routes \ {x.orig : x \in hit}) \cup {x.repl : x \in hit} = {c.orig}
    BY <2>1, <2>2, <2>3
  <2>5. t = [cs[n] EXCEPT !.routes = {c.orig}, !.dflt = IsDefault({c.orig})]
    BY <2>3, <2>4 DEF Rerouted, back, hit
  <2>6. IsDefault({c.orig})
    BY <2>1 DEF IsDefault, OwnRoute, DefaultRouteMetric
  <2>7. t.dflt
    BY <1>1, <2>5, <2>6 DEF Connection
  <2> QED
    BY <1>2, <1>4, <2>7
<1> QED
  BY <1>3, <1>4

\* Whoever took the route from a connection that goes inherits what it took.
LEMMA Inherited ==
  ASSUME OneAtATime, NEW cs \in Conns, Chained(cs), NEW m \in Modems, cs[m].tracked, ~cs[m].dflt,
         NEW cs2,
         cs2 = [n \in Modems |->
                  IF n \in Heirs(cs, m)
                  THEN [cs[n] EXCEPT !.changes = ChangesAfterRemoval(cs[n].changes, cs[m].routes, cs[m].changes)]
                  ELSE cs[n]]
  PROVE  /\ \A n \in Modems : cs2[n].tracked = cs[n].tracked /\ cs2[n].dflt = cs[n].dflt
         /\ cs2[m].changes = cs[m].changes
         /\ \A p, n \in Modems : Took(cs2, p, n) <=> IF Took(cs, p, m) THEN Took(cs, m, n) ELSE Took(cs, p, n)
<1>1. ASSUME NEW p \in Modems PROVE p \in Heirs(cs, m) <=> Took(cs, p, m)
  <2>1. ASSUME p \in Heirs(cs, m) PROVE Took(cs, p, m)
    <3>1. PICK c \in cs[p].changes : c.repl \in cs[m].routes
      BY <2>1 DEF Heirs
    <3>2. c.repl.iface = m /\ c.repl.iface = c.orig.iface
      BY <3>1, ChainFacts
    <3> QED
      BY <2>1, <3>2 DEF Heirs, Took
  <2>2. ASSUME Took(cs, p, m) PROVE p \in Heirs(cs, m)
    <3>1. PICK c \in cs[p].changes : cs[m].routes = {c.repl}
      BY <2>2, TookFacts
    <3>2. p # m /\ cs[p].tracked
      BY <2>2, TookFacts
    <3> QED
      BY <3>1, <3>2 DEF Heirs
  <2> QED
    BY <2>1, <2>2
<1>2. ASSUME NEW p \in Modems, Took(cs, p, m)
      PROVE  ChangesAfterRemoval(cs[p].changes, cs[m].routes, cs[m].changes) = cs[m].changes
  <2>1. PICK c \in cs[p].changes : cs[p].changes = {c} /\ cs[m].routes = {c.repl}
    BY <1>2, TookFacts
  <2>2. {d \in cs[p].changes : d.repl \in cs[m].routes} = {c}
    BY <2>1
  <2> QED
    BY <2>1, <2>2 DEF ChangesAfterRemoval
<1> HIDE DEF ChangesAfterRemoval
<1>3. ASSUME NEW p \in Modems
      PROVE  /\ cs2[p].tracked = cs[p].tracked /\ cs2[p].dflt = cs[p].dflt
             /\ cs2[p].changes = IF Took(cs, p, m) THEN cs[m].changes ELSE cs[p].changes
  <2>1. cs[p] \in Connection
    BY DEF Conns
  <2>2. CASE Took(cs, p, m)
    <3>1. cs2[p] = [cs[p] EXCEPT !.changes = cs[m].changes]
      BY <1>1, <1>2, <2>2
    <3> QED
      BY <2>1, <2>2, <3>1 DEF Connection
  <2>3. CASE ~Took(cs, p, m)
    BY <1>1, <2>3
  <2> QED
    BY <2>2, <2>3
<1>4. ~Took(cs, m, m)
  BY TookFacts
<1>5. \A p \in Modems : Took(cs, p, m) => cs[p].tracked
  BY DEF Took
<1>6. \A p, n \in Modems : Took(cs2, p, n) <=> IF Took(cs, p, m) THEN Took(cs, m, n) ELSE Took(cs, p, n)
  BY <1>3, <1>5 DEF Took
<1> QED
  BY <1>3, <1>4, <1>6

\* When the default connection gives the routes back, the list does not change
\* yet: the next modem is promoted, the leaving one is still tracked.
\* Sync is one or the other.
LEMMA OrderedSyncRestore ==
  ASSUME OneAtATime, TypeOK, Ordered, NEW m \in Modems, Busy(m), conns \in Conns, Chained(conns), conns[m].dflt,
         conns' = [n \in Modems |-> Rerouted(conns[n], Backwards(conns[m].changes))],
         NEW o, o.pc = "bearerDown", op' = [op EXCEPT ![m] = o], op[m].pc # "track"
  PROVE  Ordered' /\ Chain' = Chain
<1>1. op'[m] = o /\ \A n \in Modems : n # m => op[n].pc = "idle" /\ op'[n].pc = "idle"
  BY OthersIdle
<1>2. \A n \in Modems : /\ conns'[n].tracked = conns[n].tracked /\ conns'[n].changes = conns[n].changes
                        /\ conns'[n].dflt <=> conns[n].dflt \/ Took(conns, m, n)
  BY Returned
<1>3. \A p, n \in Modems : Took(conns', p, n) <=> Took(conns, p, n)
  BY <1>2 DEF Took
<1>4. Holders = HeldIn(conns) /\ Holders' = HeldIn(conns')
  BY <1>1, HoldersAre
<1>5. Holders' = Holders /\ Holders \subseteq Modems
  BY <1>2, <1>3, <1>4 DEF HeldIn
<1>6. InOrder' /\ Chain' = Chain
  BY <1>3, <1>5, SameList DEF Ordered
<1>7. conns[m].tracked
  BY ChainFacts
<1>8. Gives(m)'
  <2> SUFFICES ASSUME NEW c \in conns'[m].changes, NEW n \in Modems, c.orig.iface = n
               PROVE  n # m /\ conns'[m].dflt /\ conns'[n].dflt
    BY DEF Gives
  <2>1. Took(conns, m, n)
    BY <1>2, <1>7 DEF Took
  <2> QED
    BY <1>2, <2>1, TookFacts
<1>9. \A n \in Modems : Known(n)'
  BY <1>1, <1>8 DEF Known
<1> QED
  BY <1>6, <1>9 DEF Ordered

\* A demoted connection leaves the middle or the end of the list.
\* Sync is one or the other.
LEMMA OrderedSyncRemoval ==
  ASSUME OneAtATime, TypeOK, Ordered, NEW m \in Modems, Busy(m), conns \in Conns, Chained(conns),
         conns[m].tracked, ~conns[m].dflt,
         conns' = [n \in Modems |->
                     IF n \in Heirs(conns, m)
                     THEN [conns[n] EXCEPT !.changes =
                             ChangesAfterRemoval(conns[n].changes, conns[m].routes, conns[m].changes)]
                     ELSE conns[n]],
         NEW o, o.pc = "bearerDown", op' = [op EXCEPT ![m] = o], op[m].pc # "track"
  PROVE  Ordered' /\ (Chain' = Chain \/ Abstract!Retire(m))
<1>1. op'[m] = o /\ \A n \in Modems : n # m => op[n].pc = "idle" /\ op'[n].pc = "idle"
  BY OthersIdle
<1>2. /\ \A n \in Modems : conns'[n].tracked = conns[n].tracked /\ conns'[n].dflt = conns[n].dflt
      /\ conns'[m].changes = conns[m].changes
      /\ \A p, n \in Modems : Took(conns', p, n) <=>
           IF Took(conns, p, m) THEN Took(conns, m, n) ELSE Took(conns, p, n)
  <2> DEFINE after == [n \in Modems |->
                        IF n \in Heirs(conns, m)
                        THEN [conns[n] EXCEPT !.changes =
                                ChangesAfterRemoval(conns[n].changes, conns[m].routes, conns[m].changes)]
                        ELSE conns[n]]
  <2>1. /\ \A n \in Modems : after[n].tracked = conns[n].tracked /\ after[n].dflt = conns[n].dflt
        /\ after[m].changes = conns[m].changes
        /\ \A p, n \in Modems : Took(after, p, n) <=>
             IF Took(conns, p, m) THEN Took(conns, m, n) ELSE Took(conns, p, n)
    BY Inherited
  <2>2. conns' = after
    OBVIOUS
  <2> HIDE DEF after
  <2> QED
    BY <2>1, <2>2
<1>3. Holders = HeldIn(conns) /\ Holders' = HeldIn(conns')
  BY <1>1, HoldersAre
<1>4. Holders \subseteq Modems
  BY <1>3 DEF HeldIn
<1>5. \A n \in Modems : n # m => Known(n)'
  BY <1>1 DEF Known
<1>6. Gives(m)' => Known(m)'
  BY <1>1 DEF Known
<1>7. \A p, n \in Modems : Took(conns, p, n) => p # n /\ \A q \in Modems : Took(conns, p, q) => n = q
  BY TookFacts
<1>8. CASE \A p \in Modems : ~Took(conns, p, m)
  <2>1. \A p, n \in Modems : Took(conns', p, n) <=> Took(conns, p, n)
    BY <1>2, <1>8
  <2>2. Holders' = Holders
    BY <1>2, <1>3, <2>1 DEF HeldIn
  <2>3. InOrder' /\ Chain' = Chain
    BY <1>4, <2>1, <2>2, SameList DEF Ordered
  <2>4. conns[m].changes = {}
    <3> SUFFICES ASSUME conns[m].changes # {} PROVE FALSE
      OBVIOUS
    <3>1. PICK p \in Modems : MovedBy(conns, p, m)
      BY DEF Chained, Linked
    <3>2. PICK c \in conns[p].changes : c.repl \in conns[m].routes
      BY <3>1 DEF MovedBy
    <3>3. c.repl.iface = m /\ c.repl.iface = c.orig.iface /\ conns[p].tracked
      BY <3>2, ChainFacts
    <3> QED
      BY <1>8, <3>3 DEF Took
  <2>5. Gives(m)'
    BY <1>2, <2>4 DEF Gives
  <2> QED
    BY <1>5, <1>6, <2>3, <2>5 DEF Ordered
<1>9. ASSUME NEW q \in Modems, Took(conns, q, m) PROVE Ordered' /\ Abstract!Retire(m)
  <2>1. PICK s : Lists(s, Holders, conns)
    BY DEF Ordered, InOrder
  <2>2. s \in Seq(Modems) /\ Len(s) \in Nat /\ DOMAIN s = 1 .. Len(s) /\ \A i \in 1 .. Len(s) : s[i] \in Modems
    BY <2>1 DEF Lists
  <2>3. m \in Holders
    BY <1>3, <1>9 DEF HeldIn
  <2>4. PICK i \in 1 .. Len(s) : s[i] = m
    BY <2>1, <2>2, <2>3 DEF Lists
  <2>5. s # <<>> /\ \A p \in Modems : ~Took(conns, p, s[1])
    BY <2>1, <2>2, <2>4 DEF Lists
  <2>6. i > 1 /\ 1 \in 1 .. Len(s)
    <3>1. i # 1
      BY <1>9, <2>4, <2>5
    <3> QED
      BY <2>2, <3>1
  <2>7. Holders' = Holders \ {m}
    <3>1. ASSUME NEW n \in Modems, n # m
          PROVE  (\E p \in Modems : Took(conns', p, n)) <=> (\E p \in Modems : Took(conns, p, n))
      <4>1. ASSUME NEW p \in Modems, Took(conns', p, n) PROVE \E r \in Modems : Took(conns, r, n)
        BY <1>2, <4>1
      <4>2. ASSUME NEW p \in Modems, Took(conns, p, n) PROVE \E r \in Modems : Took(conns', r, n)
        <5>1. p = m => Took(conns', q, n)
          BY <1>2, <1>9, <4>2
        <5>2. p # m => Took(conns', p, n)
          BY <1>2, <1>7, <3>1, <4>2
        <5> QED
          BY <5>1, <5>2
      <4> QED
        BY <4>1, <4>2
    <3>2. \A p \in Modems : ~Took(conns', p, m)
      BY <1>2, <1>7
    <3>3. \A n \in Modems : n # m => (n \in HeldIn(conns') <=> n \in HeldIn(conns))
      BY <1>2, <3>1 DEF HeldIn
    <3>4. m \notin HeldIn(conns')
      BY <1>2, <3>2 DEF HeldIn
    <3>5. HeldIn(conns) \subseteq Modems /\ HeldIn(conns') \subseteq Modems
      BY DEF HeldIn
    <3> QED
      BY <1>3, <3>3, <3>4, <3>5
  <2>8. \A p, n \in Holders \ {m} : Took(conns, p, n) => Took(conns', p, n)
    BY <1>2, <1>4, <1>7
  <2>9. \A p, n, r \in Holders \ {m} : Took(conns', p, n) /\ Took(conns', p, r) => n = r
    BY <1>2, <1>4, <1>7
  <2>10. i < Len(s) => Took(conns', s[i - 1], s[i + 1])
    <3> SUFFICES ASSUME i < Len(s) PROVE Took(conns', s[i - 1], s[i + 1])
      OBVIOUS
    <3>1. /\ i - 1 \in 1 .. Len(s) /\ i + 1 \in 1 .. Len(s) /\ (i - 1) + 1 = i
          /\ i - 1 \in 1 .. Len(s) - 1 /\ i \in 1 .. Len(s) - 1
      BY <2>2, <2>6
    <3>2. Took(conns, s[i - 1], s[i]) /\ Took(conns, s[i], s[i + 1])
      BY <2>1, <3>1 DEF Lists
    <3> QED
      BY <1>2, <2>2, <2>4, <3>1, <3>2
  <2>11. \A p \in Modems : ~Took(conns', p, s[1])
    BY <1>2, <2>2, <2>5, <2>6
  <2>12. Lists(RemoveAt(s, i), Holders \ {s[i]}, conns')
    BY <2>1, <2>4, <2>6, <2>8, <2>9, <2>10, <2>11, Dropped
  <2>13. Lists(RemoveAt(s, i), Holders', conns')
    BY <2>4, <2>7, <2>12
  <2>14. Chain = s /\ Chain' = RemoveAt(s, i)
    BY <2>1, <2>13, ChainIs
  <2>15. Abstract!Retire(m)
    BY <2>2, <2>4, <2>14 DEF Abstract!Retire, Abstract!RemoveAt, RemoveAt
  <2>16. Gives(m)'
    <3> SUFFICES ASSUME NEW c \in conns'[m].changes, NEW n \in Modems, c.orig.iface = n
                 PROVE  n # m /\ ~conns'[m].dflt /\ \E p \in Modems \ {m} : Took(conns', p, n)
      BY DEF Gives
    <3>1. Took(conns, m, n)
      BY <1>2 DEF Took
    <3>2. Took(conns', q, n) /\ q # m /\ n # m
      BY <1>2, <1>7, <1>9, <3>1
    <3> QED
      BY <1>2, <3>2
  <2> QED
    BY <1>5, <1>6, <2>13, <2>15, <2>16 DEF Ordered, InOrder
<1> QED
  BY <1>8, <1>9

\* Sync is one or the other.
LEMMA OrderedSync ==
  ASSUME OneAtATime, TypeOK, Ordered, NEW m \in Modems, Busy(m), Syncing(m), Sync(m)
  PROVE  Ordered' /\ (Chain' = Chain \/ Abstract!Retire(m))
<1> DEFINE o2 == [op[m] EXCEPT !.pc = "bearerDown", !.failed = @ \/ FALSE]
<1>1. /\ op[m] \in Op /\ conns \in Conns /\ Chained(conns) /\ conns[m].tracked
      /\ op[m].dflt = conns[m].dflt /\ op[m].done = conns[m].changes /\ op[m].pc = "sync"
  BY DEF TypeOK, Syncing, Cleaning, Conns
<1>2. o2.pc = "bearerDown"
  BY <1>1 DEF Op
<1>3. CASE op[m].dflt
  <2> DEFINE back == Backwards(op[m].done)
  <2>1. SyncRestore(m)
    BY <1>3 DEF Sync
  <2>2. PICK ok \in Outcomes :
          /\ conns' = [n \in Modems |-> Rerouted(conns[n], Backwards(op[m].done))]
          /\ op' = [n \in Modems |->
                      IF n = m THEN [op[n] EXCEPT !.pc = "bearerDown", !.failed = @ \/ ~ok]
                      ELSE Shared(op[n], Backwards(op[m].done))]
    BY <2>1 DEF SyncRestore
  <2>3. ok
    BY NoFault
  <2>4. o2 = [op[m] EXCEPT !.pc = "bearerDown", !.failed = @ \/ ~ok]
    BY <1>1, <2>3 DEF Op
  <2> HIDE DEF o2
  <2>5. op' = [op EXCEPT ![m] = o2]
    <3>1. \A n \in Modems : n # m => Shared(op[n], back) = op[n]
      BY DEF Shared, Busy, Quiet
    <3> QED
      BY <2>2, <2>4, <3>1 DEF TypeOK
  <2>6. conns' = [n \in Modems |-> Rerouted(conns[n], Backwards(conns[m].changes))]
    BY <1>1, <2>2
  <2> QED
    BY <1>1, <1>2, <1>3, <2>5, <2>6, OrderedSyncRestore
<1>4. CASE ~op[m].dflt
  <2> DEFINE next(n) == ChangesAfterRemoval(conns[n].changes, conns[m].routes, op[m].done)
  <2>1. SyncRemoval(m)
    BY <1>4 DEF Sync
  <2>2. PICK ok \in Outcomes :
          /\ conns' = [n \in Modems |-> IF ok /\ n \in Heirs(conns, m)
                                        THEN [conns[n] EXCEPT !.changes = next(n)]
                                        ELSE conns[n]]
          /\ op' = [op EXCEPT ![m] = [op[m] EXCEPT !.pc = "bearerDown", !.failed = @ \/ ~ok]]
    BY <2>1 DEF SyncRemoval, Goto, Heirs
  <2>3. ok
    BY NoFault
  <2>4. o2 = [op[m] EXCEPT !.pc = "bearerDown", !.failed = @ \/ ~ok]
    BY <1>1, <2>3 DEF Op
  <2> HIDE DEF o2
  <2>5. op' = [op EXCEPT ![m] = o2]
    BY <2>2, <2>4
  <2>6. conns' = [n \in Modems |->
                    IF n \in Heirs(conns, m)
                    THEN [conns[n] EXCEPT !.changes =
                            ChangesAfterRemoval(conns[n].changes, conns[m].routes, conns[m].changes)]
                    ELSE conns[n]]
    BY <1>1, <2>2, <2>3
  <2> QED
    BY <1>1, <1>2, <1>4, <2>5, <2>6, OrderedSyncRemoval
<1> QED
  BY <1>3, <1>4

\* The beginning of Connect, Disconnect and Restore is not seen.
LEMMA OrderedTeardown ==
  ASSUME TypeOK, Ordered, NEW m \in Modems, Resting, NEW o \in Op,
         op' = [op EXCEPT ![m] = Teardown(m, o)], conns' = conns
  PROVE  Ordered' /\ Chain' = Chain
<1>1. \A n \in Modems : op[n].pc = "idle" /\ Up(n) /\ (n # m => op'[n].pc = "idle")
  BY DEF Resting, Quiet, TypeOK
<1>2. CASE conns[m].tracked
  <2> DEFINE n == [[o EXCEPT !.dflt = conns[m].dflt, !.done = conns[m].changes]
                     EXCEPT !.routes = conns[m].routes,
                            !.todo = IF conns[m].dflt THEN conns[m].changes ELSE {}, !.ret = "sync",
                            !.err = FALSE, !.kept = FALSE]
             o2 == [n EXCEPT !.pc = UnroutePC(n)]
  <2>1. op'[m] = o2
    BY <1>2 DEF Teardown, CleanupTracked, Cleanup, TypeOK
  <2>2. UnroutePC(n) \in {"unroute", "restoreAdd", "dropState"}
    <3> HIDE DEF n
    <3> QED
      BY DEF UnroutePC, RestorePC
  <2>3. o2.pc = UnroutePC(n)
    BY DEF Op
  <2> HIDE DEF n, o2
  <2>4. Known(m)' /\ op'[m].pc # "track"
    BY <2>1, <2>2, <2>3 DEF Known
  <2> QED
    BY <1>1, <2>4, Undisturbed DEF Ordered
<1>3. CASE ~conns[m].tracked
  <2> DEFINE o2 == Stale(o, "forget")
  <2>1. op'[m] = o2
    BY <1>1, <1>3 DEF Teardown, TypeOK, Up
  <2>2. o2.pc = "stale"
    BY DEF Stale, Op
  <2> HIDE DEF o2
  <2>3. Known(m)' /\ op'[m].pc # "track"
    BY <1>3, <2>1, <2>2 DEF Known
  <2> QED
    BY <1>1, <2>3, Undisturbed DEF Ordered
<1> QED
  BY <1>2, <1>3

\* Neither is a tick of the monitor: it recovers what memory knows.
LEMMA OrderedKeepAlive ==
  ASSUME OneAtATime, TypeOK, Ordered, NEW m \in Modems, Resting, KeepAlive(m)
  PROVE  Ordered' /\ Chain' = Chain
<1> DEFINE o  == [NoOp EXCEPT !.want = always[m].dflt, !.always = TRUE]
           ok == [o EXCEPT !.kind = "keep"]
           oc == [o EXCEPT !.kind = "connect"]
<1>1. /\ op' = [op EXCEPT ![m] = IF bearer[m] THEN Recovery(m, ok, o.want) ELSE Teardown(m, oc)]
      /\ conns' = conns
  BY DEF KeepAlive, Goto, memory
<1>2. o \in Op /\ ok \in Op /\ oc \in Op /\ ok.kind = "keep"
  <2>1. always[m].dflt \in BOOLEAN
    BY DEF TypeOK, Preference
  <2> QED
    BY <2>1 DEF NoOp, Op, PCs, Kinds
<1>3. CASE ~bearer[m]
  <2> HIDE DEF oc
  <2> QED
    BY <1>1, <1>2, <1>3, OrderedTeardown
<1>4. CASE bearer[m]
  <2>1. /\ conns \in Conns /\ Settled(conns, kernel, stored) /\ conns[m].tracked
        /\ \A n \in Modems : op[n].pc = "idle"
    BY <1>4 DEF TypeOK, Conns, Resting, Quiet, Up
  <2>2. /\ FoundRoutes(m) # {} /\ conns[m].changes = stored[m].changes
        /\ IsDefault(FoundRoutes(m)) <=> conns[m].dflt
    BY <2>1, FoundIsKnown
  <2> DEFINE found == FoundRoutes(m)
             dflt  == IF found = {} THEN o.want ELSE IsDefault(found)
             n     == [ok EXCEPT !.added = found, !.dflt = dflt, !.done = stored[m].changes]
             o2    == [n EXCEPT !.pc = IF dflt /\ ~stored[m].saved THEN "plan" ELSE Found(ok)]
  <2>3. op'[m] = o2 /\ \A k \in Modems : k # m => op'[k].pc = "idle"
    BY <1>1, <1>4, <2>1 DEF Recovery, TypeOK
  <2>4. /\ o2.pc \in {"plan", "saveAlways"} /\ o2.kind = "keep"
        /\ o2.done = conns[m].changes /\ o2.dflt = conns[m].dflt
    <3>1. Found(ok) = "saveAlways"
      BY <1>2 DEF Found
    <3>2. dflt = conns[m].dflt
      <4>1. conns[m].dflt \in BOOLEAN /\ dflt \in BOOLEAN
        BY <2>1, <2>2 DEF Conns, Connection, IsDefault
      <4> QED
        BY <2>2, <4>1
    <3> HIDE DEF dflt, ok
    <3>3. n.kind = "keep" /\ n.dflt = dflt /\ n.done = stored[m].changes
      BY <1>2 DEF Op
    <3>4. /\ o2.kind = n.kind /\ o2.dflt = n.dflt /\ o2.done = n.done
          /\ o2.pc = IF dflt /\ ~stored[m].saved THEN "plan" ELSE "saveAlways"
      BY <1>2, <3>1 DEF Op
    <3> HIDE DEF n, o2
    <3> QED
      BY <2>2, <3>2, <3>3, <3>4
  <2> HIDE DEF o2
  <2>5. Known(m)' /\ op'[m].pc # "track"
    BY <1>1, <2>1, <2>3, <2>4 DEF Known, Same
  <2> QED
    BY <1>1, <2>1, <2>3, <2>5, Undisturbed DEF Ordered
<1> QED
  BY <1>3, <1>4

\* Nor a status request, which finds nothing new.
LEMMA OrderedCurrent ==
  ASSUME OneAtATime, TypeOK, Ordered, NEW m \in Modems, Resting, Current(m)
  PROVE  Ordered' /\ Chain' = Chain
<1> DEFINE o == [NoOp EXCEPT !.kind = "current", !.always = always[m].on]
<1>1. /\ Settled(conns, kernel, stored) /\ conns \in Conns
      /\ \A n \in Modems : op[n].pc = "idle"
  BY DEF Resting, Quiet, TypeOK, Conns
<1>2. /\ o \in Op
      /\ conns[m].tracked => conns' = conns /\ op' = [op EXCEPT ![m] = Copied(m, o)]
      /\ ~conns[m].tracked => /\ conns' = [conns EXCEPT ![m] = Untracked]
                              /\ op' = [op EXCEPT ![m] = Stale(o, "forget")]
  BY CurrentIs
<1> HIDE DEF o
<1>3. Copied(m, o).pc = "report" /\ Stale(o, "forget").pc = "stale"
  BY <1>2 DEF Copied, Stale, Op
<1>4. /\ conns[m].tracked => op'[m].pc = "report"
      /\ ~conns[m].tracked => op'[m].pc = "stale"
      /\ \A n \in Modems : n # m => op'[n].pc = "idle"
  BY <1>1, <1>2, <1>3 DEF TypeOK
<1>5. ~conns[m].tracked => conns[m].changes = {} /\ ~conns[m].dflt
  BY <1>1 DEF Settled, Chained, Shaped
<1>6. \A n \in Modems : /\ conns'[n].tracked = conns[n].tracked /\ conns'[n].dflt = conns[n].dflt
                        /\ conns'[n].changes = conns[n].changes
  <2>1. CASE conns[m].tracked
    BY <1>2, <2>1
  <2>2. CASE ~conns[m].tracked
    <3>1. conns' = [conns EXCEPT ![m] = Untracked]
      BY <1>2, <2>2
    <3> QED
      BY <1>1, <1>5, <2>2, <3>1 DEF Conns, Connection, Untracked
  <2> QED
    BY <2>1, <2>2
<1>7. Known(m)' /\ op'[m].pc # "track"
  BY <1>4, <1>6 DEF Known
<1> QED
  BY <1>1, <1>4, <1>6, <1>7, Undisturbed DEF Ordered

\* And its copy of a connection is no news.
LEMMA OrderedReport ==
  ASSUME OneAtATime, TypeOK, Ordered, NEW m \in Modems, Busy(m), Reporting(m), Report(m)
  PROVE  Ordered' /\ Chain' = Chain
<1>1. conns' = conns /\ op' = [op EXCEPT ![m] = NoOp] /\ op[m].pc # "track"
  BY SerialReport DEF Reporting
<1>2. op'[m] = NoOp /\ \A n \in Modems : n # m => op[n].pc = "idle" /\ op'[n].pc = "idle"
  BY <1>1, OthersIdle
<1>3. Known(m)' /\ op'[m].pc # "track"
  BY <1>2 DEF Known, NoOp
<1> QED
  BY <1>1, <1>2, <1>3, Undisturbed DEF Ordered

\* So no beginning of an operation is seen.
LEMMA OrderedBegin ==
  ASSUME OneAtATime, TypeOK, Ordered, NEW m \in Modems, Resting,
         Connect(m) \/ Disconnect(m) \/ Restore(m) \/ KeepAlive(m) \/ Current(m)
  PROVE  Ordered' /\ Chain' = Chain
<1>1. CASE Connect(m) \/ Disconnect(m) \/ Restore(m)
  <2>1. PICK o \in Op : op' = [op EXCEPT ![m] = Teardown(m, o)]
    <3>1. CASE Connect(m)
      <4>1. PICK req \in Requests[m], ok \in Outcomes :
              op' = [op EXCEPT ![m] = Teardown(m, [NoOp EXCEPT !.kind = "connect", !.want = req.dflt,
                                                    !.always = req.always, !.failed = ~ok])]
        BY <3>1 DEF Connect, Goto
      <4> DEFINE o == [NoOp EXCEPT !.kind = "connect", !.want = req.dflt,
                                   !.always = req.always, !.failed = ~ok]
      <4>2. o \in Op
        <5>1. req.dflt \in BOOLEAN /\ req.always \in BOOLEAN
          BY ConstantsAssumption
        <5> QED
          BY <5>1 DEF NoOp, Op, PCs, Kinds
      <4> HIDE DEF o
      <4>3. op' = [op EXCEPT ![m] = Teardown(m, o)]
        BY <4>1 DEF o
      <4> QED
        BY <4>2, <4>3
    <3>2. CASE Disconnect(m)
      <4>1. PICK ok \in Outcomes :
              op' = [op EXCEPT ![m] = Teardown(m, [NoOp EXCEPT !.kind = "disconnect", !.failed = ~ok])]
        BY <3>2 DEF Disconnect, Goto
      <4> DEFINE o == [NoOp EXCEPT !.kind = "disconnect", !.failed = ~ok]
      <4>2. o \in Op
        BY DEF NoOp, Op, PCs, Kinds
      <4> HIDE DEF o
      <4>3. op' = [op EXCEPT ![m] = Teardown(m, o)]
        BY <4>1 DEF o
      <4> QED
        BY <4>2, <4>3
    <3>3. CASE Restore(m)
      <4> DEFINE o == [NoOp EXCEPT !.kind = "restore"]
      <4>1. op' = [op EXCEPT ![m] = Teardown(m, o)]
        BY <3>3 DEF Restore, Goto
      <4>2. o \in Op
        BY DEF NoOp, Op, PCs, Kinds
      <4> HIDE DEF o
      <4> QED
        BY <4>1, <4>2
    <3> QED
      BY <1>1, <3>1, <3>2, <3>3
  <2>2. conns' = conns
    BY <1>1 DEF Connect, Disconnect, Restore, memory
  <2> QED
    BY <2>1, <2>2, OrderedTeardown
<1>2. CASE KeepAlive(m)
  BY <1>2, OrderedKeepAlive
<1>3. CASE Current(m)
  BY <1>3, OrderedCurrent
<1> QED
  BY <1>1, <1>2, <1>3

\* Every step of an operation keeps the list, puts a modem on top or retires one.
LEMMA OrderedStep ==
  ASSUME OneAtATime, TypeOK, Ordered, NEW m \in Modems, Busy(m), ModemStep(m)
  PROVE  Ordered' /\ (Chain' = Chain \/ Abstract!Promote(m) \/ Abstract!Retire(m))
<1>1. CASE \/ Unrouting(m) /\ Unroute(m)
           \/ Restoring(m) /\ RestoreAdd(m)
           \/ Deleting(m) /\ RestoreDel(m)
           \/ Dropping(m) /\ DropState(m)
  <2>1. Cleaning(m)
    BY <1>1 DEF Unrouting, Restoring, Deleting, Dropping
  <2> QED
    BY <1>1, <2>1, OrderedCleaning
<1>2. CASE Syncing(m) /\ Sync(m)
  BY <1>2, OrderedSync
<1>3. CASE Leaving(m) /\ (BearerDown(m) \/ LoadStale(m) \/ Forget(m))
  BY <1>3, OrderedLeaving, OrderedForget
<1>4. CASE Arriving(m) /\ (BearerUp(m) \/ LoadStale(m) \/ Plan(m))
  BY <1>4, OrderedArriving
<1>5. CASE Moving(m) /\ (MoveDel(m) \/ MoveAdd(m))
  BY <1>5, OrderedMoving
<1>6. CASE Adding(m) /\ AddRoute(m)
  BY <1>6, OrderedAdding
<1>7. CASE Saving(m) /\ (SaveAlways(m) \/ Commit(m))
  BY <1>7, OrderedSaveAlways, OrderedCommit
<1>8. CASE Tracking(m) /\ (Plan(m) \/ SaveAlways(m) \/ Track(m))
  BY <1>8, OrderedPlanAgain, OrderedSaveAlways, OrderedTrack
<1>10. CASE Reporting(m) /\ Report(m)
  BY <1>10, OrderedReport
<1>9. \/ Unrouting(m) /\ Unroute(m)
      \/ Restoring(m) /\ RestoreAdd(m)
      \/ Deleting(m) /\ RestoreDel(m)
      \/ Dropping(m) /\ DropState(m)
      \/ Syncing(m) /\ Sync(m)
      \/ Leaving(m) /\ (BearerDown(m) \/ LoadStale(m) \/ Forget(m))
      \/ Arriving(m) /\ (BearerUp(m) \/ LoadStale(m) \/ Plan(m))
      \/ Moving(m) /\ (MoveDel(m) \/ MoveAdd(m))
      \/ Adding(m) /\ AddRoute(m)
      \/ Saving(m) /\ (SaveAlways(m) \/ Commit(m))
      \/ Tracking(m) /\ (Plan(m) \/ SaveAlways(m) \/ Track(m))
      \/ Reporting(m) /\ Report(m)
  BY PhaseStep
<1> QED
  BY <1>10, <1>1, <1>2, <1>3, <1>4, <1>5, <1>6, <1>7, <1>8, <1>9

\* In the beginning nobody holds the default route.
LEMMA OrderedInit ==
  ASSUME Init
  PROVE  Ordered /\ Abstract!Init
<1>1. conns = [m \in Modems |-> Untracked] /\ op = [m \in Modems |-> NoOp]
  BY DEF Init
<1>2. \A m \in Modems : ~conns[m].tracked /\ op[m].pc = "idle"
  BY <1>1 DEF Untracked, NoOp
<1>3. Holders = {} /\ \A p, n \in Modems : ~Took(conns, p, n)
  BY <1>2 DEF Holders, Took
<1>4. Lists(<<>>, Holders, conns)
  BY <1>3 DEF Lists
<1>5. Chain = <<>>
  BY <1>4, ChainIs
<1>6. \A m \in Modems : Known(m)
  BY <1>2 DEF Known
<1> QED
  BY <1>4, <1>5, <1>6 DEF Ordered, InOrder, Abstract!Init

\* Every step is one of the stack or is not seen.
LEMMA OrderedNext ==
  ASSUME OneAtATime, TypeOK, SerialInv, Ordered, Next
  PROVE  Ordered' /\ [Abstract!Next]_Chain
<1>1. booting = {} /\ ~(faults < MaxFaults) /\ ~(crashes < MaxCrashes)
  BY NoFault DEF SerialInv
<1>2. PICK m \in Modems : \/ Connect(m) \/ Disconnect(m) \/ Restore(m) \/ KeepAlive(m)
                          \/ Current(m) \/ ModemStep(m)
  BY <1>1 DEF Next, Recover, BearerLost, Restart
<1>3. CASE Resting
  <2>1. ~ModemStep(m)
    BY <1>3, IdleStays DEF Resting, Quiet
  <2> QED
    BY <1>2, <1>3, <2>1, OrderedBegin
<1>4. ASSUME NEW n \in Modems, Busy(n) PROVE Ordered' /\ [Abstract!Next]_Chain
  <2>1. ModemStep(m)
    <3>1. ~CanBegin(m)
      BY <1>4, NoneBegins
    <3> QED
      BY <1>2, <3>1 DEF Connect, Disconnect, Restore, KeepAlive, Current
  <2>2. n = m
    BY <1>4, <2>1, IdleStays DEF Busy, Quiet
  <2>3. Ordered' /\ (Chain' = Chain \/ Abstract!Promote(m) \/ Abstract!Retire(m))
    BY <1>4, <2>1, <2>2, OrderedStep
  <2> QED
    BY <2>3 DEF Abstract!Next
<1> QED
  BY <1>3, <1>4 DEF SerialInv

\* The chain is about the variables of the module.
LEMMA OrderedStutter ==
  ASSUME Ordered, UNCHANGED vars
  PROVE  Ordered' /\ Chain' = Chain
<1>1. conns' = conns /\ op' = op
  BY DEF vars, memory
<1>2. Holders' = Holders
  BY <1>1 DEF Holders, TookFrom, Taking
<1>3. Holders \subseteq Modems
  BY DEF Holders
<1>4. \A p, n \in Modems : Took(conns', p, n) <=> Took(conns, p, n)
  BY <1>1
<1>5. InOrder' /\ Chain' = Chain
  BY <1>2, <1>3, <1>4, SameList DEF Ordered
<1>6. \A m \in Modems : Known(m)'
  BY <1>1 DEF Ordered, Known, Same, TakesTop, TakesNone, Gives, Chained
<1> QED
  BY <1>5, <1>6 DEF Ordered

\* Of connections that follow each other without a failure, the newest one that
\* asked for the default route and is still there has it, in whatever order they
\* come and go (takeoverDefaultRoutes, syncDefaultRouteTakeover,
\* syncCleanedUpDefaultRouteState): InternetRoutes implements DefaultRouteStack.
THEOREM LastComeFirstServedInSeries ==
  ASSUME OneAtATime
  PROVE  Spec => LastComeFirstServed
<1>1. Init => Ordered /\ Abstract!Init
  BY OrderedInit
<1>2. TypeOK /\ SerialInv /\ Ordered /\ [Next]_vars => Ordered' /\ [Abstract!Next]_Chain
  BY OrderedNext, OrderedStutter
<1> QED
  BY <1>1, <1>2, TypeCorrect, Serial, PTL DEF Spec, LastComeFirstServed, Abstract!Spec
=============================================================================
