--------------------------- MODULE InternetRoutes ---------------------------
(***************************************************************************)
(* The default routes of the internet connector (internal/pkg/internet):   *)
(* how connecting a modem with "default route" moves the host's own routes *)
(* out of the way, records the move in the database, demotes the modem     *)
(* that was preferred before, and how disconnecting, a failed connect, a   *)
(* restart or a lost bearer puts everything back.                          *)
(*                                                                         *)
(* One step is one call that leaves the process: a netlink request, a      *)
(* database write, a ModemManager call. Operations of one modem exclude    *)
(* each other (Connector.lockModem); operations of different modems        *)
(* interleave at those calls, except where the code holds Connector.mu.    *)
(*                                                                         *)
(* Abstractions: the bearer of a modem has one network interface, named    *)
(* here by the modem itself; gateway, source, protocol and scope of a      *)
(* route are functions of its interface and family; addresses, proxy and   *)
(* DNS are left out; a list of changes is the set of its members, visited  *)
(* in the order in which the kernel dumps routes.                          *)
(***************************************************************************)
EXTENDS Integers, FiniteSets

CONSTANTS
  Modems,        \* modems, each naming the network interface of its bearer
  Wans,          \* the host's other interfaces
  Families,      \* address families (4, 6)
  FamiliesOf,    \* FamiliesOf[m]: the families a bearer of m gets addresses for
  HostRoutes,    \* the host's default routes before any modem connects
  Requests,      \* Requests[m]: the connect requests users make for m
  MaxFaults,     \* bound: calls that fail without a reason in the model
  Restarts,      \* what restarts: the machine (TRUE), the process (FALSE)
  MaxCrashes,    \* bound: restarts
  MaxBusy,       \* how many modems may be inside an operation at once
  MaxChanges     \* bound: no operation begins while a record has more changes

DefaultRouteMetric   == 10
SecondaryRouteMetric == 9000

Ifaces == Modems \cup Wans
Route  == [iface : Ifaces, fam : Families, metric : Nat]
Change == [orig : Route, repl : Route]

ASSUME ConstantsAssumption ==
  /\ Modems \cap Wans = {}
  /\ Families \subseteq Nat
  /\ FamiliesOf \in [Modems -> (SUBSET Families) \ {{}}]
  /\ HostRoutes \subseteq [iface : Wans, fam : Families, metric : Nat]
  /\ \A r, s \in HostRoutes : r.fam = s.fam /\ r.metric = s.metric => r = s
  /\ Requests \in [Modems -> SUBSET [dflt : BOOLEAN, always : BOOLEAN]]
  /\ Restarts \subseteq BOOLEAN
  /\ MaxFaults \in Nat /\ MaxCrashes \in Nat /\ MaxBusy \in Nat
  /\ MaxChanges \in Nat

VARIABLES
  kernel,   \* default routes of the main table
  stored,   \* persisted route state of each interface
  always,   \* persisted always-on preference of each modem's profile
  conns,    \* Connector.connections: the tracked connection of each modem
  pref,     \* DefaultRoute of Connector.preferences, FALSE without an entry
  bearer,   \* is a bearer of the modem connected (state of ModemManager)
  addrs,    \* interfaces of modems that have the bearer's addresses
  op,       \* the operation that holds the modem's lock
  booting,  \* modems the startup recovery has not reached yet
  faults, crashes

disk   == <<stored, always>>
memory == <<conns, pref>>
link   == <<bearer, addrs>>
vars   == <<kernel, disk, memory, link, op, booting, faults, crashes>>

Entry      == [saved : BOOLEAN, preferred : SUBSET Route, changes : SUBSET Change]
Preference == [on : BOOLEAN, dflt : BOOLEAN]
Connection == [tracked : BOOLEAN, routes : SUBSET Route, changes : SUBSET Change,
               dflt : BOOLEAN, always : BOOLEAN]

NoEntry   == [saved |-> FALSE, preferred |-> {}, changes |-> {}]
Untracked == [tracked |-> FALSE, routes |-> {}, changes |-> {}, dflt |-> FALSE, always |-> FALSE]
AlwaysOff == [on |-> FALSE, dflt |-> FALSE]

PCs == {"idle", "unroute", "restoreAdd", "restoreDel", "dropState", "sync",
        "bearerDown", "stale", "forget", "bearerUp", "plan", "moveDel",
        "moveAdd", "moveUndo", "addRoute", "saveAlways", "commit", "track", "abort",
        "report", "lookup"}

\* kind: the entry point; want, always: DefaultRoute and AlwaysOn of the
\* preferences the operation works for; dflt: DefaultRoute of the connection
\* it is cleaning up or has found; routes: own routes still to add or delete;
\* added: own routes in place; todo, done: changes ahead and behind; ret: what
\* follows the clean-up or the stale restore under way; err: did it fail;
\* kept: in a way that the record has to stay; failed: did an earlier part of
\* the operation fail.
Kinds == {"none", "connect", "disconnect", "restore", "current", "recover", "keep"}
Op == [pc : PCs, kind : Kinds,
       dflt : BOOLEAN, want : BOOLEAN, always : BOOLEAN,
       routes : SUBSET Route, added : SUBSET Route,
       todo : SUBSET Change, done : SUBSET Change,
       ret : {"none", "sync", "bearerDown", "abort", "forget", "plan"},
       err : BOOLEAN, kept : BOOLEAN, failed : BOOLEAN]

NoOp == [pc |-> "idle", kind |-> "none", dflt |-> FALSE, want |-> FALSE, always |-> FALSE,
         routes |-> {}, added |-> {}, todo |-> {}, done |-> {},
         ret |-> "none", err |-> FALSE, kept |-> FALSE, failed |-> FALSE]

-----------------------------------------------------------------------------
(* Routes: what the kernel does with a request, and the plan of a takeover. *)

\* NLM_F_EXCL: the kernel refuses a second route of one family and metric.
MetricTaken(K, r) == \E x \in K : x.fam = r.fam /\ x.metric = r.metric

\* A route is refused unless its source address is on its interface.
Sourced(r) == r.iface \in Wans \cup addrs

Accepted(r) == Sourced(r) /\ ~MetricTaken(kernel, r)

\* Mutant of Unaddressed: the addresses go, the routes stay.
StillAddressed(m) == kernel

\* DeleteAddress: the kernel drops the IPv4 routes whose source it was.
Unaddressed(m) == {r \in kernel : r.iface # m \/ r.fam # 4}

\* A request to delete metric 0 carries no priority and matches any; the
\* kernel deletes its first match. Deleting a missing route is no error.
Without(K, r) ==
  LET hits == {x \in K : /\ x.iface = r.iface /\ x.fam = r.fam
                         /\ r.metric = 0 \/ x.metric = r.metric}
  IN  K \ {x \in hits : \A y \in hits : x.metric <= y.metric}

\* The order of a route dump: family by family, metrics ascending.
Precedes(r, s) == r.fam < s.fam \/ (r.fam = s.fam /\ r.metric < s.metric)

IsFirst(c, C) == c \in C /\ \A d \in C : ~Precedes(d.orig, c.orig)
IsLast(c, C)  == c \in C /\ \A d \in C : ~Precedes(c.orig, d.orig)

\* The routes a takeover moves: as good as the best preferred one, or better.
Moved(current, preferred) ==
  {r \in current \ preferred :
     /\ \E p \in preferred : p.fam = r.fam
     /\ \A p \in preferred : p.fam = r.fam => r.metric <= p.metric}

UsedMetrics(r, current, f) ==
  {x.metric : x \in {y \in current : y.fam = r.fam}}
    \cup {f[s] : s \in {y \in DOMAIN f : y.fam = r.fam /\ y.metric < r.metric}}

FallbackBase(r) == DefaultRouteMetric + r.metric + 1

\* f[r] is the first metric from FallbackBase(r) on that is not in use.
IsFallback(f, r, current) ==
  /\ f[r] >= FallbackBase(r)
  /\ f[r] \notin UsedMetrics(r, current, f)
  /\ \A k \in FallbackBase(r)..(f[r] - 1) : k \in UsedMetrics(r, current, f)

\* Wide enough for every fallback metric: one past every metric in use.
FallbackMetrics(current, moved) ==
  UNION {FallbackBase(r)..(FallbackBase(r) + 2 * Cardinality(current)) : r \in moved}

Replaced(r, metric) == [r EXCEPT !.metric = metric]

\* defaultRouteChanges(current, preferred), as the set of its results (one).
DefaultRouteChanges(current, preferred) ==
  LET moved == Moved(current, preferred)
      plans == {f \in [moved -> FallbackMetrics(current, moved)] :
                  \A r \in moved : IsFallback(f, r, current)}
  IN  {{[orig |-> r, repl |-> Replaced(r, f[r])] : r \in moved} : f \in plans}

\* secondaryRouteMetricFor, as the set of its results (one).
SecondaryMetrics(fams, current) ==
  LET inUse(k) == \E x \in current : x.fam \in fams /\ x.metric = k
  IN  {k \in SecondaryRouteMetric..(SecondaryRouteMetric + Cardinality(current)) :
         /\ ~inUse(k)
         /\ \A j \in SecondaryRouteMetric..(k - 1) : inUse(j)}

\* Mutant of IsDefault: the boundary is off by one.
IsBelowDefault(routes) == \E r \in routes : r.metric < DefaultRouteMetric

\* routeStateFromRoutes: is the best of the routes a preferred one.
IsDefault(routes) == \E r \in routes : r.metric <= DefaultRouteMetric

OwnRoutes(m, metric) == {[iface |-> m, fam |-> f, metric |-> metric] : f \in FamiliesOf[m]}

\* The routes recovery and the clean-up of an untracked bearer assume: every
\* family of the bearer at the best metric found on its interface.
FoundRoutes(m) ==
  LET mine == {r \in kernel : r.iface = m}
  IN  UNION {OwnRoutes(m, r.metric) :
               r \in {x \in mine : \A y \in mine : x.metric <= y.metric}}

\* Mutant of Recorded: only the routes that take over are recorded.
RecordedPreferred(preferred, changes) == [saved |-> TRUE, preferred |-> preferred, changes |-> {}]

\* The record of a takeover, putRouteState.
Recorded(preferred, changes) == [saved |-> TRUE, preferred |-> preferred, changes |-> changes]

-----------------------------------------------------------------------------
(* Operations: where a step goes next. *)

\* preferenceWithAlwaysOn: the persisted preference before the one in memory.
DefaultPreferred(m) == IF always[m].on THEN always[m].dflt ELSE pref[m]

\* A call may fail for a reason outside the model, MaxFaults times.
Outcomes == {TRUE} \cup {b \in {FALSE} : faults < MaxFaults}
Counted(ok) == faults' = IF ok THEN faults ELSE faults + 1

Goto(m, o) == op' = [op EXCEPT ![m] = o]

\* Mutant of RestorePC: nothing is restored.
RestoreNothing(o) == "dropState"

RestorePC(o) == IF o.todo # {} THEN "restoreAdd" ELSE "dropState"
UnroutePC(o) == IF o.routes # {} THEN "unroute" ELSE RestorePC(o)

\* cleanupApplied, and restoreStaleDefaultRouteState: delete the routes,
\* restore the changes, delete the record, go on at ret.
Cleanup(o, routes, changes, ret) ==
  LET n == [o EXCEPT !.routes = routes, !.todo = changes, !.ret = ret,
                      !.err = FALSE, !.kept = FALSE]
  IN  [n EXCEPT !.pc = UnroutePC(n)]

Stale(o, ret) == [o EXCEPT !.pc = "stale", !.ret = ret, !.err = FALSE]

\* The clean-up of a tracked connection: a demoted one drops its changes.
CleanupTracked(m, o) ==
  Cleanup([o EXCEPT !.dflt = conns[m].dflt, !.done = conns[m].changes],
          conns[m].routes, IF conns[m].dflt THEN conns[m].changes ELSE {}, "sync")

\* The tracked connection as a status request copies it.
Copied(m, o) ==
  LET t == conns[m]
  IN  [o EXCEPT !.pc = "report", !.added = t.routes, !.done = t.changes,
                !.dflt = t.dflt, !.always = t.always]

\* The three ways into Connector.disconnect: tracked, connected but not
\* tracked, and no connected bearer.
Teardown(m, o) ==
  CASE conns[m].tracked -> CleanupTracked(m, o)
    [] ~conns[m].tracked /\ bearer[m] -> Cleanup(o, FoundRoutes(m), stored[m].changes, "bearerDown")
    [] OTHER -> Stale(o, "forget")

\* A recovered connection is tracked; the monitor first saves its preference.
Found(o) == IF o.kind = "keep" THEN "saveAlways" ELSE "track"

\* recoverTrackedConnection: what is known of a connected, untracked bearer
\* comes from the kernel and the database; fallback is the preference that
\* decides when no own route of the bearer is in place.
Recovery(m, o, fallback) ==
  LET found == FoundRoutes(m)
      dflt  == IF found = {} THEN fallback ELSE IsDefault(found)
      n     == [o EXCEPT !.added = found, !.dflt = dflt, !.done = stored[m].changes]
  IN  [n EXCEPT !.pc = IF dflt /\ ~stored[m].saved THEN "plan" ELSE Found(o)]

\* What follows the last moved route: add the own ones, or track them.
Settle(m, o) ==
  IF o.kind = "connect"
  THEN [o EXCEPT !.pc = "addRoute", !.routes = OwnRoutes(m, DefaultRouteMetric), !.dflt = TRUE]
  ELSE [o EXCEPT !.pc = Found(o)]

\* A takeover gives up with the changes in done applied. A connect undoes
\* them; a recovery only drops the record, and only when nothing was moved.
BackOut(o, done) ==
  LET n == [o EXCEPT !.done = done, !.failed = TRUE]
  IN  IF o.kind = "connect" THEN Cleanup(n, {}, done, "abort")
      ELSE IF done = {} THEN Cleanup(n, {}, {}, "forget") ELSE NoOp

\* The tracked connection after its routes were moved as the changes say.
Rerouted(t, changes) ==
  LET hit    == {c \in changes : c.orig \in t.routes}
      routes == (t.routes \ {c.orig : c \in hit}) \cup {c.repl : c \in hit}
  IN  IF hit = {} THEN t ELSE [t EXCEPT !.routes = routes, !.dflt = IsDefault(routes)]

Backwards(changes) == {[orig |-> c.repl, repl |-> c.orig] : c \in changes}

\* Mutant of ChangesAfterRemoval: nothing is inherited.
ChangesWithoutRemoved(changes, routes, inherited) == {c \in changes : c.repl \notin routes}

\* defaultRouteChangesAfterRemoval: what moved the removed connection's route
\* aside is replaced by what the removed connection itself had moved aside.
ChangesAfterRemoval(changes, routes, inherited) ==
  LET gone == {c \in changes : c.repl \in routes}
  IN  IF gone = {} THEN changes ELSE (changes \ gone) \cup inherited

\* The routes of a tracked connection are one slice with those its clean-up
\* loop is deleting, and with those of the copy that a status request has
\* taken: both see them rerouted.
Shared(o, changes) ==
  LET slice(routes) == Rerouted([Untracked EXCEPT !.routes = routes], changes).routes
  IN  IF o.pc = "unroute" /\ o.ret = "sync" THEN [o EXCEPT !.routes = slice(o.routes)]
      ELSE IF o.pc = "report" THEN [o EXCEPT !.added = slice(o.added)]
      ELSE o

-----------------------------------------------------------------------------
(* Entry points. *)

\* clearAlwaysOnState, what a user's connect and disconnect begin with.
Clear(m, ok) ==
  /\ pref' = [pref EXCEPT ![m] = DefaultPreferred(m)]
  /\ always' = IF ok THEN [always EXCEPT ![m] = AlwaysOff] ELSE always
  /\ Counted(ok)

AtRest == booting = {} /\ \A m \in Modems : op[m].pc = "idle"

CanBegin(m) ==
  /\ booting = {}
  /\ op[m].pc = "idle"
  /\ Cardinality({n \in Modems : op[n].pc # "idle"}) < MaxBusy
  /\ \A n \in Modems : Cardinality(stored[n].changes) <= MaxChanges

Connect(m) ==
  /\ CanBegin(m)
  /\ \E req \in Requests[m], ok \in Outcomes :
       /\ Clear(m, ok)
       /\ Goto(m, Teardown(m, [NoOp EXCEPT !.kind = "connect", !.want = req.dflt,
                                           !.always = req.always, !.failed = ~ok]))
  /\ UNCHANGED <<kernel, stored, conns, link, booting, crashes>>

Disconnect(m) ==
  /\ CanBegin(m)
  /\ \E ok \in Outcomes :
       /\ Clear(m, ok)
       /\ Goto(m, Teardown(m, [NoOp EXCEPT !.kind = "disconnect", !.failed = ~ok]))
  /\ UNCHANGED <<kernel, stored, conns, link, booting, crashes>>

\* Restore, before an eSIM profile is switched: the preference stays on disk.
Restore(m) ==
  /\ CanBegin(m)
  /\ Goto(m, Teardown(m, [NoOp EXCEPT !.kind = "restore"]))
  /\ UNCHANGED <<kernel, disk, memory, link, booting, faults, crashes>>

\* restoreAlwaysOn, for one modem, from a tick of RunAlwaysOn: a connected
\* bearer is recovered again, known or not; otherwise connect anew.
KeepAlive(m) ==
  /\ CanBegin(m)
  /\ always[m].on
  /\ LET o == [NoOp EXCEPT !.want = always[m].dflt, !.always = TRUE]
     IN  Goto(m, IF bearer[m] THEN Recovery(m, [o EXCEPT !.kind = "keep"], o.want)
                 ELSE Teardown(m, [o EXCEPT !.kind = "connect"]))
  /\ UNCHANGED <<kernel, disk, memory, link, booting, faults, crashes>>

\* Current for a connection that is not tracked, or no longer: a connected
\* bearer is adopted.
LookUp(m, o, fallback) == IF bearer[m] THEN Recovery(m, o, fallback) ELSE Stale(o, "forget")

\* Current: a status request that cleans up after a bearer that went down and
\* adopts a connected bearer it does not know. A tracked bearer that cannot be
\* read is forgotten and looked up again. The tracked connection is copied; of
\* one that is connected the copy is written back (Report).
Current(m) ==
  /\ CanBegin(m)
  /\ \E readable \in Outcomes :
       LET tracked  == conns[m].tracked /\ readable
           lost     == conns[m].tracked /\ ~readable
           fallback == IF lost THEN conns[m].dflt ELSE DefaultPreferred(m)
           o == [NoOp EXCEPT !.kind = "current",
                             !.always = IF lost THEN conns[m].always ELSE always[m].on]
       IN  /\ ~readable => conns[m].tracked
           /\ Counted(readable)
           /\ conns' = [conns EXCEPT ![m] = IF tracked THEN @ ELSE Untracked]
           /\ Goto(m, CASE tracked /\ bearer[m] -> Copied(m, o)
                         [] tracked /\ ~bearer[m] -> CleanupTracked(m, o)
                         [] OTHER -> LookUp(m, o, fallback))
  /\ UNCHANGED <<kernel, disk, pref, link, booting, crashes>>

\* What the operation knows of the connection becomes what memory knows.
Remember(m, o) ==
  /\ conns' = [conns EXCEPT ![m] = [tracked |-> TRUE, routes |-> o.added, changes |-> o.done,
                                    dflt |-> o.dflt, always |-> o.always]]
  /\ pref' = [pref EXCEPT ![m] = o.dflt]

\* The copy a status request took before it asked ModemManager is written
\* back, over what other modems' operations have made of the connection since.
\* Then the bearer is read again, or else forgotten.
Report(m) ==
  /\ op[m].pc = "report"
  /\ Remember(m, op[m])
  /\ \E readable \in Outcomes :
       /\ Counted(readable)
       /\ Goto(m, IF readable THEN NoOp
                  ELSE [NoOp EXCEPT !.pc = "lookup", !.kind = "current",
                                    !.dflt = op[m].dflt, !.always = op[m].always])
  /\ UNCHANGED <<kernel, disk, link, booting, crashes>>

Forgotten(m) ==
  /\ op[m].pc = "lookup"
  /\ conns' = [conns EXCEPT ![m] = Untracked]
  /\ LET o == [NoOp EXCEPT !.kind = "current", !.always = op[m].always]
     IN  Goto(m, LookUp(m, o, op[m].dflt))
  /\ UNCHANGED <<kernel, disk, pref, link, booting, faults, crashes>>

\* Recover at startup: one modem after the other; a modem whose recovery fails
\* or runs out of the startup timeout is skipped.
Recover(m) ==
  /\ m \in booting
  /\ \A n \in Modems : op[n].pc = "idle"
  /\ booting' = booting \ {m}
  /\ \E reached \in Outcomes :
       LET o == [NoOp EXCEPT !.kind = "recover", !.always = always[m].on]
       IN  /\ Counted(reached)
           /\ Goto(m, CASE ~reached -> NoOp
                         [] reached /\ bearer[m] -> Recovery(m, o, DefaultPreferred(m))
                         [] OTHER -> Stale(o, "forget"))
  /\ UNCHANGED <<kernel, disk, memory, link, crashes>>

-----------------------------------------------------------------------------
(* Clean-up: delete own routes, restore what was moved, drop the record. *)

\* One netlink delete; a stale restore stops at a failure, a clean-up goes on,
\* and if it restores what was moved it drops the record all the same.
Unroute(m) ==
  /\ op[m].pc = "unroute"
  /\ \E ok \in Outcomes, r \in op[m].routes :
       LET o    == op[m]
           rest == o.routes \ {r}
           stop == ~ok /\ o.ret \in {"forget", "plan"}
           n    == [o EXCEPT !.routes = rest, !.err = @ \/ ~ok,
                             !.kept = @ \/ (~ok /\ (stop \/ o.todo = {})),
                             !.todo = IF stop THEN {} ELSE @]
       IN  /\ \A s \in rest : ~Precedes(r, s)
           /\ kernel' = IF ok THEN Without(kernel, r) ELSE kernel
           /\ Counted(ok)
           /\ Goto(m, [n EXCEPT !.pc = UnroutePC(n)])
  /\ UNCHANGED <<disk, memory, link, booting, crashes>>

\* restoreOriginalDefaultRouteWithOps: an occupied metric is no error when it
\* is the original itself that occupies it.
Restorable(r) == Sourced(r) /\ (r \in kernel \/ ~MetricTaken(kernel, r))

RestoreAdd(m) ==
  /\ op[m].pc = "restoreAdd"
  /\ \E ok \in Outcomes, c \in op[m].todo :
       LET o    == op[m]
           done == ok /\ Restorable(c.orig)
           n    == [o EXCEPT !.todo = @ \ {c}, !.err = TRUE, !.kept = TRUE]
       IN  /\ IsLast(c, o.todo)
           /\ kernel' = IF done THEN kernel \cup {c.orig} ELSE kernel
           /\ Counted(ok)
           /\ Goto(m, IF done THEN [o EXCEPT !.pc = "restoreDel"]
                             ELSE [n EXCEPT !.pc = RestorePC(n)])
  /\ UNCHANGED <<disk, memory, link, booting, crashes>>

RestoreDel(m) ==
  /\ op[m].pc = "restoreDel"
  /\ \E ok \in Outcomes, c \in op[m].todo :
       LET o == op[m]
           n == [o EXCEPT !.todo = @ \ {c}, !.err = @ \/ ~ok, !.kept = @ \/ ~ok]
       IN  /\ IsLast(c, o.todo)
           /\ kernel' = IF ok THEN Without(kernel, c.repl) ELSE kernel
           /\ Counted(ok)
           /\ Goto(m, [n EXCEPT !.pc = RestorePC(n)])
  /\ UNCHANGED <<disk, memory, link, booting, crashes>>

\* Mutant of Spent: the record never goes.
NeverSpent(o, ok) == FALSE

\* Is the record deleted: nothing it is needed for, and the database did it.
Spent(o, ok) == ok /\ ~o.kept

\* The end of a clean-up: deleteRouteState, skipped when a change could not be
\* undone, and unless only a record was restored, the bearer's addresses.
DropState(m) ==
  /\ op[m].pc = "dropState"
  /\ \E ok \in Outcomes :
       LET o    == op[m]
           bad  == o.err \/ ~ok
           next == CASE bad /\ o.ret = "plan" -> "abort"
                     [] bad /\ o.ret = "sync" /\ o.kind = "current" -> "stale"
                     [] bad /\ o.ret = "sync" /\ o.kind # "current" -> "bearerDown"
                     [] OTHER -> o.ret
           n    == [o EXCEPT !.pc = next, !.failed = @ \/ bad]
           mine == o.ret \in {"sync", "bearerDown", "abort"}
       IN  /\ stored' = IF Spent(o, ok) THEN [stored EXCEPT ![m] = NoEntry] ELSE stored
           /\ kernel' = IF mine THEN Unaddressed(m) ELSE kernel
           /\ addrs' = IF mine THEN addrs \ {m} ELSE addrs
           /\ Counted(ok)
           /\ Goto(m, IF next = "stale" THEN Stale(n, "forget") ELSE n)
  /\ UNCHANGED <<always, memory, bearer, booting, crashes>>

\* The always-on preferences of the given modems follow their connections.
SavedAlways(ms, cs) ==
  [n \in Modems |-> IF n \in ms THEN [on |-> TRUE, dflt |-> cs[n].dflt] ELSE always[n]]

\* syncDefaultRouteRestore: whoever owned a route that was moved back is
\* promoted again. A preference that cannot be written is only reported.
SyncRestore(m) ==
  LET back == Backwards(op[m].done)
      next == [n \in Modems |-> Rerouted(conns[n], back)]
      hit  == {n \in Modems : \E c \in back : c.orig \in conns[n].routes}
      keep == {n \in hit : conns[n].always}
  IN  \E ok \in Outcomes, written \in SUBSET keep :
        /\ ok <=> written = keep
        /\ conns' = next
        /\ pref' = [n \in Modems |-> IF n \in hit THEN next[n].dflt ELSE pref[n]]
        /\ always' = SavedAlways(written, next)
        /\ op' = [n \in Modems |->
                    IF n = m THEN [op[n] EXCEPT !.pc = "bearerDown", !.failed = @ \/ ~ok]
                    ELSE Shared(op[n], back)]
        /\ Counted(ok)
        /\ UNCHANGED stored

\* syncDefaultRouteRemoval: a demoted connection goes away; whoever had moved
\* its route inherits what it had moved. A failed write leaves memory alone.
SyncRemoval(m) ==
  LET heirs == {n \in Modems \ {m} : /\ conns[n].tracked
                                     /\ \E c \in conns[n].changes : c.repl \in conns[m].routes}
      next(n) == ChangesAfterRemoval(conns[n].changes, conns[m].routes, op[m].done)
      entry(n) == IF next(n) = {} THEN NoEntry
                  ELSE Recorded(conns[n].routes, next(n))
  IN  \E ok \in Outcomes, written \in SUBSET heirs :
        /\ ok <=> written = heirs
        /\ stored' = [n \in Modems |-> IF n \in written THEN entry(n) ELSE stored[n]]
        /\ conns' = [n \in Modems |-> IF ok /\ n \in heirs
                                      THEN [conns[n] EXCEPT !.changes = next(n)]
                                      ELSE conns[n]]
        /\ Counted(ok)
        /\ Goto(m, [op[m] EXCEPT !.pc = "bearerDown", !.failed = @ \/ ~ok])
        /\ UNCHANGED <<always, pref>>

\* syncCleanedUpDefaultRouteState, in one critical section of Connector.mu.
Sync(m) ==
  /\ op[m].pc = "sync"
  /\ IF op[m].dflt THEN SyncRestore(m) ELSE SyncRemoval(m)
  /\ UNCHANGED <<kernel, link, booting, crashes>>

\* disconnectBearer; a status request has no bearer to disconnect.
BearerDown(m) ==
  /\ op[m].pc = "bearerDown"
  /\ \E ok \in Outcomes :
       /\ op[m].kind = "current" => ok
       /\ bearer' = IF ok THEN [bearer EXCEPT ![m] = FALSE] ELSE bearer
       /\ Counted(ok)
       /\ Goto(m, Stale([op[m] EXCEPT !.failed = @ \/ ~ok], "forget"))
  /\ UNCHANGED <<kernel, disk, memory, addrs, booting, crashes>>

\* restoreStaleDefaultRouteStatesWithStore, scoped to the modem.
LoadStale(m) ==
  /\ op[m].pc = "stale"
  /\ \E ok \in Outcomes :
       LET o == op[m]
           e == stored[m]
       IN  /\ Counted(ok)
           /\ Goto(m, CASE ~ok /\ o.ret = "plan" -> [o EXCEPT !.pc = "abort"]
                         [] ~ok /\ o.ret # "plan" -> [o EXCEPT !.pc = o.ret, !.failed = TRUE]
                         [] ok /\ e.saved -> Cleanup(o, e.preferred \cap kernel, e.changes, o.ret)
                         [] OTHER -> [o EXCEPT !.pc = o.ret])
  /\ UNCHANGED <<kernel, disk, memory, link, booting, crashes>>

\* The end of a disconnect; a status request keeps what it could not clean up,
\* Restore drops the preference too. A connect goes on with a fresh bearer.
Forget(m) ==
  /\ op[m].pc = "forget"
  /\ LET o == op[m]
     IN  /\ conns' = IF o.kind = "keep" \/ (o.kind = "current" /\ o.failed) THEN conns
                     ELSE [conns EXCEPT ![m] = Untracked]
         /\ pref' = IF o.kind = "restore" THEN [pref EXCEPT ![m] = FALSE] ELSE pref
         /\ Goto(m, IF o.kind = "connect" /\ ~o.failed
                    THEN [NoOp EXCEPT !.kind = "connect", !.want = o.want,
                                      !.always = o.always, !.pc = "bearerUp"]
                    ELSE NoOp)
  /\ UNCHANGED <<kernel, disk, link, booting, faults, crashes>>

-----------------------------------------------------------------------------
(* Connecting: bring the bearer up, move the host's routes, add the own. *)

\* connectBearer, the addresses, and for a connection that is not the default
\* route the choice of a free secondary metric.
BearerUp(m) ==
  /\ op[m].pc = "bearerUp"
  /\ LET o == op[m]
     IN  \/ \E ok \in Outcomes \ {TRUE}, connected \in BOOLEAN :
               /\ bearer' = [bearer EXCEPT ![m] = connected]
               /\ Goto(m, IF connected THEN [o EXCEPT !.pc = "abort"] ELSE NoOp)
               /\ Counted(ok)
               /\ UNCHANGED addrs
         \/ /\ bearer' = [bearer EXCEPT ![m] = TRUE]
            /\ addrs' = addrs \cup {m}
            /\ IF o.want THEN Goto(m, Stale(o, "plan"))
               ELSE \E k \in SecondaryMetrics(FamiliesOf[m], kernel) :
                      Goto(m, [o EXCEPT !.pc = "addRoute", !.routes = OwnRoutes(m, k)])
            /\ UNCHANGED faults
  /\ UNCHANGED <<kernel, disk, memory, booting, crashes>>

\* The first half of takeoverDefaultRoutesWithStore: list, plan, and record
\* the plan before the first route is touched.
Plan(m) ==
  /\ op[m].pc = "plan"
  /\ LET o         == op[m]
         preferred == IF o.kind = "connect" THEN OwnRoutes(m, DefaultRouteMetric) ELSE o.added
         refused   == IF o.kind = "connect" THEN [o EXCEPT !.pc = "abort"] ELSE NoOp
     IN  \E ok \in Outcomes, changes \in DefaultRouteChanges(kernel, preferred) :
           /\ Counted(ok)
           /\ IF changes = {} /\ ok
              THEN Goto(m, Settle(m, o)) /\ UNCHANGED stored
              ELSE IF ok /\ ~stored[m].saved
              THEN /\ stored' = [stored EXCEPT ![m] = Recorded(preferred, changes)]
                   /\ Goto(m, [o EXCEPT !.pc = "moveDel", !.todo = changes, !.done = {}])
              ELSE Goto(m, refused) /\ UNCHANGED stored
  /\ UNCHANGED <<kernel, always, memory, link, booting, crashes>>

MoveDel(m) ==
  /\ op[m].pc = "moveDel"
  /\ \E ok \in Outcomes, c \in op[m].todo :
       /\ IsFirst(c, op[m].todo)
       /\ kernel' = IF ok THEN Without(kernel, c.orig) ELSE kernel
       /\ Counted(ok)
       /\ Goto(m, IF ok THEN [op[m] EXCEPT !.pc = "moveAdd"] ELSE BackOut(op[m], op[m].done))
  /\ UNCHANGED <<disk, memory, link, booting, crashes>>

MoveAdd(m) ==
  /\ op[m].pc = "moveAdd"
  /\ \E ok \in Outcomes, c \in op[m].todo :
       LET o     == op[m]
           added == ok /\ Accepted(c.repl)
           n     == [o EXCEPT !.todo = @ \ {c}, !.done = @ \cup {c}]
       IN  /\ IsFirst(c, o.todo)
           /\ kernel' = IF added THEN kernel \cup {c.repl} ELSE kernel
           /\ Counted(ok)
           /\ Goto(m, CASE ~added -> [o EXCEPT !.pc = "moveUndo"]
                         [] added /\ n.todo # {} -> [n EXCEPT !.pc = "moveDel"]
                         [] OTHER -> Settle(m, n))
  /\ UNCHANGED <<disk, memory, link, booting, crashes>>

\* The replacement was refused: put the original back; if that fails too, the
\* change counts as applied.
MoveUndo(m) ==
  /\ op[m].pc = "moveUndo"
  /\ \E ok \in Outcomes, c \in op[m].todo :
       LET o    == op[m]
           back == ok /\ Restorable(c.orig)
       IN  /\ IsFirst(c, o.todo)
           /\ kernel' = IF back THEN kernel \cup {c.orig} ELSE kernel
           /\ Counted(ok)
           /\ Goto(m, BackOut(o, IF back THEN o.done ELSE o.done \cup {c}))
  /\ UNCHANGED <<disk, memory, link, booting, crashes>>

AddRoute(m) ==
  /\ op[m].pc = "addRoute"
  /\ \E ok \in Outcomes, r \in op[m].routes :
       LET o     == op[m]
           added == ok /\ Accepted(r)
           rest  == o.routes \ {r}
       IN  /\ \A s \in rest : ~Precedes(s, r)
           /\ kernel' = IF added THEN kernel \cup {r} ELSE kernel
           /\ Counted(ok)
           /\ Goto(m, IF added
                      THEN [o EXCEPT !.routes = rest, !.added = @ \cup {r},
                                     !.pc = IF rest = {} THEN "saveAlways" ELSE "addRoute"]
                      ELSE Cleanup([o EXCEPT !.failed = TRUE], o.added, o.done, "abort"))
  /\ UNCHANGED <<disk, memory, link, booting, crashes>>

\* The clean-up of a connection that was configured but could not be recorded.
Undo(o) == Cleanup([o EXCEPT !.failed = TRUE], o.added, IF o.want THEN o.done ELSE {}, "abort")

\* Proxy state, then syncAlwaysOnState.
SaveAlways(m) ==
  /\ op[m].pc = "saveAlways"
  /\ \E ok \in Outcomes :
       LET o == op[m]
       IN  /\ always' = IF ~ok THEN always
                        ELSE [always EXCEPT ![m] = IF o.always THEN [on |-> TRUE, dflt |-> o.dflt]
                                                   ELSE AlwaysOff]
           /\ Counted(ok)
           /\ Goto(m, CASE ok /\ o.kind = "connect" -> [o EXCEPT !.pc = "commit"]
                         [] ok /\ o.kind # "connect" -> [o EXCEPT !.pc = "track"]
                         [] ~ok /\ o.kind = "connect" -> Undo(o)
                         [] OTHER -> NoOp)
  /\ UNCHANGED <<kernel, stored, memory, link, booting, crashes>>

\* syncDefaultRouteTakeover: connections whose route was moved are demoted, on
\* disk (the record of the takeover once more, then the preferences) before in
\* memory. When a write fails the routes inside the shared slices are already
\* changed, DefaultRoute is not.
Commit(m) ==
  /\ op[m].pc = "commit"
  /\ LET o     == op[m]
         moved == [n \in Modems |-> Rerouted(conns[n], o.done)]
         hit   == {n \in Modems : \E c \in o.done : c.orig \in conns[n].routes}
         keep  == {n \in hit : conns[n].always}
         entry == Recorded(o.added, o.done)
         after(o2) == [n \in Modems |-> IF n = m THEN o2 ELSE Shared(op[n], o.done)]
     IN  \E ok \in Outcomes, saved \in BOOLEAN, written \in SUBSET keep :
           /\ ok => saved /\ written = keep
           /\ ~ok => hit # {}
           /\ ~saved => written = {}
           /\ stored' = IF saved /\ hit # {} THEN [stored EXCEPT ![m] = entry] ELSE stored
           /\ always' = SavedAlways(written, moved)
           /\ conns' = IF ok THEN moved
                       ELSE [n \in Modems |-> [conns[n] EXCEPT !.routes = moved[n].routes]]
           /\ pref' = [n \in Modems |-> IF ok /\ n \in hit THEN moved[n].dflt ELSE pref[n]]
           /\ op' = after(IF ok THEN [o EXCEPT !.pc = "track"] ELSE Undo(o))
           /\ Counted(ok)
  /\ UNCHANGED <<kernel, link, booting, crashes>>

\* setConnectionAndPreference; a recovery that cannot register its proxy stays
\* untracked.
Track(m) ==
  /\ op[m].pc = "track"
  /\ \E ok \in Outcomes :
       LET o == op[m]
       IN  /\ o.kind = "recover" \/ ok
           /\ Counted(ok)
           /\ IF ok THEN Remember(m, o) ELSE UNCHANGED memory
           /\ Goto(m, NoOp)
  /\ UNCHANGED <<kernel, disk, link, booting, crashes>>

\* The end of a failed connect: the addresses go, then bearer.Disconnect.
Abort(m) ==
  /\ op[m].pc = "abort"
  /\ kernel' = Unaddressed(m) /\ addrs' = addrs \ {m}
  /\ \E ok \in Outcomes :
       /\ bearer' = IF ok THEN [bearer EXCEPT ![m] = FALSE] ELSE bearer
       /\ Counted(ok)
       /\ Goto(m, NoOp)
  /\ UNCHANGED <<disk, memory, booting, crashes>>

-----------------------------------------------------------------------------
(* The environment. *)

\* The network drops a bearer; its routes stay until someone cleans up, or go
\* when its interface goes down.
BearerLost(m) ==
  /\ bearer[m] /\ faults < MaxFaults
  /\ bearer' = [bearer EXCEPT ![m] = FALSE]
  /\ faults' = faults + 1
  /\ \/ UNCHANGED <<kernel, addrs>>
     \/ kernel' = {r \in kernel : r.iface # m} /\ addrs' = addrs \ {m}
  /\ UNCHANGED <<disk, memory, op, booting, crashes>>

\* The process restarts: kernel, database and bearers survive. The machine
\* restarts: the database survives, the host has its own routes again.
Restart(machine) ==
  /\ crashes < MaxCrashes
  /\ crashes' = crashes + 1
  /\ conns' = [m \in Modems |-> Untracked]
  /\ pref' = [m \in Modems |-> FALSE]
  /\ op' = [m \in Modems |-> NoOp]
  /\ booting' = Modems
  /\ kernel' = IF machine THEN HostRoutes ELSE kernel
  /\ bearer' = IF machine THEN [m \in Modems |-> FALSE] ELSE bearer
  /\ addrs' = IF machine THEN {} ELSE addrs
  /\ UNCHANGED <<disk, faults>>

Init ==
  /\ kernel = HostRoutes
  /\ stored = [m \in Modems |-> NoEntry]
  /\ always = [m \in Modems |-> AlwaysOff]
  /\ conns = [m \in Modems |-> Untracked]
  /\ pref = [m \in Modems |-> FALSE]
  /\ bearer = [m \in Modems |-> FALSE] /\ addrs = {}
  /\ op = [m \in Modems |-> NoOp]
  /\ booting = {}
  /\ faults = 0 /\ crashes = 0

ModemStep(m) ==
  \/ Unroute(m) \/ RestoreAdd(m) \/ RestoreDel(m) \/ DropState(m) \/ Sync(m)
  \/ BearerDown(m) \/ LoadStale(m) \/ Forget(m) \/ BearerUp(m) \/ Plan(m)
  \/ MoveDel(m) \/ MoveAdd(m) \/ MoveUndo(m) \/ AddRoute(m) \/ SaveAlways(m)
  \/ Commit(m) \/ Track(m) \/ Abort(m) \/ Report(m) \/ Forgotten(m)

Next ==
  \/ \E m \in Modems : \/ Connect(m) \/ Disconnect(m) \/ Restore(m) \/ KeepAlive(m)
                        \/ Current(m) \/ Recover(m) \/ ModemStep(m) \/ BearerLost(m)
  \/ \E machine \in Restarts : Restart(machine)

Spec == Init /\ [][Next]_vars

\* Every operation ends by itself: its calls return. The monitor of always-on
\* connections ticks for ever, and a mutex of Go is not lost for ever to others.
Fairness ==
  \A m \in Modems : WF_vars(ModemStep(m)) /\ WF_vars(Recover(m)) /\ SF_vars(KeepAlive(m))

FairSpec == Spec /\ Fairness

-----------------------------------------------------------------------------
(* Properties. *)

\* The types of the state.
TypeOK ==
  /\ kernel \subseteq Route
  /\ stored \in [Modems -> Entry]
  /\ always \in [Modems -> Preference]
  /\ conns \in [Modems -> Connection]
  /\ pref \in [Modems -> BOOLEAN]
  /\ bearer \in [Modems -> BOOLEAN] /\ addrs \subseteq Modems
  /\ op \in [Modems -> Op]
  /\ booting \subseteq Modems
  /\ faults \in 0..MaxFaults /\ crashes \in 0..MaxCrashes

\* Disconnecting the last connection leaves the host with exactly the default
\* routes it had before the first one, and no record behind, in whatever order
\* connections took the default route from each other and went away, one
\* operation after the other and none failing.
AllRestored ==
  AtRest /\ (\A m \in Modems : ~conns[m].tracked)
    => kernel = HostRoutes /\ \A m \in Modems : ~stored[m].saved

\* However operations of several modems overlapped, at rest the default routes
\* in the kernel are those of the connections the connector knows, and each of
\* these has one: no route of a modem is left behind when it disconnects, by a
\* clean-up that deletes routes another takeover has moved meanwhile, and none
\* is lost. For IPv4 and without failures: an IPv6 route outlives its address.
RoutedWhileTracked ==
  AtRest => \A m \in Modems : conns[m].tracked <=> \E r \in kernel : r.iface = m

\* A connection shown as the default route is the one the kernel prefers, for
\* every family it has: no other route is as good as DefaultRouteMetric.
DefaultWins ==
  AtRest => \A m \in Modems : conns[m].tracked /\ conns[m].dflt =>
    \A r \in kernel : r.iface # m /\ r.fam \in FamiliesOf[m] => r.metric > DefaultRouteMetric

\* What memory knows of a connection is what recoverTrackedConnection would
\* rebuild from the kernel and the database: a restart at rest changes nothing,
\* and neither does a tick of the always-on monitor.
RecoverReconstructs ==
  AtRest => \A m \in Modems : conns[m].tracked =>
     /\ conns[m].routes = FoundRoutes(m)
     /\ conns[m].changes = stored[m].changes
     /\ conns[m].dflt = IsDefault(FoundRoutes(m))

\* Unless a call failed: with no connection left the host has its routes,
\* whatever else a restart of the machine in the middle of an operation has
\* left in the kernel or on disk. For IPv4: an IPv6 route that a stale record
\* put back outlives its address and may be taken for a connection's own.
HostRoutesBack ==
  AtRest /\ faults = 0 /\ (\A m \in Modems : ~conns[m].tracked) => HostRoutes \subseteq kernel

\* Before takeoverDefaultRoutes touches a route of somebody else, and for as
\* long as it is moving routes, the database holds the whole plan, whatever
\* other modems do meanwhile. Not so for the monitor's takeover of a connection
\* that is tracked: another modem's removal may rewrite the record of that one.
WriteAhead ==
  \A m \in Modems : op[m].pc \in {"moveDel", "moveAdd", "moveUndo"} /\ op[m].kind # "keep" =>
    stored[m].saved /\ op[m].todo \cup op[m].done \subseteq stored[m].changes

\* A host's default route is never gone for good: while its interface has no
\* default route in the kernel, some record still says how to put it back.
NoRouteLost ==
  \A w \in HostRoutes :
    \/ \E r \in kernel : r.iface = w.iface /\ r.fam = w.fam
    \/ \E m \in Modems : \E c \in stored[m].changes : c.orig.iface = w.iface /\ c.orig.fam = w.fam

\* A disconnect that reports success has ended "always on".
DisconnectClears ==
  \A m \in Modems : op[m].kind = "disconnect" /\ op[m].pc = "forget" /\ ~op[m].failed => ~always[m].on

\* A modem that is always on is connected again sooner or later, after an
\* unexpected disconnect and after a restart of the process or the machine.
Reconnects ==
  \A m \in Modems : always[m].on ~> \/ ~always[m].on
                                    \/ conns[m].tracked /\ bearer[m]
=============================================================================
