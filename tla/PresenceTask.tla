---------------------------- MODULE PresenceTask ----------------------------
(***************************************************************************)
(* presenceTask.Run (internal/pkg/modem/presence_runner.go): keep one task *)
(* running for every modem that is present. Two threads change its maps,   *)
(* under one mutex: Run itself, which adds the modems of a list, and the   *)
(* registry's signal loop, which adds and removes as modems come and go.   *)
(* What they cancel and start they cancel and start after the mutex is     *)
(* released.                                                               *)
(***************************************************************************)
EXTENDS ModemSignals

CONSTANTS
  Tasks,        \* identities of tasks; one that is over is used again
  None,         \* no path, no modem, no task
  QuietList,    \* environment: no modem comes or goes while the list is used
  client        \* the one client of the registry here

ASSUME PresenceAssumption ==
  /\ None \notin Paths \cup Equipment \cup Tasks
  /\ QuietList \in BOOLEAN
  /\ Clients = {client}

Threads == {"run", "signals"}

VARIABLES
  pc,          \* where Run is
  left,        \* modems of the list that Run has not added yet
  down,        \* is Run's context cancelled
  stopped,     \* the flag of the same name
  cancels,     \* cancels[p]: the task whose cancel function is stored at p
  equipment,   \* equipment[e]: the path stored for modem e
  modems,      \* modems[p]: the modem stored for path p
  phase,       \* tasks: added (wg.Add), running, over
  of,          \* of[k]: the modem object the task works on
  cancelled,   \* tasks whose own cancel function was called
  act          \* act[t]: the addModem or removeModem that thread t is in

maps  == <<cancels, equipment, modems>>
tasks == <<phase, of, cancelled>>
run   == <<pc, left, down>>
vars  == <<signalVars, run, stopped, maps, tasks, act>>

PCs == {"subscribe", "list", "listing", "add", "wait", "unsubscribe", "stop", "drain", "returned"}

\* at: add (the context was good, the mutex is next), remove, finish (the
\* mutex is released: cancel the old tasks, start the new one).
Act == [at : {"idle", "add", "remove", "finish"}, obj : SUBSET Object,
        old : SUBSET Tasks, new : SUBSET Tasks]

Idle == [at |-> "idle", obj |-> {}, old |-> {}, new |-> {}]

Stored == {cancels[p] : p \in Paths} \ {None}

\* Cancelled, or about to be by the thread that took it out of the maps.
Doomed(k) == k \in cancelled \/ \E t \in Threads : k \in act[t].old

Pending == {k \in Tasks : phase[k] # "over"}

Unused(k) == phase[k] = "over" /\ k \notin Stored /\ \A t \in Threads : k \notin act[t].old

-----------------------------------------------------------------------------
(* addModem, removeModem and stopAll: what they do to the maps. *)

\* Mutant of Replaced: only what is stored at the same path is replaced.
ReplacedHere(o) == {o.path}

\* Paths whose entries addModem takes out: its own, and the one where the same
\* modem was before it reappeared.
Replaced(o) ==
  {o.path} \cup {p \in Paths : Named(o) /\ equipment[o.modem] = p}

\* Mutant of Forgotten: the modems of the paths in P stay known.
NotForgotten(P) == equipment

\* equipment without the modems stored for the paths in P.
Forgotten(P) == [e \in Equipment |-> IF \E p \in P : modems[p] = e THEN None ELSE equipment[e]]

Without(f, P) == [p \in Paths |-> IF p \in P THEN None ELSE f[p]]

\* Mutant of StoredAt: what is replaced is not cancelled.
StoredNowhere(P) == {}

StoredAt(P) == {cancels[p] : p \in P} \ {None}

\* Mutant of MayAdd: the flag is not looked at.
AddAlways == TRUE

MayAdd == ~stopped

Begin(t, at, o) == act' = [act EXCEPT ![t] = [Idle EXCEPT !.at = at, !.obj = {o}]]

\* addModem under the mutex.
Add(t) ==
  /\ act[t].at = "add" /\ MayAdd
  /\ \E o \in act[t].obj, k \in Tasks :
       /\ Unused(k)
       /\ cancels' = [Without(cancels, Replaced(o)) EXCEPT ![o.path] = k]
       /\ modems' = [Without(modems, Replaced(o)) EXCEPT ![o.path] = IF Named(o) THEN o.modem ELSE None]
       /\ equipment' = [Forgotten(Replaced(o)) EXCEPT ![o.modem] = IF Named(o) THEN o.path ELSE @]
       /\ phase' = [phase EXCEPT ![k] = "added"]
       /\ of' = [of EXCEPT ![k] = {o}]
       /\ cancelled' = cancelled \ {k}
       /\ act' = [act EXCEPT ![t] = [at |-> "finish", obj |-> {}, new |-> {k},
                                     old |-> StoredAt(Replaced(o))]]
  /\ UNCHANGED <<signalVars, run, stopped>>

\* addModem under the mutex, after stopAll.
AddNothing(t) ==
  /\ act[t].at = "add" /\ ~MayAdd
  /\ act' = [act EXCEPT ![t] = [Idle EXCEPT !.at = "finish"]]
  /\ UNCHANGED <<signalVars, run, stopped, maps, tasks>>

\* removeModem under the mutex.
Remove(t) ==
  /\ act[t].at = "remove"
  /\ \E o \in act[t].obj :
       /\ cancels' = Without(cancels, {o.path})
       /\ modems' = Without(modems, {o.path})
       /\ equipment' = Forgotten({o.path})
       /\ act' = [act EXCEPT ![t] = [at |-> "finish", obj |-> {}, new |-> {},
                                     old |-> StoredAt({o.path})]]
  /\ UNCHANGED <<signalVars, run, stopped, tasks>>

\* The mutex is released: old tasks are cancelled, then the new one starts.
Finish(t) ==
  /\ act[t].at = "finish"
  /\ cancelled' = cancelled \cup act[t].old
  /\ phase' = [k \in Tasks |-> IF k \in act[t].new THEN "running" ELSE phase[k]]
  /\ act' = [act EXCEPT ![t] = Idle]
  /\ IF t = "signals" THEN Called(client) ELSE UNCHANGED signalVars
  /\ UNCHANGED <<run, stopped, maps, of>>

\* Mutant of CancelledByStop: the maps are emptied, nothing is cancelled.
CancelledBefore == cancelled

CancelledByStop == cancelled \cup Stored

\* stopAll; nothing is stored any more, so nobody else meets its cancel calls.
StopAll ==
  /\ stopped' = TRUE
  /\ cancelled' = CancelledByStop
  /\ cancels' = [p \in Paths |-> None]
  /\ equipment' = [e \in Equipment |-> None]
  /\ modems' = [p \in Paths |-> None]
  /\ UNCHANGED <<phase, of>>

-----------------------------------------------------------------------------
(* Run. *)

RunSubscribes ==
  /\ pc = "subscribe"
  /\ \/ Subscribe(client) /\ pc' = "list" /\ UNCHANGED <<stopped, maps, tasks>>
     \/ ListFails(client) /\ pc' = "returned" /\ StopAll
  /\ UNCHANGED <<left, down, act>>

RunLists ==
  /\ pc = "list"
  /\ \/ List(client) /\ pc' = "listing"
     \/ ListFails(client) /\ pc' = "unsubscribe"
  /\ UNCHANGED <<left, down, stopped, maps, tasks, act>>

RunListed ==
  /\ pc = "listing"
  /\ Listed(client)
  /\ pc' = "add" /\ left' = listed[client]
  /\ UNCHANGED <<down, stopped, maps, tasks, act>>

\* One turn of the loop over the list; addModem does nothing once the context
\* is cancelled.
RunAdds ==
  /\ pc = "add" /\ act["run"].at = "idle"
  /\ \E o \in left :
       /\ left' = left \ {o}
       /\ IF down THEN UNCHANGED act ELSE Begin("run", "add", o)
  /\ UNCHANGED <<signalVars, pc, down, stopped, maps, tasks>>

RunAdded ==
  /\ pc = "add" /\ left = {} /\ act["run"].at = "idle"
  /\ pc' = "wait"
  /\ UNCHANGED <<signalVars, left, down, stopped, maps, tasks, act>>

RunEnds ==
  /\ pc = "wait" /\ down
  /\ pc' = "unsubscribe"
  /\ StopAll
  /\ UNCHANGED <<signalVars, left, down, act>>

RunUnsubscribes ==
  /\ pc = "unsubscribe"
  /\ Unsubscribe(client)
  /\ pc' = "stop"
  /\ UNCHANGED <<left, down, stopped, maps, tasks, act>>

RunStops ==
  /\ pc = "stop"
  /\ StopAll
  /\ pc' = "drain"
  /\ UNCHANGED <<signalVars, left, down, act>>

\* wg.Wait
RunReturns ==
  /\ pc = "drain" /\ Pending = {}
  /\ pc' = "returned"
  /\ UNCHANGED <<signalVars, left, down, stopped, maps, tasks, act>>

RunStep ==
  \/ RunSubscribes \/ RunLists \/ RunListed \/ RunAdds \/ RunAdded
  \/ RunEnds \/ RunUnsubscribes \/ RunStops \/ RunReturns

-----------------------------------------------------------------------------
(* The other threads. *)

\* The registry's loop calls the function that Run has subscribed.
Call ==
  /\ client \in to /\ act["signals"].at = "idle"
  /\ \E s \in calling :
       \/ /\ s.type = "removed" /\ Begin("signals", "remove", s.obj)
          /\ UNCHANGED signalVars
       \/ /\ s.type = "added" /\ ~down /\ Begin("signals", "add", s.obj)
          /\ UNCHANGED signalVars
       \/ s.type = "added" /\ down /\ Called(client) /\ UNCHANGED act
  /\ UNCHANGED <<run, stopped, maps, tasks>>

\* A task's function returns: by itself or because it was cancelled.
End(k) ==
  /\ phase[k] = "running"
  /\ phase' = [phase EXCEPT ![k] = "over"]
  /\ UNCHANGED <<signalVars, run, stopped, maps, of, cancelled, act>>

GoDown ==
  /\ ~down /\ down' = TRUE
  /\ UNCHANGED <<signalVars, pc, left, stopped, maps, tasks, act>>

Quiet == QuietList => pc \notin {"listing", "add"}

ThreadStep(t) == Add(t) \/ AddNothing(t) \/ Remove(t) \/ Finish(t)

Init ==
  /\ SignalsInit
  /\ pc = "subscribe" /\ left = {} /\ down = FALSE /\ stopped = FALSE
  /\ cancels = [p \in Paths |-> None]
  /\ equipment = [e \in Equipment |-> None]
  /\ modems = [p \in Paths |-> None]
  /\ phase = [k \in Tasks |-> "over"] /\ of = [k \in Tasks |-> {}] /\ cancelled = {}
  /\ act = [t \in Threads |-> Idle]

Next ==
  \/ RunStep \/ Call \/ GoDown
  \/ \E t \in Threads : ThreadStep(t)
  \/ \E k \in Tasks : End(k)
  \/ Handle /\ UNCHANGED <<run, stopped, maps, tasks, act>>
  \/ Quiet /\ World /\ UNCHANGED <<run, stopped, maps, tasks, act>>

Spec == Init /\ [][Next]_vars

\* Threads are scheduled, mutexes are released, and the functions given to Run
\* return once their context is cancelled.
Fairness ==
  /\ WF_vars(RunStep) /\ WF_vars(Call)
  /\ \A t \in Threads : WF_vars(ThreadStep(t))
  /\ \A k \in Tasks : WF_vars((down \/ k \in cancelled) /\ End(k))

FairSpec == Spec /\ Fairness

-----------------------------------------------------------------------------
(* Properties. *)

TypeOK ==
  /\ SignalsTypeOK
  /\ pc \in PCs /\ left \subseteq Object /\ down \in BOOLEAN /\ stopped \in BOOLEAN
  /\ cancels \in [Paths -> Tasks \cup {None}]
  /\ equipment \in [Equipment -> Paths \cup {None}]
  /\ modems \in [Paths -> Equipment \cup {None}]
  /\ phase \in [Tasks -> {"added", "running", "over"}]
  /\ of \in [Tasks -> SUBSET Object] /\ cancelled \subseteq Tasks
  /\ act \in [Threads -> Act]

\* A task nobody has cancelled, or is about to, works for one modem or path
\* alone: two of them would restore settings of one modem against each other.
OneTaskEach ==
  \A j, k \in Pending : j # k /\ ~Doomed(j) /\ ~Doomed(k) =>
    \A x \in of[j], y \in of[k] : x.path # y.path /\ (Named(x) => x.modem # y.modem)

\* Every such task can still be found at its path: the signal that its modem
\* has gone, and the end of Run, will reach it.
Reachable ==
  \A k \in Pending : ~Doomed(k) => \A o \in of[k] : cancels[o.path] = k

\* Run returns only when none of its tasks is left, and none starts afterwards.
NoneLeft == pc = "returned" => Pending = {}

\* Nothing is under way: all signals are handled, the list is used up.
Settled ==
  /\ pc = "wait" /\ ~down
  /\ signals = <<>> /\ to = {} /\ \A t \in Threads : act[t].at = "idle"

\* Unless a modem moved while the list was used: every modem that is present has
\* its task, at the path where it is now, if every modem could be read; and a
\* modem that was unplugged, not taken away by a restart of ModemManager, has none.
Served ==
  Settled /\ QuietList =>
    /\ faults = 0 => \A o \in live : \E k \in Tasks \ cancelled : cancels[o.path] = k /\ of[k] = {o}
    /\ stops = 0 => \A k \in Pending : k \notin cancelled => of[k] \subseteq live

\* Once the context is cancelled, or the modems cannot be listed, Run returns:
\* it waits for tasks that it has told to stop, all of them.
Returns == down \/ pc = "unsubscribe" ~> pc = "returned"
=============================================================================
