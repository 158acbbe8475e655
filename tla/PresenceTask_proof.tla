------------------------- MODULE PresenceTask_proof -------------------------
(***************************************************************************)
(* One task for each modem, none lost and none left; and, once the signals *)
(* are handled, one for every modem that is there: PresenceTask for any    *)
(* modems, paths and tasks, any number of changes, restarts of             *)
(* ModemManager and failures.                                              *)
(***************************************************************************)
EXTENDS PresenceTask, TLAPS

\* The three maps say the same: a modem is stored for a path exactly when the
\* path is stored for the modem, and only beside a cancel function.
MapsAgree ==
  /\ \A p \in Paths : cancels[p] = None => modems[p] = None
  /\ \A p \in Paths, e \in Equipment : modems[p] = e <=> equipment[e] = p

\* A stored task works for the path it is stored at, and is not cancelled.
WellStored(p) ==
  cancels[p] # None =>
    /\ ~Doomed(cancels[p])
    /\ \E o \in Object : /\ of[cancels[p]] = {o} /\ o.path = p
                         /\ modems[p] = IF Named(o) THEN o.modem ELSE None

\* A task that is not over is on its way out, or stored at its path.
WellKept(k) ==
  phase[k] # "over" => \E o \in Object : of[k] = {o} /\ (Doomed(k) \/ cancels[o.path] = k)

\* Tasks in the hands of a thread that has just released the mutex.
WellHeld ==
  /\ \A t \in Threads : act[t].at # "finish" => act[t].new = {} /\ act[t].old = {}
  /\ \A t \in Threads : \A k \in act[t].new : phase[k] = "added"
  /\ act["run"].new \cap act["signals"].new = {}

\* How far Run has come.
Course ==
  /\ stopped => \A p \in Paths : cancels[p] = None
  /\ pc \in {"drain", "returned"} => stopped
  /\ pc = "subscribe" => /\ subs = {} /\ to = {} /\ \A t \in Threads : act[t].at = "idle"
                         /\ \A k \in Tasks : phase[k] = "over"
  /\ pc = "returned" => \A k \in Tasks : phase[k] = "over"

Whole == /\ MapsAgree /\ WellHeld /\ Course
         /\ \A p \in Paths : WellStored(p)
         /\ \A k \in Tasks : WellKept(k)

IInv == TypeOK /\ Whole

-----------------------------------------------------------------------------
(* Types. *)

LEMMA SentType ==
  ASSUME signals \in Seq(Signal), NEW s \in Signal, Sent(s)
  PROVE  signals' \in Seq(Signal)
BY SMT DEF Sent

LEMMA PlugType ==
  ASSUME SignalsTypeOK, NEW o \in Object, Plug(o)
  PROVE  SignalsTypeOK'
<1>1. signals' \in Seq(Signal)
  <2>1. [type |-> "added", obj |-> o] \in Signal
    BY DEF Signal
  <2> QED
    BY <2>1, SentType DEF SignalsTypeOK, Plug
<1> QED
  BY <1>1, SignalsAssumption, SMT DEF SignalsTypeOK, Plug, Changing, registry, Object

LEMMA UnplugType ==
  ASSUME SignalsTypeOK, NEW o \in Object, Unplug(o)
  PROVE  SignalsTypeOK'
<1>1. signals' \in Seq(Signal)
  <2>1. [type |-> "removed", obj |-> o] \in Signal
    BY DEF Signal
  <2> QED
    BY <2>1, SentType DEF SignalsTypeOK, Unplug
<1> QED
  BY <1>1, SignalsAssumption, SMT DEF SignalsTypeOK, Unplug, Changing, registry

LEMMA WorldType ==
  ASSUME SignalsTypeOK, World
  PROVE  SignalsTypeOK'
<1>1. CASE ManagerStop
  BY <1>1, SignalsAssumption, SMT DEF SignalsTypeOK, ManagerStop, registry
<1> QED
  BY <1>1, PlugType, UnplugType DEF World

LEMMA ClientType ==
  ASSUME SignalsTypeOK, NEW c \in Clients,
         Subscribe(c) \/ Unsubscribe(c) \/ List(c) \/ Listed(c) \/ ListFails(c) \/ Called(c)
  PROVE  SignalsTypeOK'
<1>1. CASE Subscribe(c)
  BY <1>1, SMT DEF SignalsTypeOK, Subscribe, world
<1>2. CASE Unsubscribe(c)
  BY <1>2, SMT DEF SignalsTypeOK, Unsubscribe, world
<1>3. CASE List(c)
  BY <1>3, SMT DEF SignalsTypeOK, List, world, registry
<1>4. CASE Listed(c)
  BY <1>4, SMT DEF SignalsTypeOK, Listed, world
<1>5. CASE ListFails(c)
  BY <1>5, SignalsAssumption, SMT DEF SignalsTypeOK, ListFails, world, registry
<1>6. CASE Called(c)
  BY <1>6, SMT DEF SignalsTypeOK, Called, world
<1> QED
  BY <1>1, <1>2, <1>3, <1>4, <1>5, <1>6

LEMMA HandleType ==
  ASSUME SignalsTypeOK, Handle
  PROVE  SignalsTypeOK'
<1>1. Head(signals) \in Signal /\ signals' \in Seq(Signal)
  BY SMT DEF SignalsTypeOK, Handle
<1>2. Known(Head(signals)) \subseteq Object
  BY <1>1 DEF Known, SignalsTypeOK, Signal
<1> QED
  BY <1>1, <1>2, SignalsAssumption, SMT DEF SignalsTypeOK, Handle, world

LEMMA IdleType == Idle \in Act
BY DEF Idle, Act

LEMMA BeginType ==
  ASSUME act \in [Threads -> Act], NEW t \in Threads, NEW at \in {"add", "remove"},
         NEW o \in Object, Begin(t, at, o)
  PROVE  act' \in [Threads -> Act]
<1>1. [Idle EXCEPT !.at = at, !.obj = {o}] \in Act
  BY DEF Idle, Act
<1> QED
  BY <1>1 DEF Begin

LEMMA SignalsKept ==
  ASSUME SignalsTypeOK, UNCHANGED signalVars
  PROVE  SignalsTypeOK'
BY DEF SignalsTypeOK, signalVars, world, registry

LEMMA StopAllType ==
  ASSUME TypeOK, StopAll
  PROVE  /\ stopped' \in BOOLEAN
         /\ cancels' \in [Paths -> Tasks \cup {None}]
         /\ equipment' \in [Equipment -> Paths \cup {None}]
         /\ modems' \in [Paths -> Equipment \cup {None}]
         /\ phase' \in [Tasks -> {"added", "running", "over"}]
         /\ of' \in [Tasks -> SUBSET Object] /\ cancelled' \subseteq Tasks
BY DEF TypeOK, StopAll, CancelledByStop, Stored

LEMMA RunStepType ==
  ASSUME TypeOK, RunStep
  PROVE  TypeOK'
<1>0. client \in Clients
  BY PresenceAssumption
<1>1. CASE RunSubscribes
  BY <1>0, <1>1, ClientType, StopAllType DEF TypeOK, RunSubscribes, PCs, maps, tasks
<1>2. CASE RunLists
  BY <1>0, <1>2, ClientType DEF TypeOK, RunLists, PCs, maps, tasks
<1>3. CASE RunListed
  <2>1. listed[client] \subseteq Object
    BY <1>0 DEF TypeOK, SignalsTypeOK
  <2> QED
    BY <1>0, <1>3, <2>1, ClientType DEF TypeOK, RunListed, PCs, maps, tasks
<1>4. CASE RunAdds
  <2> PICK o \in left : /\ left' = left \ {o}
                        /\ IF down THEN UNCHANGED act ELSE Begin("run", "add", o)
    BY <1>4 DEF RunAdds
  <2>1. "run" \in Threads /\ o \in Object
    BY DEF Threads, TypeOK
  <2>2. act' \in [Threads -> Act]
    <3>1. CASE down
      BY <3>1 DEF TypeOK
    <3>2. CASE ~down
      BY <2>1, <3>2, BeginType DEF TypeOK
    <3> QED
      BY <3>1, <3>2
  <2> QED
    BY <1>4, <2>2, SignalsKept DEF TypeOK, RunAdds, maps, tasks
<1>5. CASE RunAdded
  BY <1>5, SignalsKept DEF TypeOK, RunAdded, PCs, maps, tasks
<1>6. CASE RunEnds
  BY <1>6, SignalsKept, StopAllType DEF TypeOK, RunEnds, PCs
<1>7. CASE RunUnsubscribes
  BY <1>0, <1>7, ClientType DEF TypeOK, RunUnsubscribes, PCs, maps, tasks
<1>8. CASE RunStops
  BY <1>8, SignalsKept, StopAllType DEF TypeOK, RunStops, PCs
<1>9. CASE RunReturns
  BY <1>9, SignalsKept DEF TypeOK, RunReturns, PCs, maps, tasks
<1> QED
  BY <1>1, <1>2, <1>3, <1>4, <1>5, <1>6, <1>7, <1>8, <1>9 DEF RunStep

LEMMA StoredAtType ==
  ASSUME TypeOK, NEW P, P \subseteq Paths
  PROVE  StoredAt(P) \subseteq Tasks
BY DEF StoredAt, TypeOK

LEMMA AddType ==
  ASSUME TypeOK, NEW t \in Threads, Add(t)
  PROVE  TypeOK'
<1> PICK o \in act[t].obj, k \in Tasks :
      /\ cancels' = [Without(cancels, Replaced(o)) EXCEPT ![o.path] = k]
      /\ modems' = [Without(modems, Replaced(o)) EXCEPT ![o.path] = IF Named(o) THEN o.modem ELSE None]
      /\ equipment' = [Forgotten(Replaced(o)) EXCEPT ![o.modem] = IF Named(o) THEN o.path ELSE @]
      /\ phase' = [phase EXCEPT ![k] = "added"]
      /\ of' = [of EXCEPT ![k] = {o}]
      /\ cancelled' = cancelled \ {k}
      /\ act' = [act EXCEPT ![t] = [at |-> "finish", obj |-> {}, new |-> {k},
                                    old |-> StoredAt(Replaced(o))]]
  BY DEF Add
<1>1. o \in Object /\ o.path \in Paths /\ o.modem \in Equipment
  BY DEF TypeOK, Act, Object
<1>2. Replaced(o) \subseteq Paths
  BY <1>1 DEF Replaced
<1>3. cancels' \in [Paths -> Tasks \cup {None}]
  BY <1>1 DEF Without, TypeOK
<1>4. modems' \in [Paths -> Equipment \cup {None}]
  BY <1>1 DEF Without, TypeOK
<1>5. equipment' \in [Equipment -> Paths \cup {None}]
  BY <1>1 DEF Forgotten, TypeOK
<1>6. act' \in [Threads -> Act]
  <2>1. StoredAt(Replaced(o)) \subseteq Tasks
    BY <1>2, StoredAtType
  <2>2. [at |-> "finish", obj |-> {}, new |-> {k}, old |-> StoredAt(Replaced(o))] \in Act
    BY <2>1 DEF Act
  <2> QED
    BY <2>2 DEF TypeOK
<1>7. of' \in [Tasks -> SUBSET Object]
  BY <1>1 DEF TypeOK
<1> QED
  BY <1>3, <1>4, <1>5, <1>6, <1>7, SignalsKept DEF TypeOK, Add, run

LEMMA ThreadStepType ==
  ASSUME TypeOK, NEW t \in Threads, ThreadStep(t)
  PROVE  TypeOK'
<1>1. CASE Add(t)
  BY <1>1, AddType
<1>2. CASE AddNothing(t)
  <2>1. [Idle EXCEPT !.at = "finish"] \in Act
    BY DEF Idle, Act
  <2> QED
    BY <1>2, <2>1, SignalsKept DEF TypeOK, AddNothing, run, maps, tasks
<1>3. CASE Remove(t)
  <2> PICK o \in act[t].obj :
        /\ cancels' = Without(cancels, {o.path})
        /\ modems' = Without(modems, {o.path})
        /\ equipment' = Forgotten({o.path})
        /\ act' = [act EXCEPT ![t] = [at |-> "finish", obj |-> {}, new |-> {},
                                    old |-> StoredAt({o.path})]]
    BY <1>3 DEF Remove
  <2>1. o \in Object /\ o.path \in Paths
    BY DEF TypeOK, Act, Object
  <2>2. StoredAt({o.path}) \subseteq Tasks
    BY <2>1, StoredAtType
  <2>3. act' \in [Threads -> Act]
    BY <2>2 DEF TypeOK, Act, Idle
  <2>4. /\ cancels' \in [Paths -> Tasks \cup {None}]
        /\ modems' \in [Paths -> Equipment \cup {None}]
        /\ equipment' \in [Equipment -> Paths \cup {None}]
    BY DEF TypeOK, Without, Forgotten
  <2> QED
    BY <1>3, <2>3, <2>4, SignalsKept DEF TypeOK, Remove, run, tasks
<1>4. CASE Finish(t)
  <2>1. act' \in [Threads -> Act] /\ cancelled' \subseteq Tasks
    BY <1>4, IdleType DEF TypeOK, Finish, Act
  <2>2. phase' \in [Tasks -> {"added", "running", "over"}]
    BY <1>4 DEF TypeOK, Finish
  <2>3. SignalsTypeOK'
    BY <1>4, ClientType, SignalsKept, PresenceAssumption DEF TypeOK, Finish
  <2> QED
    BY <1>4, <2>1, <2>2, <2>3 DEF TypeOK, Finish, run, maps
<1> QED
  BY <1>1, <1>2, <1>3, <1>4 DEF ThreadStep

LEMMA StepType ==
  ASSUME TypeOK, [Next]_vars
  PROVE  TypeOK'
<1>1. CASE RunStep
  BY <1>1, RunStepType
<1>2. CASE Call
  <2>1. CASE Called(client) /\ UNCHANGED act
    BY <1>2, <2>1, ClientType, PresenceAssumption DEF TypeOK, Call, run, maps, tasks
  <2>2. CASE UNCHANGED signalVars
             /\ \E s \in calling, at \in {"add", "remove"} : Begin("signals", at, s.obj)
    <3> PICK s \in calling, at \in {"add", "remove"} : Begin("signals", at, s.obj)
      BY <2>2
    <3>0. s.obj \in Object /\ "signals" \in Threads
      BY DEF TypeOK, SignalsTypeOK, Signal, Threads
    <3>1. act' \in [Threads -> Act]
      BY <3>0, BeginType DEF TypeOK
    <3> QED
      BY <1>2, <2>2, <3>1, SignalsKept DEF TypeOK, Call, run, maps, tasks
  <2> QED
    BY <1>2, <2>1, <2>2 DEF Call
<1>3. CASE GoDown
  BY <1>3, SignalsKept DEF TypeOK, GoDown, maps, tasks
<1>4. CASE \E t \in Threads : ThreadStep(t)
  BY <1>4, ThreadStepType
<1>5. CASE \E k \in Tasks : End(k)
  BY <1>5, SignalsKept DEF TypeOK, End, run, maps
<1>6. CASE Handle /\ UNCHANGED <<run, stopped, maps, tasks, act>>
  BY <1>6, HandleType DEF TypeOK, run, maps, tasks
<1>7. CASE World /\ UNCHANGED <<run, stopped, maps, tasks, act>>
  BY <1>7, WorldType DEF TypeOK, run, maps, tasks
<1>8. CASE UNCHANGED vars
  BY <1>8, SignalsKept DEF TypeOK, vars, run, maps, tasks
<1> QED
  BY <1>1, <1>2, <1>3, <1>4, <1>5, <1>6, <1>7, <1>8 DEF Next

LEMMA InitType == Init => TypeOK
<1> SUFFICES ASSUME Init PROVE TypeOK
  OBVIOUS
<1>1. SignalsTypeOK
  <2>1. live \subseteq Object /\ used \subseteq Paths
    BY DEF Init, SignalsInit, Object
  <2>2. /\ signals \in Seq(Signal)
        /\ changes \in 0..MaxChanges /\ stops \in 0..MaxStops /\ faults \in 0..MaxFaults
    BY SignalsAssumption, SMT DEF Init, SignalsInit
  <2> QED
    BY <2>1, <2>2 DEF Init, SignalsInit, SignalsTypeOK
<1> QED
  BY <1>1, IdleType DEF Init, TypeOK, PCs

-----------------------------------------------------------------------------
(* The invariant, action by action. *)

LEMMA Untouched ==
  ASSUME Whole, UNCHANGED <<maps, tasks, act>>, Course'
  PROVE  Whole'
BY DEF Whole, MapsAgree, WellHeld, WellStored, WellKept, Doomed, maps, tasks

\* Steps of the world and of the registry.
LEMMA OtherSteps ==
  ASSUME IInv, UNCHANGED <<run, stopped, maps, tasks, act>>, World \/ Handle \/ UNCHANGED signalVars
  PROVE  Whole'
<1>1. CASE World
  <2>1. subs' = subs /\ to' = to
    BY <1>1 DEF World, ManagerStop, Plug, Unplug, registry
  <2>2. Course'
    BY <2>1 DEF IInv, Whole, Course, run, maps, tasks
  <2> QED
    BY <2>2, Untouched DEF IInv
<1>2. CASE Handle
  <2>1. subs' = subs /\ (to' = to \/ to' = subs)
    BY <1>2 DEF Handle
  <2>2. Course'
    BY <2>1 DEF IInv, Whole, Course, run, maps, tasks
  <2> QED
    BY <2>2, Untouched DEF IInv
<1>3. CASE UNCHANGED signalVars
  <2>1. Course'
    BY <1>3 DEF IInv, Whole, Course, run, maps, tasks, signalVars, registry
  <2> QED
    BY <2>1, Untouched DEF IInv
<1> QED
  BY <1>1, <1>2, <1>3

\* A thread enters addModem or removeModem.
LEMMA BeginWhole ==
  ASSUME IInv, NEW t \in Threads, NEW at \in {"add", "remove"}, NEW o,
         act[t].at = "idle", Begin(t, at, o), UNCHANGED <<maps, tasks>>, Course'
  PROVE  Whole'
<1>1. act[t].new = {} /\ act[t].old = {}
  BY DEF IInv, Whole, WellHeld
<1>2. \A s \in Threads : act'[s].new = act[s].new /\ act'[s].old = act[s].old
  BY <1>1 DEF Begin, Idle, IInv, TypeOK
<1>3. \A s \in Threads : act'[s].at # "finish" => act[s].at # "finish"
  BY DEF Begin, Idle, IInv, TypeOK
<1>4. \A k \in Tasks : Doomed(k)' <=> Doomed(k)
  BY <1>2 DEF Doomed, tasks
<1>5. WellHeld'
  BY <1>2, <1>3 DEF IInv, Whole, WellHeld, tasks, Threads
<1>6. \A p \in Paths : WellStored(p)'
  BY <1>4 DEF IInv, TypeOK, Whole, WellStored, maps, tasks
<1> QED
  BY <1>4, <1>5, <1>6 DEF IInv, Whole, MapsAgree, WellKept, maps, tasks

\* StopAll takes every task out of the maps and cancels it.
LEMMA StopAllWhole ==
  ASSUME IInv, StopAll, UNCHANGED act, Course'
  PROVE  Whole'
<1>1. MapsAgree'
  <2>1. \A p \in Paths, e \in Equipment : None # p /\ None # e
    BY PresenceAssumption
  <2> QED
    BY <2>1 DEF StopAll, MapsAgree
<1>2. WellHeld'
  BY DEF IInv, Whole, WellHeld, StopAll
<1>3. \A p \in Paths : WellStored(p)'
  BY DEF StopAll, WellStored
<1>4. ASSUME NEW k \in Tasks PROVE WellKept(k)'
  <2> SUFFICES ASSUME phase'[k] # "over"
               PROVE  \E o \in Object : of'[k] = {o} /\ (Doomed(k)' \/ cancels'[o.path] = k)
    BY DEF WellKept
  <2>1. PICK o \in Object : of[k] = {o} /\ (Doomed(k) \/ cancels[o.path] = k)
    BY DEF IInv, Whole, WellKept, StopAll
  <2>2. Doomed(k)'
    <3>1. CASE Doomed(k)
      BY <3>1 DEF Doomed, StopAll, CancelledByStop
    <3>2. CASE cancels[o.path] = k
      <4>1. k \in Stored
        BY <3>2, PresenceAssumption DEF Stored, Object
      <4> QED
        BY <4>1 DEF Doomed, StopAll, CancelledByStop
    <3> QED
      BY <2>1, <3>1, <3>2
  <2> QED
    BY <2>1, <2>2 DEF StopAll
<1> QED
  BY <1>1, <1>2, <1>3, <1>4 DEF Whole

LEMMA RunStepWhole ==
  ASSUME IInv, RunStep
  PROVE  Whole'
<1>1. CASE RunSubscribes
  <2>1. CASE Subscribe(client) /\ pc' = "list" /\ UNCHANGED <<stopped, maps, tasks>>
    <3>1. Course'
      BY <2>1 DEF IInv, Whole, Course, maps, tasks
    <3> QED
      BY <1>1, <2>1, <3>1, Untouched DEF IInv, RunSubscribes
  <2>2. CASE pc' = "returned" /\ StopAll
    <3>1. Course'
      BY <1>1, <2>2 DEF IInv, Whole, Course, StopAll, RunSubscribes
    <3> QED
      BY <1>1, <2>2, <3>1, StopAllWhole DEF RunSubscribes
  <2> QED
    BY <1>1, <2>1, <2>2 DEF RunSubscribes
<1>2. CASE RunLists \/ RunListed \/ RunAdded \/ RunUnsubscribes
  <2>1. pc' \in {"listing", "unsubscribe", "add", "wait", "stop"} /\ UNCHANGED <<stopped, maps, tasks, act>>
    BY <1>2 DEF RunLists, RunListed, RunAdded, RunUnsubscribes
  <2>2. Course'
    BY <2>1 DEF IInv, Whole, Course, maps, tasks
  <2> QED
    BY <2>1, <2>2, Untouched DEF IInv
<1>3. CASE RunAdds
  <2>1. UNCHANGED <<pc, subs, to, stopped, maps, tasks>> /\ pc = "add"
    BY <1>3 DEF RunAdds, signalVars, registry
  <2>2. Course'
    BY <2>1 DEF IInv, Whole, Course, maps, tasks
  <2>3. CASE UNCHANGED act
    BY <2>1, <2>2, <2>3, Untouched DEF IInv
  <2>4. CASE \E o \in left : Begin("run", "add", o)
    <3>1. PICK o \in left : Begin("run", "add", o)
      BY <2>4
    <3>2. "run" \in Threads /\ act["run"].at = "idle"
      BY <1>3 DEF Threads, RunAdds
    <3> QED
      BY <2>1, <2>2, <3>1, <3>2, BeginWhole
  <2> QED
    BY <1>3, <2>3, <2>4 DEF RunAdds
<1>4. CASE RunEnds \/ RunStops
  <2>1. pc' \in {"unsubscribe", "drain"} /\ StopAll /\ UNCHANGED act
    BY <1>4 DEF RunEnds, RunStops
  <2>2. Course'
    BY <2>1 DEF Course, StopAll
  <2> QED
    BY <2>1, <2>2, StopAllWhole
<1>5. CASE RunReturns
  <2>1. Course'
    BY <1>5 DEF IInv, Whole, Course, RunReturns, Pending, maps, tasks
  <2> QED
    BY <1>5, <2>1, Untouched DEF IInv, RunReturns
<1> QED
  BY <1>1, <1>2, <1>3, <1>4, <1>5 DEF RunStep

LEMMA AddWhole ==
  ASSUME IInv, TypeOK', NEW t \in Threads, Add(t)
  PROVE  Whole'
<1> PICK o \in act[t].obj, k \in Tasks :
      /\ Unused(k)
      /\ cancels' = [Without(cancels, Replaced(o)) EXCEPT ![o.path] = k]
      /\ modems' = [Without(modems, Replaced(o)) EXCEPT ![o.path] = IF Named(o) THEN o.modem ELSE None]
      /\ equipment' = [Forgotten(Replaced(o)) EXCEPT ![o.modem] = IF Named(o) THEN o.path ELSE @]
      /\ phase' = [phase EXCEPT ![k] = "added"]
      /\ of' = [of EXCEPT ![k] = {o}]
      /\ cancelled' = cancelled \ {k}
      /\ act' = [act EXCEPT ![t] = [at |-> "finish", obj |-> {}, new |-> {k},
                                    old |-> StoredAt(Replaced(o))]]
  BY DEF Add
<1> DEFINE R == Replaced(o)
<1>1. /\ o \in Object /\ o.path \in Paths /\ o.modem \in Equipment
      /\ o.path \in R /\ R \subseteq Paths
  BY DEF IInv, TypeOK, Act, Object, Replaced
<1>2. ~stopped /\ act[t].at = "add" /\ act[t].new = {} /\ act[t].old = {}
  BY DEF Add, MayAdd, IInv, Whole, WellHeld
<1>3. None \notin Paths /\ None \notin Equipment /\ None \notin Tasks
  BY PresenceAssumption
<1>4. /\ cancels'[o.path] = k
      /\ modems'[o.path] = IF Named(o) THEN o.modem ELSE None
      /\ \A p \in Paths \ {o.path} : /\ cancels'[p] = IF p \in R THEN None ELSE cancels[p]
                                     /\ modems'[p] = IF p \in R THEN None ELSE modems[p]
  BY <1>1 DEF Without, IInv, TypeOK
<1>5. \A e \in Equipment :
        equipment'[e] = IF e = o.modem /\ Named(o) THEN o.path
                        ELSE IF \E p \in R : modems[p] = e THEN None ELSE equipment[e]
  BY <1>1 DEF Forgotten, IInv, TypeOK
\* Who is on the way out: what was replaced joins those who were before.
<1>6. \A j \in Tasks : Doomed(j)' <=> j # k /\ (Doomed(j) \/ j \in StoredAt(R))
  <2>1. \A s \in Threads : act'[s].old = IF s = t THEN StoredAt(R) ELSE act[s].old
    BY DEF IInv, TypeOK
  <2>2. k \notin StoredAt(R)
    BY <1>1 DEF Unused, Stored, StoredAt
  <2> QED
    BY <1>2, <2>1, <2>2 DEF Doomed, Unused
\* A nameless modem is stored for no path.
<1>7. \A p \in Paths, e \in Nameless : modems[p] # e
  BY <1>3, SignalsAssumption DEF IInv, Whole, MapsAgree, WellStored, Named, Object
<1>8. MapsAgree'
  <2>1. \A p \in Paths : cancels'[p] = None => modems'[p] = None
    BY <1>3, <1>4 DEF IInv, Whole, MapsAgree
  <2>2. ASSUME NEW p \in Paths, NEW e \in Equipment
        PROVE  modems'[p] = e <=> equipment'[e] = p
    <3>1. \A q \in Paths : modems[q] = e <=> equipment[e] = q
      BY DEF IInv, Whole, MapsAgree
    <3>2. CASE e = o.modem /\ Named(o)
      <4>1. equipment[e] \in Paths => equipment[e] \in R
        BY <3>2 DEF Replaced
      <4>2. \A q \in Paths : modems[q] = e => q \in R
        BY <3>1, <4>1
      <4> QED
        BY <1>1, <1>3, <1>4, <1>5, <3>2, <4>2
    <3>3. CASE e = o.modem /\ ~Named(o)
      <4>1. \A q \in Paths : modems[q] # e
        BY <1>7, <3>3 DEF Named
      <4> QED
        BY <1>1, <1>3, <1>4, <1>5, <3>1, <3>3, <4>1
    <3>4. CASE e # o.modem
      BY <1>1, <1>3, <1>4, <1>5, <3>1, <3>4
    <3> QED
      BY <3>2, <3>3, <3>4
  <2> QED
    BY <2>1, <2>2 DEF MapsAgree
<1>9. WellHeld'
  <2>1. \A s \in Threads : act'[s] = IF s = t THEN [at |-> "finish", obj |-> {}, new |-> {k},
                                                   old |-> StoredAt(R)] ELSE act[s]
    BY DEF IInv, TypeOK
  <2>2. \A s \in Threads : k \notin act[s].new
    <3>1. phase[k] = "over"
      BY DEF Unused
    <3>2. \A s \in Threads : \A j \in act[s].new : phase[j] = "added"
      BY DEF IInv, Whole, WellHeld
    <3> QED
      BY <3>1, <3>2
  <2> QED
    BY <2>1, <2>2 DEF IInv, TypeOK, Whole, WellHeld, Threads
<1>10. Course'
  <2>1. pc' = pc /\ stopped' = stopped
    BY DEF Add, run
  <2> QED
    BY <1>2, <2>1 DEF IInv, Whole, Course
<1>11. ASSUME NEW p \in Paths PROVE WellStored(p)'
  <2>1. CASE p = o.path
    BY <1>1, <1>4, <1>6, <2>1 DEF WellStored, IInv, TypeOK
  <2>2. CASE p # o.path /\ p \in R
    BY <1>4, <2>2 DEF WellStored
  <2>3. CASE p # o.path /\ p \notin R /\ cancels[p] # None
    <3>1. PICK j \in Tasks : j = cancels[p]
      BY <2>3 DEF IInv, TypeOK
    <3>2. j # k
      BY <2>3, <3>1 DEF Unused, Stored
    <3>3. PICK x \in Object : /\ of[j] = {x} /\ x.path = p
                             /\ modems[p] = IF Named(x) THEN x.modem ELSE None
      BY <2>3, <3>1 DEF IInv, Whole, WellStored
    <3>4. ~Doomed(j)
      BY <2>3, <3>1 DEF IInv, Whole, WellStored
    <3>5. j \notin StoredAt(R)
      <4> SUFFICES ASSUME NEW q \in R, cancels[q] = j PROVE FALSE
        BY DEF StoredAt
      <4>1. \E y \in Object : of[j] = {y} /\ y.path = q
        BY <1>1, <2>3, <3>1 DEF IInv, Whole, WellStored
      <4> QED
        BY <2>3, <3>3, <4>1
    <3>6. ~Doomed(j)'
      BY <1>6, <3>2, <3>4, <3>5
    <3>7. cancels'[p] = j /\ modems'[p] = modems[p] /\ of'[j] = of[j]
      BY <1>4, <2>3, <3>1, <3>2 DEF IInv, TypeOK
    <3> QED
      BY <3>3, <3>6, <3>7 DEF WellStored
  <2>4. CASE p # o.path /\ p \notin R /\ cancels[p] = None
    BY <1>4, <2>4 DEF WellStored
  <2> QED
    BY <2>1, <2>2, <2>3, <2>4
<1>12. ASSUME NEW j \in Tasks PROVE WellKept(j)'
  <2>1. CASE j = k
    BY <1>1, <1>4, <2>1 DEF WellKept, IInv, TypeOK
  <2>2. CASE j # k /\ phase[j] # "over"
    <3>1. PICK x \in Object : of[j] = {x} /\ (Doomed(j) \/ cancels[x.path] = j)
      BY <2>2 DEF IInv, Whole, WellKept
    <3>2. x.path \in Paths
      BY DEF Object
    <3>3. Doomed(j)' \/ cancels'[x.path] = j
      BY <1>1, <1>3, <1>4, <1>6, <2>2, <3>1, <3>2 DEF StoredAt
    <3> QED
      BY <2>2, <3>1, <3>3 DEF WellKept, IInv, TypeOK
  <2>3. CASE j # k /\ phase[j] = "over"
    BY <2>3 DEF WellKept, IInv, TypeOK
  <2> QED
    BY <2>1, <2>2, <2>3
<1> QED
  BY <1>8, <1>9, <1>10, <1>11, <1>12 DEF Whole

LEMMA RemoveWhole ==
  ASSUME IInv, NEW t \in Threads, Remove(t)
  PROVE  Whole'
<1> PICK o \in act[t].obj :
      /\ cancels' = Without(cancels, {o.path})
      /\ modems' = Without(modems, {o.path})
      /\ equipment' = Forgotten({o.path})
      /\ act' = [act EXCEPT ![t] = [at |-> "finish", obj |-> {}, new |-> {},
                                    old |-> StoredAt({o.path})]]
  BY DEF Remove
<1>1. o.path \in Paths
  BY DEF IInv, TypeOK, Act, Object
<1>2. /\ act[t].at = "remove" /\ act[t].new = {} /\ act[t].old = {}
      /\ UNCHANGED <<pc, stopped, subs, to, phase, of, cancelled>>
  BY DEF Remove, IInv, Whole, WellHeld, run, tasks, signalVars, registry
<1>3. None \notin Paths /\ None \notin Equipment /\ None \notin Tasks
  BY PresenceAssumption
<1>4. \A p \in Paths : /\ cancels'[p] = IF p = o.path THEN None ELSE cancels[p]
                       /\ modems'[p] = IF p = o.path THEN None ELSE modems[p]
  BY DEF Without
<1>5. \A e \in Equipment : equipment'[e] = IF modems[o.path] = e THEN None ELSE equipment[e]
  BY DEF Forgotten
<1>6. \A s \in Threads : act'[s] = IF s = t THEN [at |-> "finish", obj |-> {}, new |-> {},
                                                 old |-> StoredAt({o.path})] ELSE act[s]
  BY DEF IInv, TypeOK
<1>7. \A j \in Tasks : Doomed(j)' <=> Doomed(j) \/ cancels[o.path] = j
  <2>1. \A j \in Tasks : j \in StoredAt({o.path}) <=> cancels[o.path] = j
    BY <1>3 DEF StoredAt
  <2>2. \A s \in Threads : act'[s].old = IF s = t THEN StoredAt({o.path}) ELSE act[s].old
    BY <1>6
  <2> QED
    BY <1>2, <2>1, <2>2 DEF Doomed
<1>8. MapsAgree'
  BY <1>1, <1>3, <1>4, <1>5 DEF IInv, Whole, MapsAgree
<1>9. WellHeld'
  BY <1>2, <1>6 DEF IInv, Whole, WellHeld, Threads
<1>10. Course'
  BY <1>2, <1>4, <1>6 DEF IInv, Whole, Course
<1>11. ASSUME NEW p \in Paths PROVE WellStored(p)'
  <2>1. CASE p = o.path \/ cancels[p] = None
    BY <1>4, <2>1 DEF WellStored
  <2>2. CASE p # o.path /\ cancels[p] # None
    <3>1. PICK j \in Tasks : j = cancels[p]
      BY <2>2 DEF IInv, TypeOK
    <3>2. PICK x \in Object : /\ of[j] = {x} /\ x.path = p
                             /\ modems[p] = IF Named(x) THEN x.modem ELSE None
      BY <2>2, <3>1 DEF IInv, Whole, WellStored
    <3>3. cancels[o.path] # j
      BY <1>1, <1>3, <2>2, <3>2 DEF IInv, Whole, WellStored
    <3>4. ~Doomed(j)'
      BY <1>7, <2>2, <3>1, <3>3 DEF IInv, Whole, WellStored
    <3> QED
      BY <1>2, <1>4, <2>2, <3>1, <3>2, <3>4 DEF WellStored
  <2> QED
    BY <2>1, <2>2
<1>12. ASSUME NEW j \in Tasks PROVE WellKept(j)'
  <2> SUFFICES ASSUME phase[j] # "over"
               PROVE  \E x \in Object : of[j] = {x} /\ (Doomed(j)' \/ cancels'[x.path] = j)
    BY <1>2 DEF WellKept
  <2>1. PICK x \in Object : of[j] = {x} /\ (Doomed(j) \/ cancels[x.path] = j)
    BY DEF IInv, Whole, WellKept
  <2>2. x.path \in Paths
    BY DEF Object
  <2> QED
    BY <1>4, <1>7, <2>1, <2>2
<1> QED
  BY <1>8, <1>9, <1>10, <1>11, <1>12 DEF Whole

LEMMA FinishWhole ==
  ASSUME IInv, NEW t \in Threads, Finish(t)
  PROVE  Whole'
<1>1. /\ UNCHANGED <<maps, of, pc, stopped, subs>>
      /\ to' \subseteq to
  BY DEF Finish, Called, signalVars, registry, run
<1>2. /\ cancelled' = cancelled \cup act[t].old
      /\ \A s \in Threads : act'[s] = IF s = t THEN Idle ELSE act[s]
  BY DEF Finish, IInv, TypeOK
<1>3. \A k \in Tasks : Doomed(k)' <=> Doomed(k)
  BY <1>2 DEF Doomed, Idle
<1>4. \A k \in Tasks : phase'[k] = IF k \in act[t].new THEN "running" ELSE phase[k]
  BY DEF Finish
<1>5. \A k \in act[t].new : phase[k] = "added"
  BY DEF IInv, Whole, WellHeld
<1>6. WellHeld'
  <2>1. \A s \in Threads : s # t => act[s].new \cap act[t].new = {}
    BY DEF IInv, Whole, WellHeld, Threads
  <2>2. \A s \in Threads : act[s].new \subseteq Tasks
    BY DEF IInv, TypeOK, Act
  <2>3. ASSUME NEW s \in Threads
        PROVE  /\ act'[s].at # "finish" => (act'[s].new = {} /\ act'[s].old = {})
               /\ \A k \in act'[s].new : phase'[k] = "added"
    BY <1>2, <1>4, <2>1, <2>2 DEF IInv, Whole, WellHeld, Idle
  <2>4. act'["run"].new \cap act'["signals"].new = {}
    BY <1>2 DEF IInv, Whole, WellHeld, Threads, Idle
  <2> QED
    BY <2>3, <2>4 DEF WellHeld
<1>7. Course'
  BY <1>1, <1>2, <1>4, <1>5 DEF IInv, Whole, Course, maps, Idle
<1>8. \A p \in Paths : WellStored(p)'
  BY <1>1, <1>3 DEF IInv, TypeOK, Whole, WellStored, maps
<1>9. \A k \in Tasks : WellKept(k)'
  BY <1>1, <1>3, <1>4, <1>5 DEF IInv, Whole, WellKept, maps
<1> QED
  BY <1>1, <1>6, <1>7, <1>8, <1>9 DEF IInv, Whole, MapsAgree, maps

LEMMA EndWhole ==
  ASSUME IInv, NEW k \in Tasks, End(k)
  PROVE  Whole'
<1>1. /\ UNCHANGED <<maps, of, cancelled, act, pc, stopped, subs, to>>
      /\ phase[k] = "running"
      /\ \A j \in Tasks : phase'[j] = IF j = k THEN "over" ELSE phase[j]
  BY DEF End, IInv, TypeOK, signalVars, registry, run
<1>2. \A j \in Tasks : Doomed(j)' <=> Doomed(j)
  BY <1>1 DEF Doomed
<1>3. \A s \in Threads : act[s].new \subseteq Tasks
  BY DEF IInv, TypeOK, Act
<1>4. WellHeld'
  BY <1>1, <1>3 DEF IInv, Whole, WellHeld
<1>5. Course'
  BY <1>1 DEF IInv, Whole, Course, maps
<1>6. \A p \in Paths : WellStored(p)'
  BY <1>1, <1>2 DEF IInv, TypeOK, Whole, WellStored, maps
<1>7. \A j \in Tasks : WellKept(j)'
  BY <1>1, <1>2 DEF IInv, Whole, WellKept, maps
<1> QED
  BY <1>1, <1>4, <1>5, <1>6, <1>7 DEF IInv, Whole, MapsAgree, maps

LEMMA CallWhole ==
  ASSUME IInv, Call
  PROVE  Whole'
<1>1. UNCHANGED <<maps, tasks, pc, stopped, subs>> /\ to' \subseteq to /\ to # {}
  BY DEF Call, Called, signalVars, registry, run
<1>2. Course'
  BY <1>1 DEF IInv, Whole, Course, maps, tasks
<1>3. CASE UNCHANGED act
  BY <1>1, <1>2, <1>3, Untouched DEF IInv
<1>4. CASE \E s \in calling, at \in {"add", "remove"} : Begin("signals", at, s.obj)
  <2>1. PICK s \in calling, at \in {"add", "remove"} : Begin("signals", at, s.obj)
    BY <1>4
  <2>2. "signals" \in Threads /\ act["signals"].at = "idle"
    BY DEF Threads, Call
  <2> QED
    BY <1>1, <1>2, <2>1, <2>2, BeginWhole
<1> QED
  BY <1>3, <1>4 DEF Call

LEMMA Step ==
  ASSUME IInv, [Next]_vars
  PROVE  IInv'
<1>1. TypeOK'
  BY StepType DEF IInv
<1>2. CASE RunStep
  BY <1>1, <1>2, RunStepWhole DEF IInv
<1>3. CASE Call
  BY <1>1, <1>3, CallWhole DEF IInv
<1>4. CASE GoDown
  <2>1. Course'
    BY <1>4 DEF IInv, Whole, Course, GoDown, signalVars, registry, maps, tasks
  <2> QED
    BY <1>1, <1>4, <2>1, Untouched DEF IInv, GoDown
<1>5. CASE \E t \in Threads : ThreadStep(t)
  <2> PICK t \in Threads : ThreadStep(t)
    BY <1>5
  <2>1. CASE AddNothing(t)
    <3>1. /\ UNCHANGED <<maps, tasks, pc, stopped, subs, to>>
          /\ act[t].at = "add"
          /\ act[t].new = {} /\ act[t].old = {}
          /\ \A s \in Threads : act'[s] = IF s = t THEN [Idle EXCEPT !.at = "finish"] ELSE act[s]
      BY <2>1 DEF AddNothing, IInv, TypeOK, Whole, WellHeld, signalVars, registry, run
    <3>2. Course'
      BY <3>1 DEF IInv, Whole, Course, maps, tasks
    <3>3. \A k \in Tasks : Doomed(k)' <=> Doomed(k)
      BY <3>1 DEF Doomed, tasks, Idle
    <3>4. WellHeld'
      BY <3>1 DEF IInv, Whole, WellHeld, tasks, Idle, Threads
    <3>5. \A p \in Paths : WellStored(p)'
      BY <3>1, <3>3 DEF IInv, TypeOK, Whole, WellStored, maps, tasks
    <3>6. \A k \in Tasks : WellKept(k)'
      BY <3>1, <3>3 DEF IInv, Whole, WellKept, maps, tasks
    <3> QED
      BY <1>1, <3>1, <3>2, <3>4, <3>5, <3>6 DEF IInv, Whole, MapsAgree, maps
  <2> QED
    BY <1>1, <2>1, AddWhole, RemoveWhole, FinishWhole DEF IInv, ThreadStep
<1>6. CASE \E k \in Tasks : End(k)
  BY <1>1, <1>6, EndWhole DEF IInv
<1>7. CASE Handle /\ UNCHANGED <<run, stopped, maps, tasks, act>>
  BY <1>1, <1>7, OtherSteps DEF IInv
<1>8. CASE World /\ UNCHANGED <<run, stopped, maps, tasks, act>>
  BY <1>1, <1>8, OtherSteps DEF IInv
<1>9. CASE UNCHANGED vars
  BY <1>1, <1>9, OtherSteps DEF IInv, vars
<1> QED
  BY <1>2, <1>3, <1>4, <1>5, <1>6, <1>7, <1>8, <1>9 DEF Next

LEMMA Start == Init => IInv
<1> SUFFICES ASSUME Init PROVE IInv
  OBVIOUS
<1>1. MapsAgree
  <2>1. None \notin Paths /\ None \notin Equipment
    BY PresenceAssumption
  <2> QED
    BY <2>1 DEF Init, MapsAgree
<1>2. WellHeld
  BY DEF Init, WellHeld, Threads, Idle
<1>3. Course
  BY DEF Init, SignalsInit, Course, Idle
<1>4. (\A p \in Paths : WellStored(p)) /\ \A k \in Tasks : WellKept(k)
  BY DEF Init, WellStored, WellKept
<1> QED
  BY <1>1, <1>2, <1>3, <1>4, InitType DEF IInv, Whole

-----------------------------------------------------------------------------
(* Theorems. *)

\* The state is well typed and whole in every reachable state.
THEOREM Invariance == Spec => []IInv
BY Start, Step, PTL DEF Spec

\* Every reachable state is well typed.
THEOREM TypeCorrect == Spec => []TypeOK
<1>1. IInv => TypeOK
  BY DEF IInv
<1> QED
  BY <1>1, Invariance, PTL

\* A task that is still to run can be found where its modem's removal, its
\* modem's reappearance and the end of Run look for it.
THEOREM NoneLost == Spec => []Reachable
<1>1. IInv => Reachable
  BY DEF IInv, Whole, WellKept, Reachable, Pending
<1> QED
  BY <1>1, Invariance, PTL

\* Two such tasks never work for one path, nor for one modem.
THEOREM OneForEach == Spec => []OneTaskEach
<1>1. ASSUME IInv PROVE OneTaskEach
  <2> SUFFICES ASSUME NEW j \in Pending, NEW k \in Pending, j # k, ~Doomed(j), ~Doomed(k),
                      NEW x \in of[j], NEW y \in of[k]
               PROVE  x.path # y.path /\ (Named(x) => x.modem # y.modem)
    BY DEF OneTaskEach
  <2>1. /\ j \in Tasks /\ k \in Tasks
        /\ x \in Object /\ of[j] = {x} /\ cancels[x.path] = j
        /\ y \in Object /\ of[k] = {y} /\ cancels[y.path] = k
    BY <1>1 DEF IInv, Whole, WellKept, Pending
  <2>2. x.path \in Paths /\ y.path \in Paths /\ x.modem \in Equipment
    BY <2>1 DEF Object
  <2>3. x.path # y.path
    BY <2>1
  <2>4. ASSUME Named(x), x.modem = y.modem PROVE FALSE
    <3>1. Named(y)
      BY <2>4 DEF Named
    <3>2. modems[x.path] = x.modem /\ modems[y.path] = x.modem
      BY <1>1, <2>1, <2>2, <2>4, <3>1, PresenceAssumption DEF IInv, Whole, WellStored
    <3>3. equipment[x.modem] = x.path /\ equipment[x.modem] = y.path
      BY <1>1, <2>2, <3>2 DEF IInv, Whole, MapsAgree
    <3> QED
      BY <2>3, <3>3
  <2> QED
    BY <2>3, <2>4
<1> QED
  BY <1>1, Invariance, PTL

\* Run leaves no task behind, and none starts after it has returned.
THEOREM ReturnsClean == Spec => []NoneLeft
<1>1. IInv => NoneLeft
  BY DEF IInv, Whole, Course, NoneLeft, Pending
<1> QED
  BY <1>1, Invariance, PTL

-----------------------------------------------------------------------------
(* What the signals that are under way still bring. *)

Arrival(o)   == [type |-> "added", obj |-> o]
Departure(o) == [type |-> "removed", obj |-> o]

\* The signal that Registry.handleSignals is passing on, until it has changed the maps.
Front == {s \in calling : client \in to /\ act["signals"].at # "finish"}

\* A signal that takes the task of o away.
Undoes(s, o) ==
  \/ s.type = "removed" /\ s.obj.path = o.path
  \/ s.type = "added" /\ s.obj # o /\ (s.obj.path = o.path \/ (Named(o) /\ s.obj.modem = o.modem))

\* No signal in the queue does; the last one that is about o brings it.
Spared(o)    == \A i \in DOMAIN signals : ~Undoes(signals[i], o)
Announced(o) == \E i \in DOMAIN signals : /\ signals[i] = Arrival(o)
                                          /\ \A j \in DOMAIN signals : j > i => ~Undoes(signals[j], o)
Departs(o)   == \E i \in DOMAIN signals : signals[i] = Departure(o)

HasTask(o) == \E k \in Tasks : cancels[o.path] = k /\ of[k] = {o}

\* Run is going to add o.
RunWill(o) ==
  \/ pc \in {"subscribe", "list"}
  \/ pc = "listing" /\ o \in listed[client]
  \/ pc = "add" /\ (o \in left \/ (act["run"].at = "add" /\ o \in act["run"].obj))

\* o has its task, or will have it when the signals are handled.
Expected(o) ==
  \/ Announced(o)
  \/ Spared(o) /\ Arrival(o) \in Front
  \/ Spared(o) /\ (\A s \in Front : ~Undoes(s, o)) /\ (HasTask(o) \/ RunWill(o))

\* A modem that has gone is told of after everything that brings it.
Dismissed ==
  \A o \in Object \ live :
    /\ HasTask(o) => Departure(o) \in Front \/ Departs(o)
    /\ Arrival(o) \in Front => Departs(o)
    /\ \A i \in DOMAIN signals : signals[i] = Arrival(o) =>
         \E j \in DOMAIN signals : j > i /\ signals[j] = Departure(o)

\* One signal at a time; each thread is in the call it was given.
WellCalled ==
  /\ to # {} => \E s \in Signal : calling = {s}
  /\ act["signals"].at # "idle" => client \in to
  /\ act["signals"].at = "add" => \E o \in Object : act["signals"].obj = {o} /\ calling = {Arrival(o)}
  /\ act["signals"].at = "remove" => \E o \in Object : act["signals"].obj = {o} /\ calling = {Departure(o)}
  /\ act["run"].at # "remove"
  /\ act["run"].at = "add" => \E o \in Object : act["run"].obj = {o}

\* The places of Run where it still adds and waits.
Serving == {"subscribe", "list", "listing", "add", "wait"}

\* What Run has done by then.
WellRun ==
  /\ pc \in Serving => ~stopped
  /\ pc = "subscribe" => ~listening /\ \A p \in Paths : cancels[p] = None
  /\ ~listening => signals = <<>>
  /\ pc \in Serving \ {"subscribe"} => listening /\ client \in subs
  /\ act["run"].at # "idle" => pc = "add"

\* Objects differ in path and modem, and no path is given twice.
WellLive ==
  /\ \A x, y \in live : x # y => x.path # y.path /\ x.modem # y.modem
  /\ \A x \in live : x.path \in used

\* While the list is used nothing on it has gone.
WellListed ==
  /\ pc = "listing" => listed[client] \subseteq live
  /\ pc = "add" => left \subseteq live /\ (act["run"].at = "add" => act["run"].obj \subseteq live)

Informed ==
  /\ WellCalled /\ WellRun /\ WellLive
  /\ QuietList => WellListed
  /\ QuietList /\ ~down /\ pc \in Serving =>
       /\ faults = 0 => \A o \in live : Expected(o)
       /\ stops = 0 => Dismissed
-----------------------------------------------------------------------------
(* Signals that are sent and handled. *)

LEMMA SignalIs ==
  ASSUME NEW s \in Signal
  PROVE  /\ s.type = "added" => s = Arrival(s.obj)
         /\ s.type = "removed" => s = Departure(s.obj)
         /\ s.type \in {"added", "removed"} /\ s.obj \in Object
BY DEF Signal, Arrival, Departure

LEMMA Different ==
  ASSUME NEW x \in Object, NEW o \in Object
  PROVE  /\ Arrival(x) # Departure(o)
         /\ Arrival(x) = Arrival(o) => x = o
         /\ Departure(x) = Departure(o) => x = o
         /\ Arrival(x) \in Signal /\ Departure(x) \in Signal
         /\ Arrival(x).type = "added" /\ Arrival(x).obj = x
         /\ Departure(x).type = "removed" /\ Departure(x).obj = x
BY DEF Arrival, Departure, Signal

\* What is sent comes last.
LEMMA SentDomain ==
  ASSUME signals \in Seq(Signal), NEW s \in Signal, Sent(s)
  PROVE  /\ \A i \in DOMAIN signals : i \in DOMAIN signals' /\ signals'[i] = signals[i]
         /\ \A i \in DOMAIN signals' :
              i \in DOMAIN signals \/ (listening /\ signals'[i] = s /\ \A j \in DOMAIN signals : i > j)
         /\ listening => \E i \in DOMAIN signals' : /\ signals'[i] = s
                                                    /\ \A j \in DOMAIN signals' : ~(j > i)
                                                    /\ \A j \in DOMAIN signals : i > j
<1>1. CASE listening
  <2>1. signals' = Append(signals, s) /\ Len(signals) \in Nat
    BY <1>1, SMT DEF Sent
  <2>2. /\ DOMAIN signals = 1..Len(signals) /\ DOMAIN signals' = 1..(Len(signals) + 1)
        /\ \A i \in 1..Len(signals) : signals'[i] = signals[i]
        /\ signals'[Len(signals) + 1] = s
    BY <2>1, SMT
  <2>3. Len(signals) + 1 \in DOMAIN signals'
    BY <2>1, <2>2, SMT
  <2> QED
    BY <1>1, <2>1, <2>2, <2>3, SMT
<1>2. CASE ~listening
  BY <1>2 DEF Sent
<1> QED
  BY <1>1, <1>2

\* What is handled came first.
LEMMA TailDomain ==
  ASSUME signals \in Seq(Signal), signals # <<>>, signals' = Tail(signals)
  PROVE  /\ 1 \in DOMAIN signals /\ signals[1] = Head(signals)
         /\ DOMAIN signals \subseteq Nat /\ DOMAIN signals' \subseteq Nat
         /\ \A i \in DOMAIN signals :
              i = 1 \/ (i > 1 /\ i - 1 \in DOMAIN signals' /\ signals'[i - 1] = signals[i])
         /\ \A i \in DOMAIN signals' : i + 1 \in DOMAIN signals /\ i + 1 > 1 /\ signals'[i] = signals[i + 1]
<1>1. /\ Len(signals) \in Nat \ {0} /\ DOMAIN signals = 1..Len(signals)
      /\ DOMAIN signals' = 1..(Len(signals) - 1)
      /\ \A i \in 1..(Len(signals) - 1) : signals'[i] = signals[i + 1]
      /\ signals[1] = Head(signals)
  BY SMT
<1> QED
  BY <1>1, SMT

\* A signal that does not undo o is sent, or none.
LEMMA SentExpected ==
  ASSUME signals \in Seq(Signal), NEW s \in Signal, Sent(s), NEW o \in Object, ~Undoes(s, o),
         Front' = Front, HasTask(o) => HasTask(o)', RunWill(o) => RunWill(o)', Expected(o)
  PROVE  Expected(o)'
<1>1. \A i \in DOMAIN signals' : Undoes(signals[i], o)' => i \in DOMAIN signals /\ Undoes(signals[i], o)
  BY SentDomain, Zenon DEF Undoes
<1>2. Spared(o) => Spared(o)'
  BY <1>1, Zenon DEF Spared
<1>3. Announced(o) => Announced(o)'
  BY <1>1, SentDomain, Zenon DEF Announced, Arrival
<1>4. (\A t \in Front : ~Undoes(t, o)) => (\A t \in Front' : ~Undoes(t, o)')
  BY Zenon DEF Undoes
<1> QED
  BY <1>2, <1>3, <1>4 DEF Expected, Arrival

\* Steps that leave the signals alone.
LEMMA Kept ==
  ASSUME signals' = signals, NEW o \in Object, Front' = Front,
         HasTask(o) => HasTask(o)', RunWill(o) => RunWill(o)' \/ HasTask(o)', Expected(o)
  PROVE  Expected(o)'
BY DEF Expected, Announced, Spared, Undoes, Arrival
-----------------------------------------------------------------------------
(* Tasks that are brought and taken. *)

LEMMA AddBrings ==
  ASSUME IInv, NEW t \in Threads, Add(t), NEW x \in Object, act[t].obj = {x}
  PROVE  /\ HasTask(x)'
         /\ \A o \in Object : HasTask(o)' => o = x \/ HasTask(o)
         /\ \A o \in Object :
              HasTask(o) /\ o.path # x.path /\ ~(Named(o) /\ o.modem = x.modem) => HasTask(o)'
         /\ ~stopped /\ act[t].at = "add" /\ act'[t].at = "finish"
         /\ \A s \in Threads \ {t} : act'[s] = act[s]
<1> PICK k \in Tasks :
      /\ Unused(k)
      /\ cancels' = [Without(cancels, Replaced(x)) EXCEPT ![x.path] = k]
      /\ of' = [of EXCEPT ![k] = {x}]
      /\ act' = [act EXCEPT ![t] = [at |-> "finish", obj |-> {}, new |-> {k},
                                    old |-> StoredAt(Replaced(x))]]
  BY DEF Add
<1>0. x.path \in Paths /\ x.modem \in Equipment
  BY DEF Object
<1>1. \A o \in Object : o.path \in Paths /\ o.modem \in Equipment
  BY DEF Object
<1>2. \A p \in Paths : cancels'[p] = IF p = x.path THEN k
                                     ELSE IF p \in Replaced(x) THEN None ELSE cancels[p]
  BY <1>0 DEF Without
<1>3. \A j \in Tasks : of'[j] = IF j = k THEN {x} ELSE of[j]
  BY DEF IInv, TypeOK
<1>4. k \notin Stored /\ None \notin Tasks /\ None \notin Equipment
  BY PresenceAssumption DEF Unused
<1>5. \A p \in Paths : cancels[p] # k
  BY <1>4 DEF Stored
<1>6. HasTask(x)'
  BY <1>0, <1>2, <1>3 DEF HasTask
<1>7. ASSUME NEW o \in Object, HasTask(o)', o # x PROVE HasTask(o)
  <2>1. PICK j \in Tasks : cancels'[o.path] = j /\ of'[j] = {o}
    BY <1>7 DEF HasTask
  <2>2. j # k
    BY <1>3, <1>7, <2>1
  <2> QED
    BY <1>1, <1>2, <1>3, <1>4, <2>1, <2>2 DEF HasTask
<1>8. ASSUME NEW o \in Object, HasTask(o), o.path # x.path, ~(Named(o) /\ o.modem = x.modem)
      PROVE  HasTask(o)'
  <2>1. PICK j \in Tasks : cancels[o.path] = j /\ of[j] = {o}
    BY <1>8 DEF HasTask
  <2>2. j # k /\ j # None
    BY <1>1, <1>4, <1>5, <2>1
  <2>3. modems[o.path] = IF Named(o) THEN o.modem ELSE None
    BY <1>1, <2>1, <2>2 DEF IInv, Whole, WellStored
  <2>4. modems[o.path] # x.modem
    BY <1>0, <1>4, <1>8, <2>3
  <2>5. o.path \notin Replaced(x)
    BY <1>0, <1>1, <1>8, <2>4 DEF Replaced, IInv, Whole, MapsAgree
  <2> QED
    BY <1>1, <1>2, <1>3, <1>8, <2>1, <2>2, <2>5 DEF HasTask
<1>9. /\ ~stopped /\ act[t].at = "add" /\ act'[t].at = "finish"
      /\ \A s \in Threads \ {t} : act'[s] = act[s]
  BY DEF Add, MayAdd, IInv, TypeOK
<1> QED
  BY <1>6, <1>7, <1>8, <1>9

LEMMA RemoveTakes ==
  ASSUME IInv, NEW t \in Threads, Remove(t), NEW x \in Object, act[t].obj = {x}
  PROVE  /\ \A o \in Object : HasTask(o)' => o.path # x.path /\ HasTask(o)
         /\ \A o \in Object : HasTask(o) /\ o.path # x.path => HasTask(o)'
         /\ act[t].at = "remove" /\ act'[t].at = "finish"
         /\ \A s \in Threads \ {t} : act'[s] = act[s]
<1>1. \A o \in Object : o.path \in Paths
  BY DEF Object
<1>2. /\ cancels' = Without(cancels, {x.path}) /\ of' = of
      /\ act' = [act EXCEPT ![t] = [at |-> "finish", obj |-> {}, new |-> {},
                                    old |-> StoredAt({x.path})]]
  BY DEF Remove, tasks
<1>3. \A p \in Paths : cancels'[p] = IF p = x.path THEN None ELSE cancels[p]
  BY <1>2 DEF Without
<1>4. None \notin Tasks
  BY PresenceAssumption
<1>5. \A o \in Object : HasTask(o)' => o.path # x.path /\ HasTask(o)
  BY <1>1, <1>2, <1>3, <1>4 DEF HasTask
<1>6. \A o \in Object : HasTask(o) /\ o.path # x.path => HasTask(o)'
  BY <1>1, <1>2, <1>3 DEF HasTask
<1>7. /\ act[t].at = "remove" /\ act'[t].at = "finish"
      /\ \A s \in Threads \ {t} : act'[s] = act[s]
  BY <1>2 DEF Remove, IInv, TypeOK
<1> QED
  BY <1>5, <1>6, <1>7

\* Nobody is called before Run has subscribed.
LEMMA BeforeRun ==
  ASSUME IInv, Informed, pc = "subscribe"
  PROVE  /\ signals = <<>> /\ to = {} /\ Front = {} /\ DOMAIN signals = {}
         /\ \A o \in Object : ~HasTask(o)
         /\ \A t \in Threads : act[t].at = "idle"
<1>1. signals = <<>> /\ to = {} /\ \A t \in Threads : act[t].at = "idle"
  BY DEF IInv, Whole, Course, Informed, WellRun, Serving
<1>2. DOMAIN signals = {}
  BY <1>1
<1>3. \A o \in Object : o.path \in Paths
  BY DEF Object
<1>4. \A o \in Object : ~HasTask(o)
  BY <1>3, PresenceAssumption DEF HasTask, Informed, WellRun, Serving
<1> QED
  BY <1>1, <1>2, <1>4 DEF Front

-----------------------------------------------------------------------------
(* What is told of the modems that come and go, action by action. *)

Steady == UNCHANGED <<subs, to, calling, listed, pc, left, down, stopped, maps, tasks, act>>

LEMMA SteadyKeeps ==
  ASSUME Steady
  PROVE  /\ Front' = Front
         /\ \A o \in Object : HasTask(o)' <=> HasTask(o)
         /\ \A o \in Object : RunWill(o)' <=> RunWill(o)
         /\ WellCalled <=> WellCalled'
BY DEF Steady, Front, HasTask, RunWill, WellCalled, maps, tasks

Knows == QuietList /\ ~down /\ pc \in Serving

LEMMA PlugInformed ==
  ASSUME IInv, Informed, NEW x \in Object, Plug(x), Quiet, Steady
  PROVE  Informed'
<1>1. /\ live' = live \cup {x} /\ used' = used \cup {x.path} /\ listening' = listening
      /\ x.path \notin used /\ (\A y \in live : y.modem # x.modem)
      /\ Sent(Arrival(x)) /\ faults' = faults /\ stops' = stops
      /\ signals \in Seq(Signal) /\ live \subseteq Object
  BY DEF Plug, Arrival, IInv, TypeOK, SignalsTypeOK
<1>2. \A y \in live : y.path \in used
  BY DEF Informed, WellLive
<1>3. WellLive'
  BY <1>1, <1>2 DEF Informed, WellLive
<1>4. WellRun'
  BY <1>1 DEF Informed, WellRun, Sent, Steady, maps, tasks
<1>5. QuietList => WellListed'
  BY <1>1 DEF Informed, WellListed, Steady
<1>6. /\ Arrival(x) \in Signal
      /\ Front' = Front /\ (\A o \in Object : HasTask(o)' <=> HasTask(o))
      /\ (\A o \in Object : RunWill(o)' <=> RunWill(o)) /\ WellCalled'
  BY <1>1, Different, SteadyKeeps DEF Informed
<1>7. ASSUME Knows', faults' = 0, NEW o \in live' PROVE Expected(o)'
  <2>0. Knows /\ faults = 0 /\ o \in Object
    BY <1>1, <1>7 DEF Knows, Steady
  <2>1. CASE o = x /\ listening
    <3>1. Announced(x)'
      BY <1>1, <1>6, <2>1, SentDomain DEF Announced, Arrival
    <3> QED
      BY <2>1, <3>1 DEF Expected
  <2>2. CASE ~listening
    <3>1. pc = "subscribe"
      BY <2>0, <2>2 DEF Knows, Informed, WellRun
    <3>2. DOMAIN signals' = {} /\ Front' = {} /\ pc' = "subscribe"
      BY <1>1, <1>6, <2>2, <3>1, BeforeRun DEF Sent, Steady
    <3> QED
      BY <3>2 DEF Expected, Spared, RunWill
  <2>3. CASE o # x
    <3>1. o \in live /\ Expected(o)
      BY <1>1, <1>7, <2>0, <2>3 DEF Informed, Knows
    <3>2. ~Undoes(Arrival(x), o)
      BY <1>1, <1>2, <2>0, <3>1, Different DEF Undoes
    <3> QED
      BY <1>1, <1>6, <2>0, <3>1, <3>2, SentExpected
  <2> QED
    BY <2>1, <2>2, <2>3
<1>8. ASSUME Knows', stops' = 0 PROVE Dismissed'
  <2>0. Dismissed
    BY <1>1, <1>8 DEF Informed, Knows, Steady
  <2> SUFFICES ASSUME NEW o \in Object, o \notin live'
               PROVE  /\ HasTask(o)' => Departure(o) \in Front' \/ Departs(o)'
                      /\ Arrival(o) \in Front' => Departs(o)'
                      /\ \A i \in DOMAIN signals' : signals'[i] = Arrival(o) =>
                           \E j \in DOMAIN signals' : j > i /\ signals'[j] = Departure(o)
    BY DEF Dismissed, Arrival, Departure
  <2>1. o \notin live /\ o # x
    BY <1>1
  <2>2. Departs(o) => Departs(o)'
    BY <1>1, <1>6, SentDomain, Zenon DEF Departs, Departure
  <2>3. Arrival(o) # Arrival(x)
    BY <2>1, Different
  <2>4. \A i \in DOMAIN signals : signals[i] = Arrival(o) =>
           \E j \in DOMAIN signals : j > i /\ signals[j] = Departure(o)
    BY <2>0, <2>1 DEF Dismissed
  <2>5. \A i \in DOMAIN signals' : signals'[i] = Arrival(o) =>
           \E j \in DOMAIN signals' : j > i /\ signals'[j] = Departure(o)
    BY <1>1, <1>6, <2>3, <2>4, SentDomain, Zenon
  <2> QED
    BY <1>6, <2>0, <2>1, <2>2, <2>5 DEF Dismissed
<1> QED
  BY <1>3, <1>4, <1>5, <1>6, <1>7, <1>8 DEF Informed, Knows

LEMMA UnplugInformed ==
  ASSUME IInv, Informed, NEW x \in Object, Unplug(x), Quiet, Steady
  PROVE  Informed'
<1>1. /\ live' = live \ {x} /\ x \in live /\ used' = used /\ listening' = listening
      /\ Sent(Departure(x)) /\ faults' = faults /\ stops' = stops
      /\ signals \in Seq(Signal) /\ live \subseteq Object
  BY DEF Unplug, Departure, IInv, TypeOK, SignalsTypeOK
<1>2. WellLive'
  BY <1>1 DEF Informed, WellLive
<1>3. WellRun'
  BY <1>1 DEF Informed, WellRun, Sent, Steady, maps, tasks
<1>4. QuietList => WellListed'
  BY DEF WellListed, Steady, Quiet
<1>5. /\ Departure(x) \in Signal
      /\ Front' = Front /\ (\A o \in Object : HasTask(o)' <=> HasTask(o))
      /\ (\A o \in Object : RunWill(o)' <=> RunWill(o)) /\ WellCalled'
  BY <1>1, Different, SteadyKeeps DEF Informed
<1>6. ASSUME Knows', faults' = 0, NEW o \in live' PROVE Expected(o)'
  <2>1. o \in live /\ o # x /\ o \in Object /\ Expected(o)
    BY <1>1, <1>6 DEF Informed, Knows, Steady
  <2>2. ~Undoes(Departure(x), o)
    BY <1>1, <2>1, Different DEF Undoes, Informed, WellLive
  <2> QED
    BY <1>1, <1>5, <2>1, <2>2, SentExpected
<1>7. ASSUME Knows', stops' = 0 PROVE Dismissed'
  <2>0. Dismissed
    BY <1>1, <1>7 DEF Informed, Knows, Steady
  <2> SUFFICES ASSUME NEW o \in Object, o \notin live'
               PROVE  /\ HasTask(o)' => Departure(o) \in Front' \/ Departs(o)'
                      /\ Arrival(o) \in Front' => Departs(o)'
                      /\ \A i \in DOMAIN signals' : signals'[i] = Arrival(o) =>
                           \E j \in DOMAIN signals' : j > i /\ signals'[j] = Departure(o)
    BY DEF Dismissed, Arrival, Departure
  <2>1. Arrival(o) # Departure(x)
    BY Different
  <2>2. CASE o # x
    <3>1. o \notin live
      BY <1>1, <2>2
    <3>2. Departs(o) => Departs(o)'
      BY <1>1, <1>5, SentDomain, Zenon DEF Departs, Departure
    <3>3. \A i \in DOMAIN signals : signals[i] = Arrival(o) =>
             \E j \in DOMAIN signals : j > i /\ signals[j] = Departure(o)
      BY <2>0, <3>1 DEF Dismissed
    <3>4. \A i \in DOMAIN signals' : signals'[i] = Arrival(o) =>
             \E j \in DOMAIN signals' : j > i /\ signals'[j] = Departure(o)
      BY <1>1, <1>5, <2>1, <3>3, SentDomain, Zenon
    <3> QED
      BY <1>5, <2>0, <3>1, <3>2, <3>4 DEF Dismissed
  <2>3. CASE o = x /\ listening
    <3>1. PICK i \in DOMAIN signals' : /\ signals'[i] = Departure(x)
                                       /\ \A j \in DOMAIN signals' : ~(j > i)
                                       /\ \A j \in DOMAIN signals : i > j
      BY <1>1, <1>5, <2>3, SentDomain
    <3>2. Departs(x)'
      BY <3>1 DEF Departs, Departure
    <3>3. \A h \in DOMAIN signals' : signals'[h] = Arrival(o) => i > h
      BY <1>1, <1>5, <2>1, <3>1, SentDomain, Zenon
    <3> QED
      BY <2>3, <3>1, <3>2, <3>3
  <2>4. CASE o = x /\ ~listening
    <3>1. pc = "subscribe"
      BY <1>7, <2>4 DEF Knows, Informed, WellRun, Steady
    <3>2. DOMAIN signals' = {} /\ Front' = {} /\ ~HasTask(o)'
      BY <1>1, <1>5, <2>4, <3>1, BeforeRun DEF Sent
    <3> QED
      BY <3>2
  <2> QED
    BY <2>2, <2>3, <2>4
<1> QED
  BY <1>2, <1>3, <1>4, <1>5, <1>6, <1>7 DEF Informed, Knows

LEMMA ManagerStopInformed ==
  ASSUME IInv, Informed, ManagerStop, Quiet, Steady
  PROVE  Informed'
<1>1. /\ live' = {} /\ listening' = listening /\ signals' = signals
      /\ stops \in Nat /\ stops' = stops + 1
  BY SignalsAssumption, SMT DEF ManagerStop, IInv, TypeOK, SignalsTypeOK
<1>2. stops' # 0
  BY <1>1, SMT
<1>3. WellLive'
  BY <1>1 DEF WellLive
<1>4. WellRun'
  BY <1>1 DEF Informed, WellRun, Steady, maps, tasks
<1>5. QuietList => WellListed'
  BY DEF WellListed, Steady, Quiet
<1>6. WellCalled'
  BY <1>1, SteadyKeeps DEF Informed
<1> QED
  BY <1>1, <1>2, <1>3, <1>4, <1>5, <1>6 DEF Informed

\* The first signal of the queue comes to the front, or is dropped.
LEMMA HandleInformed ==
  ASSUME IInv, Informed, Handle, UNCHANGED <<run, stopped, maps, tasks, act>>
  PROVE  Informed'
<1> DEFINE s == Head(signals)
<1>1. /\ to = {} /\ signals # <<>> /\ signals' = Tail(signals) /\ signals \in Seq(Signal)
      /\ UNCHANGED <<live, used, stops, listening, subs, listed>>
      /\ subs \subseteq {client} /\ faults \in Nat
      /\ UNCHANGED <<pc, left, down, stopped, maps, tasks, act>>
  BY PresenceAssumption, SignalsAssumption DEF Handle, IInv, TypeOK, SignalsTypeOK, run, world
<1>2. s \in Signal
  BY <1>1, SMT
<1>3. \/ to' = subs /\ calling' = (IF subs = {} THEN {} ELSE {s}) /\ faults' = faults
      \/ s.type = "added" /\ faults' = faults + 1 /\ calling' = {} /\ to' = to
  BY DEF Handle
<1> HIDE DEF s
<1>4. /\ 1 \in DOMAIN signals /\ signals[1] = s
      /\ DOMAIN signals \subseteq Nat /\ DOMAIN signals' \subseteq Nat
      /\ \A i \in DOMAIN signals :
           i = 1 \/ (i > 1 /\ i - 1 \in DOMAIN signals' /\ signals'[i - 1] = signals[i])
      /\ \A i \in DOMAIN signals' : i + 1 \in DOMAIN signals /\ i + 1 > 1 /\ signals'[i] = signals[i + 1]
  BY <1>1, TailDomain DEF s
<1>5. act["signals"].at = "idle" /\ Front = {}
  BY <1>1 DEF Informed, WellCalled, Front
<1>6. WellCalled'
  <2>1. to' # {} => calling' = {s}
    BY <1>1, <1>3
  <2> QED
    BY <1>1, <1>2, <1>5, <2>1 DEF Informed, WellCalled, Arrival, Departure
<1>7. listening /\ (pc \in Serving => client \in subs)
  BY <1>1 DEF Informed, WellRun
<1>8. WellRun'
  BY <1>1, <1>7 DEF Informed, WellRun, maps
<1>9. WellLive' /\ (QuietList => WellListed')
  BY <1>1 DEF Informed, WellLive, WellListed
<1>10. /\ \A o \in Object : HasTask(o)' <=> HasTask(o)
       /\ \A o \in Object : RunWill(o)' <=> RunWill(o)
  BY <1>1 DEF HasTask, RunWill, maps, tasks
<1>11. ASSUME Knows', faults' = 0, NEW o \in live' PROVE Expected(o)'
  <2>1. Knows /\ faults' = faults /\ faults = 0 /\ o \in live /\ o \in Object
    BY <1>1, <1>3, <1>11, SMT DEF Knows, IInv, TypeOK, SignalsTypeOK
  <2>2. Expected(o) /\ Front' = {s}
    BY <1>1, <1>3, <1>5, <1>7, <1>11, <2>1 DEF Informed, Knows, Front
  <2>3. \A j \in DOMAIN signals' : Undoes(signals[j], o)' <=> Undoes(signals[j + 1], o)
    BY <1>4 DEF Undoes
  <2>4. CASE Announced(o)
    <3>1. PICK i \in DOMAIN signals : /\ signals[i] = Arrival(o)
                                      /\ \A j \in DOMAIN signals : j > i => ~Undoes(signals[j], o)
      BY <2>4 DEF Announced
    <3>2. CASE i = 1
      <4>1. \A j \in DOMAIN signals' : ~Undoes(signals[j], o)'
        BY <1>4, <2>3, <3>1, <3>2
      <4> QED
        BY <1>4, <2>2, <3>1, <3>2, <4>1 DEF Expected, Spared, Arrival
    <3>3. CASE i # 1
      <4>1. i - 1 \in DOMAIN signals' /\ signals'[i - 1] = Arrival(o)
        BY <1>4, <3>1, <3>3
      <4>2. \A j \in DOMAIN signals' : j > i - 1 => j + 1 > i
        BY <1>4, SMT
      <4>3. \A j \in DOMAIN signals' : j > i - 1 => ~Undoes(signals[j], o)'
        BY <1>4, <2>3, <3>1, <4>2
      <4> QED
        BY <4>1, <4>3 DEF Expected, Announced, Arrival
    <3> QED
      BY <3>2, <3>3
  <2>5. CASE Spared(o) /\ (HasTask(o) \/ RunWill(o))
    <3>1. ~Undoes(s, o) /\ \A j \in DOMAIN signals' : ~Undoes(signals[j], o)'
      BY <1>4, <2>3, <2>5 DEF Spared
    <3>2. \A z \in Front' : ~Undoes(z, o)'
      BY <2>2, <3>1 DEF Undoes
    <3> QED
      BY <1>10, <2>1, <2>5, <3>1, <3>2 DEF Expected, Spared
  <2> QED
    BY <1>5, <2>2, <2>4, <2>5 DEF Expected
<1>12. ASSUME Knows', stops' = 0 PROVE Dismissed'
  <2>0. Dismissed
    BY <1>1, <1>12 DEF Informed, Knows
  <2> SUFFICES ASSUME NEW o \in Object, o \notin live
               PROVE  /\ HasTask(o)' => Departure(o) \in Front' \/ Departs(o)'
                      /\ Arrival(o) \in Front' => Departs(o)'
                      /\ \A i \in DOMAIN signals' : signals'[i] = Arrival(o) =>
                           \E j \in DOMAIN signals' : j > i /\ signals'[j] = Departure(o)
    BY <1>1 DEF Dismissed, Arrival, Departure
  <2>1. Front' = {s} \/ (s.type = "added" /\ Front' = {})
    BY <1>1, <1>3, <1>5, <1>7, <1>12 DEF Knows, Front
  <2>2. Departs(o) => s = Departure(o) \/ Departs(o)'
    BY <1>4 DEF Departs, Departure
  <2>3. HasTask(o) => Departs(o)
    BY <1>5, <2>0 DEF Dismissed
  <2>4. \A i \in DOMAIN signals : signals[i] = Arrival(o) =>
           \E j \in DOMAIN signals : j > i /\ signals[j] = Departure(o)
    BY <2>0 DEF Dismissed
  <2>5. Departure(o).type = "removed"
    BY Different
  <2>6. HasTask(o)' => Departure(o) \in Front' \/ Departs(o)'
    BY <1>10, <2>1, <2>2, <2>3, <2>5
  <2>7. ASSUME Arrival(o) \in Front' PROVE Departs(o)'
    <3>1. PICK j \in DOMAIN signals : j > 1 /\ signals[j] = Departure(o)
      BY <1>4, <2>1, <2>4, <2>7
    <3>2. j - 1 \in DOMAIN signals' /\ signals'[j - 1] = Departure(o)
      BY <1>4, <3>1
    <3> QED
      BY <3>2 DEF Departs, Departure
  <2>8. ASSUME NEW i \in DOMAIN signals', signals'[i] = Arrival(o)
        PROVE  \E j \in DOMAIN signals' : j > i /\ signals'[j] = Departure(o)
    <3>1. PICK j \in DOMAIN signals : j > i + 1 /\ signals[j] = Departure(o)
      BY <1>4, <2>4, <2>8
    <3>2. i \in Nat /\ j \in Nat /\ j > 1 /\ j - 1 > i
      BY <1>4, <3>1, SMT
    <3>3. j - 1 \in DOMAIN signals' /\ signals'[j - 1] = Departure(o)
      BY <1>4, <3>1, <3>2
    <3> QED
      BY <3>2, <3>3
  <2> QED
    BY <2>6, <2>7, <2>8
<1> QED
  BY <1>6, <1>8, <1>9, <1>11, <1>12 DEF Informed, Knows

\* A step that tells nobody anything: what it must leave as it is while Run serves.
LEMMA KeptInformed ==
  ASSUME IInv, Informed, UNCHANGED <<live, used>>, WellCalled', WellRun', QuietList => WellListed',
         Knows' => /\ Knows /\ UNCHANGED <<signals, faults, stops>> /\ Front' = Front
                   /\ \A o \in live : /\ HasTask(o) => HasTask(o)'
                                      /\ RunWill(o) => RunWill(o)' \/ HasTask(o)'
                   /\ \A o \in Object \ live : HasTask(o)' => HasTask(o)
  PROVE  Informed'
<1>1. WellLive'
  BY DEF Informed, WellLive
<1>2. live \subseteq Object
  BY DEF IInv, TypeOK, SignalsTypeOK
<1>3. ASSUME Knows', faults' = 0, NEW o \in live' PROVE Expected(o)'
  <2>1. o \in live /\ o \in Object /\ Expected(o)
    BY <1>2, <1>3 DEF Informed, Knows
  <2> QED
    BY <1>3, <2>1, Kept
<1>4. ASSUME Knows', stops' = 0 PROVE Dismissed'
  <2>1. Dismissed
    BY <1>4 DEF Informed, Knows
  <2>2. /\ live' = live /\ signals' = signals /\ Front' = Front
        /\ \A o \in Object \ live : HasTask(o)' => HasTask(o)
    BY <1>4
  <2> SUFFICES ASSUME NEW o \in Object \ live
               PROVE  /\ HasTask(o) => Departure(o) \in Front \/ Departs(o)
                      /\ Arrival(o) \in Front => Departs(o)
                      /\ \A i \in DOMAIN signals : signals[i] = Arrival(o) =>
                           \E j \in DOMAIN signals : j > i /\ signals[j] = Departure(o)
    BY <2>2, Zenon DEF Dismissed, Departs, Arrival, Departure
  <2> QED
    BY <2>1 DEF Dismissed
<1> QED
  BY <1>1, <1>3, <1>4 DEF Informed, Knows

LEMMA CallInformed ==
  ASSUME IInv, Informed, Call
  PROVE  Informed'
<1>1. /\ client \in to /\ act["signals"].at = "idle"
      /\ UNCHANGED <<live, used, signals, listening, subs, stops, faults, listed>>
      /\ UNCHANGED <<pc, left, down, stopped, maps, tasks>>
  BY DEF Call, Called, signalVars, registry, world, run
<1>2. PICK s \in Signal : calling = {s}
  BY <1>1 DEF Informed, WellCalled
<1>3. /\ s.type = "added" => s = Arrival(s.obj)
      /\ s.type = "removed" => s = Departure(s.obj)
      /\ s.obj \in Object
  BY SignalIs
<1>4. \/ /\ s.type = "removed" /\ Begin("signals", "remove", s.obj)
         /\ UNCHANGED signalVars
      \/ /\ s.type = "added" /\ ~down /\ Begin("signals", "add", s.obj)
         /\ UNCHANGED signalVars
      \/ s.type = "added" /\ down /\ Called(client) /\ UNCHANGED act
  BY <1>2 DEF Call
<1>5. to \subseteq {client}
  BY PresenceAssumption DEF IInv, TypeOK, SignalsTypeOK
<1>6. \A o \in Object : HasTask(o)' <=> HasTask(o)
  BY <1>1 DEF HasTask, maps, tasks
<1>7. CASE UNCHANGED signalVars
           /\ \E at \in {"add", "remove"} :
                /\ Begin("signals", at, s.obj)
                /\ at = "add" => s.type = "added"
                /\ at = "remove" => s.type = "removed"
  <2> PICK at \in {"add", "remove"} : /\ Begin("signals", at, s.obj)
                                      /\ at = "add" => s.type = "added"
                                      /\ at = "remove" => s.type = "removed"
    BY <1>7
  <2>1. /\ act'["run"] = act["run"]
        /\ act'["signals"].at = at /\ act'["signals"].obj = {s.obj}
    BY DEF Begin, Idle, IInv, TypeOK, Threads
  <2>2. to' = to /\ calling' = calling
    BY <1>7 DEF signalVars, registry
  <2>3. WellCalled'
    BY <1>1, <1>2, <1>3, <2>1, <2>2 DEF Informed, WellCalled, Arrival, Departure
  <2>4. WellRun' /\ (QuietList => WellListed')
    BY <1>1, <2>1 DEF Informed, WellRun, WellListed, maps
  <2>5. Front' = Front
    BY <1>1, <2>1, <2>2 DEF Front
  <2>6. \A o \in live : RunWill(o)' <=> RunWill(o)
    BY <1>1, <2>1 DEF RunWill
  <2>7. live \subseteq Object
    BY DEF IInv, TypeOK, SignalsTypeOK
  <2> QED
    BY <1>1, <1>6, <2>3, <2>4, <2>5, <2>6, <2>7, KeptInformed DEF Knows
<1>8. CASE down /\ Called(client) /\ UNCHANGED act
  <2>1. to' = {}
    BY <1>5, <1>8 DEF Called
  <2>2. WellCalled'
    BY <1>1, <1>8, <2>1 DEF Informed, WellCalled
  <2>3. WellRun' /\ (QuietList => WellListed')
    BY <1>1, <1>8 DEF Informed, WellRun, WellListed, maps
  <2> QED
    BY <1>1, <1>8, <2>2, <2>3, KeptInformed DEF Knows
<1> QED
  BY <1>4, <1>7, <1>8

\* Registry.handleSignals brings a modem's task.
LEMMA AddInformed ==
  ASSUME IInv, Informed, Add("signals")
  PROVE  Informed'
<1>0. "signals" \in Threads /\ "run" \in Threads /\ "run" # "signals"
  BY DEF Threads
<1>1. /\ act["signals"].at = "add" /\ live \subseteq Object
      /\ UNCHANGED <<live, used, signals, listening, subs, stops, faults, listed, to, calling>>
      /\ UNCHANGED <<pc, left, down, stopped>>
  BY DEF Add, signalVars, registry, world, run, IInv, TypeOK, SignalsTypeOK
<1>2. PICK x \in Object : act["signals"].obj = {x} /\ calling = {Arrival(x)}
  BY <1>1 DEF Informed, WellCalled
<1>3. /\ HasTask(x)'
      /\ \A o \in Object : HasTask(o)' => o = x \/ HasTask(o)
      /\ \A o \in Object :
           HasTask(o) /\ o.path # x.path /\ ~(Named(o) /\ o.modem = x.modem) => HasTask(o)'
      /\ ~stopped /\ act'["signals"].at = "finish" /\ act'["run"] = act["run"]
  BY <1>0, <1>2, AddBrings
<1>4. client \in to /\ Front = {Arrival(x)} /\ Front' = {}
  BY <1>1, <1>2, <1>3 DEF Front, Informed, WellCalled
<1>5. WellCalled'
  BY <1>1, <1>3, <1>4 DEF Informed, WellCalled
<1>6. pc # "subscribe"
  BY <1>0, <1>1 DEF IInv, Whole, Course
<1>7. WellRun' /\ WellLive' /\ (QuietList => WellListed')
  BY <1>1, <1>3, <1>6 DEF Informed, WellRun, WellLive, WellListed
<1>8. ASSUME Knows', faults' = 0, NEW o \in live' PROVE Expected(o)'
  <2>1. o \in live /\ o \in Object /\ Expected(o)
    BY <1>1, <1>8 DEF Informed, Knows
  <2>2. (Announced(o) => Announced(o)') /\ (Spared(o) => Spared(o)')
    BY <1>1 DEF Announced, Spared, Undoes, Arrival
  <2>3. RunWill(o) => RunWill(o)'
    BY <1>1, <1>3 DEF RunWill
  <2>4. CASE o = x
    BY <1>3, <1>4, <2>1, <2>2, <2>4 DEF Expected
  <2>5. CASE o # x /\ ~Announced(o)
    <3>1. Spared(o) /\ ~Undoes(Arrival(x), o) /\ (HasTask(o) \/ RunWill(o))
      BY <1>4, <2>1, <2>5, Different DEF Expected
    <3>2. o.path # x.path /\ ~(Named(o) /\ o.modem = x.modem)
      BY <2>1, <2>5, <3>1, Different DEF Undoes
    <3> QED
      BY <1>3, <1>4, <2>1, <2>2, <2>3, <3>1, <3>2 DEF Expected
  <2> QED
    BY <2>2, <2>4, <2>5 DEF Expected
<1>9. ASSUME Knows', stops' = 0 PROVE Dismissed'
  <2>1. Dismissed
    BY <1>1, <1>9 DEF Informed, Knows
  <2> SUFFICES ASSUME NEW o \in Object, o \notin live, HasTask(o)'
               PROVE  Departs(o)
    BY <1>1, <1>4, <2>1 DEF Dismissed, Departs, Arrival, Departure
  <2>2. Departure(o) \notin Front
    BY <1>4, Different
  <2> QED
    BY <1>3, <1>4, <2>1, <2>2 DEF Dismissed
<1> QED
  BY <1>5, <1>7, <1>8, <1>9 DEF Informed, Knows

\* Registry.handleSignals takes a modem's task away.
LEMMA RemoveInformed ==
  ASSUME IInv, Informed, Remove("signals")
  PROVE  Informed'
<1>0. "signals" \in Threads /\ "run" \in Threads /\ "run" # "signals"
  BY DEF Threads
<1>1. /\ act["signals"].at = "remove" /\ live \subseteq Object
      /\ UNCHANGED <<live, used, signals, listening, subs, stops, faults, listed, to, calling>>
      /\ UNCHANGED <<pc, left, down, stopped>>
  BY DEF Remove, signalVars, registry, world, run, IInv, TypeOK, SignalsTypeOK
<1>2. PICK x \in Object : act["signals"].obj = {x} /\ calling = {Departure(x)}
  BY <1>1 DEF Informed, WellCalled
<1>3. /\ \A o \in Object : HasTask(o)' => o.path # x.path /\ HasTask(o)
      /\ \A o \in Object : HasTask(o) /\ o.path # x.path => HasTask(o)'
      /\ act'["signals"].at = "finish" /\ act'["run"] = act["run"]
  BY <1>0, <1>2, RemoveTakes
<1>4. client \in to /\ Front = {Departure(x)} /\ Front' = {}
  BY <1>1, <1>2, <1>3 DEF Front, Informed, WellCalled
<1>5. WellCalled'
  BY <1>1, <1>3, <1>4 DEF Informed, WellCalled
<1>6. pc # "subscribe"
  BY <1>0, <1>1 DEF IInv, Whole, Course
<1>7. WellRun' /\ WellLive' /\ (QuietList => WellListed')
  BY <1>1, <1>3, <1>6 DEF Informed, WellRun, WellLive, WellListed
<1>8. ASSUME Knows', faults' = 0, NEW o \in live' PROVE Expected(o)'
  <2>1. o \in live /\ o \in Object /\ Expected(o)
    BY <1>1, <1>8 DEF Informed, Knows
  <2>2. (Announced(o) => Announced(o)') /\ (Spared(o) => Spared(o)')
    BY <1>1 DEF Announced, Spared, Undoes, Arrival
  <2>3. RunWill(o) => RunWill(o)'
    BY <1>1, <1>3 DEF RunWill
  <2>4. CASE ~Announced(o)
    <3>1. Spared(o) /\ ~Undoes(Departure(x), o) /\ (HasTask(o) \/ RunWill(o))
      BY <1>4, <2>1, <2>4, Different DEF Expected
    <3>2. o.path # x.path
      BY <2>1, <3>1, Different DEF Undoes
    <3> QED
      BY <1>3, <1>4, <2>1, <2>2, <2>3, <3>1, <3>2 DEF Expected
  <2> QED
    BY <2>2, <2>4 DEF Expected
<1>9. ASSUME Knows', stops' = 0 PROVE Dismissed'
  <2>1. Dismissed
    BY <1>1, <1>9 DEF Informed, Knows
  <2> SUFFICES ASSUME NEW o \in Object, o \notin live, HasTask(o)'
               PROVE  Departs(o)
    BY <1>1, <1>4, <2>1 DEF Dismissed, Departs, Arrival, Departure
  <2>2. Departure(o) \notin Front
    BY <1>3, <1>4, Different
  <2> QED
    BY <1>3, <1>4, <2>1, <2>2 DEF Dismissed
<1> QED
  BY <1>5, <1>7, <1>8, <1>9 DEF Informed, Knows

\* Run adds a modem of its list, which is still there.
LEMMA RunAddInformed ==
  ASSUME IInv, Informed, Add("run")
  PROVE  Informed'
<1>0. "signals" \in Threads /\ "run" \in Threads /\ "run" # "signals"
  BY DEF Threads
<1>1. /\ act["run"].at = "add" /\ live \subseteq Object
      /\ UNCHANGED <<live, used, signals, listening, subs, stops, faults, listed, to, calling>>
      /\ UNCHANGED <<pc, left, down, stopped>>
  BY DEF Add, signalVars, registry, world, run, IInv, TypeOK, SignalsTypeOK
<1>2. PICK x \in Object : act["run"].obj = {x}
  BY <1>1 DEF Informed, WellCalled
<1>3. /\ HasTask(x)'
      /\ \A o \in Object : HasTask(o)' => o = x \/ HasTask(o)
      /\ \A o \in Object :
           HasTask(o) /\ o.path # x.path /\ ~(Named(o) /\ o.modem = x.modem) => HasTask(o)'
      /\ ~stopped /\ act'["run"].at = "finish" /\ act'["signals"] = act["signals"]
  BY <1>0, <1>2, AddBrings
<1>4. pc = "add"
  BY <1>1 DEF Informed, WellRun
<1>5. WellCalled' /\ Front' = Front
  BY <1>1, <1>3 DEF Informed, WellCalled, Front
<1>6. WellRun' /\ (QuietList => WellListed')
  BY <1>1, <1>3, <1>4 DEF Informed, WellRun, WellListed
<1>7. ASSUME QuietList, NEW o \in live
      PROVE  /\ HasTask(o) => HasTask(o)'
             /\ RunWill(o) => RunWill(o)' \/ HasTask(o)'
  <2>1. x \in live
    BY <1>1, <1>2, <1>4, <1>7 DEF Informed, WellListed
  <2>2. CASE o = x
    BY <1>3, <2>2
  <2>3. CASE o # x
    <3>1. o.path # x.path /\ o.modem # x.modem
      BY <2>1, <2>3 DEF Informed, WellLive
    <3>2. o \notin act["run"].obj
      BY <1>2, <2>3
    <3> QED
      BY <1>1, <1>3, <1>4, <3>1, <3>2 DEF RunWill
  <2> QED
    BY <2>2, <2>3
<1>8. ASSUME QuietList, NEW o \in Object \ live, HasTask(o)' PROVE HasTask(o)
  <2>1. x \in live
    BY <1>1, <1>2, <1>4, <1>8 DEF Informed, WellListed
  <2> QED
    BY <1>3, <1>8, <2>1
<1> QED
  BY <1>1, <1>5, <1>6, <1>7, <1>8, KeptInformed DEF Knows

LEMMA FinishInformed ==
  ASSUME IInv, Informed, NEW t \in Threads, Finish(t)
  PROVE  Informed'
<1>1. /\ act[t].at = "finish" /\ live \subseteq Object
      /\ UNCHANGED <<live, used, signals, listening, subs, stops, faults, listed>>
      /\ UNCHANGED <<pc, left, down, stopped, maps, of>>
      /\ \A s \in Threads : act'[s] = IF s = t THEN Idle ELSE act[s]
      /\ IF t = "signals" THEN Called(client) ELSE UNCHANGED <<to, calling>>
  BY DEF Finish, Called, signalVars, registry, world, run, IInv, TypeOK, SignalsTypeOK
<1>2. Idle.at = "idle"
  BY DEF Idle
<1>3. \A o \in Object : HasTask(o)' <=> HasTask(o)
  BY <1>1 DEF HasTask, maps
<1>4. pc # "subscribe"
  BY <1>1 DEF IInv, Whole, Course
<1>5. CASE t = "signals"
  <2>1. /\ act'["signals"] = Idle /\ act'["run"] = act["run"]
        /\ to' = {} /\ calling' = {}
    BY <1>1, <1>5, PresenceAssumption DEF Called, Threads, IInv, TypeOK, SignalsTypeOK
  <2>2. Front = {} /\ Front' = {}
    BY <1>1, <1>5, <2>1 DEF Front
  <2>3. WellCalled'
    BY <1>2, <2>1 DEF Informed, WellCalled
  <2>4. WellRun' /\ (QuietList => WellListed')
    BY <1>1, <1>4, <2>1 DEF Informed, WellRun, WellListed
  <2>5. \A o \in live : RunWill(o)' <=> RunWill(o)
    BY <1>1, <2>1 DEF RunWill
  <2> QED
    BY <1>1, <1>3, <2>2, <2>3, <2>4, <2>5, KeptInformed DEF Knows
<1>6. CASE t = "run"
  <2>1. /\ act'["run"] = Idle /\ act'["signals"] = act["signals"]
        /\ to' = to /\ calling' = calling
    BY <1>1, <1>6 DEF Threads
  <2>2. Front' = Front
    BY <2>1 DEF Front
  <2>3. WellCalled'
    BY <1>2, <2>1 DEF Informed, WellCalled
  <2>4. WellRun' /\ (QuietList => WellListed')
    BY <1>1, <1>2, <1>4, <2>1 DEF Informed, WellRun, WellListed
  <2>5. \A o \in live : RunWill(o) => RunWill(o)'
    BY <1>1, <1>6, <2>1 DEF RunWill
  <2> QED
    BY <1>1, <1>3, <2>2, <2>3, <2>4, <2>5, KeptInformed DEF Knows
<1> QED
  BY <1>5, <1>6 DEF Threads

LEMMA ThreadInformed ==
  ASSUME IInv, Informed, NEW t \in Threads, ThreadStep(t)
  PROVE  Informed'
<1>1. CASE Add(t)
  BY <1>1, AddInformed, RunAddInformed DEF Threads
<1>2. CASE AddNothing(t)
  <2>1. /\ act[t].at = "add" /\ stopped
        /\ UNCHANGED <<live, used, signals, listening, subs, stops, faults, listed, to, calling>>
        /\ UNCHANGED <<pc, left, down, stopped, maps, of>>
        /\ \A s \in Threads : act'[s] = IF s = t THEN [Idle EXCEPT !.at = "finish"] ELSE act[s]
    BY <1>2 DEF AddNothing, MayAdd, signalVars, registry, world, run, tasks, IInv, TypeOK
  <2>2. [Idle EXCEPT !.at = "finish"].at = "finish"
    BY DEF Idle
  <2>3. pc \notin Serving
    BY <2>1 DEF Informed, WellRun
  <2>4. "signals" \in Threads /\ "run" \in Threads
    BY DEF Threads
  <2>5. WellCalled'
    BY <2>1, <2>2, <2>4 DEF Informed, WellCalled
  <2>6. WellRun' /\ (QuietList => WellListed')
    BY <2>1, <2>2, <2>3, <2>4 DEF Informed, WellRun, WellListed, Serving
  <2> QED
    BY <2>1, <2>3, <2>5, <2>6, KeptInformed DEF Knows
<1>3. CASE Remove(t)
  <2>1. t = "signals"
    BY <1>3 DEF Remove, Informed, WellCalled, Threads
  <2> QED
    BY <1>3, <2>1, RemoveInformed
<1>4. CASE Finish(t)
  BY <1>4, FinishInformed
<1> QED
  BY <1>1, <1>2, <1>3, <1>4 DEF ThreadStep

LEMMA RunInformed ==
  ASSUME IInv, Informed, RunStep
  PROVE  Informed'
<1>0. "signals" \in Threads /\ "run" \in Threads /\ live \subseteq Object /\ client \in Clients
  BY PresenceAssumption DEF Threads, IInv, TypeOK, SignalsTypeOK
<1>1. CASE RunSubscribes
  <2>1. pc = "subscribe" /\ UNCHANGED <<left, down, act>>
    BY <1>1 DEF RunSubscribes
  <2>2. CASE Subscribe(client) /\ pc' = "list" /\ UNCHANGED <<stopped, maps, tasks>>
    <3>1. /\ UNCHANGED <<live, used, signals, stops, faults, listed, to, calling>>
          /\ listening' /\ client \in subs'
      BY <2>2 DEF Subscribe, world
    <3>2. WellCalled' /\ Front' = Front
      BY <2>1, <3>1 DEF Informed, WellCalled, Front
    <3>3. WellRun' /\ WellListed'
      BY <2>1, <2>2, <3>1 DEF Informed, WellRun, WellListed, Serving
    <3>4. \A o \in live : RunWill(o)'
      BY <2>2 DEF RunWill
    <3>5. \A o \in Object : HasTask(o)' <=> HasTask(o)
      BY <2>2 DEF HasTask, maps, tasks
    <3>6. Knows' => Knows
      BY <2>1 DEF Knows, Serving
    <3> QED
      BY <1>0, <3>1, <3>2, <3>3, <3>4, <3>5, <3>6, KeptInformed
  <2>3. CASE ListFails(client) /\ pc' = "returned" /\ StopAll
    <3>1. UNCHANGED <<live, used, signals, listening, subs, to, calling>>
      BY <2>3 DEF ListFails, world, registry
    <3>2. WellCalled'
      BY <2>1, <3>1 DEF Informed, WellCalled
    <3>3. WellRun' /\ WellListed' /\ ~Knows'
      BY <2>1, <2>3, <3>1 DEF Informed, WellRun, WellListed, Serving, Knows
    <3> QED
      BY <3>1, <3>2, <3>3, KeptInformed
  <2> QED
    BY <1>1, <2>2, <2>3 DEF RunSubscribes
<1>2. CASE RunLists
  <2>1. pc = "list" /\ UNCHANGED <<left, down, act, stopped, maps, tasks>>
    BY <1>2 DEF RunLists
  <2>2. CASE List(client) /\ pc' = "listing"
    <3>1. /\ UNCHANGED <<live, used, signals, listening, subs, stops, faults, to, calling>>
          /\ listed'[client] = live
      BY <1>0, <2>2 DEF List, world, registry, IInv, TypeOK, SignalsTypeOK
    <3>2. WellCalled' /\ Front' = Front
      BY <2>1, <3>1 DEF Informed, WellCalled, Front
    <3>3. WellRun' /\ WellListed'
      BY <2>1, <2>2, <3>1 DEF Informed, WellRun, WellListed, Serving
    <3>4. \A o \in live : RunWill(o)'
      BY <2>2, <3>1 DEF RunWill
    <3>5. \A o \in Object : HasTask(o)' <=> HasTask(o)
      BY <2>1 DEF HasTask, maps, tasks
    <3>6. Knows' => Knows
      BY <2>1 DEF Knows, Serving
    <3> QED
      BY <1>0, <3>1, <3>2, <3>3, <3>4, <3>5, <3>6, KeptInformed
  <2>3. CASE ListFails(client) /\ pc' = "unsubscribe"
    <3>1. UNCHANGED <<live, used, signals, listening, subs, to, calling>>
      BY <2>3 DEF ListFails, world, registry
    <3>2. WellCalled'
      BY <2>1, <3>1 DEF Informed, WellCalled
    <3>3. WellRun' /\ WellListed' /\ ~Knows'
      BY <2>1, <2>3, <3>1 DEF Informed, WellRun, WellListed, Serving, Knows
    <3> QED
      BY <3>1, <3>2, <3>3, KeptInformed
  <2> QED
    BY <1>2, <2>2, <2>3 DEF RunLists
<1>3. CASE RunListed
  <2>1. /\ pc = "listing" /\ pc' = "add" /\ left' = listed[client]
        /\ UNCHANGED <<down, act, stopped, maps, tasks>>
        /\ UNCHANGED <<live, used, signals, listening, subs, stops, faults, to, calling>>
    BY <1>3 DEF RunListed, Listed, world
  <2>2. WellCalled' /\ Front' = Front
    BY <2>1 DEF Informed, WellCalled, Front
  <2>3. act["run"].at = "idle"
    BY <2>1 DEF Informed, WellRun, WellCalled
  <2>4. WellRun' /\ (QuietList => WellListed')
    BY <2>1, <2>3 DEF Informed, WellRun, WellListed, Serving
  <2>5. \A o \in live : RunWill(o) => RunWill(o)'
    BY <2>1 DEF RunWill
  <2>6. \A o \in Object : HasTask(o)' <=> HasTask(o)
    BY <2>1 DEF HasTask, maps, tasks
  <2>7. Knows' => Knows
    BY <2>1 DEF Knows, Serving
  <2> QED
    BY <1>0, <2>1, <2>2, <2>4, <2>5, <2>6, <2>7, KeptInformed
<1>4. CASE RunAdds
  <2> PICK x \in left : /\ left' = left \ {x}
                        /\ IF down THEN UNCHANGED act ELSE Begin("run", "add", x)
    BY <1>4 DEF RunAdds
  <2>1. /\ pc = "add" /\ act["run"].at = "idle" /\ left \subseteq Object
        /\ UNCHANGED <<pc, down, stopped, maps, tasks>>
        /\ UNCHANGED <<live, used, signals, listening, subs, stops, faults, listed, to, calling>>
    BY <1>4 DEF RunAdds, signalVars, world, registry, IInv, TypeOK
  <2>2. /\ act'["signals"] = act["signals"]
        /\ down => act'["run"] = act["run"]
        /\ ~down => act'["run"].at = "add" /\ act'["run"].obj = {x}
    <3>1. CASE down
      BY <3>1
    <3>2. CASE ~down
      <4>1. act' = [act EXCEPT !["run"] = [Idle EXCEPT !.at = "add", !.obj = {x}]]
        BY <3>2 DEF Begin
      <4>2. act'["signals"] = act["signals"] /\ act'["run"] = [Idle EXCEPT !.at = "add", !.obj = {x}]
        BY <1>0, <4>1 DEF IInv, TypeOK
      <4> QED
        BY <3>2, <4>2 DEF Idle
    <3> QED
      BY <3>1, <3>2
  <2>3. WellCalled' /\ Front' = Front
    BY <2>1, <2>2 DEF Informed, WellCalled, Front
  <2>4. WellRun' /\ (QuietList => WellListed')
    BY <2>1, <2>2 DEF Informed, WellRun, WellListed, Serving
  <2>5. ~down => \A o \in live : RunWill(o) => RunWill(o)'
    BY <2>1, <2>2 DEF RunWill
  <2>6. \A o \in Object : HasTask(o)' <=> HasTask(o)
    BY <2>1 DEF HasTask, maps, tasks
  <2> QED
    BY <1>0, <2>1, <2>3, <2>4, <2>5, <2>6, KeptInformed DEF Knows
<1>5. CASE RunAdded
  <2>1. /\ pc = "add" /\ pc' = "wait" /\ left = {} /\ act["run"].at = "idle"
        /\ UNCHANGED <<left, down, act, stopped, maps, tasks>>
        /\ UNCHANGED <<live, used, signals, listening, subs, stops, faults, listed, to, calling>>
    BY <1>5 DEF RunAdded, signalVars, world, registry
  <2>2. WellCalled' /\ Front' = Front
    BY <2>1 DEF Informed, WellCalled, Front
  <2>3. WellRun' /\ WellListed'
    BY <2>1 DEF Informed, WellRun, WellListed, Serving
  <2>4. \A o \in live : ~RunWill(o)
    BY <2>1 DEF RunWill
  <2>5. \A o \in Object : HasTask(o)' <=> HasTask(o)
    BY <2>1 DEF HasTask, maps, tasks
  <2>6. Knows' => Knows
    BY <2>1 DEF Knows, Serving
  <2> QED
    BY <1>0, <2>1, <2>2, <2>3, <2>4, <2>5, <2>6, KeptInformed
<1>6. CASE RunEnds \/ RunUnsubscribes \/ RunStops \/ RunReturns
  <2>1. /\ pc \in {"wait", "unsubscribe", "stop", "drain"} /\ pc' \notin Serving
        /\ UNCHANGED <<live, used, signals, listening, to, calling, act, left, down>>
    BY <1>6 DEF RunEnds, RunUnsubscribes, Unsubscribe, RunStops, RunReturns, Serving,
                signalVars, world, registry
  <2>2. WellCalled'
    BY <2>1 DEF Informed, WellCalled
  <2>3. WellRun' /\ WellListed' /\ ~Knows'
    BY <2>1 DEF Informed, WellRun, WellListed, Serving, Knows
  <2> QED
    BY <2>1, <2>2, <2>3, KeptInformed
<1> QED
  BY <1>1, <1>2, <1>3, <1>4, <1>5, <1>6 DEF RunStep

LEMMA StepInformed ==
  ASSUME IInv, Informed, [Next]_vars
  PROVE  Informed'
<1>1. CASE RunStep
  BY <1>1, RunInformed
<1>2. CASE Call
  BY <1>2, CallInformed
<1>3. CASE \E t \in Threads : ThreadStep(t)
  BY <1>3, ThreadInformed
<1>4. CASE \/ GoDown \/ UNCHANGED vars
           \/ \E k \in Tasks : End(k)
  <2>1. /\ UNCHANGED <<live, used, signals, listening, subs, stops, faults, listed, to, calling>>
        /\ UNCHANGED <<pc, left, stopped, maps, of, act>>
        /\ down' = FALSE => down = FALSE
    BY <1>4 DEF GoDown, End, vars, run, tasks, signalVars, world, registry, IInv, TypeOK
  <2>2. WellCalled' /\ Front' = Front
    BY <2>1 DEF Informed, WellCalled, Front
  <2>3. WellRun' /\ (QuietList => WellListed')
    BY <2>1 DEF Informed, WellRun, WellListed, maps
  <2>4. /\ \A o \in Object : HasTask(o)' <=> HasTask(o)
        /\ \A o \in Object : RunWill(o)' <=> RunWill(o)
    BY <2>1 DEF HasTask, RunWill, maps
  <2>5. Knows' => Knows
    <3>1. down' \in BOOLEAN /\ down \in BOOLEAN
      BY StepType DEF IInv, TypeOK
    <3> QED
      BY <2>1, <3>1 DEF Knows
  <2>6. live \subseteq Object
    BY DEF IInv, TypeOK, SignalsTypeOK
  <2> QED
    BY <2>1, <2>2, <2>3, <2>4, <2>5, <2>6, KeptInformed
<1>5. CASE Handle /\ UNCHANGED <<run, stopped, maps, tasks, act>>
  BY <1>5, HandleInformed
<1>6. CASE Quiet /\ World /\ UNCHANGED <<run, stopped, maps, tasks, act>>
  <2>1. Steady
    BY <1>6 DEF Steady, World, ManagerStop, Plug, Unplug, registry, run
  <2> QED
    BY <1>6, <2>1, PlugInformed, UnplugInformed, ManagerStopInformed DEF World
<1> QED
  BY <1>1, <1>2, <1>3, <1>4, <1>5, <1>6 DEF Next

LEMMA StartInformed == Init => Informed
<1> SUFFICES ASSUME Init PROVE Informed
  OBVIOUS
<1>1. /\ pc = "subscribe" /\ ~listening /\ signals = <<>> /\ to = {} /\ calling = {} /\ ~stopped
      /\ \A t \in Threads : act[t].at = "idle"
      /\ \A p \in Paths : cancels[p] = None
      /\ live \subseteq Object
  BY DEF Init, SignalsInit, Idle
<1>2. "signals" \in Threads /\ "run" \in Threads
  BY DEF Threads
<1>3. WellCalled /\ WellRun /\ WellListed
  BY <1>1, <1>2 DEF WellCalled, WellRun, WellListed, Serving
<1>4. WellLive
  BY DEF Init, SignalsInit, WellLive
<1>5. DOMAIN signals = {} /\ Front = {}
  BY <1>1 DEF Front
<1>6. \A o \in live : Expected(o)
  BY <1>1, <1>5 DEF Expected, Spared, RunWill
<1>7. \A o \in Object : ~HasTask(o)
  BY <1>1, PresenceAssumption DEF HasTask, Object
<1>8. Dismissed
  BY <1>5, <1>7 DEF Dismissed
<1> QED
  BY <1>3, <1>4, <1>6, <1>8 DEF Informed

\* At rest every modem that is there has its own task, and no other modem has one.
LEMMA AtRest ==
  ASSUME IInv, Informed
  PROVE  Served
<1> SUFFICES ASSUME Settled, QuietList
             PROVE  /\ faults = 0 => \A o \in live :
                         \E k \in Tasks \ cancelled : cancels[o.path] = k /\ of[k] = {o}
                    /\ stops = 0 => \A k \in Pending : k \notin cancelled => of[k] \subseteq live
  BY DEF Served
<1>1. /\ Front = {} /\ DOMAIN signals = {} /\ Knows /\ pc = "wait"
      /\ \A t \in Threads : act[t].at = "idle"
      /\ live \subseteq Object
  BY DEF Settled, Front, Knows, Serving, IInv, TypeOK, SignalsTypeOK
<1>2. ASSUME faults = 0, NEW o \in live
      PROVE  \E k \in Tasks \ cancelled : cancels[o.path] = k /\ of[k] = {o}
  <2>1. Expected(o)
    BY <1>1, <1>2 DEF Informed, Knows
  <2>2. PICK k \in Tasks : cancels[o.path] = k /\ of[k] = {o}
    BY <1>1, <2>1 DEF Expected, Announced, RunWill, HasTask
  <2>3. o.path \in Paths /\ k # None
    BY <1>1, PresenceAssumption DEF Object
  <2>4. k \notin cancelled
    BY <2>2, <2>3 DEF IInv, Whole, WellStored, Doomed
  <2> QED
    BY <2>2, <2>4
<1>3. ASSUME stops = 0, NEW k \in Pending, k \notin cancelled PROVE of[k] \subseteq live
  <2>1. k \in Tasks /\ phase[k] # "over"
    BY DEF Pending
  <2>2. ~Doomed(k)
    BY <1>1, <1>3 DEF Doomed, IInv, Whole, WellHeld
  <2>3. PICK o \in Object : of[k] = {o} /\ cancels[o.path] = k
    BY <2>1, <2>2 DEF IInv, Whole, WellKept
  <2>4. HasTask(o)
    BY <2>1, <2>3 DEF HasTask
  <2>5. Dismissed
    BY <1>1, <1>3 DEF Informed, Knows
  <2>6. o \in live
    BY <1>1, <2>4, <2>5 DEF Dismissed, Departs
  <2> QED
    BY <2>3, <2>6
<1> QED
  BY <1>2, <1>3

\* When all signals are handled and the list is used up, the modems that are
\* present have their tasks, each at its path, and those that were unplugged have
\* none: neither a signal between subscribing and the list nor one that repeats
\* the list loses or doubles a task.
THEOREM ServedAll == Spec => []Served
<1>1. Init => IInv /\ Informed
  BY Start, StartInformed
<1>2. (IInv /\ Informed) /\ [Next]_vars => (IInv /\ Informed)'
  BY Step, StepInformed
<1>3. IInv /\ Informed => Served
  BY AtRest
<1> QED
  BY <1>1, <1>2, <1>3, PTL DEF Spec
=============================================================================
