---------------------------- MODULE ModemSignals ----------------------------
(***************************************************************************)
(* Modems come and go, and the registry (internal/pkg/modem/registry.go)   *)
(* tells its subscribers. ModemManager names each modem by an object path  *)
(* that it does not use again until it restarts; a modem that reloads gets *)
(* a new path. Its signals arrive in order and are handled one at a time   *)
(* by Registry.handleSignals; a list of modems is read at one moment       *)
(* (GetManagedObjects) and used, after the SIM of each modem has been      *)
(* read, at a later one.                                                   *)
(*                                                                         *)
(* ModemManager is outside the repository: it is modelled from how the     *)
(* registry uses it. Of a modem the model keeps its object path and its    *)
(* equipment identifier, which may be empty (Nameless).                    *)
(***************************************************************************)
EXTENDS Naturals, Sequences, FiniteSets

CONSTANTS
  Paths,        \* object paths
  Equipment,    \* modems
  Nameless,     \* the modems that report no equipment identifier
  Clients,      \* who subscribes to the registry and asks it for lists
  MaxChanges,   \* bound: modems plugged and unplugged
  MaxStops,     \* bound: restarts of ModemManager
  MaxFaults     \* bound: modems whose details cannot be read, lists that fail

ASSUME SignalsAssumption ==
  /\ Nameless \subseteq Equipment
  /\ MaxChanges \in Nat /\ MaxStops \in Nat /\ MaxFaults \in Nat

Object == [path : Paths, modem : Equipment]
Signal == [type : {"added", "removed"}, obj : Object]

VARIABLES
  live,        \* the objects ModemManager has
  used,        \* the paths it has given since it started
  signals,     \* signals sent and not yet handled
  listening,   \* has the registry asked D-Bus for signals
  known,       \* Registry.modems
  subs,        \* clients in Registry.subs
  calling,     \* the signal handleSignals is passing on (a set, at most one)
  to,          \* the subscribers it has yet to call
  listed,      \* listed[c]: what GetManagedObjects returned to c
  changes, stops, faults

world    == <<live, used, changes, stops>>
registry == <<known, subs, calling, to>>
signalVars == <<world, signals, listening, registry, listed, faults>>

Named(o) == o.modem \notin Nameless

-----------------------------------------------------------------------------
(* ModemManager. *)

Sent(s) == signals' = IF listening THEN Append(signals, s) ELSE signals

Changing == changes < MaxChanges /\ changes' = changes + 1

\* A modem appears, for the first time or after a reload.
Plug(o) ==
  /\ Changing
  /\ o.path \notin used
  /\ \A x \in live : x.modem # o.modem
  /\ live' = live \cup {o} /\ used' = used \cup {o.path}
  /\ Sent([type |-> "added", obj |-> o])
  /\ UNCHANGED <<listening, registry, listed, stops, faults>>

Unplug(o) ==
  /\ Changing
  /\ o \in live
  /\ live' = live \ {o}
  /\ Sent([type |-> "removed", obj |-> o])
  /\ UNCHANGED <<used, listening, registry, listed, stops, faults>>

\* ModemManager is restarted: no signal says that its modems went, and their
\* paths are given again (comment at registry.go:570).
ManagerStop ==
  /\ stops < MaxStops
  /\ stops' = stops + 1
  /\ live' = {} /\ used' = {}
  /\ UNCHANGED <<changes, signals, listening, registry, listed, faults>>

-----------------------------------------------------------------------------
(* The registry. *)

Subscribe(c) ==
  /\ subs' = subs \cup {c} /\ listening' = TRUE
  /\ UNCHANGED <<world, signals, known, calling, to, listed, faults>>

Unsubscribe(c) ==
  /\ subs' = subs \ {c}
  /\ UNCHANGED <<world, signals, listening, known, calling, to, listed, faults>>

\* Modems, first half: the objects of this moment.
List(c) ==
  /\ listed' = [listed EXCEPT ![c] = live]
  /\ UNCHANGED <<world, signals, listening, registry, faults>>

\* Modems, second half, seconds later: the registry's map is what was read,
\* whatever signals have said since.
Listed(c) ==
  /\ known' = listed[c] /\ listed' = [listed EXCEPT ![c] = {}]
  /\ UNCHANGED <<world, signals, listening, subs, calling, to, faults>>

\* The call fails, or its context ends.
ListFails(c) ==
  /\ faults < MaxFaults /\ faults' = faults + 1
  /\ UNCHANGED <<world, signals, listening, registry, listed>>

\* deleteAndUpdate, and the delete of a removed path.
Known(s) ==
  IF s.type = "removed"
  THEN {x \in known : x.path # s.obj.path}
  ELSE {s.obj} \cup {x \in known : /\ x.path # s.obj.path
                                   /\ Named(s.obj) => x.modem # s.obj.modem}

\* One turn of handleSignals: the details of an added modem are read (within
\* modemSignalLoadTimeout), then the map is updated and the subscribers of
\* this moment are remembered.
Handle ==
  /\ to = {} /\ signals # <<>>
  /\ signals' = Tail(signals)
  /\ LET s == Head(signals)
     IN  \/ /\ known' = Known(s)
            /\ to' = subs /\ calling' = IF subs = {} THEN {} ELSE {s}
            /\ UNCHANGED faults
         \/ /\ s.type = "added"
            /\ faults < MaxFaults /\ faults' = faults + 1
            /\ calling' = {}
            /\ UNCHANGED <<known, to>>
  /\ UNCHANGED <<world, listening, subs, listed>>

\* The call of one subscriber has returned.
Called(c) ==
  /\ c \in to
  /\ to' = to \ {c}
  /\ calling' = IF to' = {} THEN {} ELSE calling
  /\ UNCHANGED <<world, signals, listening, known, subs, listed, faults>>

SignalsInit ==
  /\ live \in {L \in SUBSET Object : \A x, y \in L : x # y => x.path # y.path /\ x.modem # y.modem}
  /\ used = {x.path : x \in live}
  /\ signals = <<>> /\ listening = FALSE
  /\ known = {} /\ subs = {} /\ calling = {} /\ to = {}
  /\ listed = [c \in Clients |-> {}]
  /\ changes = 0 /\ stops = 0 /\ faults = 0

World == ManagerStop \/ \E o \in Object : Plug(o) \/ Unplug(o)

SignalsTypeOK ==
  /\ live \subseteq Object /\ used \subseteq Paths
  /\ signals \in Seq(Signal)
  /\ listening \in BOOLEAN
  /\ known \subseteq Object /\ subs \subseteq Clients
  /\ calling \subseteq Signal /\ to \subseteq Clients
  /\ listed \in [Clients -> SUBSET Object]
  /\ changes \in 0..MaxChanges /\ stops \in 0..MaxStops /\ faults \in 0..MaxFaults
=============================================================================
