----------------------------- MODULE SimRefresh -----------------------------
(***************************************************************************)
(* Registry.ensureSIMVisible (internal/pkg/modem/sim_refresh.go): after    *)
(* the SIM of a modem was changed, wait until ModemManager shows the new   *)
(* one, and help: refresh ModemManager's view of the modem, reload the     *)
(* modem, activate the SIM's session, or cut the SIM's power, each of them *)
(* once. And PowerCycleSIMAndWait, which begins with cutting the power and *)
(* in the end waits for a new object of the modem                          *)
(* (waitForModemAfterAction in registry.go), which the registry's signals  *)
(* may tell of, its map, or a list that is read again and again.           *)
(*                                                                         *)
(* The modem, its card and ModemManager's object for it are external: the  *)
(* object may go at any moment and come back under a new path, showing the *)
(* profile the card has by then, an older one or none. A step is one read  *)
(* of ModemManager or of the card with what is done upon it; the sleeps    *)
(* between them are only moments at which other things happen.             *)
(*                                                                         *)
(* Abstractions: one modem with one SIM slot; the target is a profile, or  *)
(* only the slot. Of the registry, which ModemSignals has in full, only    *)
(* what it knows of this modem; a subscriber is called when the signal is  *)
(* handled.                                                                *)
(***************************************************************************)
EXTENDS Naturals, FiniteSets

CONSTANTS
  Calls,     \* those who may call ensureSIMVisible, one call each
  Profiles,  \* ICCIDs
  First,     \* the profile that is enabled at first
  NoSim,     \* no SIM is shown
  Qmi,       \* is the modem's primary port a QMI port?
  MaxReloads,\* bound: how often the modem's object goes
  MaxFaults  \* bound: how many calls of the modem, the card or a server fail

ASSUME SimAssumption ==
  First \in Profiles /\ NoSim \notin Profiles /\ Qmi \in BOOLEAN /\ MaxReloads \in Nat /\ MaxFaults \in Nat

VARIABLES
  mm,     \* ModemManager: the path of its object (0: gone), the last path, the SIM it shows
  card,   \* the card: the profile that is enabled, is its application ready
  call,   \* the calls of ensureSIMVisible and PowerCycleSIMAndWait
  reg,    \* the registry, while somebody waits on it: the last signal it has handled,
          \* the path it knows (0: none)
  faults  \* how many calls have failed

simVars == <<mm, card, call, reg, faults>>

Shown   == Profiles \cup {NoSim}
Waiting == {"first", "second", "recover", "fallback"}

\* A call that has not been made. `at` is the path of the modem it knows. A call
\* of PowerCycleSIMAndWait `waits`, for another object than the one at `from`:
\* `reload` is what modemReloadState has, `ready` that the channel has a modem.
NoCall == [pc |-> "none", target |-> NoSim, at |-> 0, cycleAllowed |-> FALSE, cycled |-> FALSE,
           seenReload |-> FALSE, refreshed |-> FALSE, reloaded |-> FALSE, activated |-> FALSE,
           unchanged |-> FALSE, waits |-> FALSE, from |-> 0, reload |-> FALSE, ready |-> FALSE]

Active(c) == call[c].pc \in Waiting \cup {"repower", "wait"}
Faulty    == faults < MaxFaults /\ faults' = faults + 1

-----------------------------------------------------------------------------
(* The modem. *)

Goes ==
  /\ mm.path # 0 /\ mm.last <= MaxReloads
  /\ mm' = [mm EXCEPT !.path = 0]
  /\ UNCHANGED <<card, call, reg, faults>>

\* It comes back, with or without its SIM read.
ComesBack ==
  /\ mm.path = 0
  /\ \E s \in {NoSim} \cup (IF card.ready THEN {card.profile} ELSE {}) :
       mm' = [path |-> mm.last + 1, last |-> mm.last + 1, sim |-> s]
  /\ UNCHANGED <<card, call, reg, faults>>

\* ModemManager notices by itself what the card has.
Notices ==
  /\ mm.path # 0 /\ card.ready
  /\ mm' = [mm EXCEPT !.sim = card.profile]
  /\ UNCHANGED <<card, call, reg, faults>>

CardReady ==
  /\ ~card.ready
  /\ card' = [card EXCEPT !.ready = TRUE]
  /\ UNCHANGED <<mm, call, reg, faults>>

-----------------------------------------------------------------------------
(* The registry. The object at path p is added with signal 2p, removed with   *)
(* signal 2p + 1.                                                             *)

LastSignal == 2 * mm.last + (IF mm.path = 0 THEN 1 ELSE 0)

\* Nobody reads what the registry knows but those who wait.
Followed == \E c \in Calls : call[c].waits
Unread   == [heard |-> 0, known |-> 0]

\* Registry.Modems.
Lists == reg' = IF Followed THEN [reg EXCEPT !.known = mm.path] ELSE reg

\* Mutant of Ready: any object of the modem will do.
ReadyAtOnce(k, p) == p # 0

\* readyModemEvent and readyModemIn: is the object at p one to return?
Ready(k, p) == k.reload \/ p # k.from

\* `notify` of waitForModemAfterAction; a removal counts if the registry knew the
\* modem at that path, or if it is the path of the wait.
ToldAdded(k, p)   == IF k.waits /\ Ready(k, p) THEN [k EXCEPT !.ready = TRUE] ELSE k
ToldRemoved(k, p) == IF k.waits /\ p \in {reg.known, k.from} THEN [k EXCEPT !.reload = TRUE] ELSE k

\* A turn of handleSignals. An addition is dropped when the details of the modem
\* cannot be read.
HandleSignal ==
  /\ Followed /\ reg.heard < LastSignal
  /\ LET n == reg.heard + 1
         p == n \div 2
     IN \/ /\ n % 2 = 0
           /\ \/ /\ reg' = [heard |-> n, known |-> p]
                 /\ call' = [c \in Calls |-> ToldAdded(call[c], p)]
                 /\ UNCHANGED faults
              \/ /\ (mm.path # p /\ UNCHANGED faults) \/ Faulty
                 /\ reg' = [reg EXCEPT !.heard = n]
                 /\ UNCHANGED call
        \/ /\ n % 2 = 1
           /\ reg' = [heard |-> n, known |-> IF reg.known = p THEN 0 ELSE reg.known]
           /\ call' = [c \in Calls |-> ToldRemoved(call[c], p)]
           /\ UNCHANGED faults
  /\ UNCHANGED <<mm, card>>

-----------------------------------------------------------------------------
(* ensureSIMVisible. *)

\* EnsureSIMVisible of the modem at path `at`.
Ensure(c, target, at) ==
  call' = [call EXCEPT ![c] = [NoCall EXCEPT !.pc = "first", !.target = target, !.at = at,
                                             !.cycleAllowed = TRUE]]

\* modemMatchesSIMTarget; a target without a profile is any SIM in the slot.
Visible(c) == mm.path # 0 /\ call[c].target \in {mm.sim, NoSim}

\* readCurrentModem: the modem is looked up by its IMEI.
FindsAt(c) == mm.path # 0

\* The SIM is shown: the call returns, or the wait for the modem begins, with
\* what the call has seen.
Shows(k) ==
  IF k.waits THEN [k EXCEPT !.pc = "wait", !.reload = @ \/ k.seenReload] ELSE [k EXCEPT !.pc = "shown"]

\* One read of ModemManager, the first of a turn or the one after simSettleDelay.
Read(c, from, to) ==
  /\ call[c].pc = from
  /\ \/ /\ FindsAt(c)
        /\ LET k == [call[c] EXCEPT !.at = mm.path, !.seenReload = @ \/ mm.path # call[c].at]
           IN call' = [call EXCEPT ![c] = IF Visible(c) THEN Shows(k) ELSE [k EXCEPT !.pc = to]]
        /\ Lists
        /\ UNCHANGED faults
     \/ /\ ~FindsAt(c)
        /\ call' = [call EXCEPT ![c].seenReload = TRUE, ![c].pc = "first"]
        /\ Lists
        /\ UNCHANGED faults
     \/ Faulty /\ call' = [call EXCEPT ![c].pc = to] /\ UNCHANGED reg
  /\ UNCHANGED <<mm, card>>

Mismatch(c) == call[c].target \notin {card.profile, NoSim}

\* The card can still become what is asked for (qmiSIMStateForTarget).
Hopeful(c) == card.ready \/ ~Mismatch(c)

\* refreshModemManagerSIMStateInOrder: refresh, the next time reload, then
\* nothing. Both do nothing to an object that has gone.
Refreshes(c, means) ==
  LET k == means IN
  /\ ~k.refreshed
  /\ \/ /\ call' = [call EXCEPT ![c] = [k EXCEPT !.refreshed = TRUE, !.pc = "first"]]
        /\ mm' \in {mm} \cup (IF mm.path = k.at /\ card.ready
                               THEN {[mm EXCEPT !.sim = card.profile]} ELSE {})
        /\ UNCHANGED faults
     \/ /\ mm.path = k.at /\ Faulty
        /\ call' = [call EXCEPT ![c] = [k EXCEPT !.refreshed = TRUE, !.pc = "failed"]]
        /\ UNCHANGED mm

Reloads(c, means) ==
  LET k == means IN
  /\ k.refreshed /\ ~k.reloaded
  /\ \/ /\ call' = [call EXCEPT ![c] = [k EXCEPT !.reloaded = TRUE, !.pc = "first"]]
        /\ mm' = IF mm.path = k.at THEN [mm EXCEPT !.path = 0] ELSE mm
        /\ UNCHANGED faults
     \/ /\ mm.path = k.at /\ Faulty
        /\ call' = [call EXCEPT ![c] = [k EXCEPT !.reloaded = TRUE, !.pc = "failed"]]
        /\ mm' \in {mm, [mm EXCEPT !.path = 0]}

NothingLeft(c, means) ==
  /\ means.refreshed /\ means.reloaded
  /\ call' = [call EXCEPT ![c] = [means EXCEPT !.pc = "fallback"]]
  /\ UNCHANGED <<mm, faults>>

RefreshInOrder(c, means) ==
  Refreshes(c, means) \/ Reloads(c, means) \/ NothingLeft(c, means)

\* Recovery, once the modem was seen to change or its SIM was without power:
\* the card's session is activated once, if that can help; then, as with a card
\* that cannot be read, ModemManager is told; with a card that cannot become
\* what is asked for, nothing is done.
Recover(c) ==
  /\ call[c].pc = "recover"
  /\ LET k == call[c] IN
     IF k.seenReload \/ k.cycled
     THEN \/ /\ Qmi /\ Hopeful(c) /\ ~card.ready /\ ~k.activated
             /\ card' \in {card, [card EXCEPT !.ready = TRUE]}
             /\ RefreshInOrder(c, [k EXCEPT !.activated = TRUE])
          \/ RefreshInOrder(c, k) /\ UNCHANGED card
          \/ /\ Qmi /\ ~Hopeful(c)
             /\ call' = [call EXCEPT ![c].pc = "fallback"]
             /\ UNCHANGED <<mm, card, faults>>
     ELSE /\ call' = [call EXCEPT ![c].pc = "fallback"]
          /\ UNCHANGED <<mm, card, faults>>
  /\ UNCHANGED reg

\* The last means: the power of the SIM, when the modem has not changed for a
\* while (simReenumerationGracePeriod). The card is started again by it.
Fallback(c) ==
  /\ call[c].pc = "fallback"
  /\ LET mayCycle == call[c].cycleAllowed /\ ~call[c].seenReload /\ ~call[c].cycled /\ Qmi IN
     \/ /\ call' = [call EXCEPT ![c].pc = "first", ![c].unchanged = @ \/ mayCycle]
        /\ UNCHANGED <<mm, card, faults>>
     \/ /\ mayCycle /\ call[c].unchanged
        /\ \/ /\ call' = [call EXCEPT ![c].cycled = TRUE, ![c].pc = "first"]
              /\ UNCHANGED faults
              /\ card' = [card EXCEPT !.ready = FALSE]
           \/ /\ Faulty
              /\ call' = [call EXCEPT ![c].cycled = TRUE, ![c].pc = "failed"]
              /\ card' \in {card, [card EXCEPT !.ready = FALSE]}
        /\ UNCHANGED mm
  /\ UNCHANGED reg

-----------------------------------------------------------------------------
(* PowerCycleSIMAndWait of the modem at path `at`: it subscribes, then lists   *)
(* go on beside the action, which cuts the power of the SIM and waits for it.  *)

\* By then the registry may have handled any of the signals since it listed `at`.
PowerCycleAndWait(c, target, at) ==
  /\ call' = [call EXCEPT ![c] = [NoCall EXCEPT !.pc = "repower", !.target = target, !.at = at,
                                                !.cycled = TRUE, !.waits = TRUE, !.from = at]]
  /\ reg' \in IF Followed THEN {reg}
              ELSE [heard : (2 * at - 1) .. LastSignal, known : {0, at, mm.path}]

Repower(c) ==
  /\ call[c].pc = "repower"
  /\ \/ /\ Qmi
        /\ call' = [call EXCEPT ![c].pc = "first"]
        /\ card' = [card EXCEPT !.ready = FALSE]
        /\ UNCHANGED faults
     \/ /\ ~Qmi /\ UNCHANGED <<card, faults>>
        /\ call' = [call EXCEPT ![c].pc = "failed"]
     \/ /\ Qmi /\ Faulty
        /\ call' = [call EXCEPT ![c].pc = "failed"]
        /\ card' \in {card, [card EXCEPT !.ready = FALSE]}
  /\ UNCHANGED <<mm, reg>>

\* A tick of pollReadyModem during the action, or of waitForReadyModem after it:
\* a list without the modem is taken for a reload.
Poll(c) ==
  LET k == call[c] IN
  /\ k.waits /\ Active(c)
  /\ call' = [call EXCEPT ![c] =
       IF mm.path = 0 THEN [k EXCEPT !.reload = TRUE]
       ELSE IF ~Ready(k, mm.path) THEN k
       ELSE IF k.pc = "wait" THEN [k EXCEPT !.pc = "back"] ELSE [k EXCEPT !.ready = TRUE]]
  /\ Lists
  /\ UNCHANGED <<mm, card, faults>>

\* The wait finds a modem in the registry's map (findReadyModem) or the channel.
Finds(c) ==
  /\ call[c].pc = "wait"
  /\ call[c].ready \/ (reg.known # 0 /\ Ready(call[c], reg.known))
  /\ call' = [call EXCEPT ![c].pc = "back"]
  /\ UNCHANGED <<mm, card, reg, faults>>

-----------------------------------------------------------------------------
\* The caller takes the result of its call; a subscription is cancelled.
Returns(c) ==
  /\ call' = [call EXCEPT ![c] = NoCall]
  /\ reg' = IF \E d \in Calls \ {c} : call[d].waits THEN reg ELSE Unread

\* The time of the request is over.
TimesOut(c) ==
  /\ Active(c)
  /\ call' = [call EXCEPT ![c].pc = "failed"]
  /\ UNCHANGED <<mm, card, reg, faults>>

ModemStep == Goes \/ ComesBack \/ Notices \/ CardReady

CallStep(c) ==
  \/ Read(c, "first", "second") \/ Read(c, "second", "recover")
  \/ Recover(c) \/ Fallback(c)
  \/ Repower(c) \/ Poll(c) \/ Finds(c)

SimInit ==
  /\ mm = [path |-> 1, last |-> 1, sim |-> First]
  /\ card = [profile |-> First, ready |-> TRUE]
  /\ call = [c \in Calls |-> NoCall]
  /\ reg = Unread
  /\ faults = 0

CallState ==
  [pc : Waiting \cup {"none", "shown", "failed", "repower", "wait", "back"}, target : Shown, at : Nat,
   cycleAllowed : BOOLEAN, cycled : BOOLEAN, seenReload : BOOLEAN, refreshed : BOOLEAN,
   reloaded : BOOLEAN, activated : BOOLEAN, unchanged : BOOLEAN, waits : BOOLEAN, from : Nat,
   reload : BOOLEAN, ready : BOOLEAN]

SimTypeOK ==
  /\ mm \in [path : Nat, last : Nat, sim : Shown]
  /\ card \in [profile : Profiles, ready : BOOLEAN]
  /\ call \in [Calls -> CallState]
  /\ reg \in [heard : 0 .. LastSignal, known : 0 .. mm.last]
  /\ faults \in 0 .. MaxFaults
=============================================================================
