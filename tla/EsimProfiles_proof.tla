-------------------------- MODULE EsimProfiles_proof --------------------------
(***************************************************************************)
(* The eSIM requests of a modem never take each other's lock, report what  *)
(* they changed and nothing that was there before, and download only what  *)
(* was agreed to: EsimProfiles for any requests, profiles, answers and     *)
(* faults, and for a modem that restarts as often as it likes.             *)
(***************************************************************************)
EXTENDS EsimProfiles, WellFoundedInduction, TLAPS

\* The modem as those who wait for it find it: its objects are numbered in the
\* order they come, and nobody knows of one that has not been.
WellNumbered ==
  /\ mm.path <= mm.last
  /\ \A r \in Requests : req[r].kind # "none" => req[r].at \in 1 .. mm.last

\* Where a request of each kind can be, and what it is about.
WellPlaced(r) ==
  LET q == req[r] IN
  /\ q.kind = "none" => q.pc \in {"idle", "done", "error"}
  /\ q.kind = "enable" => q.pc \in {"resolve", "open", "list", "restore", "switch", "close", "await",
                                    "resolve again", "open again", "notifications", "send"}
  /\ q.kind = "delete" => q.pc \in {"resolve", "open", "list", "delete", "report"}
  /\ q.kind = "read" => q.pc \in {"resolve", "open", "list"}
  /\ q.kind = "download" => q.pc \in {"resolve", "open", "ask", "confirm", "install", "report"}
  /\ q.kind = "number" => q.pc \in {"update", "await"}
  /\ q.kind \in {"enable", "delete", "download"} => q.profile \in Profiles
  /\ q.pc = "report" => q.raised # 0

\* Only an update of the number waits for another object of the modem, and it
\* does not go on to a second client.
WellAwaited(r) ==
  /\ call[r].waits => call[r].pc # "shown"
  /\ req[r].kind = "number" /\ req[r].pc = "await" => call[r].waits

\* The places of a request that are passed with the client open.
Locked == {"list", "restore", "switch", "close", "notifications", "send", "delete", "report", "ask",
           "confirm", "install"}

\* Whoever has a client open has the lock, whoever needs one has it open, and
\* what is to be deleted was not put to use since the check.
WellLocked ==
  /\ \A r \in open : holder = r
  /\ \A r \in Requests : req[r].pc \in Locked => r \in open
  /\ \A r \in Requests : req[r].pc = "delete" => req[r].profile # card.profile

\* The first answer of the browser is kept until it is asked for, and a download
\* goes on only with the right one.
WellAnswered(r) ==
  LET q == req[r] IN
  q.kind = "download" =>
    /\ q.pc \in {"resolve", "open", "ask", "confirm"} => q.confirm = q.first /\ q.raised = 0
    /\ q.pc \in {"install", "report"} => q.first = "yes"

\* The list of notifications is taken before the profile is switched: the own
\* notification is newer than the list and stays until somebody has sent it.
WellReported(r) ==
  LET q == req[r] IN
  q.kind = "enable" =>
    /\ q.pc \in {"restore", "switch"} => q.lastSeq \in 1 .. notes.last
    /\ q.pc \in {"close", "await", "resolve again", "open again", "notifications"} =>
         q.lastSeq >= 1 /\ q.raised > q.lastSeq /\ q.raised \in notes.pending \cup tried
    /\ q.pc = "send" => 1 \notin q.todo /\ q.raised \in q.todo \cup tried

Well(r) == WellPlaced(r) /\ WellAwaited(r) /\ WellAnswered(r) /\ WellReported(r)

Whole ==
  /\ WellNumbered /\ WellLocked /\ 1 \in notes.pending
  /\ \A r \in Requests : Well(r)

IInv == TypeOK /\ Whole
-----------------------------------------------------------------------------
(* The last of some numbers. *)

Less == {p \in Nat \X Nat : p[1] < p[2]}

LEMMA LessIsWellFounded == IsWellFoundedOn(Less, Nat)
BY NatLessThanWellFounded, Zenon DEF OpToRel, Less

\* Max of a bounded set that is not empty is one of its members, and none is
\* greater.
LEMMA MaxOfBounded ==
  ASSUME NEW n \in Nat, NEW S, S \subseteq 0 .. n, S # {}
  PROVE  Max(S) \in S /\ \A y \in S : Max(S) >= y
<1> DEFINE T == {n - x : x \in S}
<1>1. T \subseteq Nat /\ T # {}
  <2>1. \A x \in S : n - x \in Nat
    OBVIOUS
  <2> QED
    BY <2>1
<1>2. PICK t \in T : \A y \in T : <<y, t>> \notin Less
  <2> HIDE DEF T
  <2> QED
    BY <1>1, LessIsWellFounded, WFMin
<1>3. PICK x \in S : t = n - x
  BY <1>2
<1>4. \A y \in S : x >= y
  <2> SUFFICES ASSUME NEW y \in S PROVE x >= y
    OBVIOUS
  <2>1. n - y \in T
    OBVIOUS
  <2>2. <<n - y, t>> \notin Less
    BY <1>2, <2>1
  <2>3. ~(n - y < t)
    BY <1>1, <1>2, <2>1, <2>2 DEF Less
  <2> QED
    BY <2>3, <1>3
<1> QED
  BY <1>3, <1>4 DEF Max

\* What PrepareEnable takes for the last notification that was there: one of
\* those that were, and the first one is not after it.
LEMMA LastSeenOf ==
  ASSUME NEW n \in Nat, NEW S, S \subseteq 1 .. n, 1 \in S
  PROVE  LastSeen(S) \in 1 .. n
<1>1. S \cup {0} \subseteq 0 .. n /\ S \cup {0} # {}
  OBVIOUS
<1>2. Max(S \cup {0}) \in S \cup {0} /\ Max(S \cup {0}) >= 1
  BY <1>1, MaxOfBounded
<1>3. Max(S \cup {0}) \in S
  BY <1>2
<1> QED
  BY <1>3 DEF LastSeen

-----------------------------------------------------------------------------
(* Steps of the modem, the registry and those who wait for them. *)

SimInv == SimTypeOK /\ mm.path <= mm.last

\* A call of either kind stays one of that kind, and a wait for another object
\* does not end with the SIM that is shown.
StillWaits(old, new) ==
  /\ new \in CallState
  /\ new.waits = old.waits
  /\ new.pc = "shown" => ~new.waits \/ old.pc = "shown"

CallsKept == /\ call' \in [Calls -> CallState]
             /\ \A c \in Calls : StillWaits(call[c], call'[c])

\* What no step of SimRefresh does: to change the profile in use, or to count
\* objects back.
WorldKept ==
  /\ mm' \in [path : Nat, last : Nat, sim : Shown] /\ mm'.path <= mm'.last
  /\ mm'.last >= mm.last
  /\ card' \in [profile : Profiles, ready : BOOLEAN] /\ card'.profile = card.profile
  /\ reg' \in [heard : 0 .. LastSignal', known : 0 .. mm'.last]
  /\ faults' \in 0 .. MaxFaults

SimKept == CallsKept /\ WorldKept

LEMMA SimKeptInv ==
  ASSUME SimKept
  PROVE  SimInv'
BY DEF SimKept, CallsKept, WorldKept, SimInv, SimTypeOK

LEMMA CallsUnchanged ==
  ASSUME SimInv, UNCHANGED call
  PROVE  CallsKept
BY DEF SimInv, SimTypeOK, CallsKept, StillWaits

LEMMA OneCallKept ==
  ASSUME SimInv, NEW c \in Calls, NEW k, StillWaits(call[c], k), call' = [call EXCEPT ![c] = k]
  PROVE  CallsKept
BY DEF SimInv, SimTypeOK, CallsKept, StillWaits

LEMMA WorldUnchanged ==
  ASSUME SimInv, UNCHANGED <<mm, card, reg, faults>>
  PROVE  WorldKept
BY SMT DEF SimInv, SimTypeOK, WorldKept, LastSignal

\* A list is read, or a call has failed.
LEMMA WorldListed ==
  ASSUME SimInv, UNCHANGED <<mm, card>>, Lists \/ UNCHANGED reg, Faulty \/ UNCHANGED faults
  PROVE  WorldKept
<1>1. reg' \in [heard : 0 .. LastSignal, known : 0 .. mm.last]
  BY SMT DEF SimInv, SimTypeOK, Lists
<1>2. faults' \in 0 .. MaxFaults
  BY SimAssumption, SMT DEF SimInv, SimTypeOK, Faulty
<1> QED
  BY <1>1, <1>2, SMT DEF SimInv, SimTypeOK, WorldKept, LastSignal

\* The object may go, or show another SIM; the card may be ready or not.
LEMMA WorldMoved ==
  ASSUME SimInv, UNCHANGED reg, Faulty \/ UNCHANGED faults,
         mm' \in {mm, [mm EXCEPT !.path = 0]} \cup {[mm EXCEPT !.sim = s] : s \in Shown},
         card' \in {card} \cup {[card EXCEPT !.ready = b] : b \in BOOLEAN}
  PROVE  WorldKept
<1>1. /\ mm' \in [path : Nat, last : Nat, sim : Shown] /\ mm'.path <= mm'.last
      /\ mm'.last = mm.last /\ mm'.path \in {mm.path, 0}
  BY SMT DEF SimInv, SimTypeOK
<1>2. faults' \in 0 .. MaxFaults
  BY SimAssumption, SMT DEF SimInv, SimTypeOK, Faulty
<1>3. card' \in [profile : Profiles, ready : BOOLEAN] /\ card'.profile = card.profile
  BY Zenon DEF SimInv, SimTypeOK
<1>4. LastSignal' >= LastSignal /\ LastSignal \in Nat
  BY <1>1, SMT DEF SimInv, SimTypeOK, LastSignal
<1>5. LastSignal' \in Nat
  BY <1>1, SMT DEF SimInv, SimTypeOK, LastSignal
<1>6. reg' \in [heard : 0 .. LastSignal', known : 0 .. mm'.last]
  BY <1>1, <1>4, <1>5, SMT DEF SimInv, SimTypeOK
<1> QED
  BY <1>1, <1>2, <1>3, <1>6, SMT DEF WorldKept, SimInv, SimTypeOK

LEMMA ModemStepKeeps ==
  ASSUME SimInv, ModemStep
  PROVE  SimKept
<1> SUFFICES WorldKept
  BY CallsUnchanged DEF SimKept, ModemStep, Goes, ComesBack, Notices, CardReady
<1>1. CASE Goes
  BY <1>1, WorldMoved DEF Goes
<1>2. CASE ComesBack
  <2>1. /\ mm' \in [path : Nat, last : Nat, sim : Shown] /\ mm'.path <= mm'.last
        /\ mm'.last = mm.last + 1 /\ mm'.path # 0
    BY <1>2, SMT DEF SimInv, SimTypeOK, ComesBack, Shown
  <2>2. reg' \in [heard : 0 .. LastSignal', known : 0 .. mm'.last]
    BY <1>2, <2>1, SMT DEF SimInv, SimTypeOK, ComesBack, LastSignal
  <2> QED
    BY <1>2, <2>1, <2>2, SMT DEF SimInv, SimTypeOK, WorldKept, ComesBack
<1>3. CASE Notices
  <2>1. card.profile \in Shown
    BY DEF SimInv, SimTypeOK, Shown
  <2> QED
    BY <1>3, <2>1, WorldMoved DEF Notices
<1>4. CASE CardReady
  BY <1>4, WorldMoved DEF CardReady
<1> QED
  BY <1>1, <1>2, <1>3, <1>4 DEF ModemStep

LEMMA ToldStillWaits ==
  ASSUME NEW k \in CallState, NEW p
  PROVE  StillWaits(k, ToldAdded(k, p)) /\ StillWaits(k, ToldRemoved(k, p))
<1>1. StillWaits(k, k)
  BY DEF StillWaits
<1>2. StillWaits(k, [k EXCEPT !.ready = TRUE])
  BY DEF StillWaits, CallState
<1>3. StillWaits(k, [k EXCEPT !.reload = TRUE])
  BY DEF StillWaits, CallState
<1>4. ToldAdded(k, p) \in {k, [k EXCEPT !.ready = TRUE]}
  BY DEF ToldAdded
<1>5. ToldRemoved(k, p) \in {k, [k EXCEPT !.reload = TRUE]}
  BY DEF ToldRemoved
<1> QED
  BY <1>1, <1>2, <1>3, <1>4, <1>5

LEMMA HandleSignalKeeps ==
  ASSUME SimInv, HandleSignal
  PROVE  SimKept
<1> DEFINE n == reg.heard + 1
           p == n \div 2
<1>1. n \in 1 .. LastSignal /\ p \in 0 .. mm.last
  BY SMT DEF SimInv, SimTypeOK, HandleSignal, LastSignal
<1>2. reg' \in [heard : 0 .. LastSignal, known : 0 .. mm.last]
  BY <1>1, SMT DEF SimInv, SimTypeOK, HandleSignal
<1>3. call' = call \/ call' = [c \in Calls |-> ToldAdded(call[c], p)]
                   \/ call' = [c \in Calls |-> ToldRemoved(call[c], p)]
  BY DEF HandleSignal
<1>4. CallsKept
  <2> HIDE DEF p
  <2>1. \A c \in Calls : call[c] \in CallState
    BY DEF SimInv, SimTypeOK
  <2>2. CASE call' = [c \in Calls |-> ToldAdded(call[c], p)]
    BY <2>1, <2>2, ToldStillWaits DEF CallsKept, StillWaits
  <2>3. CASE call' = [c \in Calls |-> ToldRemoved(call[c], p)]
    BY <2>1, <2>3, ToldStillWaits DEF CallsKept, StillWaits
  <2> QED
    BY <1>3, <2>2, <2>3, CallsUnchanged
<1>5. faults' \in 0 .. MaxFaults /\ UNCHANGED <<mm, card>>
  BY SimAssumption, SMT DEF SimInv, SimTypeOK, HandleSignal, Faulty
<1>6. WorldKept
  BY <1>2, <1>5, SMT DEF SimInv, SimTypeOK, WorldKept, LastSignal
<1> QED
  BY <1>4, <1>6 DEF SimKept

LEMMA ReadKeeps ==
  ASSUME SimInv, NEW c \in Calls, NEW from \in Waiting, NEW to \in Waiting, Read(c, from, to)
  PROVE  SimKept
<1>1. call[c] \in CallState /\ mm.path \in Nat
  BY DEF SimInv, SimTypeOK
<1> DEFINE k == [call[c] EXCEPT !.at = mm.path, !.seenReload = @ \/ mm.path # call[c].at]
<1>2. StillWaits(call[c], k) /\ k.pc = from
  <2>1. k \in CallState
    BY <1>1, Zenon DEF CallState
  <2>2. k.waits = call[c].waits /\ k.pc = call[c].pc
    BY <1>1 DEF CallState
  <2> QED
    BY <2>1, <2>2 DEF StillWaits, Read
<1>3. from # "shown" /\ to # "shown"
  BY DEF Waiting
<1>4. WorldKept
  BY WorldListed DEF Read
<1>5. CASE call' = [call EXCEPT ![c] = IF Visible(c) THEN Shows(k) ELSE [k EXCEPT !.pc = to]]
  <2>1. k \in CallState /\ k.waits = call[c].waits
    BY <1>2 DEF StillWaits
  <2> HIDE DEF k
  <2>2. StillWaits(call[c], [k EXCEPT !.pc = to])
    BY <2>1, <1>3 DEF StillWaits, CallState
  <2>3. StillWaits(call[c], Shows(k))
    <3>1. CASE k.waits
      <4>1. [k EXCEPT !.pc = "wait", !.reload = @ \/ k.seenReload] \in CallState
        BY <2>1, ZenonT(60) DEF CallState
      <4>2. /\ [k EXCEPT !.pc = "wait", !.reload = @ \/ k.seenReload].pc = "wait"
            /\ [k EXCEPT !.pc = "wait", !.reload = @ \/ k.seenReload].waits = k.waits
        BY <2>1 DEF CallState
      <4> QED
        BY <3>1, <4>1, <4>2, <2>1 DEF StillWaits, Shows
    <3>2. CASE ~k.waits
      <4>1. [k EXCEPT !.pc = "shown"] \in CallState /\ [k EXCEPT !.pc = "shown"].waits = k.waits
        BY <2>1 DEF CallState
      <4> QED
        BY <3>2, <4>1, <2>1 DEF StillWaits, Shows
    <3> QED
      BY <3>1, <3>2
  <2> QED
    BY <1>4, <1>5, <2>2, <2>3, OneCallKept DEF SimKept
<1>6. CASE call' = [call EXCEPT ![c].seenReload = TRUE, ![c].pc = "first"]
  <2>1. StillWaits(call[c], [call[c] EXCEPT !.seenReload = TRUE, !.pc = "first"])
    BY <1>1 DEF StillWaits, CallState, Waiting
  <2>2. call' = [call EXCEPT ![c] = [call[c] EXCEPT !.seenReload = TRUE, !.pc = "first"]]
    BY <1>6 DEF SimInv, SimTypeOK
  <2> QED
    BY <1>4, <2>1, <2>2, OneCallKept DEF SimKept
<1>7. CASE call' = [call EXCEPT ![c].pc = to]
  <2>1. StillWaits(call[c], [call[c] EXCEPT !.pc = to])
    BY <1>1, <1>3 DEF StillWaits, CallState
  <2> QED
    BY <1>4, <1>7, <2>1, OneCallKept DEF SimKept
<1> QED
  BY <1>5, <1>6, <1>7 DEF Read

LEMMA RefreshKeeps ==
  ASSUME SimInv, NEW c \in Calls, NEW means \in CallState, means.waits = call[c].waits,
         RefreshInOrder(c, means), UNCHANGED reg,
         card' \in {card} \cup {[card EXCEPT !.ready = b] : b \in BOOLEAN}
  PROVE  SimKept
<1>1. WorldKept
  <2>1. card.profile \in Shown
    BY DEF SimInv, SimTypeOK, Shown
  <2>2. /\ Faulty \/ UNCHANGED faults
        /\ mm' \in {mm, [mm EXCEPT !.path = 0]} \cup {[mm EXCEPT !.sim = s] : s \in Shown}
    BY <2>1 DEF RefreshInOrder, Refreshes, Reloads, NothingLeft
  <2> QED
    BY <2>2, WorldMoved
<1>2. \E k : StillWaits(call[c], k) /\ call' = [call EXCEPT ![c] = k]
  <2>1. StillWaits(call[c], [means EXCEPT !.refreshed = TRUE, !.pc = "first"])
    BY DEF StillWaits, CallState, Waiting
  <2>2. StillWaits(call[c], [means EXCEPT !.refreshed = TRUE, !.pc = "failed"])
    BY DEF StillWaits, CallState, Waiting
  <2>3. StillWaits(call[c], [means EXCEPT !.reloaded = TRUE, !.pc = "first"])
    BY DEF StillWaits, CallState, Waiting
  <2>4. StillWaits(call[c], [means EXCEPT !.reloaded = TRUE, !.pc = "failed"])
    BY DEF StillWaits, CallState, Waiting
  <2>5. StillWaits(call[c], [means EXCEPT !.pc = "fallback"])
    BY DEF StillWaits, CallState, Waiting
  <2> QED
    BY <2>1, <2>2, <2>3, <2>4, <2>5 DEF RefreshInOrder, Refreshes, Reloads, NothingLeft
<1> QED
  BY <1>1, <1>2, OneCallKept DEF SimKept

LEMMA RecoverKeeps ==
  ASSUME SimInv, NEW c \in Calls, Recover(c)
  PROVE  SimKept
<1>1. call[c] \in CallState
  BY DEF SimInv, SimTypeOK
<1>2. CASE RefreshInOrder(c, call[c]) /\ UNCHANGED card
  BY <1>1, <1>2, RefreshKeeps DEF Recover
<1>3. CASE RefreshInOrder(c, [call[c] EXCEPT !.activated = TRUE])
           /\ card' \in {card, [card EXCEPT !.ready = TRUE]}
  <2>1. [call[c] EXCEPT !.activated = TRUE] \in CallState
    BY <1>1 DEF CallState
  <2>2. [call[c] EXCEPT !.activated = TRUE].waits = call[c].waits
    BY <1>1 DEF CallState
  <2> QED
    BY <1>3, <2>1, <2>2, RefreshKeeps DEF Recover
<1>4. CASE call' = [call EXCEPT ![c].pc = "fallback"] /\ UNCHANGED <<mm, card, faults>>
  <2>1. StillWaits(call[c], [call[c] EXCEPT !.pc = "fallback"])
    BY <1>1 DEF StillWaits, CallState, Waiting
  <2> QED
    BY <1>4, <2>1, OneCallKept, WorldUnchanged DEF SimKept, Recover
<1> QED
  BY <1>2, <1>3, <1>4 DEF Recover

LEMMA FallbackKeeps ==
  ASSUME SimInv, NEW c \in Calls, Fallback(c)
  PROVE  SimKept
<1>1. call[c] \in CallState
  BY DEF SimInv, SimTypeOK
<1>2. WorldKept
  BY WorldMoved DEF Fallback
<1> DEFINE mayCycle == call[c].cycleAllowed /\ ~call[c].seenReload /\ ~call[c].cycled /\ Qmi
<1>3. CASE call' = [call EXCEPT ![c].pc = "first", ![c].unchanged = @ \/ mayCycle]
  <2>1. mayCycle \in BOOLEAN
    OBVIOUS
  <2> HIDE DEF mayCycle
  <2>2. StillWaits(call[c], [call[c] EXCEPT !.pc = "first", !.unchanged = @ \/ mayCycle])
    BY <1>1, <2>1 DEF StillWaits, CallState, Waiting
  <2>3. call' = [call EXCEPT ![c] = [call[c] EXCEPT !.pc = "first", !.unchanged = @ \/ mayCycle]]
    BY <1>3 DEF SimInv, SimTypeOK
  <2> QED
    BY <1>2, <2>2, <2>3, OneCallKept DEF SimKept
<1>4. ASSUME NEW pc \in {"first", "failed"}, call' = [call EXCEPT ![c].cycled = TRUE, ![c].pc = pc]
      PROVE  SimKept
  <2>1. StillWaits(call[c], [call[c] EXCEPT !.cycled = TRUE, !.pc = pc])
    BY <1>1 DEF StillWaits, CallState, Waiting
  <2>2. call' = [call EXCEPT ![c] = [call[c] EXCEPT !.cycled = TRUE, !.pc = pc]]
    BY <1>4 DEF SimInv, SimTypeOK
  <2> QED
    BY <1>2, <2>1, <2>2, OneCallKept DEF SimKept
<1> QED
  BY <1>3, <1>4 DEF Fallback

LEMMA RepowerKeeps ==
  ASSUME SimInv, NEW c \in Calls, Repower(c)
  PROVE  SimKept
<1>1. call[c] \in CallState
  BY DEF SimInv, SimTypeOK
<1>2. WorldKept
  BY WorldMoved DEF Repower
<1>3. ASSUME NEW pc \in {"first", "failed"}, call' = [call EXCEPT ![c].pc = pc]
      PROVE  SimKept
  <2>1. StillWaits(call[c], [call[c] EXCEPT !.pc = pc])
    BY <1>1 DEF StillWaits, CallState, Waiting
  <2> QED
    BY <1>2, <1>3, <2>1, OneCallKept DEF SimKept
<1> QED
  BY <1>3 DEF Repower

LEMMA PollKeeps ==
  ASSUME SimInv, NEW c \in Calls, Poll(c)
  PROVE  SimKept
<1>1. call[c] \in CallState
  BY DEF SimInv, SimTypeOK
<1>2. WorldKept
  BY WorldListed DEF Poll
<1>3. /\ StillWaits(call[c], call[c])
      /\ StillWaits(call[c], [call[c] EXCEPT !.reload = TRUE])
      /\ StillWaits(call[c], [call[c] EXCEPT !.ready = TRUE])
      /\ StillWaits(call[c], [call[c] EXCEPT !.pc = "back"])
  BY <1>1 DEF StillWaits, CallState
<1>4. \E k \in {call[c], [call[c] EXCEPT !.reload = TRUE], [call[c] EXCEPT !.ready = TRUE],
                [call[c] EXCEPT !.pc = "back"]} : call' = [call EXCEPT ![c] = k]
  BY DEF Poll
<1> QED
  BY <1>2, <1>3, <1>4, OneCallKept DEF SimKept

LEMMA CallStepKeeps ==
  ASSUME SimInv, NEW c \in Calls, CallStep(c) \/ TimesOut(c)
  PROVE  SimKept
<1>1. call[c] \in CallState
  BY DEF SimInv, SimTypeOK
<1>2. CASE Finds(c)
  <2>1. StillWaits(call[c], [call[c] EXCEPT !.pc = "back"])
    BY <1>1 DEF StillWaits, CallState
  <2> QED
    BY <1>2, <2>1, OneCallKept, WorldUnchanged DEF SimKept, Finds
<1>3. CASE TimesOut(c)
  <2>1. StillWaits(call[c], [call[c] EXCEPT !.pc = "failed"])
    BY <1>1 DEF StillWaits, CallState
  <2> QED
    BY <1>3, <2>1, OneCallKept, WorldUnchanged DEF SimKept, TimesOut
<1>4. CASE Read(c, "first", "second") \/ Read(c, "second", "recover")
  BY <1>4, ReadKeeps DEF Waiting
<1> QED
  BY <1>2, <1>3, <1>4, RecoverKeeps, FallbackKeeps, RepowerKeeps, PollKeeps DEF CallStep

-----------------------------------------------------------------------------
(* What every step of a request leaves of the others. *)

\* Notifications are raised and tried, and only one that was tried goes.
NotesGrow ==
  /\ notes' \in [pending : SUBSET Nat, last : Nat] /\ notes'.pending \subseteq 1 .. notes'.last
  /\ notes'.last >= notes.last /\ 1 \in notes'.pending
  /\ notes.pending \cup tried \subseteq notes'.pending \cup tried'
  /\ tried \subseteq tried' /\ tried' \subseteq 1 .. notes'.last

LEMMA NotesUnchanged ==
  ASSUME IInv, UNCHANGED <<notes, tried>>
  PROVE  NotesGrow
BY SMT DEF IInv, TypeOK, Whole, NotesGrow

LEMMA ReqStateGrows ==
  ASSUME TypeOK, NotesGrow
  PROVE  ReqState \subseteq ReqState'
<1>1. 1 .. notes.last \subseteq 1 .. notes'.last /\ 0 .. notes.last \subseteq 0 .. notes'.last
  BY SMT DEF TypeOK, NotesGrow
<1> QED
  BY <1>1, Zenon DEF ReqState

LEMMA OthersWell ==
  ASSUME IInv, NotesGrow, NEW s \in Requests, req'[s] = req[s], StillWaits(call[s], call'[s])
  PROVE  Well(s)'
<1>1. WellPlaced(s)'
  BY DEF IInv, Whole, Well, WellPlaced
<1>2. WellAwaited(s)'
  BY DEF IInv, Whole, Well, WellAwaited, StillWaits
<1>3. WellAnswered(s)'
  BY DEF IInv, Whole, Well, WellAnswered
<1>4. WellReported(s)'
  <2>1. req[s].lastSeq \in 1 .. notes.last => req[s].lastSeq \in 1 .. notes'.last
    BY SMT DEF IInv, TypeOK, NotesGrow
  <2> QED
    BY <2>1 DEF IInv, Whole, Well, WellReported, NotesGrow
<1> QED
  BY <1>1, <1>2, <1>3, <1>4 DEF Well

\* A step of the modem, or of a wait, is none of the requests'.
LEMMA SimStepKeeps ==
  ASSUME IInv, SimKept, UNCHANGED esimVars
  PROVE  IInv'
<1>1. SimInv' /\ UNCHANGED <<holder, open, req, installed, notes, tried>>
  BY SimKeptInv DEF esimVars
<1>2. NotesGrow
  BY <1>1, NotesUnchanged
<1>3. TypeOK'
  BY <1>1, <1>2, ReqStateGrows DEF IInv, TypeOK, SimInv, NotesGrow
<1>4. WellNumbered'
  BY <1>1, SMT DEF IInv, TypeOK, SimTypeOK, Whole, WellNumbered, SimInv, SimKept, WorldKept
<1>5. WellLocked'
  BY <1>1 DEF IInv, Whole, WellLocked, SimKept, WorldKept
<1>6. \A s \in Requests : Well(s)'
  BY <1>1, <1>2, OthersWell DEF SimKept, CallsKept, Requests
<1> QED
  BY <1>1, <1>2, <1>3, <1>4, <1>5, <1>6 DEF IInv, Whole, NotesGrow

\* A step of request r that takes it to k: the others stay as they are.
Step(r, k) == req' = [req EXCEPT ![r] = k]

WaitsOfOthers(r) == \A s \in Requests \ {r} : StillWaits(call[s], call'[s])

LEMMA StepTypes ==
  ASSUME IInv, NotesGrow, SimInv', NEW r \in Requests, NEW k \in ReqState', Step(r, k),
         holder' \in Requests \cup {Nobody}, open' \subseteq Requests, installed' \subseteq Profiles
  PROVE  TypeOK'
<1>1. req' \in [Requests -> ReqState']
  BY ReqStateGrows DEF IInv, TypeOK, Step
<1> QED
  BY <1>1 DEF TypeOK, NotesGrow, SimInv

LEMMA StepOthers ==
  ASSUME IInv, NotesGrow, NEW r \in Requests, NEW k, Step(r, k), WaitsOfOthers(r), Well(r)'
  PROVE  \A s \in Requests : Well(s)'
<1>1. \A s \in Requests \ {r} : req'[s] = req[s]
  BY DEF IInv, TypeOK, Step
<1> QED
  BY <1>1, OthersWell DEF WaitsOfOthers

\* What is left to show of a step of one request: what it is now, that it has
\* the lock if it needs it, and that nobody else loses the lock by it.
LEMMA StepKeeps ==
  ASSUME IInv, NotesGrow, SimInv', UNCHANGED mm, NEW r \in Requests, NEW k \in ReqState', Step(r, k),
         WaitsOfOthers(r), Well(r)', k.kind # "none" => k.at \in 1 .. mm.last,
         holder' \in Requests \cup {Nobody}, open' \subseteq Requests, installed' \subseteq Profiles,
         \A s \in open' : holder' = s,
         \A s \in open : s \in open' \/ s = r,
         k.pc \in Locked => r \in open',
         k.pc = "delete" => k.profile # card'.profile,
         card'.profile = card.profile \/ r \in open
  PROVE  IInv'
<1>1. TypeOK'
  BY StepTypes
<1>2. req'[r] = k /\ \A s \in Requests \ {r} : req'[s] = req[s]
  BY DEF IInv, TypeOK, Step
<1>3. WellNumbered'
  BY <1>2 DEF IInv, Whole, WellNumbered
<1>4. WellLocked'
  <2>1. \A s \in Requests : req'[s].pc \in Locked => s \in open'
    BY <1>2 DEF IInv, Whole, WellLocked
  <2>2. \A s \in Requests : req'[s].pc = "delete" => req'[s].profile # card'.profile
    <3> SUFFICES ASSUME NEW s \in Requests \ {r}, req[s].pc = "delete"
                 PROVE  req[s].profile # card'.profile
      BY <1>2
    <3>1. s \in open /\ r \notin open
      BY DEF IInv, Whole, WellLocked, Locked
    <3> QED
      BY <3>1 DEF IInv, Whole, WellLocked
  <2> QED
    BY <2>1, <2>2 DEF WellLocked
<1>5. \A s \in Requests : Well(s)'
  BY StepOthers
<1> QED
  BY <1>1, <1>3, <1>4, <1>5 DEF IInv, Whole, NotesGrow

\* A step that changes nothing of the modem, except that a call may fail.
LEMMA QuietSim ==
  ASSUME IInv, UNCHANGED <<mm, card, call, reg>>, Faulty \/ UNCHANGED faults
  PROVE  SimInv' /\ \A s \in Requests : StillWaits(call[s], call'[s])
<1>1. SimInv
  BY DEF IInv, TypeOK, SimInv, Whole, WellNumbered
<1>2. SimKept
  BY <1>1, WorldListed, CallsUnchanged DEF SimKept
<1> QED
  BY <1>2, SimKeptInv DEF SimKept, CallsKept, Requests

\* The end of a request gives back the lock only if it is its own.
LEMMA EndsKeeps ==
  ASSUME IInv, NotesGrow, SimInv', UNCHANGED <<mm, card>>, NEW r \in Requests, WaitsOfOthers(r),
         call'[r].waits => call'[r].pc # "shown",
         NEW how \in {"done", "error"}, Ends(r, how), installed' \subseteq Profiles
  PROVE  IInv'
<1> DEFINE k == [NoReq EXCEPT !.pc = how]
<1>1. /\ k.kind = "none" /\ k.pc = how /\ how \in Places
  BY DEF NoReq, Places
<1>2. k \in ReqState'
  <2>1. 0 \in 0 .. notes'.last /\ 0 \in Nat
    BY SMT DEF IInv, TypeOK, NotesGrow
  <2> QED
    BY <2>1, Zenon DEF ReqState, NoReq, Places, Shown
<1>3. Step(r, k)
  BY DEF Ends, Step
<1>4. req'[r] = k
  BY <1>3 DEF IInv, TypeOK, Step
<1>5. Well(r)'
  <2> HIDE DEF k
  <2> QED
    BY <1>1, <1>4 DEF Well, WellPlaced, WellAwaited, WellAnswered, WellReported
<1>6. /\ holder' \in Requests \cup {Nobody} /\ open' = open \ {r}
      /\ \A s \in open' : holder' = s
  BY DEF IInv, TypeOK, Whole, WellLocked, Ends, Close
<1>7. k.pc \notin Locked /\ k.pc # "delete"
  BY <1>1 DEF Locked
<1> HIDE DEF k
<1> QED
  BY <1>1, <1>2, <1>3, <1>5, <1>6, <1>7, StepKeeps DEF IInv, TypeOK

LEMMA EndsQuietly ==
  ASSUME IInv, NEW r \in Requests, NEW how \in {"done", "error"}, Ends(r, how),
         UNCHANGED <<mm, card, call, reg, installed, notes, tried>>, Faulty \/ UNCHANGED faults
  PROVE  IInv'
<1>1. SimInv' /\ WaitsOfOthers(r)
  BY QuietSim DEF WaitsOfOthers
<1>2. call'[r].waits => call'[r].pc # "shown"
  BY DEF IInv, Whole, Well, WellAwaited
<1> QED
  BY <1>1, <1>2, NotesUnchanged, EndsKeeps DEF IInv, TypeOK

\* What a request that only goes on to another place keeps.
LEMMA GotoFields ==
  ASSUME IInv, NEW r \in Requests, NEW pc \in Places, Goto(r, pc)
  PROVE  /\ Step(r, [req[r] EXCEPT !.pc = pc])
         /\ [req[r] EXCEPT !.pc = pc] \in ReqState
         /\ req'[r] = [req[r] EXCEPT !.pc = pc]
         /\ req'[r].pc = pc
         /\ req'[r].kind = req[r].kind /\ req'[r].profile = req[r].profile
         /\ req'[r].at = req[r].at /\ req'[r].lastSeq = req[r].lastSeq
         /\ req'[r].todo = req[r].todo /\ req'[r].raised = req[r].raised
         /\ req'[r].first = req[r].first /\ req'[r].confirm = req[r].confirm
<1>1. req[r] \in ReqState /\ Step(r, [req[r] EXCEPT !.pc = pc])
  BY DEF IInv, TypeOK, Goto, Step
<1>2. [req[r] EXCEPT !.pc = pc] \in ReqState
  BY <1>1 DEF ReqState
<1>3. req'[r] = [req[r] EXCEPT !.pc = pc]
  BY <1>1 DEF IInv, TypeOK, Step
<1> QED
  BY <1>1, <1>2, <1>3 DEF ReqState

LEMMA GotoQuietly ==
  ASSUME IInv, NEW r \in Requests, NEW pc \in Places, Goto(r, pc), Well(r)',
         UNCHANGED <<mm, card, call, reg, installed, notes, tried, holder, open>>,
         Faulty \/ UNCHANGED faults,
         pc \in Locked => r \in open,
         pc = "delete" => req[r].profile # card.profile
  PROVE  IInv'
<1>1. SimInv' /\ WaitsOfOthers(r)
  BY QuietSim DEF WaitsOfOthers
<1> DEFINE k == [req[r] EXCEPT !.pc = pc]
<1>2. /\ k \in ReqState' /\ Step(r, k) /\ k.pc = pc /\ k.profile = req[r].profile
      /\ k.kind # "none" => k.at \in 1 .. mm.last
  <2>1. ReqState' = ReqState
    BY DEF ReqState
  <2>2. req[r].kind # "none" => req[r].at \in 1 .. mm.last
    BY DEF IInv, Whole, WellNumbered
  <2> QED
    BY <2>1, <2>2, GotoFields
<1>3. /\ holder' \in Requests \cup {Nobody} /\ open' \subseteq Requests /\ installed' \subseteq Profiles
      /\ \A s \in open' : holder' = s
  BY DEF IInv, TypeOK, Whole, WellLocked
<1> HIDE DEF k
<1> QED
  BY <1>1, <1>2, <1>3, NotesUnchanged, StepKeeps

-----------------------------------------------------------------------------
(* The actions of a request. *)

LEMMA ResolveKeeps ==
  ASSUME IInv, NEW r \in Requests, Resolve(r)
  PROVE  IInv'
<1> DEFINE pc == IF req[r].pc = "resolve" THEN "open" ELSE "open again"
<1>1. pc \in Places /\ Goto(r, pc) /\ UNCHANGED <<call, notes, tried>>
  BY DEF Resolve, Places, simVars
<1>2. Well(r)'
  BY <1>1, GotoFields, ZenonT(60) DEF Resolve, IInv, Whole, Well, WellPlaced, WellAwaited, WellAnswered, WellReported
<1>3. pc \notin Locked /\ pc # "delete"
  BY DEF Locked
<1> HIDE DEF pc
<1> QED
  BY <1>1, <1>2, <1>3, GotoQuietly DEF Resolve, simVars

LEMMA OpenKeeps ==
  ASSUME IInv, NEW r \in Requests, Open(r)
  PROVE  IInv'
<1>1. ASSUME NEW how \in {"done", "error"}, Faulty, Ends(r, how)
      PROVE  IInv'
  BY <1>1, EndsQuietly DEF Open
<1>2. ASSUME NEW pc \in {"notifications", "ask", "list"}, Goto(r, pc), UNCHANGED faults,
             holder' = r /\ open' = open \cup {r},
             pc = IF req[r].pc # "open" THEN "notifications"
                  ELSE IF req[r].kind = "download" THEN "ask" ELSE "list"
      PROVE  IInv'
  <2> DEFINE k == [req[r] EXCEPT !.pc = pc]
  <2>1. pc \in Places /\ pc # "delete"
    BY DEF Places
  <2>2. Well(r)'
    BY <1>2, <2>1, GotoFields, ZenonT(60)
       DEF Open, IInv, Whole, Well, WellPlaced, WellAwaited, WellAnswered, WellReported
  <2>3. SimInv' /\ WaitsOfOthers(r)
    BY <1>2, QuietSim DEF WaitsOfOthers, Open
  <2>4. NotesGrow
    BY NotesUnchanged DEF Open
  <2>5. /\ k \in ReqState' /\ Step(r, k) /\ k.pc = pc
        /\ k.kind # "none" => k.at \in 1 .. mm.last
    <3>1. ReqState' = ReqState
      BY DEF ReqState, Open
    <3>2. req[r].kind # "none" => req[r].at \in 1 .. mm.last
      BY DEF IInv, Whole, WellNumbered
    <3> QED
      BY <1>2, <2>1, <3>1, <3>2, GotoFields
  <2>6. open = {}
    <3>1. Nobody \notin Requests
      BY EsimAssumption DEF Requests
    <3> QED
      BY <3>1 DEF IInv, TypeOK, Whole, WellLocked, Open
  <2> HIDE DEF k
  <2> QED
    BY <1>2, <2>1, <2>2, <2>3, <2>4, <2>5, <2>6, StepKeeps DEF IInv, TypeOK, Open
<1> QED
  BY <1>1, <1>2 DEF Open

LEMMA PrepareKeeps ==
  ASSUME IInv, NEW r \in Requests, Prepare(r)
  PROVE  IInv'
<1>1. ASSUME NEW how \in {"done", "error"}, Ends(r, how), Faulty \/ UNCHANGED faults
      PROVE  IInv'
  BY <1>1, EndsQuietly DEF Prepare
<1>2. CASE /\ req' = [req EXCEPT ![r].lastSeq = LastSeen(notes.pending), ![r].pc = "restore"]
           /\ UNCHANGED <<holder, open, faults>>
  <2> DEFINE n == LastSeen(notes.pending)
             k == [req[r] EXCEPT !.lastSeq = n, !.pc = "restore"]
  <2>1. n \in 1 .. notes.last /\ n \in Nat
    <3>1. n \in 1 .. notes.last
      BY LastSeenOf DEF IInv, TypeOK, Whole
    <3> QED
      BY <3>1, SMT DEF IInv, TypeOK
  <2> HIDE DEF n
  <2>2. req[r] \in ReqState /\ Step(r, k)
    BY <1>2 DEF IInv, TypeOK, Step, n
  <2>3. k \in ReqState
    BY <2>1, <2>2 DEF ReqState, Places
  <2>4. /\ req'[r] = k /\ k.kind = req[r].kind /\ k.pc = "restore" /\ k.lastSeq = n
        /\ k.profile = req[r].profile /\ k.at = req[r].at
    BY <2>2 DEF IInv, TypeOK, Step, ReqState
  <2>5. ReqState' = ReqState /\ NotesGrow
    BY NotesUnchanged DEF ReqState, Prepare
  <2> HIDE DEF k
  <2>6. Well(r)'
    BY <1>2, <2>1, <2>4
       DEF Prepare, IInv, Whole, Well, WellPlaced, WellAwaited, WellAnswered, WellReported
  <2>7. SimInv' /\ WaitsOfOthers(r)
    BY <1>2, QuietSim DEF WaitsOfOthers, Prepare
  <2>8. r \in open /\ (k.kind # "none" => k.at \in 1 .. mm.last)
    BY <2>4 DEF Prepare, IInv, Whole, WellLocked, WellNumbered, Locked
  <2> QED
    BY <1>2, <2>2, <2>3, <2>4, <2>5, <2>6, <2>7, <2>8, StepKeeps
       DEF IInv, TypeOK, Whole, WellLocked, Prepare
<1> QED
  BY <1>1, <1>2 DEF Prepare

LEMMA RestoreInternetKeeps ==
  ASSUME IInv, NEW r \in Requests, RestoreInternet(r)
  PROVE  IInv'
<1>1. CASE Faulty /\ Ends(r, "error")
  BY <1>1, EndsQuietly DEF RestoreInternet
<1>2. CASE Goto(r, "switch") /\ UNCHANGED <<holder, open, faults>>
  <2>1. "switch" \in Places
    BY DEF Places
  <2>2. Well(r)'
    BY <1>2, <2>1, GotoFields
       DEF RestoreInternet, IInv, Whole, Well, WellPlaced, WellAwaited, WellAnswered, WellReported
  <2>3. r \in open
    BY DEF RestoreInternet, IInv, Whole, WellLocked, Locked
  <2> QED
    BY <1>2, <2>1, <2>2, <2>3, GotoQuietly DEF RestoreInternet
<1> QED
  BY <1>1, <1>2 DEF RestoreInternet

\* The eUICC was changed for r, which has a client open.
LEMMA ChangedFields ==
  ASSUME IInv, NEW r \in Requests, NEW pc \in Places, Changed(r, pc), UNCHANGED tried
  PROVE  /\ Step(r, [req[r] EXCEPT !.raised = notes.last + 1, !.pc = pc])
         /\ [req[r] EXCEPT !.raised = notes.last + 1, !.pc = pc] \in ReqState'
         /\ req'[r] = [req[r] EXCEPT !.raised = notes.last + 1, !.pc = pc]
         /\ req'[r].pc = pc /\ req'[r].kind = req[r].kind /\ req'[r].profile = req[r].profile
         /\ req'[r].at = req[r].at /\ req'[r].lastSeq = req[r].lastSeq
         /\ req'[r].raised = notes.last + 1
         /\ req'[r].first = req[r].first /\ req'[r].confirm = req[r].confirm
         /\ NotesGrow /\ notes.last + 1 \in notes'.pending
<1> DEFINE n == notes.last + 1
           k == [req[r] EXCEPT !.raised = n, !.pc = pc]
<1>1. n \in 1 .. n /\ n \in 0 .. n /\ n \in Nat /\ 1 .. notes.last \subseteq 1 .. n
      /\ n >= notes.last
  BY SMT DEF IInv, TypeOK
<1>2. notes' = [pending |-> notes.pending \cup {n}, last |-> n]
  BY DEF Changed
<1> HIDE DEF n
<1>3. NotesGrow /\ notes'.last = n /\ n \in notes'.pending
  BY <1>1, <1>2, SMT DEF IInv, TypeOK, Whole, NotesGrow
<1>4. req[r] \in ReqState' /\ Step(r, k)
  <2>1. req[r] \in ReqState
    BY DEF IInv, TypeOK
  <2> QED
    BY <2>1, <1>3, ReqStateGrows DEF IInv, Changed, Step, n
<1>5. k \in ReqState'
  BY <1>1, <1>3, <1>4, Zenon DEF ReqState
<1>6. req'[r] = k
  BY <1>4 DEF IInv, TypeOK, Step
<1>7. /\ k.pc = pc /\ k.kind = req[r].kind /\ k.profile = req[r].profile
      /\ k.at = req[r].at /\ k.lastSeq = req[r].lastSeq /\ k.raised = n
      /\ k.first = req[r].first /\ k.confirm = req[r].confirm
  BY <1>4 DEF ReqState
<1> HIDE DEF k
<1>8. /\ req'[r].pc = pc /\ req'[r].kind = req[r].kind /\ req'[r].profile = req[r].profile
      /\ req'[r].at = req[r].at /\ req'[r].lastSeq = req[r].lastSeq /\ req'[r].raised = n
      /\ req'[r].first = req[r].first /\ req'[r].confirm = req[r].confirm
  BY <1>6, <1>7
<1> QED
  BY <1>3, <1>4, <1>5, <1>6, <1>8 DEF n, k

LEMMA ChangedKeeps ==
  ASSUME IInv, NEW r \in open, NEW pc \in Places \ {"delete"}, Changed(r, pc), Well(r)',
         UNCHANGED <<mm, call, reg, faults, tried, holder, open>>,
         card' \in [profile : Profiles, ready : BOOLEAN], installed' \subseteq Profiles
  PROVE  IInv'
<1> DEFINE k == [req[r] EXCEPT !.raised = notes.last + 1, !.pc = pc]
<1>1. r \in Requests
  BY DEF IInv, TypeOK
<1>2. Step(r, k) /\ k \in ReqState' /\ NotesGrow /\ k.pc = pc /\ k.kind = req[r].kind
      /\ k.at = req[r].at
  <2>1. UNCHANGED tried /\ pc \in Places
    OBVIOUS
  <2>2. Step(r, k) /\ k \in ReqState' /\ NotesGrow /\ req'[r] = k
    BY <1>1, <2>1, ChangedFields, ZenonT(60)
  <2>3. req'[r].pc = pc /\ req'[r].kind = req[r].kind /\ req'[r].at = req[r].at
    BY <1>1, <2>1, ChangedFields, ZenonT(60)
  <2> HIDE DEF k
  <2> QED
    BY <2>2, <2>3, Zenon
<1>3. SimInv' /\ WaitsOfOthers(r)
  <2>1. SimInv
    BY DEF IInv, TypeOK, SimInv, Whole, WellNumbered
  <2>2. CallsKept
    BY <2>1, CallsUnchanged
  <2>3. SimInv'
    BY <2>1 DEF SimInv, SimTypeOK, LastSignal
  <2> QED
    BY <2>2, <2>3 DEF CallsKept, WaitsOfOthers, Requests
<1>4. k.kind # "none" => k.at \in 1 .. mm.last
  BY <1>1, <1>2 DEF IInv, Whole, WellNumbered
<1> HIDE DEF k
<1> QED
  BY <1>1, <1>2, <1>3, <1>4, StepKeeps DEF IInv, TypeOK, Whole, WellLocked

LEMMA SwitchKeeps ==
  ASSUME IInv, NEW r \in Requests, Switch(r)
  PROVE  IInv'
<1>1. CASE Faulty /\ Ends(r, "error") /\ UNCHANGED <<card, notes>>
  BY <1>1, EndsQuietly DEF Switch
<1>2. CASE /\ card' \in [profile : {req[r].profile}, ready : BOOLEAN]
           /\ Changed(r, "close")
           /\ UNCHANGED <<holder, open, faults>>
  <2>1. "close" \in Places \ {"delete"} /\ r \in open /\ req[r].kind = "enable"
        /\ req[r].profile \in Profiles
    BY EsimAssumption DEF Switch, IInv, TypeOK, ReqState, Kinds, Whole, Well, WellPlaced, WellLocked,
       Locked, Places
  <2>2. req[r].lastSeq >= 1 /\ notes.last + 1 > req[r].lastSeq
    <3>1. req[r].lastSeq \in 1 .. notes.last
      BY <2>1 DEF Switch, IInv, Whole, Well, WellReported
    <3> QED
      BY <3>1, SMT DEF IInv, TypeOK
  <2>3. Well(r)'
    BY <1>2, <2>1, <2>2, ChangedFields, ZenonT(60)
       DEF Switch, IInv, Whole, Well, WellPlaced, WellAwaited, WellAnswered, WellReported
  <2>4. card' \in [profile : Profiles, ready : BOOLEAN]
    BY <1>2, <2>1
  <2> QED
    BY <1>2, <2>1, <2>3, <2>4, ChangedKeeps DEF Switch, IInv, TypeOK
<1> QED
  BY <1>1, <1>2 DEF Switch

LEMMA DeleteProfileKeeps ==
  ASSUME IInv, NEW r \in Requests, DeleteProfile(r)
  PROVE  IInv'
<1>1. CASE Ends(r, "error") /\ UNCHANGED <<installed, notes>> /\ (Faulty \/ UNCHANGED faults)
  BY <1>1, EndsQuietly DEF DeleteProfile
<1>2. CASE /\ installed' = installed \ {req[r].profile}
           /\ Changed(r, "report")
           /\ UNCHANGED <<holder, open, faults>>
  <2>1. "report" \in Places \ {"delete"} /\ r \in open /\ req[r].kind = "delete"
    BY DEF DeleteProfile, IInv, TypeOK, ReqState, Kinds, Whole, Well, WellPlaced, WellLocked,
       Locked, Places
  <2>2. notes.last + 1 # 0
    BY SMT DEF IInv, TypeOK
  <2>3. Well(r)'
    BY <1>2, <2>1, <2>2, ChangedFields
       DEF DeleteProfile, IInv, Whole, Well, WellPlaced, WellAwaited, WellAnswered, WellReported
  <2> QED
    BY <1>2, <2>1, <2>3, ChangedKeeps DEF DeleteProfile, IInv, TypeOK, SimTypeOK
<1> QED
  BY <1>1, <1>2 DEF DeleteProfile

LEMMA InstallKeeps ==
  ASSUME IInv, NEW r \in Requests, Install(r)
  PROVE  IInv'
<1>1. CASE Ends(r, "error") /\ UNCHANGED <<installed, notes>> /\ (Faulty \/ UNCHANGED faults)
  BY <1>1, EndsQuietly DEF Install
<1>2. CASE /\ installed' = installed \cup {req[r].profile}
           /\ Changed(r, "report")
           /\ UNCHANGED <<holder, open, faults>>
  <2>1. "report" \in Places \ {"delete"} /\ r \in open /\ req[r].kind = "download"
        /\ req[r].profile \in Profiles
    BY DEF Install, IInv, TypeOK, ReqState, Kinds, Whole, Well, WellPlaced, WellLocked,
       Locked, Places
  <2>2. notes.last + 1 # 0
    BY SMT DEF IInv, TypeOK
  <2>3. Well(r)'
    BY <1>2, <2>1, <2>2, ChangedFields
       DEF Install, IInv, Whole, Well, WellPlaced, WellAwaited, WellAnswered, WellReported
  <2> QED
    BY <1>2, <2>1, <2>3, ChangedKeeps DEF Install, IInv, TypeOK, SimTypeOK
<1> QED
  BY <1>1, <1>2 DEF Install

\* A call of the request begins, or its result is taken: the others' calls are
\* left alone.
LEMMA CallMade ==
  ASSUME IInv, NEW r \in Requests, NEW k \in CallState, call' = [call EXCEPT ![r] = k],
         UNCHANGED <<mm, card>>, Faulty \/ UNCHANGED faults,
         reg' \in [heard : 0 .. LastSignal, known : 0 .. mm.last]
  PROVE  SimInv' /\ WaitsOfOthers(r) /\ call'[r] = k
<1>1. call' \in [Calls -> CallState] /\ call'[r] = k
  BY DEF IInv, TypeOK, SimTypeOK, Requests
<1>2. \A s \in Requests \ {r} : StillWaits(call[s], call'[s])
  BY DEF IInv, TypeOK, SimTypeOK, Requests, StillWaits
<1>3. faults' \in 0 .. MaxFaults
  BY SimAssumption, SMT DEF IInv, TypeOK, SimTypeOK, Faulty
<1> QED
  BY <1>1, <1>2, <1>3 DEF IInv, TypeOK, SimTypeOK, SimInv, Whole, WellNumbered, LastSignal, WaitsOfOthers

LEMMA NoCallType == NoCall \in CallState
BY DEF NoCall, CallState, Shown

LEMMA AwaitSimKeeps ==
  ASSUME IInv, NEW r \in Requests, AwaitSim(r)
  PROVE  IInv'
<1> DEFINE c == [NoCall EXCEPT !.pc = "first", !.target = req[r].profile, !.at = req[r].at,
                               !.cycleAllowed = TRUE]
           k == [req[r] EXCEPT !.pc = "await"]
<1>1. c \in CallState
  <2>1. req[r].profile \in Shown /\ req[r].at \in Nat
    BY DEF IInv, TypeOK, ReqState
  <2> QED
    BY <2>1, NoCallType DEF CallState, Waiting
<1>2. c.waits = FALSE
  BY DEF NoCall
<1>3. call' = [call EXCEPT ![r] = c] /\ UNCHANGED <<mm, card, reg, faults, installed, notes, tried>>
  BY DEF AwaitSim, Ensure
<1> HIDE DEF c
<1>4. SimInv' /\ WaitsOfOthers(r) /\ call'[r] = c
  BY <1>1, <1>3, CallMade DEF IInv, TypeOK, SimTypeOK
<1>5. "await" \in Places /\ Goto(r, "await")
  BY DEF Places, AwaitSim
<1>6. Well(r)'
  BY <1>2, <1>3, <1>4, <1>5, GotoFields, ZenonT(60)
     DEF AwaitSim, IInv, Whole, Well, WellPlaced, WellAwaited, WellAnswered, WellReported
<1>7. /\ k \in ReqState' /\ Step(r, k) /\ k.pc = "await"
      /\ k.kind # "none" => k.at \in 1 .. mm.last
  <2>1. ReqState' = ReqState
    BY <1>3 DEF ReqState
  <2>2. req[r].kind # "none" => req[r].at \in 1 .. mm.last
    BY DEF IInv, Whole, WellNumbered
  <2> QED
    BY <1>5, <2>1, <2>2, GotoFields
<1>8. /\ holder' \in Requests \cup {Nobody} /\ open' = open \ {r}
      /\ \A s \in open' : holder' = s
  BY DEF IInv, TypeOK, Whole, WellLocked, AwaitSim, Close
<1>9. "await" \notin Locked
  BY DEF Locked
<1> HIDE DEF k
<1> QED
  BY <1>3, <1>4, <1>6, <1>7, <1>8, <1>9, NotesUnchanged, StepKeeps DEF IInv, TypeOK

LEMMA AwaitedKeeps ==
  ASSUME IInv, NEW r \in Requests, Awaited(r)
  PROVE  IInv'
<1>1. SimInv' /\ WaitsOfOthers(r) /\ call'[r] = NoCall
  <2>1. reg' \in [heard : 0 .. LastSignal, known : 0 .. mm.last]
    <3>1. Unread \in [heard : 0 .. LastSignal, known : 0 .. mm.last]
      BY SMT DEF Unread, LastSignal, IInv, TypeOK, SimTypeOK
    <3> QED
      BY <3>1 DEF Awaited, Returns, IInv, TypeOK, SimTypeOK
  <2> QED
    BY <2>1, CallMade, NoCallType DEF Awaited, Returns
<1>2. NotesGrow
  BY NotesUnchanged DEF Awaited
<1>3. ~call'[r].waits
  BY <1>1 DEF NoCall
<1>4. ASSUME NEW how \in {"done", "error"}, Ends(r, how)
      PROVE  IInv'
  BY <1>1, <1>2, <1>3, <1>4, EndsKeeps DEF Awaited, IInv, TypeOK
<1>5. CASE call[r].pc = "shown" /\ Goto(r, "resolve again") /\ UNCHANGED <<holder, open>>
  <2> DEFINE k == [req[r] EXCEPT !.pc = "resolve again"]
  <2>1. /\ "resolve again" \in Places /\ UNCHANGED <<mm, card, notes, tried, installed>>
        /\ Goto(r, "resolve again")
    BY <1>5 DEF Places, Awaited
  <2>2. req[r].kind = "enable"
    BY <1>5 DEF Awaited, IInv, TypeOK, ReqState, Kinds, Whole, Well, WellPlaced, WellAwaited
  <2>3. Well(r)'
    BY <1>1, <1>3, <1>5, <2>1, <2>2, GotoFields
       DEF Awaited, IInv, Whole, Well, WellPlaced, WellAwaited, WellAnswered, WellReported
  <2>4. /\ k \in ReqState' /\ Step(r, k) /\ k.pc = "resolve again"
        /\ k.kind # "none" => k.at \in 1 .. mm.last
    <3>1. ReqState' = ReqState
      BY <2>1 DEF ReqState
    <3>2. req[r].kind # "none" => req[r].at \in 1 .. mm.last
      BY DEF IInv, Whole, WellNumbered
    <3>3. k \in ReqState /\ Step(r, k)
      BY <2>1, GotoFields
    <3>4. k.pc = "resolve again" /\ k.kind = req[r].kind /\ k.at = req[r].at
      BY DEF IInv, TypeOK, ReqState
    <3> HIDE DEF k
    <3> QED
      BY <3>1, <3>2, <3>3, <3>4
  <2>5. "resolve again" \notin Locked
    BY DEF Locked
  <2> HIDE DEF k
  <2> QED
    BY <1>1, <1>2, <1>5, <2>1, <2>3, <2>4, <2>5, StepKeeps DEF IInv, TypeOK, Whole, WellLocked
<1> QED
  BY <1>4, <1>5 DEF Awaited

LEMMA UpdateNumberKeeps ==
  ASSUME IInv, NEW r \in Requests, UpdateNumber(r)
  PROVE  IInv'
<1>1. CASE Faulty /\ Ends(r, "error") /\ UNCHANGED <<call, reg>>
  BY <1>1, EndsQuietly DEF UpdateNumber
<1>2. CASE /\ PowerCycleAndWait(r, req[r].profile, req[r].at)
           /\ Goto(r, "await")
           /\ UNCHANGED <<holder, open, faults>>
  <2> DEFINE c == [NoCall EXCEPT !.pc = "repower", !.target = req[r].profile, !.at = req[r].at,
                                 !.cycled = TRUE, !.waits = TRUE, !.from = req[r].at]
             k == [req[r] EXCEPT !.pc = "await"]
  <2>1. req[r].profile \in Shown /\ req[r].at \in Nat /\ req[r].kind = "number"
        /\ req[r].at \in 1 .. mm.last
    BY DEF UpdateNumber, IInv, TypeOK, ReqState, Kinds, Whole, Well, WellPlaced, WellNumbered
  <2>2. c \in CallState
    BY <2>1, NoCallType DEF CallState
  <2>3. c.waits = TRUE /\ c.pc = "repower"
    BY DEF NoCall
  <2>4. reg' \in [heard : 0 .. LastSignal, known : 0 .. mm.last]
    <3>1. /\ 2 * req[r].at - 1 .. LastSignal \subseteq 0 .. LastSignal
          /\ {0, req[r].at, mm.path} \subseteq 0 .. mm.last
      BY <2>1, SMT DEF IInv, TypeOK, SimTypeOK, Whole, WellNumbered, LastSignal
    <3> QED
      BY <1>2, <3>1 DEF PowerCycleAndWait, IInv, TypeOK, SimTypeOK
  <2>5. call' = [call EXCEPT ![r] = c] /\ UNCHANGED <<mm, card, installed, notes, tried>>
    BY <1>2 DEF UpdateNumber, PowerCycleAndWait
  <2> HIDE DEF c
  <2>6. SimInv' /\ WaitsOfOthers(r) /\ call'[r] = c
    BY <1>2, <2>2, <2>4, <2>5, CallMade
  <2>7. "await" \in Places
    BY DEF Places
  <2>8. Well(r)'
    BY <1>2, <2>1, <2>3, <2>6, <2>7, GotoFields
       DEF UpdateNumber, IInv, Whole, Well, WellPlaced, WellAwaited, WellAnswered, WellReported
  <2>9. /\ k \in ReqState' /\ Step(r, k) /\ k.pc = "await"
        /\ k.kind # "none" => k.at \in 1 .. mm.last
    <3>1. ReqState' = ReqState
      BY <2>5 DEF ReqState
    <3> QED
      BY <1>2, <2>1, <2>7, <3>1, GotoFields
  <2>10. "await" \notin Locked
    BY DEF Locked
  <2> HIDE DEF k
  <2> QED
    BY <1>2, <2>5, <2>6, <2>8, <2>9, <2>10, NotesUnchanged, StepKeeps DEF IInv, TypeOK, Whole, WellLocked
<1> QED
  BY <1>1, <1>2 DEF UpdateNumber

LEMMA ListNotificationsKeeps ==
  ASSUME IInv, NEW r \in Requests, ListNotifications(r)
  PROVE  IInv'
<1>1. CASE Faulty /\ Ends(r, "done")
  BY <1>1, EndsQuietly DEF ListNotifications
<1>2. CASE /\ req' = [req EXCEPT ![r].todo = {n \in notes.pending : n > req[r].lastSeq}, ![r].pc = "send"]
           /\ UNCHANGED <<holder, open, faults>>
  <2> DEFINE todo == {n \in notes.pending : n > req[r].lastSeq}
             k == [req[r] EXCEPT !.todo = todo, !.pc = "send"]
  <2>1. todo \subseteq 1 .. notes.last
    BY DEF IInv, TypeOK
  <2>2. req[r].kind = "enable" /\ r \in open
    BY DEF ListNotifications, IInv, TypeOK, ReqState, Kinds, Whole, Well, WellPlaced, WellLocked, Locked
  <2>3. 1 \notin todo /\ (req[r].raised \in todo \cup tried)
    <3>1. /\ req[r].lastSeq >= 1 /\ req[r].raised > req[r].lastSeq
          /\ req[r].raised \in notes.pending \cup tried /\ req[r].lastSeq \in Nat
      BY <2>2 DEF ListNotifications, IInv, TypeOK, ReqState, Whole, Well, WellReported
    <3>2. ~(1 > req[r].lastSeq)
      BY <3>1, SMT
    <3> QED
      BY <3>1, <3>2
  <2> HIDE DEF todo
  <2>4. req[r] \in ReqState /\ Step(r, k)
    BY <1>2 DEF IInv, TypeOK, Step, todo
  <2>5. k \in ReqState
    BY <2>1, <2>4 DEF ReqState, Places
  <2>6. /\ req'[r] = k /\ k.kind = req[r].kind /\ k.pc = "send" /\ k.todo = todo
        /\ k.raised = req[r].raised /\ k.profile = req[r].profile /\ k.at = req[r].at
    BY <2>4 DEF IInv, TypeOK, Step, ReqState
  <2>7. ReqState' = ReqState /\ NotesGrow
    BY NotesUnchanged DEF ReqState, ListNotifications
  <2> HIDE DEF k
  <2>8. Well(r)'
    BY <1>2, <2>2, <2>3, <2>6
       DEF ListNotifications, IInv, Whole, Well, WellPlaced, WellAwaited, WellAnswered, WellReported
  <2>9. SimInv' /\ WaitsOfOthers(r)
    BY <1>2, QuietSim DEF WaitsOfOthers, ListNotifications
  <2>10. k.kind # "none" => k.at \in 1 .. mm.last
    BY <2>6 DEF IInv, Whole, WellNumbered
  <2> QED
    BY <1>2, <2>2, <2>4, <2>5, <2>6, <2>7, <2>8, <2>9, <2>10, StepKeeps
       DEF IInv, TypeOK, Whole, WellLocked, ListNotifications
<1> QED
  BY <1>1, <1>2 DEF ListNotifications

LEMMA SendOneKeeps ==
  ASSUME IInv, NEW r \in Requests, SendOne(r)
  PROVE  IInv'
<1>1. CASE Ends(r, "done") /\ UNCHANGED <<notes, tried>>
  BY <1>1, EndsQuietly DEF SendOne, simVars
<1>2. ASSUME NEW n \in req[r].todo,
             req' = [req EXCEPT ![r].todo = @ \ {n}],
             tried' = tried \cup {n},
             notes' = [notes EXCEPT !.pending = @ \ {n}],
             UNCHANGED <<holder, open>>
      PROVE  IInv'
  <2> DEFINE k == [req[r] EXCEPT !.todo = @ \ {n}]
  <2>1. /\ req[r] \in ReqState /\ Step(r, k) /\ n \in 1 .. notes.last
        /\ UNCHANGED <<mm, card, call, reg, faults, installed>>
    BY <1>2 DEF SendOne, simVars, IInv, TypeOK, Step, ReqState
  <2>2. req[r].kind = "enable" /\ r \in open
    BY DEF SendOne, IInv, TypeOK, ReqState, Kinds, Whole, Well, WellPlaced, WellLocked, Locked
  <2>3. 1 \notin req[r].todo /\ (req[r].raised \in req[r].todo \cup tried)
    BY <2>2 DEF SendOne, IInv, Whole, Well, WellReported
  <2>4. /\ notes'.pending = notes.pending \ {n} /\ notes'.last = notes.last
        /\ notes' \in [pending : SUBSET Nat, last : Nat]
    BY <1>2 DEF IInv, TypeOK
  <2>5. NotesGrow
    <3>1. notes.last \in Nat
      BY DEF IInv, TypeOK
    <3>2. notes'.last >= notes.last
      BY <2>4, <3>1, SMT
    <3> QED
      BY <1>2, <2>1, <2>3, <2>4, <3>2 DEF IInv, TypeOK, Whole, NotesGrow
  <2>6. k \in ReqState /\ ReqState' = ReqState
    BY <2>1, <2>4 DEF ReqState
  <2>7. /\ req'[r] = k /\ k.kind = req[r].kind /\ k.pc = "send" /\ k.todo = req[r].todo \ {n}
        /\ k.raised = req[r].raised /\ k.profile = req[r].profile /\ k.at = req[r].at
    BY <2>1 DEF SendOne, IInv, TypeOK, Step, ReqState
  <2> HIDE DEF k
  <2>8. Well(r)'
    <3>1. k.raised \in k.todo \cup tried' /\ 1 \notin k.todo
      BY <1>2, <2>3, <2>7
    <3> QED
      BY <2>1, <2>2, <2>7, <3>1
         DEF SendOne, IInv, Whole, Well, WellPlaced, WellAwaited, WellAnswered, WellReported
  <2>9. SimInv' /\ WaitsOfOthers(r)
    BY <2>1, QuietSim DEF WaitsOfOthers
  <2>10. k.kind # "none" => k.at \in 1 .. mm.last
    BY <2>7 DEF IInv, Whole, WellNumbered
  <2> QED
    BY <1>2, <2>1, <2>2, <2>5, <2>6, <2>7, <2>8, <2>9, <2>10, StepKeeps
       DEF IInv, TypeOK, Whole, WellLocked
<1> QED
  BY <1>1, <1>2 DEF SendOne

LEMMA CheckDeleteKeeps ==
  ASSUME IInv, NEW r \in Requests, CheckDelete(r)
  PROVE  IInv'
<1>1. CASE Ends(r, "error") /\ (Faulty \/ UNCHANGED faults)
  BY <1>1, EndsQuietly DEF CheckDelete
<1>2. CASE Checked(req[r].profile) /\ Goto(r, "delete") /\ UNCHANGED <<holder, open, faults>>
  <2>1. "delete" \in Places
    BY DEF Places
  <2>2. Well(r)'
    BY <1>2, <2>1, GotoFields
       DEF CheckDelete, IInv, Whole, Well, WellPlaced, WellAwaited, WellAnswered, WellReported
  <2>3. r \in open /\ req[r].profile # card.profile
    BY <1>2 DEF CheckDelete, Checked, IInv, Whole, WellLocked, Locked
  <2> QED
    BY <1>2, <2>1, <2>2, <2>3, GotoQuietly DEF CheckDelete
<1> QED
  BY <1>1, <1>2 DEF CheckDelete

LEMMA ReportKeeps ==
  ASSUME IInv, NEW r \in Requests, Report(r)
  PROVE  IInv'
<1>1. req[r].raised \in 1 .. notes.last
  <2>1. req[r].raised \in 0 .. notes.last /\ req[r].raised # 0
    BY DEF Report, IInv, TypeOK, ReqState, Whole, Well, WellPlaced
  <2> QED
    BY <2>1, SMT DEF IInv, TypeOK
<1>2. NotesGrow
  <2>1. tried' \in {tried, tried \cup {req[r].raised}} /\ notes' = notes
    BY DEF Report
  <2>2. notes.last >= notes.last
    BY SMT DEF IInv, TypeOK
  <2> QED
    BY <1>1, <2>1, <2>2 DEF IInv, TypeOK, Whole, NotesGrow
<1>3. SimInv' /\ WaitsOfOthers(r)
  BY QuietSim DEF WaitsOfOthers, Report
<1>4. call'[r].waits => call'[r].pc # "shown"
  BY DEF Report, IInv, Whole, Well, WellAwaited
<1>5. \E how \in {"done", "error"} : Ends(r, how)
  BY DEF Report
<1> QED
  BY <1>2, <1>3, <1>4, <1>5, EndsKeeps DEF Report, IInv, TypeOK

LEMMA ReadsKeeps ==
  ASSUME IInv, NEW r \in Requests, Reads(r)
  PROVE  IInv'
BY EndsQuietly DEF Reads, simVars

LEMMA AskKeeps ==
  ASSUME IInv, NEW r \in Requests, Ask(r)
  PROVE  IInv'
<1>1. CASE Ends(r, "error") /\ (Faulty \/ UNCHANGED faults)
  BY <1>1, EndsQuietly DEF Ask
<1>2. CASE Goto(r, "confirm") /\ UNCHANGED <<holder, open, faults>>
  <2>1. "confirm" \in Places
    BY DEF Places
  <2>2. req[r].kind = "download" /\ r \in open
    BY DEF Ask, IInv, TypeOK, ReqState, Kinds, Whole, Well, WellPlaced, WellLocked, Locked
  <2>3. Well(r)'
    BY <1>2, <2>1, <2>2, GotoFields
       DEF Ask, IInv, Whole, Well, WellPlaced, WellAwaited, WellAnswered, WellReported
  <2> QED
    BY <1>2, <2>1, <2>2, <2>3, GotoQuietly DEF Ask
<1> QED
  BY <1>1, <1>2 DEF Ask

LEMMA ConfirmedKeeps ==
  ASSUME IInv, NEW r \in Requests, Confirmed(r)
  PROVE  IInv'
<1>1. CASE Ends(r, "error")
  BY <1>1, EndsQuietly DEF Confirmed, simVars
<1>2. CASE /\ req[r].confirm = "yes"
           /\ req' = [req EXCEPT ![r].confirm = "none", ![r].pc = "install"]
           /\ UNCHANGED <<holder, open>>
  <2> DEFINE k == [req[r] EXCEPT !.confirm = "none", !.pc = "install"]
  <2>1. req[r] \in ReqState /\ Step(r, k)
    BY <1>2 DEF IInv, TypeOK, Step
  <2>2. k \in ReqState
    BY <2>1 DEF ReqState, Places
  <2>3. req[r].kind = "download" /\ r \in open /\ req[r].first = "yes"
    BY <1>2 DEF Confirmed, IInv, TypeOK, ReqState, Kinds, Whole, Well, WellPlaced, WellAnswered,
       WellLocked, Locked
  <2>4. /\ req'[r] = k /\ k.kind = req[r].kind /\ k.pc = "install" /\ k.first = req[r].first
        /\ k.profile = req[r].profile /\ k.at = req[r].at
    BY <2>1 DEF IInv, TypeOK, Step, ReqState
  <2>5. /\ ReqState' = ReqState /\ NotesGrow
        /\ UNCHANGED <<mm, card, call, reg, faults, installed, notes, tried>>
    BY NotesUnchanged DEF ReqState, Confirmed, simVars
  <2> HIDE DEF k
  <2>6. Well(r)'
    BY <2>3, <2>4, <2>5
       DEF Confirmed, IInv, Whole, Well, WellPlaced, WellAwaited, WellAnswered, WellReported
  <2>7. SimInv' /\ WaitsOfOthers(r)
    BY <2>5, QuietSim DEF WaitsOfOthers
  <2>8. k.kind # "none" => k.at \in 1 .. mm.last
    BY <2>4 DEF IInv, Whole, WellNumbered
  <2> QED
    BY <1>2, <2>1, <2>2, <2>3, <2>4, <2>5, <2>6, <2>7, <2>8, StepKeeps
       DEF IInv, TypeOK, Whole, WellLocked
<1> QED
  BY <1>1, <1>2 DEF Confirmed

\* The browser of a download is heard wherever the download is.
LEMMA BrowserKeeps ==
  ASSUME IInv, NEW r \in Requests, NEW k \in ReqState, Step(r, k), Listening(r),
         UNCHANGED <<simVars, holder, open, installed, notes, tried>>,
         k.kind = req[r].kind, k.pc = req[r].pc, k.profile = req[r].profile, k.at = req[r].at,
         k.raised = req[r].raised,
         req[r].confirm = req[r].first => k.confirm = k.first,
         req[r].first = "yes" => k.first = "yes"
  PROVE  IInv'
<1>1. /\ ReqState' = ReqState /\ NotesGrow /\ req'[r] = k /\ req[r].kind = "download"
      /\ UNCHANGED <<mm, card, call, reg, faults, installed, notes, tried>>
  BY NotesUnchanged DEF ReqState, Step, IInv, TypeOK, Listening, simVars
<1>2. Well(r)'
  BY <1>1 DEF IInv, Whole, Well, WellPlaced, WellAwaited, WellAnswered, WellReported
<1>3. SimInv' /\ WaitsOfOthers(r)
  BY <1>1, QuietSim DEF WaitsOfOthers
<1>4. /\ k.kind # "none" => k.at \in 1 .. mm.last
      /\ k.pc \in Locked => r \in open
      /\ k.pc = "delete" => k.profile # card.profile
  BY DEF IInv, Whole, WellNumbered, WellLocked
<1> QED
  BY <1>1, <1>2, <1>3, <1>4, StepKeeps DEF IInv, TypeOK, Whole, WellLocked

LEMMA BrowserAnswersKeeps ==
  ASSUME IInv, NEW r \in Requests, BrowserAnswers(r)
  PROVE  IInv'
<1>1. PICK a \in {"yes", "no"} :
        req' = [req EXCEPT ![r].first = IF @ = "none" THEN a ELSE @,
                           ![r].confirm = Kept(@, a),
                           ![r].sent = @ + 1]
  BY DEF BrowserAnswers
<1> DEFINE k == [req[r] EXCEPT !.first = IF @ = "none" THEN a ELSE @, !.confirm = Kept(@, a),
                               !.sent = @ + 1]
<1>2. req[r] \in ReqState /\ Step(r, k)
  BY <1>1 DEF IInv, TypeOK, Step
<1>3. req[r].sent + 1 \in Nat
  BY <1>2, SMT DEF ReqState
<1>4. /\ Kept(req[r].confirm, a) \in {"none", "yes", "no"}
      /\ (IF req[r].first = "none" THEN a ELSE req[r].first) \in {"none", "yes", "no"}
  BY <1>2 DEF ReqState, Kept
<1>5. k \in ReqState
  BY <1>2, <1>3, <1>4 DEF ReqState
<1>6. /\ k.kind = req[r].kind /\ k.pc = req[r].pc /\ k.profile = req[r].profile
      /\ k.at = req[r].at /\ k.raised = req[r].raised
      /\ k.confirm = Kept(req[r].confirm, a)
      /\ k.first = IF req[r].first = "none" THEN a ELSE req[r].first
  BY <1>2 DEF ReqState
<1> HIDE DEF k
<1>7. /\ req[r].confirm = req[r].first => k.confirm = k.first
      /\ req[r].first = "yes" => k.first = "yes"
  BY <1>6 DEF Kept
<1> QED
  BY <1>2, <1>5, <1>6, <1>7, BrowserKeeps DEF BrowserAnswers

LEMMA BrowserGoesKeeps ==
  ASSUME IInv, NEW r \in Requests, BrowserCancels(r) \/ BrowserLeaves(r)
  PROVE  IInv'
<1>1. req[r] \in ReqState
  BY DEF IInv, TypeOK
<1>2. CASE BrowserCancels(r)
  <2> DEFINE k == [req[r] EXCEPT !.cancelled = TRUE]
  <2>1. Step(r, k)
    BY <1>2 DEF BrowserCancels, Step
  <2>2. k \in ReqState
    BY <1>1 DEF ReqState
  <2>3. /\ k.kind = req[r].kind /\ k.pc = req[r].pc /\ k.profile = req[r].profile
        /\ k.at = req[r].at /\ k.raised = req[r].raised
        /\ k.confirm = req[r].confirm /\ k.first = req[r].first
    BY <1>1 DEF ReqState
  <2> HIDE DEF k
  <2> QED
    BY <1>2, <2>1, <2>2, <2>3, BrowserKeeps DEF BrowserCancels
<1>3. CASE BrowserLeaves(r)
  <2> DEFINE k == [req[r] EXCEPT !.left = TRUE]
  <2>1. Step(r, k)
    BY <1>3 DEF BrowserLeaves, Step
  <2>2. k \in ReqState
    BY <1>1 DEF ReqState
  <2>3. /\ k.kind = req[r].kind /\ k.pc = req[r].pc /\ k.profile = req[r].profile
        /\ k.at = req[r].at /\ k.raised = req[r].raised
        /\ k.confirm = req[r].confirm /\ k.first = req[r].first
    BY <1>1 DEF ReqState
  <2> HIDE DEF k
  <2> QED
    BY <1>3, <2>1, <2>2, <2>3, BrowserKeeps DEF BrowserLeaves
<1> QED
  BY <1>2, <1>3

LEMMA RequestKeeps ==
  ASSUME IInv, NEW r \in Requests, Request(r)
  PROVE  IInv'
<1>0. PICK kind \in KindsOf[r] : \E p \in About(kind) :
        req' = [req EXCEPT ![r] = [NoReq EXCEPT !.kind = kind, !.profile = p, !.at = mm.path,
                                                !.pc = IF kind = "number" THEN "update" ELSE "resolve"]]
  BY DEF Request
<1>1. PICK p \in About(kind) :
        req' = [req EXCEPT ![r] = [NoReq EXCEPT !.kind = kind, !.profile = p, !.at = mm.path,
                                                !.pc = IF kind = "number" THEN "update" ELSE "resolve"]]
  BY <1>0
<1> DEFINE k == [NoReq EXCEPT !.kind = kind, !.profile = p, !.at = mm.path,
                              !.pc = IF kind = "number" THEN "update" ELSE "resolve"]
<1>2. kind \in Kinds
  BY EsimAssumption DEF Requests
<1>3. /\ p \in Shown
      /\ kind \in {"enable", "delete", "download"} => p \in Profiles
  BY <1>2 DEF About, Shown, Kinds, IInv, TypeOK, SimTypeOK
<1>4. mm.path \in 1 .. mm.last /\ mm.path \in Nat
  BY SMT DEF Request, IInv, TypeOK, SimTypeOK, Whole, WellNumbered
<1>5. k \in ReqState
  <2>1. 0 \in 0 .. notes.last /\ 0 \in Nat
    BY SMT DEF IInv, TypeOK
  <2> QED
    BY <1>2, <1>3, <1>4, <2>1, Zenon DEF ReqState, NoReq, Places
<1>6. /\ k.kind = kind /\ k.profile = p /\ k.at = mm.path
      /\ k.pc = IF kind = "number" THEN "update" ELSE "resolve"
      /\ k.first = "none" /\ k.confirm = "none" /\ k.raised = 0
  BY DEF NoReq
<1>7. Step(r, k)
  BY <1>1 DEF Step
<1> HIDE DEF k
<1>8. /\ ReqState' = ReqState /\ NotesGrow /\ req'[r] = k
      /\ UNCHANGED <<mm, card, call, faults, holder, open, installed, notes, tried>>
  BY <1>7, NotesUnchanged DEF ReqState, Step, IInv, TypeOK, Request
<1>9. Well(r)'
  BY <1>2, <1>3, <1>6, <1>8
     DEF Kinds, IInv, Whole, Well, WellPlaced, WellAwaited, WellAnswered, WellReported
<1>10. SimInv' /\ WaitsOfOthers(r)
  <2>1. SimInv
    BY DEF IInv, TypeOK, SimInv, Whole, WellNumbered
  <2>2. SimKept
    BY <1>8, <2>1, WorldListed, CallsUnchanged DEF SimKept, Request
  <2> QED
    BY <2>2, SimKeptInv DEF SimKept, CallsKept, WaitsOfOthers, Requests
<1>11. k.pc \notin Locked /\ k.pc # "delete"
  BY <1>6 DEF Locked
<1> QED
  BY <1>4, <1>5, <1>6, <1>7, <1>8, <1>9, <1>10, <1>11, StepKeeps DEF IInv, TypeOK, Whole, WellLocked

-----------------------------------------------------------------------------
(* The invariant and what it gives. *)

LEMMA InitEstablishes == Init => IInv
<1> SUFFICES ASSUME Init PROVE IInv
  OBVIOUS
<1>1. SimTypeOK
  <2>1. NoCall \in CallState
    BY NoCallType
  <2>2. call \in [Calls -> CallState]
    BY <2>1 DEF Init, SimInit
  <2>3. card \in [profile : Profiles, ready : BOOLEAN]
    BY SimAssumption DEF Init, SimInit
  <2>4. /\ mm \in [path : Nat, last : Nat, sim : Shown] /\ faults \in 0 .. MaxFaults
        /\ reg \in [heard : 0 .. LastSignal, known : 0 .. mm.last]
    BY SimAssumption, SMT DEF Init, SimInit, Shown, Unread, LastSignal
  <2> QED
    BY <2>2, <2>3, <2>4 DEF SimTypeOK
<1>2. NoReq \in ReqState
  <2>1. 0 \in 0 .. notes.last /\ 0 \in Nat
    BY SMT DEF Init
  <2> QED
    BY <2>1, Zenon DEF NoReq, ReqState, Places, Shown
<1>3. notes \in [pending : SUBSET Nat, last : Nat] /\ notes.pending \subseteq 1 .. notes.last
  BY SMT DEF Init
<1>4. TypeOK
  BY <1>1, <1>2, <1>3 DEF Init, TypeOK
<1>5. \A r \in Requests : /\ req[r] = NoReq /\ NoReq.kind = "none" /\ NoReq.pc = "idle"
                          /\ ~call[r].waits
  BY DEF Init, SimInit, NoReq, NoCall, Requests
<1>6. WellNumbered /\ WellLocked /\ 1 \in notes.pending
  BY <1>5, SMT DEF Init, SimInit, WellNumbered, WellLocked, Locked
<1>7. \A r \in Requests : Well(r)
  BY <1>5 DEF Well, WellPlaced, WellAwaited, WellAnswered, WellReported
<1> QED
  BY <1>4, <1>6, <1>7 DEF IInv, Whole

LEMMA NextKeeps == IInv /\ [Next]_vars => IInv'
<1> SUFFICES ASSUME IInv, [Next]_vars PROVE IInv'
  OBVIOUS
<1>1. SimInv
  BY DEF IInv, TypeOK, SimInv, Whole, WellNumbered
<1>2. CASE (ModemStep \/ HandleSignal) /\ UNCHANGED esimVars
  BY <1>1, <1>2, ModemStepKeeps, HandleSignalKeeps, SimStepKeeps
<1>3. ASSUME NEW r \in Requests, Works(r)
      PROVE  IInv'
  BY <1>3, ResolveKeeps, OpenKeeps, PrepareKeeps, RestoreInternetKeeps, SwitchKeeps, AwaitSimKeeps,
     AwaitedKeeps, ListNotificationsKeeps, SendOneKeeps, CheckDeleteKeeps, DeleteProfileKeeps,
     ReportKeeps, ReadsKeeps, AskKeeps, ConfirmedKeeps, InstallKeeps, UpdateNumberKeeps DEF Works
<1>4. ASSUME NEW r \in Requests, CallStep(r) \/ TimesOut(r), UNCHANGED esimVars
      PROVE  IInv'
  BY <1>1, <1>4, CallStepKeeps, SimStepKeeps DEF Requests
<1>5. ASSUME NEW r \in Requests, BrowserAnswers(r) \/ BrowserCancels(r) \/ BrowserLeaves(r)
      PROVE  IInv'
  BY <1>5, BrowserAnswersKeeps, BrowserGoesKeeps
<1>6. CASE UNCHANGED vars
  BY <1>1, <1>6, CallsUnchanged, WorldUnchanged, SimStepKeeps DEF vars, simVars, SimKept
<1> QED
  BY <1>2, <1>3, <1>4, <1>5, <1>6, RequestKeeps DEF Next, Looks

\* The requests keep to their places, and the lock, the notifications and the
\* browser's answers to what those places say.
THEOREM Invariance == Spec => []IInv
BY InitEstablishes, NextKeeps, PTL DEF Spec

\* Every reachable state is well typed.
THEOREM TypeCorrect == Spec => []TypeOK
<1>1. IInv => TypeOK
  BY DEF IInv
<1> QED
  BY <1>1, Invariance, PTL

\* Whatever requests share the modem, however often each of them closes what it
\* has opened or fails half-way, there is one LPA client at a time, and the
\* profile in use is never asked to be deleted.
THEOREM OneAtATime == Spec => []OneClient
<1>1. IInv => OneClient
  <2>1. Nobody \notin Requests
    BY EsimAssumption DEF Requests
  <2> QED
    BY <2>1 DEF IInv, Whole, WellLocked, OneClient, TypeOK
<1> QED
  BY <1>1, Invariance, PTL

\* A request that enabled a profile leaves no notification of its own unsent once
\* it has listed them, and leaves alone those that were pending before.
THEOREM ReportsOwn == Spec => []Reported
<1>1. IInv => Reported
  BY DEF IInv, Whole, Well, WellReported, Reported
<1> QED
  BY <1>1, Invariance, PTL

\* No download is installed unless the first answer of its browser agreed to it.
THEOREM AgreedTo == Spec => []Consent
<1>1. IInv => Consent
  <2> SUFFICES ASSUME IInv, NEW r \in Requests, req[r].kind = "download", req[r].raised # 0
               PROVE  req[r].first = "yes"
    BY DEF Consent
  <2> QED
    BY DEF IInv, Whole, Well, WellPlaced, WellAnswered
<1> QED
  BY <1>1, Invariance, PTL

=============================================================================
