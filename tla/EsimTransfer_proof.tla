-------------------------- MODULE EsimTransfer_proof --------------------------
(***************************************************************************)
(* Transfers of lines, for any transfers, places, lines and carriers:      *)
(* EsimTransfer keeps no lock and no websheet a transfer is past, deletes  *)
(* no source profile against its owner, and takes the profile in use from  *)
(* no source that has another.                                             *)
(***************************************************************************)
EXTENDS EsimTransfer, TLAPS

Thens    == {"open", "carrier", "delete checked"}
Enables  == {"switch", "await", "notify"}
Pcs      == {"start", "list", "activate", "target", "deletion", "input", "sheet", "download", "delete",
             "delete only", "completed", "error"} \cup Thens \cup Enables
TrState  == [pc : Pcs, line : Lines \cup {NoLine}, then : Thens \cup {"none"}, seen : SUBSET Lines,
             client : BOOLEAN, events : Nat, deleted : BOOLEAN]
BrState  == [link : {"open", "cancelled", "left"}, deletion : {"none", "yes", "no"}, saidYes : BOOLEAN]

\* Every variable stays within its type; a profile that is being enabled is
\* enabled for something.
Typed ==
  /\ plan \in [Transfers -> Plan]
  /\ holder \in [Places -> Transfers \cup {Nobody}]
  /\ installed \in [Places -> SUBSET Lines]
  /\ active \in [Places -> Lines \cup {NoLine}]
  /\ tr \in [Transfers -> TrState]
  /\ \A t \in Transfers : tr[t].pc \in Enables => tr[t].then \in Thens
  /\ sheets \in [Transfers -> {"none", "live", "expired"}]
  /\ browser \in [Transfers -> BrState]
  /\ faults \in 0 .. MaxFaults

\* The transfer is about to delete the profile of its source, or has done so.
Deletes(q) ==
  \/ q.pc \in {"delete", "delete checked", "delete only"}
  \/ q.pc \in Enables /\ q.then = "delete checked"
  \/ q.deleted

\* It may.
Agreed(t) == browser[t].saidYes \/ browser[t].link = "left"

\* An answer that was given stands for what was said.
WellAgreed ==
  \A t \in Transfers : /\ Deletes(tr[t]) => Agreed(t)
                       /\ browser[t].deletion = "yes" => browser[t].saidYes

\* Without a check a profile is deleted only where there was no other.
WellSeen ==
  \A t \in Transfers : tr[t].pc = "delete only" =>
    plan[t].kind = "modem" /\ tr[t].seen \subseteq {Line(t)}

IInv == Typed /\ NothingKept /\ WellAgreed /\ WellSeen

-----------------------------------------------------------------------------
(* What a step of a transfer does to the invariant. *)

WorldOK ==
  /\ installed \in [Places -> SUBSET Lines]
  /\ active \in [Places -> Lines \cup {NoLine}]
  /\ faults \in 0 .. MaxFaults

\* What a browser has said or done is not taken back.
BrowserGrows ==
  /\ browser' \in [Transfers -> BrState]
  /\ \A u \in Transfers : /\ browser[u].saidYes => browser'[u].saidYes
                          /\ browser[u].link = "left" => browser'[u].link = "left"
                          /\ browser'[u].deletion = "yes" => browser'[u].saidYes

LEMMA SameBrowser ==
  ASSUME IInv, UNCHANGED browser
  PROVE  BrowserGrows
BY DEF IInv, Typed, WellAgreed, BrowserGrows

\* A fault is counted.
LEMMA FaultType ==
  ASSUME IInv, Faulty \/ UNCHANGED faults
  PROVE  faults' \in 0 .. MaxFaults
<1>1. faults \in 0 .. MaxFaults /\ MaxFaults \in Nat
  BY TransferAssumption DEF IInv, Typed
<1>2. CASE Faulty
  BY <1>1, <1>2, SMT DEF Faulty
<1>3. CASE UNCHANGED faults
  BY <1>1, <1>3
<1> QED
  BY <1>2, <1>3

LEMMA SameCards ==
  ASSUME IInv, UNCHANGED <<installed, active>>, Faulty \/ UNCHANGED faults
  PROVE  WorldOK'
BY FaultType DEF IInv, Typed, WorldOK

LEMMA PlanIs ==
  ASSUME IInv, NEW t \in Transfers
  PROVE  /\ plan[t].kind \in Kinds /\ Source(t) \in Places /\ Target(t) \in Places
         /\ Line(t) \in Lines /\ Line(t) # NoLine
BY TransferAssumption DEF IInv, Typed, Plan, Source, Target, Line

LEMMA NoSheet ==
  ASSUME IInv, NEW t \in Transfers, tr[t].pc \notin {"sheet", "carrier"}
  PROVE  sheets[t] = "none"
BY DEF IInv, NothingKept

\* Of the websheets only that of a transfer changes, which is at it if there is one.
SheetMoves(t, pc) ==
  /\ sheets' \in [Transfers -> {"none", "live", "expired"}]
  /\ \A u \in Transfers \ {t} : sheets'[u] = sheets[u]
  /\ sheets'[t] # "none" => pc \in {"sheet", "carrier"}

\* A transfer goes on and keeps what it has.
LEMMA GoesOn ==
  ASSUME IInv, NEW t \in Transfers, NEW q \in TrState, tr' = [tr EXCEPT ![t] = q],
         UNCHANGED <<plan, holder>>, WorldOK', BrowserGrows,
         q.client = tr[t].client,
         SheetMoves(t, q.pc),
         q.pc \in Enables => q.then \in Thens,
         Deletes(q) => Agreed(t)',
         q.pc = "delete only" => plan[t].kind = "modem" /\ q.seen \subseteq {Line(t)}
  PROVE  IInv'
<1>1. /\ tr' \in [Transfers -> TrState] /\ tr'[t] = q
      /\ \A u \in Transfers \ {t} : tr'[u] = tr[u]
  BY DEF IInv, Typed
<1>2. Typed'
  BY <1>1 DEF IInv, Typed, WorldOK, BrowserGrows, SheetMoves
<1>3. NothingKept'
  <2> SUFFICES ASSUME NEW u \in Transfers
               PROVE  /\ \A p \in Places : holder'[p] = u <=> tr'[u].client /\ p = Target(u)'
                      /\ sheets'[u] # "none" => tr'[u].pc \in {"sheet", "carrier"}
    BY DEF NothingKept
  <2>1. tr'[u].client = tr[u].client /\ Target(u)' = Target(u) /\ holder' = holder
    BY <1>1 DEF Target
  <2>2. \A p \in Places : holder'[p] = u <=> tr'[u].client /\ p = Target(u)'
    <3>1. \A p \in Places : holder[p] = u <=> tr[u].client /\ p = Target(u)
      BY DEF IInv, NothingKept
    <3> QED
      BY <2>1, <3>1, Zenon
  <2>3. sheets'[u] # "none" => tr'[u].pc \in {"sheet", "carrier"}
    BY <1>1 DEF IInv, NothingKept, SheetMoves
  <2> QED
    BY <2>2, <2>3
<1>4. WellAgreed'
  BY <1>1 DEF IInv, WellAgreed, BrowserGrows, Agreed
<1>5. WellSeen'
  BY <1>1 DEF IInv, WellSeen, Line
<1> QED
  BY <1>2, <1>3, <1>4, <1>5 DEF IInv

\* The same, and nothing happens to the websheets.
LEMMA Goes ==
  ASSUME IInv, NEW t \in Transfers, NEW q \in TrState, tr' = [tr EXCEPT ![t] = q],
         UNCHANGED <<plan, holder, sheets>>, WorldOK', BrowserGrows,
         q.client = tr[t].client,
         tr[t].pc \in {"sheet", "carrier"} => q.pc \in {"sheet", "carrier"},
         q.pc \in Enables => q.then \in Thens,
         Deletes(q) => Agreed(t)',
         q.pc = "delete only" => plan[t].kind = "modem" /\ q.seen \subseteq {Line(t)}
  PROVE  IInv'
<1>1. SheetMoves(t, q.pc)
  BY DEF SheetMoves, IInv, Typed, NothingKept
<1> QED
  BY <1>1, GoesOn

\* The same, of a transfer that only goes to another place.
LEMMA GotoKeeps ==
  ASSUME IInv, NEW t \in Transfers, NEW pc \in Pcs, Goto(t, pc),
         UNCHANGED <<plan, holder, sheets>>, WorldOK', BrowserGrows,
         tr[t].pc \in {"sheet", "carrier"} => pc \in {"sheet", "carrier"},
         pc \in Enables => tr[t].pc \in Enables,
         pc \in {"delete", "delete checked"} => Agreed(t)',
         pc # "delete only"
  PROVE  IInv'
<1> DEFINE q == [tr[t] EXCEPT !.pc = pc]
<1>1. tr[t] \in TrState /\ (tr[t].pc \in Enables => tr[t].then \in Thens)
  BY DEF IInv, Typed
<1>2. /\ q \in TrState /\ q.pc = pc /\ q.then = tr[t].then /\ q.deleted = tr[t].deleted
      /\ q.client = tr[t].client
  BY <1>1 DEF TrState
<1>3. tr' = [tr EXCEPT ![t] = q]
  BY DEF Goto
<1> HIDE DEF q
<1>4. Deletes(tr[t]) => Agreed(t)'
  BY DEF IInv, WellAgreed, BrowserGrows, Agreed
<1>5. Deletes(q) => Agreed(t)'
  BY <1>2, <1>4 DEF Deletes
<1> QED
  BY <1>1, <1>2, <1>3, <1>5, Goes

\* A transfer ends, or its client is closed, and the lock is free.
LEMMA FreedKeeps ==
  ASSUME IInv, NEW t \in Transfers, NEW q \in TrState, tr' = [tr EXCEPT ![t] = q], holder' = Freed(t),
         sheets' = [sheets EXCEPT ![t] = "none"] \/ (UNCHANGED sheets /\ sheets[t] = "none"),
         UNCHANGED plan, WorldOK', BrowserGrows,
         ~q.client, q.pc \in Enables => q.then \in Thens,
         Deletes(q) => Agreed(t)', q.pc # "delete only"
  PROVE  IInv'
<1>1. /\ tr' \in [Transfers -> TrState] /\ tr'[t] = q
      /\ \A u \in Transfers \ {t} : tr'[u] = tr[u]
  BY DEF IInv, Typed
<1>2. /\ sheets' \in [Transfers -> {"none", "live", "expired"}] /\ sheets'[t] = "none"
      /\ \A u \in Transfers \ {t} : sheets'[u] = sheets[u]
  BY DEF IInv, Typed
<1>3. holder' \in [Places -> Transfers \cup {Nobody}]
  BY DEF IInv, Typed, Freed
<1>4. Typed'
  BY <1>1, <1>2, <1>3 DEF IInv, Typed, WorldOK, BrowserGrows
<1>5. Nobody \notin Transfers
  BY TransferAssumption
<1>6. ASSUME NEW p \in Places, NEW u \in Transfers
      PROVE  holder'[p] = u <=> tr'[u].client /\ p = Target(u)
  <2>1. /\ holder[p] = u <=> tr[u].client /\ p = Target(u)
        /\ holder[p] = t <=> tr[t].client /\ p = Target(t)
    BY DEF IInv, NothingKept
  <2>2. CASE tr[t].client
    <3>1. holder'[p] = IF p = Target(t) THEN Nobody ELSE holder[p]
      BY <2>2 DEF Freed, IInv, Typed
    <3> QED
      BY <1>1, <1>5, <2>1, <2>2, <3>1
  <2>3. CASE ~tr[t].client
    BY <1>1, <2>1, <2>3 DEF Freed
  <2> QED
    BY <2>2, <2>3
<1>7. NothingKept'
  BY <1>1, <1>2, <1>6, ZenonT(60) DEF IInv, NothingKept, Target
<1>8. WellAgreed'
  BY <1>1 DEF IInv, WellAgreed, BrowserGrows, Agreed
<1>9. WellSeen'
  BY <1>1 DEF IInv, WellSeen, Line
<1> QED
  BY <1>4, <1>7, <1>8, <1>9 DEF IInv

\* The end of Serve.
LEMMA EndsKeeps ==
  ASSUME IInv, NEW t \in Transfers, NEW how \in {"completed", "error"}, Ends(t, how),
         UNCHANGED plan, WorldOK', BrowserGrows
  PROVE  IInv'
<1> DEFINE q == [NewTransfer EXCEPT !.pc = how, !.deleted = tr[t].deleted]
<1>1. tr[t].deleted \in BOOLEAN
  BY DEF IInv, Typed, TrState
<1>2. q \in TrState /\ q.pc = how /\ q.deleted = tr[t].deleted /\ q.client = FALSE
  <2>1. NewTransfer \in TrState /\ NewTransfer.client = FALSE
    <3>1. 0 \in Nat /\ {} \in SUBSET Lines
      OBVIOUS
    <3> QED
      BY <3>1 DEF NewTransfer, TrState, Pcs
  <2> QED
    BY <1>1, <2>1 DEF TrState, Pcs
<1>3. /\ tr' = [tr EXCEPT ![t] = q] /\ holder' = Freed(t)
      /\ sheets' = [sheets EXCEPT ![t] = "none"]
  BY DEF Ends, Dropped
<1> HIDE DEF q
<1>4. tr[t].deleted => Agreed(t)'
  BY DEF IInv, WellAgreed, BrowserGrows, Agreed, Deletes
<1>5. Deletes(q) => Agreed(t)'
  BY <1>2, <1>4 DEF Deletes, Enables
<1> QED
  BY <1>2, <1>3, <1>5, FreedKeeps DEF Enables

LEMMA FailsKeeps ==
  ASSUME IInv, NEW t \in Transfers, Fails(t), UNCHANGED plan, WorldOK', BrowserGrows
  PROVE  IInv'
BY EndsKeeps DEF Fails

\* A step that ends the transfer and changes nothing else.
LEMMA GivesUp ==
  ASSUME IInv, NEW t \in Transfers, Fails(t), UNCHANGED <<plan, installed, active, browser>>,
         Faulty \/ UNCHANGED faults
  PROVE  IInv'
BY FailsKeeps, SameCards, SameBrowser

LEMMA Interrupts ==
  ASSUME IInv, NEW t \in Transfers, Fault(t) \/ Interrupted(t),
         UNCHANGED <<plan, installed, active, browser>>
  PROVE  IInv'
BY GivesUp DEF Fault, Interrupted, Cancelled

\* A step that goes to another place and changes nothing else.
LEMMA Passes ==
  ASSUME IInv, NEW t \in Transfers, NEW pc \in Pcs, Goto(t, pc),
         UNCHANGED <<plan, holder, sheets, installed, active, browser, faults>>,
         tr[t].pc \in {"sheet", "carrier"} => pc \in {"sheet", "carrier"},
         pc \in Enables => tr[t].pc \in Enables,
         pc = "delete checked" => Agreed(t),
         pc \notin {"delete", "delete only"}
  PROVE  IInv'
<1>1. Agreed(t) => Agreed(t)'
  BY DEF Agreed
<1> QED
  BY <1>1, GotoKeeps, SameCards, SameBrowser

-----------------------------------------------------------------------------
(* Enabling a profile, and the way to the dialogue. *)

\* Whatever is enabled for the deletion was agreed to.
LEMMA ThenAgreed ==
  ASSUME IInv, NEW t \in Transfers, tr[t].pc \in Enables
  PROVE  /\ tr[t].then \in Thens /\ tr[t].then \in Pcs
         /\ tr[t].then \notin Enables \cup {"delete", "delete only"}
         /\ tr[t].then = "delete checked" => Agreed(t)
BY DEF IInv, Typed, Thens, Pcs, Enables, WellAgreed, Deletes

LEMMA SwitchKeeps ==
  ASSUME IInv, NEW t \in Transfers, Switch(t)
  PROVE  IInv'
<1>1. tr[t].pc = "switch" /\ UNCHANGED <<plan, installed, browser>>
  BY DEF Switch
<1>2. CASE Goto(t, tr[t].then) /\ Keeps /\ UNCHANGED active
  BY <1>1, <1>2, ThenAgreed, Passes DEF Keeps, Enables
<1>3. ASSUME NEW p, NEW l, l \in installed[p], p = EnabledAt(t), active' = [active EXCEPT ![p] = l],
             Goto(t, "await"), Keeps
      PROVE  IInv'
  <2>1. p \in Places
    BY <1>3, PlanIs DEF EnabledAt
  <2>2. WorldOK'
    BY <1>1, <1>3, <2>1 DEF WorldOK, IInv, Typed, Keeps
  <2> QED
    BY <1>1, <1>3, <2>2, GotoKeeps, SameBrowser DEF Keeps, Pcs, Enables
<1>4. CASE Fails(t) /\ UNCHANGED <<active, faults>>
  BY <1>1, <1>4, GivesUp
<1>5. CASE Fault(t) /\ UNCHANGED active
  BY <1>1, <1>5, Interrupts
<1> QED
  BY <1>2, <1>3, <1>4, <1>5 DEF Switch

LEMMA AwaitKeeps ==
  ASSUME IInv, NEW t \in Transfers, Await(t) \/ Notify(t)
  PROVE  IInv'
<1>1. tr[t].pc \in Enables /\ tr[t].pc \notin {"sheet", "carrier"}
      /\ UNCHANGED <<plan, installed, active, browser>>
  BY DEF Await, Notify, Enables
<1>2. CASE Goto(t, "notify") /\ Keeps
  BY <1>1, <1>2, Passes DEF Keeps, Pcs, Enables
<1>3. CASE Goto(t, tr[t].then) /\ Keeps
  BY <1>1, <1>3, ThenAgreed, Passes DEF Keeps
<1>4. CASE Interrupted(t)
  BY <1>1, <1>4, Interrupts
<1> QED
  BY <1>2, <1>3, <1>4 DEF Await, Notify

\* A profile is going to be enabled, for something that may be done.
LEMMA EnablingIs ==
  ASSUME IInv, NEW t \in Transfers, NEW l \in Lines, NEW then \in Thens
  PROVE  LET e == Enabling(t, l, then) IN
         /\ e \in TrState /\ e.pc = "switch" /\ e.then = then /\ e.deleted = tr[t].deleted
         /\ e.client = tr[t].client
<1>1. tr[t] \in TrState
  BY DEF IInv, Typed
<1> QED
  BY <1>1 DEF TrState, Pcs, Enables, Enabling

LEMMA WithSeen ==
  ASSUME NEW e \in TrState, NEW S \in SUBSET Lines
  PROVE  LET q == [e EXCEPT !.seen = S] IN
         /\ q \in TrState /\ q.pc = e.pc /\ q.then = e.then /\ q.deleted = e.deleted
         /\ q.client = e.client /\ q.seen = S
BY DEF TrState

LEMMA WithoutClient ==
  ASSUME NEW e \in TrState
  PROVE  LET q == [e EXCEPT !.client = FALSE] IN
         /\ q \in TrState /\ q.pc = e.pc /\ q.then = e.then /\ q.deleted = e.deleted
         /\ q.client = FALSE
BY DEF TrState

LEMMA StartKeeps ==
  ASSUME IInv, NEW t \in Transfers, Start(t) \/ ListSource(t) \/ OpenSource(t)
  PROVE  IInv'
<1>1. UNCHANGED <<plan, installed, active, browser>> /\ tr[t].pc \notin {"sheet", "carrier"}
  BY DEF Start, ListSource, OpenSource
<1>2. CASE Fails(t) /\ UNCHANGED faults
  BY <1>1, <1>2, GivesUp
<1>3. CASE Fault(t) \/ Interrupted(t)
  BY <1>1, <1>3, Interrupts
<1>4. CASE \E pc \in {"list", "open", "activate", "target"} : Goto(t, pc) /\ Keeps
  BY <1>1, <1>4, Passes DEF Keeps, Pcs, Enables, Thens
<1>5. (Fails(t) /\ UNCHANGED faults) \/ (\E pc \in {"list", "open", "activate", "target"} : Goto(t, pc) /\ Keeps)
      \/ Fault(t) \/ Interrupted(t)
  <2>1. CASE Start(t)
    BY <2>1 DEF Start, Linked, Left, Cancelled
  <2>2. CASE ListSource(t)
    BY <2>2 DEF ListSource
  <2>3. CASE OpenSource(t)
    BY <2>3 DEF OpenSource
  <2> QED
    BY <2>1, <2>2, <2>3
<1> QED
  BY <1>2, <1>3, <1>4, <1>5

LEMMA ActivateKeeps ==
  ASSUME IInv, NEW t \in Transfers, Activate(t)
  PROVE  IInv'
<1>1. tr[t].pc = "activate" /\ UNCHANGED <<plan, installed, browser>>
  BY DEF Activate
<1>2. CASE tr' = [tr EXCEPT ![t] = Enabling(t, Line(t), "open")] /\ Keeps /\ UNCHANGED active
  <2> DEFINE q == Enabling(t, Line(t), "open")
  <2>1. /\ q \in TrState /\ q.pc = "switch" /\ q.then = "open" /\ q.deleted = tr[t].deleted
        /\ q.client = tr[t].client
    <3>1. "open" \in Thens
      BY DEF Thens
    <3> QED
      BY <3>1, PlanIs, EnablingIs
  <2> HIDE DEF q
  <2>2. Deletes(q) => Agreed(t)'
    BY <1>1, <2>1 DEF Deletes, Agreed, IInv, WellAgreed
  <2> QED
    BY <1>1, <1>2, <2>1, <2>2, Goes, SameCards, SameBrowser DEF Keeps, q, Thens
<1>3. CASE active' = [active EXCEPT ![Source(t)] = Line(t)] /\ Goto(t, "open") /\ Keeps
  <2>1. WorldOK'
    BY <1>1, <1>3, PlanIs DEF WorldOK, IInv, Typed, Keeps
  <2> QED
    BY <1>1, <1>3, <2>1, GotoKeeps, SameBrowser DEF Keeps, Pcs, Enables, Thens
<1>4. CASE Fails(t) /\ UNCHANGED <<active, faults>>
  BY <1>1, <1>4, GivesUp
<1>5. CASE Fault(t) /\ UNCHANGED active
  BY <1>1, <1>5, Interrupts
<1> QED
  BY <1>2, <1>3, <1>4, <1>5 DEF Activate

\* The lock of the target is free, and is the transfer's from now on.
LEMMA OpenTargetKeeps ==
  ASSUME IInv, NEW t \in Transfers, OpenTarget(t)
  PROVE  IInv'
<1>1. tr[t].pc = "target" /\ holder[Target(t)] = Nobody /\ UNCHANGED <<plan, installed, active, browser>>
  BY DEF OpenTarget, Free
<1>2. CASE Interrupted(t)
  BY <1>1, <1>2, Interrupts
<1>3. CASE /\ holder' = [holder EXCEPT ![Target(t)] = t]
           /\ tr' = [tr EXCEPT ![t].pc = "carrier", ![t].client = TRUE]
           /\ UNCHANGED <<sheets, faults>>
  <2> DEFINE q == [tr[t] EXCEPT !.pc = "carrier", !.client = TRUE]
  <2>1. tr[t] \in TrState
    BY DEF IInv, Typed
  <2>2. q \in TrState /\ q.pc = "carrier" /\ q.client = TRUE /\ q.deleted = tr[t].deleted
    BY <2>1 DEF TrState, Pcs, Thens
  <2>3. tr' = [tr EXCEPT ![t] = q]
    BY <1>3
  <2> HIDE DEF q
  <2>4. tr' \in [Transfers -> TrState] /\ tr'[t] = q /\ \A u \in Transfers \ {t} : tr'[u] = tr[u]
    BY <2>2, <2>3 DEF IInv, Typed
  <2>5. holder' \in [Places -> Transfers \cup {Nobody}]
        /\ \A p \in Places : holder'[p] = IF p = Target(t) THEN t ELSE holder[p]
    BY <1>3 DEF IInv, Typed
  <2>6. Typed'
    BY <1>1, <1>3, <2>2, <2>4, <2>5 DEF IInv, Typed, Enables
  <2>7. NothingKept'
    <3> SUFFICES ASSUME NEW u \in Transfers
                 PROVE  /\ \A p \in Places : holder'[p] = u <=> tr'[u].client /\ p = Target(u)'
                        /\ sheets'[u] # "none" => tr'[u].pc \in {"sheet", "carrier"}
      BY DEF NothingKept
    <3>1. Target(u)' = Target(u)
      BY <1>1 DEF Target
    <3>2. /\ \A p \in Places : holder[p] = u <=> tr[u].client /\ p = Target(u)
          /\ sheets[u] # "none" => tr[u].pc \in {"sheet", "carrier"}
      BY DEF IInv, NothingKept
    <3>3. Nobody \notin Transfers
      BY TransferAssumption
    <3>4. CASE u = t
      BY <1>1, <1>3, <2>2, <2>4, <2>5, <3>1, <3>2, <3>4
    <3>5. CASE u # t
      BY <1>1, <1>3, <2>4, <2>5, <3>1, <3>2, <3>3, <3>5
    <3> QED
      BY <3>4, <3>5
  <2>8. WellAgreed'
    BY <1>1, <2>2, <2>4 DEF IInv, WellAgreed, Deletes, Agreed, Enables
  <2>9. WellSeen'
    BY <1>1, <2>2, <2>4 DEF IInv, WellSeen, Line
  <2> QED
    BY <2>6, <2>7, <2>8, <2>9 DEF IInv
<1> QED
  BY <1>2, <1>3 DEF OpenTarget

-----------------------------------------------------------------------------
(* The dialogue. *)

LEMMA EventKeeps ==
  ASSUME IInv, NEW t \in Transfers, Event(t)
  PROVE  IInv'
<1>1. tr[t].pc = "carrier" /\ UNCHANGED <<plan, installed, active, browser>>
  BY DEF Event
<1>2. ASSUME NEW e \in Requests,
             tr' = [tr EXCEPT ![t].pc = e, ![t].events = @ + 1],
             sheets' = [Dropped(t, "next") EXCEPT ![t] = IF e = "sheet" THEN "live" ELSE @],
             UNCHANGED <<holder, faults>>
      PROVE  IInv'
  <2> DEFINE q == [tr[t] EXCEPT !.pc = e, !.events = @ + 1]
  <2>1. tr[t] \in TrState
    BY DEF IInv, Typed
  <2>2. tr[t].events + 1 \in Nat
    BY <2>1 DEF TrState
  <2>3. /\ q \in TrState /\ q.pc = e /\ q.deleted = tr[t].deleted
        /\ q.client = tr[t].client
    BY <2>1, <2>2 DEF TrState, Pcs, Requests
  <2>4. tr' = [tr EXCEPT ![t] = q]
    BY <1>2
  <2> HIDE DEF q
  <2>5. SheetMoves(t, q.pc)
    BY <1>2, <2>3 DEF SheetMoves, Dropped, IInv, Typed
  <2>6. Deletes(q) => Agreed(t)'
    BY <1>1, <2>3 DEF Deletes, Agreed, IInv, WellAgreed, Requests, Enables
  <2>7. q.pc \notin Enables /\ q.pc # "delete only"
    BY <2>3 DEF Requests, Enables
  <2> QED
    BY <1>1, <1>2, <2>3, <2>4, <2>5, <2>6, <2>7, GoesOn, SameCards, SameBrowser
<1>3. CASE Ends(t, "completed") /\ UNCHANGED faults
  BY <1>1, <1>3, EndsKeeps, SameCards, SameBrowser
<1>4. CASE Fails(t) /\ UNCHANGED faults
  BY <1>1, <1>4, GivesUp
<1>5. CASE Interrupted(t)
  BY <1>1, <1>5, Interrupts
<1> QED
  BY <1>2, <1>3, <1>4, <1>5 DEF Event

LEMMA InputKeeps ==
  ASSUME IInv, NEW t \in Transfers, Input(t) \/ Sheet(t)
  PROVE  IInv'
<1>1. UNCHANGED <<plan, installed, active, browser>>
  BY DEF Input, Sheet
<1>2. UNCHANGED faults /\ (Fails(t) \/ (Goto(t, "carrier") /\ Keeps))
  BY DEF Input, Sheet, Linked, Left, Cancelled
<1>3. CASE Fails(t)
  BY <1>1, <1>2, <1>3, GivesUp
<1>4. CASE Goto(t, "carrier") /\ Keeps
  BY <1>1, <1>2, <1>4, Passes DEF Keeps, Pcs, Enables, Thens
<1> QED
  BY <1>2, <1>3, <1>4

\* The profile arrives, and the client is closed whatever comes of it.
LEMMA DownloadKeeps ==
  ASSUME IInv, NEW t \in Transfers, Download(t)
  PROVE  IInv'
<1>1. tr[t].pc = "download" /\ UNCHANGED <<plan, active, browser>>
  BY DEF Download
<1> DEFINE closes == /\ tr' = [tr EXCEPT ![t] = [Enabling(t, Line(t), "carrier") EXCEPT !.client = FALSE]]
                     /\ holder' = Freed(t)
                     /\ UNCHANGED <<sheets, faults>>
<1>2. CASE installed' = [installed EXCEPT ![Target(t)] = @ \cup {Line(t)}] /\ (closes \/ Fault(t))
  <2>1. installed' \in [Places -> SUBSET Lines]
    BY <1>2, PlanIs DEF IInv, Typed
  <2>2. CASE Fault(t)
    <3>1. WorldOK'
      BY <1>1, <2>1, <2>2, FaultType DEF WorldOK, IInv, Typed, Fault
    <3> QED
      BY <1>1, <2>2, <3>1, FailsKeeps, SameBrowser DEF Fault
  <2>3. CASE closes
    <3> DEFINE e == Enabling(t, Line(t), "carrier")
               q == [e EXCEPT !.client = FALSE]
    <3>1. /\ e \in TrState /\ e.pc = "switch" /\ e.then = "carrier" /\ e.deleted = tr[t].deleted
      <4>1. "carrier" \in Thens
        BY DEF Thens
      <4> QED
        BY <4>1, PlanIs, EnablingIs
    <3> HIDE DEF e
    <3>2. /\ q \in TrState /\ q.pc = "switch" /\ q.then = "carrier" /\ q.deleted = tr[t].deleted
          /\ q.client = FALSE
      BY <3>1, WithoutClient
    <3>3. tr' = [tr EXCEPT ![t] = q]
      BY <2>3 DEF e
    <3> HIDE DEF q
    <3>4. Deletes(q) => Agreed(t)'
      BY <1>1, <3>2 DEF Deletes, Agreed, IInv, WellAgreed
    <3>5. sheets[t] = "none"
      BY <1>1, NoSheet
    <3>6. WorldOK'
      BY <1>1, <2>1, <2>3 DEF WorldOK, IInv, Typed
    <3> QED
      BY <1>1, <2>3, <3>2, <3>3, <3>4, <3>5, <3>6, FreedKeeps, SameBrowser DEF Thens
  <2> QED
    BY <1>2, <2>2, <2>3
<1>3. CASE Fails(t) /\ UNCHANGED <<installed, faults>>
  BY <1>1, <1>3, GivesUp
<1>4. CASE Interrupted(t) /\ UNCHANGED installed
  BY <1>1, <1>4, Interrupts
<1> QED
  BY <1>2, <1>3, <1>4 DEF Download

-----------------------------------------------------------------------------
(* The deletion. *)

\* The answer is used up.
LEMMA ConfirmKeeps ==
  ASSUME IInv, NEW t \in Transfers, Confirm(t)
  PROVE  IInv'
<1>1. /\ tr[t].pc = "deletion" /\ UNCHANGED <<plan, installed, active, faults>>
      /\ browser' = [browser EXCEPT ![t].deletion = "none"]
  BY DEF Confirm, Left, Cancelled, Keeps
<1>2. BrowserGrows
  <2>1. browser \in [Transfers -> BrState]
    BY DEF IInv, Typed
  <2> DEFINE b == [browser[t] EXCEPT !.deletion = "none"]
  <2>2. b \in BrState /\ b.deletion = "none" /\ b.saidYes = browser[t].saidYes /\ b.link = browser[t].link
    BY <2>1 DEF BrState
  <2>3. browser' = [browser EXCEPT ![t] = b]
    BY <1>1
  <2> HIDE DEF b
  <2>4. browser' \in [Transfers -> BrState] /\ browser'[t] = b
        /\ \A u \in Transfers \ {t} : browser'[u] = browser[u]
    BY <2>1, <2>2, <2>3
  <2> QED
    BY <2>2, <2>4 DEF BrowserGrows, IInv, WellAgreed
<1>3. WorldOK'
  BY <1>1, SameCards
<1>4. CASE Fails(t)
  BY <1>1, <1>2, <1>3, <1>4, FailsKeeps
<1>5. CASE Goto(t, "delete") /\ Keeps /\ (Confirmed(t) \/ Left(t))
  <2>1. Agreed(t)
    BY <1>5 DEF Confirmed, Left, Agreed, IInv, WellAgreed
  <2>2. Agreed(t)'
    BY <1>2, <2>1 DEF Agreed, BrowserGrows
  <2> QED
    BY <1>1, <1>2, <1>3, <1>5, <2>2, GotoKeeps DEF Keeps, Pcs, Enables
<1> QED
  BY <1>4, <1>5 DEF Confirm

LEMMA ListForDeleteKeeps ==
  ASSUME IInv, NEW t \in Transfers, ListForDelete(t)
  PROVE  IInv'
<1>1. /\ tr[t].pc = "delete" /\ plan[t].kind = "modem"
      /\ UNCHANGED <<plan, installed, active, browser>>
  BY DEF ListForDelete
<1>2. Agreed(t)'
  BY <1>1 DEF Agreed, IInv, WellAgreed, Deletes
<1>3. tr[t] \in TrState /\ installed[Source(t)] \in SUBSET Lines
  BY PlanIs DEF IInv, Typed
<1> DEFINE S == installed[Source(t)]
<1>4. ASSUME NEW f \in Others(t), Keeps,
             tr' = [tr EXCEPT ![t] = [Enabling(t, f, "delete checked") EXCEPT !.seen = installed[Source(t)]]]
      PROVE  IInv'
  <2> DEFINE e == Enabling(t, f, "delete checked")
             q == [e EXCEPT !.seen = S]
  <2>1. /\ e \in TrState /\ e.pc = "switch" /\ e.then = "delete checked" /\ e.client = tr[t].client
    <3>1. "delete checked" \in Thens /\ f \in Lines
      BY <1>3 DEF Thens, Others
    <3> QED
      BY <3>1, EnablingIs
  <2>2. tr' = [tr EXCEPT ![t] = q]
    BY <1>4
  <2> HIDE DEF e, S
  <2>3. q \in TrState /\ q.pc = "switch" /\ q.then = "delete checked" /\ q.client = tr[t].client
    BY <1>3, <2>1, WithSeen DEF S
  <2> HIDE DEF q
  <2> QED
    BY <1>1, <1>2, <1>4, <2>2, <2>3, Goes, SameCards, SameBrowser DEF Keeps, Thens
<1>5. CASE /\ Others(t) = {} /\ Keeps
           /\ tr' = [tr EXCEPT ![t].pc = "delete only", ![t].seen = installed[Source(t)]]
  <2> DEFINE q == [tr[t] EXCEPT !.pc = "delete only", !.seen = S]
  <2>1. /\ q \in TrState /\ q.pc = "delete only" /\ q.seen = S /\ q.client = tr[t].client
    BY <1>3 DEF TrState, Pcs
  <2>2. tr' = [tr EXCEPT ![t] = q]
    BY <1>5
  <2>3. S \subseteq {Line(t)}
    BY <1>5 DEF Others
  <2> HIDE DEF q, S
  <2> QED
    BY <1>1, <1>2, <1>5, <2>1, <2>2, <2>3, Goes, SameCards, SameBrowser DEF Keeps, Enables
<1>6. CASE Fault(t)
  BY <1>1, <1>6, Interrupts
<1> QED
  BY <1>4, <1>5, <1>6 DEF ListForDelete

\* The profile is gone; the next event may come.
LEMMA RemovedKeeps ==
  ASSUME IInv, NEW t \in Transfers, Removed(t), Agreed(t), UNCHANGED <<plan, browser>>,
         active' \in [Places -> Lines \cup {NoLine}], tr[t].pc \notin {"sheet", "carrier"}
  PROVE  IInv'
<1> DEFINE q == [tr[t] EXCEPT !.pc = "carrier", !.deleted = TRUE]
<1>1. tr[t] \in TrState
  BY DEF IInv, Typed
<1>2. q \in TrState /\ q.pc = "carrier" /\ q.client = tr[t].client
  BY <1>1 DEF TrState, Pcs, Thens
<1>3. tr' = [tr EXCEPT ![t] = q]
  BY DEF Removed
<1>4. WorldOK'
  BY PlanIs DEF Removed, Keeps, WorldOK, IInv, Typed, Others
<1>5. Agreed(t)'
  BY DEF Agreed
<1> HIDE DEF q
<1> QED
  BY <1>2, <1>3, <1>4, <1>5, Goes, SameBrowser DEF Removed, Keeps, Enables

LEMMA DeleteKeeps ==
  ASSUME IInv, NEW t \in Transfers,
         DeleteChecked(t) \/ DeleteOnly(t) \/ DeleteInReader(t) \/ DeletePhysical(t)
  PROVE  IInv'
<1>1. /\ tr[t].pc \in {"delete", "delete checked", "delete only"}
      /\ UNCHANGED <<plan, browser>>
  BY DEF DeleteChecked, DeleteOnly, DeleteInReader, DeletePhysical
<1>2. Agreed(t)
  BY <1>1 DEF IInv, WellAgreed, Deletes
<1>3. active' \in [Places -> Lines \cup {NoLine}]
  <2>1. active \in [Places -> Lines \cup {NoLine}] /\ installed \in [Places -> SUBSET Lines]
    BY DEF IInv, Typed
  <2>2. CASE DeleteChecked(t) \/ DeleteOnly(t) \/ DeletePhysical(t)
    BY <2>1, <2>2 DEF DeleteChecked, DeleteOnly, DeletePhysical
  <2>3. CASE DeleteInReader(t)
    <3>1. PICK f \in IF Others(t) = {} THEN {active[Source(t)]} ELSE Others(t) :
            LET switched == [active EXCEPT ![Source(t)] = f] IN
            active' \in {active, switched, [switched EXCEPT ![Source(t)] = IF @ = Line(t) THEN NoLine ELSE @]}
      BY <2>3 DEF DeleteInReader
    <3>2. f \in Lines \cup {NoLine}
      BY <2>1, <3>1, PlanIs DEF Others
    <3> QED
      BY <2>1, <3>1, <3>2
  <2> QED
    BY <2>2, <2>3
<1>4. CASE Removed(t)
  BY <1>1, <1>2, <1>3, <1>4, RemovedKeeps
<1>5. CASE Fails(t) /\ UNCHANGED installed /\ (Faulty \/ UNCHANGED faults)
  <2>1. WorldOK'
    BY <1>3, <1>5, FaultType DEF WorldOK, IInv, Typed
  <2> QED
    BY <1>1, <1>5, <2>1, FailsKeeps, SameBrowser
<1> QED
  <2>1. CASE DeleteChecked(t) \/ DeleteOnly(t) \/ DeletePhysical(t)
    BY <1>4, <1>5, <2>1 DEF DeleteChecked, DeleteOnly, DeletePhysical, Fault
  <2>2. CASE DeleteInReader(t)
    BY <1>4, <1>5, <2>2 DEF DeleteInReader, Fault
  <2> QED
    BY <2>1, <2>2

-----------------------------------------------------------------------------
(* The browser and the broker. *)

\* The browser does something: it takes nothing back.
LEMMA BrowserKeeps ==
  ASSUME IInv, NEW t \in Transfers, Browser(t)
  PROVE  IInv'
<1>1. PICK b \in BrState :
        /\ browser' = [browser EXCEPT ![t] = b]
        /\ browser[t].saidYes => b.saidYes
        /\ browser[t].link = "open"
        /\ b.deletion = "yes" => b.saidYes
        /\ UNCHANGED <<plan, holder, installed, active, tr, sheets, faults>>
  <2>1. browser[t] \in BrState /\ (browser[t].deletion = "yes" => browser[t].saidYes)
    BY DEF IInv, Typed, WellAgreed
  <2>2. CASE AnswerDeletion(t)
    <3>1. PICK a \in {"yes", "no"} : Sends(t, [browser[t] EXCEPT !.deletion = a, !.saidYes = @ \/ a = "yes"])
      BY <2>2 DEF AnswerDeletion
    <3> DEFINE yes == browser[t].saidYes \/ a = "yes"
               b == [browser[t] EXCEPT !.deletion = a, !.saidYes = yes]
    <3>2. yes \in BOOLEAN /\ (browser[t].saidYes => yes) /\ (a = "yes" => yes)
      OBVIOUS
    <3>3. Sends(t, b)
      BY <3>1
    <3> HIDE DEF yes
    <3>4. b \in BrState /\ b.deletion = a /\ b.saidYes = yes
      BY <2>1, <3>2 DEF BrState
    <3> HIDE DEF b
    <3> QED
      BY <3>2, <3>3, <3>4 DEF Sends
  <2>3. ASSUME NEW l \in {"cancelled", "left"}, Sends(t, [browser[t] EXCEPT !.link = l])
        PROVE  \E b \in BrState :
                 /\ browser' = [browser EXCEPT ![t] = b]
                 /\ browser[t].saidYes => b.saidYes
                 /\ browser[t].link = "open"
                 /\ b.deletion = "yes" => b.saidYes
                 /\ UNCHANGED <<plan, holder, installed, active, tr, sheets, faults>>
    <3> DEFINE b == [browser[t] EXCEPT !.link = l]
    <3>1. b \in BrState /\ b.deletion = browser[t].deletion /\ b.saidYes = browser[t].saidYes
      BY <2>1 DEF BrState
    <3>2. Sends(t, b)
      BY <2>3
    <3> HIDE DEF b
    <3> QED
      BY <2>1, <3>1, <3>2 DEF Sends
  <2> QED
    BY <2>2, <2>3 DEF Browser, Cancel, Leave
<1>2. /\ browser' \in [Transfers -> BrState] /\ browser'[t] = b
      /\ \A u \in Transfers \ {t} : browser'[u] = browser[u]
  BY <1>1 DEF IInv, Typed
<1>3. Typed'
  BY <1>1, <1>2 DEF IInv, Typed
<1>4. NothingKept' /\ WellSeen'
  BY <1>1 DEF IInv, NothingKept, WellSeen, Target, Line
<1>5. WellAgreed'
  BY <1>1, <1>2 DEF IInv, WellAgreed, Agreed, Deletes
<1> QED
  BY <1>3, <1>4, <1>5 DEF IInv

LEMMA ExpireKeeps ==
  ASSUME IInv, NEW t \in Transfers, Expire(t)
  PROVE  IInv'
<1>1. /\ sheets[t] = "live" /\ sheets' = [sheets EXCEPT ![t] = "expired"]
      /\ UNCHANGED <<plan, holder, installed, active, tr, browser, faults>>
  BY DEF Expire
<1>2. Typed'
  BY <1>1 DEF IInv, Typed
<1>3. NothingKept'
  <2>1. \A u \in Transfers : sheets'[u] # "none" => sheets[u] # "none"
    BY <1>1 DEF IInv, Typed
  <2> QED
    BY <1>1, <2>1 DEF IInv, NothingKept, Target
<1>4. WellAgreed' /\ WellSeen'
  BY <1>1 DEF IInv, WellAgreed, WellSeen, Agreed, Deletes, Line
<1> QED
  BY <1>2, <1>3, <1>4 DEF IInv

-----------------------------------------------------------------------------
LEMMA InitEstablishes == Init => IInv
<1> SUFFICES ASSUME Init PROVE IInv
  OBVIOUS
<1>1. NewTransfer \in TrState /\ NewTransfer.pc = "start" /\ ~NewTransfer.client /\ ~NewTransfer.deleted
  <2>1. 0 \in Nat /\ {} \in SUBSET Lines
    OBVIOUS
  <2> QED
    BY <2>1 DEF NewTransfer, TrState, Pcs
<1>2. NewBrowser \in BrState /\ NewBrowser.deletion = "none"
  BY DEF NewBrowser, BrState
<1>3. plan \in [Transfers -> Plan] /\ installed \in [Places -> SUBSET Lines]
  <2>1. PICK p \in Plans : plan = p.transfers /\ installed = p.cards
    BY DEF Init
  <2>2. p \in [transfers : [Transfers -> Plan], cards : [Places -> SUBSET Lines]]
    BY TransferAssumption
  <2> QED
    BY <2>1, <2>2
<1>4. faults \in 0 .. MaxFaults
  <2>1. MaxFaults \in Nat /\ faults = 0
    BY TransferAssumption DEF Init
  <2> QED
    BY <2>1, SMT
<1>5. Typed
  BY <1>1, <1>2, <1>3, <1>4 DEF Init, Typed, Enables
<1>6. NothingKept
  BY <1>1, TransferAssumption DEF Init, NothingKept
<1>7. WellAgreed /\ WellSeen
  BY <1>1, <1>2 DEF Init, WellAgreed, WellSeen, Deletes, Enables
<1> QED
  BY <1>5, <1>6, <1>7 DEF IInv

LEMMA StepKeeps ==
  ASSUME IInv, [Next]_vars
  PROVE  IInv'
<1>1. CASE UNCHANGED vars
  <2>1. UNCHANGED <<plan, holder, installed, active, tr, sheets, browser, faults>>
    BY <1>1 DEF vars
  <2>2. Typed'
    BY <2>1 DEF IInv, Typed
  <2>3. NothingKept'
    BY <2>1 DEF IInv, NothingKept, Target
  <2>4. WellAgreed' /\ WellSeen'
    BY <2>1 DEF IInv, WellAgreed, WellSeen, Agreed, Deletes, Line
  <2> QED
    BY <2>2, <2>3, <2>4 DEF IInv
<1>2. ASSUME NEW t \in Transfers, Step(t) PROVE IInv'
  <2>1. CASE Start(t) \/ ListSource(t) \/ OpenSource(t)
    BY <2>1, StartKeeps
  <2>2. CASE Activate(t) \/ OpenTarget(t)
    BY <2>2, ActivateKeeps, OpenTargetKeeps
  <2>3. CASE Switch(t) \/ Await(t) \/ Notify(t)
    BY <2>3, SwitchKeeps, AwaitKeeps
  <2>4. CASE Event(t) \/ Input(t) \/ Sheet(t) \/ Download(t)
    BY <2>4, EventKeeps, InputKeeps, DownloadKeeps
  <2>5. CASE Confirm(t) \/ ListForDelete(t)
    BY <2>5, ConfirmKeeps, ListForDeleteKeeps
  <2>6. CASE DeleteChecked(t) \/ DeleteOnly(t) \/ DeleteInReader(t) \/ DeletePhysical(t)
    BY <2>6, DeleteKeeps
  <2> QED
    BY <1>2, <2>1, <2>2, <2>3, <2>4, <2>5, <2>6 DEF Step
<1> QED
  BY <1>1, <1>2, BrowserKeeps, ExpireKeeps DEF Next

\* The inductive invariant: the types, who holds what, that every deletion on its
\* way was agreed to, and what a transfer has seen of the source it deletes from.
THEOREM Invariance == Spec => []IInv
<1>1. IInv /\ [Next]_vars => IInv'
  BY StepKeeps
<1> QED
  BY <1>1, InitEstablishes, PTL DEF Spec

\* A transfer holds the lock of its target exactly while its client is open there,
\* and the broker has its websheet only while it is at it.
THEOREM KeepsNothing == Spec => []NothingKept
<1>1. IInv => NothingKept
  BY DEF IInv
<1> QED
  BY <1>1, Invariance, PTL

\* No source profile is deleted unless somebody said yes or the browser had gone.
THEOREM KeepsSource == Spec => []SourceKept
<1>1. IInv => SourceKept
  BY DEF IInv, WellAgreed, Deletes, Agreed, SourceKept
<1> QED
  BY <1>1, Invariance, PTL

-----------------------------------------------------------------------------
(* The profile in use. *)

Leaves(p) ==
  \E t \in Transfers :
    /\ p = Source(t) /\ active[p] = Line(t)
    /\ (IF plan[t].kind = "ccid" THEN installed[p] ELSE tr[t].seen) \subseteq {Line(t)}

\* Only a deletion takes the profile in use from a place and leaves it without one.
LEMMA StepLeaves ==
  ASSUME IInv, NEW p \in Places, active[p] # NoLine, active'[p] = NoLine, Next
  PROVE  Leaves(p)
<1>1. PICK t \in Transfers : Step(t)
  BY DEF Next, Browser, AnswerDeletion, Cancel, Leave, Sends, Expire
<1>2. active \in [Places -> Lines \cup {NoLine}] /\ installed \in [Places -> SUBSET Lines]
      /\ NoLine \notin Lines
  BY TransferAssumption DEF IInv, Typed
<1>3. ASSUME NEW s \in Places, NEW l \in Lines, active' = [active EXCEPT ![s] = l] PROVE FALSE
  BY <1>2, <1>3
<1>4. CASE Switch(t)
  <2>1. PICK s \in Places : \E l \in installed[s] : active' = [active EXCEPT ![s] = l]
    BY <1>4, PlanIs DEF Switch, Fault, EnabledAt
  <2> QED
    BY <1>2, <1>3, <2>1
<1>5. CASE Activate(t)
  <2>1. active' = [active EXCEPT ![Source(t)] = Line(t)]
    BY <1>5 DEF Activate, Fault
  <2> QED
    BY <1>3, <2>1, PlanIs
<1>6. CASE DeleteOnly(t)
  <2>1. active' = [active EXCEPT ![Source(t)] = IF @ = Line(t) THEN NoLine ELSE @] /\ tr[t].pc = "delete only"
    BY <1>6 DEF DeleteOnly, Fault
  <2>2. p = Source(t) /\ active[p] = Line(t)
    BY <1>2, <2>1
  <2>3. plan[t].kind = "modem" /\ tr[t].seen \subseteq {Line(t)}
    BY <2>1 DEF IInv, WellSeen
  <2> QED
    BY <2>2, <2>3 DEF Leaves
<1>7. CASE DeleteChecked(t)
  BY <1>2, <1>7 DEF DeleteChecked, Fault, InUse
<1>8. CASE DeleteInReader(t)
  <2>1. PICK f \in IF Others(t) = {} THEN {active[Source(t)]} ELSE Others(t) :
          LET switched == [active EXCEPT ![Source(t)] = f] IN
          active' \in {active, switched, [switched EXCEPT ![Source(t)] = IF @ = Line(t) THEN NoLine ELSE @]}
    BY <1>8 DEF DeleteInReader
  <2>2. plan[t].kind = "ccid"
    BY <1>8 DEF DeleteInReader
  <2>3. Others(t) = {}
    <3> SUFFICES ASSUME Others(t) # {} PROVE FALSE
      OBVIOUS
    <3>1. f \in Lines /\ f # Line(t)
      BY <1>2, <2>1, PlanIs DEF Others
    <3>2. active' \in {active, [active EXCEPT ![Source(t)] = f]}
      BY <1>2, <2>1, <3>1, PlanIs
    <3> QED
      BY <1>2, <3>1, <3>2
  <2>4. p = Source(t) /\ active[p] = Line(t)
    BY <1>2, <2>1, <2>3
  <2> QED
    BY <2>2, <2>3, <2>4 DEF Leaves, Others
<1> QED
  BY <1>1, <1>4, <1>5, <1>6, <1>7, <1>8
     DEF Step, Start, ListSource, OpenSource, OpenTarget, Await, Notify, Event, Input, Sheet, Download,
         Confirm, ListForDelete, DeletePhysical

\* A source loses its profile in use only to its own transfer, when that one found
\* no other profile there.
THEOREM LosesOnlyTheLast == Spec => LeavesActive
<1>1. IInv /\ [Next]_vars => [\A p \in Places : active[p] # NoLine /\ active'[p] = NoLine =>
        \E t \in Transfers :
          /\ p = Source(t) /\ active[p] = Line(t)
          /\ (IF plan[t].kind = "ccid" THEN installed[p] ELSE tr[t].seen) \subseteq {Line(t)}]_vars
  BY StepLeaves DEF Leaves
<1> QED
  BY <1>1, Invariance, PTL DEF Spec, LeavesActive

=============================================================================
