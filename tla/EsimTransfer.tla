---------------------------- MODULE EsimTransfer ----------------------------
(***************************************************************************)
(* Quick transfer of a line from one eUICC or SIM to another               *)
(* (pro/esimtransfer), with the websheets it opens (pro/websheet).         *)
(*                                                                         *)
(* A transfer makes its line the active one of the source, opens the       *)
(* source, opens an LPA client of the target, which it keeps during the    *)
(* dialogue with the carrier, and does what the carrier asks: a question   *)
(* or a websheet for the browser, the deletion of the source profile, the  *)
(* download. Transfers meet at the places they share.                      *)
(*                                                                         *)
(* External are the carrier, which asks for anything in any order, the     *)
(* browser, the eUICCs and the wait for a SIM, which EsimProfiles and      *)
(* SimRefresh describe; what they do under a lock is one step here.        *)
(***************************************************************************)
EXTENDS Naturals, FiniteSets

CONSTANTS
  Transfers, \* the open transfer dialogues
  Places,    \* the modems and card readers
  Lines,     \* the profiles
  NoLine,    \* no profile is active
  Nobody,    \* nobody holds the lock of a place
  Plans,     \* bound: the transfers wanted (kind of source, source, target and line of each)
             \* and the cards they start with
  MaxEvents, \* bound: requests of the carrier in each transfer
  Browsers,  \* bound: what each browser may do
  MaxFaults  \* bound: calls that fail

Kinds == {"modem", "ccid", "physical"}
Plan  == [kind : Kinds, source : Places, target : Places, line : Lines]

ASSUME TransferAssumption ==
  /\ NoLine \notin Lines /\ Nobody \notin Transfers
  /\ Plans \subseteq [transfers : [Transfers -> Plan], cards : [Places -> SUBSET Lines]]
  /\ MaxEvents \in [Transfers -> Nat] /\ MaxFaults \in Nat

VARIABLES
  plan,      \* of each transfer: kind of source, source, target and line
  holder,    \* gmu: who has the lock of a place
  installed, \* the profiles of each place
  active,    \* the one in use
  tr,        \* the transfers
  sheets,    \* the broker: the websheet of each transfer
  browser,   \* the browser and what it has sent
  faults     \* calls that failed

vars == <<plan, holder, installed, active, tr, sheets, browser, faults>>

\* `line`, `then` and `seen` belong to enabling a profile and to the deletion:
\* the profile to enable, what follows, and the profiles that were listed.
\* `client` says that targetLPA is open.
NewTransfer == [pc |-> "start", line |-> NoLine, then |-> "none", seen |-> {}, client |-> FALSE,
                events |-> 0, deleted |-> FALSE]

\* `link`: the connection is there, or the transfer was cancelled through it, or
\* it broke; after a cancel it does not matter. `deletion` is what deleteCh holds.
NewBrowser == [link |-> "open", deletion |-> "none", saidYes |-> FALSE]

Source(t) == plan[t].source
Target(t) == plan[t].target
Line(t)   == plan[t].line
Over(t)   == tr[t].pc \in {"completed", "error"}

Free(p)      == holder[p] = Nobody
Faulty       == faults < MaxFaults /\ faults' = faults + 1
Linked(t)    == browser[t].link = "open" /\ UNCHANGED faults
Cancelled(t) == browser[t].link = "cancelled" /\ UNCHANGED faults
Left(t)      == browser[t].link = "left" /\ UNCHANGED faults
Goto(t, pc)  == tr' = [tr EXCEPT ![t].pc = pc]

-----------------------------------------------------------------------------
(* Locks, websheets and the end of a transfer. *)

\* CloseTarget, which runs after a download and again at the end.
Freed(t) == IF tr[t].client THEN [holder EXCEPT ![Target(t)] = Nobody] ELSE holder

\* Mutant of Dropped: the websheet is removed when the carrier has gone on.
DroppedOnce(t, how) == IF how = "error" THEN sheets ELSE [sheets EXCEPT ![t] = "none"]

\* The deferred Broker.Delete, when handleWebsheet returns.
Dropped(t, how) == [sheets EXCEPT ![t] = "none"]

\* The end of Serve, with the deferred active.Close.
Ends(t, how) ==
  /\ tr' = [tr EXCEPT ![t] = [NewTransfer EXCEPT !.pc = how, !.deleted = tr[t].deleted]]
  /\ holder' = Freed(t)
  /\ sheets' = Dropped(t, how)

Fails(t) == Ends(t, "error")

\* A call fails, or it is given up because the transfer was cancelled.
Fault(t)       == Faulty /\ Fails(t)
Interrupted(t) == (Faulty \/ Cancelled(t)) /\ Fails(t)

\* A step that goes on.
Keeps == UNCHANGED <<holder, sheets, faults>>

-----------------------------------------------------------------------------
(* Enabling a profile, by the eSIM handler. *)

\* tr[t] with a profile to enable and what comes after.
Enabling(t, l, then) == [tr[t] EXCEPT !.pc = "switch", !.line = l, !.then = then]

EnabledAt(t) == IF tr[t].then = "carrier" THEN Target(t) ELSE Source(t)

\* From PrepareEnable to the close of its client, under the lock.
Switch(t) ==
  /\ tr[t].pc = "switch"
  /\ Free(EnabledAt(t))
  /\ LET p == EnabledAt(t) l == tr[t].line IN
     \/ l = active[p] /\ Goto(t, tr[t].then) /\ Keeps /\ UNCHANGED active
     \/ /\ l \in installed[p] /\ l # active[p]
        /\ active' = [active EXCEPT ![p] = l]
        /\ Goto(t, "await") /\ Keeps
     \/ l \notin installed[p] /\ Fails(t) /\ UNCHANGED <<active, faults>>
     \/ Fault(t) /\ UNCHANGED active
  /\ UNCHANGED <<plan, installed, browser>>

\* EnsureSIMVisible, then a second client for the notifications.
Await(t) ==
  /\ tr[t].pc = "await"
  /\ \/ Goto(t, "notify") /\ Keeps
     \/ Interrupted(t)
  /\ UNCHANGED <<plan, installed, active, browser>>

Notify(t) ==
  /\ tr[t].pc = "notify" /\ Free(EnabledAt(t))
  /\ Goto(t, tr[t].then) /\ Keeps
  /\ UNCHANGED <<plan, installed, active, browser>>

-----------------------------------------------------------------------------
(* From the start to the dialogue with the carrier. *)

\* Mutant of Refused: the target may be its own source.
RefusedNever(t) == FALSE

\* validateTarget.
Refused(t) == plan[t].kind = "modem" /\ Source(t) = Target(t)

\* waitForStart, validateStart.
Start(t) ==
  /\ tr[t].pc = "start"
  /\ \/ Linked(t) /\ ~Refused(t) /\ Goto(t, "list") /\ Keeps
     \/ Linked(t) /\ Refused(t) /\ Fails(t)
     \/ (Left(t) \/ Cancelled(t)) /\ Fails(t)
  /\ UNCHANGED <<plan, installed, active, browser>>

\* sourceProfileOptions and findSourceProfileOption; a physical SIM has no lock.
ListSource(t) ==
  /\ tr[t].pc = "list" /\ Free(Source(t))
  /\ \/ /\ (plan[t].kind = "physical" \/ Line(t) \in installed[Source(t)])
        /\ Goto(t, IF plan[t].kind = "physical" THEN "open" ELSE "activate") /\ Keeps
     \/ /\ plan[t].kind # "physical" /\ Line(t) \notin installed[Source(t)]
        /\ Fails(t) /\ UNCHANGED faults
     \/ Fault(t)
  /\ UNCHANGED <<plan, installed, active, browser>>

\* activateSourceProfile: a reader has no modem to wait for.
Activate(t) ==
  /\ tr[t].pc = "activate"
  /\ IF plan[t].kind = "modem"
     THEN tr' = [tr EXCEPT ![t] = Enabling(t, Line(t), "open")] /\ Keeps /\ UNCHANGED active
     ELSE /\ Free(Source(t))
          /\ \/ /\ Line(t) \in installed[Source(t)]
                /\ active' = [active EXCEPT ![Source(t)] = Line(t)]
                /\ Goto(t, "open") /\ Keeps
             \/ Line(t) \notin installed[Source(t)] /\ Fails(t) /\ UNCHANGED <<active, faults>>
             \/ Fault(t) /\ UNCHANGED active
  /\ UNCHANGED <<plan, installed, browser>>

\* openSource, without the lock of the source.
OpenSource(t) ==
  /\ tr[t].pc = "open"
  /\ \/ Goto(t, "target") /\ Keeps
     \/ Interrupted(t)
  /\ UNCHANGED <<plan, installed, active, browser>>

\* ResolveSE and NewWithAID; the lock is kept until CloseTarget. What follows in
\* prepare may fail, and Transfer is called.
OpenTarget(t) ==
  /\ tr[t].pc = "target" /\ Free(Target(t))
  /\ \/ /\ holder' = [holder EXCEPT ![Target(t)] = t]
        /\ tr' = [tr EXCEPT ![t].pc = "carrier", ![t].client = TRUE]
        /\ UNCHANGED <<sheets, faults>>
     \/ Interrupted(t)
  /\ UNCHANGED <<plan, installed, active, browser>>

-----------------------------------------------------------------------------
(* The dialogue. *)

Requests == {"input", "sheet", "deletion", "download"}

\* Transfer, Continue and CompleteActivation return the next event: a request,
\* an end (DoneEvent, ActivationPendingEvent), a refusal (DismissEvent) or an error.
Event(t) ==
  /\ tr[t].pc = "carrier"
  /\ \/ /\ tr[t].events < MaxEvents[t]
        /\ \E e \in Requests :
             /\ tr' = [tr EXCEPT ![t].pc = e, ![t].events = @ + 1]
             /\ sheets' = [Dropped(t, "next") EXCEPT ![t] = IF e = "sheet" THEN "live" ELSE @]
        /\ UNCHANGED <<holder, faults>>
     \/ Ends(t, "completed") /\ UNCHANGED faults
     \/ Fails(t) /\ UNCHANGED faults
     \/ Interrupted(t)
  /\ UNCHANGED <<plan, installed, active, browser>>

\* userInput: when the browser has gone the carrier is told to continue without
\* an answer, unless the prompt could not be written.
Input(t) ==
  /\ tr[t].pc = "input"
  /\ \/ (Linked(t) \/ Left(t)) /\ Goto(t, "carrier") /\ Keeps
     \/ (Left(t) \/ Cancelled(t)) /\ Fails(t)
  /\ UNCHANGED <<plan, installed, active, browser>>

\* WaitCallback does not see that the browser has gone. The browser calls back, or
\* says that it is done, as long as the broker finds the sheet; a callback that
\* is not known, and a cancel, end the transfer.
Sheet(t) ==
  /\ tr[t].pc = "sheet"
  /\ \/ Linked(t) /\ sheets[t] = "live" /\ Goto(t, "carrier") /\ Keeps
     \/ Linked(t) /\ sheets[t] = "live" /\ Fails(t)
     \/ Cancelled(t) /\ Fails(t)
  /\ UNCHANGED <<plan, installed, active, browser>>

\* downloadAndCompleteActivation: the client is closed, whatever the outcome, so
\* that the profile can be enabled; a profile may be there though its
\* notification could not be sent.
Download(t) ==
  /\ tr[t].pc = "download"
  /\ \/ /\ tr[t].client
        /\ installed' = [installed EXCEPT ![Target(t)] = @ \cup {Line(t)}]
        /\ \/ /\ tr' = [tr EXCEPT ![t] = [Enabling(t, Line(t), "carrier") EXCEPT !.client = FALSE]]
              /\ holder' = Freed(t)
              /\ UNCHANGED <<sheets, faults>>
           \/ Fault(t)
     \/ ~tr[t].client /\ Fails(t) /\ UNCHANGED <<installed, faults>>
     \/ Interrupted(t) /\ UNCHANGED installed
  /\ UNCHANGED <<plan, active, browser>>

-----------------------------------------------------------------------------
(* The deletion of the source profile. *)

\* Mutant of Confirmed: the answer is not looked at.
ConfirmedAnyway(t) == browser[t].deletion # "none"

Confirmed(t) == browser[t].deletion = "yes"

\* confirmSourceDeletion and source.Close. When the wait ends because the browser
\* has gone, ctx.Err() is nil and the deletion goes on.
Confirm(t) ==
  /\ tr[t].pc = "deletion"
  /\ \/ Confirmed(t) /\ Goto(t, "delete") /\ Keeps
     \/ Left(t) /\ Goto(t, "delete") /\ Keeps
     \/ Left(t) /\ Fails(t)
     \/ browser[t].deletion # "none" /\ ~Confirmed(t) /\ Fails(t) /\ UNCHANGED faults
     \/ Cancelled(t) /\ Fails(t)
  /\ browser' = [browser EXCEPT ![t].deletion = "none"]
  /\ UNCHANGED <<plan, installed, active>>

\* The profiles of the source that are not the line itself.
Others(t) == installed[Source(t)] \ {Line(t)}

\* deleteModemSourceProfile up to the choice of a fallback.
ListForDelete(t) ==
  /\ tr[t].pc = "delete" /\ plan[t].kind = "modem" /\ Free(Source(t))
  /\ \/ \E f \in Others(t) :
          /\ tr' = [tr EXCEPT ![t] = [Enabling(t, f, "delete checked")
                                      EXCEPT !.seen = installed[Source(t)]]]
          /\ Keeps
     \/ /\ Others(t) = {} /\ Keeps
        /\ tr' = [tr EXCEPT ![t].pc = "delete only", ![t].seen = installed[Source(t)]]
     \/ Fault(t)
  /\ UNCHANGED <<plan, installed, active, browser>>

\* The profile goes, then the carrier is told.
Removed(t) ==
  /\ installed' = [installed EXCEPT ![Source(t)] = Others(t)]
  /\ tr' = [tr EXCEPT ![t].pc = "carrier", ![t].deleted = TRUE]
  /\ Keeps

\* Mutant of InUse: the eSIM handler does not look at the state of the profile.
InUseIgnored(t) == FALSE

\* lifecycle.Delete, after the fallback was enabled.
InUse(t) == active[Source(t)] = Line(t)

DeleteChecked(t) ==
  /\ tr[t].pc = "delete checked" /\ Free(Source(t))
  /\ \/ /\ ~InUse(t) /\ Line(t) \in installed[Source(t)] /\ Removed(t)
        /\ active' = [active EXCEPT ![Source(t)] = IF @ = Line(t) THEN NoLine ELSE @]
     \/ /\ (InUse(t) \/ Line(t) \notin installed[Source(t)])
        /\ Fails(t) /\ UNCHANGED <<installed, active, faults>>
     \/ Fault(t) /\ UNCHANGED <<installed, active>>
  /\ UNCHANGED <<plan, browser>>

\* LPA.Delete without a check: the line was the only profile.
DeleteOnly(t) ==
  /\ tr[t].pc = "delete only" /\ Free(Source(t))
  /\ \/ /\ Line(t) \in installed[Source(t)] /\ Removed(t)
        /\ active' = [active EXCEPT ![Source(t)] = IF @ = Line(t) THEN NoLine ELSE @]
     \/ Line(t) \notin installed[Source(t)] /\ Fails(t) /\ UNCHANGED <<installed, active, faults>>
     \/ Fault(t) /\ UNCHANGED <<installed, active>>
  /\ UNCHANGED <<plan, browser>>

\* deleteCCIDSourceProfile, all under one lock: the fallback, then the deletion.
DeleteInReader(t) ==
  /\ tr[t].pc = "delete" /\ plan[t].kind = "ccid" /\ Free(Source(t))
  /\ \E f \in IF Others(t) = {} THEN {active[Source(t)]} ELSE Others(t) :
       LET switched == [active EXCEPT ![Source(t)] = f] IN
       \/ /\ Line(t) \in installed[Source(t)] /\ Removed(t)
          /\ active' = [switched EXCEPT ![Source(t)] = IF @ = Line(t) THEN NoLine ELSE @]
       \/ /\ Line(t) \notin installed[Source(t)]
          /\ Fails(t) /\ active' = switched /\ UNCHANGED <<installed, faults>>
       \/ Fault(t) /\ active' \in {active, switched} /\ UNCHANGED installed
  /\ UNCHANGED <<plan, browser>>

\* errPhysicalSourceDeletion.
DeletePhysical(t) ==
  /\ tr[t].pc = "delete" /\ plan[t].kind = "physical"
  /\ Fails(t)
  /\ UNCHANGED <<plan, installed, active, browser, faults>>

-----------------------------------------------------------------------------
(* The browser. *)

Sends(t, b) ==
  /\ browser[t].link = "open" /\ ~Over(t)
  /\ browser' = [browser EXCEPT ![t] = b]
  /\ UNCHANGED <<plan, holder, installed, active, tr, sheets, faults>>

\* readLoop: the latest answer counts, also one that comes before its question.
AnswerDeletion(t) ==
  /\ tr[t].pc # "start" /\ "answer" \in Browsers[t]
  /\ \E a \in {"yes", "no"} :
       Sends(t, [browser[t] EXCEPT !.deletion = a, !.saidYes = @ \/ a = "yes"])

Cancel(t) == "cancel" \in Browsers[t] /\ Sends(t, [browser[t] EXCEPT !.link = "cancelled"])
Leave(t)  == "leave" \in Browsers[t] /\ Sends(t, [browser[t] EXCEPT !.link = "left"])

\* Get no longer finds the sheet.
Expire(t) ==
  /\ sheets[t] = "live"
  /\ sheets' = [sheets EXCEPT ![t] = "expired"]
  /\ UNCHANGED <<plan, holder, installed, active, tr, browser, faults>>

\* What a browser that is still there does about a question.
Reacts(t) == (tr[t].pc = "deletion" /\ AnswerDeletion(t)) \/ Leave(t) \/ Cancel(t)

-----------------------------------------------------------------------------
Init ==
  /\ \E p \in Plans : plan = p.transfers /\ installed = p.cards
  /\ active \in {a \in [Places -> Lines \cup {NoLine}] :
                   \A p \in Places : IF installed[p] = {} THEN a[p] = NoLine ELSE a[p] \in installed[p]}
  /\ holder = [p \in Places |-> Nobody]
  /\ tr = [t \in Transfers |-> NewTransfer]
  /\ sheets = [t \in Transfers |-> "none"]
  /\ browser = [t \in Transfers |-> NewBrowser]
  /\ faults = 0

Step(t) ==
  \/ Start(t) \/ ListSource(t) \/ Activate(t) \/ OpenSource(t) \/ OpenTarget(t)
  \/ Switch(t) \/ Await(t) \/ Notify(t)
  \/ Event(t) \/ Input(t) \/ Sheet(t) \/ Download(t)
  \/ Confirm(t) \/ ListForDelete(t) \/ DeleteChecked(t) \/ DeleteOnly(t) \/ DeleteInReader(t)
  \/ DeletePhysical(t)

Browser(t) == AnswerDeletion(t) \/ Cancel(t) \/ Leave(t)

Next == \E t \in Transfers : Step(t) \/ Browser(t) \/ Expire(t)

Spec == Init /\ [][Next]_vars

\* The server's own steps happen, the carrier and the cards answer within their
\* timeouts, and a browser that is shown something reacts in the end.
FairSpec == Spec /\ \A t \in Transfers : WF_vars(Step(t)) /\ WF_vars(Reacts(t))

-----------------------------------------------------------------------------
\* No source profile is deleted against its owner: someone said yes to the
\* deletion, or the browser had gone by then (ws_prompts.go, confirmSourceDeletion).
SourceKept ==
  \A t \in Transfers : tr[t].deleted => browser[t].saidYes \/ browser[t].link = "left"

\* A transfer keeps nothing it is past: the lock of its target is its own exactly
\* while its client there is open, so that the second CloseTarget, at the end,
\* takes it from nobody (runner.go, CloseTarget and Close), and the broker has its
\* websheet only while it is at it (websheet.go, handleWebsheet).
NothingKept ==
  \A t \in Transfers :
    /\ \A p \in Places : holder[p] = t <=> tr[t].client /\ p = Target(t)
    /\ sheets[t] # "none" => tr[t].pc \in {"sheet", "carrier"}

\* A source loses the profile in use only to its own transfer, when that one found
\* no other profile there, however two transfers from one source overlap
\* (source.go, deleteModemSourceProfile and deleteCCIDSourceProfile).
LeavesActive ==
  [][\A p \in Places : active[p] # NoLine /\ active'[p] = NoLine =>
       \E t \in Transfers :
         /\ p = Source(t) /\ active[p] = Line(t)
         /\ (IF plan[t].kind = "ccid" THEN installed[p] ELSE tr[t].seen) \subseteq {Line(t)}]_vars

\* The browser left, or the websheet expired, and nobody can answer it any more.
Abandoned(t) ==
  /\ tr[t].pc = "sheet" /\ browser[t].link # "cancelled"
  /\ browser[t].link = "left" \/ sheets[t] = "expired"

\* The place whose lock the next step of a transfer waits for, and who has it.
WaitsAt(t) ==
  CASE tr[t].pc \in {"switch", "notify"} -> {EnabledAt(t)}
    [] tr[t].pc \in {"list", "delete checked", "delete only"} -> {Source(t)}
    [] tr[t].pc = "delete" /\ plan[t].kind # "physical" -> {Source(t)}
    [] tr[t].pc = "activate" /\ plan[t].kind # "modem" -> {Source(t)}
    [] tr[t].pc = "target" -> {Target(t)}
    [] OTHER -> {}

WaitsFor(t) == {holder[p] : p \in WaitsAt(t)} \ {Nobody}

\* A transfer is held up in a group of transfers that are abandoned or wait for
\* another one of the group: behind an abandoned one, or in a circle, as two do
\* that cross, each with the lock of its target, which is the other's source.
HeldUp(t) ==
  \E group \in SUBSET Transfers :
    /\ t \in group
    /\ \A u \in group : Abandoned(u) \/ \E v \in group \ {u} : v \in WaitsFor(u)

\* Every transfer ends, so that the eSIM requests of its target may go on, or it is
\* held up for good by an abandoned websheet, its own or that of the transfer it
\* waits for, or by transfers that cross and wait for each other's locks, which the
\* code does not prevent; nothing else stops it, and no transfer waits for itself
\* (runner.go, run; websheet.go, WaitCallback; source.go, deleteSourceProfile).
TransfersEnd == \A t \in Transfers : <>[](Over(t) \/ HeldUp(t))
=============================================================================
