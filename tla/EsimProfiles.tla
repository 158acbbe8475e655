---------------------------- MODULE EsimProfiles ----------------------------
(***************************************************************************)
(* The eSIM requests of one modem (internal/app/handler/esim) and the      *)
(* eUICC they share: enabling, deleting and downloading a profile, and the *)
(* requests that only read. Each works through an LPA client, which holds  *)
(* the modem's lock (internal/pkg/lpa, gmu); to enable a profile takes two *)
(* clients with the wait of SimRefresh between them. Beside them, without  *)
(* that lock, a request may change the SIM's phone number (MSISDN, in      *)
(* internal/app/handler/modem), which restarts the SIM.                    *)
(*                                                                         *)
(* External are the eUICC with its list of notifications, numbered in the  *)
(* order they are raised, the servers they are sent to, the connector's    *)
(* Restore, and the browser that answers a download. A step is one call of *)
(* the eUICC, a server or the lock.                                        *)
(*                                                                         *)
(* Abstractions: one secure element; the prompt for a confirmation code,   *)
(* which is answered like the prompt to confirm, is left out.              *)
(***************************************************************************)
EXTENDS SimRefresh, FiniteSetsExt

CONSTANTS
  Nobody,   \* nobody holds the lock
  KindsOf,  \* bound: what each request may ask for
  Alone,    \* bound: what is asked for only while nothing else is
  Answers   \* bound: how many answers a browser sends

Kinds == {"enable", "delete", "download", "read", "number"}

ASSUME EsimAssumption ==
  Nobody \notin Calls /\ KindsOf \in [Calls -> SUBSET Kinds] /\ Answers \in Nat

VARIABLES
  holder,    \* gmu: who has the modem's lock
  open,      \* the requests whose LPA client is open
  req,       \* the requests, with the browser of a download
  installed, \* the profiles on the eUICC
  notes,     \* its notifications: the pending ones, the last number
  tried      \* notifications that were handed to their server

Requests == Calls
esimVars == <<holder, open, req, installed, notes, tried>>
vars     == <<simVars, esimVars>>

\* `raised` is the notification of the request's own change; `confirm` is what
\* confirmCh holds, `first` the first answer of the browser, `sent` how many.
NoReq == [kind |-> "none", pc |-> "idle", profile |-> NoSim, at |-> 0, lastSeq |-> 0, todo |-> {},
          raised |-> 0, first |-> "none", confirm |-> "none", sent |-> 0, cancelled |-> FALSE,
          left |-> FALSE]

Over(r) == req[r].pc \in {"done", "error"}

Goto(r, pc) == req' = [req EXCEPT ![r].pc = pc]

\* The eUICC makes a change of the request and raises a notification.
Changed(r, pc) ==
  /\ notes' = [pending |-> notes.pending \cup {notes.last + 1}, last |-> notes.last + 1]
  /\ req' = [req EXCEPT ![r].raised = notes.last + 1, ![r].pc = pc]

-----------------------------------------------------------------------------
(* The lock and the client. *)

\* Mutant of Close: the lock is given back by every Close of a session.
CloseAgain(r) == open' = open \ {r} /\ holder' = Nobody

\* LPA.Close and enableSession.Close, which a request calls up to three times.
Close(r) ==
  /\ open' = open \ {r}
  /\ holder' = IF r \in open THEN Nobody ELSE holder

\* The request is over, well or not: its deferred Close.
Ends(r, how) ==
  /\ req' = [req EXCEPT ![r] = [NoReq EXCEPT !.pc = how]]
  /\ Close(r)

\* ResolveSE, under the lock; for enabling it is where the request begins.
Resolve(r) ==
  /\ req[r].pc \in {"resolve", "resolve again"} /\ holder = Nobody
  /\ Goto(r, IF req[r].pc = "resolve" THEN "open" ELSE "open again")
  /\ UNCHANGED <<simVars, holder, open, installed, notes, tried>>

\* NewWithAID. The second client of an enable request is not needed for it to
\* succeed: its notifications are sent if they can be.
Open(r) ==
  /\ req[r].pc \in {"open", "open again"} /\ holder = Nobody
  /\ LET first == req[r].pc = "open" IN
     \/ /\ holder' = r /\ open' = open \cup {r}
        /\ Goto(r, IF ~first THEN "notifications"
                   ELSE IF req[r].kind = "download" THEN "ask" ELSE "list")
        /\ UNCHANGED faults
     \/ Faulty /\ Ends(r, IF first THEN "error" ELSE "done")
  /\ UNCHANGED <<mm, card, call, reg, installed, notes, tried>>

-----------------------------------------------------------------------------
(* Enable. *)

\* Mutant of LastSeen: the first notification after the list is taken for old.
LastSeenAndNext(s) == Max(s \cup {0}) + 1

LastSeen(s) == Max(s \cup {0})

\* PrepareEnable: the profiles, then the notifications.
Prepare(r) ==
  /\ req[r].kind = "enable" /\ req[r].pc = "list"
  /\ LET p == req[r].profile IN
     \/ p \notin installed /\ Ends(r, "error") /\ UNCHANGED faults
     \/ p = card.profile /\ Ends(r, "done") /\ UNCHANGED faults
     \/ /\ p \in installed \ {card.profile}
        /\ req' = [req EXCEPT ![r].lastSeq = LastSeen(notes.pending), ![r].pc = "restore"]
        /\ UNCHANGED <<holder, open, faults>>
     \/ Faulty /\ Ends(r, "error")
  /\ UNCHANGED <<mm, card, call, reg, installed, notes, tried>>

\* restoreInternetBeforeProfileEnable.
RestoreInternet(r) ==
  /\ req[r].pc = "restore"
  /\ \/ Goto(r, "switch") /\ UNCHANGED <<holder, open, faults>>
     \/ Faulty /\ Ends(r, "error")
  /\ UNCHANGED <<mm, card, call, reg, installed, notes, tried>>

\* EnableProfile, with a refresh of the card.
Switch(r) ==
  /\ req[r].pc = "switch"
  /\ \/ /\ card' \in [profile : {req[r].profile}, ready : BOOLEAN]
        /\ Changed(r, "close")
        /\ UNCHANGED <<holder, open, faults>>
     \/ Faulty /\ Ends(r, "error") /\ UNCHANGED <<card, notes>>
  /\ UNCHANGED <<mm, call, reg, installed, tried>>

\* The client is closed, so that ModemManager can read the SIM; then the wait.
AwaitSim(r) ==
  /\ req[r].pc = "close"
  /\ Close(r)
  /\ Ensure(r, req[r].profile, req[r].at)
  /\ Goto(r, "await")
  /\ UNCHANGED <<mm, card, reg, faults, installed, notes, tried>>

Awaited(r) ==
  /\ req[r].pc = "await"
  /\ \/ call[r].pc = "shown" /\ Goto(r, "resolve again") /\ UNCHANGED <<holder, open>>
     \/ call[r].pc = "back" /\ Ends(r, "done")
     \/ call[r].pc = "failed" /\ Ends(r, "error")
  /\ Returns(r)
  /\ UNCHANGED <<mm, card, faults, installed, notes, tried>>

\* sendPendingNotifications.
ListNotifications(r) ==
  /\ req[r].pc = "notifications"
  /\ \/ /\ req' = [req EXCEPT ![r].todo = {n \in notes.pending : n > req[r].lastSeq}, ![r].pc = "send"]
        /\ UNCHANGED <<holder, open, faults>>
     \/ Faulty /\ Ends(r, "done")
  /\ UNCHANGED <<mm, card, call, reg, installed, notes, tried>>

\* SendNotification(n, true): removed also when its server could not be reached.
SendOne(r) ==
  /\ req[r].pc = "send"
  /\ \/ \E n \in req[r].todo :
          /\ req' = [req EXCEPT ![r].todo = @ \ {n}]
          /\ tried' = tried \cup {n}
          /\ notes' = [notes EXCEPT !.pending = @ \ {n}]
          /\ UNCHANGED <<holder, open>>
     \/ req[r].todo = {} /\ Ends(r, "done") /\ UNCHANGED <<notes, tried>>
  /\ UNCHANGED <<simVars, installed>>

-----------------------------------------------------------------------------
(* Delete, and requests that only read. *)

Checked(p) == p # card.profile

\* The check of lifecycle.Delete.
CheckDelete(r) ==
  /\ req[r].kind = "delete" /\ req[r].pc = "list"
  /\ \/ Checked(req[r].profile) /\ Goto(r, "delete") /\ UNCHANGED <<holder, open, faults>>
     \/ ~Checked(req[r].profile) /\ Ends(r, "error") /\ UNCHANGED faults
     \/ Faulty /\ Ends(r, "error")
  /\ UNCHANGED <<mm, card, call, reg, installed, notes, tried>>

\* LPA.Delete up to DeleteProfile, which the eUICC refuses for what is not there.
DeleteProfile(r) ==
  /\ req[r].pc = "delete"
  /\ \/ /\ req[r].profile \in installed
        /\ installed' = installed \ {req[r].profile}
        /\ Changed(r, "report")
        /\ UNCHANGED <<holder, open, faults>>
     \/ /\ req[r].profile \notin installed
        /\ Ends(r, "error") /\ UNCHANGED <<installed, notes, faults>>
     \/ Faulty /\ Ends(r, "error") /\ UNCHANGED <<installed, notes>>
  /\ UNCHANGED <<mm, card, call, reg, tried>>

\* The notification of a deletion or a download is sent and stays in the list.
Report(r) ==
  /\ req[r].pc = "report"
  /\ \/ tried' = tried \cup {req[r].raised} /\ Ends(r, "done") /\ UNCHANGED faults
     \/ Faulty /\ Ends(r, "error") /\ tried' \in {tried, tried \cup {req[r].raised}}
  /\ UNCHANGED <<mm, card, call, reg, installed, notes>>

Reads(r) ==
  /\ req[r].kind = "read" /\ req[r].pc = "list"
  /\ Ends(r, "done")
  /\ UNCHANGED <<simVars, installed, notes, tried>>

-----------------------------------------------------------------------------
(* Download: the browser's answers come when they like. *)

Listening(r) == req[r].kind = "download" /\ ~Over(r) /\ ~req[r].left

\* Mutant of Kept: the latest answer replaces the one that was not asked for yet.
KeptLatest(old, new) == new

\* readLoop: confirmCh has room for one answer, a further one is dropped.
Kept(old, new) == IF old = "none" THEN new ELSE old

BrowserAnswers(r) ==
  /\ Listening(r) /\ req[r].sent < Answers
  /\ \E a \in {"yes", "no"} :
       req' = [req EXCEPT ![r].first = IF @ = "none" THEN a ELSE @,
                                  ![r].confirm = Kept(@, a),
                                  ![r].sent = @ + 1]
  /\ UNCHANGED <<simVars, holder, open, installed, notes, tried>>

BrowserCancels(r) ==
  /\ Listening(r) /\ ~req[r].cancelled
  /\ req' = [req EXCEPT ![r].cancelled = TRUE]
  /\ UNCHANGED <<simVars, holder, open, installed, notes, tried>>

BrowserLeaves(r) ==
  /\ Listening(r)
  /\ req' = [req EXCEPT ![r].left = TRUE]
  /\ UNCHANGED <<simVars, holder, open, installed, notes, tried>>

\* The preview goes out; it is not confirmed when that fails.
Ask(r) ==
  /\ req[r].pc = "ask"
  /\ \/ Goto(r, "confirm") /\ UNCHANGED <<holder, open, faults>>
     \/ (req[r].left \/ req[r].cancelled) /\ Ends(r, "error") /\ UNCHANGED faults
     \/ Faulty /\ Ends(r, "error")
  /\ UNCHANGED <<mm, card, call, reg, installed, notes, tried>>

\* waitForConfirm: an answer that is there counts before anything else.
Confirmed(r) ==
  /\ req[r].pc = "confirm"
  /\ \/ /\ req[r].confirm = "yes"
        /\ req' = [req EXCEPT ![r].confirm = "none", ![r].pc = "install"]
        /\ UNCHANGED <<holder, open>>
     \/ req[r].confirm = "no" /\ Ends(r, "error")
     \/ /\ req[r].confirm = "none" /\ (req[r].left \/ req[r].cancelled)
        /\ Ends(r, "error")
  /\ UNCHANGED <<simVars, installed, notes, tried>>

Install(r) ==
  /\ req[r].pc = "install"
  /\ \/ /\ req[r].profile \notin installed
        /\ installed' = installed \cup {req[r].profile}
        /\ Changed(r, "report")
        /\ UNCHANGED <<holder, open, faults>>
     \/ /\ req[r].profile \in installed \/ req[r].cancelled
        /\ Ends(r, "error") /\ UNCHANGED <<installed, notes, faults>>
     \/ Faulty /\ Ends(r, "error") /\ UNCHANGED <<installed, notes>>
  /\ UNCHANGED <<mm, card, call, reg, tried>>

-----------------------------------------------------------------------------
(* The phone number: it is written with AT commands; then the SIM, the one    *)
(* ModemManager has shown when the request came, is restarted.                *)

UpdateNumber(r) ==
  /\ req[r].pc = "update"
  /\ \/ /\ PowerCycleAndWait(r, req[r].profile, req[r].at)
        /\ Goto(r, "await")
        /\ UNCHANGED <<holder, open, faults>>
     \/ Faulty /\ Ends(r, "error") /\ UNCHANGED <<call, reg>>
  /\ UNCHANGED <<mm, card, installed, notes, tried>>

-----------------------------------------------------------------------------
\* What a request may be about; the number is that of the SIM that is shown.
About(k) == CASE k = "read" -> {NoSim} [] k = "number" -> {mm.sim} [] OTHER -> Profiles

Busy == {s \in Requests : req[s].pc # "idle" /\ ~Over(s)}

\* A request comes; the modem is looked up.
Request(r) ==
  /\ req[r].pc = "idle" /\ mm.path # 0
  /\ \A s \in Busy : req[s].kind \notin Alone
  /\ \E k \in {j \in KindsOf[r] : j \in Alone => Busy = {}} : \E p \in About(k) :
       req' = [req EXCEPT ![r] = [NoReq EXCEPT !.kind = k, !.profile = p, !.at = mm.path,
                                               !.pc = IF k = "number" THEN "update" ELSE "resolve"]]
  /\ Lists
  /\ UNCHANGED <<mm, card, call, faults, holder, open, installed, notes, tried>>

Init ==
  /\ SimInit
  /\ holder = Nobody /\ open = {}
  /\ req = [r \in Requests |-> NoReq]
  /\ installed \in {s \in SUBSET Profiles : First \in s}
  /\ notes = [pending |-> {1}, last |-> 1]
  /\ tried = {}

Works(r) ==
  \/ Resolve(r) \/ Open(r)
  \/ Prepare(r) \/ RestoreInternet(r) \/ Switch(r) \/ AwaitSim(r) \/ Awaited(r)
  \/ ListNotifications(r) \/ SendOne(r)
  \/ CheckDelete(r) \/ DeleteProfile(r) \/ Report(r) \/ Reads(r)
  \/ Ask(r) \/ Confirmed(r) \/ Install(r)
  \/ UpdateNumber(r)

Looks(r) == CallStep(r) /\ UNCHANGED esimVars

Next ==
  \/ (ModemStep \/ HandleSignal) /\ UNCHANGED esimVars
  \/ \E r \in Requests :
       \/ Request(r) \/ Works(r) \/ Looks(r)
       \/ TimesOut(r) /\ UNCHANGED esimVars
       \/ BrowserAnswers(r) \/ BrowserCancels(r) \/ BrowserLeaves(r)

Spec == Init /\ [][Next]_vars

\* Requests go on, and so does the modem's firmware that restarts; a browser is
\* closed in the end. The time of a wait may be longer than anything else.
Fairness ==
  /\ WF_vars(ComesBack /\ UNCHANGED esimVars)
  /\ \A r \in Requests : WF_vars(Works(r)) /\ WF_vars(Looks(r)) /\ WF_vars(BrowserLeaves(r))

FairSpec == Spec /\ Fairness

-----------------------------------------------------------------------------
Places == {"idle", "resolve", "open", "list", "restore", "switch", "close", "await", "resolve again",
           "open again", "notifications", "send", "delete", "report", "ask", "confirm", "install",
           "update", "done", "error"}

ReqState ==
  [kind : Kinds \cup {"none"}, pc : Places, profile : Shown, at : Nat, lastSeq : Nat,
   todo : SUBSET (1 .. notes.last), raised : 0 .. notes.last, first : {"none", "yes", "no"},
   confirm : {"none", "yes", "no"}, sent : Nat, cancelled : BOOLEAN, left : BOOLEAN]

\* Every variable stays within its type.
TypeOK ==
  /\ SimTypeOK
  /\ holder \in Requests \cup {Nobody} /\ open \subseteq Requests
  /\ notes \in [pending : SUBSET Nat, last : Nat] /\ notes.pending \subseteq 1 .. notes.last
  /\ req \in [Requests -> ReqState]
  /\ installed \subseteq Profiles
  /\ tried \subseteq 1 .. notes.last

\* There is one LPA client at a time, and its request has the lock: the many
\* deferred Closes of a request never give back the lock of another one. And so
\* what was checked before a deletion still holds when the card is asked for it:
\* the program never deletes the profile in use (lifecycle.Delete).
OneClient ==
  /\ \A r \in open : holder = r /\ open = {r}
  /\ \A r \in Requests : req[r].pc = "delete" => req[r].profile # card.profile

\* A request that has listed the pending notifications after its change leaves
\* none of its own unsent, whoever sends it; those that were pending before are
\* left alone (lastSeq).
Reported ==
  /\ \A r \in Requests :
       req[r].kind = "enable" /\ req[r].pc = "send" => req[r].raised \in req[r].todo \cup tried
  /\ 1 \in notes.pending

\* A profile is downloaded only if the first answer of the browser was to do it,
\* whenever that answer came (downloadSession).
Consent ==
  \A r \in Requests :
    req[r].kind = "download" /\ req[r].raised # 0 => req[r].first = "yes"

\* The modem has what a request waits for: its SIM, then another object.
Served(r) ==
  IF call[r].pc = "wait" THEN mm.path \notin {0, call[r].from} ELSE Visible(r)

\* Every request ends: none waits for a lock that it holds itself or that was
\* not given back, and one whose SIM is shown in the end, or whose modem has
\* come back in the end, is not left waiting, whichever signals and lists have
\* told of it and wherever the modem has moved to. But an update of the number
\* never takes the modem that is about to go for the one that has come back.
EndInTime ==
  \A r \in Requests :
    /\ <>[](Active(r) => Served(r)) => (req[r].pc # "idle" ~> Over(r))
    /\ [](call[r].pc = "back" => mm.path # call[r].from)
=============================================================================
