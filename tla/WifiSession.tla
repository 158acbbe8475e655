---------------------------- MODULE WifiSession ----------------------------
(***************************************************************************)
(* The Wi-Fi Calling session of one modem (pro/wificalling): the entry of  *)
(* coordinator.sessions, the goroutine that connects, watches and          *)
(* reconnects for it, the carrier websheet it may wait for, and everything *)
(* that starts, replaces and stops sessions: requests, registry events and *)
(* the end of Run.                                                         *)
(*                                                                         *)
(* One step is one critical section of coordinator.mu, or what follows one *)
(* call that leaves the process. A session that was replaced keeps its     *)
(* goroutine until the goroutine notices: loops of several sessions run at *)
(* the same time, and all of them write through the same map entry.        *)
(*                                                                         *)
(* Abstractions: sessions of other modems share only the lock and the id   *)
(* counter; a vowifi client is up, down (its tunnel was lost and every     *)
(* call on it answers ErrClientNotConnected) or closed; the SMS, USSD and  *)
(* voice calls a request makes on a client are one use of it; time passes  *)
(* when a timer may fire.                                                  *)
(***************************************************************************)
EXTENDS Naturals, Sequences, FiniteSets

CONSTANTS
  Profiles,     \* SIM profiles the modem may have
  Requests,     \* API requests in flight at the same time
  Tries,        \* Len(retryDelays): retries before connecting is given up
  MaxSessions,  \* bound: sessions ever started
  MaxClients,   \* bound: connections ever made
  MaxSheets,    \* bound: websheets ever created
  MaxRequests,  \* bound: requests ever made
  MaxMoves,     \* bound: the modem leaves or comes back
  MaxFaults     \* bound: calls that fail, tunnels that are lost

ASSUME WifiAssumption ==
  /\ Profiles # {}
  /\ \A k \in {Tries, MaxSessions, MaxClients, MaxSheets, MaxRequests, MaxMoves, MaxFaults} : k \in Nat

VARIABLES
  enabled,   \* wifi_calling.enabled of each profile, in the database
  modem,     \* the modem as the registry shows it: path (0: none), profile
  events,    \* registry events not yet handled by Run's callback
  runner,    \* Run and its callback
  sess,      \* the entry of coordinator.sessions
  detached,  \* sessions taken out of the map and not closed yet
  loops,     \* the goroutine of each session
  clients,   \* the vowifi clients
  sheets,    \* the websheets of the broker
  reqs,      \* the requests in flight
  spent      \* what the bounds have been used up by

world == <<enabled, modem, events>>
vars  == <<world, runner, sess, detached, loops, clients, sheets, reqs, spent>>

Ids     == 1..MaxSessions
Client  == 1..MaxClients
Sheet   == 1..MaxSheets
Path    == 0..(MaxMoves + 1)

Phases  == {"connecting", "connected", "websheet_required", "disconnected"}
Session == [id : Ids \cup {0}, phase : Phases, client : Client \cup {0},
            sheet : Sheet \cup {0}, profile : Profiles, path : Path]

SomeProfile == CHOOSE p \in Profiles : TRUE
NoSession   == [id |-> 0, phase |-> "disconnected", client |-> 0, sheet |-> 0,
                profile |-> SomeProfile, path |-> 0]

\* pc: where the goroutine is; reconnect: the token in session.reconnect;
\* heard: does watchClient listen to that channel.
LoopPCs == {"none", "connect", "attach", "wait", "dismissed", "backoff", "up", "marked",
            "watch", "lost", "pause", "done", "gaveUp"}
Loop    == [pc : LoopPCs, cancelled : BOOLEAN, tries : Nat, client : Client \cup {0},
            sheet : Sheet \cup {0}, reconnect : BOOLEAN, heard : BOOLEAN]
NoLoop  == [pc |-> "none", cancelled |-> FALSE, tries |-> 0, client |-> 0, sheet |-> 0,
            reconnect |-> FALSE, heard |-> FALSE]

\* What is left to do for a detached session: cancel its context and delete
\* its sheet, then close its client.
Detached   == [stage : {"none", "cancel", "close"}, client : Client \cup {0}, sheet : Sheet \cup {0}]
NotDetached == [stage |-> "none", client |-> 0, sheet |-> 0]

\* in: how the broker knows the sheet; said: the callback its channel holds.
Callbacks == {"none", "retry", "dismiss", "other"}
SheetState == [in : {"new", "live", "expired", "deleted"}, said : Callbacks]

\* Run: pc; heard: has it subscribed; profile and path to start a session for;
\* id: the session it waits to see closed.
Runner == [pc : {"list", "started", "idle", "start", "removed", "closing",
                 "ending", "stopping", "returned"},
           heard : BOOLEAN, profile : Profiles, path : Path, id : Ids \cup {0}]
RequestPCs == {"free", "put", "prefer", "detach", "start", "using"}
Request == [pc : RequestPCs, on : BOOLEAN, profile : Profiles, path : Path,
            id : Ids \cup {0}, client : Client \cup {0}]
NoRequest == [pc |-> "free", on |-> FALSE, profile |-> SomeProfile, path |-> 0, id |-> 0, client |-> 0]

Live(i)     == loops[i].pc \notin {"none", "done", "gaveUp"}
Fresh(S)    == CHOOSE x \in S : \A y \in S : x <= y
FreshClient == {c \in Client : clients[c] = "new"}
FreshSheet  == {s \in Sheet : sheets[s].in = "new"}
MayFail     == spent.faults < MaxFaults
Failed(n)   == spent' = [spent EXCEPT !.faults = @ + n]
Goto(i, l)  == loops' = [loops EXCEPT ![i] = l]
Ends(i, pc) == Goto(i, [NoLoop EXCEPT !.pc = pc, !.cancelled = loops[i].cancelled])

-----------------------------------------------------------------------------
(* What the critical sections do to the session. *)

\* Mutant of Mine: the id of the session is not compared.
MineWhoever(i) == sess.id # 0

\* Is the session in the map the one the goroutine works for.
Mine(i) == sess.id = i /\ i # 0

NewSession(profile, path) ==
  \E i \in {j \in Ids : loops[j].pc = "none"} :
    /\ i = Fresh({j \in Ids : loops[j].pc = "none"})
    /\ sess' = [NoSession EXCEPT !.id = i, !.phase = "connecting", !.profile = profile, !.path = path]
    /\ Goto(i, [NoLoop EXCEPT !.pc = "connect"])

\* Mutant of Started: a session in the map is overwritten.
StartedAnyway(profile, path) == NewSession(profile, path)

\* start: nothing happens when the modem has a session, of whatever profile.
Started(profile, path) ==
  IF sess.id # 0 THEN UNCHANGED <<sess, loops>> ELSE NewSession(profile, path)

Connecting   == [sess EXCEPT !.phase = "connecting", !.client = 0]

MarkConnecting(i) == sess' = IF Mine(i) THEN Connecting ELSE sess

Disconnected == [sess EXCEPT !.phase = "disconnected", !.client = 0]

\* markDisconnected: only the client the session still has counts.
MarkDisconnected(i, c) ==
  sess' = IF Mine(i) /\ sess.client = c THEN Disconnected ELSE sess

\* detachSession, detachSessionByID.
Detach ==
  /\ sess' = NoSession
  /\ detached' = [detached EXCEPT ![sess.id] =
                    [stage |-> "cancel", client |-> sess.client, sheet |-> sess.sheet]]

Deleted(s) == IF s = 0 THEN sheets ELSE [sheets EXCEPT ![s] = [in |-> "deleted", said |-> "none"]]

Closed(c) == IF c = 0 THEN clients ELSE [clients EXCEPT ![c] = "closed"]

-----------------------------------------------------------------------------
(* The goroutine of session i: connectLoop, connectWithRetry, watchClient. *)

\* The context is cancelled: every wait of the goroutine returns.
Cancelled(i) ==
  /\ loops[i].cancelled
  /\ loops[i].pc \in {"connect", "backoff", "pause", "wait", "lost"}
  /\ Ends(i, "done")
  /\ UNCHANGED <<world, runner, sess, detached, clients, sheets, reqs, spent>>

\* connectOnce ends with a client, whether or not somebody still wants it.
Connects(i) ==
  /\ loops[i].pc = "connect"
  /\ FreshClient # {}
  /\ LET c == Fresh(FreshClient)
     IN  /\ clients' = [clients EXCEPT ![c] = "up"]
         /\ Goto(i, [loops[i] EXCEPT !.pc = "up", !.client = c, !.tries = 0])
  /\ UNCHANGED <<world, runner, sess, detached, sheets, reqs, spent>>

AfterFailure(l) == IF l.tries < Tries THEN "backoff" ELSE "gaveUp"

ConnectFails(i) ==
  /\ loops[i].pc = "connect"
  /\ ~loops[i].cancelled
  /\ MayFail
  /\ Failed(1)
  /\ Goto(i, [loops[i] EXCEPT !.pc = AfterFailure(loops[i]), !.tries = @ + 1])
  /\ UNCHANGED <<world, runner, sess, detached, clients, sheets, reqs>>

\* The carrier wants the user: connectOnce has created a websheet.
NeedsUser(i) ==
  /\ loops[i].pc = "connect"
  /\ FreshSheet # {}
  /\ LET s == Fresh(FreshSheet)
     IN  /\ sheets' = [sheets EXCEPT ![s].in = "live"]
         /\ Goto(i, [loops[i] EXCEPT !.pc = "attach", !.sheet = s])
  /\ UNCHANGED <<world, runner, sess, detached, clients, reqs, spent>>

\* The carrier wants the user and no websheet could be made of it: there is
\* nothing to wait for, and the goroutine ends while its session stays.
NoSheet(i) ==
  /\ loops[i].pc = "connect"
  /\ ~loops[i].cancelled
  /\ MayFail
  /\ Failed(1)
  /\ Ends(i, "gaveUp")
  /\ UNCHANGED <<world, runner, sess, detached, clients, sheets, reqs>>

\* attachWebsheet, then waitForWebsheet looks it up again.
Attach(i) ==
  /\ loops[i].pc = "attach"
  /\ LET s == loops[i].sheet
     IN  IF Mine(i)
         THEN /\ sess' = [sess EXCEPT !.sheet = s, !.phase = "websheet_required"]
              /\ Goto(i, [loops[i] EXCEPT !.pc = "wait"])
              /\ UNCHANGED sheets
         ELSE /\ sheets' = Deleted(s)
              /\ Ends(i, "done")
              /\ UNCHANGED sess
  /\ UNCHANGED <<world, runner, detached, clients, reqs, spent>>

AfterAnswer(said) == IF said = "dismiss" THEN "dismissed" ELSE "connect"

\* WaitCallback has an answer; clearWebsheet.
Answered(i) ==
  /\ loops[i].pc = "wait"
  /\ LET s    == loops[i].sheet
         said == sheets[s].said
     IN  \/ /\ said = "other"
            /\ sheets' = [sheets EXCEPT ![s].said = "none"]
            /\ UNCHANGED <<sess, loops>>
         \/ /\ said \in {"retry", "dismiss"}
            /\ sess' = IF Mine(i) /\ sess.sheet = s THEN [Connecting EXCEPT !.sheet = 0] ELSE sess
            /\ sheets' = Deleted(s)
            /\ Goto(i, [loops[i] EXCEPT !.pc = AfterAnswer(said), !.tries = 0, !.sheet = 0])
  /\ UNCHANGED <<world, runner, detached, clients, reqs, spent>>

\* stopAsyncSession: the user closed the sheet, the session goes.
Dismissed(i) ==
  /\ loops[i].pc = "dismissed"
  /\ IF Mine(i) THEN Detach ELSE UNCHANGED <<sess, detached>>
  /\ Ends(i, "done")
  /\ UNCHANGED <<world, runner, clients, sheets, reqs, spent>>

Retry(i) ==
  /\ loops[i].pc = "backoff"
  /\ Goto(i, [loops[i] EXCEPT !.pc = "connect"])
  /\ UNCHANGED <<world, runner, sess, detached, clients, sheets, reqs, spent>>

\* markConnected.
MarkConnected(i) ==
  /\ loops[i].pc = "up"
  /\ sess' = IF Mine(i) THEN [sess EXCEPT !.client = loops[i].client, !.phase = "connected", !.sheet = 0]
             ELSE sess
  /\ Goto(i, [loops[i] EXCEPT !.pc = "marked"])
  /\ UNCHANGED <<world, runner, detached, clients, sheets, reqs, spent>>

\* reconnectChannel: without the client in the session nobody is listened to.
Watch(i) ==
  /\ loops[i].pc = "marked"
  /\ Goto(i, [loops[i] EXCEPT !.pc = "watch", !.heard = Mine(i) /\ sess.client = loops[i].client])
  /\ UNCHANGED <<world, runner, sess, detached, clients, sheets, reqs, spent>>

\* Mutant of CutOff: watchClient returns and its client stays.
CutOffNot(c) == clients

\* Cancelled or asked for another client, watchClient closes the one it has.
CutOff(c) == Closed(c)

\* The client failed or was closed. When the goroutine hears of it by the state,
\* it closes the client; when one of the channels has closed first, it does not.
ClientGone(i) ==
  /\ loops[i].pc = "watch"
  /\ LET c == loops[i].client
     IN  /\ clients[c] # "up"
         /\ clients' = Closed(c) \/ UNCHANGED clients
         /\ MarkDisconnected(i, c)
  /\ Goto(i, [loops[i] EXCEPT !.pc = "lost", !.client = 0, !.heard = FALSE])
  /\ UNCHANGED <<world, runner, detached, sheets, reqs, spent>>

CancelledWatch(i) ==
  /\ loops[i].pc = "watch"
  /\ loops[i].cancelled
  /\ LET c == loops[i].client
     IN  clients' = CutOff(c) /\ MarkDisconnected(i, c)
  /\ Goto(i, [loops[i] EXCEPT !.pc = "lost", !.client = 0, !.heard = FALSE])
  /\ UNCHANGED <<world, runner, detached, sheets, reqs, spent>>

\* A request found the client disconnected and asked for another.
AskedToReconnect(i) ==
  /\ loops[i].pc = "watch"
  /\ loops[i].heard /\ loops[i].reconnect
  /\ clients' = CutOff(loops[i].client)
  /\ Goto(i, [loops[i] EXCEPT !.pc = "lost", !.client = 0, !.heard = FALSE, !.reconnect = FALSE])
  /\ UNCHANGED <<world, runner, sess, detached, sheets, reqs, spent>>

\* Mutant of AfterLoss: the goroutine ends with its client.
EndsWithClient == "done"

AfterLoss == "pause"

\* markConnecting, before the pause of retryDelays[0].
Lost(i) ==
  /\ loops[i].pc = "lost"
  /\ ~loops[i].cancelled
  /\ MarkConnecting(i)
  /\ Goto(i, [loops[i] EXCEPT !.pc = AfterLoss])
  /\ UNCHANGED <<world, runner, detached, clients, sheets, reqs, spent>>

\* The pause is over: markConnecting again, and connectWithRetry.
Resume(i) ==
  /\ loops[i].pc = "pause"
  /\ MarkConnecting(i)
  /\ Goto(i, [loops[i] EXCEPT !.pc = "connect", !.tries = 0])
  /\ UNCHANGED <<world, runner, detached, clients, sheets, reqs, spent>>

LoopStep(i) ==
  \/ Cancelled(i) \/ Connects(i) \/ ConnectFails(i) \/ NeedsUser(i) \/ NoSheet(i)
  \/ Attach(i) \/ Answered(i) \/ Dismissed(i) \/ Retry(i) \/ MarkConnected(i) \/ Watch(i)
  \/ ClientGone(i) \/ CancelledWatch(i) \/ AskedToReconnect(i) \/ Lost(i) \/ Resume(i)

-----------------------------------------------------------------------------
(* Closing a detached session: closeDetachedSession(Async). *)

\* Mutant of Cancels: only a connected session has something to cancel.
CancelsConnected(d) == d.client # 0

Cancels(d) == TRUE

CancelDetached(i) ==
  /\ detached[i].stage = "cancel"
  /\ sheets' = Deleted(detached[i].sheet)
  /\ Goto(i, [loops[i] EXCEPT !.cancelled = @ \/ Cancels(detached[i])])
  /\ detached' = [detached EXCEPT ![i].stage = "close"]
  /\ UNCHANGED <<world, runner, sess, clients, reqs, spent>>

CloseDetached(i) ==
  /\ detached[i].stage = "close"
  /\ clients' = Closed(detached[i].client)
  /\ detached' = [detached EXCEPT ![i] = NotDetached]
  /\ UNCHANGED <<world, runner, sess, loops, sheets, reqs, spent>>

-----------------------------------------------------------------------------
(* Run: sessions for the modems that are there, then the registry's events. *)

\* startEnabled lists and starts before anybody listens to the registry.
List ==
  /\ runner.pc = "list"
  /\ runner' = IF modem.path # 0 /\ enabled[modem.profile]
               THEN [runner EXCEPT !.pc = "start", !.profile = modem.profile, !.path = modem.path]
               ELSE [runner EXCEPT !.pc = "started"]
  /\ UNCHANGED <<world, sess, detached, loops, clients, sheets, reqs, spent>>

\* start, at the end of startIfEnabled.
RunnerStart ==
  /\ runner.pc = "start"
  /\ Started(runner.profile, runner.path)
  /\ runner' = [runner EXCEPT !.pc = IF runner.heard THEN "idle" ELSE "started"]
  /\ UNCHANGED <<world, detached, clients, sheets, reqs, spent>>

\* registry.Subscribe: what happened before it is not heard of.
Subscribe ==
  /\ runner.pc = "started"
  /\ runner' = [runner EXCEPT !.pc = "idle", !.heard = TRUE]
  /\ events' = <<>>
  /\ UNCHANGED <<enabled, modem, sess, detached, loops, clients, sheets, reqs, spent>>

\* The callback takes an added modem: startIfEnabled reads profile and settings.
TakeAdded ==
  /\ runner.pc = "idle"
  /\ events # <<>> /\ Head(events).added
  /\ events' = Tail(events)
  /\ runner' = IF modem.path # 0 /\ enabled[modem.profile]
               THEN [runner EXCEPT !.pc = "start", !.profile = modem.profile,
                                   !.path = Head(events).path]
               ELSE runner
  /\ UNCHANGED <<enabled, modem, sess, detached, loops, clients, sheets, reqs, spent>>

\* The callback takes a removed modem: stopByPath looks for sessions of that
\* path, and stops the session of the modem that has one.
TakeRemoved ==
  /\ runner.pc = "idle"
  /\ events # <<>> /\ ~Head(events).added
  /\ events' = Tail(events)
  /\ runner' = IF sess.id # 0 /\ sess.path = Head(events).path
               THEN [runner EXCEPT !.pc = "removed"] ELSE runner
  /\ UNCHANGED <<enabled, modem, sess, detached, loops, clients, sheets, reqs, spent>>

\* The end of the program: stopAll.
StopAll ==
  /\ runner.pc = "idle"
  /\ runner' = [runner EXCEPT !.pc = IF sess.id # 0 THEN "ending" ELSE "returned"]
  /\ UNCHANGED <<world, sess, detached, loops, clients, sheets, reqs, spent>>

\* stop, by the id of the modem: by now the session may be another one, of
\* another path, or gone. It waits for the goroutine of the one it has found.
StopFound ==
  /\ runner.pc \in {"removed", "ending"}
  /\ IF sess.id # 0
     THEN /\ Detach
          /\ runner' = [runner EXCEPT !.pc = IF @ = "removed" THEN "closing" ELSE "stopping",
                                      !.id = sess.id]
     ELSE /\ UNCHANGED <<sess, detached>>
          /\ runner' = [runner EXCEPT !.pc = IF @ = "removed" THEN "idle" ELSE "returned"]
  /\ UNCHANGED <<world, loops, clients, sheets, reqs, spent>>

Stopped(i) == detached[i].stage = "none" /\ ~Live(i)

RunnerClosed ==
  /\ runner.pc \in {"closing", "stopping"}
  /\ Stopped(runner.id)
  /\ runner' = [runner EXCEPT !.pc = IF @ = "closing" THEN "idle" ELSE "returned"]
  /\ UNCHANGED <<world, sess, detached, loops, clients, sheets, reqs, spent>>

RunnerStep == List \/ RunnerStart \/ Subscribe \/ TakeAdded \/ TakeRemoved \/ StopFound \/ RunnerClosed

-----------------------------------------------------------------------------
(* Requests: UpdateSettings, Reconnect, Disconnect, and a use of the client. *)

Set(r, q) == reqs' = [reqs EXCEPT ![r] = q]

\* A request reads the profile of the modem the registry found for it.
Begins(r) ==
  /\ reqs[r].pc = "free"
  /\ runner.pc # "returned"
  /\ modem.path # 0
  /\ spent.requests < MaxRequests
  /\ spent' = [spent EXCEPT !.requests = @ + 1]

Found == [NoRequest EXCEPT !.profile = modem.profile, !.path = modem.path]

BeginUpdate(r) ==
  /\ Begins(r)
  /\ \E on \in BOOLEAN : Set(r, [Found EXCEPT !.pc = "put", !.on = on])
  /\ UNCHANGED <<world, runner, sess, detached, loops, clients, sheets>>

BeginReconnect(r) ==
  /\ Begins(r)
  /\ enabled[modem.profile]
  /\ Set(r, [Found EXCEPT !.pc = "detach", !.on = TRUE])
  /\ UNCHANGED <<world, runner, sess, detached, loops, clients, sheets>>

BeginDisconnect(r) ==
  /\ Begins(r)
  /\ Set(r, [Found EXCEPT !.pc = "detach"])
  /\ UNCHANGED <<world, runner, sess, detached, loops, clients, sheets>>

\* SettingsStore.Put: two writes; a failure between them leaves the first.
Put(r) ==
  /\ reqs[r].pc = "put"
  /\ \/ /\ enabled' = [enabled EXCEPT ![reqs[r].profile] = reqs[r].on]
        /\ Set(r, [reqs[r] EXCEPT !.pc = "prefer"])
        /\ UNCHANGED spent
     \/ /\ MayFail /\ Failed(1)
        /\ Set(r, NoRequest)
        /\ UNCHANGED enabled
  /\ UNCHANGED <<modem, events, runner, sess, detached, loops, clients, sheets>>

Prefer(r) ==
  /\ reqs[r].pc = "prefer"
  /\ \/ Set(r, [reqs[r] EXCEPT !.pc = "detach"]) /\ UNCHANGED spent
     \/ MayFail /\ Failed(1) /\ Set(r, NoRequest)
  /\ UNCHANGED <<world, runner, sess, detached, loops, clients, sheets>>

\* detachSession, of restart and of stopAsync.
RequestDetach(r) ==
  /\ reqs[r].pc = "detach"
  /\ IF sess.id # 0 THEN Detach ELSE UNCHANGED <<sess, detached>>
  /\ Set(r, IF reqs[r].on THEN [reqs[r] EXCEPT !.pc = "start", !.id = sess.id] ELSE NoRequest)
  /\ UNCHANGED <<world, runner, loops, clients, sheets, spent>>

\* start, of restart: once the old session is cancelled, not once it is closed.
RequestStart(r) ==
  /\ reqs[r].pc = "start"
  /\ reqs[r].id # 0 => detached[reqs[r].id].stage # "cancel"
  /\ Started(reqs[r].profile, reqs[r].path)
  /\ Set(r, NoRequest)
  /\ UNCHANGED <<world, runner, detached, clients, sheets, spent>>

\* connectedClient: an SMS, USSD or voice request takes the client it uses.
BeginUse(r) ==
  /\ Begins(r)
  /\ sess.phase = "connected" /\ sess.client # 0 /\ sess.profile = modem.profile
  /\ Set(r, [Found EXCEPT !.pc = "using", !.client = sess.client])
  /\ UNCHANGED <<world, runner, sess, detached, loops, clients, sheets>>

SameClient(c) == sess.client = c

\* The client answered, or handleClientDisconnected asks for another one.
EndUse(r) ==
  /\ reqs[r].pc = "using"
  /\ LET c == reqs[r].client
     IN  IF clients[c] # "up" /\ SameClient(c)
         THEN /\ sess' = Disconnected
              /\ Goto(sess.id, [loops[sess.id] EXCEPT !.reconnect = TRUE])
         ELSE UNCHANGED <<sess, loops>>
  /\ Set(r, NoRequest)
  /\ UNCHANGED <<world, runner, detached, clients, sheets, spent>>

RequestStep(r) == Put(r) \/ Prefer(r) \/ RequestDetach(r) \/ RequestStart(r) \/ EndUse(r)

-----------------------------------------------------------------------------
(* What is outside: the modem, the network, the user at the websheet. *)

Unplug ==
  /\ modem.path # 0
  /\ spent.moves < MaxMoves
  /\ spent' = [spent EXCEPT !.moves = @ + 1]
  /\ modem' = [modem EXCEPT !.path = 0]
  /\ events' = Append(events, [added |-> FALSE, path |-> modem.path])
  /\ UNCHANGED <<enabled, runner, sess, detached, loops, clients, sheets, reqs>>

\* The modem comes back at a new path, perhaps with another profile.
Plug ==
  /\ modem.path = 0
  /\ spent.moves < MaxMoves
  /\ spent' = [spent EXCEPT !.moves = @ + 1]
  /\ \E p \in Profiles : modem' = [path |-> spent.moves + 1, profile |-> p]
  /\ events' = Append(events, [added |-> TRUE, path |-> spent.moves + 1])
  /\ UNCHANGED <<enabled, runner, sess, detached, loops, clients, sheets, reqs>>

TunnelLost(c) ==
  /\ clients[c] = "up"
  /\ MayFail /\ Failed(1)
  /\ clients' = [clients EXCEPT ![c] = "down"]
  /\ UNCHANGED <<world, runner, sess, detached, loops, sheets, reqs>>

\* The browser reports back; the channel holds the latest report.
Report(s) ==
  /\ sheets[s].in = "live"
  /\ \E said \in Callbacks \ {"none", sheets[s].said} : sheets' = [sheets EXCEPT ![s].said = said]
  /\ UNCHANGED <<world, runner, sess, detached, loops, clients, reqs, spent>>

\* The broker forgets a sheet after its ten minutes; nobody is told.
Expire(s) ==
  /\ sheets[s].in = "live"
  /\ sheets' = [sheets EXCEPT ![s].in = "expired"]
  /\ UNCHANGED <<world, runner, sess, detached, loops, clients, reqs, spent>>

-----------------------------------------------------------------------------
Init ==
  /\ enabled \in [Profiles -> BOOLEAN]
  /\ modem \in [path : {0, MaxMoves + 1}, profile : Profiles]
  /\ events = <<>>
  /\ runner = [pc |-> "list", heard |-> FALSE, profile |-> SomeProfile, path |-> 0, id |-> 0]
  /\ sess = NoSession
  /\ detached = [i \in Ids |-> NotDetached]
  /\ loops = [i \in Ids |-> NoLoop]
  /\ clients = [c \in Client |-> "new"]
  /\ sheets = [s \in Sheet |-> [in |-> "new", said |-> "none"]]
  /\ reqs = [r \in Requests |-> NoRequest]
  /\ spent = [requests |-> 0, moves |-> 0, faults |-> 0]

Begin(r) == BeginUpdate(r) \/ BeginReconnect(r) \/ BeginDisconnect(r) \/ BeginUse(r)

Next ==
  \/ \E i \in Ids : LoopStep(i) \/ CancelDetached(i) \/ CloseDetached(i)
  \/ RunnerStep \/ StopAll
  \/ \E r \in Requests : Begin(r) \/ RequestStep(r)
  \/ Unplug \/ Plug
  \/ \E c \in Client : TunnelLost(c)
  \/ \E s \in Sheet : Report(s) \/ Expire(s)

Spec == Init /\ [][Next]_vars

\* Goroutines run, timers fire, an attempt to connect ends, a lost tunnel is
\* noticed by the client; nobody has to make requests or fill in a websheet.
Fairness ==
  /\ \A i \in Ids : WF_vars(LoopStep(i)) /\ WF_vars(CancelDetached(i) \/ CloseDetached(i))
  /\ WF_vars(RunnerStep)
  /\ \A r \in Requests : WF_vars(RequestStep(r))

FairSpec == Spec /\ Fairness

-----------------------------------------------------------------------------
\* Every variable stays within its type, and no session is half gone.
TypeOK ==
  /\ enabled \in [Profiles -> BOOLEAN]
  /\ modem \in [path : Path, profile : Profiles]
  /\ events \in Seq([added : BOOLEAN, path : Path])
  /\ runner \in Runner
  /\ sess \in Session
  /\ sess.id = 0 => sess = NoSession
  /\ detached \in [Ids -> Detached]
  /\ loops \in [Ids -> Loop]
  /\ clients \in [Client -> {"new", "up", "down", "closed"}]
  /\ sheets \in [Sheet -> SheetState]
  /\ reqs \in [Requests -> Request]
  /\ spent \in [requests : Nat, moves : Nat, faults : Nat]

\* Every goroutine that nobody has told to stop can still be told: its session
\* is in the map, or it was taken out and is about to be cancelled. Restarts,
\* registry events and a dismissed sheet all replace sessions, and start takes
\* the word of the map for it (connect.go).
Stoppable ==
  \A i \in Ids : Live(i) /\ ~loops[i].cancelled /\ loops[i].pc # "dismissed"
                   => sess.id = i \/ detached[i].stage = "cancel"

\* Nothing is left behind. A websheet that the broker still serves belongs to
\* the session in the map, to a goroutine that is about to attach it, or to a
\* session that is about to be cancelled; a client that still has its tunnel is
\* watched, or will be, by a goroutine, whatever session it was made for and
\* whichever client it was asked to give up (attachWebsheet, clearWebsheet,
\* deleteSessionWebsheet, watchClient). A client that has lost its tunnel is not
\* always closed: watchClient returns without Close when a channel ends first.
NoOrphans ==
  /\ \A s \in Sheet : sheets[s].in = "live" =>
       \/ sess.sheet = s
       \/ \E i \in Ids : loops[i].pc = "attach" /\ loops[i].sheet = s
       \/ \E i \in Ids : detached[i].stage = "cancel" /\ detached[i].sheet = s
  /\ \A c \in Client : clients[c] = "up" =>
       \E i \in Ids : loops[i].pc \in {"up", "marked", "watch"} /\ loops[i].client = c

\* A session that is shown as connected has the client of its own goroutine,
\* which watches it: a late goroutine of a replaced session and a late answer
\* about a replaced client change nothing (the id and client checks).
Honest ==
  sess.phase = "connected" =>
    /\ sess.client # 0
    /\ \/ loops[sess.id].pc \in {"marked", "watch"} /\ loops[sess.id].client = sess.client
       \/ loops[sess.id].pc = "lost"

\* A session that has no client gets one, again and again, unless it is
\* stopped, waits for the user, or its goroutine has given up (connectLoop).
Reconnects ==
  sess.id # 0 /\ sess.phase \in {"connecting", "disconnected"}
    ~> \/ sess.id = 0
       \/ sess.phase \in {"connected", "websheet_required"}
       \/ loops[sess.id].pc = "gaveUp"
       \/ FreshClient = {}

\* The registry's callback that stops the session of a removed modem waits for
\* its goroutine, wherever that is, and is not held for ever (stopByPath).
CallbackReturns == (runner.pc \in {"removed", "closing"}) ~> (runner.pc = "idle")
=============================================================================
