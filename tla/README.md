# Sigmo: specifications, model checks and proofs

Sigmo manages cellular modems through ModemManager: internet connections with
the host's default route and a proxy over them, SMS and notifications, eSIM
profiles and their transfer, Wi-Fi calling with calls in the browser. Most of
what can go wrong in it is not in one function but between them: two modems
that take the default route from each other, a restart between a database write
and a netlink call, a session that is replaced while it connects, a request
that saves what it read before the network call. This directory holds TLA+
modules that model those parts, TLC configurations that check them on small
instances, and proofs that TLAPS checks for every instance.

Paths below are relative to the root of the repository; `connection.go` and
other bare names are in `internal/pkg/internet` unless said otherwise.

## 1. Inventory

| Component | State it keeps | Operations | What is hard | What makes it correct |
|---|---|---|---|---|
| Internet connections and default routes (`internal/pkg/internet`) | `Connector.connections`, `preferences`, per-modem locks; in SQLite the route state of each interface and the always-on preference of each profile; in the kernel default routes and addresses; in ModemManager the bearers | Connect, Disconnect, Restore, Current, Recover, the always-on monitor | operations of different modems interleave at every netlink call; each call may fail; crash or reboot between any two | the host's routes come back; the record is ahead of the kernel; memory is what recovery would rebuild; always-on connections return |
| netlink (`internal/pkg/netlink`) | none (the kernel's table) | add, delete, list default routes and addresses | one route per family and metric; metric 0 on delete matches any | as above |
| Proxy (`proxy*.go`) | bindings, a pair of listeners, sessions, a record of each binding | Register, Unregister, UpdateConfig, serve errors, dial | a session dialled while its binding changes; a failing restart of listeners; a record that outlives its binding | connections go through the interface of their user; ports are open only for somebody |
| Modem registry and presence tasks (`internal/pkg/modem/registry.go`, `presence_runner.go`) | known modems, subscribers, one task per modem | signals, Modems, Subscribe, RunPresenceTask | a polled list against a stream of signals; ModemManager restarts without "removed" signals | each modem present has one task, at its present path; Run returns only when no task is left |
| SIM refresh (`sim_refresh.go`, the wait in `registry.go`) | none | EnsureSIMVisible, PowerCycleSIMAndWait | the modem re-enumerates during each step, and is told of by signals, the map and lists | each means is tried at most once; the modem returned shows the profile, and after a power cycle is another object |
| Network preferences, registration restore | preferences in SQLite | save, restore with retries | saving against a restore under way | the last saved preference wins |
| SMS (`messaging.go`, `internal/app/forwarder/relay.go`, `internal/pkg/message`, `internal/pkg/storage/messages.go`) | subscriptions per modem, the messages table, calls notified | reception, synchronisation, deletion, forwarding | three writers of one table with two unique keys; object paths that are reused; notify after insert | every message received is stored, once; every new one is forwarded |
| Notification channels (`internal/pkg/notify`) | none | send | any channel may fail | - |
| Settings (`internal/pkg/settings`) | settings in memory and SQLite | Update | applied to several components, one of which may refuse | memory and disk agree |
| Authentication (`internal/app/auth`) | one live code, tokens | IssueOTP, VerifyOTP, tokens | cooldown, expiry, one use | a code is good once, and not after its time |
| eSIM (`internal/app/handler/esim`, `internal/pkg/lpa`) | an LPA client under the lock of its modem; the dialogue of a download | download, enable, delete | the lock is given back in the middle of an enable; the modem disappears; the browser may leave | one client at a time; notifications are sent for what was done; no download without a yes |
| USSD, MSISDN, AT, APN, carriers | none | request and reply | - | - |
| Calls (`pro/call`, `pro/wificalling/voice.go`) | the table of a session, call records | dial, answer, reject, hang up, hold, delete, voice events | actions and events save the same record from what they read before | a call that ended stays ended; one that goes on has somebody to end it |
| Call media (`pro/call/webrtc.go`, `pro/voicecodec`) | bridges with peer connections, workers, timers; a codec factory | offer, close, Media.Close | callbacks that overtake each other; four goroutines that may close one bridge | every bridge is released; no codec is used after its factory is closed |
| Wi-Fi calling (`pro/wificalling`) | a session per modem with its client, websheet and calls | start, stop, restart, reconnect, websheets, SMS | sessions replaced while they connect or report | every goroutine can be stopped; nothing of an old session reaches a new one |
| Carrier websheets (`pro/websheet`) | sessions of the broker | create, callback, done, expiry | a person who never answers | a websheet goes with who asked for it |
| eSIM transfer (`pro/esimtransfer`) | one dialogue per socket, an LPA client of the target | prompts, websheets, deletion of the source, download | the browser may leave at any prompt; transfers share cards and locks | the source is deleted only with consent; locks come back |
| Server (`internal/app/server`) | tasks | start, stop | order of recovery and tasks | recovery is finished before users and monitor act |

How they interact: HTTP handlers call the connector, the messenger, the eSIM
lifecycle and the network settings with a modem looked up in the registry. The
registry turns D-Bus signals into callbacks that start and stop per-modem tasks
and Wi-Fi calling sessions. The connector registers its connections in the
proxy. The eSIM lifecycle takes an internet connection down (Restore) before it
switches a profile, then waits for the SIM; a transfer does the same on two
cards. Wi-Fi calling reports SMS and calls to the relay and to the call
records; media bridges use the calls of its sessions; both it and the transfers
open websheets in the broker.

## 2. Plan

Done, in order of importance:

1. `InternetRoutes`: the core, with the abstract `DefaultRouteStack` it
   implements and its proofs.
2. `ModemSignals`, `PresenceTask`: signals, the list, one task per modem, with
   proofs.
3. `SmsInbox`: reception, synchronisation, storage and notification of SMS,
   with proofs.
4. `WifiSession`: the sessions of a modem; `WifiCalls`: the calls in them, up to
   the record in the database; `CallMedia`: the bridges to the browser; each with
   proofs.
5. `SimRefresh`, `EsimProfiles` on top of it; `EsimTransfer`, with proofs.
6. `InternetProxy`: bindings, listeners, sessions, records, with proofs.

Left:

1. Proofs: what `InternetRoutes` promises of bearers with several families, and
   after failures and restarts, as far as it is true (section 6).
2. Delivery reports of messages over Wi-Fi calling (`pro/wificalling/sms.go`): a
   report that comes before its row is kept back (`deferStoredSMSStatus`) for
   `ApplyPendingSMSStatus`, which may have run already.
3. The relay's own subscriptions per modem (`relay.go:73`, `relay.go:137`), on top
   of `ModemSignals`.
4. `Auth` (`otp.go:51`), the rest of `Settings`, network preferences
   (`network_preferences.go:84`).
5. In `InternetRoutes`: a request context that is cancelled in the middle.

Abstract specifications worth stating: the default route as a stack (done); a
call as a state machine whose end is final.

## 3. The modules and the code

| Module | What it is |
|---|---|
| `InternetRoutes` | the connector: connections, default routes, records, the always-on monitor |
| `DefaultRouteStack`, `InternetRoutesStack` | what the connector promises about the default route, and the refinement mapping |
| `InternetProxy` | the proxy and what the connector does with it |
| `ModemSignals` | ModemManager's objects, its signals, the registry's loop and lists |
| `PresenceTask` | `RunPresenceTask` on top of `ModemSignals` |
| `SmsInbox` | SMS on the modem, in the table, in the relay and in requests |
| `WifiSession` | the Wi-Fi calling sessions of a modem |
| `WifiCalls` | calls: network, session, requests, records |
| `CallMedia` | WebRTC bridges |
| `SimRefresh` | the wait for a SIM, and for a modem whose SIM was restarted |
| `EsimProfiles` | eSIM requests of a modem, and a change of its number, on top of `SimRefresh` |
| `EsimTransfer` | transfers between cards |
| `MC_*` | names and plans for TLC |
| `InternetRoutes_proof`, `InternetProxy_proof`, `PresenceTask_proof`, `SmsInbox_proof`, `WifiSession_proof`, `Calls_proof` (of `WifiCalls` and `CallMedia`), `EsimProfiles_proof`, `EsimTransfer_proof` | theorems |

### InternetRoutes

A step is one call that leaves the process. `op[m]` is the operation that holds
the modem's lock: a program counter and the local variables of the Go functions
it is in. What the code does under `Connector.mu` is one step (`Sync`, `Commit`,
`Track`).

| State | In the code |
|---|---|
| `kernel` | default routes of the main table |
| `stored`, `always` | `route_state` and always-on rows in SQLite |
| `conns`, `pref` | `Connector.connections`, `Connector.preferences` |
| `bearer`, `addrs` | bearers of ModemManager; addresses on their interfaces |
| `op` | the goroutine inside `lockModem` |
| `booting` | what `Recover` has not reached |

| Actions | In the code |
|---|---|
| `Connect`, `Disconnect`, `Restore`, `Current`, `KeepAlive`, `Recover` | the entry points of `connection.go` and `always_on.go` |
| `BearerUp`, `Plan`, `MoveDel`, `MoveAdd`, `MoveUndo`, `AddRoute`, `SaveAlways`, `Commit`, `Track` | `configureBearer` with `takeoverDefaultRoutesWithStore`, then the rest of `connect` |
| `Unroute`, `RestoreAdd`, `RestoreDel`, `DropState`, `Sync` | `cleanupApplied`, `restoreDefaultRoutesWithOps`, `syncCleanedUpDefaultRouteState` |
| `LoadStale` | `restoreStaleDefaultRouteStatesWithStore` |
| `BearerDown`, `Forget`, `Abort` | the ends of `disconnect` and of a failed `connect` |
| `Report`, `Forgotten` | the rest of `current` for a tracked connection: the copy it took is written back |
| `BearerLost`, `Restart` | the network, the process, the machine |

Three details of the code are modelled because they have consequences. A list of
routes in a tracked connection and the list its clean-up loop walks through are
one Go slice, so another modem's demotion changes the routes the loop deletes
(`Shared`). And `syncDefaultRouteTakeover` changes the routes inside those
slices before it writes, so they stay changed when the write fails (`Commit`).
A status request copies the tracked connection, asks ModemManager without
`Connector.mu`, and writes the copy back (`Current`, then `Report`), which undoes
a demotion, promotion or inheritance that another modem's operation did to the
connection in between.

### InternetProxy

A step is one critical section of `Proxy.mu`, with the database calls of the
connector before it, or what a connection does outside of it. `proxy` is the
`Proxy` with every listener a Serve goroutine still has: a server that is closed
before its goroutine has begun leaves its port open until then (`orphan`).
`records` are the proxy rows of the interfaces, `tracked` and `ops` what is left
of the connector, `slots` the clients.

| Actions | In the code |
|---|---|
| `Connect`, `Bind`, `NoBearer`, `Save`, `Abandon`, `Finish`, `Disconnect`, `Current`, `Recover` | the proxy's part of `connection.go` |
| `SaveSettings`, `ApplySettings` | `handler/settings`, `UpdateConfig` |
| `ServeBegins`, `ServeFails`, `ServeExits` | the Serve goroutines, `handleServeExit` |
| `Authenticate`, `Associate`, `ReadInterface`, `Dial`, `CloseTaken`, `RelayEnds`, `ClientEnds` | a client, from its credentials to the end of its session |

### ModemSignals and PresenceTask

`ModemSignals` has `Registry.modems` (`known`), `Registry.subs` (`subs`) and the
loop of `handleSignals`: `Handle` is one turn up to the copy of the subscribers,
`calling` and `to` are the calls it still has to make. `List` and `Listed` are
the two halves of `Registry.Modems`: what ModemManager has is read at one
moment, used at another. `PresenceTask` has the three maps of `presenceTask`,
and two threads, `run` and `signals`, each of which may be inside `addModem` or
`removeModem` (`act`): waiting for the mutex (`Add`, `Remove`), or past it with
old tasks to cancel and a new one to start (`Finish`). A task is `added` from
`wg.Add` on, `running` once its goroutine is started, `over` when its function
has returned.

### SmsInbox

`sms` is what ModemManager lists, `rows` the messages table with its two unique
keys, the object path and the fingerprint (`Conflicts`). The relay's loop is
`Take` (a signal), `Retrieve` (`waitForSMSReceived`), `RelayInserts`
(`InsertMessage` in `forwardModemSMS`) and `Notify`. A request is one of three:
a page (`PageLists`, then one `RequestInserts` for each message it has listed),
a deletion (`DeleteSelects`, `DeleteRows`, then one `DeleteSms` for each path),
a sent message (`Send`, `RequestInserts`).

### WifiSession

`sess` is the entry of `coordinator.sessions`; `loops` are the goroutines of all
sessions ever started, each at its place in `connectLoop`; `detached` are
sessions that were taken out of the map and whose context is still to be
cancelled, whose client is still to be closed.

| Actions | In the code |
|---|---|
| `Connects`, `ConnectFails`, `NeedsUser`, `NoSheet`, `Attach`, `Answered`, `Dismissed`, `Retry` | `connectWithRetry`, `waitForWebsheet` |
| `MarkConnected`, `Watch`, `ClientGone`, `CancelledWatch`, `AskedToReconnect`, `Lost`, `Resume` | `watchClient` and the rest of the loop; `ClientGone` closes the client or not, as the one or the other channel tells of it first |
| `CancelDetached`, `CloseDetached` | `closeDetachedSession` |
| `List`, `RunnerStart`, `Subscribe`, `TakeAdded`, `TakeRemoved`, `StopAll`, `StopFound`, `RunnerClosed` | `Run`, the registry's callback; `TakeRemoved` and `StopAll` look for sessions, `StopFound` stops, in a critical section of its own, whatever the modem has by then |
| `Begin`, `Put`, `Prefer`, `RequestDetach`, `RequestStart`, `EndUse` | settings, reconnect, disconnect, any use of the client |
| `Report`, `Expire`, `Plug`, `Unplug`, `TunnelLost` | the browser, the broker, the modem, the network |

### WifiCalls

Of a session only its identity, whether it has a client, the dial it expects and
the token in its reconnect channel are kept (`session`); it comes and goes at any
time. `Lose` and `GiveUp` take its client away and fail the calls of the table, a
token that was left over closes the next client and fails none (`TakeToken`). `table` is `session.calls`,
`publishing` the event that the session's goroutine is saving, `closing` those
of whoever detached it. A request reads a row, looks the call up, asks the
network, and writes what it computed from the look: each of these is a step
(`Look`, `Act`, `Again`, `PublishOwn`, `SaveOwn`). `Saved` and `Overwrites` are
the statement of `SaveCallPreservingTerminal`.

### CallMedia

A bridge is closed by its socket, its peer connection, its timer or `Media`
(`closers`), which all go through `stop` once (`StopBegins`, `StopEnds`), wait
for the workers (`Waits`) and forget the bridge once. The callbacks of pion run
in goroutines of their own (part of `peer`), so that one may run after a later
one. `factory` counts generations of the codec factory.

### SimRefresh, EsimProfiles

`SimRefresh` is one loop, `ensureSIMVisible`, with a modem that goes
(`Goes`), comes back under a new path (`ComesBack`), and shows what its card
has, or an older profile, or none. A call of `PowerCycleSIMAndWait` is the same
loop after `Repower`; beside it `Poll` lists modems and `HandleSignal` tells it
of objects that go and come, and after it `Finds` and `Poll` look for another
object (`waitForReadyModem`). The registry (`reg`) is followed only while
somebody waits, since only the wait reads its map. `EsimProfiles` has the lock of the modem
(`holder`) apart from the clients that are open (`open`), because `Close` is
deferred and called early as well. An enable request passes `Resolve`, `Open`,
`Prepare`, `RestoreInternet`, `Switch`, `AwaitSim` (which makes a call of
`SimRefresh`), and again `Resolve`, `Open`, `ListNotifications`, `SendOne`. A
change of the number is `UpdateNumber` and the same `Awaited`, without the lock.
`req[r].confirm` is the buffered channel `confirmCh`.

### EsimTransfer

A transfer is at one place of the dialogue (`tr[t].pc`); `Event` is what the
carrier asks for next. `holder` are the locks of the places, `installed` and
`active` the cards, `sheets` the websheets of the broker. What the code does
under a lock that it takes and gives back is one step; the target's lock, which
is kept during the dialogue, is a state.

## 4. The runs

| Run | Question | Size of the instance |
|---|---|---|
| `routes_serial` | Is the default route a stack, does the host get its routes back, and does memory agree with what a restart would rebuild? | three modems, one operation at a time, one host route |
| `routes_overlap` | When takeovers and clean-ups of two modems overlap, are the routes that modems have at rest those of their connections, and has every takeover its plan on disk? | two modems, both taking the default route and giving it back, two operations at a time, one host route, no operation begins while a record has two changes |
| `routes_faults` | Can the host lose a route for good when a call fails or the machine restarts? | two modems in turn, two failing calls or lost bearers, two restarts of the machine |
| `routes_always_on` | Does an always-on modem come back? | one modem, one failure, one restart of process or machine |
| `presence` | One task for each modem that is there, none lost, none left, and does Run return? | two modems, one without an identifier, two paths, two changes, three tasks, a failing call, a stop at any point |
| `inbox` | Is every message kept, once, and forwarded, and does a deletion take only its own? | two messages received from two correspondents (one in parts, one late), one sent, a request, a failing call, a restart of Sigmo and one of ModemManager |
| `wifi` | Can every session be stopped, is nothing left behind, does it come back? | two sessions, two clients, a websheet, one retry, a request, a modem that moves once, a fault |
| `calls` | Does a record stay ended, keep its answer, and never wait for nobody? | one call, two requests, two sessions, a fault (failed save, crash or lost client) |
| `media` | Is every bridge released, before its codecs are? | one bridge with codec, four changes of its peer connection, four closers |
| `esim` | One client, no notification forgotten, no download without consent, and does every request end, a change of the number only with a new object of the modem? | two requests, two profiles, the modem goes once by itself, two failures, two answers; the number is changed while no other request runs |
| `transfer` | Is a source profile safe, are locks given back to nobody else's harm, and what may hold a transfer up? | two transfers in five plans over three places, three requests of the carrier, a failure |
| `proxy` | Does a client only ever use the interface of its user? | a client, two modems, two interface names, three settings, two requests, one change of settings, one restart, one failure |

Why these bounds are enough. Three modems are the fewest with one in the middle
of the chain of takeovers, the case `ChangesAfterRemoval` is for; more only make
the chain longer. Two modems are enough for an overlap of two operations, which
is what one mutex per modem fails to exclude. In `routes_overlap` each may take the
route from the host, from the other, or from both at once, so that a plan is made
from routes that another takeover or clean-up is moving; `MaxChanges` lets no
operation begin while a record has more than one change, which keeps the run within
its time and the metrics finite. Host routes have the metrics that
the code treats differently: 0 (no priority in the request), one as good as
`DefaultRouteMetric`, one better, one worse. One family is used, because the
plan for a family reads nothing of the other; it is IPv4, whose routes go with
their address. Section 6 has what happens in IPv6 after a restart, and with two
families when bearers differ in them. Two failures reach every error path, also the
one where a replacement and the undo of it are both refused; two restarts let a
record of the first be found by the second. For presence, two changes are a
reload, and two paths are enough for a modem to move and for another to get its
path. For messages, a late message, one in parts and one sent are the three
that the code treats differently. Two sessions are one and the one that replaces
it, which is all that identifiers and pointers tell apart; a retry is enough to
reach both ends of the loop of attempts. A call's row is shared by its events
and two requests, the fewest that overtake each other twice. Four changes take a
peer connection to connected, disconnected, connected again and failed. Two
eSIM requests and two transfers contend for every lock, and the five plans are
the ways in which two transfers can share a card: the same source, one after the
other, crosswise, the same target, and a modem that is both. A user with
two interface names sees a rebind, and two users with one name see a name that
goes to the other one. Three Serve goroutines are those of the settings before,
of the new ones that fail, and of the rollback.

`CHECK_DEADLOCK FALSE` stands where the system may stop: when the bounded
supply of changes, requests and messages is used up and everything is dealt
with, in `transfer` also when transfers cross, and in `routes_overlap` at the bound
on a record's changes. The other routes runs do check for deadlock, which shows that no operation is
left at a step that is not enabled.

Fairness. `InternetRoutes`: each started operation goes on (its calls return,
ModemManager and netlink answer or fail), `Recover` goes on to the next modem,
and the monitor's tick for a modem happens again and again, strongly fair
because the modem's lock is taken and released in between and a Go mutex is not
lost for ever to the others. Users are not fair: nothing depends on them.
`PresenceTask`: goroutines are scheduled, the mutex is released, and a task's
function returns once it is cancelled, which all three users of
`RunPresenceTask` do. It need not return otherwise, and signals need not come.
`SmsInbox`: the relay's goroutine runs, and the parts of a message come, unless
`LostParts` says that they may not. `WifiSession`: goroutines run, timers fire,
an attempt to connect ends and a client notices that its tunnel is lost; nobody
has to fill in a websheet. `CallMedia`: goroutines run and pion calls back, a
timer fires. `EsimProfiles`: a request goes on when the lock is free, each poll
of the wait happens, the modem that went comes back, and a browser is closed in
the end. The time limit of the wait is not fair: `EndInTime` says that it is
not needed when the profile is shown, or the modem has come back. Signals are
not fair either: the polls must do without them. `EsimTransfer`: the server's
steps, and a browser that reacts to a question or leaves. `InternetProxy`: a
dial ends (after 30 s), a session
that was taken is closed, a relay ends when its peer is closed.


## 5. The proofs

All proofs are for every value of the constants under the assumptions named in
the modules (`ConstantsAssumption`, `SignalsAssumption`, `PresenceAssumption`,
`InboxAssumption`, `WifiAssumption`, `CallsAssumption`, `MediaAssumption`,
`SimAssumption`, `EsimAssumption`, `TransferAssumption`: types of the constants,
modems and host interfaces disjoint, no two host routes in one place, names
distinct, calls numbered from 1). The bounds of a run are constants too, so a
theorem holds for any number of failures and restarts unless it names `OneAtATime`.

**InternetRoutes.** `WriteAheadRule`: a takeover that is moving routes has its
whole plan on disk. `WriteAhead` is not inductive: another modem's clean-up may
rewrite or delete records (`SyncRemoval`). What keeps it from touching this one
is that it rewrites only records of tracked connections and that a connecting
modem is not tracked. So `IInv` adds `Fresh` (while a takeover is ahead or under
way the modem is not tracked), `Back` (a clean-up knows where to go on, for it
may go on to a takeover) and `Booted` (nothing runs for a modem that startup has
not reached). `Fresh` fails for the monitor's takeover of a connection that is
tracked, and so does the rule, which is why it excludes `keep`.

`AllRestoredInSeries`, `DefaultWinsInSeries`, `RecoverReconstructsInSeries` and
`NoRouteLostInSeries` are about operations that follow each other while no call
fails and nothing restarts, on bearers that all have the same one family
(`OneAtATime`), for any number of modems, any routes of the host and any sequence
of operations: connections may take the default route from each other as often
as they like and go away in any order. Section 6 shows that failures, restarts,
overlapping operations and bearers of different families break some of the four.

Between operations `Settled` says everything: memory determines the kernel's
table (`KernelOf`: the host's routes with all changes of all connections applied,
and the own routes) and the records (`OnRecord`). For that to survive the next
operation the connections have to form chains (`Chained`): one that has moved
routes is the default route or was moved aside itself (`Linked`), by one
connection only (`Distinct`), never in a circle (`Ranked`); a change moves a
route of the host or, alone, that of a modem (`Sound`); no two routes have one
metric (`Unique`). Four lemmas say what an operation does to a chain, whatever
its length: `TakenOver` (a new default route), `JoinsLast` (a connection beside
it), `Restored` (the default route goes, the one below is promoted) and `Removed`
(one from the middle goes, whoever had moved it inherits what it had moved).

In the middle of an operation the three disagree, and `SerialInv` says by how
much: for each place of the one modem that is busy a predicate (`Phase`) gives
the kernel's table and the records in terms of the connections before
(`Unrouting`, `Restoring`, `Deleting`, `Dropping`: so many changes taken back;
`Moving`: so many applied) or after (`Leaving`, `Adding`, `Saving`, `Tracking`).
Each step has a lemma that leads from its predicate to the next one. That no
metric is taken when a route is moved, put back or added, so that no step ends
in its error path, is part of these proofs.

`LastComeFirstServedInSeries`, under the same restriction: `InternetRoutes`
implements `DefaultRouteStack`, step by step. The refinement mapping `Chain` reads
the stack off memory and is a `CHOOSE`, so the first thing to prove is that there
is nothing to choose: if a sequence lists the holders such that each took the
route from the next one and from no other, and nobody took it from the first
(`Lists`), then it is the chain (`OnlyList`; the first place where two lists
differ would be one connection that took from two). The invariant `Ordered` says
that there is such a list at every step, and what each place of an operation has
to know for its next step to keep it (`Known`): that a planned takeover moves the
route of the default connection and no other (`TakesTop`), that nobody took from
a modem about to be tracked (`TakesNone`), that whoever a leaving connection took
the route from has it back, or was inherited (`Gives`). Then `Track` puts a modem
on top (`Pushed`), `Forget` takes the default connection off the top and
`SyncRemoval` another one from its place (`Dropped`), and no other step is seen:
not `Commit`, which demotes the default connection while the new one is not
tracked yet, nor `SyncRestore`, which promotes the next one while the old one
still is. That is why `Holders` counts who is being taken from (`Taking`), and who
was taken from by a connection that is still tracked.

**InternetProxy.** `TrackedAreBound`, `PortsAreWanted`, `UsersAreRemembered`: who
is tracked is bound, what is open is wanted, who is registered is remembered. The
three share one `IInv`, of parts that hardly touch. `Sound` is about the
listeners: one that is open is the current one of its kind (`Owned`), and there
are two of them, with a password and a user, or none (`Wanted`). The lemmas under it say
what stopping (`StopIs`), starting (`StartIs`) and the two settings of
`UpdateConfig` (`UpdateConfigIs`) make of any proxy, whichever ports are refused;
`Room` gives each start a goroutine of its own. `Served` is about the clients:
`Formed` says what a client holds at each place, `Fits` that its interface and
its password are those of now from the place on where it has read them, unless it crossed a
change; `Rebound` shows that a change of one binding takes the sessions of its user and
marks those who are under way. The rest is about the connector. `Bound` and
`Ports` do not need it, `Remembered` does: a record disappears with the clean-up
of another modem unless no two modems hold one name (`Exclusive`: as bearer, as
tracked connection or in the middle of a connect), and at each place of an
operation `WellBound` says what it has made of the binding of its modem. So a step
of one modem (`Local`) leaves what the others are registered by (`LocalKeeps`).
Stated of every registered modem, also of one with neither a tracked connection
nor a bearer, `Remembered` would be false with two failures (section 6), though it
holds with the one of the run: the attempt to prove it showed that.

**PresenceTask.** `OneForEach`, `NoneLost`, `ReturnsClean`. `IInv` adds that the
three maps say the same (`MapsAgree`), that a stored task works for the path it
is stored at (`WellStored`), that a task that is not over is stored or doomed
(`WellKept`), what each thread holds past the mutex (`WellHeld`) and how far Run
has come (`Course`). With them, two tasks for one modem would be stored at two
paths for it, which `MapsAgree` excludes; and when `stopped` is set the maps are
empty, so every task left is doomed and `wg.Wait` waits for it.

`ServedAll` is about what is under way, and needs a second invariant, `Informed`,
on top of `IInv`. For a modem that is present (`Expected`): a signal that brings
it is still to come and none after it takes it away again (`Announced`); or that
signal is being handled; or it has its task, or Run is about to add it
(`RunWill`), and nothing in the queue or in the hands of the loop undoes that.
For one that has gone (`Dismissed`): after everything that brings it comes the
signal that takes it away. A step of Run only trades `RunWill` for a task, a step
of the loop moves the first signal on; the step that needs the maps is `addModem`
for another modem, which would take a task away if the maps could disagree.
`WellLive` says that ModemManager gives no path twice, `WellListed` that what is
on the list has not gone while it is used, which is where `QuietList` comes in.

**SmsInbox.** `StoredOnce`, without a restriction: a row and a copy of the same
received message differ at most in their path, because a message of one part is
whole in every copy (`Single`), so the fingerprint stops the second one.
`NoneLost` and `DeletesOwn` speak of the time before ModemManager first restarts
(section 6 has what happens after). They rest on `Sure`: copies of messages are
on the modem, in the table and in the hands of the relay and of requests; all of
them have paths that were given (`Below`), and one path stands for one message
(`OnePath`), so a conflict is with a row of the same message; a message leaves
the modem only with its row (`OnModem`, `Deleting`).

**WifiSession.** `AllStoppable`, `NothingLeftBehind`, `ShownHonestly`: whoever
still runs is in the map or about to be cancelled; every websheet, and every client
that has its tunnel, has a session or goroutine that will close it; and what is shown as connected has
the client that its goroutine watches, or has just lost. The three are not inductive, not even together: a goroutine
writes under its identifier after it has waited, and the session in the map may
be another one by then. `WellNamed` says that an identifier which was taken out
never comes back and that the one in the map has a goroutine nobody has
cancelled; `WellHeld` what a goroutine or request has at its place; `WellShown`
that a websheet is shown only while the goroutine of that session waits for it,
so a late answer changes nothing of its successor.

**WifiCalls.** `BackedAlways`: a record that says that a call goes on has somebody
who will end it. `EndedStays` and `AnswerStays` are action properties: the end of
a record is not undone, the time of an answer not lost, whatever the order of the
saves. For `BackedAlways` it is not enough to look at the records, because a
request or the session's goroutine may be about to write what it computed before
the call ended. So `WellCovered` says the same of everything that is about to be
written, and `Covered` counts those who are about to write the end (`Ending`);
then a save of an old state is followed by the end, or was preceded by it and
refused by `Saved`. `WellMade` says that each of them holds a whole record.

**CallMedia** (in `Calls_proof` too, its names begin with `Media`). `CodecsOutlived`: no bridge that works uses a codec of a factory
that was closed; `LeavesNone`: when Media has closed nothing of a bridge goes on, unless
its socket has just made it and is about to close it.
`MediaIInv` has, for each bridge, that nothing happens to it before it is made
(`WellOpened`), how far its socket is with it (`WellServed`), and that a bridge that
is connected, or will be, is one that Media can close (`WellStopped`); for Media,
that every bridge registered by then is still on its list or closed, and that the
factory comes last (`WellMedia`). Factories are numbered upwards (`WellFactory`),
so a new one is never among the closed.

**EsimProfiles.** `OneAtATime`, `ReportsOwn`, `AgreedTo`: one client per modem, the
notification of a switch is sent or was tried and the one from before stays on the
card, nothing is downloaded without a yes. `IInv` says who has the lock at which place
(`WellPlaced`, `WellLocked`), with which an enable that gives the lock back while
it waits for the SIM opens its second client only once it has it again; that
the last number seen was taken before the profile was switched, so the own
notification is newer and stays until somebody has sent it (`WellReported`); and
that the first answer of the browser stays in its channel until the question
(`WellAnswered`). Objects of the modem are numbered in the order they come
(`WellNumbered`); a change of the number waits for a later one (`WellAwaited`).

**EsimTransfer.** `KeepsNothing`: no lock, no client and no websheet is kept past
its place. `KeepsSource`: the source's profile is deleted only when its owner
said yes or has left. `LosesOnlyTheLast` is an action property: a card loses the
profile in use only to the transfer of that line, and only if it has no other, or
had none that the transfer saw. `NothingKept` is inductive as it stands, with the types. For
the other two `IInv` adds when the agreement was given, at every place from which
the deletion follows, also through an enable of another profile (`WellAgreed`), and
what the transfer saw when it decided not to check (`WellSeen`).

Each `IInv`, `Informed`, `SerialInv` and `Ordered` was model-checked before it was proved.

Only model-checked: of `InternetRoutes` `HostRoutesBack` with restarts, for IPv4
(it is not true for every value of the constants: section 6 has what a restart
of the machine does to it in IPv6, and without restarts, one operation
at a time, it follows from `AllRestored`; `routes_faults` with three modems, one
host route, no failure and one restart passes too, in about a minute),
`RoutedWhileTracked` for operations that overlap (`routes_overlap`; like
`HostRoutesBack` it is not true for every value of the constants: it needs IPv4
and no failure) and `NoRouteLost` with failing calls, fewer than four (section
6). `DefaultWins` is proved of operations in series and in no run; with the
configuration of `routes_serial` it passes as well. Liveness (`Reconnects`, `Returns`, `Forwarded`,
`CallbackReturns`, `Released`, `EndInTime`, `TransfersEnd`, `Dropped`) is out of
the prover's reach.

## 6. What does not hold, or is excluded

Reading the code for the models, and running them without the conditions that
the properties state, shows the following behaviours. No run expects them; each
is named with the condition that keeps it out.

Internet routes. All but the last can be seen by changing the configuration named.

| Property | Configuration and change | What happens |
|---|---|---|
| `DefaultWins` | `routes_serial`: `FamiliesOf <- OnlyAIsIPv4`, `Families = {4, 6}`, the invariant in place of the others | a modem with IPv4 only takes the default route from one with both families, which is demoted in IPv4, keeps the default route in IPv6 and still counts as the default, as the best of its routes decides (`bearer_config.go:553`, `connection.go:708`) |
| `NoRouteLost` | `routes_faults`: `Restarts = {FALSE}`, `MaxCrashes = 1`, `MaxFaults = 0` | the process stops after the host's routes were moved and before an own route is in place; startup adopts the bearer as no default route and a later disconnect drops the record without restoring (`connection.go:510`) |
| `NoRouteLost` | `routes_faults`: `Modems = {a}`, `HostRoutes <- OneHostRoute`, `Restarts = {}`, `MaxCrashes = 0`, `MaxFaults = 4` | the replacement of the moved route, its undo, the restore and the disconnect of the bearer are all refused; a status request adopts the bearer, still connected, as no default route, and a later disconnect drops the record without restoring (`connection.go:510`) |
| `NoRouteLost` | `routes_overlap`: `MaxChanges = 9`, the invariant in place of the others | two modems take the default route at once; each plans from what the other is moving (`default_route.go:44`) |
| `DefaultWins` | `routes_overlap`, the invariant in place of the others | both plan to move the host's route; the second one finds it moved, is refused the same fallback metric, and undoes its move by adding the host's route again, which is better than that of the first (`default_route.go:63`) |
| `AllRestored` | `routes_overlap`, the invariant in place of the others | a modem plans to move the route of a connection that is just going; the route is gone and so is its address, the plan can neither be carried out nor undone, and the record stays when both have gone (`default_route.go:104`) |
| `RoutedWhileTracked` | `routes_overlap`: `Families = {6}`, or `MaxFaults = 1` | a route that another modem's takeover moved or put back during the clean-up of its connection outlives it, in IPv6, where it does not go with the address; a bearer that is lost takes its route away, and its connection is tracked until the next request |
| `DisconnectClears` | `routes_overlap`: `Requests <- AlwaysDefault`, the invariant in place of the others | a disconnect has cleared "always on", then another modem's promotion or demotion writes it again from memory (`connection.go:605`) |
| `HostRoutesBack` | `routes_faults`: `Families = {6}`, `HostRoutes <- OneHostRoute`, `MaxFaults = 0`, `MaxCrashes = 1`, the invariant in place of the others | the machine restarts while `b` takes the default route from `a`. The record of `b` survives; when `a` is up again, restoring it adds a default route of `a` that nobody has asked for (`default_route.go:197`). No connection owns that route. IPv4 would drop it with the address of `a`; in IPv6 it stays, and after some reconnects the always-on monitor takes it for the connection's own (`bearer_config.go:553`). The change by which `b` moved the real route of `a` then names no route of a connection, so when `a` goes, its changes find no heir, and the host's route keeps the metric it was moved to |
| `Reconnects` | two modems | a record that moved another modem's route cannot be restored while that modem has no address, and every reconnect fails at that record (`default_route.go:197`) |

Proxy.

- A client that authenticated before the interface, the user or the password
  changed may get a connection that is tracked after it (`proxy.go:302`; `crossed`
  in `Bound`).
- A rollback of `UpdateConfig` may fail because a server that was closed before
  its Serve goroutine had begun still has the port; a pair that failed to restart
  in `handleServeExit` is not tried again.
- The settings are saved before they are applied; when that fails the database
  has what does not run.
- The proxy record of an interface that now is another modem's makes that
  modem's connect fail, or registers the old user at the next start.

- A status request that cannot read the bearer forgets the connection and leaves
  its user registered (`connection.go:268`). When that bearer is lost as well,
  another modem may get the name of its interface, and the record under it is
  deleted or becomes that modem's: the user stays registered for it until the next
  operation on the own modem or a restart. `Remembered` asks for a connection that
  is tracked or a bearer that is up.

Presence and messages.

- A modem that comes or goes while Run uses its list may have a task at a path
  that is gone, or none (`QuietList` in `Served`; `presence_runner.go:142`).
- The SIM of an added modem is not read within five seconds: the modem is dropped
  and no subscriber hears of it (`faults = 0` in `Served`; `registry.go:655`).
- After a restart of ModemManager a message may get the path another was stored
  under; its row conflicts and is dropped (`restarts = 0` in `NothingLost`;
  `storage.go:78`, `messages.go:55`). A conversation is deleted by the paths its
  rows were stored with, which may then be those of another (`DeleteOwn`;
  `messenger.go:103`).
- A page stores a message before the relay does, and the relay does not forward
  it; or it stores one whose parts have not all come, and the text stays so; or
  it inserts one that was deleted since it listed it (`Undisturbed` in
  `Forwarded`; `messenger.go:204-212`).
- A message whose last part is lost holds up every later one of the modem
  (`LostParts`; `messaging.go:163`).

Wi-Fi calling and calls.

- A session whose attempts are exhausted, or for which no websheet could be
  created, stays in the map as connecting, and `start` does nothing for its modem
  (`gaveUp` in `Reconnects`; `connect.go:135`).
- A websheet that expires leaves the goroutine waiting for a callback that nobody
  can send; only a restart or stop of the session ends it.
- A token in the reconnect channel that was not taken closes the next client,
  which is healthy, and leaves the calls of that client in the table as they were:
  they end with the session, or when the client after it is lost
  (`connect.go:252`; `TakeToken`).
- `watchClient` closes a client that reports its failure, but returns without
  closing it when one of the client's channels has been closed first
  (`connect.go:214-241`). `NoOrphans` speaks of clients that have their tunnel: one
  that has lost it may be left behind unclosed.
- `stopByPath` and `stopAll` look for sessions in one critical section and stop them
  by the identifier of their modem in the next (`connect.go:485-499`): what is
  stopped may be a newer session, at another path.
- `startIfEnabled` reads the settings before it starts; a user who disables in
  between has a session. `startEnabled` lists the modems before it subscribes.
- A record that was deleted is written again by a late event or answer, with
  whatever state that has (`StaysEnded` allows for the deletion). Of two saves of
  a call that is not over the older may come last: a hold, an answer or a dial
  computes from what it read before the network answered (`voice.go:288`).
- Hanging up while a call is being dialled ends the record but not the call.
- Rows of calls that were live at a crash, or whose last save failed, stay live
  (`excused` in `Backed`).
- A viewer's channel that is full drops events, also the last one
  (`call_events.go:34`).
- A timer that has fired for a connection that came back may forget a newer
  timer; a bridge that Media closes before its `onClose` is set stays in the map;
  a codec factory made after Media has closed is never closed.

eSIM.

- `SendNotification` with removal takes a notification from the card also when
  it could not be sent (`internal/pkg/lpa/lpa.go:302`); `Reported` says `tried`.
- The modem's lock is held while a download waits for a person.
- A change of the number waits for another object of the modem also when
  ModemManager has kept the one it had through the restart of the SIM; then only
  the time limit ends it, with an error, though the number was changed
  (`internal/pkg/modem/registry.go:533`; `Served` in `EndInTime`). The addition of the object that
  the request had found, handled late, is taken for a new one once a list was
  without it.
- Nothing keeps an eSIM request and a change of the number apart, which restarts
  the SIM under it; the run does (`Alone`).
- The always-on monitor may connect between the Restore and the switch of the
  profile; the one refresh or reload may be spent on a modem object that is gone.
- `confirmSourceDeletion` (`pro/esimtransfer/ws_prompts.go:36`) returns the error
  of the context when no answer came; when the browser has left and the context
  is still good that is nil, and the source profile is deleted though nobody said
  yes (`link = "left"` in `SourceKept`). An answer that was sent before the
  question counts.
- Two transfers that cross, from A to B and from B to A, may each keep the lock of
  its target and wait for the other's, for ever. The run has such a plan and reaches
  that state; `TransfersEnd` names it (`HeldUp`). `openSource` reads the card of the
  source without its lock.
- A websheet that is abandoned keeps the transfer, and with it the target's lock,
  for which another transfer may wait (`Abandoned` and `HeldUp` in `TransfersEnd`).

## 7. Abstractions, and what is not modelled

InternetRoutes
: One interface per bearer and one profile per modem. Addresses are one flag;
  removing them always succeeds, takes the IPv4 routes of the interface with it,
  as the kernel does with routes whose source they are, and is part of the step
  before it. A list of changes is visited in the order in which the kernel dumps
  routes. Of the preferences only DefaultRoute and AlwaysOn are there: APN and
  DNS are left out, the proxy is in InternetProxy. The flushing of the
  interface's addresses in a stale clean-up is left out. The retries of `connectBearerAfterRecovery` are
  one outcome. When the machine restarts the host gets its original routes. A
  request context that is cancelled in the middle (`bearer_config.go:154`) is not
  modelled. `MaxBusy`, `MaxFaults`, `MaxCrashes` and `MaxChanges` bound overlap,
  failures, restarts and the changes of a record beside which operations begin.

InternetProxy
: Routes and addresses are in InternetRoutes; the preference is never always on;
  a bearer is the name of its interface, and a name goes to another modem only
  when no tracked connection has it. One request saves settings at a time. The
  protocols (HTTP CONNECT and forwarding, SOCKS5 with UDP) are what they do to a
  session: authenticate, dial, end.

ModemSignals, PresenceTask
: An identity of a task is used again once the task is over. Signals arrive in
  order; the connection's overflow beyond ten of them is not modelled. Reading
  the details of an added modem fails, in five seconds or at once, as one
  outcome of `Handle`. `Registry.Close` is not modelled. `QuietList` restricts
  the environment: no modem comes or goes while Run uses its list.

SmsInbox
: One modem with one profile. A list is read at one moment. Sender, text and
  time are one value, and a message not yet whole has another text than the
  whole one. Insertions do not fail. A restart of ModemManager ends what the
  relay was doing, as the modem's new object replaces the old one, or leaves it and
  its subscription, as when the object has the same path (`relay.go:119`). An SMS that
  was sent may or may not survive such a restart; one that does has no time of
  its own and is stored again, so `OneRow` speaks of received ones. Delivery
  reports of messages over Wi-Fi calling, and calls, are not there.

WifiSession
: One modem; sessions of others share only the lock and the counter. A client is
  up, down or closed; its channels are assumed to close only when it has failed or
  was closed. What a request does with it (SMS, USSD, a call) is one use.
  Emergency addresses (E911) and delivery reports are not modelled.

WifiCalls
: The states are those the code tells apart; hold and reason are not kept, of the
  times only that of the answer. DTMF, the choice of a route, and the viewers of
  events are not modelled.

CallMedia
: A socket opens one bridge. Candidates, descriptions, packets and codecs are not
  kept: throughput and signal processing are outside a model checker's reach.

SimRefresh, EsimProfiles, EsimTransfer
: One SIM slot and one secure element; the change of the SIM slot, which waits in
  the same way, is not there. The AT commands that write the number are one
  call. A signal is handled and its subscribers called in one step. The confirmation code of a download is
  answered like its confirmation and is left out; so are nicknames and discovery.
  In a transfer, what the code does under a lock it gives back is one step, and
  the wait for a SIM succeeds or fails.

Not modelled at all: the dialer, APN and IP lookup (no state of their own); the
wrappers of ModemManager's objects and AT commands (calls and conversions of
their results); notification channels (a request each); USSD; authentication,
the rest of the settings and network preferences (planned, section 2); the web
client.
