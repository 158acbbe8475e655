--------------------------- MODULE InternetProxy ---------------------------
(***************************************************************************)
(* The proxy of the internet connections (internal/pkg/internet/proxy*.go) *)
(* with the connector that registers modems in it: one HTTP and one SOCKS5 *)
(* listener for all of them, a user for each modem, and every connection a *)
(* client opens bound to the interface of its user's modem.                *)
(*                                                                         *)
(* One step is one critical section of Proxy.mu, with the database calls   *)
(* of the connector before it, or what a connection does outside of it. A  *)
(* connection reads its user's interface, dials without the lock and is    *)
(* tracked afterwards; sessions an operation takes are closed after it has *)
(* released the lock; an HTTP server that is closed before its Serve       *)
(* goroutine has begun leaves its listener to that goroutine.              *)
(*                                                                         *)
(* Abstractions: routes, addresses and preferences are in InternetRoutes;  *)
(* the preference is never always on; a bearer is the name of its          *)
(* interface; a slot is one client of the proxy, a TCP connection or a UDP *)
(* association with one target; a name goes to another modem only when no  *)
(* connection the connector tracks has it any more.                        *)
(***************************************************************************)
EXTENDS Naturals, FiniteSets

CONSTANTS
  Modems,      \* modems, the user names of the proxy
  Interfaces,  \* names of network interfaces
  NamesOf,     \* the names the interface of each modem may get
  None,        \* no interface, no modem
  Configs,     \* proxy settings: [password |-> "" or a password, port |-> a pair of ports]
  First,       \* the settings to begin with
  Slots,       \* clients of the proxy at the same time
  Servers,     \* bound: Serve goroutines of one kind at the same time
  MaxRequests, \* bound: requests to the connector
  MaxUpdates,  \* bound: settings saved
  MaxRestarts, \* bound: restarts of the process
  MaxFaults    \* bound: calls that fail, listeners and bearers that are lost

ASSUME ProxyAssumption ==
  /\ None \notin Modems \cup Interfaces
  /\ NamesOf \in [Modems -> SUBSET Interfaces]
  /\ First \in Configs
  /\ \A n \in {Servers, MaxRequests, MaxUpdates, MaxRestarts, MaxFaults} : n \in Nat

VARIABLES
  proxy,    \* the Proxy: config, active, the current servers and the sockets
  slots,    \* the clients of the proxy
  records,  \* the modem each interface's proxy record names
  bearers,  \* the interface of each modem's connected bearer
  tracked,  \* the interface of each connection the connector tracks
  ops,      \* the connector's operation on each modem
  saved,    \* the proxy settings in the database
  update,   \* the settings a request has saved and not applied yet, or None
  boot,     \* modems the start of the process has not recovered yet
  spent     \* what the bounds have been used up by

vars == <<proxy, slots, records, bearers, tracked, ops, saved, update, boot, spent>>

Kinds    == {"http", "socks5"}
ServerId == 1..Servers

\* waiting: Serve has not begun; orphan: closed before it began, the listener
\* is still open; failed: Serve ended by itself and handleServeExit follows.
SocketStates == {"none", "waiting", "serving", "orphan", "failed"}
Socket       == [is : SocketStates, port : {c.port : c \in Configs}]

Proxies == [config : Configs, active : [Modems -> Interfaces \cup {None}],
            current : [Kinds -> ServerId \cup {0}],
            sockets : [Kinds -> [ServerId -> Socket]]]

\* crossed: the binding or the settings changed between the client's
\* authentication and the tracking of its connection (history).
Slot == [over : {"tcp", "udp"}, user : Modems \cup {None},
         password : {c.password : c \in Configs} \cup {""},
         pc : {"free", "ready", "dialing", "tracked", "taken"},
         interface : Interfaces \cup {None},
         relay : {"none", "tracked", "taken", "over"}, crossed : BOOLEAN]

Operation == [pc : {"idle", "cleaned", "bound", "saved"}, proxy : BOOLEAN,
              interface : Interfaces \cup {None}]
Idle      == [pc |-> "idle", proxy |-> FALSE, interface |-> None]

TypeOK ==
  /\ proxy \in Proxies
  /\ slots \in [Slots -> Slot]
  /\ records \in [Interfaces -> Modems \cup {None}]
  /\ bearers \in [Modems -> Interfaces \cup {None}]
  /\ tracked \in [Modems -> Interfaces \cup {None}]
  /\ ops \in [Modems -> Operation]
  /\ saved \in Configs
  /\ update \in Configs \cup {None}
  /\ boot \subseteq Modems
  /\ spent \in [requests : 0..MaxRequests, updates : 0..MaxUpdates,
                restarts : 0..MaxRestarts, faults : 0..MaxFaults]

MayFail   == spent.faults < MaxFaults
Failed(n) == spent' = [spent EXCEPT !.faults = @ + n]

\* The processes that are not the connector: what they leave alone.
connector == <<records, bearers, tracked, ops, saved, update, boot>>

FreeSlot == [over |-> "tcp", user |-> None, password |-> "", pc |-> "free",
             interface |-> None, relay |-> "none", crossed |-> FALSE]

NewProxy(config) ==
  [config |-> config, active |-> [m \in Modems |-> None], current |-> [k \in Kinds |-> 0],
   sockets |-> [k \in Kinds |-> [n \in ServerId |-> [is |-> "none", port |-> config.port]]]]

-----------------------------------------------------------------------------
(* The listeners: functions from a proxy to the proxy after the call. *)

InUse(p, kind, port) ==
  \E n \in ServerId : p.sockets[kind][n].is \in {"waiting", "serving", "orphan"}
                      /\ p.sockets[kind][n].port = port

Unused(p, kind) == {n \in ServerId : p.sockets[kind][n].is = "none"}
NextId(p, kind) == CHOOSE n \in Unused(p, kind) : \A k \in Unused(p, kind) : n <= k
Active(p)   == {m \in Modems : p.active[m] # None}
Started(p)  == \A kind \in Kinds : p.current[kind] # 0

\* Listen on the port of one kind and start the Serve goroutine.
Listen(p, kind) ==
  LET n == NextId(p, kind) IN
  [p EXCEPT !.current[kind] = n,
            !.sockets[kind][n] = [is |-> "waiting", port |-> p.config.port]]

\* A closed HTTP server closes the listeners its Serve knows; the SOCKS5
\* listener is closed itself. A goroutine that failed still reports it.
Shut(kind, is) == CASE is = "waiting" -> IF kind = "http" THEN "orphan" ELSE "none"
                    [] is = "serving" -> "none"
                    [] OTHER          -> is

\* stopLocked
Stop(p) ==
  [p EXCEPT !.current = [kind \in Kinds |-> 0],
            !.sockets = [kind \in Kinds |-> [n \in ServerId |->
               IF p.current[kind] = n
               THEN [p.sockets[kind][n] EXCEPT !.is = Shut(kind, @)]
               ELSE p.sockets[kind][n]]]]

Refuses(p, kind, refused) == refused = kind \/ InUse(p, kind, p.config.port)

\* Mutant of Start: the HTTP listener stays when the SOCKS5 one fails.
StartHalf(p, refused) ==
  IF Refuses(p, "http", refused) THEN p
  ELSE IF Refuses(p, "socks5", refused) THEN Listen(p, "http")
  ELSE Listen(Listen(p, "http"), "socks5")

\* startLocked; refused: the kind whose port another program has, if any.
Start(p, refused) ==
  IF Refuses(p, "http", refused) THEN p
  ELSE IF Refuses(p, "socks5", refused) THEN Stop(Listen(p, "http"))
  ELSE Listen(Listen(p, "http"), "socks5")

\* Enough goroutines for every start of one step.
Room == \A kind \in Kinds : Cardinality(Unused(Stop(proxy), kind)) > 1

\* ensureStartedLocked
EnsureStarted(p, refused) == IF Started(p) THEN p ELSE Start(Stop(p), refused)

-----------------------------------------------------------------------------
(* The sessions. *)

\* takeUserSessionsLocked, takeAllSessionsLocked: of the given users.
Take(users) ==
  [s \in Slots |->
     IF slots[s].user \notin users THEN slots[s]
     ELSE [slots[s] EXCEPT !.pc = IF @ = "tracked" THEN "taken" ELSE @,
                           !.relay = IF @ = "tracked" THEN "taken" ELSE @]]

\* What becomes of the slots: the sessions of some users are taken, and the
\* clients of the users the step concerns that are not tracked yet cross it.
Taking(users, concerned) ==
  slots' = [s \in Slots |->
    [Take(users)[s] EXCEPT !.crossed =
       @ \/ (slots[s].user \in concerned
            /\ (slots[s].pc \in {"ready", "dialing"} \/ slots[s].relay # "none"))]]

-----------------------------------------------------------------------------
(* What the connector asks of the proxy. *)

\* Register, with the password checked: fails when the listeners do.
Register(m, i, refused) ==
  LET bound == [proxy EXCEPT !.active[m] = i]
      next  == EnsureStarted(bound, refused)
      ok    == proxy.config.password # "" /\ Started(next)
  IN /\ proxy' = IF proxy.config.password = "" THEN proxy
                 ELSE IF ok THEN next
                 ELSE [next EXCEPT !.active[m] = proxy.active[m]]
     /\ Taking(IF ok /\ proxy.active[m] \notin {None, i} THEN {m} ELSE {},
               IF ok /\ proxy.active[m] # i THEN {m} ELSE {})

Registers(refused) == proxy.config.password # "" /\ Started(EnsureStarted(proxy, refused))

\* Mutant of Unregister: the sessions of the user go on.
UnregisterOnly(m) ==
  LET next == [proxy EXCEPT !.active[m] = None] IN
  /\ proxy' = IF Active(next) = {} THEN Stop(next) ELSE next
  /\ Taking(IF Active(next) = {} THEN Modems ELSE {}, {m})

Unregister(m) ==
  LET next == [proxy EXCEPT !.active[m] = None] IN
  /\ proxy' = IF Active(next) = {} THEN Stop(next) ELSE next
  /\ Taking(IF Active(next) = {} THEN Modems ELSE {m}, {m})

\* The calls that fail in one step of the connector.
Deleted(gone, failed) ==
  records' = [i \in Interfaces |-> IF i \in gone /\ ~failed THEN None ELSE records[i]]

\* Mutant of CleanupProxy: the record goes, the user stays.
CleanupRecord(m, i, failed) == Deleted({i}, failed) /\ UNCHANGED <<proxy, slots>>

\* cleanupProxy: the user is unregistered also when the record stays.
CleanupProxy(m, i, failed) == Deleted({i}, failed) /\ Unregister(m)

\* cleanupStaleConnectionState: the stale interface, then cleanupProxyForModem,
\* which does not get to the proxy when it cannot list the records.
CleanupStale(m, stale, failed) ==
  IF failed /\ stale = {} THEN UNCHANGED <<records, proxy, slots>>
  ELSE /\ Deleted(stale \cup (IF failed THEN {} ELSE {i \in Interfaces : records[i] = m}), FALSE)
       /\ Unregister(m)

-----------------------------------------------------------------------------
(* The operations of the connector on one modem, under its lock. *)

At(m, pc)   == ops[m].pc = pc
Goto(m, op) == ops' = [ops EXCEPT ![m] = op]

\* A call of the step fails: the record's, the bearer's or the port's.
Faults(kinds) == {"none"} \cup (IF MayFail THEN kinds ELSE {})
Cost(f)       == IF f = "none" THEN 0 ELSE 1

Request(m, f) ==
  /\ boot = {} /\ At(m, "idle") /\ spent.requests < MaxRequests
  /\ spent' = [spent EXCEPT !.requests = @ + 1, !.faults = @ + Cost(f)]

Names(m) == {i \in NamesOf[m] :
               \A o \in Modems \ {m} : i \notin {bearers[o], tracked[o], ops[o].interface}}

\* disconnect: the connection is forgotten whatever fails.
Disconnected(m, f) ==
  LET i == IF tracked[m] # None THEN tracked[m] ELSE bearers[m] IN
  /\ IF i # None THEN CleanupProxy(m, i, f = "record")
                 ELSE CleanupStale(m, {}, f = "record")
  /\ tracked' = [tracked EXCEPT ![m] = None]
  /\ bearers' = [bearers EXCEPT ![m] = IF f = "bearer" THEN @ ELSE None]

Disconnect(m) ==
  \E f \in Faults({"record", "bearer"}) :
    /\ Request(m, f) /\ Disconnected(m, f)
    /\ UNCHANGED <<ops, saved, update, boot>>

\* connect begins with disconnect and is over when that fails.
Connect(m, enabled) ==
  \E f \in Faults({"record", "bearer"}) :
    /\ Request(m, f) /\ Disconnected(m, f)
    /\ Goto(m, IF f = "none" THEN [Idle EXCEPT !.pc = "cleaned", !.proxy = enabled] ELSE Idle)
    /\ UNCHANGED <<saved, update, boot>>

\* The bearer comes up on interface i; syncProxyPreference registers the modem
\* or, without the preference, cleans up.
Bind(m, i) ==
  \E refused \in Faults(Kinds) :
    /\ At(m, "cleaned") /\ i \in Names(m) /\ Room
    /\ IF ops[m].proxy
       THEN /\ Register(m, i, refused)
            /\ records' = IF Registers(refused) THEN records ELSE [records EXCEPT ![i] = None]
       ELSE refused = "none" /\ CleanupProxy(m, i, FALSE)
    /\ IF ops[m].proxy /\ ~Registers(refused)
       THEN Goto(m, Idle) /\ UNCHANGED bearers
       ELSE /\ Goto(m, [ops[m] EXCEPT !.pc = "bound", !.interface = i])
            /\ bearers' = [bearers EXCEPT ![m] = i]
    /\ Failed(Cost(refused))
    /\ UNCHANGED <<tracked, saved, update, boot>>

\* Connecting the bearer or configuring its interface fails.
NoBearer(m) ==
  /\ At(m, "cleaned") /\ MayFail /\ Failed(1) /\ Goto(m, Idle)
  /\ UNCHANGED <<proxy, slots, records, bearers, tracked, saved, update, boot>>

\* saveProxyStateForModem: refused when the record is another modem's; the
\* modem's other records go.
Save(m) ==
  LET i == ops[m].interface IN
  /\ At(m, "bound")
  /\ ops[m].proxy => records[i] \in {None, m}
  /\ records' = IF ~ops[m].proxy THEN records
                ELSE [r \in Interfaces |-> IF r = i THEN m
                                           ELSE IF records[r] = m THEN None ELSE records[r]]
  /\ Goto(m, [ops[m] EXCEPT !.pc = "saved"])
  /\ UNCHANGED <<proxy, slots, bearers, tracked, saved, update, boot, spent>>

\* The record is refused or a later part of connect fails: cleanupTracked,
\* and the bearer is disconnected. The record may stay.
Abandon(m) ==
  LET i == ops[m].interface
      conflict == At(m, "bound") /\ ops[m].proxy /\ records[i] \notin {None, m}
  IN \E f \in Faults({"call", "record"}) :
       /\ At(m, "bound") \/ At(m, "saved")
       /\ conflict \/ f # "none"
       /\ CleanupProxy(m, i, f = "record")
       /\ Failed(Cost(f)) /\ Goto(m, Idle)
       /\ bearers' = [bearers EXCEPT ![m] = None]
       /\ UNCHANGED <<tracked, saved, update, boot>>

Finish(m) ==
  /\ At(m, "saved")
  /\ tracked' = [tracked EXCEPT ![m] = ops[m].interface]
  /\ Goto(m, Idle)
  /\ UNCHANGED <<proxy, slots, records, bearers, saved, update, boot, spent>>

\* current, by what it finds of the connection. The bearer cannot be read:
\* the connection is no longer tracked and the proxy stays as it is.
Unreadable(m) ==
  /\ tracked[m] # None /\ MayFail
  /\ Request(m, "call")
  /\ tracked' = [tracked EXCEPT ![m] = None]
  /\ UNCHANGED <<proxy, slots, records, bearers, ops, saved, update, boot>>

\* The bearer is known and down: the connection is kept when its record is.
Down(m) ==
  \E f \in Faults({"record"}) :
    /\ tracked[m] # None /\ bearers[m] = None
    /\ Request(m, f)
    /\ CleanupProxy(m, tracked[m], f = "record")
    /\ tracked' = [tracked EXCEPT ![m] = IF f = "none" THEN None ELSE @]
    /\ UNCHANGED <<bearers, ops, saved, update, boot>>

\* There is no bearer any more.
Gone(m) ==
  \E f \in Faults({"record"}) :
    /\ bearers[m] = None
    /\ Request(m, f)
    /\ CleanupStale(m, {tracked[m]} \ {None}, f = "record")
    /\ tracked' = [tracked EXCEPT ![m] = None]
    /\ UNCHANGED <<bearers, ops, saved, update, boot>>

\* A bearer nobody tracks is tracked, and not registered.
Found(m) ==
  /\ tracked[m] = None /\ bearers[m] # None
  /\ Request(m, "none")
  /\ tracked' = [tracked EXCEPT ![m] = bearers[m]]
  /\ UNCHANGED <<proxy, slots, records, bearers, ops, saved, update, boot>>

Current(m) == Unreadable(m) \/ Down(m) \/ Gone(m) \/ Found(m)

-----------------------------------------------------------------------------
(* Settings, the listeners' goroutines, the process and the modems. *)

\* The settings handler saves, then updates the proxy.
SaveSettings(c) ==
  /\ boot = {} /\ update = None /\ spent.updates < MaxUpdates
  /\ saved' = c /\ update' = c
  /\ spent' = [spent EXCEPT !.updates = @ + 1]
  /\ UNCHANGED <<proxy, slots, records, bearers, tracked, ops, boot>>

\* UpdateConfig: the old settings come back when the new ones cannot start.
UpdateConfig(refused, again) ==
  LET new  == [Stop(proxy) EXCEPT !.config = update]
      next == Start(new, refused)
      old  == [Stop(next) EXCEPT !.config = proxy.config]
  IN IF update = proxy.config THEN UNCHANGED <<proxy, slots>>
     ELSE /\ proxy' = IF Active(proxy) = {} \/ update.password = "" THEN new
                      ELSE IF Started(next) THEN next
                      ELSE IF proxy.config.password = "" THEN old
                      ELSE Start(old, again)
          /\ Taking(Modems, Modems)

ApplySettings ==
  \E refused, again \in Faults(Kinds) :
    /\ update # None /\ Room
    /\ spent.faults + Cost(refused) + Cost(again) <= MaxFaults
    /\ UpdateConfig(refused, again)
    /\ update' = None
    /\ Failed(Cost(refused) + Cost(again))
    /\ UNCHANGED <<records, bearers, tracked, ops, saved, boot>>

SocketIs(kind, n, is) == proxy.sockets[kind][n].is = is
Becomes(kind, n, is)  == [proxy EXCEPT !.sockets[kind][n].is = is]

\* The Serve goroutine begins: a server closed before closes its listener.
ServeBegins(kind, n) ==
  /\ \/ SocketIs(kind, n, "waiting") /\ proxy' = Becomes(kind, n, "serving")
     \/ SocketIs(kind, n, "orphan") /\ proxy' = Becomes(kind, n, "none")
  /\ UNCHANGED <<slots, connector, spent>>

ServeFails(kind, n) ==
  /\ SocketIs(kind, n, "serving") /\ MayFail /\ Failed(1)
  /\ proxy' = Becomes(kind, n, "failed")
  /\ UNCHANGED <<slots, connector>>

\* handleServeExit: nothing happens when the server is no longer current.
ServeExits(kind, n) ==
  \E refused \in Faults(Kinds) :
    /\ SocketIs(kind, n, "failed") /\ Room
    /\ LET over == Becomes(kind, n, "none") IN
       IF proxy.current[kind] # n
       THEN proxy' = over /\ refused = "none" /\ UNCHANGED slots
       ELSE /\ proxy' = IF Active(proxy) = {} THEN Stop(over) ELSE Start(Stop(over), refused)
            /\ Taking(Modems, {})
    /\ Failed(Cost(refused))
    /\ UNCHANGED connector

\* The process ends and starts with the saved settings.
Restart ==
  /\ spent.restarts < MaxRestarts
  /\ spent' = [spent EXCEPT !.restarts = @ + 1]
  /\ proxy' = NewProxy(saved)
  /\ slots' = [s \in Slots |-> FreeSlot]
  /\ tracked' = [m \in Modems |-> None]
  /\ ops' = [m \in Modems |-> Idle]
  /\ update' = None
  /\ boot' = Modems
  /\ UNCHANGED <<records, bearers, saved>>

\* recover: the record says whether the modem had the proxy. When it cannot
\* be registered the connection is not tracked.
Recover(m) ==
  /\ m \in boot /\ boot' = boot \ {m} /\ Room
  /\ \E f \in Faults(Kinds \cup {"record"}) :
       /\ Failed(Cost(f))
       /\ LET i == bearers[m] IN
          IF i = None
          THEN f \notin Kinds /\ CleanupStale(m, {}, f = "record") /\ UNCHANGED tracked
          ELSE IF records[i] = m
          THEN /\ f # "record" /\ Register(m, i, f)
               /\ tracked' = IF Registers(f) THEN [tracked EXCEPT ![m] = i] ELSE tracked
               /\ UNCHANGED records
          ELSE /\ f \notin Kinds /\ CleanupProxy(m, i, f = "record")
               /\ tracked' = IF f = "none" THEN [tracked EXCEPT ![m] = i] ELSE tracked
  /\ UNCHANGED <<bearers, ops, saved, update>>

BearerLost(m) ==
  /\ bearers[m] # None /\ MayFail /\ Failed(1)
  /\ bearers' = [bearers EXCEPT ![m] = None]
  /\ UNCHANGED <<proxy, slots, records, tracked, ops, saved, update, boot>>

-----------------------------------------------------------------------------
(* The clients. *)

Is(s, pc)      == slots[s].pc = pc
Put(s, slot)   == slots' = [slots EXCEPT ![s] = slot] /\ UNCHANGED <<proxy, connector, spent>>
HasUser(s)     == proxy.active[slots[s].user] # None

\* A UDP target that ends leaves the association to dial the next one.
Done(s) == IF slots[s].over = "udp" THEN [slots[s] EXCEPT !.pc = "ready", !.interface = None]
           ELSE FreeSlot

\* validCredential, over a listener that serves.
Authenticate(s, m, over) ==
  /\ Is(s, "free") /\ proxy.active[m] # None
  /\ \E n \in ServerId, kind \in Kinds : SocketIs(kind, n, "serving") /\ (over = "udp" => kind = "socks5")
  /\ Put(s, [FreeSlot EXCEPT !.over = over, !.user = m, !.password = proxy.config.password, !.pc = "ready"])

\* handleSOCKS5Associate tracks the association, or ends.
Associate(s) ==
  /\ Is(s, "ready") /\ slots[s].over = "udp" /\ slots[s].relay = "none"
  /\ Put(s, IF HasUser(s) THEN [slots[s] EXCEPT !.relay = "tracked"] ELSE FreeSlot)

\* dial reads the interface of the user, for UDP while the relay is read.
ReadInterface(s) ==
  /\ Is(s, "ready") /\ (slots[s].over = "udp" => slots[s].relay \in {"tracked", "taken"})
  /\ Put(s, IF HasUser(s)
            THEN [slots[s] EXCEPT !.pc = "dialing", !.interface = proxy.active[slots[s].user]]
            ELSE Done(s))

\* Mutant of Accepted: a connection is tracked for whoever dialled it.
AcceptedAlways(s) == TRUE

\* trackSession: only the user is looked for.
Accepted(s) == HasUser(s)

\* The dial fails, or trackConn decides about the connection it made.
Dial(s) ==
  /\ Is(s, "dialing")
  /\ \/ Put(s, Done(s))
     \/ Accepted(s) /\ Put(s, [slots[s] EXCEPT !.pc = "tracked"])

\* closeProxySessions: the connection, or the association's relay.
CloseTaken(s) ==
  \/ Is(s, "taken") /\ Put(s, Done(s))
  \/ slots[s].relay = "taken" /\ Put(s, [slots[s] EXCEPT !.relay = "over"])

\* The relay's loop finds it closed and closes its target.
RelayEnds(s) ==
  /\ slots[s].relay = "over" /\ slots[s].pc \in {"ready", "tracked", "taken"}
  /\ Put(s, FreeSlot)

\* The client or the target ends the connection, or it is idle too long.
ClientEnds(s) ==
  \/ Is(s, "tracked") /\ Put(s, Done(s))
  \/ slots[s].over = "tcp" /\ Is(s, "ready") /\ Put(s, FreeSlot)
  \/ slots[s].relay = "tracked" /\ Put(s, [slots[s] EXCEPT !.relay = "over"])

-----------------------------------------------------------------------------
Init ==
  /\ saved = First
  /\ proxy = NewProxy(saved)
  /\ slots = [s \in Slots |-> FreeSlot]
  /\ records = [i \in Interfaces |-> None]
  /\ bearers = [m \in Modems |-> None]
  /\ tracked = [m \in Modems |-> None]
  /\ ops = [m \in Modems |-> Idle]
  /\ update = None
  /\ boot = {}
  /\ spent = [requests |-> 0, updates |-> 0, restarts |-> 0, faults |-> 0]

ConnectorStep(m) ==
  \/ Disconnect(m) \/ Current(m)
  \/ \E enabled \in BOOLEAN : Connect(m, enabled)
  \/ \E i \in Interfaces : Bind(m, i)
  \/ NoBearer(m) \/ Save(m) \/ Abandon(m) \/ Finish(m)
  \/ Recover(m) \/ BearerLost(m)

Serve(kind, n) == ServeBegins(kind, n) \/ ServeFails(kind, n) \/ ServeExits(kind, n)

Client(s) ==
  \/ \E m \in Modems, over \in {"tcp", "udp"} : Authenticate(s, m, over)
  \/ Associate(s) \/ ReadInterface(s) \/ Dial(s)
  \/ CloseTaken(s) \/ RelayEnds(s) \/ ClientEnds(s)

Next ==
  \/ \E m \in Modems : ConnectorStep(m)
  \/ \E c \in Configs : SaveSettings(c)
  \/ ApplySettings \/ Restart
  \/ \E kind \in Kinds, n \in ServerId : Serve(kind, n)
  \/ \E s \in Slots : Client(s)

Spec == Init /\ [][Next]_vars

\* Goroutines that are not waiting for anybody go on; a dial times out.
Fairness ==
  \A s \in Slots : WF_vars(Dial(s)) /\ WF_vars(CloseTaken(s)) /\ WF_vars(RelayEnds(s))

FairSpec == Spec /\ Fairness

-----------------------------------------------------------------------------
(* A connection and an association belong to the binding and the settings  *)
(* they were made under: while they are tracked their user is registered,  *)
(* and the connection goes through the interface the user has now and was  *)
(* authenticated with the password of now, unless one of them changed      *)
(* between the client's authentication and the tracking (dial reads the    *)
(* interface and trackSession looks only for the user).                    *)
Bound ==
  \A s \in Slots :
    /\ (Is(s, "tracked") \/ slots[s].relay = "tracked") => HasUser(s)
    /\ Is(s, "tracked") /\ ~slots[s].crossed =>
         /\ slots[s].interface = proxy.active[slots[s].user]
         /\ slots[s].password = proxy.config.password

(* The ports are open only for somebody: a listener that is open belongs   *)
(* to the current pair, which has a password and a user, or its server was *)
(* closed and its own goroutine is about to close it (stopLocked).         *)
Ports ==
  \A kind \in Kinds, n \in ServerId :
    proxy.sockets[kind][n].is \in {"waiting", "serving"} =>
      /\ proxy.current[kind] = n /\ \A k \in Kinds : proxy.current[k] # 0
      /\ proxy.config.password # "" /\ Active(proxy) # {}

(* Between operations a modem is a user of the proxy only over the          *)
(* interface of its own connection and with the record a restart finds it  *)
(* by, as long as the connector tracks the connection or its bearer is up: *)
(* whatever fails, nobody can use the proxy over an interface that was     *)
(* given up. A connection that is tracked no more and has lost its bearer  *)
(* has only the name left, which may be another modem's by now.            *)
Remembered ==
  \A m \in Modems : At(m, "idle") /\ proxy.active[m] # None =>
    \A i \in {tracked[m], bearers[m]} \ {None} : proxy.active[m] = i /\ records[i] = m

(* What belongs to a user who is no longer registered ends: the connection *)
(* of a client, wherever it was when the user went, and with a closed      *)
(* association its target.                                                 *)
Stale(s) == \/ slots[s].pc \in {"dialing", "tracked", "taken"} /\ ~HasUser(s)
            \/ slots[s].relay \in {"taken", "over"}
Dropped == \A s \in Slots : Stale(s) ~> ~Stale(s)
=============================================================================
