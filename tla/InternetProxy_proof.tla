------------------------ MODULE InternetProxy_proof ------------------------
(***************************************************************************)
(* The proxy of the internet connections, for any modems, interface names, *)
(* settings, clients and servers, any number of requests, failures and     *)
(* restarts: whose ports are open, whose interface a connection goes       *)
(* through, and which users a restart finds again.                         *)
(***************************************************************************)
EXTENDS InternetProxy, FiniteSetTheorems, WellFoundedInduction, TLAPS

Open == {"waiting", "serving"}

\* A proxy without listeners, but for those their goroutines are about to close.
Stopped(p) ==
  /\ p \in Proxies
  /\ \A kind \in Kinds : p.current[kind] = 0
  /\ \A kind \in Kinds, n \in ServerId : p.sockets[kind][n].is \notin Open

\* A listener that is open is the current one of its kind.
Owned(p) == \A kind \in Kinds, n \in ServerId :
              p.sockets[kind][n].is \in Open => p.current[kind] = n

\* Both listeners or none, and none without a password or a user.
Wanted(p) == \A kind \in Kinds : p.current[kind] # 0 =>
               Started(p) /\ p.config.password # "" /\ Active(p) # {}

Sound(p) == p \in Proxies /\ Owned(p) /\ Wanted(p)

\* There is a goroutine left for one more listener of each kind.
Spare(p) == \A kind \in Kinds : Unused(p, kind) # {}

\* What a client holds at each place.
Formed(c) ==
  /\ c.pc = "free" => c.relay = "none"
  /\ c.pc # "free" => c.user \in Modems
  /\ c.over = "tcp" => c.relay = "none"
  /\ c.over = "udp" /\ c.pc \in {"dialing", "tracked", "taken"} => c.relay # "none"

\* Up to where its binding and its password count, unless they changed.
Fits(c, p) ==
  /\ c.pc = "tracked" \/ c.relay = "tracked" => p.active[c.user] # None
  /\ ~c.crossed =>
       /\ c.pc \in {"ready", "dialing", "tracked"} \/ (c.pc = "taken" /\ c.over = "udp")
            => c.password = p.config.password
       /\ c.pc \in {"dialing", "tracked"} => c.interface = p.active[c.user]

Served(p) == \A s \in Slots : Formed(slots[s]) /\ Fits(slots[s], p)

\* The names of interfaces a modem has.
Held(m) == {bearers[m], tracked[m], ops[m].interface} \ {None}

Exclusive == \A m, o \in Modems : m # o => Held(m) \cap Held(o) = {}

\* A user who is registered for a connection of the modem has its record.
Known(m) == \A i \in {tracked[m], bearers[m]} \ {None} : proxy.active[m] = i /\ records[i] = m

\* How far an operation is, and what it has done to the binding of its modem.
WellBound(m) ==
  LET o == ops[m] IN
  /\ o.pc = "idle" => o = Idle /\ (proxy.active[m] # None => Known(m))
  /\ o.pc = "cleaned" => /\ bearers[m] = None /\ tracked[m] = None /\ o.interface = None
                         /\ proxy.active[m] = None
  /\ o.pc \in {"bound", "saved"} =>
       /\ o.interface # None /\ tracked[m] = None /\ bearers[m] \in {o.interface, None}
       /\ proxy.active[m] = IF o.proxy THEN o.interface ELSE None
  /\ o.pc = "saved" /\ o.proxy => records[o.interface] = m
  /\ m \in boot => o = Idle /\ proxy.active[m] = None /\ tracked[m] = None

Booting == boot # {} => \A m \in Modems : ops[m] = Idle

IInv ==
  /\ TypeOK /\ Sound(proxy) /\ Served(proxy) /\ Exclusive /\ Booting
  /\ \A m \in Modems : WellBound(m)
-----------------------------------------------------------------------------
(* The listeners: what starting and stopping makes of a proxy. *)

LEMMA KindsAre == Kinds = {"http", "socks5"} /\ "http" # "socks5"
BY DEF Kinds

LEMMA BoundsAre ==
  /\ Servers \in Nat /\ MaxRequests \in Nat /\ MaxUpdates \in Nat
  /\ MaxRestarts \in Nat /\ MaxFaults \in Nat
  /\ None \notin Modems /\ None \notin Interfaces /\ First \in Configs
BY ProxyAssumption

LEMMA ServersAre ==
  /\ ServerId \subseteq Nat /\ 0 \notin ServerId /\ IsFiniteSet(ServerId)
BY BoundsAre, FS_Interval DEF ServerId

LEMMA LeastIs ==
  ASSUME NEW S, S \subseteq Nat, S # {}
  PROVE  \E n \in S : \A k \in S : n <= k
<1> DEFINE Less == {x \in Nat \X Nat : x[1] < x[2]}
<1>1. IsWellFoundedOn(Less, Nat)
  BY NatLessThanWellFounded, Zenon DEF OpToRel
<1>2. PICK n \in S : \A k \in S : ~(<<k, n>> \in Less)
  <2> HIDE DEF Less
  <2> QED
    BY <1>1, WFMin
<1>3. ASSUME NEW k \in S PROVE n <= k
  <2>1. ~(k < n)
    BY <1>2
  <2> QED
    BY <2>1
<1> QED
  BY <1>3

LEMMA NextIdIs ==
  ASSUME NEW p, NEW kind, Unused(p, kind) # {}
  PROVE  NextId(p, kind) \in Unused(p, kind) /\ NextId(p, kind) \in ServerId
<1>1. Unused(p, kind) \subseteq Nat
  BY ServersAre DEF Unused
<1>2. \E n \in Unused(p, kind) : \A k \in Unused(p, kind) : n <= k
  BY <1>1, LeastIs
<1> QED
  BY <1>2 DEF NextId, Unused

LEMMA ProxyWithOne ==
  ASSUME NEW p \in Proxies, NEW kind, NEW n, NEW w
  PROVE  [p EXCEPT !.current[kind] = n, !.sockets[kind][n] = w]
           = [p EXCEPT !.current = [p.current EXCEPT ![kind] = n],
                       !.sockets = [p.sockets EXCEPT ![kind] = [p.sockets[kind] EXCEPT ![n] = w]]]
BY DEF Proxies

\* The sockets that stopping leaves.
Left(current, sockets) ==
  [kind \in Kinds |-> [n \in ServerId |->
     IF current[kind] = n THEN [sockets[kind][n] EXCEPT !.is = Shut(kind, @)]
     ELSE sockets[kind][n]]]

LEMMA StopIs ==
  ASSUME NEW p \in Proxies, Owned(p)
  PROVE  /\ Stopped(Stop(p))
         /\ Stop(p).config = p.config /\ Stop(p).active = p.active
         /\ \A kind \in Kinds : Unused(p, kind) \subseteq Unused(Stop(p), kind)
         /\ Stop(p).sockets = Left(p.current, p.sockets)
<1>1. p.current \in [Kinds -> ServerId \cup {0}] /\ p.sockets \in [Kinds -> [ServerId -> Socket]]
  BY DEF Proxies
<1> DEFINE f == [kind \in Kinds |-> [n \in ServerId |->
                   IF p.current[kind] = n
                   THEN [p.sockets[kind][n] EXCEPT !.is = Shut(kind, @)]
                   ELSE p.sockets[kind][n]]]
<1>2. ASSUME NEW kind \in Kinds, NEW n \in ServerId
      PROVE  /\ f[kind][n] \in Socket
             /\ f[kind][n].is \notin Open
             /\ p.sockets[kind][n].is = "none" => f[kind][n].is = "none"
  <2>1. p.sockets[kind][n] \in Socket
    BY <1>1
  <2>2. f[kind][n] = IF p.current[kind] = n THEN [p.sockets[kind][n] EXCEPT !.is = Shut(kind, @)]
                     ELSE p.sockets[kind][n]
    OBVIOUS
  <2>3. p.current[kind] # n => p.sockets[kind][n].is \notin Open
    BY DEF Owned
  <2>4. \A is \in SocketStates : /\ Shut(kind, is) \in SocketStates /\ Shut(kind, is) \notin Open
                                 /\ is = "none" => Shut(kind, is) = "none"
    BY DEF SocketStates, Shut, Open
  <2> QED
    BY <2>1, <2>2, <2>3, <2>4 DEF Socket
<1>3. f \in [Kinds -> [ServerId -> Socket]] /\ [kind \in Kinds |-> 0] \in [Kinds -> ServerId \cup {0}]
  BY <1>2
<1>4. Stop(p) = [p EXCEPT !.current = [kind \in Kinds |-> 0], !.sockets = f]
  BY DEF Stop
<1> HIDE DEF f
<1>5. /\ Stop(p) \in Proxies /\ Stop(p).config = p.config /\ Stop(p).active = p.active
      /\ Stop(p).current = [kind \in Kinds |-> 0] /\ Stop(p).sockets = f
  BY <1>3, <1>4 DEF Proxies
<1>6. Stopped(Stop(p)) /\ \A kind \in Kinds : Unused(p, kind) \subseteq Unused(Stop(p), kind)
  BY <1>2, <1>5 DEF Stopped, Unused
<1> QED
  BY <1>5, <1>6 DEF f, Left

LEMMA StoppedIsSound ==
  ASSUME NEW p, Stopped(p)
  PROVE  Sound(p)
BY DEF Stopped, Sound, Owned, Wanted

LEMMA ListenIs ==
  ASSUME NEW p \in Proxies, NEW kind \in Kinds, Unused(p, kind) # {},
         \A n \in ServerId : p.sockets[kind][n].is \notin Open
  PROVE  LET q == Listen(p, kind)
             i == NextId(p, kind)
         IN  /\ q \in Proxies /\ i \in Unused(p, kind) /\ i \in ServerId /\ i # 0
             /\ q.config = p.config /\ q.active = p.active
             /\ q.current[kind] = i
             /\ \A k \in Kinds : k # kind => q.current[k] = p.current[k] /\ q.sockets[k] = p.sockets[k]
             /\ \A n \in ServerId : n # i => q.sockets[kind][n] = p.sockets[kind][n]
<1> DEFINE i == NextId(p, kind)
           w == [is |-> "waiting", port |-> p.config.port]
<1>1. i \in Unused(p, kind) /\ i \in ServerId /\ i # 0
  BY NextIdIs, ServersAre
<1> DEFINE a == [p.current EXCEPT ![kind] = i]
           b == [p.sockets EXCEPT ![kind] = [p.sockets[kind] EXCEPT ![i] = w]]
<1>2. /\ p.current \in [Kinds -> ServerId \cup {0}] /\ p.sockets \in [Kinds -> [ServerId -> Socket]]
      /\ w \in Socket
  BY DEF Proxies, Socket, SocketStates
<1>3. Listen(p, kind) = [p EXCEPT !.current = a, !.sockets = b]
  BY ProxyWithOne DEF Listen
<1> HIDE DEF i, w
<1>4. a \in [Kinds -> ServerId \cup {0}] /\ b \in [Kinds -> [ServerId -> Socket]]
  BY <1>1, <1>2
<1>5. /\ Listen(p, kind) \in Proxies
      /\ Listen(p, kind).config = p.config /\ Listen(p, kind).active = p.active
      /\ Listen(p, kind).current = a /\ Listen(p, kind).sockets = b
  <2> HIDE DEF a, b
  <2> QED
    BY <1>3, <1>4 DEF Proxies
<1> QED
  BY <1>1, <1>2, <1>5 DEF i

LEMMA StartIs ==
  ASSUME NEW p, Stopped(p), Spare(p), NEW refused,
         NEW q, q = Start(p, refused)
  PROVE  /\ q \in Proxies /\ Owned(q) /\ q.config = p.config /\ q.active = p.active
         /\ Started(q) <=> ~Refuses(p, "http", refused) /\ ~Refuses(p, "socks5", refused)
         /\ Started(q) \/ Stopped(q)
         /\ \A kind \in Kinds : Unused(p, kind) \ {NextId(p, kind)} \subseteq Unused(q, kind)
<1> DEFINE h == Listen(p, "http")
           b == Listen(h, "socks5")
<1>1. /\ p \in Proxies /\ "http" \in Kinds /\ "socks5" \in Kinds
      /\ \A kind \in Kinds, n \in ServerId : p.sockets[kind][n].is \notin Open
      /\ \A kind \in Kinds : p.current[kind] = 0
      /\ \A kind \in Kinds : Unused(p, kind) # {}
  BY KindsAre DEF Stopped, Spare
<1>2. /\ h \in Proxies /\ h.config = p.config /\ h.active = p.active
      /\ NextId(p, "http") \in ServerId /\ h.current["http"] = NextId(p, "http") /\ NextId(p, "http") # 0
      /\ h.current["socks5"] = 0 /\ h.sockets["socks5"] = p.sockets["socks5"]
      /\ \A n \in ServerId : n # NextId(p, "http") => h.sockets["http"][n] = p.sockets["http"][n]
  BY <1>1, ListenIs, KindsAre
<1> HIDE DEF h
<1>3. /\ b \in Proxies /\ b.config = p.config /\ b.active = p.active
      /\ NextId(h, "socks5") \in ServerId /\ b.current["socks5"] = NextId(h, "socks5")
      /\ NextId(h, "socks5") # 0 /\ NextId(h, "socks5") = NextId(p, "socks5")
      /\ b.current["http"] = NextId(p, "http") /\ b.sockets["http"] = h.sockets["http"]
      /\ \A n \in ServerId : n # NextId(p, "socks5") => b.sockets["socks5"][n] = p.sockets["socks5"][n]
  <2>1. Unused(h, "socks5") = Unused(p, "socks5")
    BY <1>2 DEF Unused
  <2>2. NextId(h, "socks5") = NextId(p, "socks5")
    BY <2>1 DEF NextId
  <2> QED
    BY <1>1, <1>2, <2>1, <2>2, ListenIs, KindsAre
<1> HIDE DEF b
<1>4. CASE Refuses(p, "http", refused)
  BY <1>1, <1>4 DEF Start, Started, Stopped, Owned
<1>5. CASE ~Refuses(p, "http", refused) /\ Refuses(p, "socks5", refused)
  <2>1. q = Stop(h)
    BY <1>5 DEF Start, h
  <2>2. Owned(h)
    BY <1>1, <1>2, KindsAre DEF Owned
  <2>3. /\ Stopped(q) /\ q.config = p.config /\ q.active = p.active
        /\ \A kind \in Kinds : Unused(h, kind) \subseteq Unused(q, kind)
    BY <1>2, <2>1, <2>2, StopIs
  <2>4. \A kind \in Kinds : Unused(p, kind) \ {NextId(p, kind)} \subseteq Unused(h, kind)
    BY <1>2, KindsAre DEF Unused
  <2> QED
    BY <1>1, <1>5, <2>3, <2>4 DEF Started, Stopped, Owned
<1>6. CASE ~Refuses(p, "http", refused) /\ ~Refuses(p, "socks5", refused)
  <2>1. q = b
    BY <1>6 DEF Start, h, b
  <2>2. Started(q)
    BY <1>2, <1>3, <2>1, KindsAre DEF Started
  <2>3. Owned(q)
    BY <1>1, <1>2, <1>3, <2>1, KindsAre DEF Owned
  <2>4. \A kind \in Kinds : Unused(p, kind) \ {NextId(p, kind)} \subseteq Unused(q, kind)
    BY <1>2, <1>3, <2>1, KindsAre DEF Unused
  <2> QED
    BY <1>3, <1>6, <2>1, <2>2, <2>3, <2>4
<1> QED
  BY <1>4, <1>5, <1>6

LEMMA StartIsSound ==
  ASSUME NEW p, Stopped(p), Spare(p), NEW refused, p.config.password # "", Active(p) # {}
  PROVE  Sound(Start(p, refused))
<1> DEFINE q == Start(p, refused)
<1>1. /\ q \in Proxies /\ Owned(q) /\ q.config = p.config /\ q.active = p.active
      /\ Started(q) \/ Stopped(q)
  BY StartIs
<1> HIDE DEF q
<1>2. Active(q) = Active(p)
  BY <1>1 DEF Active
<1> QED
  BY <1>1, <1>2 DEF Sound, Wanted, Stopped, q

\* The proxy of a process that has just started.
LEMMA NewProxyIs ==
  ASSUME NEW c \in Configs
  PROVE  Sound(NewProxy(c)) /\ NewProxy(c).active = [m \in Modems |-> None]
<1>1. [is |-> "none", port |-> c.port] \in Socket
  BY DEF Socket, SocketStates
<1>2. NewProxy(c) \in Proxies
  BY <1>1 DEF NewProxy, Proxies
<1>3. Owned(NewProxy(c)) /\ Wanted(NewProxy(c))
  BY DEF NewProxy, Owned, Wanted, Open
<1> QED
  BY <1>2, <1>3 DEF Sound, NewProxy

\* Two goroutines of each kind are enough for what one step may start.
LEMMA RoomIs ==
  ASSUME Sound(proxy), Room
  PROVE  \A kind \in Kinds : \A n : Unused(Stop(proxy), kind) \ {n} # {}
<1> SUFFICES ASSUME NEW kind \in Kinds, NEW n, Unused(Stop(proxy), kind) \subseteq {n} PROVE FALSE
  OBVIOUS
<1>1. Cardinality(Unused(Stop(proxy), kind)) <= Cardinality({n}) /\ Cardinality({n}) = 1
  BY FS_Singleton, FS_Subset
<1>2. Cardinality(Unused(Stop(proxy), kind)) > 1
  BY DEF Room
<1>3. Cardinality(Unused(Stop(proxy), kind)) \in Nat
  BY ServersAre, FS_Subset, FS_CardinalityType DEF Unused
<1> QED
  BY <1>1, <1>2, <1>3

\* A refused port does not depend on who uses the proxy.
LEMMA StartsAlike ==
  ASSUME NEW p, Stopped(p), Spare(p), NEW q, Stopped(q), Spare(q),
         q.config = p.config, q.sockets = p.sockets, NEW refused
  PROVE  Started(Start(p, refused)) <=> Started(Start(q, refused))
<1>1. \A kind \in Kinds : Refuses(p, kind, refused) <=> Refuses(q, kind, refused)
  BY DEF Refuses, InUse
<1> QED
  BY <1>1, StartIs, KindsAre

-----------------------------------------------------------------------------
(* What the calls of the connector make of the bindings. *)

\* The listeners start, or nothing listens and the user is not registered.
LEMMA RegisterIs ==
  ASSUME Sound(proxy), Room, NEW m \in Modems, NEW i \in Interfaces, NEW refused,
         Register(m, i, refused)
  PROVE  /\ Sound(proxy)' /\ proxy'.config = proxy.config
         /\ proxy'.active = IF Registers(refused) THEN [proxy.active EXCEPT ![m] = i] ELSE proxy.active
         /\ Taking(IF Registers(refused) /\ proxy.active[m] \notin {None, i} THEN {m} ELSE {},
                   IF Registers(refused) /\ proxy.active[m] # i THEN {m} ELSE {})
<1> DEFINE bound == [proxy EXCEPT !.active[m] = i]
           next  == EnsureStarted(bound, refused)
<1>1. proxy \in Proxies /\ Owned(proxy) /\ Wanted(proxy) /\ i # None
  BY BoundsAre DEF Sound
<1>2. /\ bound \in Proxies /\ bound.config = proxy.config
      /\ bound.active = [proxy.active EXCEPT ![m] = i] /\ bound.active[m] = i
      /\ bound.current = proxy.current /\ bound.sockets = proxy.sockets
  BY <1>1 DEF Proxies
<1> HIDE DEF bound
<1>3. Owned(bound) /\ Active(bound) # {} /\ (Started(bound) <=> Started(proxy))
  BY <1>1, <1>2 DEF Owned, Active, Started
<1>4. /\ Stopped(Stop(proxy)) /\ Stopped(Stop(bound))
      /\ Stop(bound).config = proxy.config /\ Stop(proxy).config = proxy.config
      /\ Stop(bound).active = bound.active
  BY <1>1, <1>2, <1>3, StopIs
<1>5. Stop(bound).sockets = Stop(proxy).sockets
  BY <1>1, <1>2, <1>3, StopIs
<1>6. Spare(Stop(proxy)) /\ Spare(Stop(bound))
  BY <1>1, <1>5, RoomIs DEF Spare, Unused, Sound
<1>7. Started(Start(Stop(bound), refused)) <=> Started(Start(Stop(proxy), refused))
  BY <1>4, <1>5, <1>6, StartsAlike
<1>8. Started(next) <=> Started(EnsureStarted(proxy, refused))
  BY <1>3, <1>7 DEF EnsureStarted
<1>9. proxy.config.password # "" => Sound(next) /\ next.config = proxy.config /\ next.active = bound.active
  <2> SUFFICES ASSUME proxy.config.password # "" PROVE Sound(next) /\ next.config = proxy.config /\ next.active = bound.active
    OBVIOUS
  <2>1. CASE Started(bound)
    BY <1>2, <1>3, <2>1 DEF EnsureStarted, Sound, Wanted, Started
  <2>2. CASE ~Started(bound)
    <3>1. Active(Stop(bound)) # {}
      BY <1>3, <1>4 DEF Active
    <3>2. next = Start(Stop(bound), refused)
      BY <2>2 DEF EnsureStarted
    <3>3. Sound(Start(Stop(bound), refused))
      BY <1>4, <1>6, <3>1, StartIsSound
    <3>4. /\ Start(Stop(bound), refused).config = proxy.config
          /\ Start(Stop(bound), refused).active = bound.active
      BY <1>4, <1>6, StartIs
    <3> QED
      BY <3>2, <3>3, <3>4
  <2> QED
    BY <2>1, <2>2
<1> DEFINE ok == proxy.config.password # "" /\ Started(next)
<1>10. ok <=> Registers(refused)
  BY <1>8 DEF Registers
<1>11. /\ proxy' = IF proxy.config.password = "" THEN proxy
                   ELSE IF ok THEN next
                   ELSE [next EXCEPT !.active[m] = proxy.active[m]]
       /\ Taking(IF ok /\ proxy.active[m] \notin {None, i} THEN {m} ELSE {},
                 IF ok /\ proxy.active[m] # i THEN {m} ELSE {})
  BY DEF Register, bound
<1> HIDE DEF next
<1>12. CASE proxy.config.password = ""
  <2>1. ~Registers(refused) /\ proxy' = proxy
    BY <1>10, <1>11, <1>12
  <2>2. Sound(proxy)'
    BY <2>1 DEF Sound, Owned, Wanted, Started, Active
  <2> QED
    BY <1>10, <1>11, <2>1, <2>2
<1>13. CASE ok
  BY <1>2, <1>9, <1>10, <1>11, <1>13
<1>14. CASE proxy.config.password # "" /\ ~ok
  <2>1. proxy' = [next EXCEPT !.active[m] = proxy.active[m]] /\ next \in Proxies /\ Owned(next) /\ Wanted(next)
    BY <1>9, <1>11, <1>14 DEF Sound
  <2>2. /\ proxy' \in Proxies /\ proxy'.config = proxy.config
        /\ proxy'.active = [bound.active EXCEPT ![m] = proxy.active[m]]
        /\ proxy'.current = next.current /\ proxy'.sockets = next.sockets
    BY <1>1, <1>9, <1>14, <2>1 DEF Proxies
  <2>3. proxy'.active = proxy.active
    BY <1>1, <1>2, <2>2 DEF Proxies
  <2>4. \A kind \in Kinds : next.current[kind] = 0
    BY <1>14, <2>1 DEF Wanted
  <2>5. Sound(proxy')
    BY <2>1, <2>2, <2>4 DEF Sound, Owned, Wanted
  <2> QED
    BY <1>10, <1>11, <1>14, <2>2, <2>3, <2>5
<1> QED
  BY <1>12, <1>13, <1>14

LEMMA UnregisterIs ==
  ASSUME Sound(proxy), NEW m \in Modems, Unregister(m)
  PROVE  /\ Sound(proxy)' /\ proxy'.config = proxy.config
         /\ proxy'.active = [proxy.active EXCEPT ![m] = None]
         /\ \E users \in {Modems, {m}} : Taking(users, {m})
<1> DEFINE next == [proxy EXCEPT !.active[m] = None]
<1>1. /\ next \in Proxies /\ next.config = proxy.config
      /\ next.active = [proxy.active EXCEPT ![m] = None]
      /\ next.current = proxy.current /\ next.sockets = proxy.sockets
  BY DEF Sound, Proxies
<1>2. /\ proxy' = IF Active(next) = {} THEN Stop(next) ELSE next
      /\ Taking(IF Active(next) = {} THEN Modems ELSE {m}, {m})
  BY DEF Unregister
<1> HIDE DEF next
<1>3. Owned(next)
  BY <1>1 DEF Sound, Owned
<1>4. CASE Active(next) = {}
  BY <1>1, <1>2, <1>3, <1>4, StopIs, StoppedIsSound
<1>5. CASE Active(next) # {}
  <2>1. Sound(next)
    BY <1>1, <1>3, <1>5 DEF Sound, Wanted, Started
  <2> QED
    BY <1>1, <1>2, <1>5, <2>1
<1> QED
  BY <1>4, <1>5

LEMMA ConfiguredIs ==
  ASSUME NEW p, Stopped(p), NEW c \in Configs, NEW q, q = [p EXCEPT !.config = c]
  PROVE  /\ Stopped(q) /\ q.config = c /\ q.active = p.active /\ Active(q) = Active(p)
         /\ \A kind \in Kinds : Unused(q, kind) = Unused(p, kind)
<1>1. /\ q \in Proxies /\ q.config = c /\ q.active = p.active
      /\ q.current = p.current /\ q.sockets = p.sockets
  BY DEF Stopped, Proxies
<1> QED
  BY <1>1 DEF Stopped, Active, Unused

\* Whatever the new settings and the old ones can start: both listeners or none.
LEMMA UpdateConfigIs ==
  ASSUME Sound(proxy), Room, update \in Configs, NEW refused, NEW again,
         UpdateConfig(refused, again)
  PROVE  /\ Sound(proxy)' /\ proxy'.active = proxy.active
         /\ UNCHANGED <<proxy, slots>> \/ Taking(Modems, Modems)
<1> DEFINE new  == [Stop(proxy) EXCEPT !.config = update]
           next == Start(new, refused)
           old  == [Stop(next) EXCEPT !.config = proxy.config]
<1>1. /\ proxy \in Proxies /\ Owned(proxy) /\ proxy.config \in Configs
      /\ Stopped(Stop(proxy)) /\ Stop(proxy).active = proxy.active
  BY StopIs DEF Sound, Proxies
<1>2. /\ Stopped(new) /\ new.config = update /\ new.active = proxy.active
      /\ \A kind \in Kinds : Unused(new, kind) = Unused(Stop(proxy), kind)
  BY <1>1, ConfiguredIs
<1>3. \A kind \in Kinds : \A n : Unused(new, kind) \ {n} # {}
  BY <1>2, RoomIs
<1>4. UNCHANGED <<proxy, slots>> \/
        /\ proxy' = IF Active(proxy) = {} \/ update.password = "" THEN new
                    ELSE IF Started(next) THEN next
                    ELSE IF proxy.config.password = "" THEN old
                    ELSE Start(old, again)
        /\ Taking(Modems, Modems)
  BY DEF UpdateConfig
<1> HIDE DEF new
<1>5. /\ Spare(new) /\ Active(new) = Active(proxy)
  BY <1>2, <1>3 DEF Spare, Active
<1>6. /\ next \in Proxies /\ Owned(next) /\ next.active = proxy.active
      /\ \A kind \in Kinds : Unused(new, kind) \ {NextId(new, kind)} \subseteq Unused(next, kind)
  BY <1>2, <1>5, StartIs
<1>7. update.password # "" /\ Active(proxy) # {} => Sound(next)
  BY <1>2, <1>5, StartIsSound
<1> HIDE DEF next
<1>8. /\ Stopped(Stop(next)) /\ Stop(next).active = proxy.active
      /\ \A kind \in Kinds : Unused(next, kind) \subseteq Unused(Stop(next), kind)
  BY <1>6, StopIs
<1>9. /\ Stopped(old) /\ old.config = proxy.config /\ old.active = proxy.active
      /\ Active(old) = Active(proxy) /\ \A kind \in Kinds : Unused(old, kind) = Unused(Stop(next), kind)
  <2>1. Active(Stop(next)) = Active(proxy)
    BY <1>8 DEF Active
  <2> QED
    BY <1>1, <1>8, <2>1, ConfiguredIs
<1> HIDE DEF old
<1>10. Spare(old)
  BY <1>3, <1>6, <1>8, <1>9 DEF Spare
<1>11. /\ Start(old, again).active = proxy.active
       /\ proxy.config.password # "" /\ Active(proxy) # {} => Sound(Start(old, again))
  BY <1>9, <1>10, StartIs, StartIsSound
<1>12. CASE UNCHANGED <<proxy, slots>>
  BY <1>12 DEF Sound, Owned, Wanted, Started, Active
<1>13. CASE ~UNCHANGED <<proxy, slots>>
  <2>1. proxy' \in {new, old} \/ (Active(proxy) # {} /\ update.password # "" /\ proxy' = next)
        \/ (Active(proxy) # {} /\ proxy.config.password # "" /\ proxy' = Start(old, again))
    BY <1>4, <1>13
  <2>2. Sound(proxy') /\ proxy'.active = proxy.active
    BY <1>2, <1>6, <1>7, <1>9, <1>11, <2>1, StoppedIsSound
  <2> QED
    BY <1>4, <1>13, <2>2
<1> QED
  BY <1>12, <1>13

LEMMA BecomesIs ==
  ASSUME Sound(proxy), NEW kind \in Kinds, NEW n \in ServerId, NEW is \in SocketStates,
         is \in Open => proxy.sockets[kind][n].is \in Open
  PROVE  LET p == Becomes(kind, n, is)
         IN  /\ Sound(p) /\ p.config = proxy.config /\ p.active = proxy.active /\ p.current = proxy.current
             /\ is = "none" => \A k \in Kinds : Unused(proxy, k) \subseteq Unused(p, k)
             /\ \A k \in Kinds, i \in ServerId :
                  p.sockets[k][i].is = IF k = kind /\ i = n THEN is ELSE proxy.sockets[k][i].is
<1> DEFINE s == [proxy.sockets EXCEPT ![kind] = [proxy.sockets[kind] EXCEPT ![n] = [proxy.sockets[kind][n] EXCEPT !.is = is]]]
<1>1. proxy \in Proxies /\ proxy.sockets \in [Kinds -> [ServerId -> Socket]]
  BY DEF Sound, Proxies
<1>2. proxy.sockets[kind][n] \in Socket
  BY <1>1
<1>3. [proxy.sockets[kind][n] EXCEPT !.is = is] \in Socket /\ [proxy.sockets[kind][n] EXCEPT !.is = is].is = is
  BY <1>2 DEF Socket
<1>4. /\ s \in [Kinds -> [ServerId -> Socket]]
      /\ \A k \in Kinds, i \in ServerId :
           s[k][i].is = IF k = kind /\ i = n THEN is ELSE proxy.sockets[k][i].is
  BY <1>1, <1>3
<1>5. Becomes(kind, n, is) = [proxy EXCEPT !.sockets = s]
  BY DEF Becomes
<1> HIDE DEF s
<1> DEFINE p == Becomes(kind, n, is)
<1>6. /\ p \in Proxies /\ p.config = proxy.config /\ p.active = proxy.active
      /\ p.current = proxy.current /\ p.sockets = s
  BY <1>1, <1>4, <1>5 DEF Proxies
<1> HIDE DEF p
<1>7. Owned(p) /\ Wanted(p)
  <2>1. Owned(p)
    BY <1>4, <1>6 DEF Sound, Owned
  <2>2. Wanted(p)
    BY <1>6 DEF Sound, Wanted, Started, Active
  <2> QED
    BY <2>1, <2>2
<1>8. is = "none" => \A k \in Kinds : Unused(proxy, k) \subseteq Unused(p, k)
  BY <1>4, <1>6 DEF Unused
<1> QED
  BY <1>4, <1>6, <1>7, <1>8 DEF Sound, p

\* A Serve goroutine begins, fails, or has its failure handled.
LEMMA ServeIs ==
  ASSUME TypeOK, Sound(proxy), NEW kind \in Kinds, NEW n \in ServerId, Serve(kind, n)
  PROVE  /\ Sound(proxy)' /\ proxy'.config = proxy.config /\ proxy'.active = proxy.active
         /\ UNCHANGED slots \/ Taking(Modems, {})
         /\ UNCHANGED connector
<1>1. CASE ServeBegins(kind, n)
  BY <1>1, BecomesIs DEF ServeBegins, SocketIs, SocketStates, Open
<1>2. CASE ServeFails(kind, n)
  BY <1>2, BecomesIs DEF ServeFails, SocketIs, SocketStates, Open
<1>3. CASE ServeExits(kind, n)
  <2> DEFINE over == Becomes(kind, n, "none")
  <2>1. PICK refused \in Faults(Kinds) :
          /\ SocketIs(kind, n, "failed") /\ Room /\ UNCHANGED connector
          /\ IF proxy.current[kind] # n
             THEN proxy' = over /\ refused = "none" /\ UNCHANGED slots
             ELSE /\ proxy' = IF Active(proxy) = {} THEN Stop(over) ELSE Start(Stop(over), refused)
                  /\ Taking(Modems, {})
    BY <1>3 DEF ServeExits
  <2>2. /\ Sound(over) /\ over.config = proxy.config /\ over.active = proxy.active
        /\ over.current = proxy.current
        /\ \A k \in Kinds, i \in ServerId :
             over.sockets[k][i].is = IF k = kind /\ i = n THEN "none" ELSE proxy.sockets[k][i].is
    BY BecomesIs DEF SocketStates, Open
  <2> HIDE DEF over
  <2>3. CASE proxy.current[kind] # n
    BY <2>1, <2>2, <2>3
  <2>4. CASE proxy.current[kind] = n
    <3>1. /\ Stopped(Stop(over)) /\ Stop(over).config = proxy.config /\ Stop(over).active = proxy.active
          /\ Stop(over).sockets = Left(over.current, over.sockets)
      BY <2>2, StopIs DEF Sound
    <3>2. Stop(proxy).sockets = Left(proxy.current, proxy.sockets)
      BY StopIs DEF Sound
    <3>3. \A k \in Kinds : Unused(Stop(proxy), k) \subseteq Unused(Stop(over), k)
      <4> SUFFICES ASSUME NEW k \in Kinds, NEW i \in Unused(Stop(proxy), k)
                   PROVE  i \in Unused(Stop(over), k)
        OBVIOUS
      <4>1. i \in ServerId /\ Stop(proxy).sockets[k][i].is = "none"
        BY DEF Unused
      <4>2. over.sockets[k][i] \in Socket /\ proxy.sockets[k][i] \in Socket
        BY <2>2, <4>1 DEF Sound, Proxies
      <4>3. /\ Stop(proxy).sockets[k][i].is = IF proxy.current[k] = i THEN Shut(k, proxy.sockets[k][i].is)
                                               ELSE proxy.sockets[k][i].is
            /\ Stop(over).sockets[k][i].is = IF proxy.current[k] = i THEN Shut(k, over.sockets[k][i].is)
                                              ELSE over.sockets[k][i].is
        BY <2>2, <3>1, <3>2, <4>1, <4>2 DEF Left, Socket
      <4>4. Stop(over).sockets[k][i].is = "none"
        BY <2>2, <4>1, <4>3 DEF Shut
      <4> QED
        BY <4>1, <4>4 DEF Unused
    <3>4. Spare(Stop(over))
      BY <2>1, <3>3, RoomIs DEF Spare
    <3>5. CASE Active(proxy) = {}
      BY <2>1, <2>4, <3>1, <3>5, StoppedIsSound
    <3>6. CASE Active(proxy) # {}
      <4>1. Stop(over).config.password # ""
        <5>1. proxy.current[kind] # 0
          BY <2>4, ServersAre
        <5> QED
          BY <3>1, <5>1 DEF Sound, Wanted
      <4>2. Active(Stop(over)) # {}
        BY <3>1, <3>6 DEF Active
      <4>3. proxy' = Start(Stop(over), refused)
        BY <2>1, <2>4, <3>6
      <4> QED
        BY <2>1, <2>4, <3>1, <3>4, <4>1, <4>2, <4>3, StartIs, StartIsSound
    <3> QED
      BY <3>5, <3>6
  <2> QED
    BY <2>3, <2>4
<1> QED
  BY <1>1, <1>2, <1>3 DEF Serve

-----------------------------------------------------------------------------
(* The clients. *)

LEMMA TakingIs ==
  ASSUME slots \in [Slots -> Slot], NEW users, NEW concerned, Taking(users, concerned)
  PROVE  /\ slots' \in [Slots -> Slot]
         /\ \A s \in Slots : LET c == slots[s]
                               d == slots'[s]
                           IN  /\ d.over = c.over /\ d.user = c.user /\ d.password = c.password
                               /\ d.interface = c.interface
                               /\ d.pc = IF c.user \in users /\ c.pc = "tracked" THEN "taken" ELSE c.pc
                               /\ d.relay = IF c.user \in users /\ c.relay = "tracked" THEN "taken" ELSE c.relay
                               /\ d.crossed = (c.crossed \/ (c.user \in concerned
                                     /\ (c.pc \in {"ready", "dialing"} \/ c.relay # "none")))
<1>1. ASSUME NEW s \in Slots
      PROVE  LET c == slots[s]
                 d == slots'[s]
             IN  /\ d \in Slot
                 /\ d.over = c.over /\ d.user = c.user /\ d.password = c.password
                 /\ d.interface = c.interface
                 /\ d.pc = IF c.user \in users /\ c.pc = "tracked" THEN "taken" ELSE c.pc
                 /\ d.relay = IF c.user \in users /\ c.relay = "tracked" THEN "taken" ELSE c.relay
                 /\ d.crossed = (c.crossed \/ (c.user \in concerned
                       /\ (c.pc \in {"ready", "dialing"} \/ c.relay # "none")))
  <2> DEFINE c == slots[s]
             x == c.crossed \/ (c.user \in concerned
                    /\ (c.pc \in {"ready", "dialing"} \/ c.relay # "none"))
             e == Take(users)[s]
  <2>1. c \in Slot /\ x \in BOOLEAN
    BY DEF Slot
  <2>2. e = IF c.user \notin users THEN c
            ELSE [c EXCEPT !.pc = IF @ = "tracked" THEN "taken" ELSE @,
                           !.relay = IF @ = "tracked" THEN "taken" ELSE @]
    BY DEF Take
  <2>3. /\ e \in Slot /\ e.over = c.over /\ e.user = c.user /\ e.password = c.password
        /\ e.interface = c.interface /\ e.crossed = c.crossed
        /\ e.pc = IF c.user \in users /\ c.pc = "tracked" THEN "taken" ELSE c.pc
        /\ e.relay = IF c.user \in users /\ c.relay = "tracked" THEN "taken" ELSE c.relay
    BY <2>1, <2>2 DEF Slot
  <2>4. slots'[s] = [e EXCEPT !.crossed = @ \/ (c.user \in concerned
                       /\ (c.pc \in {"ready", "dialing"} \/ c.relay # "none"))]
    BY DEF Taking
  <2>5. slots'[s] = [e EXCEPT !.crossed = x]
    BY <2>3, <2>4
  <2> HIDE DEF e, x
  <2>6. /\ slots'[s] \in Slot /\ slots'[s].over = e.over /\ slots'[s].user = e.user
        /\ slots'[s].password = e.password /\ slots'[s].interface = e.interface
        /\ slots'[s].pc = e.pc /\ slots'[s].relay = e.relay /\ slots'[s].crossed = x
    BY <2>1, <2>3, <2>5 DEF Slot
  <2> QED
    BY <2>3, <2>6 DEF x
<1>2. slots' = [s \in Slots |-> slots'[s]]
  BY DEF Taking
<1> QED
  BY <1>1, <1>2

\* The bindings of some users change: their sessions are taken and clients that
\* are not tracked yet cross the change.
LEMMA Rebound ==
  ASSUME slots \in [Slots -> Slot], Served(proxy), NEW users, NEW concerned, Taking(users, concerned),
         proxy'.config = proxy.config,
         \A m \in Modems : proxy'.active[m] # proxy.active[m] =>
           m \in concerned /\ (m \in users \/ proxy.active[m] = None)
  PROVE  slots' \in [Slots -> Slot] /\ Served(proxy)'
<1> SUFFICES ASSUME NEW s \in Slots PROVE Formed(slots'[s]) /\ Fits(slots'[s], proxy')
  BY TakingIs DEF Served
<1>1. Formed(slots[s]) /\ Fits(slots[s], proxy) /\ slots[s] \in Slot
  BY DEF Served
<1>2. Formed(slots'[s])
  BY <1>1, TakingIs DEF Formed
<1> DEFINE c == slots[s]
           d == slots'[s]
<1>3. /\ d.over = c.over /\ d.user = c.user /\ d.password = c.password /\ d.interface = c.interface
      /\ d.pc = IF c.user \in users /\ c.pc = "tracked" THEN "taken" ELSE c.pc
      /\ d.relay = IF c.user \in users /\ c.relay = "tracked" THEN "taken" ELSE c.relay
      /\ d.crossed = (c.crossed \/ (c.user \in concerned
            /\ (c.pc \in {"ready", "dialing"} \/ c.relay # "none")))
  BY TakingIs
<1> HIDE DEF c, d
<1>4. Formed(c) /\ Fits(c, proxy) /\ c \in Slot
  BY <1>1 DEF c
<1>5. d.pc = "tracked" \/ d.relay = "tracked" => proxy'.active[d.user] # None
  BY <1>3, <1>4 DEF Formed, Fits, Slot
<1>6. ASSUME ~d.crossed
      PROVE  /\ d.pc \in {"ready", "dialing", "tracked"} \/ (d.pc = "taken" /\ d.over = "udp")
                  => d.password = proxy'.config.password
             /\ d.pc \in {"dialing", "tracked"} => d.interface = proxy'.active[d.user]
  <2>1. /\ ~c.crossed
        /\ c.user \in concerned => c.pc \notin {"ready", "dialing"} /\ c.relay = "none"
    BY <1>3, <1>4, <1>6 DEF Slot
  <2>2. d.pc \in {"ready", "dialing", "tracked"} \/ (d.pc = "taken" /\ d.over = "udp")
          => c.pc \in {"ready", "dialing", "tracked"} \/ (c.pc = "taken" /\ c.over = "udp")
    BY <1>3, <1>4 DEF Slot
  <2>3. ASSUME d.pc \in {"dialing", "tracked"} PROVE d.interface = proxy'.active[d.user]
    <3>1. d.pc = c.pc /\ (c.user \in users => c.pc # "tracked")
      BY <1>3, <1>4, <2>3 DEF Slot
    <3>2. c.user \in Modems /\ c.interface = proxy.active[c.user]
      BY <1>4, <2>1, <2>3, <3>1 DEF Formed, Fits
    <3>3. proxy'.active[c.user] = proxy.active[c.user]
      BY <1>4, <2>1, <2>3, <3>1, <3>2 DEF Fits
    <3> QED
      BY <1>3, <3>2, <3>3
  <2> QED
    BY <1>3, <1>4, <2>1, <2>2, <2>3 DEF Fits
<1> QED
  BY <1>2, <1>5, <1>6 DEF Fits, d

\* The settings change: all sessions are taken.
LEMMA Reconfigured ==
  ASSUME slots \in [Slots -> Slot], Served(proxy), Taking(Modems, Modems)
  PROVE  slots' \in [Slots -> Slot] /\ Served(proxy)'
<1> SUFFICES ASSUME NEW s \in Slots PROVE Formed(slots'[s]) /\ Fits(slots'[s], proxy')
  BY TakingIs DEF Served
<1>1. Formed(slots[s]) /\ Fits(slots[s], proxy) /\ slots[s] \in Slot
  BY DEF Served
<1>2. Formed(slots'[s])
  BY <1>1, TakingIs DEF Formed
<1> DEFINE c == slots[s]
           d == slots'[s]
<1>3. /\ d.over = c.over /\ d.user = c.user
      /\ d.pc = IF c.user \in Modems /\ c.pc = "tracked" THEN "taken" ELSE c.pc
      /\ d.relay = IF c.user \in Modems /\ c.relay = "tracked" THEN "taken" ELSE c.relay
      /\ d.crossed = (c.crossed \/ (c.user \in Modems
            /\ (c.pc \in {"ready", "dialing"} \/ c.relay # "none")))
  BY TakingIs
<1> HIDE DEF c, d
<1>4. Formed(c) /\ c \in Slot
  BY <1>1 DEF c
<1>5. d.pc # "tracked" /\ d.relay # "tracked"
  BY <1>3, <1>4 DEF Formed, Slot
<1>6. d.pc \in {"ready", "dialing"} \/ (d.pc = "taken" /\ d.over = "udp") => d.crossed
  BY <1>3, <1>4 DEF Formed, Slot
<1> QED
  BY <1>2, <1>5, <1>6 DEF Fits, d

\* One client goes on and the proxy stays as it is.
LEMMA PutIs ==
  ASSUME slots \in [Slots -> Slot], Served(proxy), NEW s \in Slots, NEW c \in Slot,
         Formed(c), Fits(c, proxy), Put(s, c)
  PROVE  slots' \in [Slots -> Slot] /\ Served(proxy)' /\ UNCHANGED <<proxy, connector, spent>>
BY DEF Put, Served

LEMMA FreeSlotIs == FreeSlot \in Slot /\ \A p : Formed(FreeSlot) /\ Fits(FreeSlot, p)
BY DEF FreeSlot, Slot, Formed, Fits

LEMMA DoneIs ==
  ASSUME slots \in [Slots -> Slot], Served(proxy), NEW s \in Slots,
         slots[s].pc \in {"dialing", "tracked", "taken"}
           \/ (slots[s].pc = "ready" /\ (slots[s].over = "udp" => slots[s].relay \in {"tracked", "taken"}))
  PROVE  Done(s) \in Slot /\ Formed(Done(s)) /\ Fits(Done(s), proxy)
<1> DEFINE c == slots[s]
<1>1. c \in Slot /\ Formed(c) /\ Fits(c, proxy)
  BY DEF Served
<1>2. CASE c.over = "tcp"
  BY <1>2, FreeSlotIs DEF Done
<1>3. CASE c.over = "udp"
  <2> DEFINE d == [c EXCEPT !.pc = "ready", !.interface = None]
  <2>1. /\ d \in Slot /\ d.over = c.over /\ d.user = c.user /\ d.password = c.password
        /\ d.pc = "ready" /\ d.relay = c.relay /\ d.crossed = c.crossed
    BY <1>1 DEF Slot
  <2>2. Done(s) = d
    BY <1>3 DEF Done
  <2> HIDE DEF c, d
  <2>3. c.pc \in {"ready", "dialing", "tracked", "taken"}
    BY DEF c
  <2> QED
    BY <1>1, <1>3, <2>1, <2>2, <2>3 DEF Formed, Fits
<1> QED
  BY <1>1, <1>2, <1>3 DEF Slot

\* Whatever a client does, what it holds fits the binding.
LEMMA ClientIs ==
  ASSUME TypeOK, Served(proxy), NEW s \in Slots, Client(s)
  PROVE  slots' \in [Slots -> Slot] /\ Served(proxy)' /\ UNCHANGED <<proxy, connector, spent>>
<1> DEFINE c == slots[s]
<1>1. c \in Slot /\ Formed(c) /\ Fits(c, proxy) /\ slots \in [Slots -> Slot] /\ proxy \in Proxies
  BY DEF Served, TypeOK
<1>2. SUFFICES \E d \in Slot : Formed(d) /\ Fits(d, proxy) /\ Put(s, d)
  BY <1>1, PutIs
<1>3. CASE Put(s, FreeSlot)
  BY <1>3, FreeSlotIs
<1>4. CASE /\ Put(s, Done(s))
           /\ \/ c.pc \in {"dialing", "tracked", "taken"}
              \/ c.pc = "ready" /\ (c.over = "udp" => c.relay \in {"tracked", "taken"})
  BY <1>1, <1>4, DoneIs
<1>5. ASSUME NEW m \in Modems, NEW over \in {"tcp", "udp"}, Authenticate(s, m, over)
      PROVE  \E d \in Slot : Formed(d) /\ Fits(d, proxy) /\ Put(s, d)
  <2> DEFINE d == [FreeSlot EXCEPT !.over = over, !.user = m, !.password = proxy.config.password, !.pc = "ready"]
  <2>1. /\ d.over = over /\ d.user = m /\ d.password = proxy.config.password /\ d.pc = "ready"
        /\ d.relay = "none"
    BY DEF FreeSlot
  <2>2. d \in Slot
    <3>1. proxy.config.password \in {k.password : k \in Configs}
      BY <1>1 DEF Proxies
    <3> QED
      BY <3>1 DEF FreeSlot, Slot
  <2>3. Put(s, d)
    BY <1>5 DEF Authenticate
  <2> HIDE DEF d
  <2>4. Formed(d) /\ Fits(d, proxy)
    BY <2>1 DEF Formed, Fits
  <2> QED
    BY <2>2, <2>3, <2>4
<1>6. CASE c.pc = "ready" /\ c.over = "udp" /\ HasUser(s) /\ Put(s, [c EXCEPT !.relay = "tracked"])
  <2> DEFINE d == [c EXCEPT !.relay = "tracked"]
  <2>1. /\ d \in Slot /\ d.over = c.over /\ d.user = c.user /\ d.password = c.password
        /\ d.pc = c.pc /\ d.crossed = c.crossed /\ d.relay = "tracked"
    BY <1>1 DEF Slot
  <2>2. Put(s, d) /\ c.pc = "ready" /\ c.over = "udp" /\ proxy.active[c.user] # None
    BY <1>6 DEF HasUser
  <2> HIDE DEF c, d
  <2>3. Formed(d) /\ Fits(d, proxy)
    BY <1>1, <2>1, <2>2 DEF Formed, Fits
  <2> QED
    BY <2>1, <2>2, <2>3
<1>7. CASE /\ c.pc = "ready" /\ (c.over = "udp" => c.relay \in {"tracked", "taken"}) /\ HasUser(s)
           /\ Put(s, [c EXCEPT !.pc = "dialing", !.interface = proxy.active[c.user]])
  <2> DEFINE d == [c EXCEPT !.pc = "dialing", !.interface = proxy.active[c.user]]
  <2>1. c.user \in Modems /\ proxy.active[c.user] \in Interfaces \cup {None}
    BY <1>1, <1>7 DEF Formed, Proxies
  <2>2. /\ d \in Slot /\ d.over = c.over /\ d.user = c.user /\ d.password = c.password
        /\ d.pc = "dialing" /\ d.crossed = c.crossed /\ d.relay = c.relay
        /\ d.interface = proxy.active[c.user]
    BY <1>1, <2>1 DEF Slot
  <2>3. /\ Put(s, d) /\ c.pc = "ready" /\ proxy.active[c.user] # None
        /\ c.over = "udp" => c.relay \in {"tracked", "taken"}
    BY <1>7 DEF HasUser
  <2> HIDE DEF c, d
  <2>4. Formed(d) /\ Fits(d, proxy)
    BY <1>1, <2>1, <2>2, <2>3 DEF Formed, Fits
  <2> QED
    BY <2>2, <2>3, <2>4
<1>8. CASE c.pc = "dialing" /\ HasUser(s) /\ Put(s, [c EXCEPT !.pc = "tracked"])
  <2> DEFINE d == [c EXCEPT !.pc = "tracked"]
  <2>1. /\ d \in Slot /\ d.over = c.over /\ d.user = c.user /\ d.password = c.password
        /\ d.pc = "tracked" /\ d.crossed = c.crossed /\ d.relay = c.relay /\ d.interface = c.interface
    BY <1>1 DEF Slot
  <2>2. Put(s, d) /\ c.pc = "dialing" /\ proxy.active[c.user] # None
    BY <1>8 DEF HasUser
  <2> HIDE DEF c, d
  <2>3. Formed(d) /\ Fits(d, proxy)
    BY <1>1, <2>1, <2>2 DEF Formed, Fits
  <2> QED
    BY <2>1, <2>2, <2>3
<1>9. CASE c.relay # "none" /\ Put(s, [c EXCEPT !.relay = "over"])
  <2> DEFINE d == [c EXCEPT !.relay = "over"]
  <2>1. /\ d \in Slot /\ d.over = c.over /\ d.user = c.user /\ d.password = c.password
        /\ d.pc = c.pc /\ d.crossed = c.crossed /\ d.relay = "over" /\ d.interface = c.interface
    BY <1>1 DEF Slot
  <2>2. Put(s, d) /\ c.relay # "none"
    BY <1>9
  <2> HIDE DEF c, d
  <2>3. Formed(d) /\ Fits(d, proxy)
    BY <1>1, <2>1, <2>2 DEF Formed, Fits
  <2> QED
    BY <2>1, <2>2, <2>3
<1>10. CASE Associate(s)
  BY <1>3, <1>6, <1>10 DEF Associate, Is
<1>11. CASE ReadInterface(s)
  BY <1>4, <1>7, <1>11 DEF ReadInterface, Is
<1>12. CASE Dial(s)
  BY <1>4, <1>8, <1>12 DEF Dial, Is, Accepted
<1>13. CASE CloseTaken(s) \/ RelayEnds(s) \/ ClientEnds(s)
  BY <1>3, <1>4, <1>9, <1>13 DEF CloseTaken, RelayEnds, ClientEnds, Is
<1> QED
  BY <1>5, <1>10, <1>11, <1>12, <1>13 DEF Client

-----------------------------------------------------------------------------
(* What the connector does to the bindings and to the clients. *)

LEMMA RegisterKeeps ==
  ASSUME TypeOK, Sound(proxy), Served(proxy), Room, NEW m \in Modems, NEW i \in Interfaces,
         NEW refused, Register(m, i, refused)
  PROVE  /\ Sound(proxy)' /\ slots' \in [Slots -> Slot] /\ Served(proxy)'
         /\ proxy'.active = IF Registers(refused) THEN [proxy.active EXCEPT ![m] = i] ELSE proxy.active
<1> DEFINE users == IF Registers(refused) /\ proxy.active[m] \notin {None, i} THEN {m} ELSE {}
           concerned == IF Registers(refused) /\ proxy.active[m] # i THEN {m} ELSE {}
<1>1. /\ Sound(proxy)' /\ proxy'.config = proxy.config
      /\ proxy'.active = IF Registers(refused) THEN [proxy.active EXCEPT ![m] = i] ELSE proxy.active
      /\ Taking(users, concerned)
  BY RegisterIs
<1>2. slots \in [Slots -> Slot] /\ proxy.active \in [Modems -> Interfaces \cup {None}]
  BY DEF TypeOK, Proxies
<1>3. \A o \in Modems : proxy'.active[o] # proxy.active[o] =>
        o \in concerned /\ (o \in users \/ proxy.active[o] = None)
  BY <1>1, <1>2
<1> HIDE DEF users, concerned
<1> QED
  BY <1>1, <1>2, <1>3, Rebound

LEMMA UnregisterKeeps ==
  ASSUME TypeOK, Sound(proxy), Served(proxy), NEW m \in Modems, Unregister(m)
  PROVE  /\ Sound(proxy)' /\ slots' \in [Slots -> Slot] /\ Served(proxy)'
         /\ proxy'.active = [proxy.active EXCEPT ![m] = None]
<1>1. PICK users \in {Modems, {m}} :
        /\ Sound(proxy)' /\ proxy'.config = proxy.config
        /\ proxy'.active = [proxy.active EXCEPT ![m] = None]
        /\ Taking(users, {m})
  BY UnregisterIs
<1>2. slots \in [Slots -> Slot] /\ proxy.active \in [Modems -> Interfaces \cup {None}]
  BY DEF TypeOK, Proxies
<1>3. \A o \in Modems : proxy'.active[o] # proxy.active[o] =>
        o \in {m} /\ (o \in users \/ proxy.active[o] = None)
  BY <1>1, <1>2
<1> QED
  BY <1>1, <1>2, <1>3, Rebound

\* The proxy and its clients after a step of the connector.
Serving ==
  Sound(proxy)' /\ slots' \in [Slots -> Slot] /\ Served(proxy)'

LEMMA ProxyStays ==
  ASSUME TypeOK, Sound(proxy), Served(proxy), UNCHANGED <<proxy, slots>>
  PROVE  Serving /\ proxy'.active = proxy.active
BY DEF Serving, TypeOK, Sound, Owned, Wanted, Started, Active, Served

LEMMA DeletedIs ==
  ASSUME TypeOK, NEW gone, NEW failed \in BOOLEAN, Deleted(gone, failed)
  PROVE  /\ records' \in [Interfaces -> Modems \cup {None}]
         /\ \A i \in Interfaces : records'[i] # records[i] => i \in gone /\ records'[i] = None
BY DEF TypeOK, Deleted

\* The records and the bindings that may change with those of one modem.
Own(m, names) ==
  /\ records' \in [Interfaces -> Modems \cup {None}]
  /\ \A i \in Interfaces : records'[i] # records[i] => i \in names \/ records[i] = m

LEMMA CleanupProxyIs ==
  ASSUME TypeOK, Sound(proxy), Served(proxy), NEW m \in Modems, NEW i, NEW failed \in BOOLEAN,
         CleanupProxy(m, i, failed)
  PROVE  Serving /\ proxy'.active = [proxy.active EXCEPT ![m] = None] /\ Own(m, {i})
BY UnregisterKeeps, DeletedIs DEF CleanupProxy, Serving, Own

\* Nothing happens when the records cannot be listed and none is stale.
LEMMA CleanupStaleIs ==
  ASSUME TypeOK, Sound(proxy), Served(proxy), NEW m \in Modems, NEW stale, NEW failed \in BOOLEAN,
         CleanupStale(m, stale, failed)
  PROVE  /\ Serving /\ Own(m, stale)
         /\ \/ proxy'.active = [proxy.active EXCEPT ![m] = None]
            \/ failed /\ stale = {} /\ proxy'.active = proxy.active
<1>1. CASE failed /\ stale = {}
  <2>1. UNCHANGED <<records, proxy, slots>>
    BY <1>1 DEF CleanupStale
  <2> QED
    BY <1>1, <2>1, ProxyStays DEF Own, TypeOK
<1>2. CASE ~(failed /\ stale = {})
  <2> DEFINE gone == stale \cup (IF failed THEN {} ELSE {i \in Interfaces : records[i] = m})
  <2>1. Deleted(gone, FALSE) /\ Unregister(m)
    BY <1>2 DEF CleanupStale
  <2>2. /\ records' \in [Interfaces -> Modems \cup {None}]
        /\ \A i \in Interfaces : records'[i] # records[i] => i \in gone
    <3> HIDE DEF gone
    <3> QED
      BY <2>1, DeletedIs
  <2> QED
    BY <2>1, <2>2, UnregisterKeeps DEF Serving, Own
<1> QED
  BY <1>1, <1>2

-----------------------------------------------------------------------------
(* One modem's step: the others keep what they hold. *)

Spends == [requests : 0..MaxRequests, updates : 0..MaxUpdates,
           restarts : 0..MaxRestarts, faults : 0..MaxFaults]

LEMMA FailedIs ==
  ASSUME spent \in Spends, NEW n \in Nat, spent.faults + n <= MaxFaults, Failed(n)
  PROVE  spent' \in Spends
<1>1. spent.faults \in Nat /\ MaxFaults \in Nat
  BY BoundsAre DEF Spends
<1>2. spent.faults + n \in 0..MaxFaults
  BY <1>1
<1>3. spent' = [spent EXCEPT !.faults = spent.faults + n]
  BY DEF Failed
<1> QED
  BY <1>2, <1>3 DEF Spends

LEMMA OneFails ==
  ASSUME spent \in Spends, MayFail, Failed(1)
  PROVE  spent' \in Spends
<1>1. spent.faults \in Nat /\ spent.faults < MaxFaults /\ MaxFaults \in Nat
  BY BoundsAre DEF MayFail, Spends
<1> QED
  BY <1>1, FailedIs

LEMMA CostIs ==
  ASSUME spent \in Spends, NEW K, NEW f \in Faults(K)
  PROVE  /\ Cost(f) \in Nat /\ spent.faults + Cost(f) <= MaxFaults
         /\ spent.faults \in Nat /\ (Failed(Cost(f)) => spent' \in Spends)
<1>1. spent.faults \in Nat /\ spent.faults <= MaxFaults /\ MaxFaults \in Nat
  BY BoundsAre DEF Spends
<1>2. Cost(f) \in {0, 1} /\ (Cost(f) = 1 => spent.faults < MaxFaults)
  BY DEF Cost, Faults, MayFail
<1>3. Cost(f) \in Nat /\ spent.faults + Cost(f) <= MaxFaults
  BY <1>1, <1>2
<1> QED
  BY <1>1, <1>3, FailedIs

LEMMA RequestIs ==
  ASSUME TypeOK, NEW m \in Modems, NEW K, NEW f \in Faults(K), Request(m, f)
  PROVE  spent' \in Spends /\ boot = {} /\ ops[m].pc = "idle"
<1>1. spent \in Spends
  BY DEF TypeOK, Spends
<1>2. Cost(f) \in Nat /\ spent.faults + Cost(f) <= MaxFaults /\ spent.faults \in Nat
  BY <1>1, CostIs
<1>3. spent.requests \in Nat /\ spent.requests < MaxRequests /\ MaxRequests \in Nat /\ MaxFaults \in Nat
  BY <1>1, BoundsAre DEF Spends, Request
<1>4. spent.requests + 1 \in 0..MaxRequests /\ spent.faults + Cost(f) \in 0..MaxFaults
  BY <1>2, <1>3
<1>5. spent' = [spent EXCEPT !.requests = spent.requests + 1, !.faults = spent.faults + Cost(f)]
  BY DEF Request
<1>6. spent' \in Spends
  BY <1>1, <1>4, <1>5 DEF Spends
<1> QED
  BY <1>6 DEF Request, At

\* What one modem's step leaves to the others.
Local(m) ==
  /\ \A o \in Modems \ {m} : /\ ops'[o] = ops[o] /\ tracked'[o] = tracked[o]
                              /\ bearers'[o] = bearers[o] /\ proxy'.active[o] = proxy.active[o]
  /\ Own(m, Held(m) \cup Names(m))
  /\ Held(m)' \subseteq Held(m) \cup Names(m)
  /\ boot' \subseteq boot /\ (boot # {} => ops' = ops)

LEMMA LocalKeeps ==
  ASSUME IInv, NEW m \in Modems, Local(m), WellBound(m)'
  PROVE  Exclusive' /\ Booting' /\ \A o \in Modems : WellBound(o)'
<1>1. ASSUME NEW o \in Modems \ {m} PROVE Held(o)' = Held(o) /\ (Held(m) \cup Names(m)) \cap Held(o) = {}
  <2>1. Held(o)' = Held(o)
    BY DEF Local, Held
  <2>2. Held(m) \cap Held(o) = {}
    BY DEF IInv, Exclusive
  <2>3. Names(m) \cap Held(o) = {}
    BY DEF Names, Held
  <2> QED
    BY <2>1, <2>2, <2>3
<1>2. Exclusive'
  <2> SUFFICES ASSUME NEW a \in Modems, NEW b \in Modems, a # b PROVE Held(a)' \cap Held(b)' = {}
    BY DEF Exclusive
  <2>1. Held(m)' \subseteq Held(m) \cup Names(m)
    BY DEF Local
  <2>2. CASE a = m
    BY <1>1, <2>1, <2>2
  <2>3. CASE b = m
    BY <1>1, <2>1, <2>3
  <2>4. CASE a # m /\ b # m
    <3>1. Held(a)' = Held(a) /\ Held(b)' = Held(b)
      BY <1>1, <2>4
    <3> QED
      BY <3>1 DEF IInv, Exclusive
  <2> QED
    BY <2>2, <2>3, <2>4
<1>3. Booting'
  <2>1. (boot # {} => ops' = ops) /\ boot' \subseteq boot
    BY DEF Local
  <2> QED
    BY <2>1 DEF IInv, Booting
<1>4. ASSUME NEW o \in Modems \ {m} PROVE WellBound(o)'
  <2>1. /\ ops'[o] = ops[o] /\ tracked'[o] = tracked[o] /\ bearers'[o] = bearers[o]
        /\ proxy'.active[o] = proxy.active[o] /\ boot' \subseteq boot
    BY DEF Local
  <2>2. WellBound(o) /\ TypeOK
    BY DEF IInv
  <2>3. ASSUME NEW i \in Held(o), i \in Interfaces, records[i] = o PROVE records'[i] = o
    <3>1. i \notin Held(m) \cup Names(m)
      BY <1>1
    <3>2. records'[i] # records[i] => i \in Held(m) \cup Names(m) \/ records[i] = m
      BY <2>3 DEF Local, Own
    <3> QED
      BY <2>3, <3>1, <3>2
  <2>4. bearers[o] \in Interfaces \cup {None} /\ tracked[o] \in Interfaces \cup {None}
        /\ ops[o].interface \in Interfaces \cup {None}
    BY <2>2 DEF TypeOK, Operation
  <2>5. Known(o) => Known(o)'
    BY <2>1, <2>3, <2>4 DEF Known, Held
  <2>6. ops[o].interface # None /\ records[ops[o].interface] = o => records'[ops[o].interface] = o
    BY <2>3, <2>4 DEF Held
  <2> QED
    BY <2>1, <2>2, <2>5, <2>6 DEF WellBound
<1> QED
  BY <1>2, <1>3, <1>4

\* A step that leaves the connector's state alone.
LEMMA Unmoved ==
  ASSUME IInv, UNCHANGED <<records, bearers, tracked, ops, boot>>, proxy'.active = proxy.active
  PROVE  Exclusive' /\ Booting' /\ \A m \in Modems : WellBound(m)'
<1>1. \A m \in Modems : Held(m)' = Held(m) /\ (Known(m) => Known(m)')
  BY DEF Held, Known
<1>2. Exclusive' /\ Booting'
  BY <1>1 DEF IInv, Exclusive, Booting
<1>3. ASSUME NEW m \in Modems PROVE WellBound(m)'
  BY <1>1 DEF IInv, WellBound
<1> QED
  BY <1>2, <1>3

-----------------------------------------------------------------------------
(* Each step of the connector. *)

\* What is to be shown of a step on modem m.
Goal(m) == TypeOK' /\ Serving /\ Local(m) /\ WellBound(m)'

\* The parts of TypeOK a step may change, with the ones that stay.
LEMMA TypedIs ==
  ASSUME TypeOK, Serving, records' \in [Interfaces -> Modems \cup {None}],
         bearers' \in [Modems -> Interfaces \cup {None}],
         tracked' \in [Modems -> Interfaces \cup {None}],
         ops' \in [Modems -> Operation], boot' \subseteq Modems, spent' \in Spends,
         UNCHANGED <<saved, update>>
  PROVE  TypeOK'
BY DEF TypeOK, Serving, Sound, Spends

LEMMA PartsAre ==
  ASSUME TypeOK
  PROVE  /\ bearers \in [Modems -> Interfaces \cup {None}]
         /\ tracked \in [Modems -> Interfaces \cup {None}]
         /\ records \in [Interfaces -> Modems \cup {None}]
         /\ ops \in [Modems -> Operation] /\ Idle \in Operation
         /\ boot \subseteq Modems /\ spent \in Spends /\ proxy \in Proxies
         /\ proxy.active \in [Modems -> Interfaces \cup {None}]
BY DEF TypeOK, Operation, Idle, Spends, Proxies

\* disconnect: the user is no longer registered, unless the modem had neither
\* a connection nor a bearer and its records could not be listed.
LEMMA DisconnectedIs ==
  ASSUME IInv, NEW m \in Modems, NEW f, Disconnected(m, f)
  PROVE  /\ Serving /\ Own(m, Held(m))
         /\ tracked' = [tracked EXCEPT ![m] = None]
         /\ bearers' = [bearers EXCEPT ![m] = IF f = "bearer" THEN @ ELSE None]
         /\ \/ proxy'.active = [proxy.active EXCEPT ![m] = None]
            \/ /\ f = "record" /\ proxy'.active = proxy.active
               /\ tracked[m] = None /\ bearers[m] = None
<1> DEFINE i == IF tracked[m] # None THEN tracked[m] ELSE bearers[m]
           failed == f = "record"
<1>1. TypeOK /\ Sound(proxy) /\ Served(proxy) /\ failed \in BOOLEAN
  BY DEF IInv
<1>2. /\ IF i # None THEN CleanupProxy(m, i, failed) ELSE CleanupStale(m, {}, failed)
      /\ tracked' = [tracked EXCEPT ![m] = None]
      /\ bearers' = [bearers EXCEPT ![m] = IF f = "bearer" THEN @ ELSE None]
  BY DEF Disconnected
<1>3. i # None => i \in Held(m)
  BY DEF Held
<1>4. i = None => tracked[m] = None /\ bearers[m] = None
  OBVIOUS
<1>5. failed <=> f = "record"
  OBVIOUS
<1> HIDE DEF i, failed
<1>6. CASE i # None
  BY <1>1, <1>2, <1>3, <1>6, CleanupProxyIs DEF Own
<1>7. CASE i = None
  BY <1>1, <1>2, <1>4, <1>5, <1>7, CleanupStaleIs DEF Own
<1> QED
  BY <1>6, <1>7

LEMMA DisconnectIs ==
  ASSUME IInv, NEW m \in Modems, Disconnect(m)
  PROVE  Goal(m)
<1>1. PICK f \in Faults({"record", "bearer"}) :
        Request(m, f) /\ Disconnected(m, f) /\ UNCHANGED <<ops, saved, update, boot>>
  BY DEF Disconnect
<1>2. TypeOK /\ WellBound(m) /\ spent' \in Spends /\ boot = {} /\ ops[m].pc = "idle"
  BY <1>1, RequestIs DEF IInv
<1>3. /\ Serving /\ Own(m, Held(m))
      /\ tracked' = [tracked EXCEPT ![m] = None]
      /\ bearers' = [bearers EXCEPT ![m] = IF f = "bearer" THEN @ ELSE None]
      /\ \/ proxy'.active = [proxy.active EXCEPT ![m] = None]
         \/ proxy'.active = proxy.active /\ tracked[m] = None /\ bearers[m] = None
  BY <1>1, DisconnectedIs
<1>4. TypeOK'
  BY <1>1, <1>2, <1>3, PartsAre, TypedIs DEF Own
<1>5. Local(m)
  BY <1>1, <1>2, <1>3, PartsAre DEF Local, Own, Held
<1>6. tracked'[m] = None /\ (bearers'[m] = None \/ proxy'.active[m] = None)
  BY <1>2, <1>3, PartsAre
<1>7. WellBound(m)'
  BY <1>1, <1>2, <1>6 DEF WellBound, Known, Idle
<1> QED
  BY <1>3, <1>4, <1>5, <1>7 DEF Goal

LEMMA ConnectIs ==
  ASSUME IInv, NEW m \in Modems, NEW enabled \in BOOLEAN, Connect(m, enabled)
  PROVE  Goal(m)
<1> DEFINE next == [Idle EXCEPT !.pc = "cleaned", !.proxy = enabled]
<1>1. PICK f \in Faults({"record", "bearer"}) :
        /\ Request(m, f) /\ Disconnected(m, f)
        /\ ops' = [ops EXCEPT ![m] = IF f = "none" THEN next ELSE Idle]
        /\ UNCHANGED <<saved, update, boot>>
  BY DEF Connect, Goto
<1>2. TypeOK /\ WellBound(m) /\ spent' \in Spends /\ boot = {} /\ ops[m].pc = "idle" /\ ops[m] = Idle
  BY <1>1, RequestIs DEF IInv, WellBound
<1>3. /\ Serving /\ Own(m, Held(m))
      /\ tracked' = [tracked EXCEPT ![m] = None]
      /\ bearers' = [bearers EXCEPT ![m] = IF f = "bearer" THEN @ ELSE None]
      /\ \/ proxy'.active = [proxy.active EXCEPT ![m] = None]
         \/ /\ f = "record" /\ proxy'.active = proxy.active
            /\ tracked[m] = None /\ bearers[m] = None
  BY <1>1, DisconnectedIs
<1>4. /\ next \in Operation /\ next.pc = "cleaned" /\ next.interface = None
      /\ Idle.pc = "idle" /\ Idle.interface = None
  BY DEF Operation, Idle
<1> HIDE DEF next
<1>5. TypeOK'
  BY <1>1, <1>2, <1>3, <1>4, PartsAre, TypedIs DEF Own
<1>6. Local(m)
  BY <1>1, <1>2, <1>3, <1>4, PartsAre DEF Local, Own, Held
<1>7. tracked'[m] = None /\ (bearers'[m] = None \/ proxy'.active[m] = None)
  BY <1>2, <1>3, PartsAre
<1>8. f = "none" => bearers'[m] = None /\ proxy'.active[m] = None
  BY <1>2, <1>3, PartsAre
<1>9. ops'[m] = IF f = "none" THEN next ELSE Idle
  BY <1>1, <1>2, PartsAre
<1>10. WellBound(m)'
  BY <1>1, <1>2, <1>4, <1>7, <1>8, <1>9 DEF WellBound, Known
<1> QED
  BY <1>3, <1>5, <1>6, <1>10 DEF Goal

\* A step that is not of an idle modem is taken when every modem is recovered.
LEMMA BusyIs ==
  ASSUME IInv, NEW m \in Modems, ops[m].pc # "idle"
  PROVE  boot = {}
BY DEF IInv, Booting, Idle

LEMMA BindIs ==
  ASSUME IInv, NEW m \in Modems, NEW i \in Interfaces, Bind(m, i)
  PROVE  Goal(m)
<1> DEFINE next == [ops[m] EXCEPT !.pc = "bound", !.interface = i]
<1>1. PICK refused \in Faults(Kinds) :
        /\ ops[m].pc = "cleaned" /\ i \in Names(m) /\ Room
        /\ IF ops[m].proxy
           THEN /\ Register(m, i, refused)
                /\ records' = IF Registers(refused) THEN records ELSE [records EXCEPT ![i] = None]
           ELSE CleanupProxy(m, i, FALSE)
        /\ IF ops[m].proxy /\ ~Registers(refused)
           THEN ops' = [ops EXCEPT ![m] = Idle] /\ UNCHANGED bearers
           ELSE ops' = [ops EXCEPT ![m] = next] /\ bearers' = [bearers EXCEPT ![m] = i]
        /\ Failed(Cost(refused)) /\ UNCHANGED <<tracked, saved, update, boot>>
  BY DEF Bind, At, Goto
<1>2. /\ TypeOK /\ Sound(proxy) /\ Served(proxy) /\ WellBound(m)
      /\ boot = {} /\ ops[m] \in Operation /\ i # None
      /\ bearers[m] = None /\ tracked[m] = None /\ proxy.active[m] = None
  BY <1>1, BusyIs, BoundsAre DEF IInv, WellBound, TypeOK
<1>3. spent' \in Spends
  BY <1>1, <1>2, CostIs, PartsAre
<1>4. /\ next \in Operation /\ next.pc = "bound" /\ next.interface = i /\ next.proxy = ops[m].proxy
      /\ Idle.pc = "idle" /\ Idle.interface = None
  BY <1>2 DEF Operation, Idle
<1> HIDE DEF next
<1>5. /\ Serving /\ Own(m, {i})
      /\ proxy'.active = IF ops[m].proxy /\ Registers(refused) THEN [proxy.active EXCEPT ![m] = i]
                         ELSE [proxy.active EXCEPT ![m] = None]
  <2>1. CASE ops[m].proxy
    <3>1. /\ Sound(proxy)' /\ slots' \in [Slots -> Slot] /\ Served(proxy)'
          /\ proxy'.active = IF Registers(refused) THEN [proxy.active EXCEPT ![m] = i] ELSE proxy.active
      BY <1>1, <1>2, <2>1, RegisterKeeps
    <3>2. Own(m, {i})
      BY <1>1, <1>2, <2>1, PartsAre DEF Own
    <3>3. proxy.active = [proxy.active EXCEPT ![m] = None]
      BY <1>2, PartsAre
    <3> QED
      BY <2>1, <3>1, <3>2, <3>3 DEF Serving
  <2>2. CASE ~ops[m].proxy
    BY <1>1, <1>2, <2>2, CleanupProxyIs
  <2> QED
    BY <2>1, <2>2
<1>6. TypeOK'
  <2>1. bearers' \in [Modems -> Interfaces \cup {None}] /\ ops' \in [Modems -> Operation]
    BY <1>1, <1>2, <1>4, PartsAre
  <2> QED
    BY <1>1, <1>2, <1>3, <1>5, <2>1, PartsAre, TypedIs DEF Own
<1>7. Local(m)
  <2>1. Held(m)' \subseteq Held(m) \cup {i}
    BY <1>1, <1>2, <1>4, PartsAre DEF Held
  <2>2. \A o \in Modems \ {m} : ops'[o] = ops[o] /\ bearers'[o] = bearers[o] /\ proxy'.active[o] = proxy.active[o]
    BY <1>1, <1>2, <1>5, PartsAre
  <2> QED
    BY <1>1, <1>2, <1>5, <2>1, <2>2 DEF Local, Own
<1>8. WellBound(m)'
  <2>1. CASE ops[m].proxy /\ ~Registers(refused)
    BY <1>1, <1>2, <1>4, <1>5, <2>1, PartsAre DEF WellBound, Known
  <2>2. CASE ~(ops[m].proxy /\ ~Registers(refused))
    <3>1. ops'[m] = next /\ bearers'[m] = i /\ tracked'[m] = None
      BY <1>1, <1>2, <2>2, PartsAre
    <3>2. proxy'.active[m] = IF ops[m].proxy THEN i ELSE None
      BY <1>2, <1>5, <2>2, PartsAre
    <3> QED
      BY <1>1, <1>2, <1>4, <3>1, <3>2 DEF WellBound
  <2> QED
    BY <2>1, <2>2
<1> QED
  BY <1>5, <1>6, <1>7, <1>8 DEF Goal

LEMMA NoBearerIs ==
  ASSUME IInv, NEW m \in Modems, NoBearer(m)
  PROVE  Goal(m)
<1>1. /\ ops[m].pc = "cleaned" /\ MayFail /\ Failed(1) /\ ops' = [ops EXCEPT ![m] = Idle]
      /\ UNCHANGED <<proxy, slots, records, bearers, tracked, saved, update, boot>>
  BY DEF NoBearer, At, Goto
<1>2. /\ TypeOK /\ Sound(proxy) /\ Served(proxy) /\ boot = {}
      /\ bearers[m] = None /\ tracked[m] = None /\ proxy.active[m] = None
  BY <1>1, BusyIs DEF IInv, WellBound
<1>3. spent' \in Spends
  BY <1>1, <1>2, PartsAre, OneFails
<1>4. Serving /\ proxy'.active = proxy.active
  BY <1>1, <1>2, ProxyStays
<1>5. TypeOK'
  BY <1>1, <1>2, <1>3, <1>4, PartsAre, TypedIs
<1>6. Local(m)
  BY <1>1, <1>2, <1>4, PartsAre DEF Local, Own, Held, Idle
<1>7. WellBound(m)'
  BY <1>1, <1>2, <1>4, PartsAre DEF WellBound, Known, Idle
<1> QED
  BY <1>4, <1>5, <1>6, <1>7 DEF Goal

LEMMA SaveIs ==
  ASSUME IInv, NEW m \in Modems, Save(m)
  PROVE  Goal(m)
<1> DEFINE i == ops[m].interface
           next == [ops[m] EXCEPT !.pc = "saved"]
<1>1. /\ ops[m].pc = "bound"
      /\ records' = IF ~ops[m].proxy THEN records
                    ELSE [r \in Interfaces |-> IF r = i THEN m
                                               ELSE IF records[r] = m THEN None ELSE records[r]]
      /\ ops' = [ops EXCEPT ![m] = next]
      /\ UNCHANGED <<proxy, slots, bearers, tracked, saved, update, boot, spent>>
  BY DEF Save, At, Goto
<1>2. /\ TypeOK /\ Sound(proxy) /\ Served(proxy) /\ boot = {} /\ WellBound(m)
      /\ ops[m] \in Operation
  BY <1>1, BusyIs DEF IInv, TypeOK
<1>3. /\ i \in Interfaces /\ i \in Held(m) /\ tracked[m] = None /\ bearers[m] \in {i, None}
      /\ proxy.active[m] = IF ops[m].proxy THEN i ELSE None
  BY <1>1, <1>2 DEF WellBound, Operation, Held
<1>4. next \in Operation /\ next.pc = "saved" /\ next.interface = i /\ next.proxy = ops[m].proxy
  BY <1>2 DEF Operation
<1>5. Serving /\ proxy'.active = proxy.active
  BY <1>1, <1>2, ProxyStays
<1>6. Own(m, Held(m)) /\ (ops[m].proxy => records'[i] = m)
  BY <1>1, <1>2, <1>3, PartsAre DEF Own
<1> HIDE DEF i, next
<1>7. TypeOK'
  BY <1>1, <1>2, <1>4, <1>5, <1>6, PartsAre, TypedIs DEF Own
<1>8. ops'[m] = next /\ i = ops[m].interface
  BY <1>1, <1>2, PartsAre DEF i
<1>9. Local(m)
  <2>1. Held(m)' = Held(m)
    BY <1>1, <1>4, <1>8 DEF Held
  <2> QED
    BY <1>1, <1>2, <1>5, <1>6, <2>1, PartsAre DEF Local, Own
<1>10. WellBound(m)'
  BY <1>1, <1>2, <1>3, <1>4, <1>5, <1>6, <1>8, BoundsAre DEF WellBound
<1> QED
  BY <1>5, <1>7, <1>9, <1>10 DEF Goal

LEMMA AbandonIs ==
  ASSUME IInv, NEW m \in Modems, Abandon(m)
  PROVE  Goal(m)
<1> DEFINE i == ops[m].interface
<1>1. PICK f \in Faults({"call", "record"}) :
        /\ ops[m].pc \in {"bound", "saved"} /\ CleanupProxy(m, i, f = "record")
        /\ Failed(Cost(f)) /\ ops' = [ops EXCEPT ![m] = Idle]
        /\ bearers' = [bearers EXCEPT ![m] = None]
        /\ UNCHANGED <<tracked, saved, update, boot>>
  BY DEF Abandon, At, Goto
<1>2. /\ TypeOK /\ Sound(proxy) /\ Served(proxy) /\ boot = {} /\ WellBound(m)
      /\ ops[m] \in Operation /\ (f = "record") \in BOOLEAN
  BY <1>1, BusyIs DEF IInv, TypeOK
<1>3. i \in Interfaces /\ i \in Held(m) /\ tracked[m] = None
  BY <1>1, <1>2 DEF WellBound, Operation, Held
<1>4. Serving /\ proxy'.active = [proxy.active EXCEPT ![m] = None] /\ Own(m, {i})
  BY <1>1, <1>2, CleanupProxyIs
<1>5. spent' \in Spends
  BY <1>1, <1>2, CostIs, PartsAre
<1> HIDE DEF i
<1>6. TypeOK'
  BY <1>1, <1>2, <1>4, <1>5, PartsAre, TypedIs DEF Own
<1>7. ops'[m] = Idle /\ tracked'[m] = None /\ bearers'[m] = None /\ proxy'.active[m] = None
  BY <1>1, <1>2, <1>3, <1>4, PartsAre
<1>8. Local(m)
  <2>1. Held(m)' = {}
    BY <1>7 DEF Held, Idle
  <2> QED
    BY <1>1, <1>2, <1>3, <1>4, <2>1, PartsAre DEF Local, Own
<1>9. WellBound(m)'
  BY <1>1, <1>2, <1>7 DEF WellBound, Idle
<1> QED
  BY <1>4, <1>6, <1>8, <1>9 DEF Goal

LEMMA FinishIs ==
  ASSUME IInv, NEW m \in Modems, Finish(m)
  PROVE  Goal(m)
<1> DEFINE i == ops[m].interface
<1>1. /\ ops[m].pc = "saved" /\ tracked' = [tracked EXCEPT ![m] = i] /\ ops' = [ops EXCEPT ![m] = Idle]
      /\ UNCHANGED <<proxy, slots, records, bearers, saved, update, boot, spent>>
  BY DEF Finish, At, Goto
<1>2. /\ TypeOK /\ Sound(proxy) /\ Served(proxy) /\ boot = {} /\ WellBound(m) /\ ops[m] \in Operation
  BY <1>1, BusyIs DEF IInv, TypeOK
<1>3. /\ i \in Interfaces /\ i \in Held(m) /\ bearers[m] \in {i, None}
      /\ proxy.active[m] # None => proxy.active[m] = i /\ records[i] = m
  BY <1>1, <1>2 DEF WellBound, Operation, Held
<1>4. Serving /\ proxy'.active = proxy.active
  BY <1>1, <1>2, ProxyStays
<1> HIDE DEF i
<1>5. TypeOK'
  BY <1>1, <1>2, <1>3, <1>4, PartsAre, TypedIs
<1>6. ops'[m] = Idle /\ tracked'[m] = i
  BY <1>1, <1>2, PartsAre
<1>7. Local(m)
  <2>1. Held(m)' \subseteq Held(m)
    BY <1>1, <1>3, <1>6 DEF Held, Idle
  <2> QED
    BY <1>1, <1>2, <1>4, <2>1, PartsAre DEF Local, Own
<1>8. WellBound(m)'
  BY <1>1, <1>2, <1>3, <1>4, <1>6 DEF WellBound, Known, Idle
<1> QED
  BY <1>4, <1>5, <1>7, <1>8 DEF Goal

LEMMA UnreadableIs ==
  ASSUME IInv, NEW m \in Modems, Unreadable(m)
  PROVE  Goal(m)
<1>1. /\ MayFail /\ Request(m, "call") /\ tracked' = [tracked EXCEPT ![m] = None]
      /\ UNCHANGED <<proxy, slots, records, bearers, ops, saved, update, boot>>
  BY DEF Unreadable
<1>2. /\ TypeOK /\ Sound(proxy) /\ Served(proxy) /\ WellBound(m) /\ "call" \in Faults({"call"})
  BY <1>1 DEF IInv, Faults
<1>3. spent' \in Spends /\ boot = {} /\ ops[m].pc = "idle"
  BY <1>1, <1>2, RequestIs
<1>4. Serving /\ proxy'.active = proxy.active
  BY <1>1, <1>2, ProxyStays
<1>5. TypeOK'
  BY <1>1, <1>2, <1>3, <1>4, PartsAre, TypedIs
<1>6. Local(m)
  BY <1>1, <1>2, <1>4, PartsAre DEF Local, Own, Held
<1>7. WellBound(m)'
  BY <1>1, <1>2, <1>3, <1>4, PartsAre DEF WellBound, Known, Idle
<1> QED
  BY <1>4, <1>5, <1>6, <1>7 DEF Goal

LEMMA DownIs ==
  ASSUME IInv, NEW m \in Modems, Down(m)
  PROVE  Goal(m)
<1>1. PICK f \in Faults({"record"}) :
        /\ tracked[m] # None /\ bearers[m] = None /\ Request(m, f)
        /\ CleanupProxy(m, tracked[m], f = "record")
        /\ tracked' = [tracked EXCEPT ![m] = IF f = "none" THEN None ELSE @]
        /\ UNCHANGED <<bearers, ops, saved, update, boot>>
  BY DEF Down
<1>2. /\ TypeOK /\ Sound(proxy) /\ Served(proxy) /\ WellBound(m) /\ (f = "record") \in BOOLEAN
      /\ tracked[m] \in Held(m)
  BY <1>1 DEF IInv, Held
<1>3. spent' \in Spends /\ boot = {} /\ ops[m].pc = "idle"
  BY <1>1, <1>2, RequestIs
<1>4. Serving /\ proxy'.active = [proxy.active EXCEPT ![m] = None] /\ Own(m, {tracked[m]})
  BY <1>1, <1>2, CleanupProxyIs
<1>5. TypeOK'
  BY <1>1, <1>2, <1>3, <1>4, PartsAre, TypedIs DEF Own
<1>6. Local(m)
  BY <1>1, <1>2, <1>3, <1>4, PartsAre DEF Local, Own, Held
<1>7. WellBound(m)'
  BY <1>1, <1>2, <1>3, <1>4, PartsAre DEF WellBound, Idle
<1> QED
  BY <1>4, <1>5, <1>6, <1>7 DEF Goal

LEMMA GoneIs ==
  ASSUME IInv, NEW m \in Modems, Gone(m)
  PROVE  Goal(m)
<1> DEFINE stale == {tracked[m]} \ {None}
<1>1. PICK f \in Faults({"record"}) :
        /\ bearers[m] = None /\ Request(m, f)
        /\ CleanupStale(m, stale, f = "record")
        /\ tracked' = [tracked EXCEPT ![m] = None]
        /\ UNCHANGED <<bearers, ops, saved, update, boot>>
  BY DEF Gone
<1>2. /\ TypeOK /\ Sound(proxy) /\ Served(proxy) /\ WellBound(m) /\ (f = "record") \in BOOLEAN
      /\ stale \subseteq Held(m)
  BY <1>1 DEF IInv, Held
<1>3. spent' \in Spends /\ boot = {} /\ ops[m].pc = "idle"
  BY <1>1, <1>2, RequestIs
<1> HIDE DEF stale
<1>4. /\ Serving /\ Own(m, stale)
      /\ proxy'.active \in {[proxy.active EXCEPT ![m] = None], proxy.active}
  BY <1>1, <1>2, CleanupStaleIs
<1>5. TypeOK'
  BY <1>1, <1>2, <1>3, <1>4, PartsAre, TypedIs DEF Own
<1>6. tracked'[m] = None /\ bearers'[m] = None
  BY <1>1, <1>2, PartsAre
<1>7. Local(m)
  <2>1. Held(m)' \subseteq Held(m)
    BY <1>1, <1>6 DEF Held
  <2> QED
    BY <1>1, <1>2, <1>3, <1>4, <2>1, PartsAre DEF Local, Own
<1>8. WellBound(m)'
  BY <1>1, <1>2, <1>3, <1>6 DEF WellBound, Known, Idle
<1> QED
  BY <1>4, <1>5, <1>7, <1>8 DEF Goal

LEMMA FoundIs ==
  ASSUME IInv, NEW m \in Modems, Found(m)
  PROVE  Goal(m)
<1>1. /\ Request(m, "none") /\ tracked' = [tracked EXCEPT ![m] = bearers[m]]
      /\ UNCHANGED <<proxy, slots, records, bearers, ops, saved, update, boot>>
  BY DEF Found
<1>2. /\ TypeOK /\ Sound(proxy) /\ Served(proxy) /\ WellBound(m) /\ "none" \in Faults({})
  BY DEF IInv, Faults
<1>3. spent' \in Spends /\ boot = {} /\ ops[m].pc = "idle"
  BY <1>1, <1>2, RequestIs
<1>4. Serving /\ proxy'.active = proxy.active
  BY <1>1, <1>2, ProxyStays
<1>5. TypeOK'
  BY <1>1, <1>2, <1>3, <1>4, PartsAre, TypedIs
<1>6. Local(m)
  BY <1>1, <1>2, <1>4, PartsAre DEF Local, Own, Held
<1>7. WellBound(m)'
  BY <1>1, <1>2, <1>3, <1>4, PartsAre DEF WellBound, Known, Idle
<1> QED
  BY <1>4, <1>5, <1>6, <1>7 DEF Goal

LEMMA BearerLostIs ==
  ASSUME IInv, NEW m \in Modems, BearerLost(m)
  PROVE  Goal(m)
<1>1. /\ MayFail /\ Failed(1) /\ bearers' = [bearers EXCEPT ![m] = None]
      /\ UNCHANGED <<proxy, slots, records, tracked, ops, saved, update, boot>>
  BY DEF BearerLost
<1>2. /\ TypeOK /\ Sound(proxy) /\ Served(proxy) /\ WellBound(m)
  BY DEF IInv
<1>3. spent' \in Spends
  BY <1>1, <1>2, PartsAre, OneFails
<1>4. Serving /\ proxy'.active = proxy.active
  BY <1>1, <1>2, ProxyStays
<1>5. TypeOK'
  BY <1>1, <1>2, <1>3, <1>4, PartsAre, TypedIs
<1>6. Local(m)
  BY <1>1, <1>2, <1>4, PartsAre DEF Local, Own, Held
<1>7. bearers'[m] = None
  BY <1>1, <1>2, PartsAre
<1>8. WellBound(m)'
  BY <1>1, <1>2, <1>4, <1>7 DEF WellBound, Known
<1> QED
  BY <1>4, <1>5, <1>6, <1>8 DEF Goal

\* recover: the modem is registered for the bearer it has with its record, or
\* it is no user.
LEMMA RecoverIs ==
  ASSUME IInv, NEW m \in Modems, Recover(m)
  PROVE  Goal(m)
<1> DEFINE i == bearers[m]
<1>1. PICK f \in Faults(Kinds \cup {"record"}) :
        /\ m \in boot /\ boot' = boot \ {m} /\ Room /\ Failed(Cost(f))
        /\ IF i = None
           THEN CleanupStale(m, {}, f = "record") /\ UNCHANGED tracked
           ELSE IF records[i] = m
           THEN /\ Register(m, i, f)
                /\ tracked' = IF Registers(f) THEN [tracked EXCEPT ![m] = i] ELSE tracked
                /\ UNCHANGED records
           ELSE /\ CleanupProxy(m, i, f = "record")
                /\ tracked' = IF f = "none" THEN [tracked EXCEPT ![m] = i] ELSE tracked
        /\ UNCHANGED <<bearers, ops, saved, update>>
  BY DEF Recover
<1>2. /\ TypeOK /\ Sound(proxy) /\ Served(proxy) /\ (f = "record") \in BOOLEAN
      /\ ops[m] = Idle /\ proxy.active[m] = None /\ tracked[m] = None
  BY <1>1 DEF IInv, WellBound
<1>3. spent' \in Spends
  BY <1>1, <1>2, CostIs, PartsAre
<1>4. i \in Interfaces \cup {None} /\ (i # None => i \in Held(m))
  BY <1>2, PartsAre DEF Held
<1> HIDE DEF i
<1>5. /\ Serving /\ Own(m, Held(m)) /\ tracked' \in {tracked, [tracked EXCEPT ![m] = i]}
      /\ \/ proxy'.active \in {proxy.active, [proxy.active EXCEPT ![m] = None]}
         \/ /\ i # None /\ proxy'.active = [proxy.active EXCEPT ![m] = i] /\ UNCHANGED records
            /\ records[i] = m /\ tracked' = [tracked EXCEPT ![m] = i]
  <2>1. CASE i = None
    <3>1. CleanupStale(m, {}, f = "record") /\ tracked' = tracked
      BY <1>1, <2>1
    <3>2. /\ Serving /\ Own(m, {})
          /\ proxy'.active \in {proxy.active, [proxy.active EXCEPT ![m] = None]}
      BY <1>2, <3>1, CleanupStaleIs
    <3>3. Own(m, Held(m))
      BY <3>2 DEF Own
    <3> QED
      BY <3>1, <3>2, <3>3
  <2>2. CASE i # None /\ records[i] = m
    <3>1. /\ Sound(proxy)' /\ slots' \in [Slots -> Slot] /\ Served(proxy)'
          /\ proxy'.active = IF Registers(f) THEN [proxy.active EXCEPT ![m] = i] ELSE proxy.active
      BY <1>1, <1>2, <1>4, <2>2, RegisterKeeps
    <3>2. /\ tracked' = IF Registers(f) THEN [tracked EXCEPT ![m] = i] ELSE tracked
          /\ UNCHANGED records
      BY <1>1, <2>2
    <3>3. Own(m, Held(m))
      BY <1>2, <3>2, PartsAre DEF Own
    <3> QED
      BY <2>2, <3>1, <3>2, <3>3 DEF Serving
  <2>3. CASE i # None /\ records[i] # m
    BY <1>1, <1>2, <1>4, <2>3, CleanupProxyIs DEF Own
  <2> QED
    BY <2>1, <2>2, <2>3
<1>6. TypeOK'
  BY <1>1, <1>2, <1>3, <1>4, <1>5, PartsAre, TypedIs DEF Own
<1>7. bearers'[m] = i /\ tracked'[m] \in {None, i} /\ ops'[m] = Idle
  BY <1>1, <1>2, <1>5, PartsAre DEF i
<1>8. Local(m)
  <2>1. Held(m)' \subseteq Held(m)
    BY <1>2, <1>4, <1>7 DEF Held, Idle
  <2> QED
    BY <1>1, <1>2, <1>5, <2>1, PartsAre DEF Local, Own
<1>9. proxy'.active[m] = None \/ (i # None /\ proxy'.active[m] = i /\ records'[i] = m)
  BY <1>2, <1>5, PartsAre
<1>10. WellBound(m)'
  BY <1>1, <1>7, <1>9 DEF WellBound, Known, Idle
<1> QED
  BY <1>5, <1>6, <1>8, <1>10 DEF Goal

LEMMA ConnectorIs ==
  ASSUME IInv, NEW m \in Modems, ConnectorStep(m)
  PROVE  IInv'
<1>1. Goal(m)
  BY DisconnectIs, UnreadableIs, DownIs, GoneIs, FoundIs, ConnectIs, BindIs, NoBearerIs,
     SaveIs, AbandonIs, FinishIs, RecoverIs, BearerLostIs DEF ConnectorStep, Current
<1>2. Exclusive' /\ Booting' /\ \A o \in Modems : WellBound(o)'
  BY <1>1, LocalKeeps DEF Goal
<1> QED
  BY <1>1, <1>2 DEF Goal, Serving, IInv

-----------------------------------------------------------------------------
(* The settings, the process and the listeners. *)

LEMMA SaveSettingsIs ==
  ASSUME IInv, NEW c \in Configs, SaveSettings(c)
  PROVE  IInv'
<1>1. /\ spent.updates < MaxUpdates /\ saved' = c /\ update' = c
      /\ spent' = [spent EXCEPT !.updates = spent.updates + 1]
      /\ UNCHANGED <<proxy, slots, records, bearers, tracked, ops, boot>>
  BY DEF SaveSettings
<1>2. TypeOK /\ Sound(proxy) /\ Served(proxy) /\ spent \in Spends
  BY PartsAre DEF IInv
<1>3. spent.updates + 1 \in 0..MaxUpdates
  BY <1>1, <1>2, BoundsAre DEF Spends
<1>4. spent' \in Spends
  BY <1>1, <1>2, <1>3 DEF Spends
<1>5. TypeOK'
  BY <1>1, <1>2, <1>4 DEF TypeOK, Spends
<1>6. Serving /\ proxy'.active = proxy.active
  BY <1>1, <1>2, ProxyStays
<1> QED
  BY <1>1, <1>5, <1>6, Unmoved DEF Serving, IInv

LEMMA ApplySettingsIs ==
  ASSUME IInv, ApplySettings
  PROVE  IInv'
<1>1. PICK refused \in Faults(Kinds), again \in Faults(Kinds) :
        /\ update # None /\ Room /\ spent.faults + Cost(refused) + Cost(again) <= MaxFaults
        /\ UpdateConfig(refused, again) /\ update' = None
        /\ Failed(Cost(refused) + Cost(again))
        /\ UNCHANGED <<records, bearers, tracked, ops, saved, boot>>
  BY DEF ApplySettings
<1>2. TypeOK /\ Sound(proxy) /\ Served(proxy) /\ spent \in Spends /\ update \in Configs
  BY <1>1, PartsAre DEF IInv, TypeOK
<1>3. /\ Sound(proxy)' /\ proxy'.active = proxy.active
      /\ UNCHANGED <<proxy, slots>> \/ Taking(Modems, Modems)
  BY <1>1, <1>2, UpdateConfigIs
<1>4. Serving
  <2>1. CASE UNCHANGED <<proxy, slots>>
    BY <1>2, <2>1, ProxyStays
  <2>2. CASE Taking(Modems, Modems)
    BY <1>2, <1>3, <2>2, Reconfigured DEF Serving, TypeOK
  <2> QED
    BY <1>3, <2>1, <2>2
<1>5. spent' \in Spends
  <2>1. /\ Cost(refused) \in Nat /\ Cost(again) \in Nat /\ spent.faults \in Nat
    BY <1>2, CostIs
  <2> DEFINE n == Cost(refused) + Cost(again)
  <2>2. n \in Nat /\ spent.faults + n <= MaxFaults
    BY <1>1, <2>1
  <2> QED
    BY <1>1, <1>2, <2>2, FailedIs
<1>6. TypeOK'
  BY <1>1, <1>2, <1>4, <1>5 DEF TypeOK, Spends, Serving, Sound
<1> QED
  BY <1>1, <1>3, <1>4, <1>6, Unmoved DEF Serving, IInv

LEMMA ServeKeeps ==
  ASSUME IInv, NEW kind \in Kinds, NEW n \in ServerId, Serve(kind, n)
  PROVE  IInv'
<1>1. TypeOK /\ Sound(proxy) /\ Served(proxy) /\ spent \in Spends
  BY PartsAre DEF IInv
<1>2. /\ Sound(proxy)' /\ proxy'.config = proxy.config /\ proxy'.active = proxy.active
      /\ UNCHANGED slots \/ Taking(Modems, {})
      /\ UNCHANGED connector
  BY <1>1, ServeIs
<1>3. Serving
  <2>1. CASE UNCHANGED slots
    BY <1>1, <1>2, <2>1 DEF Serving, TypeOK, Served, Fits
  <2>2. CASE Taking(Modems, {})
    BY <1>1, <1>2, <2>2, Rebound DEF Serving, TypeOK
  <2> QED
    BY <1>2, <2>1, <2>2
<1>4. spent' \in Spends
  <2>1. UNCHANGED spent \/ (MayFail /\ Failed(1)) \/ \E f \in Faults(Kinds) : Failed(Cost(f))
    BY DEF Serve, ServeBegins, ServeFails, ServeExits
  <2> QED
    BY <1>1, <2>1, OneFails, CostIs
<1>5. TypeOK'
  BY <1>1, <1>2, <1>3, <1>4 DEF TypeOK, Spends, Serving, Sound, connector
<1> QED
  BY <1>2, <1>3, <1>5, Unmoved DEF Serving, IInv, connector

LEMMA RestartIs ==
  ASSUME IInv, Restart
  PROVE  IInv'
<1>1. /\ spent.restarts < MaxRestarts
      /\ spent' = [spent EXCEPT !.restarts = spent.restarts + 1]
      /\ proxy' = NewProxy(saved) /\ slots' = [s \in Slots |-> FreeSlot]
      /\ tracked' = [m \in Modems |-> None] /\ ops' = [m \in Modems |-> Idle]
      /\ update' = None /\ boot' = Modems /\ UNCHANGED <<records, bearers, saved>>
  BY DEF Restart
<1>2. TypeOK /\ spent \in Spends /\ Idle \in Operation /\ saved \in Configs
  BY PartsAre DEF IInv, TypeOK
<1>3. spent.restarts + 1 \in 0..MaxRestarts
  BY <1>1, <1>2, BoundsAre DEF Spends
<1>4. spent' \in Spends
  BY <1>1, <1>2, <1>3 DEF Spends
<1>5. Sound(proxy)' /\ proxy'.active = [m \in Modems |-> None]
  BY <1>1, <1>2, NewProxyIs
<1>6. slots' \in [Slots -> Slot] /\ Served(proxy)'
  BY <1>1, FreeSlotIs DEF Served
<1>7. TypeOK'
  BY <1>1, <1>2, <1>4, <1>5, <1>6 DEF TypeOK, Sound, Spends
<1>8. Exclusive' /\ Booting'
  <2>1. \A m \in Modems : Held(m)' \subseteq Held(m)
    BY <1>1 DEF Held, Idle
  <2>2. Exclusive
    BY DEF IInv
  <2> QED
    BY <1>1, <2>1, <2>2 DEF Exclusive, Booting
<1>9. ASSUME NEW m \in Modems PROVE WellBound(m)'
  BY <1>1, <1>5 DEF WellBound, Idle
<1> QED
  BY <1>5, <1>6, <1>7, <1>8, <1>9 DEF IInv

-----------------------------------------------------------------------------
LEMMA InitEstablishes == Init => IInv
<1> SUFFICES ASSUME Init PROVE IInv
  OBVIOUS
<1>1. /\ saved = First /\ proxy = NewProxy(saved) /\ slots = [s \in Slots |-> FreeSlot]
      /\ records = [i \in Interfaces |-> None] /\ bearers = [m \in Modems |-> None]
      /\ tracked = [m \in Modems |-> None] /\ ops = [m \in Modems |-> Idle]
      /\ update = None /\ boot = {}
      /\ spent = [requests |-> 0, updates |-> 0, restarts |-> 0, faults |-> 0]
  BY DEF Init
<1>2. saved \in Configs /\ Idle \in Operation
  BY <1>1, BoundsAre DEF Idle, Operation
<1>3. Sound(proxy) /\ proxy.active = [m \in Modems |-> None]
  BY <1>1, <1>2, NewProxyIs
<1>4. slots \in [Slots -> Slot] /\ Served(proxy)
  BY <1>1, FreeSlotIs DEF Served
<1>5. spent \in [requests : 0..MaxRequests, updates : 0..MaxUpdates,
                 restarts : 0..MaxRestarts, faults : 0..MaxFaults]
  BY <1>1, BoundsAre
<1>6. TypeOK
  BY <1>1, <1>2, <1>3, <1>4, <1>5 DEF TypeOK, Sound
<1>7. Exclusive /\ Booting
  <2>1. \A m \in Modems : Held(m) = {}
    BY <1>1 DEF Held, Idle
  <2> QED
    BY <1>1, <2>1 DEF Exclusive, Booting
<1>8. ASSUME NEW m \in Modems PROVE WellBound(m)
  BY <1>1, <1>3 DEF WellBound, Idle
<1> QED
  BY <1>3, <1>4, <1>6, <1>7, <1>8 DEF IInv

LEMMA StepKeeps == IInv /\ [Next]_vars => IInv'
<1> SUFFICES ASSUME IInv, [Next]_vars PROVE IInv'
  OBVIOUS
<1>1. ASSUME NEW m \in Modems, ConnectorStep(m) PROVE IInv'
  BY <1>1, ConnectorIs
<1>2. ASSUME NEW c \in Configs, SaveSettings(c) PROVE IInv'
  BY <1>2, SaveSettingsIs
<1>3. CASE ApplySettings \/ Restart
  BY <1>3, ApplySettingsIs, RestartIs
<1>4. ASSUME NEW kind \in Kinds, NEW n \in ServerId, Serve(kind, n) PROVE IInv'
  BY <1>4, ServeKeeps
<1>5. ASSUME NEW s \in Slots, Client(s) PROVE IInv'
  <2>1. TypeOK /\ Sound(proxy) /\ Served(proxy)
    BY DEF IInv
  <2>2. slots' \in [Slots -> Slot] /\ Served(proxy)' /\ UNCHANGED <<proxy, connector, spent>>
    BY <1>5, <2>1, ClientIs
  <2>3. Sound(proxy)' /\ proxy'.active = proxy.active
    BY <2>1, <2>2 DEF Sound, Owned, Wanted, Started, Active
  <2>4. TypeOK'
    BY <2>1, <2>2 DEF TypeOK, connector
  <2> QED
    BY <2>2, <2>3, <2>4, Unmoved DEF IInv, connector
<1>6. CASE UNCHANGED vars
  <2>1. TypeOK' /\ Sound(proxy)' /\ Served(proxy)' /\ proxy'.active = proxy.active
    <3>1. TypeOK /\ Sound(proxy) /\ Served(proxy) /\ UNCHANGED <<proxy, slots>>
      BY <1>6 DEF IInv, vars
    <3>2. Serving /\ proxy'.active = proxy.active
      BY <3>1, ProxyStays
    <3> QED
      BY <1>6, <3>1, <3>2 DEF TypeOK, Serving, vars
  <2> QED
    BY <1>6, <2>1, Unmoved DEF IInv, vars
<1> QED
  BY <1>1, <1>2, <1>3, <1>4, <1>5, <1>6 DEF Next

-----------------------------------------------------------------------------
(* What the runs check, for every value of the constants. *)

(* The invariant the properties below follow from: no listener is open but  *)
(* the current pair's, every client holds what its place asks for, no two   *)
(* modems hold one interface name, and every operation of the connector has *)
(* made of its modem's binding what its place says.                         *)
THEOREM Invariance == Spec => []IInv
<1>1. Init => IInv
  BY InitEstablishes
<1>2. IInv /\ [Next]_vars => IInv'
  BY StepKeeps
<1> QED
  BY <1>1, <1>2, PTL DEF Spec

(* The variables have their types; the counters keep within their bounds.   *)
THEOREM TypeCorrect == Spec => []TypeOK
<1>1. IInv => TypeOK
  BY DEF IInv
<1> QED
  BY <1>1, Invariance, PTL

(* Whoever is tracked has a registered user, and unless the binding or the  *)
(* settings changed since the client's authentication the connection goes   *)
(* through the interface the user has now, under the password of now        *)
(* (trackSession, takeUserSessionsLocked, takeAllSessionsLocked).           *)
THEOREM TrackedAreBound == Spec => []Bound
<1>1. IInv => Bound
  BY DEF IInv, Served, Fits, Bound, Is, HasUser
<1> QED
  BY <1>1, Invariance, PTL

(* A listener that is open belongs to the current pair, which has a         *)
(* password and a user: startLocked leaves none alone, and none survives    *)
(* the last user, the password or a failed start, but for the listener of a *)
(* server that was closed before it began, until it begins.                 *)
THEOREM PortsAreWanted == Spec => []Ports
<1>1. IInv => Ports
  <2> SUFFICES ASSUME IInv, NEW kind \in Kinds, NEW n \in ServerId,
                      proxy.sockets[kind][n].is \in {"waiting", "serving"}
               PROVE  /\ proxy.current[kind] = n /\ \A k \in Kinds : proxy.current[k] # 0
                      /\ proxy.config.password # "" /\ Active(proxy) # {}
    BY DEF Ports
  <2>1. proxy.current[kind] = n /\ n # 0
    BY ServersAre DEF IInv, Sound, Owned, Open
  <2> QED
    BY <2>1 DEF IInv, Sound, Wanted, Started
<1> QED
  BY <1>1, Invariance, PTL

(* Between operations a registered modem is registered for the interface of *)
(* the connection the connector tracks or of the bearer that is up, with    *)
(* the record a restart recovers it from, whichever call of connect,        *)
(* disconnect, current or recover failed.                                   *)
THEOREM UsersAreRemembered == Spec => []Remembered
<1>1. IInv => Remembered
  BY DEF IInv, WellBound, Known, Remembered, At
<1> QED
  BY <1>1, Invariance, PTL
=============================================================================
