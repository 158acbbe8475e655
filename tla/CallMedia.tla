----------------------------- MODULE CallMedia -----------------------------
(***************************************************************************)
(* The WebRTC bridges between browsers and calls (pro/call/webrtc.go) and  *)
(* the signalling sockets that open them (serveWebRTCSession): each bridge *)
(* has a peer connection, a downlink and an uplink worker, a grace timer,  *)
(* and several goroutines that may all close it.                           *)
(*                                                                         *)
(* The peer connection belongs to pion: it changes state by itself, calls  *)
(* back in a goroutine per change, so that callbacks overtake each other,  *)
(* and calls back once more when it is closed. A step is one critical      *)
(* section, or what a goroutine does before it waits.                      *)
(*                                                                         *)
(* Abstractions: a socket opens one bridge, so both have one name; ICE     *)
(* candidates, SDP and packets are not kept; an offer that is refused      *)
(* before a bridge is made only ends its socket.                           *)
(***************************************************************************)
EXTENDS Naturals, FiniteSets

CONSTANTS
  Bridges,      \* sockets, and the bridge each may open
  Coded,        \* the bridges whose call has an AMR codec
  MaxPeerMoves  \* bound: changes of state of a peer connection before it is closed

ASSUME MediaAssumption == Coded \subseteq Bridges /\ MaxPeerMoves \in Nat

VARIABLES
  socket,    \* where serveWebRTCSession is
  registered,\* Media.bridges
  hooked,    \* the bridges whose onClose is set
  media,     \* Media: where Close is, what it has left, closing
  factory,   \* the AMR codec factory: generation in use (0: none), those closed
  using,     \* the factory a bridge was given
  peer,      \* the peer connection: state, changes so far, callbacks not run yet
  timer,     \* disconnectTimer: is one set, and what a timer that fired is about to do
  connected, \* connectedOnce
  stop,      \* the once of stop: not entered, timer cancelled, done
  workers,   \* the downlink and the uplink of each bridge
  closers,   \* goroutines in close, of each bridge, and where each is
  done       \* doneOnce

sig  == <<socket, registered, hooked, media, factory, using>>
conn == <<peer, timer, connected>>
ends == <<stop, workers, closers, done>>
mediaVars == <<sig, conn, ends>>

Ways    == {"down", "up"}
Who     == {"socket", "peer", "timer", "media"}
Peers   == {"none", "new", "connected", "disconnected", "failed", "closed"}
Sockets == {"reading", "opening", "made", "refused", "registered", "answering", "serving",
            "leaving", "gone"}
NoCloser == [w \in Who |-> "no"]
Working(b) == {w \in Ways : workers[b][w] = "runs"}

\* A goroutine enters close, unless one of its kind is in it.
Enters(b, w) == closers' = [closers EXCEPT ![b][w] = IF @ = "no" THEN "stop" ELSE @]

-----------------------------------------------------------------------------
(* The socket: one offer, then candidates until it is left. *)

Offer(b) ==
  /\ socket[b] = "reading"
  /\ socket' = [socket EXCEPT ![b] = "opening"]
  /\ UNCHANGED <<registered, hooked, media, factory, using, conn, ends>>

\* OpenMedia, amrCodecFactory and newWebRTCBridge, or the one that fails.
Open(b) ==
  /\ socket[b] = "opening"
  /\ \/ /\ socket' = [socket EXCEPT ![b] = "made"]
        /\ peer' = [peer EXCEPT ![b].state = "new"]
        /\ IF b \in Coded
           THEN LET g == IF factory.now = 0 THEN factory.last + 1 ELSE factory.now
                IN  /\ factory' = [factory EXCEPT !.now = g, !.last = IF g > @ THEN g ELSE @]
                    /\ using' = [using EXCEPT ![b] = g]
           ELSE UNCHANGED <<factory, using>>
     \/ socket' = [socket EXCEPT ![b] = "gone"] /\ UNCHANGED <<factory, using, peer>>
  /\ UNCHANGED <<registered, hooked, media, timer, connected, ends>>

\* Mutant of MayRegister: a bridge is registered while Media closes.
RegisterAlways == TRUE

MayRegister == ~media.closing

\* registerBridge; a bridge that is refused is closed at once.
Register(b) ==
  /\ socket[b] = "made"
  /\ IF MayRegister
     THEN /\ registered' = registered \cup {b}
          /\ socket' = [socket EXCEPT ![b] = "registered"]
          /\ UNCHANGED closers
     ELSE /\ socket' = [socket EXCEPT ![b] = "refused"]
          /\ Enters(b, "socket")
          /\ UNCHANGED registered
  /\ UNCHANGED <<hooked, media, factory, using, conn, stop, workers, done>>

Hook(b) ==
  /\ socket[b] = "registered"
  /\ hooked' = hooked \cup {b}
  /\ socket' = [socket EXCEPT ![b] = "answering"]
  /\ UNCHANGED <<registered, media, factory, using, conn, ends>>

Answer(b) ==
  /\ socket[b] = "answering"
  /\ socket' = [socket EXCEPT ![b] = IF stop[b] = "done" THEN "leaving" ELSE "serving"]
  /\ UNCHANGED <<registered, hooked, media, factory, using, conn, ends>>

\* The browser goes away, sends nonsense, or cannot be written to.
Leave(b) ==
  /\ socket[b] \in {"reading", "answering", "serving"}
  /\ socket' = [socket EXCEPT ![b] = IF @ = "reading" THEN "gone" ELSE "leaving"]
  /\ UNCHANGED <<registered, hooked, media, factory, using, conn, ends>>

\* CloseIfNotConnected.
Left(b) ==
  /\ \/ /\ socket[b] = "leaving"
        /\ IF connected[b] THEN UNCHANGED closers ELSE Enters(b, "socket")
     \/ socket[b] = "refused" /\ closers[b]["socket"] = "over" /\ UNCHANGED closers
  /\ socket' = [socket EXCEPT ![b] = "gone"]
  /\ UNCHANGED <<registered, hooked, media, factory, using, conn, stop, workers, done>>

-----------------------------------------------------------------------------
(* The peer connection, and its callbacks in any order. *)

PeerMoves(b) ==
  /\ peer[b].state \in {"new", "connected", "disconnected"}
  /\ socket[b] \in {"serving", "leaving", "gone"}
  /\ peer[b].moves < MaxPeerMoves
  /\ \E to \in {"connected", "disconnected", "failed"} \ {peer[b].state} :
       /\ peer[b].state = "new" => to # "disconnected"
       /\ peer' = [peer EXCEPT ![b] = [state |-> to, moves |-> @.moves + 1, pending |-> @.pending \cup {to}]]
  /\ UNCHANGED <<sig, timer, connected, ends>>

Ran(b, st) == peer' = [peer EXCEPT ![b].pending = @ \ {st}]

CancelTimer(b) == timer' = [timer EXCEPT ![b].set = FALSE]

\* addWorker.
StartWorker(b, w) ==
  workers' = [workers EXCEPT ![b][w] = IF @ = "none" /\ stop[b] # "done" THEN "runs" ELSE @]

\* markConnected, cancelDisconnectTimer, startDownlink (once).
Ready(b) ==
  /\ "connected" \in peer[b].pending
  /\ Ran(b, "connected")
  /\ connected' = [connected EXCEPT ![b] = TRUE]
  /\ CancelTimer(b)
  /\ StartWorker(b, "down")
  /\ UNCHANGED <<sig, stop, closers, done>>

\* closeAfterDisconnectGrace: one timer at a time.
GraceClose(b) ==
  /\ "disconnected" \in peer[b].pending
  /\ Ran(b, "disconnected")
  /\ timer' = [timer EXCEPT ![b].set = TRUE]
  /\ UNCHANGED <<sig, connected, ends>>

\* Mutant of ClosesNow: a peer connection that failed is waited for.
ClosesWhenClosed == {"closed"}

ClosesNow == {"failed", "closed"}

CloseNow(b) ==
  /\ \E st \in peer[b].pending \cap {"failed", "closed"} :
       /\ Ran(b, st)
       /\ IF st \in ClosesNow THEN Enters(b, "peer") ELSE UNCHANGED closers
  /\ UNCHANGED <<sig, timer, connected, stop, workers, done>>

\* OnTrack: the browser's audio has come.
Track(b) ==
  /\ peer[b].state = "connected" /\ workers[b]["up"] = "none"
  /\ StartWorker(b, "up")
  /\ UNCHANGED <<sig, conn, stop, closers, done>>

\* The timer fires: its function reads the state of the connection, and then
\* closes the bridge or forgets whatever timer is set by then.
Fires(b) ==
  /\ timer[b].set /\ timer[b].fired = "no"
  /\ timer' = [timer EXCEPT ![b].fired = IF peer[b].state = "disconnected" THEN "close" ELSE "forget"]
  /\ UNCHANGED <<sig, peer, connected, ends>>

Fired(b) ==
  /\ timer[b].fired # "no"
  /\ timer' = [timer EXCEPT ![b].fired = "no", ![b].set = IF timer[b].fired = "forget" THEN FALSE ELSE @]
  /\ IF timer[b].fired = "close" THEN Enters(b, "timer") ELSE UNCHANGED closers
  /\ UNCHANGED <<sig, peer, connected, stop, workers, done>>

-----------------------------------------------------------------------------
(* Workers and closing. *)

\* stop, by a goroutine in close or by a worker: cancelDisconnectTimer first.
StopBegins(b) ==
  /\ stop[b] = "no"
  /\ stop' = [stop EXCEPT ![b] = "begun"]
  /\ CancelTimer(b)

\* closed, the context, the peer connection, the candidates.
StopEnds(b) ==
  /\ stop[b] = "begun"
  /\ stop' = [stop EXCEPT ![b] = "done"]
  /\ peer' = [peer EXCEPT ![b].state = "closed", ![b].pending = @ \cup {"closed"}]
  /\ UNCHANGED <<sig, timer, connected, workers, closers, done>>

\* The call is over, a packet cannot be coded or written: the worker stops the
\* bridge and ends; or it ends because the bridge was stopped.
WorkerFails(b) ==
  /\ Working(b) # {}
  /\ StopBegins(b)
  /\ UNCHANGED <<sig, peer, connected, workers, closers, done>>

WorkerEnds(b) ==
  /\ stop[b] = "done"
  /\ \E w \in Working(b) : workers' = [workers EXCEPT ![b][w] = "over"]
  /\ UNCHANGED <<sig, conn, stop, closers, done>>

CloserStops(b) ==
  /\ \E w \in Who : closers[b][w] = "stop"
  /\ StopBegins(b)
  /\ UNCHANGED <<sig, peer, connected, workers, closers, done>>

\* Mutant of Waits: the bridge is forgotten while its workers run.
WaitsNot(b) == TRUE

Waits(b) == Working(b) = {}

\* stop has returned and so has wg.Wait: doneOnce, onClose.
CloserEnds(b, w) ==
  /\ closers[b][w] = "stop" /\ stop[b] = "done"
  /\ Waits(b)
  /\ closers' = [closers EXCEPT ![b][w] = "over"]
  /\ done' = done \cup {b}
  /\ registered' = IF b \in done \/ b \notin hooked THEN registered ELSE registered \ {b}
  /\ UNCHANGED <<socket, hooked, media, factory, using, conn, stop, workers>>

-----------------------------------------------------------------------------
(* Media.Run: at the end of the program every bridge is closed, in turn. *)

MediaStops ==
  /\ media.pc = "runs"
  /\ media' = [pc |-> "closing", left |-> registered, closing |-> TRUE]
  /\ UNCHANGED <<socket, registered, hooked, factory, using, conn, ends>>

MediaCloses(b) ==
  /\ media.pc = "closing" /\ b \in media.left
  /\ \/ closers[b]["media"] = "no" /\ Enters(b, "media") /\ UNCHANGED media
     \/ /\ closers[b]["media"] = "over"
        /\ media' = [media EXCEPT !.left = @ \ {b}]
        /\ UNCHANGED closers
  /\ UNCHANGED <<socket, registered, hooked, factory, using, conn, stop, workers, done>>

\* closeAMRCodecFactory.
ClosedFactory(f) == [f EXCEPT !.now = 0, !.closed = IF f.now = 0 THEN @ ELSE @ \cup {f.now}]

MediaClosed ==
  /\ media.pc = "closing" /\ media.left = {}
  /\ media' = [media EXCEPT !.pc = "closed"]
  /\ factory' = ClosedFactory(factory)
  /\ UNCHANGED <<socket, registered, hooked, using, conn, ends>>

-----------------------------------------------------------------------------
MediaInit ==
  /\ socket = [b \in Bridges |-> "reading"]
  /\ registered = {} /\ hooked = {} /\ done = {}
  /\ media = [pc |-> "runs", left |-> {}, closing |-> FALSE]
  /\ factory = [now |-> 0, last |-> 0, closed |-> {}]
  /\ using = [b \in Bridges |-> 0]
  /\ peer = [b \in Bridges |-> [state |-> "none", moves |-> 0, pending |-> {}]]
  /\ timer = [b \in Bridges |-> [set |-> FALSE, fired |-> "no"]]
  /\ connected = [b \in Bridges |-> FALSE]
  /\ stop = [b \in Bridges |-> "no"]
  /\ workers = [b \in Bridges |-> [w \in Ways |-> "none"]]
  /\ closers = [b \in Bridges |-> NoCloser]

\* What runs by itself once it has begun.
Opening(b) == Open(b) \/ Register(b) \/ Hook(b) \/ Answer(b) \/ Left(b)
Callback(b) == Ready(b) \/ GraceClose(b) \/ CloseNow(b)
Closing(b) == StopEnds(b) \/ CloserStops(b) \/ (\E w \in Who : CloserEnds(b, w))
MediaStep == (\E b \in Bridges : MediaCloses(b)) \/ MediaClosed

MediaNext ==
  \/ \E b \in Bridges :
       \/ Offer(b) \/ Opening(b) \/ Leave(b) \/ PeerMoves(b) \/ Callback(b) \/ Track(b)
       \/ Fires(b) \/ Fired(b) \/ WorkerFails(b) \/ WorkerEnds(b) \/ Closing(b)
  \/ MediaStops \/ MediaStep

MediaSpec == MediaInit /\ [][MediaNext]_mediaVars

\* Every goroutine runs, a worker whose bridge is stopped returns from what it
\* waits for; browsers, calls and the network need do nothing.
MediaFairness ==
  /\ \A b \in Bridges :
       /\ WF_mediaVars(Opening(b)) /\ WF_mediaVars(Callback(b)) /\ WF_mediaVars(Fires(b) \/ Fired(b))
       /\ WF_mediaVars(WorkerEnds(b)) /\ WF_mediaVars(Closing(b))
  /\ WF_mediaVars(MediaStep)

MediaFairSpec == MediaSpec /\ MediaFairness

-----------------------------------------------------------------------------
\* Every variable stays within its type, and the factory in use is not a closed one.
MediaTypeOK ==
  /\ socket \in [Bridges -> Sockets]
  /\ registered \subseteq Bridges /\ hooked \subseteq Bridges /\ done \subseteq Bridges
  /\ media \in [pc : {"runs", "closing", "closed"}, left : SUBSET Bridges, closing : BOOLEAN]
  /\ factory \in [now : Nat, last : Nat, closed : SUBSET Nat]
  /\ factory.now \notin factory.closed
  /\ using \in [Bridges -> Nat]
  /\ peer \in [Bridges -> [state : Peers, moves : Nat, pending : SUBSET Peers]]
  /\ timer \in [Bridges -> [set : BOOLEAN, fired : {"no", "close", "forget"}]]
  /\ connected \in [Bridges -> BOOLEAN]
  /\ stop \in [Bridges -> {"no", "begun", "done"}]
  /\ workers \in [Bridges -> [Ways -> {"none", "runs", "over"}]]
  /\ closers \in [Bridges -> [Who -> {"no", "stop", "over"}]]

\* No codec is used after its factory was closed: the factory goes last, the
\* workers of every bridge first, also of those that open, connect or close by
\* themselves while Media closes (Media.Close, webRTCBridge.close, addWorker).
CodecOutlives ==
  \A b \in Coded : Working(b) # {} => using[b] \notin factory.closed

\* No bridge is left that nobody could stop: when Media has closed, what was not
\* in its list was refused (registerBridge), and a bridge it has forgotten before
\* does nothing any more.
NoneLeft ==
  /\ media.pc = "closed" =>
       \A b \in Bridges : peer[b].state # "none" =>
         \/ stop[b] = "done"
         \/ socket[b] = "made" \/ closers[b]["socket"] = "stop"
  /\ \A b \in hooked : b \notin registered => stop[b] = "done" /\ Working(b) = {}

\* Nothing can come of the bridge any more.
Over(b) == peer[b].state \in {"failed", "closed"} \/ (socket[b] = "gone" /\ ~connected[b])

\* A bridge whose connection failed, whose call is over, or whose browser left
\* before it was connected is closed and forgotten, whichever goroutines close
\* it and in whichever order the callbacks run.
Released ==
  \A b \in Bridges :
    (b \in hooked /\ Over(b))
      ~> (~Over(b) \/ (b \in done /\ (b \notin registered \/ media.closing)))
=============================================================================
