------------------------- MODULE WifiSession_proof -------------------------
(***************************************************************************)
(* The sessions of a modem, any number of them: in WifiSession every       *)
(* goroutine can be told to stop, no websheet and no client that still has *)
(* its tunnel is left behind, and a session shown as connected has the     *)
(* client its goroutine watches.                                           *)
(***************************************************************************)
EXTENDS WifiSession, WellFoundedInduction, TLAPS

\* The session in the map has a goroutine, which nobody has cancelled, and an
\* identifier that was taken out does not come back.
WellNamed ==
  /\ sess.id # 0 => /\ loops[sess.id].pc # "none" /\ ~loops[sess.id].cancelled
                    /\ detached[sess.id].stage = "none"
  /\ \A i \in Ids : detached[i].stage # "none" => loops[i].pc # "none"

\* What a goroutine has where it is, and a request.
WellHeld ==
  /\ \A i \in Ids : /\ loops[i].pc \in {"attach", "wait"} => loops[i].sheet # 0
                    /\ loops[i].pc \in {"up", "marked", "watch"} => loops[i].client # 0
  /\ \A r \in Requests : reqs[r].pc = "using" => reqs[r].client # 0

\* The session shows a websheet only while its goroutine waits for that one.
WellShown ==
  sess.sheet # 0 => loops[sess.id].pc = "wait" /\ loops[sess.id].sheet = sess.sheet

IInv == TypeOK /\ WellNamed /\ WellHeld /\ WellShown /\ Stoppable /\ NoOrphans /\ Honest

-----------------------------------------------------------------------------
(* The type invariant, by what most steps leave as it is. *)

TypeWorld ==
  /\ enabled \in [Profiles -> BOOLEAN] /\ modem \in [path : Path, profile : Profiles]
  /\ events \in Seq([added : BOOLEAN, path : Path])
TypeRunner   == runner \in Runner
TypeSess     == sess \in Session /\ (sess.id = 0 => sess = NoSession)
TypeDetached == detached \in [Ids -> Detached]
TypeLoops    == loops \in [Ids -> Loop]
TypeClients  == clients \in [Client -> {"new", "up", "down", "closed"}]
TypeSheets   == sheets \in [Sheet -> SheetState]
TypeReqs     == reqs \in [Requests -> Request]
TypeSpent    == spent \in [requests : Nat, moves : Nat, faults : Nat]

LEMMA TypeIs ==
  TypeOK <=> /\ TypeWorld /\ TypeRunner /\ TypeSess /\ TypeDetached /\ TypeLoops
             /\ TypeClients /\ TypeSheets /\ TypeReqs /\ TypeSpent
BY Zenon DEF TypeOK, TypeWorld, TypeRunner, TypeSess, TypeDetached, TypeLoops, TypeClients,
             TypeSheets, TypeReqs, TypeSpent

\* What is not changed keeps its type.
LEMMA TypeKept ==
  ASSUME TypeOK
  PROVE  /\ UNCHANGED world => TypeWorld'
         /\ UNCHANGED runner => TypeRunner'
         /\ UNCHANGED sess => TypeSess'
         /\ UNCHANGED detached => TypeDetached'
         /\ UNCHANGED loops => TypeLoops'
         /\ UNCHANGED clients => TypeClients'
         /\ UNCHANGED sheets => TypeSheets'
         /\ UNCHANGED reqs => TypeReqs'
         /\ UNCHANGED spent => TypeSpent'
<1>1. /\ TypeWorld /\ TypeRunner /\ TypeSess /\ TypeDetached /\ TypeLoops
      /\ TypeClients /\ TypeSheets /\ TypeReqs /\ TypeSpent
  BY TypeIs
<1> QED
  BY <1>1, Zenon DEF TypeWorld, TypeRunner, TypeSess, TypeDetached, TypeLoops, TypeClients,
                     TypeSheets, TypeReqs, TypeSpent, world

\* The type invariant holds of the next state when it does of each part.
LEMMA TypeNext ==
  ASSUME TypeWorld', TypeRunner', TypeSess', TypeDetached', TypeLoops', TypeClients',
         TypeSheets', TypeReqs', TypeSpent'
  PROVE  TypeOK'
BY TypeIs, PTL

LEMMA IdsAre == Ids \subseteq Nat \ {0} /\ Client \subseteq Nat \ {0} /\ Sheet \subseteq Nat \ {0}
BY WifiAssumption, SMT DEF Ids, Client, Sheet

\* The first of a set of identifiers is one of them.
LEMMA FreshIs ==
  ASSUME NEW S, S \subseteq Nat, S # {}
  PROVE  Fresh(S) \in S
<1> DEFINE Less == {p \in Nat \X Nat : p[1] < p[2]}
<1>1. IsWellFoundedOn(Less, Nat)
  BY NatLessThanWellFounded, Zenon DEF OpToRel
<1>2. PICK c \in S : \A d \in S : <<d, c>> \notin Less
  <2> HIDE DEF Less
  <2> QED
    BY <1>1, WFMin
<1>3. \A d \in S : c <= d
  <2> SUFFICES ASSUME NEW d \in S PROVE c <= d
    OBVIOUS
  <2>1. c \in Nat /\ d \in Nat /\ <<d, c>> \notin Less
    BY <1>2
  <2> QED
    BY <2>1
<1> QED
  BY <1>3, Zenon DEF Fresh

LEMMA NoneTyped ==
  /\ NoSession \in Session /\ NoSession.id = 0 /\ NoSession.sheet = 0 /\ NoSession.client = 0
  /\ NoSession.phase = "disconnected"
  /\ NoLoop \in Loop /\ NoLoop.cancelled = FALSE /\ NoRequest \in Request /\ NotDetached \in Detached
  /\ NoRequest.pc = "free" /\ NotDetached.stage = "none"
<1>1. SomeProfile \in Profiles /\ 0 \in Path
  BY WifiAssumption, SMT DEF SomeProfile, Path
<1>2. NoSession \in Session
  BY <1>1, Zenon DEF NoSession, Session, Phases
<1>3. NoLoop \in Loop
  BY Zenon DEF NoLoop, Loop, LoopPCs
<1>4. NoRequest \in Request
  BY <1>1, Zenon DEF NoRequest, Request, RequestPCs
<1>5. NotDetached \in Detached
  BY Zenon DEF NotDetached, Detached
<1> QED
  BY <1>2, <1>3, <1>4, <1>5 DEF NoSession, NoLoop, NoRequest, NotDetached

\* What the critical sections make of a session that is there.
LEMMA SessionsTyped ==
  ASSUME IInv, sess.id # 0
  PROVE  /\ Connecting \in Session /\ Disconnected \in Session
         /\ Connecting.id = sess.id /\ Connecting.phase = "connecting" /\ Connecting.sheet = sess.sheet
         /\ Disconnected.id = sess.id /\ Disconnected.phase = "disconnected"
         /\ Disconnected.sheet = sess.sheet
         /\ [Connecting EXCEPT !.sheet = 0] \in Session
         /\ [Connecting EXCEPT !.sheet = 0].id = sess.id
         /\ [Connecting EXCEPT !.sheet = 0].phase = "connecting"
         /\ [Connecting EXCEPT !.sheet = 0].sheet = 0
<1>1. sess \in Session
  BY DEF IInv, TypeOK
<1>2. Connecting \in Session /\ Disconnected \in Session
  BY <1>1 DEF Connecting, Disconnected, Session, Phases
<1>3. [Connecting EXCEPT !.sheet = 0] \in Session
  BY <1>2 DEF Session
<1> QED
  BY <1>1, <1>2, <1>3 DEF Connecting, Disconnected, Session

-----------------------------------------------------------------------------
(* What a step of one goroutine leaves true. *)

\* The parts of NoOrphans.
SheetsOwned ==
  \A s \in Sheet : sheets[s].in = "live" =>
    \/ sess.sheet = s
    \/ \E i \in Ids : loops[i].pc = "attach" /\ loops[i].sheet = s
    \/ \E i \in Ids : detached[i].stage = "cancel" /\ detached[i].sheet = s
Has == {"up", "marked", "watch"}
ClientsOwned ==
  \A c \in Client : clients[c] = "up" =>
    \E i \in Ids : loops[i].pc \in Has /\ loops[i].client = c

LEMMA OrphansAre == NoOrphans <=> SheetsOwned /\ ClientsOwned
BY Zenon DEF NoOrphans, SheetsOwned, ClientsOwned, Has

\* Where a goroutine is that has not ended and is not about to.
Going == {"connect", "attach", "wait", "backoff", "up", "marked", "watch", "lost", "pause"}

LEMMA LoopIs ==
  ASSUME IInv, NEW i \in Ids, NEW l \in Loop, Goto(i, l)
  PROVE  TypeLoops' /\ loops'[i] = l /\ \A j \in Ids \ {i} : loops'[j] = loops[j]
<1>1. loops \in [Ids -> Loop]
  BY DEF IInv, TypeOK
<1> QED
  BY <1>1, Zenon DEF Goto, TypeLoops

\* A goroutine that nobody has cancelled is that of the session, or the session
\* is about to be cancelled: this does not depend on where it is.
LEMMA GoesOn ==
  ASSUME IInv, NEW i \in Ids, NEW l \in Loop, Goto(i, l), UNCHANGED detached, sess'.id = sess.id,
         loops[i].pc \in Going \/ l.pc = "done", l.pc # "none", l.cancelled = loops[i].cancelled
  PROVE  WellNamed' /\ Stoppable'
<1>1. loops'[i] = l /\ \A j \in Ids \ {i} : loops'[j] = loops[j]
  BY LoopIs
<1>2. sess.id \in Ids \cup {0}
  BY DEF IInv, TypeOK, Session
<1>3. WellNamed'
  <2>1. ASSUME sess'.id # 0
        PROVE  loops'[sess'.id].pc # "none" /\ ~loops'[sess'.id].cancelled /\ detached'[sess'.id].stage = "none"
    <3>1. sess'.id = sess.id /\ sess.id \in Ids
      BY <1>2, <2>1
    <3>2. loops[sess.id].pc # "none" /\ ~loops[sess.id].cancelled /\ detached[sess.id].stage = "none"
      BY <2>1, <3>1, Zenon DEF IInv, WellNamed
    <3>3. CASE sess.id = i
      BY <1>1, <3>1, <3>2, <3>3, Zenon
    <3>4. CASE sess.id # i
      BY <1>1, <3>1, <3>2, <3>4, Zenon
    <3> QED
      BY <3>3, <3>4
  <2>2. ASSUME NEW j \in Ids, detached'[j].stage # "none" PROVE loops'[j].pc # "none"
    BY <1>1, <2>2 DEF IInv, WellNamed
  <2> QED
    BY <2>1, <2>2, Zenon DEF WellNamed
<1>4. Stoppable'
  <2> SUFFICES ASSUME NEW j \in Ids, Live(j)', ~loops'[j].cancelled, loops'[j].pc # "dismissed"
               PROVE  sess'.id = j \/ detached'[j].stage = "cancel"
    BY Zenon DEF Stoppable
  <2>1. Live(j) /\ ~loops[j].cancelled /\ loops[j].pc # "dismissed"
    <3>1. CASE j = i
      <4>1. Live(i) /\ loops[i].pc # "dismissed"
        BY <1>1, <3>1 DEF Live, Going
      <4> QED
        BY <1>1, <3>1, <4>1, Zenon
    <3>2. CASE j # i
      BY <1>1, <3>2, Zenon DEF Live
    <3> QED
      BY <3>1, <3>2
  <2> QED
    BY <2>1, Zenon DEF IInv, Stoppable
<1> QED
  BY <1>3, <1>4

LEMMA HeldOn ==
  ASSUME IInv, NEW i \in Ids, NEW l \in Loop, Goto(i, l), UNCHANGED reqs,
         l.pc \in {"attach", "wait"} => l.sheet # 0, l.pc \in {"up", "marked", "watch"} => l.client # 0
  PROVE  WellHeld'
<1>1. loops'[i] = l /\ \A j \in Ids \ {i} : loops'[j] = loops[j]
  BY LoopIs
<1> QED
  BY <1>1 DEF IInv, WellHeld

LEMMA ShownOn ==
  ASSUME IInv, NEW i \in Ids, NEW l \in Loop, Goto(i, l), sess'.id = sess.id,
         sess'.sheet \in {sess.sheet, 0}, loops[i].pc # "wait" \/ sess.id # i
  PROVE  WellShown'
<1>1. loops'[i] = l /\ \A j \in Ids \ {i} : loops'[j] = loops[j]
  BY LoopIs
<1>2. sess.id \in Ids \cup {0} /\ (sess.id = 0 => sess.sheet = 0)
  BY NoneTyped DEF IInv, TypeOK, Session
<1> QED
  BY <1>1, <1>2 DEF IInv, WellShown

LEMMA SheetsOn ==
  ASSUME IInv, NEW i \in Ids, NEW l \in Loop, Goto(i, l), UNCHANGED <<sheets, detached>>,
         sess'.sheet = sess.sheet, loops[i].pc # "attach"
  PROVE  SheetsOwned'
<1>1. loops'[i] = l /\ \A j \in Ids \ {i} : loops'[j] = loops[j]
  BY LoopIs
<1>2. SheetsOwned
  BY OrphansAre DEF IInv
<1> QED
  BY <1>1, <1>2 DEF SheetsOwned

LEMMA ClientsOn ==
  ASSUME IInv, NEW i \in Ids, NEW l \in Loop, Goto(i, l), UNCHANGED clients,
         loops[i].pc \in Has => l.pc \in Has /\ l.client = loops[i].client
  PROVE  ClientsOwned'
<1>1. loops'[i] = l /\ \A j \in Ids \ {i} : loops'[j] = loops[j]
  BY LoopIs
<1>2. ClientsOwned
  BY OrphansAre DEF IInv
<1> QED
  BY <1>1, <1>2 DEF ClientsOwned

LEMMA HonestOn ==
  ASSUME IInv, NEW i \in Ids, NEW l \in Loop, Goto(i, l), UNCHANGED sess,
         \/ loops[i].pc \notin {"marked", "watch", "lost"} \/ sess.id # i \/ l.pc = "lost"
         \/ loops[i].pc = "marked" /\ l.pc = "watch" /\ l.client = loops[i].client
  PROVE  Honest'
<1>1. loops'[i] = l /\ \A j \in Ids \ {i} : loops'[j] = loops[j]
  BY LoopIs
<1>2. sess.id \in Ids \cup {0} /\ (sess.id = 0 => sess.phase # "connected")
  BY NoneTyped DEF IInv, TypeOK, Session
<1>3. CASE sess.id = i
  BY <1>1, <1>2, <1>3 DEF IInv, Honest
<1>4. CASE sess.id # i
  BY <1>1, <1>2, <1>4 DEF IInv, Honest
<1> QED
  BY <1>3, <1>4

\* A session that is not shown as connected claims nothing.
LEMMA HonestIs == ASSUME sess'.phase # "connected" PROVE Honest'
BY DEF Honest

\* The goroutine of a session in the map has not been cancelled.
LEMMA MineIs ==
  ASSUME IInv, NEW i \in Ids
  PROVE  /\ i # 0 /\ (Mine(i) <=> sess.id = i)
         /\ loops[i].cancelled => ~Mine(i)
<1>1. i # 0
  BY IdsAre
<1> QED
  BY <1>1, Zenon DEF IInv, WellNamed, Mine

-----------------------------------------------------------------------------
(* The goroutine of a session. *)

LEMMA LoopTyped ==
  ASSUME IInv, NEW i \in Ids
  PROVE  /\ loops[i] \in Loop /\ loops[i].cancelled \in BOOLEAN
         /\ loops[i].client \in Client \cup {0} /\ loops[i].sheet \in Sheet \cup {0}
         /\ loops[i].tries \in Nat
BY DEF IInv, TypeOK, Loop

\* Where a goroutine goes when it ends, or is given up.
LEMMA EndsIs ==
  ASSUME IInv, NEW i \in Ids, NEW pc \in LoopPCs, Ends(i, pc)
  PROVE  \E l \in Loop : Goto(i, l) /\ l.pc = pc /\ l.cancelled = loops[i].cancelled
<1> DEFINE l == [NoLoop EXCEPT !.pc = pc, !.cancelled = loops[i].cancelled]
<1>1. loops[i].cancelled \in BOOLEAN
  BY LoopTyped
<1>2. l \in Loop /\ l.pc = pc /\ l.cancelled = loops[i].cancelled
  BY <1>1, NoneTyped DEF Loop
<1>3. Goto(i, l)
  BY DEF Ends
<1> QED
  BY <1>2, <1>3

\* A step of the goroutine alone.
LEMMA QuietStep ==
  ASSUME IInv, NEW i \in Ids, NEW l \in Loop, Goto(i, l), TypeSpent',
         UNCHANGED <<world, runner, sess, detached, clients, sheets, reqs>>,
         loops[i].pc \in Going \ {"attach"}, loops[i].pc = "wait" => sess.id # i,
         l.pc \notin {"none", "attach", "wait"}, l.cancelled = loops[i].cancelled,
         loops[i].pc \in Has => l.pc \in Has /\ l.client = loops[i].client,
         l.pc \in Has => l.client # 0,
         \/ loops[i].pc \notin {"marked", "watch", "lost"} \/ sess.id # i \/ l.pc = "lost"
         \/ loops[i].pc = "marked" /\ l.pc = "watch" /\ l.client = loops[i].client
  PROVE  IInv'
<1>1. TypeOK'
  BY LoopIs, TypeKept, TypeNext DEF IInv
<1>2. WellNamed' /\ Stoppable'
  BY GoesOn
<1>3. WellHeld'
  BY HeldOn DEF Has
<1>4. WellShown'
  BY ShownOn
<1>5. NoOrphans'
  <2>1. SheetsOwned' /\ ClientsOwned'
    BY SheetsOn, ClientsOn
  <2> QED
    BY <2>1, OrphansAre, PTL
<1>6. Honest'
  BY HonestOn
<1> QED
  BY <1>1, <1>2, <1>3, <1>4, <1>5, <1>6 DEF IInv

LEMMA FaultTyped ==
  ASSUME IInv, NEW n \in {0, 1}, Failed(n)
  PROVE  TypeSpent'
<1>1. spent.faults + n \in Nat /\ spent \in [requests : Nat, moves : Nat, faults : Nat]
  BY DEF IInv, TypeOK
<1> QED
  BY <1>1 DEF Failed, TypeSpent

LEMMA CancelledStep ==
  ASSUME IInv, NEW i \in Ids, Cancelled(i)
  PROVE  IInv'
<1>1. /\ loops[i].cancelled /\ loops[i].pc \in {"connect", "backoff", "pause", "wait", "lost"}
      /\ UNCHANGED <<world, runner, sess, detached, clients, sheets, reqs, spent>> /\ Ends(i, "done")
  BY DEF Cancelled
<1>2. sess.id # i
  BY <1>1, MineIs, Zenon
<1>3. "done" \in LoopPCs
  BY DEF LoopPCs
<1>4. PICK l \in Loop : Goto(i, l) /\ l.pc = "done" /\ l.cancelled = loops[i].cancelled
  BY <1>1, <1>3, EndsIs
<1>5. TypeSpent'
  BY <1>1, TypeKept DEF IInv
<1>6. /\ loops[i].pc \in Going \ {"attach"} /\ loops[i].pc \notin Has
      /\ l.pc \notin {"none", "attach", "wait"} /\ l.pc \notin Has
  BY <1>1, <1>4 DEF Going, Has
<1>7. UNCHANGED <<world, runner, sess, detached, clients, sheets, reqs>>
  BY <1>1
<1> QED
  BY <1>2, <1>4, <1>5, <1>6, <1>7, QuietStep, Zenon

LEMMA NoSheetStep ==
  ASSUME IInv, NEW i \in Ids, NoSheet(i)
  PROVE  IInv'
<1>1. /\ loops[i].pc = "connect" /\ Failed(1) /\ Ends(i, "gaveUp")
      /\ UNCHANGED <<world, runner, sess, detached, clients, sheets, reqs>>
  BY DEF NoSheet
<1>2. "gaveUp" \in LoopPCs
  BY DEF LoopPCs
<1>3. PICK l \in Loop : Goto(i, l) /\ l.pc = "gaveUp" /\ l.cancelled = loops[i].cancelled
  BY <1>1, <1>2, EndsIs
<1>4. TypeSpent'
  BY <1>1, FaultTyped
<1>5. /\ loops[i].pc \in Going \ {"attach"} /\ loops[i].pc \notin Has \cup {"wait", "marked", "watch", "lost"}
      /\ l.pc \notin {"none", "attach", "wait"} /\ l.pc \notin Has
  BY <1>1, <1>3 DEF Going, Has
<1>6. loops[i].pc # "wait" /\ loops[i].pc \notin {"marked", "watch", "lost"} /\ loops[i].pc \notin Has
  BY <1>5
<1> QED
  BY <1>1, <1>3, <1>4, <1>5, <1>6, QuietStep, Zenon

\* The three steps of a goroutine alone that go on.
LEMMA FailsRetriesWatches ==
  ASSUME IInv, NEW i \in Ids, ConnectFails(i) \/ Retry(i) \/ Watch(i)
  PROVE  IInv'
<1>1. CASE ConnectFails(i)
  <2> DEFINE l == [loops[i] EXCEPT !.pc = AfterFailure(loops[i]), !.tries = @ + 1]
  <2>1. /\ loops[i].pc = "connect" /\ Failed(1) /\ Goto(i, l)
        /\ UNCHANGED <<world, runner, sess, detached, clients, sheets, reqs>>
    BY <1>1 DEF ConnectFails
  <2>2. AfterFailure(loops[i]) \in {"backoff", "gaveUp"} /\ loops[i].tries + 1 \in Nat
    BY LoopTyped DEF AfterFailure
  <2>3. l \in Loop /\ l.pc \in {"backoff", "gaveUp"} /\ l.cancelled = loops[i].cancelled
    BY <2>2, LoopTyped DEF Loop, LoopPCs
  <2> HIDE DEF l
  <2>4. TypeSpent'
    BY <2>1, FaultTyped
  <2>5. /\ loops[i].pc \in Going \ {"attach"} /\ loops[i].pc # "wait" /\ loops[i].pc \notin Has
        /\ loops[i].pc \notin {"marked", "watch", "lost"}
        /\ l.pc \notin {"none", "attach", "wait"} /\ l.pc \notin Has
    BY <2>1, <2>3 DEF Going, Has
  <2> QED
    BY <2>1, <2>3, <2>4, <2>5, QuietStep, Zenon
<1>2. CASE Retry(i)
  <2> DEFINE l == [loops[i] EXCEPT !.pc = "connect"]
  <2>1. /\ loops[i].pc = "backoff" /\ Goto(i, l)
        /\ UNCHANGED <<world, runner, sess, detached, clients, sheets, reqs, spent>>
    BY <1>2 DEF Retry
  <2>2. l \in Loop /\ l.pc = "connect" /\ l.cancelled = loops[i].cancelled
    BY LoopTyped DEF Loop, LoopPCs
  <2> HIDE DEF l
  <2>3. TypeSpent'
    BY <2>1, TypeKept DEF IInv
  <2>4. /\ loops[i].pc \in Going \ {"attach"} /\ loops[i].pc # "wait" /\ loops[i].pc \notin Has
        /\ loops[i].pc \notin {"marked", "watch", "lost"}
        /\ l.pc \notin {"none", "attach", "wait"} /\ l.pc \notin Has
    BY <2>1, <2>2 DEF Going, Has
  <2>5. UNCHANGED <<world, runner, sess, detached, clients, sheets, reqs>>
    BY <2>1
  <2> QED
    BY <2>1, <2>2, <2>3, <2>4, <2>5, QuietStep, Zenon
<1>3. CASE Watch(i)
  <2> DEFINE l == [loops[i] EXCEPT !.pc = "watch", !.heard = Mine(i) /\ sess.client = loops[i].client]
  <2>1. /\ loops[i].pc = "marked" /\ Goto(i, l)
        /\ UNCHANGED <<world, runner, sess, detached, clients, sheets, reqs, spent>>
    BY <1>3 DEF Watch
  <2>2. l \in Loop /\ l.pc = "watch" /\ l.cancelled = loops[i].cancelled /\ l.client = loops[i].client
    BY LoopTyped, MineIs, Zenon DEF Loop, LoopPCs
  <2> HIDE DEF l
  <2>3. TypeSpent'
    BY <2>1, TypeKept DEF IInv
  <2>4. /\ loops[i].pc \in Going \ {"attach"} /\ loops[i].pc # "wait"
        /\ l.pc \in Has /\ loops[i].client # 0
        /\ l.pc \notin {"none", "attach", "wait"}
    BY <2>1, <2>2 DEF Going, Has, IInv, WellHeld
  <2>5. UNCHANGED <<world, runner, sess, detached, clients, sheets, reqs>>
    BY <2>1
  <2> QED
    BY <2>1, <2>2, <2>3, <2>4, <2>5, QuietStep, Zenon
<1> QED
  BY <1>1, <1>2, <1>3

\* A step of the goroutine that changes the session, a client or a websheet.
LEMMA LoopStepIs ==
  ASSUME IInv, NEW i \in Ids, NEW l \in Loop, Goto(i, l),
         UNCHANGED <<world, runner, detached, reqs, spent>>,
         TypeSess', TypeClients', TypeSheets', sess'.id = sess.id,
         loops[i].pc \in Going \/ l.pc = "done", l.pc # "none", l.cancelled = loops[i].cancelled,
         l.pc \in {"attach", "wait"} => l.sheet # 0, l.pc \in {"up", "marked", "watch"} => l.client # 0,
         WellShown', SheetsOwned', ClientsOwned', Honest'
  PROVE  IInv'
<1>1. TypeOK'
  BY LoopIs, TypeKept, TypeNext DEF IInv
<1>2. WellNamed' /\ Stoppable'
  BY GoesOn
<1>3. WellHeld'
  BY HeldOn
<1>4. NoOrphans'
  BY OrphansAre, PTL
<1> QED
  BY <1>1, <1>2, <1>3, <1>4 DEF IInv

LEMMA SessIs ==
  ASSUME IInv
  PROVE  /\ sess \in Session /\ sess.id \in Ids \cup {0} /\ sess.sheet \in Sheet \cup {0}
         /\ sess.client \in Client \cup {0} /\ sess.phase \in Phases
         /\ sess.id = 0 => sess.sheet = 0 /\ sess.client = 0 /\ sess.phase = "disconnected"
BY NoneTyped DEF IInv, TypeOK, Session

\* A session that is there is replaced by one with its identifier.
LEMMA SessTyped ==
  ASSUME IInv, NEW n \in Session, n.id # 0, sess' = n
  PROVE  TypeSess'
BY DEF TypeSess

\* markConnected: the websheet of the session is gone by then.
LEMMA MarkConnectedStep ==
  ASSUME IInv, NEW i \in Ids, MarkConnected(i)
  PROVE  IInv'
<1> DEFINE l == [loops[i] EXCEPT !.pc = "marked"]
           n == [sess EXCEPT !.client = loops[i].client, !.phase = "connected", !.sheet = 0]
<1>1. /\ loops[i].pc = "up" /\ Goto(i, l) /\ sess' = (IF Mine(i) THEN n ELSE sess)
      /\ UNCHANGED <<world, runner, detached, clients, sheets, reqs, spent>>
  BY DEF MarkConnected
<1>2. l \in Loop /\ l.pc = "marked" /\ l.cancelled = loops[i].cancelled /\ l.client = loops[i].client
  BY LoopTyped DEF Loop, LoopPCs
<1>3. /\ n \in Session /\ n.id = sess.id /\ n.sheet = 0 /\ n.client = loops[i].client
      /\ n.phase = "connected"
  BY LoopTyped, SessIs DEF Session, Phases
<1> HIDE DEF l, n
<1>4. loops[i].client # 0
  BY <1>1 DEF IInv, WellHeld
<1>5. Mine(i) => sess.sheet = 0 /\ sess.id # 0 /\ sess.id = i
  <2>1. Mine(i) => sess.id = i /\ i # 0
    BY MineIs, Zenon
  <2> QED
    BY <1>1, <2>1 DEF IInv, WellShown
<1>6. TypeSess' /\ sess'.id = sess.id /\ sess'.sheet = sess.sheet
  <2>1. CASE Mine(i)
    BY <1>1, <1>3, <1>5, <2>1, SessTyped
  <2>2. CASE ~Mine(i)
    BY <1>1, <2>2, TypeKept DEF IInv
  <2> QED
    BY <2>1, <2>2
<1>7. WellShown' /\ SheetsOwned' /\ ClientsOwned'
  BY <1>1, <1>2, <1>6, ShownOn, SheetsOn, ClientsOn DEF Has
<1>8. Honest'
  <2>1. CASE Mine(i)
    <3>1. loops'[i] = l
      BY <1>1, <1>2, LoopIs
    <3>2. sess' = n
      BY <1>1, <2>1
    <3> QED
      BY <1>2, <1>3, <1>4, <1>5, <2>1, <3>1, <3>2 DEF Honest
  <2>2. CASE ~Mine(i)
    <3>1. UNCHANGED sess /\ sess.id # i
      BY <1>1, <2>2, MineIs, Zenon
    <3> QED
      BY <1>1, <1>2, <3>1, HonestOn
  <2> QED
    BY <2>1, <2>2
<1>9. TypeClients' /\ TypeSheets' /\ UNCHANGED <<world, runner, detached, reqs, spent>>
  BY <1>1, TypeKept DEF IInv
<1>10. loops[i].pc \in Going /\ l.pc \notin {"none", "attach", "wait"} /\ l.client # 0
  BY <1>1, <1>2, <1>4 DEF Going
<1> QED
  BY <1>1, <1>2, <1>6, <1>7, <1>8, <1>9, <1>10, LoopStepIs, Zenon

\* The session is marked as connecting before and after the pause.
LEMMA LostStep ==
  ASSUME IInv, NEW i \in Ids, Lost(i) \/ Resume(i)
  PROVE  IInv'
<1>1. PICK l \in Loop : /\ Goto(i, l) /\ l.pc \in {"pause", "connect"} /\ l.cancelled = loops[i].cancelled
  <2>1. CASE Lost(i)
    <3>1. Goto(i, [loops[i] EXCEPT !.pc = "pause"])
      BY <2>1 DEF Lost, AfterLoss
    <3>2. [loops[i] EXCEPT !.pc = "pause"] \in Loop
      BY LoopTyped DEF Loop, LoopPCs
    <3> QED
      BY <3>1, <3>2, LoopTyped DEF Loop
  <2>2. CASE Resume(i)
    <3>1. Goto(i, [loops[i] EXCEPT !.pc = "connect", !.tries = 0])
      BY <2>2 DEF Resume
    <3>2. [loops[i] EXCEPT !.pc = "connect", !.tries = 0] \in Loop
      BY LoopTyped DEF Loop, LoopPCs
    <3> QED
      BY <3>1, <3>2, LoopTyped DEF Loop
  <2> QED
    BY <2>1, <2>2
<1>2. /\ loops[i].pc \in {"lost", "pause"} /\ MarkConnecting(i)
      /\ UNCHANGED <<world, runner, detached, clients, sheets, reqs, spent>>
  BY DEF Lost, Resume
<1>3. /\ TypeSess' /\ sess'.id = sess.id /\ sess'.sheet = sess.sheet
      /\ sess'.phase = "connecting" \/ (UNCHANGED sess /\ sess.id # i)
  <2>1. CASE Mine(i)
    <3>1. sess.id # 0
      BY <2>1, MineIs, Zenon
    <3>2. sess' = Connecting
      BY <1>2, <2>1 DEF MarkConnecting
    <3> QED
      BY <3>1, <3>2, SessionsTyped, SessTyped
  <2>2. CASE ~Mine(i)
    <3>1. UNCHANGED sess /\ sess.id # i
      BY <1>2, <2>2, MineIs, Zenon DEF MarkConnecting
    <3> QED
      BY <3>1, TypeKept DEF IInv
  <2> QED
    BY <2>1, <2>2
<1>4. WellShown' /\ SheetsOwned' /\ ClientsOwned'
  BY <1>1, <1>2, <1>3, ShownOn, SheetsOn, ClientsOn DEF Has
<1>5. Honest'
  BY <1>1, <1>3, HonestIs, HonestOn
<1>6. TypeClients' /\ TypeSheets' /\ UNCHANGED <<world, runner, detached, reqs, spent>>
  BY <1>2, TypeKept DEF IInv
<1>7. loops[i].pc \in Going /\ l.pc \notin {"none", "attach", "wait", "up", "marked", "watch"}
  BY <1>1, <1>2 DEF Going
<1> QED
  BY <1>1, <1>3, <1>4, <1>5, <1>6, <1>7, LoopStepIs, Zenon

\* connectOnce ends with a client that nobody had before.
LEMMA ConnectsStep ==
  ASSUME IInv, NEW i \in Ids, Connects(i)
  PROVE  IInv'
<1> DEFINE c == Fresh(FreshClient)
           l == [loops[i] EXCEPT !.pc = "up", !.client = c, !.tries = 0]
<1>1. /\ loops[i].pc = "connect" /\ FreshClient # {}
      /\ clients' = [clients EXCEPT ![c] = "up"] /\ Goto(i, l)
      /\ UNCHANGED <<world, runner, sess, detached, sheets, reqs, spent>>
  BY DEF Connects
<1>2. c \in Client /\ clients[c] = "new" /\ c # 0
  <2>1. FreshClient \subseteq Client /\ FreshClient \subseteq Nat
    BY IdsAre DEF FreshClient
  <2>2. c \in FreshClient
    BY <1>1, <2>1, FreshIs
  <2> HIDE DEF c
  <2> QED
    BY <2>2, IdsAre DEF FreshClient
<1> HIDE DEF c
<1>3. l \in Loop /\ l.pc = "up" /\ l.cancelled = loops[i].cancelled /\ l.client = c
  BY <1>2, LoopTyped DEF Loop, LoopPCs
<1> HIDE DEF l
<1>4. loops'[i] = l /\ \A j \in Ids \ {i} : loops'[j] = loops[j]
  BY <1>1, <1>3, LoopIs
<1>5. /\ TypeClients' /\ \A d \in Client \ {c} : clients'[d] = clients[d]
  BY <1>1, <1>2, TypeIs DEF IInv, TypeClients
<1>6. ClientsOwned'
  <2> SUFFICES ASSUME NEW d \in Client, clients'[d] = "up"
               PROVE  \E j \in Ids : loops'[j].pc \in Has /\ loops'[j].client = d
    BY DEF ClientsOwned
  <2>1. CASE d = c
    BY <1>3, <1>4, <2>1 DEF Has
  <2>2. CASE d # c
    <3>1. PICK j \in Ids : loops[j].pc \in Has /\ loops[j].client = d
      BY <1>5, <2>2, OrphansAre DEF IInv, ClientsOwned
    <3>2. j # i
      BY <1>1, <3>1 DEF Has
    <3> QED
      BY <1>4, <3>1, <3>2
  <2> QED
    BY <2>1, <2>2
<1>7. WellShown' /\ SheetsOwned' /\ Honest'
  BY <1>1, <1>3, ShownOn, SheetsOn, HonestOn
<1>8. TypeSess' /\ TypeSheets' /\ UNCHANGED <<world, runner, detached, reqs, spent>> /\ sess'.id = sess.id
  BY <1>1, TypeKept DEF IInv
<1>9. loops[i].pc \in Going /\ l.pc \notin {"none", "attach", "wait"} /\ l.client # 0
  BY <1>1, <1>2, <1>3 DEF Going
<1> QED
  BY <1>1, <1>3, <1>5, <1>6, <1>7, <1>8, <1>9, LoopStepIs, Zenon

\* The goroutine closes the client it watched.
LEMMA ClosesOwn ==
  ASSUME IInv, NEW i \in Ids, NEW l \in Loop, Goto(i, l), loops[i].pc = "watch",
         \/ clients' = Closed(loops[i].client)
         \/ UNCHANGED clients /\ clients[loops[i].client] # "up"
  PROVE  TypeClients' /\ ClientsOwned'
<1> DEFINE c == loops[i].client
<1>1. c \in Client
  BY LoopTyped DEF IInv, WellHeld
<1>2. c # 0
  BY <1>1, IdsAre
<1>3. \/ clients' = [clients EXCEPT ![c] = "closed"]
      \/ UNCHANGED clients /\ clients[c] # "up"
  BY <1>2 DEF Closed
<1>4. c = loops[i].client
  OBVIOUS
<1> HIDE DEF c
<1>5. TypeClients' /\ clients'[c] # "up" /\ \A d \in Client \ {c} : clients'[d] = clients[d]
  BY <1>1, <1>3, TypeIs DEF IInv, TypeClients
<1>6. \A j \in Ids \ {i} : loops'[j] = loops[j]
  BY LoopIs
<1>7. ClientsOwned'
  <2> SUFFICES ASSUME NEW d \in Client, clients'[d] = "up"
               PROVE  \E j \in Ids : loops'[j].pc \in Has /\ loops'[j].client = d
    BY DEF ClientsOwned
  <2>1. d # c /\ clients[d] = "up"
    BY <1>5
  <2>2. PICK j \in Ids : loops[j].pc \in Has /\ loops[j].client = d
    BY <2>1, OrphansAre DEF IInv, ClientsOwned
  <2>3. j # i
    BY <1>4, <2>1, <2>2
  <2> QED
    BY <1>6, <2>2, <2>3
<1> QED
  BY <1>5, <1>7

\* watchClient returns, in each of its three ways.
LEMMA WatchEnds ==
  ASSUME IInv, NEW i \in Ids, ClientGone(i) \/ CancelledWatch(i) \/ AskedToReconnect(i)
  PROVE  IInv'
<1>1. PICK l \in Loop : Goto(i, l) /\ l.pc = "lost" /\ l.cancelled = loops[i].cancelled
  <2>1. CASE ClientGone(i) \/ CancelledWatch(i)
    <3>1. Goto(i, [loops[i] EXCEPT !.pc = "lost", !.client = 0, !.heard = FALSE])
      BY <2>1 DEF ClientGone, CancelledWatch
    <3>2. [loops[i] EXCEPT !.pc = "lost", !.client = 0, !.heard = FALSE] \in Loop
      BY LoopTyped DEF Loop, LoopPCs
    <3> QED
      BY <3>1, <3>2, LoopTyped DEF Loop
  <2>2. CASE AskedToReconnect(i)
    <3>1. Goto(i, [loops[i] EXCEPT !.pc = "lost", !.client = 0, !.heard = FALSE, !.reconnect = FALSE])
      BY <2>2 DEF AskedToReconnect
    <3>2. [loops[i] EXCEPT !.pc = "lost", !.client = 0, !.heard = FALSE, !.reconnect = FALSE] \in Loop
      BY LoopTyped DEF Loop, LoopPCs
    <3> QED
      BY <3>1, <3>2, LoopTyped DEF Loop
  <2> QED
    BY <2>1, <2>2
<1>2. /\ loops[i].pc = "watch"
      /\ \/ clients' = Closed(loops[i].client)
         \/ UNCHANGED clients /\ clients[loops[i].client] # "up"
      /\ MarkDisconnected(i, loops[i].client) \/ UNCHANGED sess
      /\ UNCHANGED <<world, runner, detached, sheets, reqs, spent>>
  BY DEF ClientGone, CancelledWatch, AskedToReconnect, CutOff
<1>3. /\ TypeSess' /\ sess'.id = sess.id /\ sess'.sheet = sess.sheet
      /\ sess'.phase = "disconnected" \/ UNCHANGED sess
  <2>1. CASE UNCHANGED sess
    BY <2>1, TypeKept DEF IInv
  <2>2. CASE ~UNCHANGED sess
    <3>1. Mine(i) /\ sess' = Disconnected
      BY <1>2, <2>2 DEF MarkDisconnected
    <3>2. sess.id # 0
      BY <3>1, MineIs, Zenon
    <3> QED
      BY <3>1, <3>2, SessionsTyped, SessTyped
  <2> QED
    BY <2>1, <2>2
<1>4. WellShown' /\ SheetsOwned'
  BY <1>1, <1>2, <1>3, ShownOn, SheetsOn
<1>5. TypeClients' /\ ClientsOwned'
  BY <1>1, <1>2, ClosesOwn
<1>6. Honest'
  BY <1>1, <1>3, HonestIs, HonestOn
<1>7. TypeSheets' /\ UNCHANGED <<world, runner, detached, reqs, spent>>
  BY <1>2, TypeKept DEF IInv
<1>8. loops[i].pc \in Going /\ l.pc \notin {"none", "attach", "wait", "up", "marked", "watch"}
  BY <1>1, <1>2 DEF Going
<1> QED
  BY <1>1, <1>3, <1>4, <1>5, <1>6, <1>7, <1>8, LoopStepIs, Zenon

\* The broker forgets a websheet.
LEMMA DeletedIs ==
  ASSUME IInv, NEW s \in Sheet \cup {0}, sheets' = Deleted(s)
  PROVE  /\ TypeSheets'
         /\ \A t \in Sheet : sheets'[t].in = "live" => t # s /\ sheets[t].in = "live"
<1>1. sheets \in [Sheet -> SheetState]
  BY DEF IInv, TypeOK
<1>2. 0 \notin Sheet
  BY IdsAre
<1>3. CASE s = 0
  BY <1>1, <1>2, <1>3 DEF Deleted, TypeSheets
<1>4. CASE s # 0
  <2> DEFINE d == [in |-> "deleted", said |-> "none"]
  <2>1. d \in SheetState /\ d.in = "deleted"
    BY DEF SheetState, Callbacks
  <2>2. sheets' = [sheets EXCEPT ![s] = d]
    BY <1>4 DEF Deleted
  <2> HIDE DEF d
  <2>3. s \in Sheet
    BY <1>4
  <2>4. sheets' \in [Sheet -> SheetState]
    BY <1>1, <2>1, <2>2
  <2>5. sheets'[s] = d /\ \A t \in Sheet \ {s} : sheets'[t] = sheets[t]
    BY <1>1, <2>2, <2>3
  <2>6. \A t \in Sheet : sheets'[t].in = "live" => t # s /\ sheets[t].in = "live"
    BY <2>1, <2>5
  <2> QED
    BY <2>4, <2>6 DEF TypeSheets
<1> QED
  BY <1>3, <1>4

\* A websheet is created, for the goroutine that is about to attach it.
LEMMA NeedsUserStep ==
  ASSUME IInv, NEW i \in Ids, NeedsUser(i)
  PROVE  IInv'
<1> DEFINE s == Fresh(FreshSheet)
           l == [loops[i] EXCEPT !.pc = "attach", !.sheet = s]
<1>1. /\ loops[i].pc = "connect" /\ FreshSheet # {}
      /\ sheets' = [sheets EXCEPT ![s].in = "live"] /\ Goto(i, l)
      /\ UNCHANGED <<world, runner, sess, detached, clients, reqs, spent>>
  BY DEF NeedsUser
<1>2. s \in Sheet /\ s # 0
  <2>1. FreshSheet \subseteq Sheet /\ FreshSheet \subseteq Nat
    BY IdsAre DEF FreshSheet
  <2>2. s \in FreshSheet
    BY <1>1, <2>1, FreshIs
  <2> HIDE DEF s
  <2> QED
    BY <2>2, IdsAre DEF FreshSheet
<1> HIDE DEF s
<1>3. l \in Loop /\ l.pc = "attach" /\ l.cancelled = loops[i].cancelled /\ l.sheet = s
  BY <1>2, LoopTyped DEF Loop, LoopPCs
<1> HIDE DEF l
<1>4. loops'[i] = l /\ \A j \in Ids \ {i} : loops'[j] = loops[j]
  BY <1>1, <1>3, LoopIs
<1>5. TypeSheets' /\ \A t \in Sheet \ {s} : sheets'[t] = sheets[t]
  <2>1. sheets \in [Sheet -> SheetState]
    BY DEF IInv, TypeOK
  <2>2. [sheets[s] EXCEPT !.in = "live"] \in SheetState
    BY <1>2, <2>1, Zenon DEF SheetState
  <2> QED
    BY <1>1, <1>2, <2>1, <2>2 DEF TypeSheets
<1>6. SheetsOwned'
  <2> SUFFICES ASSUME NEW t \in Sheet, sheets'[t].in = "live"
               PROVE  \/ sess'.sheet = t
                      \/ \E j \in Ids : loops'[j].pc = "attach" /\ loops'[j].sheet = t
                      \/ \E j \in Ids : detached'[j].stage = "cancel" /\ detached'[j].sheet = t
    BY DEF SheetsOwned
  <2>1. CASE t = s
    BY <1>3, <1>4, <2>1
  <2>2. CASE t # s
    <3>1. sheets[t].in = "live"
      BY <1>5, <2>2
    <3>2. SheetsOwned
      BY OrphansAre DEF IInv
    <3>3. CASE \E j \in Ids : loops[j].pc = "attach" /\ loops[j].sheet = t
      BY <1>1, <1>4, <3>3
    <3> QED
      BY <1>1, <3>1, <3>2, <3>3 DEF SheetsOwned
  <2> QED
    BY <2>1, <2>2
<1>7. WellShown' /\ ClientsOwned' /\ Honest'
  BY <1>1, <1>3, ShownOn, ClientsOn, HonestOn DEF Has
<1>8. TypeSess' /\ TypeClients' /\ UNCHANGED <<world, runner, detached, reqs, spent>> /\ sess'.id = sess.id
  BY <1>1, TypeKept DEF IInv
<1>9. loops[i].pc \in Going /\ l.pc \notin {"none", "up", "marked", "watch"} /\ l.sheet # 0
  BY <1>1, <1>2, <1>3 DEF Going
<1> QED
  BY <1>1, <1>3, <1>5, <1>6, <1>7, <1>8, <1>9, LoopStepIs, Zenon

\* attachWebsheet: the session takes the sheet, or it goes at once.
LEMMA AttachStep ==
  ASSUME IInv, NEW i \in Ids, Attach(i)
  PROVE  IInv'
<1> DEFINE s == loops[i].sheet
<1>1. /\ loops[i].pc = "attach"
      /\ UNCHANGED <<world, runner, detached, clients, reqs, spent>>
  BY DEF Attach
<1>2. s \in Sheet /\ s # 0
  BY <1>1, LoopTyped DEF IInv, WellHeld
<1>3. SheetsOwned
  BY OrphansAre DEF IInv
<1>4. TypeClients' /\ loops[i].pc \in Going /\ loops[i].pc \notin Has
  BY <1>1, TypeKept DEF IInv, Going, Has
<1>5. CASE Mine(i)
  <2> DEFINE n == [sess EXCEPT !.sheet = s, !.phase = "websheet_required"]
             l == [loops[i] EXCEPT !.pc = "wait"]
  <2>1. sess' = n /\ Goto(i, l) /\ UNCHANGED sheets
    BY <1>5 DEF Attach
  <2>2. n \in Session /\ n.id = sess.id /\ n.sheet = s /\ n.phase = "websheet_required"
    BY <1>2, SessIs DEF Session, Phases
  <2>3. l \in Loop /\ l.pc = "wait" /\ l.cancelled = loops[i].cancelled /\ l.sheet = s
    BY LoopTyped DEF Loop, LoopPCs
  <2> HIDE DEF n, l
  <2>4. sess.id = i /\ i # 0 /\ sess.sheet = 0
    <3>1. sess.id = i /\ i # 0
      BY <1>5, MineIs, Zenon
    <3> QED
      BY <1>1, <3>1 DEF IInv, WellShown
  <2>5. loops'[i] = l /\ \A j \in Ids \ {i} : loops'[j] = loops[j]
    BY <2>1, <2>3, LoopIs
  <2>6. TypeSess' /\ sess'.id = sess.id
    BY <2>1, <2>2, <2>4, SessTyped
  <2>7. WellShown'
    BY <2>1, <2>2, <2>3, <2>4, <2>5 DEF WellShown
  <2>8. SheetsOwned'
    <3> SUFFICES ASSUME NEW t \in Sheet, sheets'[t].in = "live"
                 PROVE  \/ sess'.sheet = t
                        \/ \E j \in Ids : loops'[j].pc = "attach" /\ loops'[j].sheet = t
                        \/ \E j \in Ids : detached'[j].stage = "cancel" /\ detached'[j].sheet = t
      BY DEF SheetsOwned
    <3>1. t # 0 /\ sheets[t].in = "live"
      BY <2>1, IdsAre
    <3>2. CASE \E j \in Ids : loops[j].pc = "attach" /\ loops[j].sheet = t
      <4>1. PICK j \in Ids : loops[j].pc = "attach" /\ loops[j].sheet = t
        BY <3>2
      <4>2. CASE j = i
        BY <2>1, <2>2, <4>1, <4>2
      <4>3. CASE j # i
        BY <2>5, <4>1, <4>3
      <4> QED
        BY <4>2, <4>3
    <3> QED
      BY <1>1, <1>3, <2>4, <3>1, <3>2 DEF SheetsOwned
  <2>9. ClientsOwned' /\ Honest'
    BY <1>1, <1>4, <2>1, <2>2, <2>3, ClientsOn, HonestIs
  <2>10. TypeSheets'
    BY <2>1, TypeKept DEF IInv
  <2>11. l.pc # "none" /\ l.pc \notin {"up", "marked", "watch"} /\ l.sheet # 0
    BY <1>2, <2>3
  <2> QED
    BY <1>1, <1>4, <2>1, <2>3, <2>6, <2>7, <2>8, <2>9, <2>10, <2>11, LoopStepIs, Zenon
<1>6. CASE ~Mine(i)
  <2>1. sheets' = Deleted(s) /\ Ends(i, "done") /\ UNCHANGED sess
    BY <1>6 DEF Attach
  <2>2. "done" \in LoopPCs
    BY DEF LoopPCs
  <2>3. PICK l \in Loop : Goto(i, l) /\ l.pc = "done" /\ l.cancelled = loops[i].cancelled
    BY <2>1, <2>2, EndsIs
  <2>4. loops'[i] = l /\ \A j \in Ids \ {i} : loops'[j] = loops[j]
    BY <2>3, LoopIs
  <2>5. s \in Sheet \cup {0}
    BY <1>2
  <2>6. s = loops[i].sheet
    OBVIOUS
  <2> HIDE DEF s
  <2>7. TypeSheets' /\ \A t \in Sheet : sheets'[t].in = "live" => t # s /\ sheets[t].in = "live"
    BY <2>1, <2>5, DeletedIs
  <2>8. SheetsOwned'
    <3> SUFFICES ASSUME NEW t \in Sheet, sheets'[t].in = "live"
                 PROVE  \/ sess'.sheet = t
                        \/ \E j \in Ids : loops'[j].pc = "attach" /\ loops'[j].sheet = t
                        \/ \E j \in Ids : detached'[j].stage = "cancel" /\ detached'[j].sheet = t
      BY DEF SheetsOwned
    <3>1. t # s /\ sheets[t].in = "live"
      BY <2>7
    <3>2. CASE \E j \in Ids : loops[j].pc = "attach" /\ loops[j].sheet = t
      <4>1. PICK j \in Ids : loops[j].pc = "attach" /\ loops[j].sheet = t
        BY <3>2
      <4>2. j # i
        BY <2>6, <3>1, <4>1
      <4> QED
        BY <2>4, <4>1, <4>2
    <3> QED
      BY <1>1, <1>3, <2>1, <3>1, <3>2 DEF SheetsOwned
  <2>9. WellShown' /\ ClientsOwned' /\ Honest'
    BY <1>1, <1>4, <2>1, <2>3, ShownOn, ClientsOn, HonestOn
  <2>10. TypeSess' /\ sess'.id = sess.id
    BY <2>1, TypeKept DEF IInv
  <2>11. l.pc # "none" /\ l.pc \notin {"attach", "wait", "up", "marked", "watch"}
    BY <2>3
  <2> QED
    BY <1>1, <1>4, <2>3, <2>7, <2>8, <2>9, <2>10, <2>11, LoopStepIs, Zenon
<1> QED
  BY <1>5, <1>6

-----------------------------------------------------------------------------
(* Steps that leave every goroutine where it is. *)

LEMMA SameOn ==
  ASSUME IInv, TypeOK', UNCHANGED detached, sess'.id = sess.id, sess'.sheet = sess.sheet,
         UNCHANGED sess \/ sess'.phase # "connected",
         \A j \in Ids : /\ loops'[j].pc = loops[j].pc /\ loops'[j].cancelled = loops[j].cancelled
                        /\ loops'[j].sheet = loops[j].sheet /\ loops'[j].client = loops[j].client,
         \A s \in Sheet : sheets'[s].in = "live" => sheets[s].in = "live",
         \A c \in Client : clients'[c] = "up" => clients[c] = "up",
         \A r \in Requests : reqs'[r].pc = "using" => reqs'[r].client # 0
  PROVE  IInv'
<1>1. /\ sess.id \in Ids \cup {0} /\ (sess.id = 0 => sess.sheet = 0 /\ sess.phase = "disconnected")
  BY SessIs
<1>2. WellNamed'
  BY <1>1 DEF IInv, WellNamed
<1>3. WellHeld'
  BY DEF IInv, WellHeld
<1>4. WellShown'
  BY <1>1 DEF IInv, WellShown
<1>5. Stoppable'
  BY DEF IInv, Stoppable, Live
<1>6. SheetsOwned'
  BY OrphansAre DEF IInv, SheetsOwned
<1>7. ClientsOwned'
  BY OrphansAre DEF IInv, ClientsOwned
<1>8. Honest'
  <2> SUFFICES ASSUME sess'.phase = "connected" PROVE Honest'
    BY HonestIs
  <2>1. UNCHANGED sess /\ sess.phase = "connected" /\ sess.id \in Ids
    BY <1>1
  <2> QED
    BY <2>1 DEF IInv, Honest
<1>9. NoOrphans'
  BY <1>6, <1>7, OrphansAre, PTL
<1> QED
  BY <1>2, <1>3, <1>4, <1>5, <1>8, <1>9 DEF IInv

\* A request, or Run, goes on; the sessions do not change.
LEMMA RequestOn ==
  ASSUME IInv, NEW r \in Requests, NEW q \in Request, Set(r, q), q.pc = "using" => q.client # 0
  PROVE  TypeReqs' /\ \A x \in Requests : reqs'[x].pc = "using" => reqs'[x].client # 0
<1>1. reqs \in [Requests -> Request]
  BY DEF IInv, TypeOK
<1>2. TypeReqs' /\ reqs'[r] = q /\ \A x \in Requests \ {r} : reqs'[x] = reqs[x]
  BY <1>1 DEF Set, TypeReqs
<1> QED
  BY <1>2 DEF IInv, WellHeld

LEMMA RequestsKept ==
  ASSUME IInv, UNCHANGED reqs
  PROVE  TypeReqs' /\ \A x \in Requests : reqs'[x].pc = "using" => reqs'[x].client # 0
<1>1. TypeReqs'
  BY TypeKept DEF IInv
<1> QED
  BY <1>1 DEF IInv, WellHeld

LEMMA SessionsKept ==
  ASSUME IInv, UNCHANGED <<sess, detached, loops>>, TypeWorld', TypeRunner', TypeReqs', TypeSpent',
         TypeClients', TypeSheets',
         \A s \in Sheet : sheets'[s].in = "live" => sheets[s].in = "live",
         \A c \in Client : clients'[c] = "up" => clients[c] = "up",
         \A r \in Requests : reqs'[r].pc = "using" => reqs'[r].client # 0
  PROVE  IInv'
<1>1. TypeOK'
  BY TypeKept, TypeNext DEF IInv
<1> QED
  BY <1>1, SameOn

LEMMA WorldIs ==
  ASSUME IInv
  PROVE  /\ modem.path \in Path /\ modem.profile \in Profiles
         /\ modem \in [path : Path, profile : Profiles]
         /\ runner \in Runner /\ runner.profile \in Profiles /\ runner.path \in Path
         /\ spent \in [requests : Nat, moves : Nat, faults : Nat]
         /\ enabled \in [Profiles -> BOOLEAN] /\ events \in Seq([added : BOOLEAN, path : Path])
         /\ TypeWorld /\ TypeRunner /\ TypeSpent
BY TypeIs DEF IInv, TypeOK, Runner

\* The registry's event that Run takes.
LEMMA HeadIs ==
  ASSUME IInv, events # <<>>
  PROVE  /\ Head(events).added \in BOOLEAN /\ Head(events).path \in Path
         /\ Tail(events) \in Seq([added : BOOLEAN, path : Path])
<1> DEFINE Event == [added : BOOLEAN, path : Path]
<1>1. events \in Seq(Event) /\ events # <<>>
  BY WorldIs
<1>2. \A e \in Event : e.added \in BOOLEAN /\ e.path \in Path
  BY Zenon
<1> HIDE DEF Event
<1>3. Head(events) \in Event /\ Tail(events) \in Seq(Event)
  BY <1>1
<1> QED
  BY <1>2, <1>3, Zenon DEF Event

\* The steps of Run that start and stop nothing.
LEMMA RunnerQuiet ==
  ASSUME IInv, List \/ Subscribe \/ TakeAdded \/ RunnerClosed
  PROVE  IInv'
<1>1. UNCHANGED <<enabled, modem, sess, detached, loops, clients, sheets, reqs, spent>>
  BY DEF List, Subscribe, TakeAdded, RunnerClosed, world
<1>2. TypeRunner'
  <2>1. CASE List
    <3>1. runner' \in {[runner EXCEPT !.pc = "start", !.profile = modem.profile, !.path = modem.path],
                       [runner EXCEPT !.pc = "started"]}
      BY <2>1 DEF List
    <3> QED
      BY <3>1, WorldIs DEF TypeRunner, Runner
  <2>2. CASE Subscribe
    <3>1. runner' = [runner EXCEPT !.pc = "idle", !.heard = TRUE]
      BY <2>2 DEF Subscribe
    <3> QED
      BY <3>1, WorldIs DEF TypeRunner, Runner
  <2>3. CASE TakeAdded
    <3>1. runner' \in {[runner EXCEPT !.pc = "start", !.profile = modem.profile, !.path = Head(events).path],
                       runner}
      BY <2>3 DEF TakeAdded
    <3>2. Head(events).path \in Path
      BY <2>3, HeadIs DEF TakeAdded
    <3> QED
      BY <3>1, <3>2, WorldIs DEF TypeRunner, Runner
  <2>4. CASE RunnerClosed
    <3>1. runner' \in {[runner EXCEPT !.pc = "idle"], [runner EXCEPT !.pc = "returned"]}
      BY <2>4 DEF RunnerClosed
    <3> QED
      BY <3>1, WorldIs DEF TypeRunner, Runner
  <2> QED
    BY <2>1, <2>2, <2>3, <2>4
<1>3. TypeWorld'
  <2>1. events' \in Seq([added : BOOLEAN, path : Path])
    <3>1. CASE UNCHANGED events
      BY <3>1, WorldIs
    <3>2. CASE events' = <<>>
      BY <3>2
    <3>3. CASE TakeAdded
      BY <3>3, HeadIs DEF TakeAdded
    <3> QED
      BY <3>1, <3>2, <3>3 DEF List, Subscribe, RunnerClosed, world
  <2> QED
    BY <1>1, <2>1, WorldIs DEF TypeWorld
<1>4. TypeReqs' /\ TypeSpent' /\ TypeClients' /\ TypeSheets'
  BY <1>1, TypeKept DEF IInv
<1>5. \A x \in Requests : reqs'[x].pc = "using" => reqs'[x].client # 0
  BY <1>1, RequestsKept
<1> QED
  BY <1>1, <1>2, <1>3, <1>4, <1>5, SessionsKept

\* A request begins, with the profile the modem has.
LEMMA BeginStep ==
  ASSUME IInv, NEW r \in Requests, Begin(r)
  PROVE  IInv'
<1>1. /\ UNCHANGED <<world, runner, sess, detached, loops, clients, sheets>>
      /\ spent' = [spent EXCEPT !.requests = @ + 1]
  BY DEF Begin, BeginUpdate, BeginReconnect, BeginDisconnect, BeginUse, Begins
<1>2. Found \in Request /\ Found.pc = "free"
  BY NoneTyped, WorldIs DEF Found, Request
<1>3. PICK q \in Request : Set(r, q) /\ (q.pc = "using" => q.client # 0)
  <2>1. CASE BeginUpdate(r)
    <3>1. PICK on \in BOOLEAN : Set(r, [Found EXCEPT !.pc = "put", !.on = on])
      BY <2>1 DEF BeginUpdate
    <3>2. [Found EXCEPT !.pc = "put", !.on = on] \in Request
      BY <1>2, Zenon DEF Request, RequestPCs
    <3>3. [Found EXCEPT !.pc = "put", !.on = on].pc = "put"
      BY <1>2, Zenon DEF Request
    <3> QED
      BY <3>1, <3>2, <3>3
  <2>2. CASE BeginReconnect(r)
    <3>1. Set(r, [Found EXCEPT !.pc = "detach", !.on = TRUE])
      BY <2>2 DEF BeginReconnect
    <3>2. [Found EXCEPT !.pc = "detach", !.on = TRUE] \in Request
      BY <1>2, Zenon DEF Request, RequestPCs
    <3>3. [Found EXCEPT !.pc = "detach", !.on = TRUE].pc = "detach"
      BY <1>2, Zenon DEF Request
    <3> QED
      BY <3>1, <3>2, <3>3
  <2>3. CASE BeginDisconnect(r)
    <3>1. Set(r, [Found EXCEPT !.pc = "detach"])
      BY <2>3 DEF BeginDisconnect
    <3>2. [Found EXCEPT !.pc = "detach"] \in Request /\ [Found EXCEPT !.pc = "detach"].pc = "detach"
      BY <1>2 DEF Request, RequestPCs
    <3> QED
      BY <3>1, <3>2
  <2>4. CASE BeginUse(r)
    <3> DEFINE q == [Found EXCEPT !.pc = "using", !.client = sess.client]
    <3>1. Set(r, q) /\ sess.client # 0
      BY <2>4 DEF BeginUse
    <3>2. q \in Request /\ q.client = sess.client
      BY <1>2, SessIs DEF Request, RequestPCs
    <3> QED
      BY <3>1, <3>2
  <2> QED
    BY <2>1, <2>2, <2>3, <2>4 DEF Begin
<1>4. TypeSpent'
  BY <1>1, WorldIs DEF TypeSpent
<1>5. TypeReqs' /\ \A x \in Requests : reqs'[x].pc = "using" => reqs'[x].client # 0
  BY <1>3, RequestOn
<1>6. TypeWorld' /\ TypeRunner' /\ TypeClients' /\ TypeSheets'
  BY <1>1, TypeKept DEF IInv
<1> QED
  BY <1>1, <1>4, <1>5, <1>6, SessionsKept

\* UpdateSettings writes its two settings.
LEMMA PutStep ==
  ASSUME IInv, NEW r \in Requests, Put(r) \/ Prefer(r)
  PROVE  IInv'
<1>1. UNCHANGED <<modem, events, runner, sess, detached, loops, clients, sheets>>
  BY DEF Put, Prefer, world
<1>2. reqs[r] \in Request
  BY DEF IInv, TypeOK
<1>3. PICK q \in Request : Set(r, q) /\ q.pc # "using"
  <2>1. /\ [reqs[r] EXCEPT !.pc = "prefer"] \in Request /\ [reqs[r] EXCEPT !.pc = "prefer"].pc = "prefer"
        /\ [reqs[r] EXCEPT !.pc = "detach"] \in Request /\ [reqs[r] EXCEPT !.pc = "detach"].pc = "detach"
    BY <1>2 DEF Request, RequestPCs
  <2>2. \/ Set(r, [reqs[r] EXCEPT !.pc = "prefer"]) \/ Set(r, [reqs[r] EXCEPT !.pc = "detach"])
        \/ Set(r, NoRequest)
    BY DEF Put, Prefer
  <2> QED
    BY <2>1, <2>2, NoneTyped
<1>4. TypeReqs' /\ \A x \in Requests : reqs'[x].pc = "using" => reqs'[x].client # 0
  BY <1>3, RequestOn
<1>5. TypeSpent'
  <2>1. UNCHANGED spent \/ Failed(1)
    BY DEF Put, Prefer
  <2> QED
    BY <2>1, FaultTyped, TypeKept DEF IInv
<1>6. TypeWorld'
  <2>1. enabled' \in [Profiles -> BOOLEAN]
    <3>1. UNCHANGED enabled \/ enabled' = [enabled EXCEPT ![reqs[r].profile] = reqs[r].on]
      BY DEF Put, Prefer, world
    <3>2. reqs[r].on \in BOOLEAN /\ enabled \in [Profiles -> BOOLEAN]
      BY <1>2, WorldIs, Zenon DEF Request
    <3> QED
      BY <3>1, <3>2, Zenon
  <2> QED
    BY <1>1, <2>1, WorldIs DEF TypeWorld
<1>7. TypeRunner' /\ TypeClients' /\ TypeSheets'
  BY <1>1, TypeKept DEF IInv
<1> QED
  BY <1>1, <1>4, <1>5, <1>6, <1>7, SessionsKept

-----------------------------------------------------------------------------
(* Steps that put a session into the map, or take it out. *)

\* detachSession: the session goes, and what it had is about to be cancelled.
\* Its goroutine may end in the same step.
LEMMA DetachOn ==
  ASSUME IInv, Detach, sess.id # 0, NEW l \in Loop, Goto(sess.id, l), l.pc # "none",
         loops[sess.id].pc \notin Has \cup {"attach"} \/ l = loops[sess.id],
         UNCHANGED <<clients, sheets>>, TypeWorld', TypeRunner', TypeReqs', TypeSpent', WellHeld'
  PROVE  IInv'
<1> DEFINE d == sess.id
           e == [stage |-> "cancel", client |-> sess.client, sheet |-> sess.sheet]
<1>1. d \in Ids /\ d # 0
  BY SessIs
<1>2. sess' = NoSession /\ detached' = [detached EXCEPT ![d] = e]
  BY DEF Detach
<1>3. e \in Detached /\ e.stage = "cancel" /\ e.sheet = sess.sheet
  BY SessIs DEF Detached
<1>4. loops[d].pc # "none" /\ detached[d].stage = "none" /\ Goto(d, l) /\ d = sess.id
  BY DEF IInv, WellNamed
<1>5. loops[d].pc \notin Has \cup {"attach"} \/ l = loops[d]
  OBVIOUS
<1> HIDE DEF d, e
<1>6. detached \in [Ids -> Detached]
  BY DEF IInv, TypeOK
<1>7. TypeDetached' /\ detached'[d] = e /\ \A j \in Ids \ {d} : detached'[j] = detached[j]
  BY <1>1, <1>2, <1>3, <1>6 DEF TypeDetached
<1>8. TypeLoops' /\ loops'[d] = l /\ \A j \in Ids \ {d} : loops'[j] = loops[j]
  BY <1>1, <1>4, LoopIs
<1>9. sess'.id = 0 /\ sess'.sheet = 0 /\ sess'.phase = "disconnected" /\ TypeSess'
  BY <1>2, NoneTyped DEF TypeSess
<1>10. TypeOK'
  BY <1>7, <1>8, <1>9, TypeKept, TypeNext DEF IInv
<1>11. WellNamed'
  BY <1>7, <1>8, <1>9 DEF IInv, WellNamed
<1>12. WellShown' /\ Honest'
  BY <1>9 DEF WellShown, Honest
<1>13. Stoppable'
  <2> SUFFICES ASSUME NEW j \in Ids, Live(j)', ~loops'[j].cancelled, loops'[j].pc # "dismissed"
               PROVE  detached'[j].stage = "cancel"
    BY DEF Stoppable
  <2>1. CASE j = d
    BY <1>3, <1>7, <2>1
  <2>2. CASE j # d
    BY <1>4, <1>7, <1>8, <2>2 DEF IInv, Stoppable, Live
  <2> QED
    BY <2>1, <2>2
<1>14. SheetsOwned'
  <2> SUFFICES ASSUME NEW t \in Sheet, sheets'[t].in = "live"
               PROVE  \/ \E j \in Ids : loops'[j].pc = "attach" /\ loops'[j].sheet = t
                      \/ \E j \in Ids : detached'[j].stage = "cancel" /\ detached'[j].sheet = t
    BY DEF SheetsOwned
  <2>1. SheetsOwned /\ sheets[t].in = "live"
    BY OrphansAre DEF IInv
  <2>2. CASE sess.sheet = t
    BY <1>1, <1>3, <1>7, <2>2
  <2>3. CASE \E j \in Ids : loops[j].pc = "attach" /\ loops[j].sheet = t
    <3>1. PICK j \in Ids : loops[j].pc = "attach" /\ loops[j].sheet = t
      BY <2>3
    <3>2. loops'[j] = loops[j]
      BY <1>5, <1>8, <3>1
    <3> QED
      BY <3>1, <3>2
  <2>4. CASE \E j \in Ids : detached[j].stage = "cancel" /\ detached[j].sheet = t
    BY <1>4, <1>7, <2>4
  <2> QED
    BY <2>1, <2>2, <2>3, <2>4 DEF SheetsOwned
<1>15. ClientsOwned'
  <2> SUFFICES ASSUME NEW c \in Client, clients'[c] = "up"
               PROVE  \E j \in Ids : loops'[j].pc \in Has /\ loops'[j].client = c
    BY DEF ClientsOwned
  <2>1. PICK j \in Ids : loops[j].pc \in Has /\ loops[j].client = c
    BY OrphansAre DEF IInv, ClientsOwned
  <2>2. loops'[j] = loops[j]
    BY <1>5, <1>8, <2>1
  <2> QED
    BY <2>1, <2>2
<1>16. NoOrphans'
  BY <1>14, <1>15, OrphansAre, PTL
<1> QED
  BY <1>10, <1>11, <1>12, <1>13, <1>16 DEF IInv

\* Detaching from outside leaves the goroutine where it is.
LEMMA DetachOutside ==
  ASSUME IInv, Detach, sess.id # 0, UNCHANGED <<loops, clients, sheets>>,
         TypeWorld', TypeRunner', TypeReqs', TypeSpent',
         \A r \in Requests : reqs'[r].pc = "using" => reqs'[r].client # 0
  PROVE  IInv'
<1> DEFINE l == loops[sess.id]
<1>1. l \in Loop /\ l.pc # "none" /\ loops \in [Ids -> Loop] /\ sess.id \in Ids
  BY SessIs DEF IInv, TypeOK, WellNamed
<1>2. Goto(sess.id, l)
  BY <1>1 DEF Goto
<1>3. WellHeld'
  BY DEF IInv, WellHeld
<1> QED
  BY <1>1, <1>2, <1>3, DetachOn

\* stopAsyncSession: the user has closed the sheet.
LEMMA DismissedStep ==
  ASSUME IInv, NEW i \in Ids, Dismissed(i)
  PROVE  IInv'
<1>1. /\ loops[i].pc = "dismissed" /\ Ends(i, "done")
      /\ UNCHANGED <<world, runner, clients, sheets, reqs, spent>>
  BY DEF Dismissed
<1>2. "done" \in LoopPCs
  BY DEF LoopPCs
<1>3. PICK l \in Loop : Goto(i, l) /\ l.pc = "done" /\ l.cancelled = loops[i].cancelled
  BY <1>1, <1>2, EndsIs
<1>4. /\ TypeWorld' /\ TypeRunner' /\ TypeReqs' /\ TypeSpent' /\ TypeClients' /\ TypeSheets'
      /\ loops[i].pc \notin Has \cup {"attach", "wait", "marked", "watch", "lost"}
  BY <1>1, TypeKept DEF IInv, Has
<1>5. /\ l.pc \notin Has \cup {"attach", "wait", "none", "up", "marked", "watch"}
  BY <1>3 DEF Has
<1>6. CASE Mine(i)
  <2>1. Detach /\ sess.id = i /\ sess.id # 0
    BY <1>6, MineIs DEF Dismissed
  <2>2. WellHeld'
    BY <1>1, <1>3, <1>5, HeldOn
  <2> QED
    BY <1>1, <1>3, <1>4, <1>5, <2>1, <2>2, DetachOn
<1>7. CASE ~Mine(i)
  <2>1. UNCHANGED <<sess, detached>> /\ sess.id # i
    BY <1>7, MineIs DEF Dismissed
  <2>2. WellShown' /\ SheetsOwned' /\ ClientsOwned' /\ Honest' /\ TypeSess'
    BY <1>1, <1>3, <1>4, <2>1, ShownOn, SheetsOn, ClientsOn, HonestOn, TypeKept DEF IInv
  <2>3. UNCHANGED <<world, runner, detached, reqs, spent>> /\ sess'.id = sess.id
    BY <1>1, <2>1
  <2>4. /\ l.pc \notin {"attach", "wait"} /\ l.pc \notin {"up", "marked", "watch"} /\ l.pc # "none"
    BY <1>5
  <2> QED
    BY <1>3, <1>4, <2>2, <2>3, <2>4, LoopStepIs, Zenon
<1> QED
  BY <1>6, <1>7

\* A session is detached by Run, at the end of the program, by a request.
LEMMA DetachStep ==
  ASSUME IInv, TakeRemoved \/ StopAll \/ StopFound \/ \E r \in Requests : RequestDetach(r)
  PROVE  IInv'
<1>1. /\ UNCHANGED <<enabled, modem, loops, clients, sheets, spent>>
      /\ UNCHANGED <<sess, detached>> \/ (Detach /\ sess.id # 0)
  BY DEF TakeRemoved, StopAll, StopFound, RequestDetach, world
<1>2. TypeWorld'
  <2>1. events' \in Seq([added : BOOLEAN, path : Path])
    <3>1. CASE UNCHANGED events
      BY <3>1, WorldIs
    <3>2. CASE TakeRemoved
      BY <3>2, HeadIs DEF TakeRemoved
    <3> QED
      BY <3>1, <3>2 DEF StopAll, StopFound, RequestDetach, world
  <2> QED
    BY <1>1, <2>1, WorldIs DEF TypeWorld
<1>3. TypeRunner'
  <2>1. UNCHANGED runner \/ runner' \in {[runner EXCEPT !.pc = "closing", !.id = sess.id],
                                         [runner EXCEPT !.pc = "stopping", !.id = sess.id],
                                         [runner EXCEPT !.pc = "removed"],
                                         [runner EXCEPT !.pc = "ending"],
                                         [runner EXCEPT !.pc = "idle"],
                                         [runner EXCEPT !.pc = "returned"]}
    BY DEF TakeRemoved, StopAll, StopFound, RequestDetach
  <2>2. sess.id \in Ids \cup {0}
    BY SessIs
  <2> QED
    BY <2>1, <2>2, WorldIs, TypeKept DEF TypeRunner, Runner, IInv
<1>4. TypeReqs' /\ \A x \in Requests : reqs'[x].pc = "using" => reqs'[x].client # 0
  <2>1. CASE UNCHANGED reqs
    BY <2>1, RequestsKept
  <2>2. CASE ~UNCHANGED reqs
    <3>1. PICK r \in Requests : RequestDetach(r)
      BY <2>2 DEF TakeRemoved, StopAll, StopFound
    <3> DEFINE q == [reqs[r] EXCEPT !.pc = "start", !.id = sess.id]
    <3>2. q \in Request /\ q.pc = "start"
      BY SessIs DEF IInv, TypeOK, Request, RequestPCs
    <3>3. Set(r, q) \/ Set(r, NoRequest)
      BY <3>1 DEF RequestDetach
    <3> HIDE DEF q
    <3>4. CASE Set(r, q)
      BY <3>2, <3>4, RequestOn
    <3>5. CASE Set(r, NoRequest)
      BY <3>5, RequestOn, NoneTyped
    <3> QED
      BY <3>3, <3>4, <3>5
  <2> QED
    BY <2>1, <2>2
<1>5. TypeSpent' /\ TypeClients' /\ TypeSheets'
  BY <1>1, TypeKept DEF IInv
<1>6. CASE Detach /\ sess.id # 0
  BY <1>1, <1>2, <1>3, <1>4, <1>5, <1>6, DetachOutside
<1>7. CASE UNCHANGED <<sess, detached>>
  BY <1>1, <1>2, <1>3, <1>4, <1>5, <1>7, SessionsKept
<1> QED
  BY <1>1, <1>6, <1>7

\* WaitCallback has an answer, and the goroutine takes its sheet away.
LEMMA AnsweredStep ==
  ASSUME IInv, NEW i \in Ids, Answered(i)
  PROVE  IInv'
<1> DEFINE s == loops[i].sheet
           l == [loops[i] EXCEPT !.pc = AfterAnswer(sheets[s].said), !.tries = 0, !.sheet = 0]
           n == [Connecting EXCEPT !.sheet = 0]
<1>1. loops[i].pc = "wait" /\ UNCHANGED <<world, runner, detached, clients, reqs, spent>>
  BY DEF Answered
<1>2. s \in Sheet /\ s \in Sheet \cup {0}
  BY <1>1, LoopTyped DEF IInv, WellHeld
<1>3. sheets \in [Sheet -> SheetState]
  BY DEF IInv, TypeOK
<1>4. \/ sheets' = [sheets EXCEPT ![s].said = "none"] /\ UNCHANGED <<sess, loops>>
      \/ /\ sess' = (IF Mine(i) /\ sess.sheet = s THEN n ELSE sess)
         /\ sheets' = Deleted(s) /\ Goto(i, l)
  BY DEF Answered
<1>5. l \in Loop /\ l.pc \in {"dismissed", "connect"} /\ l.cancelled = loops[i].cancelled
  BY LoopTyped DEF Loop, LoopPCs, AfterAnswer
<1>6. s = loops[i].sheet
  OBVIOUS
<1> HIDE DEF s, l
<1>7. TypeClients' /\ TypeWorld' /\ TypeRunner' /\ TypeReqs' /\ TypeSpent'
  BY <1>1, TypeKept DEF IInv
<1>8. CASE sheets' = [sheets EXCEPT ![s].said = "none"] /\ UNCHANGED <<sess, loops>>
  <2>1. [sheets[s] EXCEPT !.said = "none"] \in SheetState /\ [sheets[s] EXCEPT !.said = "none"].in = sheets[s].in
    BY <1>2, <1>3, Zenon DEF SheetState, Callbacks
  <2>2. TypeSheets' /\ \A t \in Sheet : sheets'[t].in = sheets[t].in
    BY <1>2, <1>3, <1>8, <2>1 DEF TypeSheets
  <2>3. \A x \in Requests : reqs'[x].pc = "using" => reqs'[x].client # 0
    BY <1>1, RequestsKept
  <2> QED
    BY <1>1, <1>7, <1>8, <2>2, <2>3, SessionsKept
<1>9. CASE /\ sess' = (IF Mine(i) /\ sess.sheet = s THEN n ELSE sess)
           /\ sheets' = Deleted(s) /\ Goto(i, l)
  <2>1. /\ TypeSess' /\ sess'.id = sess.id
        /\ UNCHANGED sess \/ (sess'.sheet = 0 /\ sess'.phase = "connecting" /\ sess.sheet = s)
    <3>1. CASE Mine(i) /\ sess.sheet = s
      <4>1. sess.id # 0 /\ sess' = n
        BY <1>9, <3>1, MineIs, Zenon
      <4> QED
        BY <3>1, <4>1, SessionsTyped, SessTyped
    <3>2. CASE ~(Mine(i) /\ sess.sheet = s)
      BY <1>9, <3>2, TypeKept DEF IInv
    <3> QED
      BY <3>1, <3>2
  <2>2. sess'.sheet \in {sess.sheet, 0}
    BY <2>1
  <2>3. loops'[i] = l /\ \A j \in Ids \ {i} : loops'[j] = loops[j]
    BY <1>5, <1>9, LoopIs
  <2>4. WellShown'
    <3>1. CASE sess.id = i
      <4>1. Mine(i) /\ (sess.sheet # 0 => sess.sheet = s)
        BY <1>6, <3>1, MineIs DEF IInv, WellShown
      <4>2. sess'.sheet = 0
        BY <1>9, <2>1, <4>1
      <4> QED
        BY <4>2 DEF WellShown
    <3>2. CASE sess.id # i
      BY <1>5, <1>9, <2>1, <2>2, <3>2, ShownOn
    <3> QED
      BY <3>1, <3>2
  <2>5. TypeSheets' /\ \A t \in Sheet : sheets'[t].in = "live" => t # s /\ sheets[t].in = "live"
    BY <1>2, <1>9, DeletedIs
  <2>6. SheetsOwned'
    <3> SUFFICES ASSUME NEW t \in Sheet, sheets'[t].in = "live"
                 PROVE  \/ sess'.sheet = t
                        \/ \E j \in Ids : loops'[j].pc = "attach" /\ loops'[j].sheet = t
                        \/ \E j \in Ids : detached'[j].stage = "cancel" /\ detached'[j].sheet = t
      BY DEF SheetsOwned
    <3>1. t # s /\ sheets[t].in = "live"
      BY <2>5
    <3>2. CASE \E j \in Ids : loops[j].pc = "attach" /\ loops[j].sheet = t
      BY <1>1, <2>3, <3>2
    <3>3. CASE sess.sheet = t
      BY <2>1, <3>1, <3>3
    <3>4. SheetsOwned
      BY OrphansAre DEF IInv
    <3> QED
      BY <1>1, <3>1, <3>2, <3>3, <3>4 DEF SheetsOwned
  <2>7. ClientsOwned' /\ Honest'
    BY <1>1, <1>5, <1>9, <2>1, ClientsOn, HonestOn, HonestIs DEF Has
  <2>8. /\ loops[i].pc \in Going /\ l.pc # "none" /\ l.pc \notin {"attach", "wait"}
        /\ l.pc \notin {"up", "marked", "watch"}
    BY <1>1, <1>5 DEF Going
  <2> QED
    BY <1>1, <1>5, <1>7, <1>9, <2>1, <2>4, <2>5, <2>6, <2>7, <2>8, LoopStepIs, Zenon
<1> QED
  BY <1>4, <1>8, <1>9

\* closeDetachedSession, first part: the context is cancelled and the sheet deleted.
LEMMA CancelDetachedStep ==
  ASSUME IInv, NEW i \in Ids, CancelDetached(i)
  PROVE  IInv'
<1> DEFINE s == detached[i].sheet
           e == [detached[i] EXCEPT !.stage = "close"]
           l == [loops[i] EXCEPT !.cancelled = TRUE]
<1>1. /\ detached[i].stage = "cancel" /\ sheets' = Deleted(s)
      /\ detached' = [detached EXCEPT ![i] = e]
      /\ UNCHANGED <<world, runner, sess, clients, reqs, spent>>
  BY DEF CancelDetached
<1>2. detached \in [Ids -> Detached] /\ detached[i] \in Detached
  BY DEF IInv, TypeOK
<1>3. e \in Detached /\ e.stage = "close" /\ s \in Sheet \cup {0}
  BY <1>2 DEF Detached
<1>4. Goto(i, l)
  <2>1. loops[i].cancelled \/ Cancels(detached[i])
    BY DEF Cancels
  <2>2. Goto(i, [loops[i] EXCEPT !.cancelled = @ \/ Cancels(detached[i])])
    BY DEF CancelDetached
  <2> QED
    BY <2>2, Zenon DEF Cancels
<1>5. /\ l \in Loop /\ l.cancelled = TRUE /\ l.pc = loops[i].pc /\ l.sheet = loops[i].sheet
      /\ l.client = loops[i].client
  BY LoopTyped DEF Loop
<1>6. s = detached[i].sheet
  OBVIOUS
<1> HIDE DEF s, e, l
<1>7. TypeDetached' /\ detached'[i] = e /\ \A j \in Ids \ {i} : detached'[j] = detached[j]
  BY <1>1, <1>2, <1>3 DEF TypeDetached
<1>8. TypeLoops' /\ loops'[i] = l /\ \A j \in Ids \ {i} : loops'[j] = loops[j]
  BY <1>4, <1>5, LoopIs
<1>9. TypeSheets' /\ \A t \in Sheet : sheets'[t].in = "live" => t # s /\ sheets[t].in = "live"
  BY <1>1, <1>3, DeletedIs
<1>10. TypeOK'
  BY <1>1, <1>7, <1>8, <1>9, TypeKept, TypeNext DEF IInv
<1>11. sess.id # i /\ sess.id \in Ids \cup {0} /\ i # 0
  <2>1. i # 0 /\ sess.id \in Ids \cup {0}
    BY SessIs, IdsAre
  <2> QED
    BY <1>1, <2>1 DEF IInv, WellNamed
<1>12. WellNamed'
  BY <1>1, <1>5, <1>7, <1>8, <1>11 DEF IInv, WellNamed
<1>13. WellHeld'
  BY <1>1, <1>5, <1>8 DEF IInv, WellHeld
<1>14. WellShown' /\ Honest'
  <2>1. sess.sheet # 0 \/ sess.phase = "connected" => sess.id \in Ids
    BY SessIs
  <2> QED
    BY <1>1, <1>8, <1>11, <2>1 DEF IInv, WellShown, Honest
<1>15. Stoppable'
  BY <1>1, <1>5, <1>7, <1>8 DEF IInv, Stoppable, Live
<1>16. SheetsOwned'
  <2> SUFFICES ASSUME NEW t \in Sheet, sheets'[t].in = "live"
               PROVE  \/ sess'.sheet = t
                      \/ \E j \in Ids : loops'[j].pc = "attach" /\ loops'[j].sheet = t
                      \/ \E j \in Ids : detached'[j].stage = "cancel" /\ detached'[j].sheet = t
    BY DEF SheetsOwned
  <2>1. t # s /\ sheets[t].in = "live" /\ SheetsOwned
    BY <1>9, OrphansAre DEF IInv
  <2>2. CASE \E j \in Ids : loops[j].pc = "attach" /\ loops[j].sheet = t
    BY <1>5, <1>8, <2>2
  <2>3. CASE \E j \in Ids : detached[j].stage = "cancel" /\ detached[j].sheet = t
    BY <1>6, <1>7, <2>1, <2>3
  <2> QED
    BY <1>1, <2>1, <2>2, <2>3 DEF SheetsOwned
<1>17. ClientsOwned'
  <2>1. ClientsOwned
    BY OrphansAre DEF IInv
  <2> QED
    BY <1>1, <1>5, <1>8, <2>1 DEF ClientsOwned
<1>18. NoOrphans'
  BY <1>16, <1>17, OrphansAre, PTL
<1> QED
  BY <1>10, <1>12, <1>13, <1>14, <1>15, <1>18 DEF IInv

\* A client is closed, or was none.
LEMMA ClosedIs ==
  ASSUME IInv, NEW c \in Client \cup {0}, clients' = Closed(c)
  PROVE  TypeClients' /\ \A d \in Client : clients'[d] = "up" => clients[d] = "up"
<1>1. clients \in [Client -> {"new", "up", "down", "closed"}]
  BY DEF IInv, TypeOK
<1>2. CASE c = 0
  BY <1>1, <1>2 DEF Closed, TypeClients
<1>3. CASE c # 0
  <2>1. clients' = [clients EXCEPT ![c] = "closed"]
    BY <1>3 DEF Closed
  <2> QED
    BY <1>1, <2>1 DEF TypeClients
<1> QED
  BY <1>2, <1>3

\* closeDetachedSession, second part.
LEMMA CloseDetachedStep ==
  ASSUME IInv, NEW i \in Ids, CloseDetached(i)
  PROVE  IInv'
<1>1. /\ detached[i].stage = "close" /\ clients' = Closed(detached[i].client)
      /\ detached' = [detached EXCEPT ![i] = NotDetached]
      /\ UNCHANGED <<world, runner, sess, loops, sheets, reqs, spent>>
  BY DEF CloseDetached
<1>2. detached \in [Ids -> Detached] /\ detached[i].client \in Client \cup {0}
  BY DEF IInv, TypeOK, Detached
<1>3. NotDetached \in Detached /\ NotDetached.stage = "none"
  BY NoneTyped
<1>4. TypeDetached' /\ detached'[i] = NotDetached /\ \A j \in Ids \ {i} : detached'[j] = detached[j]
  BY <1>1, <1>2, <1>3 DEF TypeDetached
<1>5. TypeClients' /\ \A d \in Client : clients'[d] = "up" => clients[d] = "up"
  BY <1>1, <1>2, ClosedIs
<1>6. TypeOK'
  BY <1>1, <1>4, <1>5, TypeKept, TypeNext DEF IInv
<1>7. WellNamed'
  <2>1. sess.id \in Ids \cup {0}
    BY SessIs
  <2> QED
    BY <1>1, <1>3, <1>4, <2>1 DEF IInv, WellNamed
<1>8. WellHeld' /\ WellShown' /\ Honest'
  BY <1>1 DEF IInv, WellHeld, WellShown, Honest
<1>9. Stoppable'
  BY <1>1, <1>4 DEF IInv, Stoppable, Live
<1>10. SheetsOwned' /\ ClientsOwned'
  <2>1. SheetsOwned /\ ClientsOwned
    BY OrphansAre DEF IInv
  <2>2. SheetsOwned'
    BY <1>1, <1>4, <2>1 DEF SheetsOwned
  <2>3. ClientsOwned'
    BY <1>1, <1>5, <2>1 DEF ClientsOwned
  <2> QED
    BY <2>2, <2>3
<1>11. NoOrphans'
  BY <1>10, OrphansAre, PTL
<1> QED
  BY <1>6, <1>7, <1>8, <1>9, <1>11 DEF IInv

\* start: a session that nobody had before, if the modem has none.
LEMMA StartedOn ==
  ASSUME IInv, NEW profile \in Profiles, NEW path \in Path, Started(profile, path),
         UNCHANGED <<world, detached, clients, sheets, spent>>, TypeRunner', TypeReqs',
         \A r \in Requests : reqs'[r].pc = "using" => reqs'[r].client # 0
  PROVE  IInv'
<1>1. TypeWorld' /\ TypeSpent' /\ TypeClients' /\ TypeSheets' /\ TypeDetached'
  BY TypeKept DEF IInv
<1>2. CASE sess.id # 0
  <2>1. UNCHANGED <<sess, loops>>
    BY <1>2 DEF Started
  <2> QED
    BY <1>1, <2>1, SessionsKept
<1>3. CASE sess.id = 0
  <2> DEFINE I == {j \in Ids : loops[j].pc = "none"}
  <2>1. PICK i \in I : /\ sess' = [NoSession EXCEPT !.id = i, !.phase = "connecting",
                                                    !.profile = profile, !.path = path]
                       /\ Goto(i, [NoLoop EXCEPT !.pc = "connect"])
    BY <1>3, Zenon DEF Started, NewSession
  <2> DEFINE n == [NoSession EXCEPT !.id = i, !.phase = "connecting", !.profile = profile, !.path = path]
             l == [NoLoop EXCEPT !.pc = "connect"]
  <2>2. i \in Ids /\ loops[i].pc = "none" /\ i # 0
    BY IdsAre
  <2>3. n \in Session /\ n.id = i /\ n.phase = "connecting" /\ n.sheet = 0
    BY <2>2, NoneTyped DEF Session, Phases
  <2>4. l \in Loop /\ l.pc = "connect" /\ l.cancelled = FALSE
    BY NoneTyped DEF Loop, LoopPCs
  <2>5. sess' = n /\ Goto(i, l)
    BY <2>1
  <2> HIDE DEF n, l, I
  <2>6. TypeLoops' /\ loops'[i] = l /\ \A j \in Ids \ {i} : loops'[j] = loops[j]
    BY <2>2, <2>4, <2>5, LoopIs
  <2>7. TypeSess'
    BY <2>2, <2>3, <2>5 DEF TypeSess
  <2>8. TypeOK'
    BY <1>1, <2>6, <2>7, TypeNext
  <2>9. detached[i].stage = "none" /\ sess.sheet = 0
    BY <1>3, <2>2, SessIs DEF IInv, WellNamed
  <2>10. WellNamed'
    BY <2>3, <2>4, <2>5, <2>6, <2>9 DEF IInv, WellNamed
  <2>11. WellHeld'
    BY <2>4, <2>6 DEF IInv, WellHeld
  <2>12. WellShown' /\ Honest'
    BY <2>3, <2>5 DEF WellShown, Honest
  <2>13. Stoppable'
    <3> SUFFICES ASSUME NEW j \in Ids, Live(j)', ~loops'[j].cancelled, loops'[j].pc # "dismissed"
                 PROVE  sess'.id = j \/ detached'[j].stage = "cancel"
      BY DEF Stoppable
    <3>1. CASE j = i
      BY <2>3, <2>5, <3>1
    <3>2. CASE j # i
      <4>1. sess.id # j
        BY <1>3, IdsAre
      <4> QED
        BY <2>6, <3>2, <4>1 DEF IInv, Stoppable, Live
    <3> QED
      BY <3>1, <3>2
  <2>14. SheetsOwned' /\ ClientsOwned'
    <3>1. SheetsOwned /\ ClientsOwned /\ 0 \notin Sheet
      BY OrphansAre, IdsAre DEF IInv
    <3>2. SheetsOwned'
      BY <2>2, <2>6, <2>9, <3>1 DEF SheetsOwned
    <3>3. ClientsOwned'
      BY <2>2, <2>6, <3>1 DEF ClientsOwned, Has
    <3> QED
      BY <3>2, <3>3
  <2>15. NoOrphans'
    BY <2>14, OrphansAre, PTL
  <2> QED
    BY <2>8, <2>10, <2>11, <2>12, <2>13, <2>15 DEF IInv
<1> QED
  BY <1>2, <1>3

LEMMA StartStep ==
  ASSUME IInv, RunnerStart \/ \E r \in Requests : RequestStart(r)
  PROVE  IInv'
<1>1. CASE RunnerStart
  <2>1. /\ Started(runner.profile, runner.path)
        /\ UNCHANGED <<world, detached, clients, sheets, reqs, spent>>
        /\ runner' \in {[runner EXCEPT !.pc = "idle"], [runner EXCEPT !.pc = "started"]}
    BY <1>1 DEF RunnerStart
  <2>2. TypeRunner'
    BY <2>1, WorldIs DEF TypeRunner, Runner
  <2>3. TypeReqs' /\ \A x \in Requests : reqs'[x].pc = "using" => reqs'[x].client # 0
    BY <2>1, RequestsKept
  <2> QED
    BY <2>1, <2>2, <2>3, WorldIs, StartedOn
<1>2. CASE \E r \in Requests : RequestStart(r)
  <2>1. PICK r \in Requests : RequestStart(r)
    BY <1>2
  <2>2. /\ Started(reqs[r].profile, reqs[r].path) /\ Set(r, NoRequest)
        /\ UNCHANGED <<world, runner, detached, clients, sheets, spent>>
    BY <2>1 DEF RequestStart
  <2>3. reqs[r].profile \in Profiles /\ reqs[r].path \in Path
    BY DEF IInv, TypeOK, Request
  <2>4. TypeRunner'
    BY <2>2, TypeKept DEF IInv
  <2>5. TypeReqs' /\ \A x \in Requests : reqs'[x].pc = "using" => reqs'[x].client # 0
    BY <2>2, NoneTyped, RequestOn
  <2> QED
    BY <2>2, <2>3, <2>4, <2>5, StartedOn
<1> QED
  BY <1>1, <1>2

\* handleClientDisconnected: only the client the session still has counts, and
\* its goroutine is asked, not told.
LEMMA EndUseStep ==
  ASSUME IInv, NEW r \in Requests, EndUse(r)
  PROVE  IInv'
<1>1. /\ reqs[r].pc = "using" /\ Set(r, NoRequest)
      /\ UNCHANGED <<world, runner, detached, clients, sheets, spent>>
  BY DEF EndUse
<1>2. TypeReqs' /\ \A x \in Requests : reqs'[x].pc = "using" => reqs'[x].client # 0
  BY <1>1, NoneTyped, RequestOn
<1>3. TypeWorld' /\ TypeRunner' /\ TypeDetached' /\ TypeClients' /\ TypeSheets' /\ TypeSpent'
  BY <1>1, TypeKept DEF IInv
<1>4. CASE UNCHANGED <<sess, loops>>
  BY <1>1, <1>2, <1>3, <1>4, SessionsKept
<1>5. CASE ~UNCHANGED <<sess, loops>>
  <2> DEFINE i == sess.id
             l == [loops[i] EXCEPT !.reconnect = TRUE]
  <2>1. sess.client = reqs[r].client /\ sess' = Disconnected /\ Goto(i, l)
    BY <1>5 DEF EndUse, SameClient
  <2>2. i \in Ids /\ sess.id # 0
    BY <1>1, <2>1, SessIs DEF IInv, WellHeld
  <2>3. /\ l \in Loop /\ l.pc = loops[i].pc /\ l.cancelled = loops[i].cancelled
        /\ l.sheet = loops[i].sheet /\ l.client = loops[i].client
    BY <2>2, LoopTyped DEF Loop
  <2>4. sess'.id = sess.id /\ sess'.sheet = sess.sheet /\ sess'.phase # "connected" /\ TypeSess'
    BY <2>1, <2>2, SessionsTyped, SessTyped
  <2> HIDE DEF i, l
  <2>5. TypeLoops' /\ loops'[i] = l /\ \A j \in Ids \ {i} : loops'[j] = loops[j]
    BY <2>1, <2>2, <2>3, LoopIs
  <2>6. TypeOK'
    BY <1>2, <1>3, <2>4, <2>5, TypeNext
  <2>7. \A j \in Ids : /\ loops'[j].pc = loops[j].pc /\ loops'[j].cancelled = loops[j].cancelled
                       /\ loops'[j].sheet = loops[j].sheet /\ loops'[j].client = loops[j].client
    BY <2>3, <2>5
  <2> QED
    BY <1>1, <1>2, <2>4, <2>6, <2>7, SameOn
<1> QED
  BY <1>4, <1>5

\* The modem leaves or comes back.
LEMMA ModemMoves ==
  ASSUME IInv, Unplug \/ Plug
  PROVE  IInv'
<1> DEFINE Event == [added : BOOLEAN, path : Path]
<1>1. /\ UNCHANGED <<enabled, runner, sess, detached, loops, clients, sheets, reqs>>
      /\ spent' = [spent EXCEPT !.moves = @ + 1]
  BY DEF Unplug, Plug
<1>2. PICK e \in Event : events' = Append(events, e) /\ TypeWorld'
  <2>1. PICK e \in Event : events' = Append(events, e)
    <3>1. CASE Unplug
      <4>1. [added |-> FALSE, path |-> modem.path] \in Event
        BY WorldIs, Zenon
      <4> QED
        BY <3>1, <4>1, Zenon DEF Unplug
    <3>2. CASE Plug
      <4>1. spent.moves < MaxMoves /\ spent.moves \in Nat /\ MaxMoves \in Nat
        BY <3>2, WifiAssumption, WorldIs DEF Plug
      <4>2. spent.moves + 1 \in Path
        BY <4>1, SMT DEF Path
      <4>3. [added |-> TRUE, path |-> spent.moves + 1] \in Event
        BY <4>2, Zenon
      <4> QED
        BY <3>2, <4>3, Zenon DEF Plug
    <3> QED
      BY <3>1, <3>2
  <2>2. modem' \in [path : Path, profile : Profiles]
    <3>1. CASE Unplug
      <4>1. 0 \in Path
        BY WifiAssumption, SMT DEF Path
      <4> QED
        BY <3>1, <4>1, WorldIs DEF Unplug
    <3>2. CASE Plug
      <4>1. spent.moves < MaxMoves /\ spent.moves \in Nat /\ MaxMoves \in Nat
        BY <3>2, WifiAssumption, WorldIs DEF Plug
      <4>2. spent.moves + 1 \in Path
        BY <4>1, SMT DEF Path
      <4>3. PICK p \in Profiles : modem' = [path |-> spent.moves + 1, profile |-> p]
        BY <3>2 DEF Plug
      <4> QED
        BY <4>2, <4>3, Zenon
    <3> QED
      BY <3>1, <3>2
  <2>3. events' \in Seq(Event)
    <3>1. events \in Seq(Event)
      BY WorldIs
    <3> HIDE DEF Event
    <3> QED
      BY <2>1, <3>1
  <2>4. TypeWorld'
    BY <1>1, <2>2, <2>3, WorldIs DEF TypeWorld
  <2> QED
    BY <2>1, <2>4
<1>3. TypeSpent'
  BY <1>1, WorldIs DEF TypeSpent
<1>4. TypeRunner' /\ TypeReqs' /\ TypeClients' /\ TypeSheets'
  BY <1>1, TypeKept DEF IInv
<1>5. \A x \in Requests : reqs'[x].pc = "using" => reqs'[x].client # 0
  BY <1>1, RequestsKept
<1> QED
  BY <1>1, <1>2, <1>3, <1>4, <1>5, SessionsKept

\* The network and the user: a tunnel is lost, a sheet is answered or forgotten.
LEMMA OutsideStep ==
  ASSUME IInv, (\E c \in Client : TunnelLost(c)) \/ (\E s \in Sheet : Report(s) \/ Expire(s))
  PROVE  IInv'
<1>1. UNCHANGED <<world, runner, sess, detached, loops, reqs>>
  BY DEF TunnelLost, Report, Expire
<1>2. TypeWorld' /\ TypeRunner' /\ TypeReqs'
  BY <1>1, TypeKept DEF IInv
<1>3. \A x \in Requests : reqs'[x].pc = "using" => reqs'[x].client # 0
  BY <1>1, RequestsKept
<1>4. CASE \E c \in Client : TunnelLost(c)
  <2>1. PICK c \in Client : /\ clients[c] = "up" /\ clients' = [clients EXCEPT ![c] = "down"]
                            /\ Failed(1) /\ UNCHANGED sheets
    BY <1>4 DEF TunnelLost
  <2>2. clients \in [Client -> {"new", "up", "down", "closed"}]
    BY DEF IInv, TypeOK
  <2>3. TypeClients' /\ \A d \in Client : clients'[d] = "up" => clients[d] = "up"
    BY <2>1, <2>2 DEF TypeClients
  <2>4. TypeSpent' /\ TypeSheets'
    BY <2>1, FaultTyped, TypeKept DEF IInv
  <2> QED
    BY <1>1, <1>2, <1>3, <2>1, <2>3, <2>4, SessionsKept
<1>5. CASE \E s \in Sheet : Report(s) \/ Expire(s)
  <2>1. PICK s \in Sheet : Report(s) \/ Expire(s)
    BY <1>5
  <2>2. sheets \in [Sheet -> SheetState] /\ sheets[s] \in SheetState
    BY DEF IInv, TypeOK
  <2>3. PICK x \in SheetState : sheets' = [sheets EXCEPT ![s] = x] /\ sheets[s].in = "live"
    <3>1. CASE Report(s)
      <4>1. PICK said \in Callbacks : sheets' = [sheets EXCEPT ![s].said = said]
        BY <3>1, Zenon DEF Report
      <4>2. [sheets[s] EXCEPT !.said = said] \in SheetState
        BY <2>2, Zenon DEF SheetState
      <4> QED
        BY <3>1, <4>1, <4>2, Zenon DEF Report
    <3>2. CASE Expire(s)
      <4>1. sheets' = [sheets EXCEPT ![s].in = "expired"]
        BY <3>2 DEF Expire
      <4>2. [sheets[s] EXCEPT !.in = "expired"] \in SheetState
        BY <2>2, Zenon DEF SheetState
      <4> QED
        BY <3>2, <4>1, <4>2, Zenon DEF Expire
    <3> QED
      BY <2>1, <3>1, <3>2
  <2>4. TypeSheets' /\ \A t \in Sheet : sheets'[t].in = "live" => sheets[t].in = "live"
    BY <2>2, <2>3 DEF TypeSheets
  <2>5. UNCHANGED <<clients, spent>>
    BY <2>1 DEF Report, Expire
  <2>6. TypeClients' /\ TypeSpent'
    BY <2>5, TypeKept DEF IInv
  <2> QED
    BY <1>1, <1>2, <1>3, <2>4, <2>5, <2>6, SessionsKept
<1> QED
  BY <1>4, <1>5

-----------------------------------------------------------------------------
(* The invariant. *)

LEMMA InitEstablishes == ASSUME Init PROVE IInv
<1>1. TypeOK
  <2>1. TypeWorld
    <3>1. modem \in [path : {0, MaxMoves + 1}, profile : Profiles]
      BY DEF Init
    <3>2. 0 \in Path /\ MaxMoves + 1 \in Path
      BY WifiAssumption, SMT DEF Path
    <3>3. modem \in [path : Path, profile : Profiles]
      BY <3>1, <3>2
    <3>4. events \in Seq([added : BOOLEAN, path : Path]) /\ enabled \in [Profiles -> BOOLEAN]
      BY DEF Init
    <3> QED
      BY <3>3, <3>4 DEF TypeWorld
  <2>2. TypeRunner
    <3>1. SomeProfile \in Profiles /\ 0 \in Path
      BY WifiAssumption, SMT DEF SomeProfile, Path
    <3>2. runner = [pc |-> "list", heard |-> FALSE, profile |-> SomeProfile, path |-> 0, id |-> 0]
      BY DEF Init
    <3> QED
      BY <3>1, <3>2, Zenon DEF TypeRunner, Runner
  <2>3. TypeSess /\ TypeDetached /\ TypeLoops /\ TypeReqs
    BY NoneTyped DEF Init, TypeSess, TypeDetached, TypeLoops, TypeReqs
  <2>4. TypeClients /\ TypeSheets /\ TypeSpent
    <3>1. [in |-> "new", said |-> "none"] \in SheetState
      BY DEF SheetState, Callbacks
    <3> QED
      BY <3>1 DEF Init, TypeClients, TypeSheets, TypeSpent
  <2> QED
    BY <2>1, <2>2, <2>3, <2>4, TypeIs
<1>2. /\ sess = NoSession /\ \A i \in Ids : detached[i] = NotDetached /\ loops[i] = NoLoop
      /\ \A r \in Requests : reqs[r] = NoRequest
      /\ \A c \in Client : clients[c] = "new"
      /\ \A s \in Sheet : sheets[s].in = "new"
  BY DEF Init
<1>3. NoLoop.pc = "none"
  BY DEF NoLoop
<1>4. WellNamed /\ WellHeld /\ WellShown
  BY <1>2, <1>3, NoneTyped DEF WellNamed, WellHeld, WellShown
<1>5. Stoppable /\ NoOrphans /\ Honest
  BY <1>2, <1>3, NoneTyped DEF Stoppable, Live, NoOrphans, Honest
<1> QED
  BY <1>1, <1>4, <1>5 DEF IInv

LEMMA StutterKeeps == ASSUME IInv, UNCHANGED vars PROVE IInv'
<1>1. UNCHANGED <<world, runner, sess, detached, loops, clients, sheets, reqs, spent>>
  BY DEF vars
<1>2. TypeWorld' /\ TypeRunner' /\ TypeReqs' /\ TypeSpent' /\ TypeClients' /\ TypeSheets'
  BY <1>1, TypeKept DEF IInv
<1>3. \A x \in Requests : reqs'[x].pc = "using" => reqs'[x].client # 0
  BY <1>1, RequestsKept
<1> QED
  BY <1>1, <1>2, <1>3, SessionsKept

LEMMA StepKeeps == ASSUME IInv, [Next]_vars PROVE IInv'
<1>1. CASE \E i \in Ids : LoopStep(i)
  <2>1. PICK i \in Ids : LoopStep(i)
    BY <1>1
  <2> QED
    BY <2>1, CancelledStep, ConnectsStep, FailsRetriesWatches, NeedsUserStep, NoSheetStep, AttachStep,
       AnsweredStep, DismissedStep, MarkConnectedStep, WatchEnds, LostStep DEF LoopStep
<1>2. CASE \E i \in Ids : CancelDetached(i) \/ CloseDetached(i)
  BY <1>2, CancelDetachedStep, CloseDetachedStep
<1>3. CASE RunnerStep \/ StopAll
  BY <1>3, RunnerQuiet, StartStep, DetachStep DEF RunnerStep
<1>4. CASE \E r \in Requests : Begin(r) \/ RequestStep(r)
  BY <1>4, BeginStep, PutStep, DetachStep, StartStep, EndUseStep DEF RequestStep
<1>5. CASE Unplug \/ Plug
  BY <1>5, ModemMoves
<1>6. CASE (\E c \in Client : TunnelLost(c)) \/ (\E s \in Sheet : Report(s) \/ Expire(s))
  BY <1>6, OutsideStep
<1>7. CASE UNCHANGED vars
  BY <1>7, StutterKeeps
<1> QED
  BY <1>1, <1>2, <1>3, <1>4, <1>5, <1>6, <1>7 DEF Next

\* The inductive invariant of the sessions of a modem: identifiers are not used
\* twice, a session in the map has a goroutine that nobody has cancelled, and it
\* shows a websheet only while that goroutine waits for it (connect.go).
THEOREM Invariance == Spec => []IInv
<1>1. Init => IInv
  BY InitEstablishes
<1>2. IInv /\ [Next]_vars => IInv'
  BY StepKeeps
<1> QED
  BY <1>1, <1>2, PTL DEF Spec

\* Every variable keeps its type, for any number of sessions, clients, websheets
\* and requests: in particular no identifier runs out of its range.
THEOREM TypeCorrect == Spec => []TypeOK
<1>1. IInv => TypeOK
  BY DEF IInv
<1> QED
  BY <1>1, Invariance, PTL

\* Every goroutine that nobody has told to stop can still be told: whatever the
\* restarts, registry events and dismissed sheets in between, its session is in
\* the map or about to be cancelled (detachSession, start in connect.go).
THEOREM AllStoppable == Spec => []Stoppable
<1>1. IInv => Stoppable
  BY DEF IInv
<1> QED
  BY <1>1, Invariance, PTL

\* No websheet that the broker still serves and no client that still has its
\* tunnel is left without the session or the goroutine that removes it
\* (attachWebsheet, clearWebsheet, deleteSessionWebsheet, watchClient). Of a
\* client that has lost its tunnel nothing is claimed: watchClient may return
\* without closing it.
THEOREM NothingLeftBehind == Spec => []NoOrphans
<1>1. IInv => NoOrphans
  BY DEF IInv
<1> QED
  BY <1>1, Invariance, PTL

\* A session that is shown as connected has the client its own goroutine
\* watches, however late the goroutines of replaced sessions and the answers
\* about replaced clients come (markConnected, markDisconnected,
\* handleClientDisconnected).
THEOREM ShownHonestly == Spec => []Honest
<1>1. IInv => Honest
  BY DEF IInv
<1> QED
  BY <1>1, Invariance, PTL

=============================================================================
