----------------------------- MODULE Calls_proof -----------------------------
(***************************************************************************)
(* Calls and their media. First the records of Wi-Fi calls: WifiCalls for  *)
(* any calls, requests, sessions and faults. A record that has ended stays *)
(* so and the time of an answer is kept, and a record that has not ended   *)
(* is backed by somebody who will end it, as long as its saves do not      *)
(* fail. Then the bridges of calls and browsers, any number of them: in    *)
(* CallMedia no codec outlives its factory, and when Media has closed, or  *)
(* has forgotten a bridge, nothing of the bridge goes on.                  *)
(***************************************************************************)
EXTENDS WifiCalls, CallMedia, WellFoundedInduction, TLAPS

Made    == [st : States, ans : BOOLEAN]
MadePub == [call : Calls, info : Made]

\* Places of a request in which it has read or asked for a call.
Knows == {"read", "look", "await", "store", "act", "again", "publish", "save"}

\* What a request holds at each place, with the calls of the network as they are.
AskedOn(q, calls) ==
  /\ q.tag <= MaxRequests
  /\ q.pc \in Knows => q.call \in Calls
  /\ q.pc = "await" => calls[q.call] # "none"
  /\ q.pc = "read" => q.row \in Made
  /\ q.pc \in {"store", "act", "again", "publish", "save"} => q.info \in Made

WellAsked(q) == AskedOn(q, net)

\* Whatever is going to be written is a whole record, of a call there is.
WellMade ==
  /\ \A c \in Calls : net[c] = "none" => events[c] = <<>> /\ c \notin incoming
  /\ \A c \in Calls : table[c].has => table[c].info # None
  /\ publishing \in MadePub \cup {Quiet} /\ closing \subseteq MadePub
  /\ \A r \in Requests : WellAsked(reqs[r])

\* A request that is going to write its call, as one that is over or as one that goes on.
Closes(q)  == q.pc \in {"again", "publish", "save"} /\ IsTerminal(q.info)
Carries(q) == q.pc \in {"act", "again", "publish", "save"} /\ IsLive(q.info)

\* Somebody is about to write that the call is over.
Ending(c) ==
  \/ \E p \in closing \cup {publishing} : p.call = c /\ IsTerminal(p.info)
  \/ \E r \in Requests : reqs[r].call = c /\ Closes(reqs[r])

\* A record that says that the call goes on would not stand for good.
Covered(c) ==
  c \in excused \/ IsTerminal(rows[c]) \/ IsLive(table[c].info) \/ Ending(c)

\* So it is with the records, and with all that is going to be written.
WellCovered ==
  /\ \A c \in Calls : IsLive(rows[c]) => Covered(c)
  /\ \A p \in closing \cup {publishing} : IsLive(p.info) => Covered(p.call)
  /\ \A r \in Requests : Carries(reqs[r]) => Covered(reqs[r].call)

Typed == TypeOK /\ WellMade
IInv  == Typed /\ WellCovered

-----------------------------------------------------------------------------
(* Calls and records. *)

LEMMA InfoIs == Info = {None} \cup Made /\ None \notin Made
BY DEF Info, Made, None, States, Terminal

LEMMA MadeIs ==
  ASSUME NEW i \in Made
  PROVE  i.st \in States /\ i.ans \in BOOLEAN /\ i = [st |-> i.st, ans |-> i.ans]
BY DEF Made

LEMMA NoneIs == None.st = "none" /\ None.ans = FALSE /\ ~IsLive(None) /\ ~IsTerminal(None)
BY DEF None, IsLive, IsTerminal, Terminal

LEMMA LiveOrOver ==
  ASSUME NEW i \in Made
  PROVE  (IsLive(i) \/ IsTerminal(i)) /\ ~(IsLive(i) /\ IsTerminal(i))
BY DEF Made, IsLive, IsTerminal, States, Terminal

\* advanceVoiceCall takes a call on or leaves it as it is.
LEMMA AdvancedIs ==
  ASSUME NEW i \in Info, NEW st \in States, NEW a \in BOOLEAN
  PROVE  /\ Advanced(i, st, a) \in Info
         /\ i \in Made => Advanced(i, st, a) \in Made
         /\ IsLive(i) => Advanced(i, st, a) \in Made /\ Advanced(i, st, a).st = st
         /\ IsLive(i) /\ st \in Terminal => IsTerminal(Advanced(i, st, a))
         /\ ~IsLive(i) => Advanced(i, st, a) = i
<1>1. CASE IsLive(i)
  <2>1. i \in Made /\ i.ans \in BOOLEAN
    BY <1>1, InfoIs, NoneIs, MadeIs
  <2>2. (i.ans \/ a \/ st = "active") \in BOOLEAN
    OBVIOUS
  <2>3. Advanced(i, st, a) = [st |-> st, ans |-> i.ans \/ a \/ st = "active"]
    BY <1>1 DEF Advanced
  <2> DEFINE b == i.ans \/ a \/ st = "active"
  <2> HIDE DEF b
  <2>4. [st |-> st, ans |-> b] \in Made /\ [st |-> st, ans |-> b].st = st
    BY <2>2 DEF Made, b
  <2>5. Advanced(i, st, a) = [st |-> st, ans |-> b]
    BY <2>3 DEF b
  <2> QED
    BY <1>1, <2>4, <2>5, InfoIs DEF IsTerminal
<1>2. CASE ~IsLive(i)
  BY <1>2 DEF Advanced
<1> QED
  BY <1>1, <1>2

\* What the record is after a save, of the old one and what is saved.
After(old, new) == IF Overwrites(old, new) THEN Saved(old, new) ELSE old

LEMMA SavedIs ==
  ASSUME NEW old \in Info, NEW new \in Made
  PROVE  /\ Saved(old, new) \in Made /\ Saved(old, new).st = new.st
         /\ old.ans => Saved(old, new).ans
<1> DEFINE b == new.ans \/ (old # None /\ old.ans)
<1>1. b \in BOOLEAN
  OBVIOUS
<1>2. Saved(old, new) = [new EXCEPT !.ans = b]
  BY DEF Saved
<1>3. old.ans => b
  BY NoneIs
<1> HIDE DEF b
<1>4. [new EXCEPT !.ans = b] \in Made /\ [new EXCEPT !.ans = b].st = new.st /\ [new EXCEPT !.ans = b].ans = b
  BY <1>1 DEF Made
<1> QED
  BY <1>2, <1>3, <1>4

LEMMA AfterIs ==
  ASSUME NEW old \in Info, NEW new \in Made
  PROVE  /\ After(old, new) \in Made
         /\ IsTerminal(old) => IsTerminal(After(old, new))
         /\ IsTerminal(new) => IsTerminal(After(old, new))
         /\ IsLive(After(old, new)) => IsLive(new)
         /\ old.ans => After(old, new).ans
<1>1. Saved(old, new) \in Made /\ Saved(old, new).st = new.st /\ (old.ans => Saved(old, new).ans)
  BY SavedIs
<1>2. CASE Overwrites(old, new)
  BY <1>1, <1>2 DEF After, Overwrites, IsTerminal, IsLive
<1>3. CASE ~Overwrites(old, new)
  <2>1. old \in Made
    BY <1>3, InfoIs, NoneIs DEF Overwrites
  <2> QED
    BY <1>3, <2>1, LiveOrOver DEF After, Overwrites
<1> QED
  BY <1>2, <1>3

LEMMA BoundsAre == MaxSessions \in Nat /\ MaxRequests \in Nat /\ MaxFaults \in Nat
BY CallsAssumption

\* A fault is counted.
LEMMA FaultType ==
  ASSUME TypeOK, Fault, MayFail
  PROVE  spent' \in [sessions : 0..MaxSessions, requests : 0..MaxRequests, faults : 0..MaxFaults]
<1>1. spent.faults + 1 \in 0..MaxFaults
  BY BoundsAre, SMT DEF TypeOK, MayFail
<1> QED
  BY <1>1 DEF Fault, TypeOK

\* A save of a record that is whole, or one that fails.
LEMMA SaveOrIs ==
  ASSUME TypeOK, NEW c \in Calls, NEW new \in Made, SaveOr(c, new)
  PROVE  /\ \/ rows' = [rows EXCEPT ![c] = After(rows[c], new)] /\ UNCHANGED <<excused, spent>>
            \/ UNCHANGED rows /\ excused' = excused \cup {c} /\ Fault /\ MayFail
         /\ rows' \in [Calls -> Info] /\ excused' \in SUBSET Calls
         /\ spent' \in [sessions : 0..MaxSessions, requests : 0..MaxRequests, faults : 0..MaxFaults]
<1>1. rows[c] \in Info
  BY DEF TypeOK
<1>2. After(rows[c], new) \in Info
  BY <1>1, AfterIs, InfoIs
<1> QED
  BY <1>2, FaultType, ZenonT(60) DEF SaveOr, Save, After, TypeOK

\* What no step does to a record that is there.
RowsKept ==
  /\ \A c \in Calls : IsTerminal(rows[c]) => (rows'[c] = None /\ c \in excused') \/ IsTerminal(rows'[c])
  /\ \A c \in Calls : rows[c].ans => rows'[c] = None \/ rows'[c].ans
  /\ excused \subseteq excused'

LEMMA SaveOrKeeps ==
  ASSUME TypeOK, NEW c \in Calls, NEW new \in Made, SaveOr(c, new)
  PROVE  /\ RowsKept
         /\ IsTerminal(new) => c \in excused' \/ IsTerminal(rows'[c])
         /\ \A d \in Calls : IsLive(rows'[d]) => IsLive(rows[d]) \/ (d = c /\ IsLive(new))
<1>1. \A d \in Calls : rows[d] \in Info
  BY DEF TypeOK
<1>2. CASE UNCHANGED rows /\ excused' = excused \cup {c}
  BY <1>2 DEF RowsKept
<1>3. CASE rows' = [rows EXCEPT ![c] = After(rows[c], new)] /\ UNCHANGED excused
  <2>1. rows'[c] = After(rows[c], new) /\ \A d \in Calls \ {c} : rows'[d] = rows[d]
    BY <1>3 DEF TypeOK
  <2> QED
    BY <1>1, <1>3, <2>1, AfterIs DEF RowsKept
<1> QED
  BY <1>2, <1>3, SaveOrIs

-----------------------------------------------------------------------------
(* Types, one part of the state at a time. *)

LiveOK ==
  /\ net \in [Calls -> {"none", "dialing", "ringing", "active", "ended"}]
  /\ incoming \in SUBSET Calls
  /\ events \in [Calls -> Seq({"ringing", "active", "ended"})]
  /\ \A c \in Calls : net[c] = "none" => events[c] = <<>> /\ c \notin incoming

SessionOK ==
  /\ session \in [id : 0..MaxSessions, connected : BOOLEAN, lost : BOOLEAN,
                   token : BOOLEAN, dial : 0..MaxRequests]
  /\ session.id = 0 => session = Nobody

TableOK ==
  /\ table \in [Calls -> Entry]
  /\ \A c \in Calls : table[c].has => table[c].info # None
  /\ session.id = 0 => \A c \in Calls : table[c] = NoEntry

EventsOK == publishing \in MadePub \cup {Quiet} /\ closing \in SUBSET MadePub
StoredOK == rows \in [Calls -> Info] /\ excused \in SUBSET Calls
SpentOK  == spent \in [sessions : 0..MaxSessions, requests : 0..MaxRequests, faults : 0..MaxFaults]
ReqsOK   == reqs \in [Requests -> Request] /\ \A r \in Requests : WellAsked(reqs[r])

LEMMA TypedIs ==
  Typed <=> LiveOK /\ SessionOK /\ TableOK /\ EventsOK /\ StoredOK /\ SpentOK /\ ReqsOK
<1>1. MadePub \subseteq Pub
  BY InfoIs DEF MadePub, Pub
<1> QED
  BY <1>1 DEF Typed, TypeOK, WellMade, LiveOK, SessionOK, TableOK, EventsOK, StoredOK, SpentOK, ReqsOK

LEMMA TypedAfter ==
  LiveOK' /\ SessionOK' /\ TableOK' /\ EventsOK' /\ StoredOK' /\ SpentOK' /\ ReqsOK' => Typed'
BY TypedIs, PTL

\* What a step that leaves a part alone keeps of it.
NetGrows == \A c \in Calls : net[c] # "none" => net'[c] # "none"

LEMMA LiveKept == ASSUME LiveOK, UNCHANGED live PROVE LiveOK' /\ NetGrows
BY DEF LiveOK, NetGrows, live

LEMMA SessionKept == ASSUME SessionOK, UNCHANGED session PROVE SessionOK'
BY DEF SessionOK

LEMMA TableKept == ASSUME TableOK, UNCHANGED table, session'.id = 0 => session.id = 0 PROVE TableOK'
BY DEF TableOK

LEMMA EventsKept == ASSUME EventsOK, UNCHANGED <<publishing, closing>> PROVE EventsOK'
BY DEF EventsOK

LEMMA StoredKept == ASSUME StoredOK, UNCHANGED stored PROVE StoredOK'
BY DEF StoredOK, stored

LEMMA SpentKept == ASSUME SpentOK, UNCHANGED spent PROVE SpentOK'
BY DEF SpentOK

LEMMA ReqsKept == ASSUME ReqsOK, UNCHANGED reqs, NetGrows PROVE ReqsOK'
BY DEF ReqsOK, WellAsked, AskedOn, Knows, NetGrows

\* A request goes on to a place where it is well asked.
LEMMA SetType ==
  ASSUME ReqsOK, NetGrows, NEW r \in Requests, NEW q \in Request, Set(r, q), AskedOn(q, net')
  PROVE  ReqsOK'
<1>1. reqs' \in [Requests -> Request] /\ reqs'[r] = q /\ \A s \in Requests \ {r} : reqs'[s] = reqs[s]
  BY DEF ReqsOK, Set
<1>2. ASSUME NEW s \in Requests PROVE WellAsked(reqs[s])'
  <2>1. CASE s = r
    BY <1>1, <2>1 DEF WellAsked, AskedOn
  <2>2. CASE s # r
    <3>1. reqs'[s] = reqs[s] /\ WellAsked(reqs[s])
      BY <1>1, <2>2 DEF ReqsOK
    <3> QED
      BY <3>1 DEF WellAsked, AskedOn, Knows, NetGrows
  <2> QED
    BY <2>1, <2>2
<1> QED
  BY <1>1, <1>2 DEF ReqsOK

LEMMA NoRequestType == NoRequest \in Request /\ AskedOn(NoRequest, net')
<1>1. NoRequest \in Request
  BY SMT DEF NoRequest, Request, Kinds, None, Info
<1> QED
  BY <1>1, BoundsAre, SMT DEF NoRequest, WellAsked, AskedOn, Knows

LEMMA DoneType ==
  ASSUME ReqsOK, NetGrows, NEW r \in Requests, Done(r)
  PROVE  ReqsOK'
BY NoRequestType, SetType DEF Done

\* Something happens to a call of the network.
LEMMA EmitType ==
  ASSUME LiveOK, NEW c \in Calls, NEW n \in {"dialing", "ringing", "active", "ended"},
         NEW st \in {"ringing", "active", "ended"},
         net' = [net EXCEPT ![c] = n], events' = Emit(c, st), UNCHANGED incoming
  PROVE  LiveOK' /\ NetGrows
<1>1. Append(events[c], st) \in Seq({"ringing", "active", "ended"})
  BY SMT DEF LiveOK
<1> QED
  BY <1>1 DEF LiveOK, NetGrows, Emit

LEMMA CutType ==
  ASSUME LiveOK, Cut
  PROVE  LiveOK' /\ NetGrows
<1>1. <<>> \in Seq({"ringing", "active", "ended"})
  BY SMT
<1> QED
  BY <1>1 DEF LiveOK, Cut, Hung, NetGrows

LEMMA NoEntryType == NoEntry \in Entry /\ NoEntry.has = FALSE /\ NoEntry.info = None
BY DEF NoEntry, Entry, Info

LEMMA EntryIs ==
  ASSUME TableOK, NEW c \in Calls
  PROVE  table[c].info \in Info /\ table[c].has \in BOOLEAN /\ (table[c].has => table[c].info \in Made)
BY InfoIs DEF TableOK, Entry

\* updateVoiceCallWithPointerLocked.
LEMMA UpdateType ==
  ASSUME TableOK, NEW c \in Calls, NEW info \in Made, NEW has \in BOOLEAN, Update(c, info, has),
         UNCHANGED session
  PROVE  TableOK'
<1> DEFINE e == [info |-> info, has |-> table[c].has \/ has]
<1>1. e \in Entry /\ e.info # None
  BY InfoIs DEF Entry
<1>2. table' = IF session.id = 0 THEN table ELSE [table EXCEPT ![c] = e]
  BY DEF Update
<1> HIDE DEF e
<1> QED
  BY <1>1, <1>2 DEF TableOK

\* The events of a session that is cut off, and its calls after it.
LEMMA DisconnectedType ==
  ASSUME TableOK
  PROVE  /\ Disconnected(table) \subseteq MadePub
         /\ FailedTable(table) \in [Calls -> Entry]
         /\ \A c \in Calls : FailedTable(table)[c].info = Advanced(table[c].info, "failed", FALSE)
                             /\ FailedTable(table)[c].has = table[c].has
         /\ \A p \in Disconnected(table) : IsTerminal(p.info)
         /\ \A c \in Calls : IsLive(table[c].info) => \E p \in Disconnected(table) : p.call = c
<1> DEFINE adv(c) == Advanced(table[c].info, "failed", FALSE)
<1>1. \A c \in Calls : /\ adv(c) \in Info
                       /\ IsLive(table[c].info) => adv(c) \in Made /\ IsTerminal(adv(c))
  BY EntryIs, AdvancedIs DEF States, Terminal
<1>2. Disconnected(table) = {[call |-> c, info |-> adv(c)] : c \in {d \in Calls : IsLive(table[d].info)}}
  BY DEF Disconnected
<1>3. FailedTable(table) = [c \in Calls |-> [table[c] EXCEPT !.info = adv(c)]]
  BY DEF FailedTable
<1> HIDE DEF adv
<1>4. \A c \in Calls : LET e == [table[c] EXCEPT !.info = adv(c)] IN
                       e \in Entry /\ e.info = adv(c) /\ e.has = table[c].has
  BY <1>1 DEF TableOK, Entry
<1>5. FailedTable(table) \in [Calls -> Entry]
  BY <1>3, <1>4
<1>6. Disconnected(table) \subseteq MadePub
  BY <1>1, <1>2 DEF MadePub
<1>7. \A p \in Disconnected(table) : IsTerminal(p.info)
  BY <1>1, <1>2
<1>8. \A c \in Calls : IsLive(table[c].info) => \E p \in Disconnected(table) : p.call = c
  <2> SUFFICES ASSUME NEW c \in Calls, IsLive(table[c].info)
               PROVE  \E p \in Disconnected(table) : p.call = c
    OBVIOUS
  <2>1. [call |-> c, info |-> adv(c)] \in Disconnected(table)
    BY <1>2
  <2> QED
    BY <2>1
<1>9. \A c \in Calls : FailedTable(table)[c].info = adv(c) /\ FailedTable(table)[c].has = table[c].has
  BY <1>3, <1>4
<1> QED
  BY <1>5, <1>6, <1>7, <1>8, <1>9 DEF adv

LEMMA FailedTableType ==
  ASSUME TableOK, SessionOK, table' = FailedTable(table), session'.id = 0 => session.id = 0
  PROVE  TableOK'
<1>1. \A c \in Calls : FailedTable(table)[c].has => FailedTable(table)[c].info # None
  <2> SUFFICES ASSUME NEW c \in Calls, FailedTable(table)[c].has
               PROVE  FailedTable(table)[c].info # None
    OBVIOUS
  <2>1. table[c].info \in Made /\ FailedTable(table)[c].info = Advanced(table[c].info, "failed", FALSE)
    BY DisconnectedType, EntryIs
  <2>2. "failed" \in States /\ FALSE \in BOOLEAN
    BY DEF States, Terminal
  <2>3. Advanced(table[c].info, "failed", FALSE) \in Made
    <3>1. table[c].info \in Info
      BY <2>1, InfoIs
    <3> QED
      BY <2>1, <2>2, <3>1, AdvancedIs
  <2> QED
    BY <2>1, <2>3, InfoIs
<1>2. session.id = 0 => FailedTable(table) = table
  <2> SUFFICES ASSUME session.id = 0 PROVE FailedTable(table) = table
    OBVIOUS
  <2>1. \A c \in Calls : [table[c] EXCEPT !.info = Advanced(@, "failed", FALSE)] = table[c]
    BY NoEntryType, NoneIs DEF TableOK, Advanced, NoEntry
  <2> QED
    BY <2>1 DEF FailedTable, TableOK
<1> QED
  BY <1>1, <1>2, DisconnectedType DEF TableOK

LEMMA FirstIs ==
  ASSUME NEW S, S \subseteq Calls, S # {}
  PROVE  First(S) \in S
<1> DEFINE Less == {p \in Nat \X Nat : p[1] < p[2]}
<1>1. IsWellFoundedOn(Less, Nat)
  BY NatLessThanWellFounded, Zenon DEF OpToRel
<1>2. S \subseteq Nat
  BY CallsAssumption
<1>3. PICK c \in S : \A d \in S : <<d, c>> \notin Less
  <2> HIDE DEF Less
  <2> QED
    BY <1>1, <1>2, WFMin
<1>4. \A d \in S : c <= d
  <2> SUFFICES ASSUME NEW d \in S PROVE c <= d
    OBVIOUS
  <2>1. c \in Nat /\ d \in Nat /\ <<d, c>> \notin Less
    BY <1>2, <1>3
  <2> QED
    BY <2>1
<1> QED
  BY <1>3, <1>4 DEF First

LEMMA RingTyped ==
  ASSUME Typed, Ring
  PROVE  Typed'
<1> DEFINE c == First(Fresh)
<1>1. c \in Calls
  BY FirstIs DEF Ring, Fresh
<1> HIDE DEF c
<1>2. /\ net' = [net EXCEPT ![c] = "ringing"] /\ incoming' = incoming \cup {c}
      /\ UNCHANGED <<events, session, table, publishing, closing, stored, reqs, spent>>
  BY DEF Ring, books, c
<1>3. LiveOK' /\ NetGrows
  BY <1>1, <1>2, TypedIs DEF LiveOK, NetGrows
<1> QED
  BY <1>2, <1>3, TypedIs, TypedAfter, SessionKept, TableKept, EventsKept, StoredKept, SpentKept, ReqsKept

LEMMA NetworkTyped ==
  ASSUME Typed, NEW c \in Calls, Answered(c) \/ Ends(c)
  PROVE  Typed'
<1>1. LiveOK' /\ NetGrows
  BY TypedIs, EmitType DEF Answered, Ends
<1>2. UNCHANGED <<session, table, publishing, closing, stored, reqs, spent>>
  BY DEF Answered, Ends, books
<1> QED
  BY <1>1, <1>2, TypedIs, TypedAfter, SessionKept, TableKept, EventsKept, StoredKept, SpentKept, ReqsKept

LEMMA StartTyped ==
  ASSUME Typed, Start
  PROVE  Typed' /\ UNCHANGED table
<1> DEFINE n == spent.sessions + 1
<1>1. n \in 0..MaxSessions /\ n # 0
  BY TypedIs, BoundsAre, SMT DEF SpentOK, Start
<1> HIDE DEF n
<1>2. spent' = [spent EXCEPT !.sessions = n] /\ session' = [Nobody EXCEPT !.id = n, !.connected = TRUE]
  BY DEF Start, n
<1>3. SpentOK'
  BY <1>1, <1>2, TypedIs DEF SpentOK
<1>4. 0 \in 0..MaxRequests
  BY BoundsAre, SMT
<1>5. session'.id = n
  BY <1>2 DEF Nobody
<1>6. SessionOK'
  <2>1. session' \in [id : 0..MaxSessions, connected : BOOLEAN, lost : BOOLEAN,
                   token : BOOLEAN, dial : 0..MaxRequests]
    BY <1>1, <1>2, <1>4 DEF Nobody
  <2> QED
    BY <1>1, <1>5, <2>1 DEF SessionOK
<1>7. table' = table
  BY TypedIs DEF TableOK, Start
<1>8. TableOK'
  BY <1>7, TypedIs, TableKept DEF Start
<1>9. LiveOK' /\ NetGrows /\ EventsOK' /\ StoredOK' /\ ReqsOK'
  BY TypedIs, LiveKept, EventsKept, StoredKept, ReqsKept DEF Start
<1> QED
  BY <1>3, <1>6, <1>7, <1>8, <1>9, TypedAfter

LEMMA ReconnectTyped ==
  ASSUME Typed, Reconnect
  PROVE  Typed'
<1>1. SessionOK' /\ session'.id # 0
  <2>1. session \in [id : 0..MaxSessions, connected : BOOLEAN, lost : BOOLEAN,
                   token : BOOLEAN, dial : 0..MaxRequests]
        /\ session.id # 0 /\ session' = [session EXCEPT !.connected = TRUE]
    BY TypedIs DEF SessionOK, Reconnect
  <2> QED
    BY <2>1 DEF SessionOK
<1>2. LiveOK' /\ NetGrows /\ EventsOK' /\ StoredOK' /\ ReqsOK' /\ SpentOK' /\ TableOK'
  BY <1>1, TypedIs, LiveKept, EventsKept, StoredKept, ReqsKept, SpentKept, TableKept DEF Reconnect
<1> QED
  BY <1>1, <1>2, TypedAfter

LEMMA ConnectedIs ==
  ASSUME Typed, Takes
  PROVE  session.id # 0
BY TypedIs DEF SessionOK, Takes, Nobody

LEMMA LoseTyped ==
  ASSUME Typed, Lose \/ GiveUp
  PROVE  Typed'
<1>1. session.id # 0
  BY ConnectedIs DEF Lose, GiveUp, Takes
<1>2. SessionOK' /\ session'.id # 0
  <2>1. session \in [id : 0..MaxSessions, connected : BOOLEAN, lost : BOOLEAN,
                   token : BOOLEAN, dial : 0..MaxRequests]
        /\ session' \in {[session EXCEPT !.connected = FALSE], [session EXCEPT !.connected = FALSE, !.lost = TRUE, !.token = TRUE]}
    BY TypedIs DEF SessionOK, Lose, GiveUp
  <2> QED
    BY <1>1, <2>1 DEF SessionOK
<1>3. LiveOK' /\ NetGrows
  BY TypedIs, LiveKept, CutType DEF Lose, GiveUp
<1>4. TableOK'
  BY <1>1, <1>2, TypedIs, FailedTableType DEF Lose, GiveUp
<1>5. EventsOK'
  BY TypedIs, DisconnectedType DEF Lose, GiveUp, EventsOK
<1>6. SpentOK'
  BY FaultType DEF Lose, GiveUp, Typed, SpentOK
<1> QED
  BY <1>2, <1>3, <1>4, <1>5, <1>6, TypedIs, TypedAfter, StoredKept, ReqsKept DEF Lose, GiveUp

LEMMA HearsOfItTyped ==
  ASSUME Typed, HearsOfIt \/ TakeToken
  PROVE  Typed'
<1>1. session.id # 0
  BY ConnectedIs DEF HearsOfIt, TakeToken, Takes
<1>2. SessionOK' /\ session'.id # 0
  <2>1. session \in [id : 0..MaxSessions, connected : BOOLEAN, lost : BOOLEAN,
                   token : BOOLEAN, dial : 0..MaxRequests]
        /\ \/ \E left \in BOOLEAN : session' = [session EXCEPT !.lost = FALSE, !.token = left]
           \/ session' = [session EXCEPT !.connected = FALSE, !.token = FALSE]
    BY TypedIs DEF SessionOK, HearsOfIt, TakeToken
  <2> QED
    BY <1>1, <2>1 DEF SessionOK
<1>3. LiveOK' /\ NetGrows
  BY TypedIs, CutType DEF HearsOfIt, TakeToken
<1> QED
  BY <1>2, <1>3, TypedIs, TypedAfter, TableKept, EventsKept, StoredKept, SpentKept, ReqsKept
   DEF HearsOfIt, TakeToken

LEMMA NobodyType ==
  session' = Nobody => SessionOK'
<1>1. 0 \in 0..MaxSessions /\ 0 \in 0..MaxRequests
  BY BoundsAre, SMT
<1> QED
  BY <1>1 DEF SessionOK, Nobody

LEMMA NoTableType ==
  table' = [c \in Calls |-> NoEntry] => TableOK'
BY NoEntryType DEF TableOK

LEMMA DetachTyped ==
  ASSUME Typed, Detach
  PROVE  Typed'
<1>1. SessionOK' /\ TableOK'
  BY NobodyType, NoTableType DEF Detach
<1>2. LiveOK' /\ NetGrows
  BY TypedIs, CutType DEF Detach
<1>3. EventsOK'
  BY TypedIs, DisconnectedType DEF Detach, EventsOK
<1> QED
  BY <1>1, <1>2, <1>3, TypedIs, TypedAfter, StoredKept, SpentKept, ReqsKept DEF Detach

LEMMA CrashTyped ==
  ASSUME Typed, Crash
  PROVE  Typed'
<1>1. SessionOK' /\ TableOK'
  BY NobodyType, NoTableType DEF Crash
<1>2. LiveOK'
  BY TypedIs, CutType DEF Crash
<1>3. EventsOK' /\ StoredOK'
  BY TypedIs DEF Crash, EventsOK, StoredOK
<1>4. SpentOK'
  BY FaultType DEF Crash, Typed, SpentOK
<1>5. ReqsOK'
  <2>1. reqs' = [r \in Requests |-> NoRequest]
    BY DEF Crash
  <2>2. \A r \in Requests : WellAsked(reqs[r])'
    BY <2>1, NoRequestType DEF WellAsked, AskedOn
  <2> QED
    BY <2>1, <2>2, NoRequestType DEF ReqsOK
<1> QED
  BY <1>1, <1>2, <1>3, <1>4, <1>5, TypedAfter

LEMMA SeenType ==
  ASSUME LiveOK, NEW c \in Calls, net[c] # "none"
  PROVE  Seen(c) \in {"ringing", "active", "ended"} /\ Seen(c) \in States
BY DEF LiveOK, Seen, States, Terminal

LEMMA TakeIncomingTyped ==
  ASSUME Typed, NEW c \in Calls, TakeIncoming(c)
  PROVE  /\ Typed'
         /\ \E info \in Made : /\ table'[c].info = info
                               /\ publishing' = [call |-> c, info |-> info]
         /\ \A d \in Calls \ {c} : table'[d] = table[d]
<1> DEFINE info == [st |-> Seen(c), ans |-> table[c].info.ans]
<1>1. info \in Made
  <2>1. Seen(c) \in States
    BY TypedIs, SeenType DEF TakeIncoming, LiveOK
  <2>2. table[c].info.ans \in BOOLEAN
    BY TypedIs, EntryIs, InfoIs, MadeIs, NoneIs
  <2> QED
    BY <2>1, <2>2 DEF Made
<1>2. /\ Update(c, info, TRUE) /\ publishing' = [call |-> c, info |-> info]
      /\ incoming' = incoming \ {c} /\ UNCHANGED <<net, events, session, closing, stored, reqs, spent>>
  BY DEF TakeIncoming
<1> HIDE DEF info
<1>3. TableOK' /\ SessionOK'
  BY <1>1, <1>2, TypedIs, UpdateType, SessionKept
<1>4. LiveOK' /\ NetGrows
  BY <1>2, TypedIs DEF LiveOK, NetGrows
<1>5. EventsOK'
  BY <1>1, <1>2, TypedIs DEF EventsOK, MadePub
<1>6. Typed'
  BY <1>2, <1>3, <1>4, <1>5, TypedIs, TypedAfter, StoredKept, SpentKept, ReqsKept
<1>7. session.id # 0
  BY ConnectedIs DEF TakeIncoming
<1>8. table' = [table EXCEPT ![c] = [info |-> info, has |-> @.has \/ TRUE]]
  BY <1>2, <1>7 DEF Update
<1>9. table'[c].info = info /\ \A d \in Calls \ {c} : table'[d] = table[d]
  BY <1>8, TypedIs DEF TableOK
<1> QED
  BY <1>1, <1>2, <1>6, <1>9

LEMMA TakeEventTyped ==
  ASSUME Typed, NEW c \in Calls, TakeEvent(c)
  PROVE  /\ Typed'
         /\ \A d \in Calls \ {c} : table'[d] = table[d]
         /\ publishing = Quiet
         /\ \/ publishing' = Quiet /\ (IsLive(table[c].info) <=> IsLive(table'[c].info))
            \/ /\ publishing' \in MadePub /\ publishing'.call = c
               /\ publishing'.info = table'[c].info
<1> DEFINE known == table[c] # NoEntry
           from  == IF known THEN table[c].info ELSE [st |-> "ringing", ans |-> FALSE]
           info  == Advanced(from, Head(events[c]), FALSE)
<1>1. from \in Info /\ Head(events[c]) \in States /\ FALSE \in BOOLEAN
  <2>1. Head(events[c]) \in {"ringing", "active", "ended"}
    BY TypedIs, SMT DEF LiveOK, TakeEvent
  <2> QED
    BY <2>1, TypedIs, EntryIs DEF States, Terminal, Info
<1>2. info \in Info /\ (IsLive(from) => info \in Made) /\ (~IsLive(from) => info = from)
      /\ (from \in Made => info \in Made)
  <2> HIDE DEF from
  <2> QED
    BY <1>1, AdvancedIs
<1>3. ~known => from \in Made /\ IsLive(from)
  BY DEF Made, States, Terminal, IsLive
<1>4. known => from = table[c].info
  OBVIOUS
<1>5. /\ events' = [events EXCEPT ![c] = Tail(@)]
      /\ \/ /\ \E has \in BOOLEAN : Update(c, info, has)
            /\ publishing' = IF IsLive(from) THEN [call |-> c, info |-> info] ELSE Quiet
         \/ UNCHANGED <<table, publishing>>
      /\ publishing = Quiet /\ events[c] # <<>>
      /\ UNCHANGED <<net, incoming, session, closing, stored, reqs, spent>>
  BY DEF TakeEvent
<1> HIDE DEF from, info
<1>6. LiveOK' /\ NetGrows
  <2>1. Tail(events[c]) \in Seq({"ringing", "active", "ended"}) /\ net[c] # "none"
    BY <1>5, TypedIs, SMT DEF LiveOK
  <2> QED
    BY <1>5, <2>1, TypedIs DEF LiveOK, NetGrows
<1>7. session.id # 0
  BY ConnectedIs DEF TakeEvent
<1>8. CASE UNCHANGED <<table, publishing>>
  BY <1>5, <1>6, <1>8, TypedIs, TypedAfter, SessionKept, TableKept, EventsKept, StoredKept, SpentKept, ReqsKept
<1>9. ASSUME NEW has \in BOOLEAN, Update(c, info, has),
             publishing' = IF IsLive(from) THEN [call |-> c, info |-> info] ELSE Quiet
      PROVE  /\ TableOK' /\ EventsOK'
             /\ \A d \in Calls \ {c} : table'[d] = table[d]
             /\ \/ publishing' = Quiet /\ (IsLive(table[c].info) <=> IsLive(table'[c].info))
                \/ /\ publishing' \in MadePub /\ publishing'.call = c
                   /\ publishing'.info = table'[c].info
  <2>1. table' = [table EXCEPT ![c] = [info |-> info, has |-> @.has \/ has]]
    BY <1>7, <1>9 DEF Update
  <2>2. table'[c].info = info /\ \A d \in Calls \ {c} : table'[d] = table[d]
    BY <2>1, TypedIs DEF TableOK
  <2>3. CASE IsLive(from)
    <3>1. info \in Made
      BY <1>2, <2>3
    <3>2. TableOK'
      BY <1>5, <1>9, <3>1, TypedIs, UpdateType
    <3>3. publishing' = [call |-> c, info |-> info]
      BY <1>9, <2>3
    <3> QED
      BY <1>5, <2>2, <3>1, <3>2, <3>3, TypedIs DEF EventsOK, MadePub
  <2>4. CASE ~IsLive(from)
    <3>1. known /\ info = table[c].info /\ publishing' = Quiet
      BY <1>2, <1>3, <1>4, <1>9, <2>4
    <3>2. TableOK'
      <4>1. CASE info \in Made
        BY <1>5, <1>9, <4>1, TypedIs, UpdateType
      <4>2. CASE info \notin Made
        <5>1. info = None /\ table[c].info = None
          BY <1>2, <3>1, <4>2, InfoIs
        <5> DEFINE e == [info |-> info, has |-> table[c].has \/ has]
        <5>2. ~table[c].has
          BY <5>1, TypedIs DEF TableOK
        <5>3. table[c] = NoEntry
          <6>1. table[c] \in Entry
            BY TypedIs DEF TableOK
          <6> QED
            BY <5>1, <5>2, <6>1 DEF Entry, NoEntry
        <5> QED
          BY <3>1, <5>3
      <4> QED
        BY <4>1, <4>2
    <3> QED
      BY <1>5, <2>2, <3>1, <3>2, TypedIs DEF EventsOK
  <2> QED
    BY <2>3, <2>4
<1> QED
  BY <1>5, <1>6, <1>8, <1>9, TypedIs, TypedAfter, SessionKept, StoredKept, SpentKept, ReqsKept

LEMMA PublishTyped ==
  ASSUME Typed, Publish
  PROVE  Typed' /\ publishing \in MadePub /\ SaveOr(publishing.call, publishing.info)
<1>1. publishing \in MadePub /\ publishing.call \in Calls /\ publishing.info \in Made
  BY TypedIs DEF EventsOK, Publish, MadePub
<1>2. StoredOK' /\ SpentOK'
  BY <1>1, SaveOrIs DEF Publish, Typed, StoredOK, SpentOK
<1>3. EventsOK'
  BY TypedIs DEF Publish, EventsOK
<1> QED
  BY <1>1, <1>2, <1>3, TypedIs, TypedAfter, LiveKept, SessionKept, TableKept, ReqsKept DEF Publish

LEMMA PublishClosingTyped ==
  ASSUME Typed, NEW p, PublishClosing(p)
  PROVE  Typed' /\ p \in MadePub
<1>1. p \in MadePub /\ p.call \in Calls /\ p.info \in Made
  BY TypedIs DEF EventsOK, PublishClosing, MadePub
<1>2. StoredOK' /\ SpentOK'
  BY <1>1, SaveOrIs DEF PublishClosing, Typed, StoredOK, SpentOK
<1>3. EventsOK'
  BY TypedIs DEF PublishClosing, EventsOK
<1> QED
  BY <1>1, <1>2, <1>3, TypedIs, TypedAfter, LiveKept, SessionKept, TableKept, ReqsKept DEF PublishClosing

\* A request that keeps its tag and its call goes on with some info.
LEMMA GoesType ==
  ASSUME ReqsOK, NetGrows, NEW r \in Requests, reqs[r].call \in Calls,
         NEW pc \in {"act", "store", "again", "publish", "save"}, NEW info \in Made,
         Set(r, [reqs[r] EXCEPT !.pc = pc, !.info = info])
  PROVE  ReqsOK' /\ reqs'[r].pc = pc /\ reqs'[r].info = info /\ reqs'[r].call = reqs[r].call
<1> DEFINE q == [reqs[r] EXCEPT !.pc = pc, !.info = info]
<1>1. reqs[r] \in Request /\ reqs[r].tag <= MaxRequests /\ info \in Info
  BY InfoIs DEF ReqsOK, WellAsked, AskedOn
<1>2. q \in Request /\ q.pc = pc /\ q.info = info /\ q.call = reqs[r].call /\ q.tag = reqs[r].tag
  BY <1>1 DEF Request
<1>3. reqs'[r] = q
  BY DEF Set, ReqsOK
<1> HIDE DEF q
<1>4. AskedOn(q, net')
  BY <1>1, <1>2 DEF WellAsked, AskedOn
<1> QED
  BY <1>2, <1>3, <1>4, SetType DEF q

\* Or to a place where it does not need one.
LEMMA PlaceType ==
  ASSUME ReqsOK, NetGrows, NEW r \in Requests,
         NEW pc \in {"pend", "invite", "look", "end"}, pc = "look" => reqs[r].call \in Calls,
         Set(r, [reqs[r] EXCEPT !.pc = pc])
  PROVE  ReqsOK' /\ reqs'[r].pc = pc
<1> DEFINE q == [reqs[r] EXCEPT !.pc = pc]
<1>1. reqs[r] \in Request /\ reqs[r].tag <= MaxRequests
  BY DEF ReqsOK, WellAsked, AskedOn
<1>2. q \in Request /\ q.pc = pc /\ q.call = reqs[r].call /\ q.tag = reqs[r].tag
  BY <1>1 DEF Request
<1>3. reqs'[r] = q
  BY DEF Set, ReqsOK
<1> HIDE DEF q
<1>4. AskedOn(q, net')
  BY <1>1, <1>2 DEF WellAsked, AskedOn, Knows
<1> QED
  BY <1>2, <1>3, <1>4, SetType DEF q

LEMMA BeginTyped ==
  ASSUME Typed, NEW r \in Requests, Begin(r)
  PROVE  Typed'
<1> DEFINE n == spent.requests + 1
<1>1. n \in 0..MaxRequests /\ n \in Nat /\ n <= MaxRequests
  <2>1. spent.requests \in 0..MaxRequests /\ spent.requests < MaxRequests
    BY TypedIs DEF SpentOK, Begin
  <2> QED
    BY <2>1, BoundsAre, SMT
<1> HIDE DEF n
<1>2. SpentOK'
  <2>1. spent' = [spent EXCEPT !.requests = n]
    BY DEF Begin, n
  <2> QED
    BY <1>1, <2>1, TypedIs DEF SpentOK
<1>3. NetGrows
  BY DEF Begin, live, NetGrows
<1>4. ReqsOK'
  <2>1. CASE Set(r, [NoRequest EXCEPT !.pc = "pend", !.tag = n])
    <3> DEFINE q == [NoRequest EXCEPT !.pc = "pend", !.tag = n]
    <3>1. q \in Request /\ q.pc = "pend" /\ q.tag = n
      BY <1>1, NoRequestType DEF NoRequest, Request
    <3> HIDE DEF q
    <3>2. AskedOn(q, net')
      BY <1>1, <3>1 DEF WellAsked, AskedOn, Knows
    <3> QED
      BY <1>3, <2>1, <3>1, <3>2, TypedIs, SetType DEF q
  <2>2. ASSUME NEW kind \in Kinds \ {"dial"}, NEW c \in Calls, rows[c] # None,
               Set(r, [NoRequest EXCEPT !.pc = "read", !.kind = kind, !.call = c, !.row = rows[c]])
        PROVE  ReqsOK'
    <3> DEFINE q == [NoRequest EXCEPT !.pc = "read", !.kind = kind, !.call = c, !.row = rows[c]]
    <3>1. rows[c] \in Info /\ rows[c] \in Made
      BY <2>2, TypedIs, InfoIs DEF StoredOK
    <3>2. q \in Request /\ q.pc = "read" /\ q.tag = 0 /\ q.call = c /\ q.row = rows[c]
      BY <3>1, NoRequestType DEF NoRequest, Request
    <3>3. 0 <= MaxRequests
      BY BoundsAre, SMT
    <3> HIDE DEF q
    <3>4. AskedOn(q, net')
      BY <3>1, <3>2, <3>3 DEF WellAsked, AskedOn
    <3> QED
      BY <1>3, <2>2, <3>2, <3>4, TypedIs, SetType DEF q
  <2> QED
    BY <2>1, <2>2 DEF Begin, n
<1> QED
  BY <1>2, <1>4, TypedIs, TypedAfter, LiveKept, SessionKept, TableKept, EventsKept, StoredKept DEF Begin, books

LEMMA PendTyped ==
  ASSUME Typed, NEW r \in Requests, Pend(r)
  PROVE  Typed' /\ reqs'[r].pc = "invite"
<1>1. SessionOK' /\ session'.id = session.id
  <2>1. reqs[r].tag \in 0..MaxRequests
    BY TypedIs, BoundsAre, SMT DEF ReqsOK, WellAsked, AskedOn, Request
  <2>2. session' = IF session.id = 0 THEN session ELSE [session EXCEPT !.dial = reqs[r].tag]
    BY DEF Pend
  <2> QED
    BY <2>1, <2>2, TypedIs DEF SessionOK
<1>2. LiveOK' /\ NetGrows
  BY TypedIs, LiveKept DEF Pend
<1>3. ReqsOK' /\ reqs'[r].pc = "invite"
  BY <1>2, TypedIs, PlaceType DEF Pend
<1> QED
  BY <1>1, <1>2, <1>3, TypedIs, TypedAfter, TableKept, EventsKept, StoredKept, SpentKept DEF Pend

LEMMA InviteTyped ==
  ASSUME Typed, NEW r \in Requests, Invite(r)
  PROVE  Typed' /\ reqs'[r].pc \in {"await", "end"}
<1>1. CASE Set(r, [reqs[r] EXCEPT !.pc = "end"]) /\ UNCHANGED <<net, events>>
  <2>1. LiveOK' /\ NetGrows
    BY <1>1, TypedIs, LiveKept DEF Invite, live
  <2>2. ReqsOK' /\ reqs'[r].pc = "end"
    BY <1>1, <2>1, TypedIs, PlaceType
  <2> QED
    BY <2>1, <2>2, TypedIs, TypedAfter, SessionKept, TableKept, EventsKept, StoredKept, SpentKept
       DEF Invite, books
<1>2. CASE /\ Fresh # {}
           /\ LET c == First(Fresh)
              IN  /\ net' = [net EXCEPT ![c] = "dialing"]
                  /\ events' = Emit(c, "ringing")
                  /\ Set(r, [reqs[r] EXCEPT !.pc = "await", !.call = c])
  <2> DEFINE c == First(Fresh)
             q == [reqs[r] EXCEPT !.pc = "await", !.call = c]
  <2>1. c \in Calls
    BY <1>2, FirstIs DEF Fresh
  <2>2. net' = [net EXCEPT ![c] = "dialing"] /\ events' = Emit(c, "ringing") /\ Set(r, q)
        /\ UNCHANGED <<incoming, session, table, publishing, closing, stored, spent>>
    BY <1>2 DEF Invite, books
  <2> HIDE DEF c
  <2>3. LiveOK' /\ NetGrows
    BY <2>1, <2>2, TypedIs, EmitType
  <2>4. /\ q \in Request /\ q.pc = "await" /\ q.call = c /\ q.tag = reqs[r].tag
        /\ reqs[r].tag <= MaxRequests /\ reqs'[r] = q
    BY <2>1, <2>2, TypedIs DEF ReqsOK, WellAsked, AskedOn, Request, Set
  <2>5. net'[c] # "none"
    BY <2>1, <2>2, TypedIs DEF LiveOK
  <2> HIDE DEF q
  <2>6. AskedOn(q, net')
    BY <2>1, <2>4, <2>5 DEF WellAsked, AskedOn
  <2>7. ReqsOK'
    BY <2>2, <2>3, <2>4, <2>6, TypedIs, SetType
  <2> QED
    BY <2>2, <2>3, <2>4, <2>7, TypedIs, TypedAfter, SessionKept, TableKept, EventsKept, StoredKept, SpentKept
<1> QED
  BY <1>1, <1>2 DEF Invite

\* Only the request that takes the step changes.
LEMMA SetIs ==
  ASSUME ReqsOK, NEW r \in Requests, NEW q, Set(r, q)
  PROVE  reqs'[r] = q /\ \A s \in Requests \ {r} : reqs'[s] = reqs[s]
BY DEF ReqsOK, Set

\* What a request in one of these places has.
LEMMA AsksFor ==
  ASSUME ReqsOK, NEW r \in Requests
  PROVE  /\ reqs[r] \in Request
         /\ reqs[r].pc \in Knows => reqs[r].call \in Calls
         /\ reqs[r].pc = "await" => net[reqs[r].call] # "none"
         /\ reqs[r].pc = "read" => reqs[r].row \in Made
         /\ reqs[r].pc \in {"store", "act", "again", "publish", "save"} => reqs[r].info \in Made
BY DEF ReqsOK, WellAsked, AskedOn

LEMMA MadeWith ==
  ASSUME NEW i \in Made, NEW a \in BOOLEAN
  PROVE  [i EXCEPT !.ans = a] \in Made /\ [i EXCEPT !.ans = a].st = i.st
BY DEF Made

LEMMA MadeOver ==
  ASSUME NEW i \in Made
  PROVE  [i EXCEPT !.st = "ended"] \in Made /\ IsTerminal([i EXCEPT !.st = "ended"])
         /\ [i EXCEPT !.st = "ended"].ans = i.ans
BY DEF Made, States, Terminal, IsTerminal

LEMMA DialedTyped ==
  ASSUME Typed, NEW r \in Requests, Dialed(r)
  PROVE  /\ Typed'
         /\ \A d \in Calls \ {reqs[r].call} : table'[d] = table[d]
         /\ \/ reqs'[r].pc \in {"store", "end"} /\ UNCHANGED table
            \/ /\ reqs'[r].pc = "save" /\ reqs'[r].call = reqs[r].call
               /\ IsTerminal(reqs'[r].info)
<1> DEFINE c == reqs[r].call
           over == Advanced(table[c].info, "failed", FALSE)
           first == [st |-> Seen(c), ans |-> FALSE]
<1>1. c \in Calls /\ net[c] # "none"
  BY TypedIs, AsksFor DEF Dialed, Knows
<1>2. first \in Made
  BY <1>1, TypedIs, SeenType DEF Made
<1>3. IsLive(table[c].info) => over \in Made /\ IsTerminal(over)
  BY <1>1, TypedIs, EntryIs, AdvancedIs DEF States, Terminal
<1>4. /\ \/ Set(r, [reqs[r] EXCEPT !.pc = "store", !.info = first]) /\ UNCHANGED table
         \/ /\ IsLive(table[c].info)
            /\ table' = [table EXCEPT ![c].info = over]
            /\ Set(r, [reqs[r] EXCEPT !.pc = "save", !.info = over])
         \/ Set(r, [reqs[r] EXCEPT !.pc = "end"]) /\ UNCHANGED table
      /\ UNCHANGED <<live, session, publishing, closing, stored, spent>>
  BY DEF Dialed
<1> HIDE DEF c, over, first
<1>5. LiveOK' /\ NetGrows /\ SessionOK' /\ EventsOK' /\ StoredOK' /\ SpentOK'
  BY <1>4, TypedIs, LiveKept, SessionKept, EventsKept, StoredKept, SpentKept
<1>6. CASE Set(r, [reqs[r] EXCEPT !.pc = "store", !.info = first]) /\ UNCHANGED table
  BY <1>1, <1>2, <1>4, <1>5, <1>6, TypedIs, TypedAfter, TableKept, GoesType DEF c
<1>7. CASE /\ IsLive(table[c].info)
           /\ table' = [table EXCEPT ![c].info = over]
           /\ Set(r, [reqs[r] EXCEPT !.pc = "save", !.info = over])
  <2>1. ReqsOK' /\ reqs'[r].pc = "save" /\ reqs'[r].info = over /\ reqs'[r].call = c
    BY <1>1, <1>3, <1>5, <1>7, TypedIs, GoesType DEF c
  <2>2. TableOK' /\ \A d \in Calls \ {c} : table'[d] = table[d]
    <3>1. session.id # 0
      BY <1>1, <1>7, TypedIs, NoEntryType, NoneIs DEF TableOK
    <3> DEFINE e == [table[c] EXCEPT !.info = over]
    <3>2. e \in Entry /\ e.info # None
      BY <1>1, <1>3, <1>7, TypedIs, InfoIs DEF TableOK, Entry
    <3>3. table' = [table EXCEPT ![c] = e] /\ session' = session
      BY <1>4, <1>7
    <3> HIDE DEF e
    <3> QED
      BY <1>1, <3>1, <3>2, <3>3, TypedIs DEF TableOK
  <2> QED
    BY <1>3, <1>5, <1>7, <2>1, <2>2, TypedAfter DEF c
<1>8. CASE Set(r, [reqs[r] EXCEPT !.pc = "end"]) /\ UNCHANGED table
  BY <1>4, <1>5, <1>8, TypedIs, TypedAfter, TableKept, PlaceType
<1> QED
  BY <1>4, <1>6, <1>7, <1>8

LEMMA StoreTyped ==
  ASSUME Typed, NEW r \in Requests, Store(r)
  PROVE  /\ Typed'
         /\ \A d \in Calls \ {reqs[r].call} : table'[d] = table[d]
         /\ \/ reqs'[r].pc = "end" /\ UNCHANGED table
            \/ /\ reqs'[r].pc \in {"again", "publish"} /\ reqs'[r].call = reqs[r].call
               /\ reqs'[r].info.st = table'[reqs[r].call].info.st
<1> DEFINE c    == reqs[r].call
           kept == [reqs[r].info EXCEPT !.ans = table[c].info.ans]
           info == [kept EXCEPT !.ans = @ \/ kept.st = "active"]
<1>1. c \in Calls /\ reqs[r].info \in Made
  BY TypedIs, AsksFor DEF Store, Knows
<1>2. kept \in Made
  <2> DEFINE a == table[c].info.ans
             i == reqs[r].info
  <2>1. a \in BOOLEAN /\ i \in Made
    BY <1>1, TypedIs, EntryIs, InfoIs, MadeIs, NoneIs
  <2>2. kept = [i EXCEPT !.ans = a]
    OBVIOUS
  <2> HIDE DEF a, i, kept
  <2>3. [i EXCEPT !.ans = a] \in Made
    BY <2>1, MadeWith
  <2> QED
    BY <2>2, <2>3
<1>3. /\ IF session.id = 0
         THEN Set(r, [reqs[r] EXCEPT !.pc = "end"]) /\ UNCHANGED table
         ELSE /\ Update(c, kept, TRUE)
              /\ Set(r, [reqs[r] EXCEPT !.pc = IF info.ans THEN "again" ELSE "publish", !.info = info])
      /\ UNCHANGED <<live, session, publishing, closing, stored, spent>>
  BY DEF Store
<1> HIDE DEF kept
<1>4. info \in Made /\ info.st = kept.st
  <2>1. (kept.ans \/ kept.st = "active") \in BOOLEAN
    OBVIOUS
  <2> DEFINE b == kept.ans \/ kept.st = "active"
  <2>2. info = [kept EXCEPT !.ans = b]
    OBVIOUS
  <2> HIDE DEF b, info
  <2>3. b \in BOOLEAN
    BY <2>1 DEF b
  <2>4. [kept EXCEPT !.ans = b] \in Made /\ [kept EXCEPT !.ans = b].st = kept.st
    BY <1>2, <2>3, MadeWith
  <2> QED
    BY <2>2, <2>4
<1> HIDE DEF c, info
<1>5. LiveOK' /\ NetGrows /\ SessionOK' /\ EventsOK' /\ StoredOK' /\ SpentOK'
  BY <1>3, TypedIs, LiveKept, SessionKept, EventsKept, StoredKept, SpentKept
<1>6. CASE session.id = 0
  BY <1>3, <1>5, <1>6, TypedIs, TypedAfter, TableKept, PlaceType
<1>7. CASE session.id # 0
  <2> DEFINE pc == IF info.ans THEN "again" ELSE "publish"
  <2>1. pc \in {"again", "publish"} /\ Set(r, [reqs[r] EXCEPT !.pc = pc, !.info = info])
    BY <1>3, <1>7
  <2> HIDE DEF pc
  <2>2. ReqsOK' /\ reqs'[r].pc = pc /\ reqs'[r].info = info /\ reqs'[r].call = c
    BY <1>1, <1>4, <1>5, <2>1, TypedIs, GoesType DEF c
  <2>3. Update(c, kept, TRUE) /\ session' = session
    BY <1>3, <1>7
  <2>4. TableOK'
    BY <1>1, <1>2, <2>3, TypedIs, UpdateType
  <2>5. table'[c].info = kept /\ \A d \in Calls \ {c} : table'[d] = table[d]
    BY <1>1, <1>7, <2>3, TypedIs DEF TableOK, Update
  <2> QED
    BY <1>4, <1>5, <2>1, <2>2, <2>4, <2>5, TypedAfter DEF c
<1> QED
  BY <1>6, <1>7

\* lookupVoiceCall: the request goes on with the call as the session has it.
LEMMA LookTyped ==
  ASSUME Typed, NEW r \in Requests, Look(r) \/ CleanUp(r)
  PROVE  /\ Typed'
         /\ \/ reqs'[r].pc = "free"
            \/ /\ reqs'[r].pc = "act" /\ reqs'[r].call = reqs[r].call
               /\ reqs'[r].info = table[reqs[r].call].info
<1> DEFINE c == reqs[r].call
<1>1. c \in Calls
  BY TypedIs, AsksFor DEF Look, CleanUp, Knows
<1>2. /\ \/ table[c].has /\ Set(r, [reqs[r] EXCEPT !.pc = "act", !.info = table[c].info])
         \/ Done(r)
      /\ UNCHANGED <<live, session, table, publishing, closing, stored, spent>>
  BY DEF Look, CleanUp, books
<1>3. LiveOK' /\ NetGrows /\ SessionOK' /\ TableOK' /\ EventsOK' /\ StoredOK' /\ SpentOK'
  BY <1>2, TypedIs, LiveKept, SessionKept, TableKept, EventsKept, StoredKept, SpentKept
<1>4. CASE table[c].has /\ Set(r, [reqs[r] EXCEPT !.pc = "act", !.info = table[c].info])
  <2>1. table[c].info \in Made
    BY <1>1, <1>4, TypedIs, EntryIs
  <2> QED
    BY <1>1, <1>3, <1>4, <2>1, TypedIs, TypedAfter, GoesType
<1>5. CASE Done(r)
  BY <1>3, <1>5, TypedIs, TypedAfter, DoneType, SetIs DEF Done, NoRequest
<1> QED
  BY <1>2, <1>4, <1>5

LEMMA ActTyped ==
  ASSUME Typed, NEW r \in Requests, Act(r)
  PROVE  /\ Typed'
         /\ \/ reqs'[r].pc = "free"
            \/ /\ reqs'[r].pc = "again" /\ reqs'[r].call = reqs[r].call
               /\ IsLive(reqs'[r].info) => IsLive(reqs[r].info)
<1> DEFINE c  == reqs[r].call
           on == reqs[r].kind
           st == CASE on = "answer" -> "active" [] on = "hold" -> Seen(c) [] OTHER -> "ended"
           info == Advanced(reqs[r].info, st, on = "answer")
<1>1. c \in Calls /\ reqs[r].info \in Made
  BY TypedIs, AsksFor DEF Act, Knows
<1>2. /\ \/ /\ net[c] \in {"dialing", "ringing", "active"}
            /\ net' = IF on = "hold" THEN net ELSE [net EXCEPT ![c] = st]
            /\ events' = IF on = "hold" THEN events ELSE Emit(c, st)
            /\ Set(r, [reqs[r] EXCEPT !.pc = "again", !.info = info])
         \/ UNCHANGED <<net, events>> /\ Done(r)
      /\ UNCHANGED <<incoming, session, table, publishing, closing, stored, spent>>
  BY DEF Act, books
<1>3. SessionOK' /\ TableOK' /\ EventsOK' /\ StoredOK' /\ SpentOK'
  BY <1>2, TypedIs, SessionKept, TableKept, EventsKept, StoredKept, SpentKept
<1>4. CASE /\ net[c] \in {"dialing", "ringing", "active"}
           /\ net' = IF on = "hold" THEN net ELSE [net EXCEPT ![c] = st]
           /\ events' = IF on = "hold" THEN events ELSE Emit(c, st)
           /\ Set(r, [reqs[r] EXCEPT !.pc = "again", !.info = info])
  <2>1. st \in States /\ (on # "hold" => st \in {"active", "ended"})
    BY <1>1, <1>4, TypedIs, SeenType DEF States, Terminal
  <2> HIDE DEF st
  <2>2. info \in Made /\ (IsLive(info) => IsLive(reqs[r].info))
    <3>1. reqs[r].info \in Info /\ (on = "answer") \in BOOLEAN
      BY <1>1, InfoIs
    <3> QED
      BY <1>1, <2>1, <3>1, AdvancedIs
  <2> HIDE DEF info
  <2>3. LiveOK' /\ NetGrows
    <3>1. CASE on = "hold"
      BY <1>2, <1>4, <3>1, TypedIs, LiveKept DEF live
    <3>2. CASE on # "hold"
      BY <1>1, <1>2, <1>4, <2>1, <3>2, TypedIs, EmitType
    <3> QED
      BY <3>1, <3>2
  <2>4. ReqsOK' /\ reqs'[r].pc = "again" /\ reqs'[r].info = info /\ reqs'[r].call = reqs[r].call
    BY <1>1, <1>4, <2>2, <2>3, TypedIs, GoesType
  <2> QED
    BY <1>3, <2>2, <2>3, <2>4, TypedAfter
<1>5. CASE UNCHANGED <<net, events>> /\ Done(r)
  <2>1. LiveOK' /\ NetGrows
    BY <1>2, <1>5, TypedIs, LiveKept DEF live
  <2> QED
    BY <1>3, <1>5, <2>1, TypedIs, TypedAfter, DoneType, SetIs DEF Done, NoRequest
<1> QED
  BY <1>2, <1>4, <1>5

\* A request that writes its call to the table keeps it there and goes on.
LEMMA AgainTyped ==
  ASSUME Typed, NEW r \in Requests, Again(r)
  PROVE  /\ Typed'
         /\ \A d \in Calls \ {reqs[r].call} : table'[d] = table[d]
         /\ reqs'[r].pc = "publish" /\ reqs'[r].call = reqs[r].call /\ reqs'[r].info = reqs[r].info
         /\ UNCHANGED table \/ table'[reqs[r].call].info = reqs[r].info
<1> DEFINE c == reqs[r].call
           i == reqs[r].info
           q == [reqs[r] EXCEPT !.pc = "publish"]
<1>1. c \in Calls /\ i \in Made
  BY TypedIs, AsksFor DEF Again, Knows
<1>2. /\ Update(c, i, FALSE) /\ Set(r, q)
      /\ UNCHANGED <<live, session, publishing, closing, stored, spent>>
  BY DEF Again
<1>3. LiveOK' /\ NetGrows /\ SessionOK' /\ EventsOK' /\ StoredOK' /\ SpentOK'
  BY <1>2, TypedIs, LiveKept, SessionKept, EventsKept, StoredKept, SpentKept
<1>4. reqs[r] \in Request /\ reqs[r].tag <= MaxRequests
  BY TypedIs DEF ReqsOK, WellAsked, AskedOn
<1>5. q \in Request /\ q.pc = "publish" /\ q.call = c /\ q.info = i /\ q.tag = reqs[r].tag
  BY <1>4 DEF Request
<1> HIDE DEF c, i, q
<1>6. AskedOn(q, net')
  BY <1>1, <1>4, <1>5 DEF AskedOn
<1>7. ReqsOK' /\ reqs'[r] = q
  BY <1>2, <1>3, <1>5, <1>6, TypedIs, SetType, SetIs
<1>8. TableOK'
  BY <1>1, <1>2, TypedIs, UpdateType
<1>9. /\ \A d \in Calls \ {c} : table'[d] = table[d]
      /\ UNCHANGED table \/ table'[c].info = i
  BY <1>1, <1>2, TypedIs DEF TableOK, Update
<1> QED
  BY <1>3, <1>5, <1>7, <1>8, <1>9, TypedAfter DEF c, i

LEMMA WriteOwnTyped ==
  ASSUME Typed, NEW r \in Requests, PublishOwn(r) \/ SaveOwn(r)
  PROVE  /\ Typed'
         /\ reqs[r].call \in Calls /\ reqs[r].info \in Made /\ SaveOr(reqs[r].call, reqs[r].info)
         /\ \/ reqs'[r].pc = "end"
            \/ reqs'[r].pc = "save" /\ reqs'[r].call = reqs[r].call /\ reqs'[r].info = reqs[r].info
<1>1. reqs[r].call \in Calls /\ reqs[r].info \in Made
  BY TypedIs, AsksFor DEF PublishOwn, SaveOwn, Knows
<1>2. /\ SaveOr(reqs[r].call, reqs[r].info)
      /\ UNCHANGED <<live, session, table, publishing, closing>>
      /\ Set(r, [reqs[r] EXCEPT !.pc = "end"]) \/ Set(r, [reqs[r] EXCEPT !.pc = "save"])
  BY DEF PublishOwn, SaveOwn, books
<1>3. LiveOK' /\ NetGrows /\ SessionOK' /\ TableOK' /\ EventsOK'
  BY <1>2, TypedIs, LiveKept, SessionKept, TableKept, EventsKept
<1>4. StoredOK' /\ SpentOK'
  BY <1>1, <1>2, SaveOrIs DEF Typed, StoredOK, SpentOK
<1>5. CASE Set(r, [reqs[r] EXCEPT !.pc = "end"])
  BY <1>1, <1>2, <1>3, <1>4, <1>5, TypedIs, TypedAfter, PlaceType
<1>6. CASE Set(r, [reqs[r] EXCEPT !.pc = "save"])
  <2> DEFINE q == [reqs[r] EXCEPT !.pc = "save"]
  <2>1. reqs[r] \in Request /\ reqs[r].tag <= MaxRequests
    BY TypedIs DEF ReqsOK, WellAsked, AskedOn
  <2>2. /\ q \in Request /\ q.pc = "save" /\ q.call = reqs[r].call /\ q.info = reqs[r].info
        /\ q.tag = reqs[r].tag
    BY <2>1 DEF Request
  <2> HIDE DEF q
  <2>3. AskedOn(q, net')
    BY <1>1, <2>1, <2>2 DEF AskedOn
  <2>4. ReqsOK' /\ reqs'[r] = q
    BY <1>3, <1>6, <2>2, <2>3, TypedIs, SetType, SetIs DEF q
  <2> QED
    BY <1>1, <1>2, <1>3, <1>4, <2>2, <2>4, TypedAfter
<1> QED
  BY <1>2, <1>5, <1>6

LEMMA EndTyped ==
  ASSUME Typed, NEW r \in Requests, End(r)
  PROVE  Typed' /\ reqs'[r].pc = "free"
<1>1. SessionOK' /\ session'.id = session.id
  <2>1. 0 \in 0..MaxRequests
    BY BoundsAre, SMT
  <2>2. session' = session \/ session' = [session EXCEPT !.dial = 0]
    BY DEF End
  <2> QED
    BY <2>1, <2>2, TypedIs DEF SessionOK, Nobody
<1>2. LiveOK' /\ NetGrows
  BY TypedIs, LiveKept DEF End
<1>3. ReqsOK' /\ reqs'[r].pc = "free"
  BY <1>2, TypedIs, DoneType, SetIs DEF End, Done, NoRequest
<1> QED
  BY <1>1, <1>2, <1>3, TypedIs, TypedAfter, TableKept, EventsKept, StoredKept, SpentKept DEF End

LEMMA HangupTyped ==
  ASSUME Typed, NEW r \in Requests, Hangup(r)
  PROVE  /\ Typed' /\ reqs'[r].pc = "look"
         /\ \/ UNCHANGED <<rows, excused>>
            \/ \E i \in Made : /\ IsTerminal(i) /\ i.ans = reqs[r].row.ans
                               /\ reqs[r].call \in Calls /\ SaveOr(reqs[r].call, i)
<1> DEFINE i == [reqs[r].row EXCEPT !.st = "ended"]
<1>1. reqs[r].call \in Calls /\ reqs[r].row \in Made
  BY TypedIs, AsksFor DEF Hangup, Knows
<1>2. i \in Made /\ IsTerminal(i) /\ i.ans = reqs[r].row.ans
  BY <1>1, MadeOver
<1>3. /\ UNCHANGED <<rows, excused, spent>> \/ SaveOr(reqs[r].call, i)
      /\ Set(r, [reqs[r] EXCEPT !.pc = "look"])
      /\ UNCHANGED <<live, session, table, publishing, closing>>
  BY DEF Hangup, books
<1> HIDE DEF i
<1>4. LiveOK' /\ NetGrows /\ SessionOK' /\ TableOK' /\ EventsOK'
  BY <1>3, TypedIs, LiveKept, SessionKept, TableKept, EventsKept
<1>5. ReqsOK' /\ reqs'[r].pc = "look"
  BY <1>1, <1>3, <1>4, TypedIs, PlaceType
<1>6. CASE UNCHANGED <<rows, excused, spent>>
  BY <1>4, <1>5, <1>6, TypedIs, TypedAfter, StoredKept, SpentKept DEF stored
<1>7. CASE SaveOr(reqs[r].call, i)
  <2>1. StoredOK' /\ SpentOK'
    BY <1>1, <1>2, <1>7, SaveOrIs DEF Typed, StoredOK, SpentOK
  <2> QED
    BY <1>1, <1>2, <1>4, <1>5, <1>7, <2>1, TypedAfter
<1> QED
  BY <1>3, <1>6, <1>7

\* Both end with the request.
LEMMA OpenMediaTyped ==
  ASSUME Typed, NEW r \in Requests, OpenMedia(r) \/ Delete(r)
  PROVE  /\ Typed' /\ reqs'[r].pc = "free" /\ reqs[r].call \in Calls
         /\ \/ UNCHANGED <<rows, excused>>
            \/ /\ rows' = [rows EXCEPT ![reqs[r].call] = None]
               /\ excused' = excused \cup {reqs[r].call}
            \/ /\ UNCHANGED excused
               /\ \E i \in Made : /\ IsTerminal(i)
                                  /\ rows' = [rows EXCEPT ![reqs[r].call] = Saved(@, i)]
<1> DEFINE i == [reqs[r].row EXCEPT !.st = "ended"]
           c == reqs[r].call
<1>1. c \in Calls /\ reqs[r].row \in Made
  BY TypedIs, AsksFor DEF OpenMedia, Delete, Knows
<1>2. i \in Made /\ IsTerminal(i)
  BY <1>1, MadeOver
<1>3. /\ \/ UNCHANGED <<rows, excused>>
         \/ rows' = [rows EXCEPT ![c] = None] /\ excused' = excused \cup {c}
         \/ UNCHANGED excused /\ rows' = [rows EXCEPT ![c] = Saved(@, i)]
      /\ Done(r)
      /\ UNCHANGED <<live, session, table, publishing, closing, spent>>
  BY DEF OpenMedia, Delete, books
<1> HIDE DEF i, c
<1>4. /\ LiveOK' /\ NetGrows /\ SessionOK' /\ TableOK' /\ EventsOK' /\ SpentOK'
  BY <1>3, TypedIs, LiveKept, SessionKept, TableKept, EventsKept, SpentKept
<1>5. ReqsOK' /\ reqs'[r].pc = "free"
  BY <1>3, <1>4, TypedIs, DoneType, SetIs DEF Done, NoRequest
<1>6. StoredOK'
  <2>1. rows[c] \in Info /\ Saved(rows[c], i) \in Info /\ None \in Info
    BY <1>1, <1>2, TypedIs, SavedIs, InfoIs DEF StoredOK
  <2> QED
    BY <1>1, <1>3, <2>1, TypedIs DEF StoredOK
<1> QED
  BY <1>1, <1>2, <1>3, <1>4, <1>5, <1>6, TypedAfter DEF c

-----------------------------------------------------------------------------
(* How a step keeps the records covered: what each part of the state keeps *)
(* of what covers a record, and what it adds to what has to be covered.    *)

RowsFrom     == \A c \in Calls : IsLive(rows'[c]) => IsLive(rows[c]) \/ Covered(c)
EntriesLeft  == \A c \in Calls : IsLive(table[c].info) => IsLive(table'[c].info) \/ Ending(c)'
EventsLeft   == \A p \in closing \cup {publishing} : IsTerminal(p.info) =>
                  p \in closing' \cup {publishing'} \/ p.call \in excused' \/ IsTerminal(rows'[p.call])
EventsFrom   == \A p \in closing' \cup {publishing'} : IsLive(p.info) =>
                  p \in closing \cup {publishing} \/ IsLive(table'[p.call].info)
RequestsLeft == \A r \in Requests : Closes(reqs[r]) =>
                  \/ Closes(reqs'[r]) /\ reqs'[r].call = reqs[r].call
                  \/ reqs[r].call \in excused' \/ IsTerminal(rows'[reqs[r].call])
RequestsFrom == \A r \in Requests : Carries(reqs'[r]) =>
                  \/ Carries(reqs[r]) /\ reqs'[r].call = reqs[r].call
                  \/ IsLive(table'[reqs'[r].call].info)

LEMMA CallsOfEvents ==
  ASSUME EventsOK, NEW p \in closing \cup {publishing}, IsLive(p.info) \/ IsTerminal(p.info)
  PROVE  p \in MadePub /\ p.call \in Calls /\ p.info \in Made
BY NoneIs DEF EventsOK, MadePub, Quiet

LEMMA CallsOfRequests ==
  ASSUME ReqsOK, NEW r \in Requests, Closes(reqs[r]) \/ Carries(reqs[r])
  PROVE  reqs[r].call \in Calls /\ reqs[r].info \in Made
BY AsksFor DEF Closes, Carries, Knows

\* A step that keeps all this keeps the records covered.
LEMMA Coverage ==
  ASSUME Typed, Typed', WellCovered, RowsKept, RowsFrom, EntriesLeft,
         EventsLeft, EventsFrom, RequestsLeft, RequestsFrom
  PROVE  WellCovered'
<1>1. ASSUME NEW c \in Calls, Ending(c) PROVE Ending(c)' \/ c \in excused' \/ IsTerminal(rows'[c])
  <2>1. ASSUME NEW p \in closing \cup {publishing}, p.call = c, IsTerminal(p.info)
        PROVE  Ending(c)' \/ c \in excused' \/ IsTerminal(rows'[c])
    BY <2>1 DEF EventsLeft, Ending
  <2>2. ASSUME NEW r \in Requests, reqs[r].call = c, Closes(reqs[r])
        PROVE  Ending(c)' \/ c \in excused' \/ IsTerminal(rows'[c])
    BY <2>2 DEF RequestsLeft, Ending
  <2> QED
    BY <1>1, <2>1, <2>2 DEF Ending
<1>2. ASSUME NEW c \in Calls, Covered(c) PROVE Covered(c)'
  BY <1>1, <1>2 DEF Covered, RowsKept, EntriesLeft
<1>3. ASSUME NEW c \in Calls, IsLive(rows'[c]) PROVE Covered(c)'
  BY <1>2, <1>3 DEF RowsFrom, WellCovered
<1>4. ASSUME NEW p \in closing' \cup {publishing'}, IsLive(p.info) PROVE Covered(p.call)'
  <2>1. CASE p \in closing \cup {publishing}
    BY <1>2, <1>4, <2>1, TypedIs, CallsOfEvents DEF WellCovered
  <2>2. CASE IsLive(table'[p.call].info)
    BY <2>2 DEF Covered
  <2> QED
    BY <1>4, <2>1, <2>2 DEF EventsFrom
<1>5. ASSUME NEW r \in Requests, Carries(reqs'[r]) PROVE Covered(reqs[r].call)'
  <2>1. CASE Carries(reqs[r]) /\ reqs'[r].call = reqs[r].call
    <3>1. reqs[r].call \in Calls /\ Covered(reqs[r].call)
      BY <2>1, TypedIs, CallsOfRequests DEF WellCovered
    <3> DEFINE c == reqs[r].call
    <3> QED
      <4> SUFFICES ASSUME NEW d \in Calls, d = c, Covered(d), d = reqs'[r].call PROVE Covered(reqs[r].call)'
        BY <2>1, <3>1
      <4>1. Covered(d)'
        BY <1>2
      <4> QED
        BY <4>1 DEF Covered, Ending
  <2>2. CASE IsLive(table'[reqs'[r].call].info)
    BY <2>2 DEF Covered
  <2> QED
    BY <1>5, <2>1, <2>2 DEF RequestsFrom
<1> QED
  BY <1>3, <1>4, <1>5 DEF WellCovered

LEMMA SameRows == UNCHANGED stored => RowsKept /\ RowsFrom
BY DEF stored, RowsKept, RowsFrom

LEMMA SameTable == UNCHANGED table => EntriesLeft
BY DEF EntriesLeft

LEMMA SameEvents == UNCHANGED <<publishing, closing>> => EventsLeft /\ EventsFrom
BY DEF EventsLeft, EventsFrom

LEMMA SameReqs == UNCHANGED reqs => RequestsLeft /\ RequestsFrom
BY DEF RequestsLeft, RequestsFrom

\* A request takes a step: the others are as they were.
LEMMA OtherReqs ==
  ASSUME ReqsOK, NEW r \in Requests, NEW q, Set(r, q),
         Closes(reqs[r]) => \/ Closes(reqs'[r]) /\ reqs'[r].call = reqs[r].call
                            \/ reqs[r].call \in excused' \/ IsTerminal(rows'[reqs[r].call]),
         Carries(reqs'[r]) => \/ Carries(reqs[r]) /\ reqs'[r].call = reqs[r].call
                              \/ IsLive(table'[reqs'[r].call].info)
  PROVE  RequestsLeft /\ RequestsFrom
BY SetIs DEF RequestsLeft, RequestsFrom

\* A step after which nothing else is written, and nothing is taken from the table.
LEMMA QuietCoverage ==
  ASSUME Typed, Typed', WellCovered, UNCHANGED <<rows, excused, table, publishing, closing>>,
         RequestsLeft, RequestsFrom
  PROVE  WellCovered' /\ RowsKept
BY SameRows, SameTable, SameEvents, Coverage DEF stored

-----------------------------------------------------------------------------
(* Every action keeps the invariant and what is there of a record. *)

\* The network, a session that starts or has a client again: nobody writes anything.
LEMMA NetworkKeeps ==
  ASSUME IInv, Ring \/ (\E c \in Calls : Answered(c) \/ Ends(c)) \/ Start \/ Reconnect
  PROVE  IInv' /\ RowsKept
<1>1. Typed'
  BY RingTyped, NetworkTyped, StartTyped, ReconnectTyped DEF IInv
<1>2. UNCHANGED <<rows, excused, table, publishing, closing, reqs>>
  <2>1. CASE Start
    <3>1. table = [c \in Calls |-> NoEntry]
      BY <2>1, TypedIs DEF Start, TableOK, IInv
    <3> QED
      BY <2>1, <3>1 DEF Start, stored
  <2> QED
    BY <2>1 DEF IInv, Ring, Answered, Ends, Reconnect, stored, books
<1> QED
  BY <1>1, <1>2, QuietCoverage, SameReqs DEF IInv

\* The calls of a session that loses its client fail, and somebody is told of each.
LEMMA LoseKeeps ==
  ASSUME IInv, Lose \/ GiveUp
  PROVE  IInv' /\ RowsKept
<1>1. Typed /\ Typed' /\ TableOK
  BY LoseTyped, TypedIs DEF IInv
<1>2. /\ UNCHANGED <<rows, excused, publishing, reqs>>
      /\ closing' = closing \cup Disconnected(table)
  BY DEF Lose, GiveUp, stored
<1>3. EntriesLeft
  BY <1>1, <1>2, DisconnectedType DEF EntriesLeft, Ending
<1>4. EventsLeft /\ EventsFrom
  BY <1>1, <1>2, DisconnectedType, LiveOrOver DEF EventsLeft, EventsFrom, MadePub
<1> QED
  BY <1>1, <1>2, <1>3, <1>4, SameRows, SameReqs, Coverage DEF IInv, stored

LEMMA HearsOfItKeeps ==
  ASSUME IInv, HearsOfIt \/ TakeToken
  PROVE  IInv' /\ RowsKept
<1>1. UNCHANGED <<rows, excused, table, publishing, closing, reqs>>
  BY DEF HearsOfIt, TakeToken, stored
<1> QED
  BY <1>1, HearsOfItTyped, QuietCoverage, SameReqs DEF IInv

\* What the goroutine of a detached session is publishing goes on.
LEMMA DetachKeeps ==
  ASSUME IInv, Detach
  PROVE  IInv' /\ RowsKept
<1>1. Typed /\ Typed' /\ TableOK
  BY DetachTyped, TypedIs DEF IInv
<1>2. /\ UNCHANGED <<rows, excused, reqs>>
      /\ closing' = closing \cup Disconnected(table)
                      \cup (IF publishing = Quiet THEN {} ELSE {publishing})
      /\ publishing' = Quiet
  BY DEF Detach, stored
<1>3. EntriesLeft
  BY <1>1, <1>2, DisconnectedType DEF EntriesLeft, Ending
<1>4. ~IsTerminal(Quiet.info) /\ ~IsLive(Quiet.info)
  BY NoneIs DEF Quiet
<1>5. EventsLeft /\ EventsFrom
  BY <1>1, <1>2, <1>4, DisconnectedType, LiveOrOver DEF EventsLeft, EventsFrom, MadePub
<1> QED
  BY <1>1, <1>2, <1>3, <1>5, SameRows, SameReqs, Coverage DEF IInv, stored

\* With the program all writers go: the records of calls that go on are on their own.
LEMMA CrashKeeps ==
  ASSUME IInv, Crash
  PROVE  IInv' /\ RowsKept
<1>1. Typed'
  BY CrashTyped DEF IInv
<1>2. /\ UNCHANGED rows /\ publishing' = Quiet /\ closing' = {}
      /\ excused' = excused \cup {c \in Calls : IsLive(rows[c])}
      /\ reqs' = [r \in Requests |-> NoRequest]
  BY DEF Crash
<1>3. RowsKept
  BY <1>2 DEF RowsKept
<1>4. WellCovered'
  <2>1. ~IsLive(Quiet.info) /\ ~Carries(NoRequest)
    BY NoneIs DEF Quiet, NoRequest, Carries
  <2> QED
    BY <1>2, <2>1 DEF WellCovered, Covered
<1> QED
  BY <1>1, <1>3, <1>4 DEF IInv

\* A call the client reports: what the table says of it is being published.
LEMMA TakeIncomingKeeps ==
  ASSUME IInv, NEW c \in Calls, TakeIncoming(c)
  PROVE  IInv' /\ RowsKept
<1>1. Typed /\ Typed'
  BY TakeIncomingTyped DEF IInv
<1>2. PICK info \in Made : table'[c].info = info /\ publishing' = [call |-> c, info |-> info]
  BY TakeIncomingTyped DEF IInv
<1>3. \A d \in Calls \ {c} : table'[d] = table[d]
  BY TakeIncomingTyped DEF IInv
<1>4. UNCHANGED <<rows, excused, closing, reqs>> /\ publishing = Quiet
  BY DEF TakeIncoming, stored
<1>5. EntriesLeft
  BY <1>2, <1>3, LiveOrOver DEF EntriesLeft, Ending
<1>6. EventsLeft /\ EventsFrom
  <2>1. ~IsTerminal(Quiet.info)
    BY NoneIs DEF Quiet
  <2> QED
    BY <1>2, <1>4, <2>1 DEF EventsLeft, EventsFrom
<1> QED
  BY <1>1, <1>4, <1>5, <1>6, SameRows, SameReqs, Coverage DEF IInv, stored

LEMMA TakeEventKeeps ==
  ASSUME IInv, NEW c \in Calls, TakeEvent(c)
  PROVE  IInv' /\ RowsKept
<1>1. Typed /\ Typed'
  BY TakeEventTyped DEF IInv
<1>2. /\ \A d \in Calls \ {c} : table'[d] = table[d]
      /\ publishing = Quiet
      /\ \/ publishing' = Quiet /\ (IsLive(table[c].info) <=> IsLive(table'[c].info))
         \/ /\ publishing' \in MadePub /\ publishing'.call = c
            /\ publishing'.info = table'[c].info
  BY TakeEventTyped DEF IInv
<1>3. UNCHANGED <<rows, excused, closing, reqs>>
  BY DEF TakeEvent, stored
<1>4. ~IsTerminal(Quiet.info) /\ ~IsLive(Quiet.info)
  BY NoneIs DEF Quiet
<1>5. EntriesLeft
  <2> SUFFICES ASSUME NEW d \in Calls, IsLive(table[d].info)
               PROVE  IsLive(table'[d].info) \/ Ending(d)'
    BY DEF EntriesLeft
  <2>1. CASE d # c
    BY <1>2, <2>1
  <2>2. CASE d = c /\ ~IsLive(table'[c].info)
    <3>1. publishing' \in MadePub /\ publishing'.call = d /\ publishing'.info = table'[d].info
      BY <1>2, <2>2
    <3>2. IsLive(table'[d].info) \/ IsTerminal(publishing'.info)
      BY <3>1, LiveOrOver DEF MadePub
    <3> QED
      BY <3>1, <3>2 DEF Ending
  <2> QED
    BY <2>1, <2>2
<1>6. EventsLeft /\ EventsFrom
  BY <1>2, <1>3, <1>4 DEF EventsLeft, EventsFrom
<1> QED
  BY <1>1, <1>3, <1>5, <1>6, SameRows, SameReqs, Coverage DEF IInv, stored

\* An event is saved, by the goroutine or by whoever cut the session off.
LEMMA PublishKeeps ==
  ASSUME IInv, Publish
  PROVE  IInv' /\ RowsKept
<1>1. Typed /\ Typed' /\ publishing \in MadePub /\ SaveOr(publishing.call, publishing.info)
  BY PublishTyped DEF IInv
<1>2. publishing.call \in Calls /\ publishing.info \in Made /\ TypeOK
  BY <1>1 DEF MadePub, Typed
<1>3. UNCHANGED <<table, closing, reqs>> /\ publishing' = Quiet
  BY DEF Publish
<1>4. /\ RowsKept
      /\ IsTerminal(publishing.info) => publishing.call \in excused' \/ IsTerminal(rows'[publishing.call])
      /\ \A d \in Calls : IsLive(rows'[d]) =>
           IsLive(rows[d]) \/ (d = publishing.call /\ IsLive(publishing.info))
  BY <1>1, <1>2, SaveOrKeeps
<1>5. RowsFrom
  BY <1>4 DEF RowsFrom, IInv, WellCovered
<1>6. EventsLeft /\ EventsFrom
  <2>1. ~IsLive(Quiet.info)
    BY NoneIs DEF Quiet
  <2> QED
    BY <1>3, <1>4, <2>1 DEF EventsLeft, EventsFrom
<1> QED
  BY <1>1, <1>3, <1>4, <1>5, <1>6, SameTable, SameReqs, Coverage DEF IInv

LEMMA PublishClosingKeeps ==
  ASSUME IInv, NEW p, PublishClosing(p)
  PROVE  IInv' /\ RowsKept
<1>1. Typed /\ Typed' /\ p \in MadePub /\ SaveOr(p.call, p.info)
  BY PublishClosingTyped DEF IInv, PublishClosing
<1>2. p.call \in Calls /\ p.info \in Made /\ TypeOK
  BY <1>1 DEF MadePub, Typed
<1>3. UNCHANGED <<table, publishing, reqs>> /\ closing' = closing \ {p} /\ p \in closing
  BY DEF PublishClosing
<1>4. /\ RowsKept
      /\ IsTerminal(p.info) => p.call \in excused' \/ IsTerminal(rows'[p.call])
      /\ \A d \in Calls : IsLive(rows'[d]) => IsLive(rows[d]) \/ (d = p.call /\ IsLive(p.info))
  BY <1>1, <1>2, SaveOrKeeps
<1>5. RowsFrom
  BY <1>3, <1>4 DEF RowsFrom, IInv, WellCovered
<1>6. EventsLeft /\ EventsFrom
  BY <1>3, <1>4 DEF EventsLeft, EventsFrom
<1> QED
  BY <1>1, <1>3, <1>4, <1>5, <1>6, SameTable, SameReqs, Coverage DEF IInv

LEMMA WritesMade ==
  ASSUME Typed', NEW r \in Requests, reqs'[r].pc \in {"store", "act", "again", "publish", "save"}
  PROVE  reqs'[r].info \in Made
<1>1. Typed' => ReqsOK'
  BY TypedIs, PTL
<1> QED
  BY <1>1 DEF ReqsOK, WellAsked, AskedOn

\* Steps of a request that neither write a record nor take anything from the table.
LEMMA PlainStepKeeps ==
  ASSUME IInv, NEW r \in Requests, Begin(r) \/ Pend(r) \/ Invite(r) \/ End(r)
  PROVE  IInv' /\ RowsKept
<1>1. Typed'
  BY BeginTyped, PendTyped, InviteTyped, EndTyped DEF IInv
<1>2. UNCHANGED <<rows, excused, table, publishing, closing>>
  BY DEF Begin, Pend, Invite, End, books, stored
<1>3. PICK q : Set(r, q)
  <2>1. CASE Begin(r)
    BY <2>1 DEF Begin
  <2>2. CASE Pend(r) \/ Invite(r) \/ End(r)
    BY <2>2 DEF Pend, Invite, End, Done
  <2> QED
    BY <2>1, <2>2
<1>4. ~Closes(reqs[r])
  BY DEF Begin, Pend, Invite, End, Closes
<1>5. ~Carries(reqs'[r])
  <2>1. CASE Begin(r)
    <3>1. reqs'[r].pc \in {"pend", "read"}
      BY <2>1, TypedIs DEF Begin, Set, IInv, ReqsOK, NoRequest
    <3> QED
      BY <3>1 DEF Carries
  <2>2. CASE Pend(r) \/ Invite(r) \/ End(r)
    <3>1. reqs'[r].pc \in {"invite", "await", "end", "free"}
      BY <2>2, PendTyped, InviteTyped, EndTyped DEF IInv
    <3> QED
      BY <3>1 DEF Carries
  <2> QED
    BY <2>1, <2>2
<1>6. RequestsLeft /\ RequestsFrom
  BY <1>3, <1>4, <1>5, TypedIs, OtherReqs DEF IInv
<1> QED
  BY <1>1, <1>2, <1>6, QuietCoverage DEF IInv

\* A request finds its call: what it goes on with is what the table says.
LEMMA LookKeeps ==
  ASSUME IInv, NEW r \in Requests, Look(r) \/ CleanUp(r)
  PROVE  IInv' /\ RowsKept
<1>1. Typed' /\ \/ reqs'[r].pc = "free"
                \/ /\ reqs'[r].pc = "act" /\ reqs'[r].call = reqs[r].call
                   /\ reqs'[r].info = table[reqs[r].call].info
  BY LookTyped DEF IInv
<1>2. UNCHANGED <<rows, excused, table, publishing, closing>>
  BY DEF Look, CleanUp, books, stored
<1>3. PICK q : Set(r, q)
  BY DEF Look, CleanUp, Done
<1>4. ~Closes(reqs[r])
  BY DEF Look, CleanUp, Closes
<1>5. Carries(reqs'[r]) => IsLive(table'[reqs'[r].call].info)
  BY <1>1, <1>2 DEF Carries
<1>6. RequestsLeft /\ RequestsFrom
  BY <1>3, <1>4, <1>5, TypedIs, OtherReqs DEF IInv
<1> QED
  BY <1>1, <1>2, <1>6, QuietCoverage DEF IInv

LEMMA ActKeeps ==
  ASSUME IInv, NEW r \in Requests, Act(r)
  PROVE  IInv' /\ RowsKept
<1>1. Typed' /\ \/ reqs'[r].pc = "free"
                \/ /\ reqs'[r].pc = "again" /\ reqs'[r].call = reqs[r].call
                   /\ IsLive(reqs'[r].info) => IsLive(reqs[r].info)
  BY ActTyped DEF IInv
<1>2. UNCHANGED <<rows, excused, table, publishing, closing>> /\ reqs[r].pc = "act"
  BY DEF Act, books, stored
<1>3. PICK q : Set(r, q)
  BY DEF Act, Done
<1>4. ~Closes(reqs[r])
  BY <1>2 DEF Closes
<1>5. Carries(reqs'[r]) => Carries(reqs[r]) /\ reqs'[r].call = reqs[r].call
  BY <1>1, <1>2 DEF Carries
<1>6. RequestsLeft /\ RequestsFrom
  BY <1>3, <1>4, <1>5, TypedIs, OtherReqs DEF IInv
<1> QED
  BY <1>1, <1>2, <1>6, QuietCoverage DEF IInv

\* A dial that failed fails its call in the table and saves that.
LEMMA DialedKeeps ==
  ASSUME IInv, NEW r \in Requests, Dialed(r)
  PROVE  IInv' /\ RowsKept
<1>1. /\ Typed'
      /\ \A d \in Calls \ {reqs[r].call} : table'[d] = table[d]
      /\ \/ reqs'[r].pc \in {"store", "end"} /\ UNCHANGED table
         \/ /\ reqs'[r].pc = "save" /\ reqs'[r].call = reqs[r].call
            /\ IsTerminal(reqs'[r].info)
  BY DialedTyped DEF IInv
<1>2. UNCHANGED <<rows, excused, publishing, closing>> /\ reqs[r].pc = "await"
  BY DEF Dialed, stored
<1>3. PICK q : Set(r, q)
  BY DEF Dialed
<1>4. ~Closes(reqs[r]) /\ ~Carries(reqs'[r])
  BY <1>1, <1>2, NoneIs DEF Closes, Carries, IsLive, IsTerminal
<1>5. RequestsLeft /\ RequestsFrom
  BY <1>3, <1>4, TypedIs, OtherReqs DEF IInv
<1>6. EntriesLeft
  BY <1>1 DEF EntriesLeft, Ending, Closes
<1> QED
  BY <1>1, <1>2, <1>5, <1>6, SameRows, SameEvents, Coverage DEF IInv, stored

\* A call that was dialed is stored, and published as it is stored.
LEMMA StoreKeeps ==
  ASSUME IInv, NEW r \in Requests, Store(r)
  PROVE  IInv' /\ RowsKept
<1>1. /\ Typed'
      /\ \A d \in Calls \ {reqs[r].call} : table'[d] = table[d]
      /\ \/ reqs'[r].pc = "end" /\ UNCHANGED table
         \/ /\ reqs'[r].pc \in {"again", "publish"} /\ reqs'[r].call = reqs[r].call
            /\ reqs'[r].info.st = table'[reqs[r].call].info.st
  BY StoreTyped DEF IInv
<1>2. UNCHANGED <<rows, excused, publishing, closing>> /\ reqs[r].pc = "store"
  BY DEF Store, stored
<1>3. PICK q : Set(r, q)
  BY DEF Store
<1>4. ~Closes(reqs[r]) /\ (Carries(reqs'[r]) => IsLive(table'[reqs'[r].call].info))
  BY <1>1, <1>2 DEF Closes, Carries, IsLive
<1>5. RequestsLeft /\ RequestsFrom
  BY <1>3, <1>4, TypedIs, OtherReqs DEF IInv
<1>6. reqs'[r].pc \in {"again", "publish"} => reqs'[r].info \in Made
  BY <1>1, WritesMade
<1>7. EntriesLeft
  <2> SUFFICES ASSUME NEW d \in Calls, IsLive(table[d].info), ~IsLive(table'[d].info)
               PROVE  Ending(d)'
    BY DEF EntriesLeft
  <2>1. d = reqs[r].call /\ reqs'[r].call = d /\ reqs'[r].pc \in {"again", "publish"}
        /\ reqs'[r].info.st = table'[d].info.st
    BY <1>1
  <2>2. IsTerminal(reqs'[r].info)
    BY <1>6, <2>1, LiveOrOver DEF IsLive
  <2> QED
    BY <2>1, <2>2 DEF Ending, Closes
<1> QED
  BY <1>1, <1>2, <1>5, <1>7, SameRows, SameEvents, Coverage DEF IInv, stored

\* The table gets what the request knows, and the request publishes that.
LEMMA AgainKeeps ==
  ASSUME IInv, NEW r \in Requests, Again(r)
  PROVE  IInv' /\ RowsKept
<1>1. /\ Typed'
      /\ \A d \in Calls \ {reqs[r].call} : table'[d] = table[d]
      /\ reqs'[r].pc = "publish" /\ reqs'[r].call = reqs[r].call /\ reqs'[r].info = reqs[r].info
      /\ UNCHANGED table \/ table'[reqs[r].call].info = reqs[r].info
  BY AgainTyped DEF IInv
<1>2. UNCHANGED <<rows, excused, publishing, closing>> /\ reqs[r].pc = "again"
  BY DEF Again, stored
<1>3. PICK q : Set(r, q)
  BY DEF Again
<1>4. /\ Closes(reqs[r]) => Closes(reqs'[r]) /\ reqs'[r].call = reqs[r].call
      /\ Carries(reqs'[r]) => Carries(reqs[r]) /\ reqs'[r].call = reqs[r].call
  BY <1>1, <1>2 DEF Closes, Carries
<1>5. RequestsLeft /\ RequestsFrom
  BY <1>3, <1>4, TypedIs, OtherReqs DEF IInv
<1>6. reqs'[r].info \in Made
  BY <1>1, WritesMade
<1>7. EntriesLeft
  <2> SUFFICES ASSUME NEW d \in Calls, IsLive(table[d].info), ~IsLive(table'[d].info)
               PROVE  Ending(d)'
    BY DEF EntriesLeft
  <2>1. d = reqs[r].call /\ reqs'[r].call = d /\ reqs'[r].info = table'[d].info
    BY <1>1
  <2>2. IsTerminal(reqs'[r].info)
    BY <1>6, <2>1, LiveOrOver
  <2> QED
    BY <1>1, <2>1, <2>2 DEF Ending, Closes
<1> QED
  BY <1>1, <1>2, <1>5, <1>7, SameRows, SameEvents, Coverage DEF IInv, stored

\* A request saves its call.
LEMMA WriteOwnKeeps ==
  ASSUME IInv, NEW r \in Requests, PublishOwn(r) \/ SaveOwn(r)
  PROVE  IInv' /\ RowsKept
<1>1. /\ Typed'
      /\ reqs[r].call \in Calls /\ reqs[r].info \in Made /\ SaveOr(reqs[r].call, reqs[r].info)
      /\ \/ reqs'[r].pc = "end"
         \/ reqs'[r].pc = "save" /\ reqs'[r].call = reqs[r].call /\ reqs'[r].info = reqs[r].info
  BY WriteOwnTyped DEF IInv
<1>2. UNCHANGED <<table, publishing, closing>> /\ reqs[r].pc \in {"publish", "save"}
  BY DEF PublishOwn, SaveOwn, books
<1>3. PICK q : Set(r, q)
  BY DEF PublishOwn, SaveOwn
<1>4. /\ RowsKept
      /\ IsTerminal(reqs[r].info) => reqs[r].call \in excused' \/ IsTerminal(rows'[reqs[r].call])
      /\ \A d \in Calls : IsLive(rows'[d]) => IsLive(rows[d]) \/ (d = reqs[r].call /\ IsLive(reqs[r].info))
  BY <1>1, SaveOrKeeps DEF IInv, Typed
<1>5. RowsFrom
  BY <1>2, <1>4 DEF RowsFrom, IInv, WellCovered, Carries
<1>6. /\ Closes(reqs[r]) => reqs[r].call \in excused' \/ IsTerminal(rows'[reqs[r].call])
      /\ Carries(reqs'[r]) => Carries(reqs[r]) /\ reqs'[r].call = reqs[r].call
  BY <1>1, <1>2, <1>4 DEF Closes, Carries
<1>7. RequestsLeft /\ RequestsFrom
  BY <1>3, <1>6, TypedIs, OtherReqs DEF IInv
<1> QED
  BY <1>1, <1>2, <1>4, <1>5, <1>7, SameTable, SameEvents, Coverage DEF IInv

\* Hanging up ends the record, with what it said of the answer or what it says by now.
LEMMA HangupKeeps ==
  ASSUME IInv, NEW r \in Requests, Hangup(r)
  PROVE  IInv' /\ RowsKept
<1>1. /\ Typed' /\ reqs'[r].pc = "look"
      /\ \/ UNCHANGED <<rows, excused>>
         \/ \E i \in Made : IsTerminal(i) /\ reqs[r].call \in Calls /\ SaveOr(reqs[r].call, i)
  BY HangupTyped DEF IInv
<1>2. UNCHANGED <<table, publishing, closing>> /\ reqs[r].pc = "read"
  BY DEF Hangup, books
<1>3. PICK q : Set(r, q)
  BY DEF Hangup
<1>4. ~Closes(reqs[r]) /\ ~Carries(reqs'[r])
  BY <1>1, <1>2 DEF Closes, Carries
<1>5. RequestsLeft /\ RequestsFrom
  BY <1>3, <1>4, TypedIs, OtherReqs DEF IInv
<1>6. RowsKept /\ RowsFrom
  <2>1. CASE UNCHANGED <<rows, excused>>
    BY <2>1, SameRows DEF stored
  <2>2. CASE \E i \in Made : IsTerminal(i) /\ reqs[r].call \in Calls /\ SaveOr(reqs[r].call, i)
    <3>1. PICK i \in Made : IsTerminal(i) /\ reqs[r].call \in Calls /\ SaveOr(reqs[r].call, i)
      BY <2>2
    <3>2. ~IsLive(i)
      BY <3>1, LiveOrOver
    <3>3. /\ RowsKept
          /\ \A d \in Calls : IsLive(rows'[d]) => IsLive(rows[d]) \/ (d = reqs[r].call /\ IsLive(i))
      BY <3>1, SaveOrKeeps DEF IInv, Typed
    <3> QED
      BY <3>2, <3>3 DEF RowsFrom
  <2> QED
    BY <1>1, <2>1, <2>2
<1> QED
  BY <1>1, <1>2, <1>5, <1>6, SameTable, SameEvents, Coverage DEF IInv

\* The media of a call that nobody knows ends its record; a record that ended may be deleted.
LEMMA OpenMediaKeeps ==
  ASSUME IInv, NEW r \in Requests, OpenMedia(r) \/ Delete(r)
  PROVE  IInv' /\ RowsKept
<1> DEFINE c == reqs[r].call
<1>1. /\ Typed' /\ reqs'[r].pc = "free" /\ c \in Calls
      /\ \/ UNCHANGED <<rows, excused>>
         \/ rows' = [rows EXCEPT ![c] = None] /\ excused' = excused \cup {c}
         \/ /\ UNCHANGED excused
            /\ \E i \in Made : IsTerminal(i) /\ rows' = [rows EXCEPT ![c] = Saved(@, i)]
  BY OpenMediaTyped DEF IInv
<1>2. UNCHANGED <<table, publishing, closing>> /\ reqs[r].pc = "read"
  BY DEF OpenMedia, Delete, books
<1>3. PICK q : Set(r, q)
  BY DEF OpenMedia, Delete, Done
<1>4. ~Closes(reqs[r]) /\ ~Carries(reqs'[r])
  BY <1>1, <1>2 DEF Closes, Carries
<1>5. RequestsLeft /\ RequestsFrom
  BY <1>3, <1>4, TypedIs, OtherReqs DEF IInv
<1>6. rows \in [Calls -> Info]
  BY TypedIs DEF IInv, StoredOK
<1> HIDE DEF c
<1>7. RowsKept /\ RowsFrom
  <2>1. CASE UNCHANGED <<rows, excused>>
    BY <2>1, SameRows DEF stored
  <2>2. CASE rows' = [rows EXCEPT ![c] = None] /\ excused' = excused \cup {c}
    <3>1. rows'[c] = None /\ \A d \in Calls \ {c} : rows'[d] = rows[d]
      BY <1>1, <1>6, <2>2
    <3> QED
      BY <2>2, <3>1, NoneIs DEF RowsKept, RowsFrom
  <2>3. CASE /\ UNCHANGED excused
             /\ \E i \in Made : IsTerminal(i) /\ rows' = [rows EXCEPT ![c] = Saved(@, i)]
    <3>1. PICK i \in Made : IsTerminal(i) /\ rows' = [rows EXCEPT ![c] = Saved(@, i)]
      BY <2>3
    <3>2. rows'[c] = Saved(rows[c], i) /\ \A d \in Calls \ {c} : rows'[d] = rows[d]
      BY <1>1, <1>6, <3>1
    <3>3. /\ Saved(rows[c], i) \in Made /\ Saved(rows[c], i).st = i.st
          /\ rows[c].ans => Saved(rows[c], i).ans
      BY <1>1, <1>6, SavedIs
    <3>4. IsTerminal(Saved(rows[c], i)) /\ ~IsLive(Saved(rows[c], i))
      BY <3>1, <3>3, LiveOrOver DEF IsTerminal
    <3> QED
      BY <2>3, <3>2, <3>3, <3>4 DEF RowsKept, RowsFrom
  <2> QED
    BY <1>1, <2>1, <2>2, <2>3
<1> QED
  BY <1>1, <1>2, <1>5, <1>7, SameTable, SameEvents, Coverage DEF IInv

-----------------------------------------------------------------------------
LEMMA InitEstablishes == Init => IInv
<1> SUFFICES ASSUME Init PROVE IInv
  OBVIOUS
<1>1. LiveOK
  <2>1. <<>> \in Seq({"ringing", "active", "ended"})
    BY SMT
  <2> QED
    BY <2>1 DEF Init, LiveOK
<1>2. SessionOK
  <2>1. 0 \in 0..MaxSessions /\ 0 \in 0..MaxRequests
    BY BoundsAre, SMT
  <2> QED
    BY <2>1 DEF Init, SessionOK, Nobody
<1>3. TableOK
  BY NoEntryType DEF Init, TableOK
<1>4. EventsOK /\ StoredOK
  BY InfoIs DEF Init, EventsOK, StoredOK
<1>5. SpentOK
  <2>1. 0 \in 0..MaxSessions /\ 0 \in 0..MaxRequests /\ 0 \in 0..MaxFaults
    BY BoundsAre, SMT
  <2> QED
    BY <2>1 DEF Init, SpentOK
<1>6. ReqsOK
  <2>1. NoRequest \in Request /\ WellAsked(NoRequest)
    <3>1. NoRequest \in Request
      BY NoRequestType
    <3> QED
      BY <3>1, BoundsAre, SMT DEF NoRequest, WellAsked, AskedOn, Knows
  <2> QED
    BY <2>1 DEF Init, ReqsOK, WellAsked
<1>7. WellCovered
  <2>1. ~IsLive(Quiet.info) /\ ~Carries(NoRequest) /\ ~IsLive(None)
    BY NoneIs DEF Quiet, NoRequest, Carries
  <2> QED
    BY <2>1 DEF Init, WellCovered
<1> QED
  BY <1>1, <1>2, <1>3, <1>4, <1>5, <1>6, <1>7, TypedIs DEF IInv

LEMMA StepKeeps ==
  ASSUME IInv, [Next]_vars
  PROVE  IInv' /\ RowsKept
<1>1. CASE UNCHANGED vars
  <2>1. UNCHANGED <<live, session, table, publishing, closing, stored, spent, reqs>>
    BY <1>1 DEF vars, books
  <2>2. UNCHANGED <<rows, excused>>
    BY <2>1 DEF stored
  <2>3. Typed'
    BY <2>1, TypedIs, TypedAfter, LiveKept, SessionKept, TableKept, EventsKept, StoredKept,
       SpentKept, ReqsKept DEF IInv
  <2> QED
    BY <2>1, <2>2, <2>3, QuietCoverage, SameReqs DEF IInv
<1>2. CASE Ring \/ (\E c \in Calls : Answered(c) \/ Ends(c)) \/ Start \/ Reconnect
  BY <1>2, NetworkKeeps
<1>3. CASE Lose \/ GiveUp
  BY <1>3, LoseKeeps
<1>4. CASE Detach \/ Crash
  BY <1>4, DetachKeeps, CrashKeeps
<1>5. CASE LoopStep
  BY <1>5, TakeIncomingKeeps, TakeEventKeeps, PublishKeeps, HearsOfItKeeps DEF LoopStep
<1>6. CASE \E p \in closing : PublishClosing(p)
  BY <1>6, PublishClosingKeeps
<1>7. ASSUME NEW r \in Requests, Begin(r) \/ RequestStep(r) PROVE IInv' /\ RowsKept
  <2>1. CASE Begin(r) \/ Pend(r) \/ Invite(r) \/ End(r)
    BY <2>1, PlainStepKeeps
  <2>2. CASE Look(r) \/ CleanUp(r)
    BY <2>2, LookKeeps
  <2>3. CASE Act(r)
    BY <2>3, ActKeeps
  <2>4. CASE Dialed(r) \/ Store(r) \/ Again(r)
    BY <2>4, DialedKeeps, StoreKeeps, AgainKeeps
  <2>5. CASE PublishOwn(r) \/ SaveOwn(r)
    BY <2>5, WriteOwnKeeps
  <2>6. CASE Hangup(r)
    BY <2>6, HangupKeeps
  <2>7. CASE OpenMedia(r) \/ Delete(r)
    BY <2>7, OpenMediaKeeps
  <2> QED
    BY <1>7, <2>1, <2>2, <2>3, <2>4, <2>5, <2>6, <2>7 DEF RequestStep
<1> QED
  BY <1>1, <1>2, <1>3, <1>4, <1>5, <1>6, <1>7 DEF Next

\* The inductive invariant: the types, and that every record and everything that
\* is going to be written as a call that goes on is covered.
THEOREM Invariance == Spec => []IInv
<1>1. IInv /\ [Next]_vars => IInv'
  BY StepKeeps
<1> QED
  BY <1>1, InitEstablishes, PTL DEF Spec

\* Every variable stays within its type.
THEOREM TypeCorrect == Spec => []TypeOK
<1>1. IInv => TypeOK
  BY DEF IInv, Typed
<1> QED
  BY <1>1, Invariance, PTL

\* A record of a call that is not over has somebody who will end it: the session
\* (its table), or whoever publishes or saves the end.
THEOREM BackedAlways == Spec => []Backed
<1>1. IInv => Backed
  BY DEF IInv, WellCovered, Covered, Ending, Closes, Backed, IsLive, IsTerminal
<1> QED
  BY <1>1, Invariance, PTL

\* A record that has ended never says again that its call goes on.
THEOREM EndedStays == Spec => StaysEnded
<1>1. IInv /\ [Next]_vars => [\A c \in Calls : IsTerminal(rows[c]) => rows'[c] = None \/ IsTerminal(rows'[c])]_vars
  BY StepKeeps DEF RowsKept
<1> QED
  BY <1>1, Invariance, PTL DEF Spec, StaysEnded

\* When a call was answered stays in its record as long as there is one.
THEOREM AnswerStays == Spec => AnsweredKept
<1>1. IInv /\ [Next]_vars => [\A c \in Calls : rows[c].ans => rows'[c] = None \/ rows'[c].ans]_vars
  BY StepKeeps DEF RowsKept
<1> QED
  BY <1>1, Invariance, PTL DEF Spec, AnsweredKept

-----------------------------------------------------------------------------
(* The bridges of calls and browsers: CallMedia. *)

\* Nothing happens to a bridge before it is made.
WellOpened(b) ==
  /\ peer[b].state = "none" =>
       /\ socket[b] \in {"reading", "opening", "gone"}
       /\ peer[b].pending = {} /\ ~timer[b].set /\ timer[b].fired = "no"
       /\ closers[b] = NoCloser /\ stop[b] = "no"
       /\ b \notin registered \cup hooked
  /\ socket[b] \in {"reading", "opening"} => peer[b].state = "none"

\* How far a socket is with its bridge. One that is gone leaves a bridge behind
\* that Media may close, or none.
WellServed(b) ==
  /\ socket[b] \in {"made", "refused", "registered"} => b \notin hooked
  /\ socket[b] = "refused" => closers[b]["socket"] # "no"
  /\ socket[b] = "registered" => b \in registered
  /\ socket[b] \in {"answering", "serving", "leaving"} => b \in hooked
  /\ socket[b] = "gone" /\ peer[b].state # "none" => b \in hooked \/ stop[b] = "done"

\* A bridge that is connected can be closed by Media, or does nothing any more.
WellStopped(b) ==
  /\ peer[b].state \in {"connected", "disconnected", "failed"} \/ "connected" \in peer[b].pending
       \/ Working(b) # {} => b \in hooked
  /\ stop[b] = "done" => peer[b].state = "closed"
  /\ b \in hooked /\ b \notin registered => stop[b] = "done" /\ Working(b) = {}
  /\ \A w \in Who : closers[b][w] = "over" => stop[b] = "done" /\ Working(b) = {}

Well(b) == WellOpened(b) /\ WellServed(b) /\ WellStopped(b)

\* Media closes every bridge that was registered by then, and the factory last.
WellMedia ==
  /\ media.closing <=> media.pc # "runs"
  /\ media.pc # "closing" => media.left = {}
  /\ \A b \in media.left : peer[b].state # "none"
  /\ media.closing => \A b \in registered : b \in media.left \/ closers[b]["media"] = "over"
  /\ factory.closed # {} => media.pc = "closed"

\* The factories are numbered, and those that were closed are past.
WellFactory ==
  factory.now <= factory.last /\ \A g \in factory.closed : 1 <= g /\ g <= factory.last

MediaIInv == MediaTypeOK /\ WellFactory /\ WellMedia /\ \A b \in Bridges : Well(b)

-----------------------------------------------------------------------------
(* What is the same for all steps of one bridge. *)

\* The other bridges are as they were.
Beside(b) ==
  /\ \A u \in Bridges \ {b} :
       /\ socket'[u] = socket[u] /\ peer'[u] = peer[u] /\ timer'[u] = timer[u]
       /\ stop'[u] = stop[u] /\ workers'[u] = workers[u] /\ closers'[u] = closers[u]
       /\ u \in registered' <=> u \in registered
       /\ u \in hooked' <=> u \in hooked

LEMMA WellBeside ==
  ASSUME MediaIInv, NEW b \in Bridges, Beside(b), Well(b)'
  PROVE  \A u \in Bridges : Well(u)'
<1> SUFFICES ASSUME NEW u \in Bridges, u # b PROVE Well(u)'
  BY DEF Well, WellOpened, WellServed, WellStopped, Working
<1>1. /\ socket'[u] = socket[u] /\ peer'[u] = peer[u] /\ timer'[u] = timer[u]
      /\ stop'[u] = stop[u] /\ workers'[u] = workers[u] /\ closers'[u] = closers[u]
      /\ u \in registered' <=> u \in registered
      /\ u \in hooked' <=> u \in hooked
  BY DEF Beside
<1>2. Well(u)
  BY DEF MediaIInv
<1>3. Working(u)' = Working(u)
  BY <1>1 DEF Working
<1>4. WellOpened(u)'
  BY <1>1, <1>2 DEF Well, WellOpened
<1>5. WellServed(u)'
  BY <1>1, <1>2 DEF Well, WellServed
<1>6. WellStopped(u)'
  BY <1>1, <1>2, <1>3 DEF Well, WellStopped
<1> QED
  BY <1>4, <1>5, <1>6 DEF Well

\* What Media counts on.
Steady(b) ==
  /\ UNCHANGED media /\ factory'.closed = factory.closed
  /\ registered' \subseteq registered
  /\ peer[b].state # "none" => peer'[b].state # "none"
  /\ closers[b]["media"] = "over" => closers'[b]["media"] = "over"

LEMMA WellMediaBeside ==
  ASSUME MediaIInv, NEW b \in Bridges, Beside(b), Steady(b)
  PROVE  WellMedia'
<1>1. media.left \subseteq Bridges /\ registered \subseteq Bridges
  BY DEF MediaIInv, MediaTypeOK
<1>2. ASSUME NEW u \in Bridges
      PROVE  /\ peer[u].state # "none" => peer'[u].state # "none"
             /\ closers[u]["media"] = "over" => closers'[u]["media"] = "over"
  BY DEF Beside, Steady
<1>3. WellMedia /\ media' = media /\ factory'.closed = factory.closed /\ registered' \subseteq registered
  BY DEF Steady, MediaIInv
<1>4. (media.closing <=> media.pc # "runs")'
  BY <1>3, Zenon DEF WellMedia
<1>5. \A u \in media'.left : peer'[u].state # "none"
  <2> SUFFICES ASSUME NEW u \in media'.left PROVE peer'[u].state # "none"
    OBVIOUS
  <2>1. u \in media.left
    BY <1>3, Zenon
  <2>2. u \in Bridges
    BY <1>1, <2>1
  <2>3. peer[u].state # "none"
    BY <1>3, <2>1, Zenon DEF WellMedia
  <2> QED
    BY <1>2, <2>2, <2>3
<1>6. media'.closing => \A u \in registered' : u \in media'.left \/ closers'[u]["media"] = "over"
  <2> SUFFICES ASSUME media'.closing, NEW u \in registered'
               PROVE  u \in media'.left \/ closers'[u]["media"] = "over"
    OBVIOUS
  <2>1. media.closing /\ u \in registered /\ u \in Bridges
    BY <1>1, <1>3, Zenon
  <2>2. u \in media.left \/ closers[u]["media"] = "over"
    BY <1>3, <2>1, Zenon DEF WellMedia
  <2>3. u \in media'.left <=> u \in media.left
    BY <1>3, Zenon
  <2> QED
    BY <1>2, <2>1, <2>2, <2>3
<1>7. (media'.pc # "closing" => media'.left = {}) /\ (factory'.closed # {} => media'.pc = "closed")
  BY <1>3 DEF WellMedia
<1> QED
  BY <1>4, <1>5, <1>6, <1>7 DEF WellMedia

LEMMA StepIs ==
  ASSUME MediaIInv, NEW b \in Bridges, MediaTypeOK', WellFactory', Beside(b), Steady(b), Well(b)'
  PROVE  MediaIInv'
BY WellBeside, WellMediaBeside DEF MediaIInv

LEMMA FactoryKept ==
  ASSUME MediaIInv, UNCHANGED factory
  PROVE  WellFactory'
BY DEF MediaIInv, WellFactory

\* What a step does to one field.
LEMMA EntersIs ==
  ASSUME MediaIInv, NEW b \in Bridges, NEW w \in Who, Enters(b, w) \/ UNCHANGED closers
  PROVE  /\ closers' \in [Bridges -> [Who -> {"no", "stop", "over"}]]
         /\ \A u \in Bridges \ {b} : closers'[u] = closers[u]
         /\ \A x \in Who : closers[b][x] # "no" => closers'[b][x] = closers[b][x]
         /\ \A x \in Who : closers'[b][x] = "over" <=> closers[b][x] = "over"
         /\ Enters(b, w) => closers'[b][w] # "no"
<1>1. closers \in [Bridges -> [Who -> {"no", "stop", "over"}]]
  BY DEF MediaIInv, MediaTypeOK
<1>2. CASE Enters(b, w)
  <2> DEFINE k == IF closers[b][w] = "no" THEN "stop" ELSE closers[b][w]
  <2>1. closers' = [closers EXCEPT ![b][w] = k]
    BY <1>2 DEF Enters
  <2>2. k \in {"stop", "over"} /\ (closers[b][w] # "no" => k = closers[b][w])
        /\ (k = "over" <=> closers[b][w] = "over")
    BY <1>1
  <2> HIDE DEF k
  <2>3. /\ closers' \in [Bridges -> [Who -> {"no", "stop", "over"}]] /\ closers'[b][w] = k
        /\ \A u \in Bridges \ {b} : closers'[u] = closers[u]
        /\ \A x \in Who \ {w} : closers'[b][x] = closers[b][x]
    BY <1>1, <2>1, <2>2
  <2> QED
    BY <2>2, <2>3
<1>3. CASE UNCHANGED closers /\ ~Enters(b, w)
  BY <1>1, <1>3
<1> QED
  BY <1>2, <1>3

LEMMA StartIs ==
  ASSUME MediaIInv, NEW b \in Bridges, NEW w \in Ways, StartWorker(b, w)
  PROVE  /\ workers' \in [Bridges -> [Ways -> {"none", "runs", "over"}]]
         /\ \A u \in Bridges \ {b} : workers'[u] = workers[u]
         /\ stop[b] = "done" => Working(b)' = Working(b)
BY DEF MediaIInv, MediaTypeOK, StartWorker, Working

LEMMA PeerIs ==
  ASSUME MediaIInv, NEW b \in Bridges
  PROVE  /\ peer[b].state \in Peers /\ peer[b].moves \in Nat /\ peer[b].pending \in SUBSET Peers
         /\ timer[b].set \in BOOLEAN /\ timer[b].fired \in {"no", "close", "forget"}
BY DEF MediaIInv, MediaTypeOK

\* A bridge that is there stays there.
LEMMA MadeStays ==
  ASSUME MediaIInv, NEW b \in Bridges,
         peer[b].pending # {} \/ timer[b].set \/ timer[b].fired # "no" \/ stop[b] # "no"
         \/ Working(b) # {} \/ b \in registered \cup hooked \cup media.left
         \/ (\E w \in Who : closers[b][w] # "no")
         \/ socket[b] \notin {"reading", "opening", "gone"}
  PROVE  peer[b].state # "none" /\ socket[b] \notin {"reading", "opening"}
<1>1. Well(b) /\ WellMedia
  BY DEF MediaIInv
<1>2. peer[b].state # "none"
  BY <1>1 DEF Well, WellOpened, WellStopped, WellMedia, NoCloser
<1> QED
  BY <1>1, <1>2 DEF Well, WellOpened

\* The type invariant, by what most steps leave as it is.
TypeSocket == socket \in [Bridges -> Sockets] /\ registered \subseteq Bridges /\ hooked \subseteq Bridges
TypeMedia  == media \in [pc : {"runs", "closing", "closed"}, left : SUBSET Bridges, closing : BOOLEAN]
TypeFactory ==
  /\ factory \in [now : Nat, last : Nat, closed : SUBSET Nat] /\ factory.now \notin factory.closed
  /\ using \in [Bridges -> Nat]
TypePeer   == peer \in [Bridges -> [state : Peers, moves : Nat, pending : SUBSET Peers]]
TypeTimer  == timer \in [Bridges -> [set : BOOLEAN, fired : {"no", "close", "forget"}]]
TypeFlags  == connected \in [Bridges -> BOOLEAN] /\ done \subseteq Bridges
TypeStop   == stop \in [Bridges -> {"no", "begun", "done"}]
TypeWorkers == workers \in [Bridges -> [Ways -> {"none", "runs", "over"}]]
TypeClosers == closers \in [Bridges -> [Who -> {"no", "stop", "over"}]]

LEMMA TypeIs ==
  MediaTypeOK <=> /\ TypeSocket /\ TypeMedia /\ TypeFactory /\ TypePeer /\ TypeTimer
             /\ TypeFlags /\ TypeStop /\ TypeWorkers /\ TypeClosers
BY Zenon DEF MediaTypeOK, TypeSocket, TypeMedia, TypeFactory, TypePeer, TypeTimer, TypeFlags,
             TypeStop, TypeWorkers, TypeClosers

\* What is not changed keeps its type.
LEMMA TypeKept ==
  ASSUME MediaTypeOK
  PROVE  /\ TypeSocket /\ UNCHANGED <<socket, registered, hooked>> => TypeSocket'
         /\ UNCHANGED media => TypeMedia'
         /\ UNCHANGED <<factory, using>> => TypeFactory'
         /\ UNCHANGED peer => TypePeer'
         /\ UNCHANGED timer => TypeTimer'
         /\ UNCHANGED <<connected, done>> => TypeFlags'
         /\ UNCHANGED stop => TypeStop'
         /\ UNCHANGED workers => TypeWorkers'
         /\ UNCHANGED closers => TypeClosers'
<1>1. /\ TypeSocket /\ TypeMedia /\ TypeFactory /\ TypePeer /\ TypeTimer
      /\ TypeFlags /\ TypeStop /\ TypeWorkers /\ TypeClosers
  BY TypeIs
<1> QED
  BY <1>1, Zenon DEF TypeSocket, TypeMedia, TypeFactory, TypePeer, TypeTimer, TypeFlags,
                     TypeStop, TypeWorkers, TypeClosers

\* The type invariant holds of the next state when it does of each part.
LEMMA TypeNext ==
  ASSUME TypeSocket', TypeMedia', TypeFactory', TypePeer', TypeTimer', TypeFlags', TypeStop',
         TypeWorkers', TypeClosers'
  PROVE  MediaTypeOK'
BY TypeIs, PTL

-----------------------------------------------------------------------------
(* The socket. *)

LEMMA OfferStep ==
  ASSUME MediaIInv, NEW b \in Bridges, Offer(b)
  PROVE  MediaIInv'
<1>1. /\ MediaTypeOK' /\ UNCHANGED <<registered, hooked, media, factory, conn, ends>>
      /\ socket[b] = "reading" /\ socket'[b] = "opening"
      /\ \A u \in Bridges \ {b} : socket'[u] = socket[u]
  <2>1. MediaTypeOK /\ TypeSocket
    BY TypeIs DEF MediaIInv
  <2>2. TypeSocket'
    BY <2>1 DEF TypeSocket, Offer, Sockets
  <2>3. MediaTypeOK'
    BY <2>1, <2>2, TypeKept, TypeNext DEF Offer, conn, ends
  <2> QED
    BY <2>1, <2>3 DEF TypeSocket, Offer
<1>2. Beside(b) /\ Steady(b)
  BY <1>1 DEF Beside, Steady, conn, ends
<1>3. Well(b)'
  <2>1. Well(b)
    BY DEF MediaIInv
  <2>2. Working(b)' = Working(b)
    BY <1>1 DEF Working, ends
  <2> QED
    BY <1>1, <2>1, <2>2 DEF Well, WellOpened, WellServed, WellStopped, conn, ends
<1> QED
  BY <1>1, <1>2, <1>3, StepIs, FactoryKept

LEMMA HookStep ==
  ASSUME MediaIInv, NEW b \in Bridges, Hook(b)
  PROVE  MediaIInv'
<1>1. /\ MediaTypeOK' /\ UNCHANGED <<registered, media, factory, conn, ends>>
      /\ socket[b] = "registered" /\ socket'[b] = "answering" /\ hooked' = hooked \cup {b}
      /\ \A u \in Bridges \ {b} : socket'[u] = socket[u]
  <2>1. MediaTypeOK /\ TypeSocket
    BY TypeIs DEF MediaIInv
  <2>2. TypeSocket'
    BY <2>1 DEF TypeSocket, Hook, Sockets
  <2>3. MediaTypeOK'
    BY <2>1, <2>2, TypeKept, TypeNext DEF Hook, conn, ends
  <2> QED
    BY <2>1, <2>3 DEF TypeSocket, Hook
<1>2. Beside(b) /\ Steady(b)
  BY <1>1 DEF Beside, Steady, conn, ends
<1>3. Well(b)'
  <2>1. Well(b) /\ b \in registered
    BY <1>1 DEF MediaIInv, Well, WellServed
  <2>2. Working(b)' = Working(b)
    BY <1>1 DEF Working, ends
  <2> QED
    BY <1>1, <2>1, <2>2 DEF Well, WellOpened, WellServed, WellStopped, conn, ends
<1> QED
  BY <1>1, <1>2, <1>3, StepIs, FactoryKept

LEMMA AnswerStep ==
  ASSUME MediaIInv, NEW b \in Bridges, Answer(b) \/ Leave(b)
  PROVE  MediaIInv'
<1>1. /\ MediaTypeOK' /\ UNCHANGED <<registered, hooked, media, factory, conn, ends>>
      /\ \/ socket[b] = "reading" /\ socket'[b] = "gone"
         \/ socket[b] \in {"answering", "serving"} /\ socket'[b] \in {"serving", "leaving"}
      /\ \A u \in Bridges \ {b} : socket'[u] = socket[u]
  <2>1. MediaTypeOK /\ TypeSocket
    BY TypeIs DEF MediaIInv
  <2>2. TypeSocket'
    BY <2>1 DEF TypeSocket, Answer, Leave, Sockets
  <2>3. MediaTypeOK'
    BY <2>1, <2>2, TypeKept, TypeNext DEF Answer, Leave, conn, ends
  <2> QED
    BY <2>1, <2>3 DEF TypeSocket, Answer, Leave
<1>2. Beside(b) /\ Steady(b)
  BY <1>1 DEF Beside, Steady, conn, ends
<1>3. Well(b)'
  <2>1. Well(b)
    BY DEF MediaIInv
  <2>2. Working(b)' = Working(b)
    BY <1>1 DEF Working, ends
  <2> QED
    BY <1>1, <2>1, <2>2 DEF Well, WellOpened, WellServed, WellStopped, conn, ends
<1> QED
  BY <1>1, <1>2, <1>3, StepIs, FactoryKept

\* A bridge that is made is new, and its factory is none of those closed.
LEMMA OpenStep ==
  ASSUME MediaIInv, NEW b \in Bridges, Open(b)
  PROVE  MediaIInv'
<1>1. MediaTypeOK /\ TypeSocket /\ TypePeer /\ TypeFactory /\ WellFactory /\ Well(b)
  BY TypeIs DEF MediaIInv
<1>2. /\ UNCHANGED <<registered, hooked, media, timer, connected, ends>>
      /\ socket[b] = "opening" /\ socket'[b] \in {"made", "gone"}
      /\ \A u \in Bridges \ {b} : socket'[u] = socket[u]
      /\ TypeSocket'
  BY <1>1 DEF TypeSocket, Open, Sockets
<1>3. /\ TypePeer' /\ peer[b].state = "none" /\ peer'[b].pending = {}
      /\ \A u \in Bridges \ {b} : peer'[u] = peer[u]
      /\ peer'[b].state = (IF socket'[b] = "made" THEN "new" ELSE "none")
  <2>1. peer[b].state = "none" /\ peer[b].pending = {}
    BY <1>1, <1>2 DEF Well, WellOpened
  <2>2. CASE socket' = [socket EXCEPT ![b] = "made"] /\ peer' = [peer EXCEPT ![b].state = "new"]
    BY <1>1, <2>1, <2>2 DEF TypePeer, TypeSocket, Peers
  <2>3. CASE socket' = [socket EXCEPT ![b] = "gone"] /\ UNCHANGED peer
    BY <1>1, <2>1, <2>3 DEF TypePeer, TypeSocket
  <2> QED
    BY <2>2, <2>3 DEF Open
<1>4. TypeFactory' /\ WellFactory' /\ factory'.closed = factory.closed
  <2>1. CASE UNCHANGED <<factory, using>>
    BY <1>1, <2>1, TypeKept DEF WellFactory
  <2>2. CASE ~UNCHANGED <<factory, using>>
    <3> DEFINE g == IF factory.now = 0 THEN factory.last + 1 ELSE factory.now
               l == IF g > factory.last THEN g ELSE factory.last
    <3>1. factory' = [factory EXCEPT !.now = g, !.last = l] /\ using' = [using EXCEPT ![b] = g]
      BY <2>2 DEF Open
    <3>2. /\ factory.now \in Nat /\ factory.last \in Nat /\ factory.closed \in SUBSET Nat
          /\ factory.now \notin factory.closed
          /\ factory.now <= factory.last
          /\ \A x \in factory.closed : 1 <= x /\ x <= factory.last
      BY <1>1 DEF TypeFactory, WellFactory
    <3>3. g \in Nat /\ l \in Nat /\ g <= l /\ factory.last <= l
      BY <3>2
    <3>4. g \notin factory.closed
      BY <3>2
    <3> HIDE DEF g, l
    <3>5. /\ factory'.now = g /\ factory'.last = l /\ factory'.closed = factory.closed
          /\ factory' \in [now : Nat, last : Nat, closed : SUBSET Nat]
          /\ using' \in [Bridges -> Nat]
      BY <1>1, <3>1, <3>3 DEF TypeFactory
    <3>6. \A x \in factory.closed : 1 <= x /\ x <= l
      BY <3>2, <3>3
    <3> QED
      BY <3>3, <3>4, <3>5, <3>6 DEF TypeFactory, WellFactory
  <2> QED
    BY <2>1, <2>2
<1>5. MediaTypeOK'
  BY <1>1, <1>2, <1>3, <1>4, TypeKept, TypeNext DEF ends
<1>6. Beside(b) /\ Steady(b)
  BY <1>2, <1>3, <1>4 DEF Beside, Steady, ends
<1>7. Well(b)'
  <2>1. Working(b)' = Working(b)
    BY <1>2 DEF Working, ends
  <2> QED
    BY <1>1, <1>2, <1>3, <2>1 DEF Well, WellOpened, WellServed, WellStopped, ends, NoCloser
<1> QED
  BY <1>4, <1>5, <1>6, <1>7, StepIs

\* A bridge that is registered is one Media has not begun to close.
LEMMA RegisterStep ==
  ASSUME MediaIInv, NEW b \in Bridges, Register(b)
  PROVE  MediaIInv'
<1>1. MediaTypeOK /\ TypeSocket /\ WellFactory /\ WellMedia /\ Well(b)
  BY TypeIs DEF MediaIInv
<1>2. /\ UNCHANGED <<hooked, media, factory, using, peer, timer, connected, stop, workers, done>>
      /\ socket[b] = "made" /\ "socket" \in Who
      /\ \/ MayRegister /\ registered' = registered \cup {b} /\ socket'[b] = "registered" /\ UNCHANGED closers
         \/ ~MayRegister /\ UNCHANGED registered /\ socket'[b] = "refused" /\ Enters(b, "socket")
      /\ \A u \in Bridges \ {b} : socket'[u] = socket[u]
      /\ TypeSocket'
  BY <1>1 DEF TypeSocket, Register, Sockets, conn, Who
<1>3. /\ closers' \in [Bridges -> [Who -> {"no", "stop", "over"}]]
      /\ \A u \in Bridges \ {b} : closers'[u] = closers[u]
      /\ \A x \in Who : closers'[b][x] = "over" <=> closers[b][x] = "over"
      /\ Enters(b, "socket") => closers'[b]["socket"] # "no"
  <2>1. ("socket" \in Who) /\ (Enters(b, "socket") \/ UNCHANGED closers)
    BY <1>2
  <2> QED
    BY <2>1, EntersIs, Zenon
<1>4. MediaTypeOK'
  BY <1>1, <1>2, <1>3, TypeKept, TypeNext DEF TypeClosers
<1>5. Beside(b)
  BY <1>2, <1>3 DEF Beside
<1>6. Well(b)'
  <2>1. Working(b)' = Working(b)
    BY <1>2 DEF Working
  <2>2. peer[b].state # "none"
    BY <1>2, MadeStays
  <2> QED
    BY <1>1, <1>2, <1>3, <2>1, <2>2 DEF Well, WellOpened, WellServed, WellStopped
<1>7. CASE MayRegister
  <2>1. WellMedia'
    <3>1. ~media.closing /\ UNCHANGED <<media, factory, peer>>
      BY <1>2, <1>7 DEF MayRegister
    <3> QED
      BY <1>1, <3>1, Zenon DEF WellMedia
  <2> QED
    BY <1>2, <1>4, <1>5, <1>6, <2>1, WellBeside, FactoryKept DEF MediaIInv
<1>8. CASE ~MayRegister
  <2>1. Steady(b)
    BY <1>2, <1>3, <1>8 DEF Steady, Who
  <2> QED
    BY <1>2, <1>4, <1>5, <1>6, <2>1, StepIs, FactoryKept
<1> QED
  BY <1>7, <1>8

LEMMA LeftStep ==
  ASSUME MediaIInv, NEW b \in Bridges, Left(b)
  PROVE  MediaIInv'
<1>1. MediaTypeOK /\ TypeSocket /\ WellFactory /\ Well(b)
  BY TypeIs DEF MediaIInv
<1>2. /\ UNCHANGED <<registered, hooked, media, factory, using, peer, timer, connected, stop, workers, done>>
      /\ socket'[b] = "gone" /\ "socket" \in Who /\ (Enters(b, "socket") \/ UNCHANGED closers)
      /\ socket[b] = "leaving" \/ (socket[b] = "refused" /\ closers[b]["socket"] = "over")
      /\ \A u \in Bridges \ {b} : socket'[u] = socket[u]
      /\ TypeSocket'
  BY <1>1 DEF TypeSocket, Left, Sockets, conn, Who
<1>3. /\ closers' \in [Bridges -> [Who -> {"no", "stop", "over"}]]
      /\ \A u \in Bridges \ {b} : closers'[u] = closers[u]
      /\ \A x \in Who : closers'[b][x] = "over" <=> closers[b][x] = "over"
  <2>1. ("socket" \in Who) /\ (Enters(b, "socket") \/ UNCHANGED closers)
    BY <1>2
  <2> QED
    BY <2>1, EntersIs, Zenon
<1>4. MediaTypeOK'
  BY <1>1, <1>2, <1>3, TypeKept, TypeNext DEF TypeClosers
<1>5. Beside(b) /\ Steady(b)
  BY <1>2, <1>3 DEF Beside, Steady, Who
<1>6. Well(b)'
  <2>1. Working(b)' = Working(b)
    BY <1>2 DEF Working
  <2>2. peer[b].state # "none"
    BY <1>2, MadeStays
  <2>3. b \in hooked \/ stop[b] = "done"
    BY <1>1, <1>2 DEF Well, WellServed, WellStopped
  <2> QED
    BY <1>1, <1>2, <1>3, <2>1, <2>2, <2>3 DEF Well, WellOpened, WellServed, WellStopped
<1> QED
  BY <1>2, <1>4, <1>5, <1>6, StepIs, FactoryKept

-----------------------------------------------------------------------------
(* The peer connection, its callbacks and the timer. *)

\* A callback has been run.
LEMMA RanIs ==
  ASSUME MediaIInv, NEW b \in Bridges, NEW st, Ran(b, st)
  PROVE  /\ TypePeer' /\ peer'[b].state = peer[b].state /\ peer'[b].pending \subseteq peer[b].pending
         /\ \A u \in Bridges \ {b} : peer'[u] = peer[u]
<1>1. TypePeer
  BY TypeIs DEF MediaIInv
<1> DEFINE left == peer[b].pending \ {st}
<1>2. peer' = [peer EXCEPT ![b].pending = left] /\ left \in SUBSET Peers /\ left \subseteq peer[b].pending
  BY <1>1 DEF Ran, TypePeer
<1> HIDE DEF left
<1> QED
  BY <1>1, <1>2 DEF TypePeer

\* The timer of the bridge is set or cancelled, or has fired.
LEMMA TimerIs ==
  ASSUME MediaIInv, NEW b \in Bridges, NEW s \in BOOLEAN, NEW f \in {"no", "close", "forget"},
         timer' = [timer EXCEPT ![b].set = s] \/ timer' = [timer EXCEPT ![b].fired = f]
         \/ timer' = [timer EXCEPT ![b].fired = f, ![b].set = s]
  PROVE  TypeTimer' /\ \A u \in Bridges \ {b} : timer'[u] = timer[u]
<1>1. TypeTimer
  BY TypeIs DEF MediaIInv
<1>2. timer \in [Bridges -> [set : BOOLEAN, fired : {"no", "close", "forget"}]]
  BY <1>1 DEF TypeTimer
<1>3. CASE timer' = [timer EXCEPT ![b].set = s]
  BY <1>2, <1>3 DEF TypeTimer
<1>4. CASE timer' = [timer EXCEPT ![b].fired = f]
  BY <1>2, <1>4 DEF TypeTimer
<1>5. CASE timer' = [timer EXCEPT ![b].fired = f, ![b].set = s]
  BY <1>2, <1>5 DEF TypeTimer
<1> QED
  BY <1>3, <1>4, <1>5

LEMMA PeerMovesStep ==
  ASSUME MediaIInv, NEW b \in Bridges, PeerMoves(b)
  PROVE  MediaIInv'
<1>1. MediaTypeOK /\ TypePeer /\ WellFactory /\ Well(b)
  BY TypeIs DEF MediaIInv
<1>2. /\ UNCHANGED <<sig, timer, connected, ends>>
      /\ peer[b].state \in {"new", "connected", "disconnected"}
      /\ socket[b] \in {"serving", "leaving", "gone"}
  BY DEF PeerMoves
<1>3. PICK to \in {"connected", "disconnected", "failed"} :
        peer' = [peer EXCEPT ![b] = [state |-> to, moves |-> @.moves + 1, pending |-> @.pending \cup {to}]]
  BY DEF PeerMoves
<1>4. TypePeer' /\ peer'[b].state = to /\ \A u \in Bridges \ {b} : peer'[u] = peer[u]
  <2>1. /\ peer[b].moves + 1 \in Nat /\ (peer[b].pending \cup {to}) \in SUBSET Peers /\ to \in Peers
    BY <1>1 DEF TypePeer, Peers
  <2> QED
    BY <1>1, <1>3, <2>1 DEF TypePeer
<1>5. MediaTypeOK'
  BY <1>1, <1>2, <1>4, TypeKept, TypeNext, TypeIs DEF sig, ends
<1>6. Beside(b) /\ Steady(b)
  BY <1>2, <1>4 DEF Beside, Steady, sig, ends
<1>7. Well(b)'
  <2>1. Working(b)' = Working(b)
    BY <1>2 DEF Working, ends
  <2>2. stop[b] # "done" /\ b \in hooked
    BY <1>1, <1>2 DEF Well, WellServed, WellStopped
  <2> QED
    BY <1>1, <1>2, <1>4, <2>1, <2>2 DEF Well, WellOpened, WellServed, WellStopped, sig, ends
<1> QED
  BY <1>2, <1>5, <1>6, <1>7, StepIs, FactoryKept DEF sig

LEMMA ReadyStep ==
  ASSUME MediaIInv, NEW b \in Bridges, Ready(b)
  PROVE  MediaIInv'
<1>1. MediaTypeOK /\ TypeFlags /\ WellFactory /\ Well(b)
  BY TypeIs DEF MediaIInv
<1>2. /\ UNCHANGED <<sig, stop, closers, done>>
      /\ connected' = [connected EXCEPT ![b] = TRUE]
      /\ "connected" \in peer[b].pending
  BY DEF Ready
<1>3. /\ TypePeer' /\ peer'[b].state = peer[b].state /\ peer'[b].pending \subseteq peer[b].pending
      /\ \A u \in Bridges \ {b} : peer'[u] = peer[u]
  BY RanIs DEF Ready
<1>4. TypeTimer' /\ \A u \in Bridges \ {b} : timer'[u] = timer[u]
  BY TimerIs DEF Ready, CancelTimer
<1>5. /\ TypeWorkers' /\ \A u \in Bridges \ {b} : workers'[u] = workers[u]
      /\ stop[b] = "done" => Working(b)' = Working(b)
  BY StartIs DEF Ready, Ways, TypeWorkers
<1>6. MediaTypeOK'
  <2>1. TypeFlags'
    BY <1>1, <1>2 DEF TypeFlags
  <2> QED
    BY <1>1, <1>2, <1>3, <1>4, <1>5, <2>1, TypeKept, TypeNext, TypeIs DEF sig
<1>7. Beside(b) /\ Steady(b)
  BY <1>2, <1>3, <1>4, <1>5 DEF Beside, Steady, sig
<1>8. Well(b)'
  <2>1. peer[b].state # "none" /\ b \in hooked
    BY <1>1, <1>2, MadeStays DEF Well, WellStopped
  <2> QED
    BY <1>1, <1>2, <1>3, <1>5, <2>1 DEF Well, WellOpened, WellServed, WellStopped, sig
<1> QED
  BY <1>2, <1>6, <1>7, <1>8, StepIs, FactoryKept DEF sig

LEMMA GraceCloseStep ==
  ASSUME MediaIInv, NEW b \in Bridges, GraceClose(b)
  PROVE  MediaIInv'
<1>1. MediaTypeOK /\ WellFactory /\ Well(b)
  BY DEF MediaIInv
<1>2. UNCHANGED <<sig, connected, ends>> /\ "disconnected" \in peer[b].pending
  BY DEF GraceClose
<1>3. /\ TypePeer' /\ peer'[b].state = peer[b].state /\ peer'[b].pending \subseteq peer[b].pending
      /\ \A u \in Bridges \ {b} : peer'[u] = peer[u]
  BY RanIs DEF GraceClose
<1>4. TypeTimer' /\ \A u \in Bridges \ {b} : timer'[u] = timer[u]
  BY TimerIs DEF GraceClose
<1>5. MediaTypeOK'
  BY <1>1, <1>2, <1>3, <1>4, TypeKept, TypeNext, TypeIs DEF sig, ends
<1>6. Beside(b) /\ Steady(b)
  BY <1>2, <1>3, <1>4 DEF Beside, Steady, sig, ends
<1>7. Well(b)'
  <2>1. Working(b)' = Working(b)
    BY <1>2 DEF Working, ends
  <2>2. peer[b].state # "none"
    BY <1>2, MadeStays
  <2> QED
    BY <1>1, <1>2, <1>3, <2>1, <2>2 DEF Well, WellOpened, WellServed, WellStopped, sig, ends
<1> QED
  BY <1>2, <1>5, <1>6, <1>7, StepIs, FactoryKept DEF sig

LEMMA CloseNowStep ==
  ASSUME MediaIInv, NEW b \in Bridges, CloseNow(b)
  PROVE  MediaIInv'
<1>1. MediaTypeOK /\ WellFactory /\ Well(b)
  BY DEF MediaIInv
<1>2. /\ UNCHANGED <<sig, timer, connected, stop, workers, done>> /\ peer[b].pending # {}
      /\ "peer" \in Who /\ (Enters(b, "peer") \/ UNCHANGED closers)
  BY DEF CloseNow, Who
<1>3. /\ TypePeer' /\ peer'[b].state = peer[b].state /\ peer'[b].pending \subseteq peer[b].pending
      /\ \A u \in Bridges \ {b} : peer'[u] = peer[u]
  BY RanIs DEF CloseNow
<1>4. /\ TypeClosers' /\ \A u \in Bridges \ {b} : closers'[u] = closers[u]
      /\ \A x \in Who : closers[b][x] # "no" => closers'[b][x] = closers[b][x]
      /\ \A x \in Who : closers'[b][x] = "over" <=> closers[b][x] = "over"
  <2>1. "peer" \in Who /\ (Enters(b, "peer") \/ UNCHANGED closers)
    BY <1>2
  <2> QED
    BY <2>1, EntersIs, Zenon DEF TypeClosers
<1>5. MediaTypeOK'
  BY <1>1, <1>2, <1>3, <1>4, TypeKept, TypeNext, TypeIs DEF sig
<1>6. Beside(b) /\ Steady(b)
  BY <1>2, <1>3, <1>4 DEF Beside, Steady, sig, Who
<1>7. Well(b)'
  <2>1. Working(b)' = Working(b)
    BY <1>2 DEF Working
  <2>2. peer[b].state # "none"
    BY <1>2, MadeStays
  <2>3. closers[b]["socket"] # "no" => closers'[b]["socket"] # "no"
    BY <1>4 DEF Who
  <2> QED
    BY <1>1, <1>2, <1>3, <1>4, <2>1, <2>2, <2>3 DEF Well, WellOpened, WellServed, WellStopped, sig
<1> QED
  BY <1>2, <1>5, <1>6, <1>7, StepIs, FactoryKept DEF sig

LEMMA TrackStep ==
  ASSUME MediaIInv, NEW b \in Bridges, Track(b)
  PROVE  MediaIInv'
<1>1. MediaTypeOK /\ WellFactory /\ Well(b)
  BY DEF MediaIInv
<1>2. UNCHANGED <<sig, conn, stop, closers, done>> /\ peer[b].state = "connected"
  BY DEF Track
<1>3. /\ TypeWorkers' /\ \A u \in Bridges \ {b} : workers'[u] = workers[u]
      /\ stop[b] = "done" => Working(b)' = Working(b)
  BY StartIs DEF Track, Ways, TypeWorkers
<1>4. MediaTypeOK'
  BY <1>1, <1>2, <1>3, TypeKept, TypeNext, TypeIs DEF sig, conn
<1>5. Beside(b) /\ Steady(b)
  BY <1>2, <1>3 DEF Beside, Steady, sig, conn
<1>6. Well(b)'
  BY <1>1, <1>2, <1>3 DEF Well, WellOpened, WellServed, WellStopped, sig, conn
<1> QED
  BY <1>2, <1>4, <1>5, <1>6, StepIs, FactoryKept DEF sig

LEMMA FiresStep ==
  ASSUME MediaIInv, NEW b \in Bridges, Fires(b)
  PROVE  MediaIInv'
<1>1. MediaTypeOK /\ WellFactory /\ Well(b)
  BY DEF MediaIInv
<1>2. UNCHANGED <<sig, peer, connected, ends>> /\ timer[b].set
  BY DEF Fires
<1>3. TypeTimer' /\ \A u \in Bridges \ {b} : timer'[u] = timer[u]
  BY TimerIs DEF Fires
<1>4. MediaTypeOK'
  BY <1>1, <1>2, <1>3, TypeKept, TypeNext, TypeIs DEF sig, ends
<1>5. Beside(b) /\ Steady(b)
  BY <1>2, <1>3 DEF Beside, Steady, sig, ends
<1>6. Well(b)'
  <2>1. Working(b)' = Working(b)
    BY <1>2 DEF Working, ends
  <2>2. peer[b].state # "none"
    BY <1>2, MadeStays
  <2> QED
    BY <1>1, <1>2, <2>1, <2>2 DEF Well, WellOpened, WellServed, WellStopped, sig, ends
<1> QED
  BY <1>2, <1>4, <1>5, <1>6, StepIs, FactoryKept DEF sig

LEMMA FiredStep ==
  ASSUME MediaIInv, NEW b \in Bridges, Fired(b)
  PROVE  MediaIInv'
<1>1. MediaTypeOK /\ WellFactory /\ Well(b)
  BY DEF MediaIInv
<1>2. /\ UNCHANGED <<sig, peer, connected, stop, workers, done>> /\ timer[b].fired # "no"
      /\ "timer" \in Who /\ (Enters(b, "timer") \/ UNCHANGED closers)
  BY DEF Fired, Who
<1>3. TypeTimer' /\ \A u \in Bridges \ {b} : timer'[u] = timer[u]
  <2>1. \E s \in BOOLEAN : timer' = [timer EXCEPT ![b].fired = "no", ![b].set = s]
    <3>1. timer[b].set \in BOOLEAN
      BY PeerIs
    <3>2. CASE timer[b].fired = "forget"
      BY <3>2 DEF Fired
    <3>3. CASE timer[b].fired # "forget"
      <4>1. timer' = [timer EXCEPT ![b].fired = "no", ![b].set = timer[b].set]
        BY <3>3, PeerIs DEF Fired, MediaIInv, MediaTypeOK
      <4> QED
        BY <3>1, <4>1
    <3> QED
      BY <3>2, <3>3
  <2> QED
    BY <2>1, TimerIs
<1>4. /\ TypeClosers' /\ \A u \in Bridges \ {b} : closers'[u] = closers[u]
      /\ \A x \in Who : closers[b][x] # "no" => closers'[b][x] = closers[b][x]
      /\ \A x \in Who : closers'[b][x] = "over" <=> closers[b][x] = "over"
  <2>1. "timer" \in Who /\ (Enters(b, "timer") \/ UNCHANGED closers)
    BY <1>2
  <2> QED
    BY <2>1, EntersIs, Zenon DEF TypeClosers
<1>5. MediaTypeOK'
  BY <1>1, <1>2, <1>3, <1>4, TypeKept, TypeNext, TypeIs DEF sig
<1>6. Beside(b) /\ Steady(b)
  BY <1>2, <1>3, <1>4 DEF Beside, Steady, sig, Who
<1>7. Well(b)'
  <2>1. Working(b)' = Working(b)
    BY <1>2 DEF Working
  <2>2. peer[b].state # "none"
    BY <1>2, MadeStays
  <2>3. closers[b]["socket"] # "no" => closers'[b]["socket"] # "no"
    BY <1>4 DEF Who
  <2> QED
    BY <1>1, <1>2, <1>4, <2>1, <2>2, <2>3 DEF Well, WellOpened, WellServed, WellStopped, sig
<1> QED
  BY <1>2, <1>5, <1>6, <1>7, StepIs, FactoryKept DEF sig

-----------------------------------------------------------------------------
(* Stopping and closing. *)

\* stop has been entered, with its timer cancelled first.
LEMMA StopBeginsStep ==
  ASSUME MediaIInv, NEW b \in Bridges, WorkerFails(b) \/ CloserStops(b)
  PROVE  MediaIInv'
<1>1. MediaTypeOK /\ TypeStop /\ WellFactory /\ Well(b)
  BY TypeIs DEF MediaIInv
<1>2. /\ UNCHANGED <<sig, peer, connected, workers, closers, done>> /\ StopBegins(b)
      /\ Working(b) # {} \/ (\E w \in Who : closers[b][w] # "no")
  BY DEF WorkerFails, CloserStops
<1>3. TypeTimer' /\ \A u \in Bridges \ {b} : timer'[u] = timer[u]
  BY <1>2, TimerIs DEF StopBegins, CancelTimer
<1>4. /\ TypeStop' /\ stop[b] = "no" /\ stop'[b] = "begun"
      /\ \A u \in Bridges \ {b} : stop'[u] = stop[u]
  BY <1>1, <1>2 DEF StopBegins, TypeStop
<1>5. MediaTypeOK'
  BY <1>1, <1>2, <1>3, <1>4, TypeKept, TypeNext, TypeIs DEF sig
<1>6. Beside(b) /\ Steady(b)
  BY <1>2, <1>3, <1>4 DEF Beside, Steady, sig
<1>7. Well(b)'
  <2>1. Working(b)' = Working(b)
    BY <1>2 DEF Working
  <2>2. peer[b].state # "none"
    BY <1>2, MadeStays
  <2> QED
    BY <1>1, <1>2, <1>4, <2>1, <2>2 DEF Well, WellOpened, WellServed, WellStopped, sig
<1> QED
  BY <1>2, <1>5, <1>6, <1>7, StepIs, FactoryKept DEF sig

LEMMA StopEndsStep ==
  ASSUME MediaIInv, NEW b \in Bridges, StopEnds(b)
  PROVE  MediaIInv'
<1>1. MediaTypeOK /\ TypeStop /\ TypePeer /\ WellFactory /\ Well(b)
  BY TypeIs DEF MediaIInv
<1>2. UNCHANGED <<sig, timer, connected, workers, closers, done>> /\ stop[b] = "begun"
  BY DEF StopEnds
<1>3. /\ TypeStop' /\ stop'[b] = "done"
      /\ \A u \in Bridges \ {b} : stop'[u] = stop[u]
  BY <1>1 DEF StopEnds, TypeStop
<1>4. /\ TypePeer' /\ peer'[b].state = "closed" /\ peer'[b].pending = peer[b].pending \cup {"closed"}
      /\ \A u \in Bridges \ {b} : peer'[u] = peer[u]
  <2> DEFINE more == peer[b].pending \cup {"closed"}
  <2>1. peer \in [Bridges -> [state : Peers, moves : Nat, pending : SUBSET Peers]]
    BY <1>1 DEF TypePeer
  <2>2. more \in SUBSET Peers /\ "closed" \in Peers
    BY <2>1 DEF Peers
  <2>3. peer' = [peer EXCEPT ![b].state = "closed", ![b].pending = more]
    BY DEF StopEnds
  <2>4. more = peer[b].pending \cup {"closed"}
    OBVIOUS
  <2> HIDE DEF more
  <2>5. /\ peer' \in [Bridges -> [state : Peers, moves : Nat, pending : SUBSET Peers]]
        /\ peer'[b].state = "closed" /\ peer'[b].pending = more
        /\ \A u \in Bridges \ {b} : peer'[u] = peer[u]
    BY <2>1, <2>2, <2>3
  <2> QED
    BY <2>4, <2>5 DEF TypePeer
<1>5. MediaTypeOK'
  BY <1>1, <1>2, <1>3, <1>4, TypeKept, TypeNext, TypeIs DEF sig
<1>6. Beside(b) /\ Steady(b)
  BY <1>2, <1>3, <1>4 DEF Beside, Steady, sig
<1>7. Well(b)'
  <2>1. Working(b)' = Working(b)
    BY <1>2 DEF Working
  <2>2. socket[b] \notin {"reading", "opening"}
    BY <1>2, MadeStays
  <2> QED
    BY <1>1, <1>2, <1>3, <1>4, <2>1, <2>2 DEF Well, WellOpened, WellServed, WellStopped, sig
<1> QED
  BY <1>2, <1>5, <1>6, <1>7, StepIs, FactoryKept DEF sig

LEMMA WorkerEndsStep ==
  ASSUME MediaIInv, NEW b \in Bridges, WorkerEnds(b)
  PROVE  MediaIInv'
<1>1. MediaTypeOK /\ TypeWorkers /\ WellFactory /\ Well(b)
  BY TypeIs DEF MediaIInv
<1>2. UNCHANGED <<sig, conn, stop, closers, done>> /\ Working(b) # {}
  BY DEF WorkerEnds
<1>3. /\ TypeWorkers' /\ \A u \in Bridges \ {b} : workers'[u] = workers[u]
      /\ Working(b)' \subseteq Working(b)
  BY <1>1 DEF WorkerEnds, TypeWorkers, Working
<1>4. MediaTypeOK'
  BY <1>1, <1>2, <1>3, TypeKept, TypeNext, TypeIs DEF sig, conn
<1>5. Beside(b) /\ Steady(b)
  BY <1>2, <1>3 DEF Beside, Steady, sig, conn
<1>6. Well(b)'
  BY <1>1, <1>2, <1>3 DEF Well, WellOpened, WellServed, WellStopped, sig, conn
<1> QED
  BY <1>2, <1>4, <1>5, <1>6, StepIs, FactoryKept DEF sig

\* A bridge is forgotten when it does nothing any more.
LEMMA ClosesStep ==
  ASSUME MediaIInv, NEW b \in Bridges, NEW w \in Who, CloserEnds(b, w)
  PROVE  MediaIInv'
<1>1. MediaTypeOK /\ TypeClosers /\ TypeSocket /\ TypeFlags /\ WellFactory /\ Well(b)
  BY TypeIs DEF MediaIInv
<1>2. /\ UNCHANGED <<socket, hooked, media, factory, using, conn, stop, workers>>
      /\ closers[b][w] = "stop" /\ stop[b] = "done" /\ Working(b) = {}
  BY DEF CloserEnds, Waits
<1>3. /\ TypeClosers' /\ \A u \in Bridges \ {b} : closers'[u] = closers[u]
      /\ closers'[b][w] = "over" /\ \A x \in Who \ {w} : closers'[b][x] = closers[b][x]
  BY <1>1 DEF CloserEnds, TypeClosers
<1>4. /\ TypeSocket' /\ TypeFlags'
      /\ registered' = registered \/ (registered' = registered \ {b} /\ b \in hooked)
  BY <1>1, <1>2 DEF CloserEnds, TypeSocket, TypeFlags, conn
<1>5. MediaTypeOK'
  BY <1>1, <1>2, <1>3, <1>4, TypeKept, TypeNext, TypeIs DEF conn
<1>6. Beside(b) /\ Steady(b)
  BY <1>2, <1>3, <1>4 DEF Beside, Steady, Who, conn
<1>7. Well(b)'
  <2>1. Working(b)' = Working(b)
    BY <1>2 DEF Working
  <2>2. peer[b].state # "none"
    BY <1>2, MadeStays
  <2>3. closers'[b]["socket"] # "no" \/ closers[b]["socket"] = "no"
    BY <1>3 DEF Who
  <2> QED
    BY <1>1, <1>2, <1>3, <1>4, <2>1, <2>2, <2>3 DEF Well, WellOpened, WellServed, WellStopped, conn
<1> QED
  BY <1>2, <1>5, <1>6, <1>7, StepIs, FactoryKept

-----------------------------------------------------------------------------
(* Media. *)

\* A step of Media leaves the bridges as they are.
LEMMA WellKept ==
  ASSUME MediaIInv, UNCHANGED <<socket, registered, hooked, conn, ends>>
  PROVE  \A b \in Bridges : Well(b)'
<1> SUFFICES ASSUME NEW b \in Bridges PROVE Well(b)'
  OBVIOUS
<1>1. Well(b)
  BY DEF MediaIInv
<1>2. Working(b)' = Working(b)
  BY DEF Working, ends
<1> QED
  BY <1>1, <1>2 DEF Well, WellOpened, WellServed, WellStopped, conn, ends

LEMMA MediaStopsStep ==
  ASSUME MediaIInv, MediaStops
  PROVE  MediaIInv'
<1>1. MediaTypeOK /\ TypeSocket /\ WellMedia
  BY TypeIs DEF MediaIInv
<1>2. /\ media.pc = "runs" /\ media' = [pc |-> "closing", left |-> registered, closing |-> TRUE]
      /\ UNCHANGED <<socket, registered, hooked, factory, using, conn, ends>>
  BY DEF MediaStops
<1>3. media'.pc = "closing" /\ media'.left = registered /\ media'.closing = TRUE
  BY <1>2
<1>4. TypeMedia'
  BY <1>1, <1>2 DEF TypeMedia, TypeSocket
<1>5. MediaTypeOK'
  BY <1>1, <1>2, <1>4, TypeKept, TypeNext, TypeIs DEF conn, ends
<1>6. \A b \in registered : peer[b].state # "none"
  BY <1>1, MadeStays DEF TypeSocket
<1>7. WellMedia'
  <2>1. factory'.closed = {}
    BY <1>1, <1>2 DEF WellMedia
  <2> QED
    BY <1>2, <1>3, <1>6, <2>1 DEF WellMedia, conn
<1> QED
  BY <1>2, <1>5, <1>7, WellKept, FactoryKept DEF MediaIInv

\* A bridge of the list is let go of when it has been closed.
LEMMA MediaClosesStep ==
  ASSUME MediaIInv, NEW b \in Bridges, MediaCloses(b)
  PROVE  MediaIInv'
<1>1. MediaTypeOK /\ TypeMedia /\ WellFactory /\ WellMedia /\ Well(b)
  BY TypeIs DEF MediaIInv
<1>2. /\ UNCHANGED <<socket, registered, hooked, factory, using, conn, stop, workers, done>>
      /\ media.pc = "closing" /\ b \in media.left /\ "media" \in Who
  BY DEF MediaCloses, Who
<1>3. CASE Enters(b, "media") /\ UNCHANGED media
  <2>1. /\ TypeClosers' /\ \A u \in Bridges \ {b} : closers'[u] = closers[u]
        /\ \A x \in Who : closers[b][x] # "no" => closers'[b][x] = closers[b][x]
        /\ \A x \in Who : closers'[b][x] = "over" <=> closers[b][x] = "over"
    <3>1. "media" \in Who /\ (Enters(b, "media") \/ UNCHANGED closers)
      BY <1>2, <1>3
    <3> QED
      BY <3>1, EntersIs, Zenon DEF TypeClosers
  <2>2. MediaTypeOK'
    BY <1>1, <1>2, <1>3, <2>1, TypeKept, TypeNext, TypeIs DEF conn
  <2>3. Beside(b) /\ Steady(b)
    BY <1>2, <1>3, <2>1 DEF Beside, Steady, conn, Who
  <2>4. Well(b)'
    <3>1. Working(b)' = Working(b)
      BY <1>2 DEF Working
    <3>2. peer[b].state # "none"
      BY <1>2, MadeStays
    <3>3. closers[b]["socket"] # "no" => closers'[b]["socket"] # "no"
      BY <2>1 DEF Who
    <3> QED
      BY <1>1, <1>2, <2>1, <3>1, <3>2, <3>3 DEF Well, WellOpened, WellServed, WellStopped, conn
  <2> QED
    BY <1>2, <2>2, <2>3, <2>4, StepIs, FactoryKept
<1>4. CASE /\ closers[b]["media"] = "over" /\ media' = [media EXCEPT !.left = @ \ {b}]
           /\ UNCHANGED closers
  <2>1. /\ media'.pc = media.pc /\ media'.closing = media.closing /\ media'.left = media.left \ {b}
        /\ TypeMedia'
    BY <1>1, <1>4 DEF TypeMedia
  <2>2. MediaTypeOK'
    BY <1>1, <1>2, <1>4, <2>1, TypeKept, TypeNext, TypeIs DEF conn
  <2>3. UNCHANGED <<conn, ends, factory, registered>>
    BY <1>2, <1>4 DEF ends
  <2>4. WellMedia'
    <3>1. (media.closing <=> media.pc # "runs")'
      BY <1>1, <2>1, Zenon DEF WellMedia
    <3>2. media'.closing => \A u \in registered' : u \in media'.left \/ closers'[u]["media"] = "over"
      <4> SUFFICES ASSUME media'.closing, NEW u \in registered'
                   PROVE  u \in media'.left \/ closers'[u]["media"] = "over"
        OBVIOUS
      <4>1. u \in media.left \/ closers[u]["media"] = "over"
        BY <1>1, <2>1, <2>3, Zenon DEF WellMedia
      <4> QED
        BY <1>4, <2>1, <4>1
    <3>3. \A u \in media'.left : peer'[u].state # "none"
      BY <1>1, <2>1, <2>3 DEF WellMedia, conn
    <3>4. /\ media'.pc # "closing" => media'.left = {}
          /\ factory'.closed # {} => media'.pc = "closed"
      BY <1>1, <1>2, <2>1, <2>3 DEF WellMedia
    <3> QED
      BY <3>1, <3>2, <3>3, <3>4 DEF WellMedia
  <2> QED
    BY <1>2, <2>2, <2>3, <2>4, WellKept, FactoryKept DEF MediaIInv
<1> QED
  BY <1>3, <1>4 DEF MediaCloses

\* The factory goes when the list is empty.
LEMMA MediaClosedStep ==
  ASSUME MediaIInv, MediaClosed
  PROVE  MediaIInv'
<1>1. MediaTypeOK /\ TypeMedia /\ TypeFactory /\ WellFactory /\ WellMedia
  BY TypeIs DEF MediaIInv
<1>2. /\ UNCHANGED <<socket, registered, hooked, using, conn, ends>>
      /\ media.pc = "closing" /\ media.left = {} /\ media' = [media EXCEPT !.pc = "closed"]
      /\ factory' = ClosedFactory(factory)
  BY DEF MediaClosed
<1>3. /\ media'.pc = "closed" /\ media'.closing = media.closing /\ media'.left = media.left
      /\ TypeMedia'
  BY <1>1, <1>2 DEF TypeMedia
<1>4. TypeFactory' /\ WellFactory'
  <2> DEFINE c == IF factory.now = 0 THEN factory.closed ELSE factory.closed \cup {factory.now}
  <2>1. /\ factory.now \in Nat /\ factory.last \in Nat /\ factory.closed \in SUBSET Nat
        /\ factory.now <= factory.last
        /\ \A x \in factory.closed : 1 <= x /\ x <= factory.last
    BY <1>1 DEF TypeFactory, WellFactory
  <2>2. c \in SUBSET Nat /\ \A x \in c : 1 <= x /\ x <= factory.last
    BY <2>1
  <2>3. factory' = [factory EXCEPT !.now = 0, !.closed = c]
    BY <1>2 DEF ClosedFactory
  <2> HIDE DEF c
  <2>4. factory'.now = 0 /\ factory'.last = factory.last /\ factory'.closed = c
        /\ factory' \in [now : Nat, last : Nat, closed : SUBSET Nat]
    BY <1>1, <2>2, <2>3 DEF TypeFactory
  <2>5. 0 \notin c /\ 0 <= factory.last
    BY <2>1, <2>2
  <2> QED
    BY <1>1, <1>2, <2>2, <2>4, <2>5 DEF TypeFactory, WellFactory
<1>5. MediaTypeOK'
  BY <1>1, <1>2, <1>3, <1>4, TypeKept, TypeNext, TypeIs DEF conn, ends
<1>6. WellMedia'
  <2>1. (media.closing <=> media.pc # "runs")'
    BY <1>1, <1>2, <1>3 DEF WellMedia
  <2>2. media'.closing => \A u \in registered' : u \in media'.left \/ closers'[u]["media"] = "over"
    BY <1>1, <1>2, <1>3, Zenon DEF WellMedia, ends
  <2> QED
    BY <1>2, <1>3, <2>1, <2>2 DEF WellMedia
<1> QED
  BY <1>2, <1>4, <1>5, <1>6, WellKept DEF MediaIInv

-----------------------------------------------------------------------------
(* The specification. *)

LEMMA MediaInitEstablishes == MediaInit => MediaIInv
<1> SUFFICES ASSUME MediaInit PROVE MediaIInv
  OBVIOUS
<1>1. MediaTypeOK
  <2>1. TypeTimer /\ TypeMedia /\ TypePeer /\ TypeFactory
    BY DEF MediaInit, TypeTimer, TypeMedia, TypePeer, TypeFactory, Peers
  <2>2. TypeSocket /\ TypeFlags /\ TypeStop /\ TypeWorkers /\ TypeClosers
    BY DEF MediaInit, TypeSocket, TypeFlags, TypeStop, TypeWorkers, TypeClosers, NoCloser, Sockets
  <2> QED
    BY <2>1, <2>2, TypeIs
<1>2. WellFactory /\ WellMedia
  BY DEF MediaInit, WellFactory, WellMedia
<1>3. ASSUME NEW b \in Bridges PROVE Well(b)
  <2>1. Working(b) = {}
    BY DEF MediaInit, Working
  <2> QED
    BY <2>1 DEF MediaInit, Well, WellOpened, WellServed, WellStopped, NoCloser
<1> QED
  BY <1>1, <1>2, <1>3 DEF MediaIInv

LEMMA MediaStepKeeps == MediaIInv /\ [MediaNext]_mediaVars => MediaIInv'
<1> SUFFICES ASSUME MediaIInv, [MediaNext]_mediaVars PROVE MediaIInv'
  OBVIOUS
<1>1. ASSUME NEW b \in Bridges, Offer(b) \/ Opening(b) \/ Leave(b) PROVE MediaIInv'
  BY <1>1, OfferStep, OpenStep, RegisterStep, HookStep, AnswerStep, LeftStep DEF Opening
<1>2. ASSUME NEW b \in Bridges, PeerMoves(b) \/ Callback(b) \/ Track(b) \/ Fires(b) \/ Fired(b)
      PROVE  MediaIInv'
  BY <1>2, PeerMovesStep, ReadyStep, GraceCloseStep, CloseNowStep, TrackStep, FiresStep, FiredStep
     DEF Callback
<1>3. ASSUME NEW b \in Bridges, WorkerFails(b) \/ WorkerEnds(b) \/ Closing(b) PROVE MediaIInv'
  BY <1>3, StopBeginsStep, WorkerEndsStep, StopEndsStep, ClosesStep DEF Closing
<1>4. CASE MediaStops \/ MediaStep
  BY <1>4, MediaStopsStep, MediaClosesStep, MediaClosedStep DEF MediaStep
<1>5. CASE UNCHANGED mediaVars
  <2>1. MediaTypeOK'
    BY <1>5, TypeKept, TypeNext, TypeIs DEF MediaIInv, mediaVars, sig, conn, ends
  <2>2. WellMedia'
    <3>1. WellMedia /\ UNCHANGED <<media, factory, peer, closers, registered>>
      BY <1>5 DEF MediaIInv, mediaVars, sig, conn, ends
    <3> QED
      BY <3>1, Zenon DEF WellMedia
  <2>3. UNCHANGED <<socket, registered, hooked, conn, ends>> /\ UNCHANGED factory
    BY <1>5 DEF mediaVars, sig
  <2> QED
    BY <2>1, <2>2, <2>3, WellKept, FactoryKept DEF MediaIInv
<1> QED
  BY <1>1, <1>2, <1>3, <1>4, <1>5 DEF MediaNext

\* Whatever the browsers, the network and the calls do, and however the
\* goroutines that close a bridge overtake each other, the invariant holds.
THEOREM MediaInvariance == MediaSpec => []MediaIInv
BY MediaInitEstablishes, MediaStepKeeps, PTL DEF MediaSpec

\* Every variable stays within its type, and the factory in use is not a closed
\* one (amrCodecFactory makes a new one after closeAMRCodecFactory).
THEOREM MediaTypeCorrect == MediaSpec => []MediaTypeOK
<1>1. MediaIInv => MediaTypeOK
  BY DEF MediaIInv
<1> QED
  BY <1>1, MediaInvariance, PTL

\* A worker runs only while Media can still close its bridge, or before Media
\* has closed it (Media.Close, addWorker).
LEMMA Outlives == MediaIInv => CodecOutlives
<1> SUFFICES ASSUME MediaIInv, NEW b \in Coded, Working(b) # {}, using[b] \in factory.closed PROVE FALSE
  BY DEF CodecOutlives
<1>1. b \in Bridges
  BY MediaAssumption
<1>2. Well(b) /\ WellMedia
  BY <1>1 DEF MediaIInv
<1>3. media.pc = "closed" /\ media.left = {} /\ media.closing
  BY <1>2 DEF WellMedia
<1>4. b \in registered
  BY <1>2 DEF Well, WellStopped
<1>5. closers[b]["media"] = "over"
  BY <1>2, <1>3, <1>4 DEF WellMedia
<1> QED
  BY <1>2, <1>5 DEF Well, WellStopped, Who

\* No codec of any bridge is used after its factory was closed: Media closes
\* the factory last, when the workers of every bridge have ended.
THEOREM CodecsOutlived == MediaSpec => []CodecOutlives
BY Outlives, MediaInvariance, PTL

LEMMA NoneIsLeft == MediaIInv => NoneLeft
<1> SUFFICES ASSUME MediaIInv PROVE NoneLeft
  OBVIOUS
<1>1. ASSUME NEW b \in hooked, b \notin registered PROVE stop[b] = "done" /\ Working(b) = {}
  <2>1. b \in Bridges
    BY <1>1 DEF MediaIInv, MediaTypeOK
  <2> QED
    BY <1>1, <2>1 DEF MediaIInv, Well, WellStopped
<1>2. ASSUME NEW b \in Bridges, media.pc = "closed", peer[b].state # "none"
      PROVE  stop[b] = "done" \/ socket[b] = "made" \/ closers[b]["socket"] = "stop"
  <2>1. Well(b) /\ media.closing /\ media.left = {} /\ WellMedia
    BY <1>2 DEF MediaIInv, WellMedia
  <2>2. b \in registered => closers[b]["media"] = "over"
    BY <2>1 DEF WellMedia
  <2>3. b \in hooked \/ b \in registered => stop[b] = "done"
    BY <2>1, <2>2 DEF Well, WellStopped, Who
  <2>4. socket[b] \in {"made", "refused", "registered", "answering", "serving", "leaving", "gone"}
    BY <1>2, <2>1 DEF Well, WellOpened, MediaIInv, MediaTypeOK, Sockets
  <2>5. CASE socket[b] = "refused"
    <3>1. closers[b]["socket"] \in {"stop", "over"}
      BY <2>1, <2>5 DEF Well, WellServed, MediaIInv, MediaTypeOK, Who
    <3>2. closers[b]["socket"] = "over" => stop[b] = "done"
      BY <2>1 DEF Well, WellStopped, Who
    <3> QED
      BY <3>1, <3>2
  <2> QED
    BY <1>2, <2>1, <2>3, <2>4, <2>5 DEF Well, WellServed
<1> QED
  BY <1>1, <1>2 DEF NoneLeft

\* When Media has closed, every bridge has been stopped or the socket that was
\* refused is about to stop it, and a bridge that was forgotten does nothing any
\* more (Media.Close, registerBridge, webRTCBridge.close).
THEOREM LeavesNone == MediaSpec => []NoneLeft
BY NoneIsLeft, MediaInvariance, PTL

=============================================================================
