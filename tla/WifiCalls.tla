----------------------------- MODULE WifiCalls -----------------------------
(***************************************************************************)
(* The calls of one modem over Wi-Fi Calling, from the network to the      *)
(* record in the database: the table of the session (pro/wificalling       *)
(* voice.go), the goroutine that watches the client, the API requests      *)
(* (pro/call) and the saves of everybody's events (call_voice_events.go).  *)
(*                                                                         *)
(* WifiSession says when a session comes, loses its client and goes; here  *)
(* it does so at any time. One step is one critical section of             *)
(* coordinator.mu, one statement of the database, or one call that leaves  *)
(* the process: what a request read before such a call is what it writes   *)
(* back after it.                                                          *)
(*                                                                         *)
(* Abstractions: the states of a call are those the code tells apart: not  *)
(* answered yet (ringing), active, ended, failed; hold and reason are not  *)
(* kept; of the times of a record only whether answered_at is set.         *)
(***************************************************************************)
EXTENDS Naturals, Sequences, FiniteSets

CONSTANTS
  Calls,       \* calls the network may see, of either direction, numbered in their order
  Requests,    \* API requests in flight at the same time
  MaxSessions, \* bound: sessions ever started
  MaxRequests, \* bound: requests ever made
  MaxFaults    \* bound: saves that fail, crashes, clients that are lost

ASSUME CallsAssumption ==
  Calls \subseteq Nat \ {0} /\ \A k \in {MaxSessions, MaxRequests, MaxFaults} : k \in Nat

VARIABLES
  net,       \* the calls as the network has them
  incoming,  \* incoming calls the client has reported and nobody has taken
  events,    \* events of the client that nobody has taken, per call
  session,   \* the session of the modem: its id, has it a client, the token in its
             \* reconnect channel, the dial it expects
  table,     \* session.calls
  publishing,\* the event that the goroutine of the session is publishing
  closing,   \* events published by whoever disconnected or detached a session
  rows,      \* the call records in the database
  excused,   \* calls whose record was deleted, was not saved, or outlived a crash
  reqs,      \* the requests in flight
  spent      \* what the bounds have been used up by

live   == <<net, incoming, events>>
books  == <<session, table, publishing, closing>>
stored == <<rows, excused>>
vars   == <<live, books, stored, reqs, spent>>

Terminal == {"ended", "failed"}
States   == {"ringing", "active"} \cup Terminal
None     == [st |-> "none", ans |-> FALSE]
Info     == {None} \cup [st : States, ans : BOOLEAN]
IsLive(info)     == info.st \notin Terminal \cup {"none"}
IsTerminal(info) == info.st \in Terminal

\* has: does the entry have the call of the client.
Entry   == [info : Info, has : BOOLEAN]
NoEntry == [info |-> None, has |-> FALSE]

Nobody == [id |-> 0, connected |-> FALSE, lost |-> FALSE, token |-> FALSE, dial |-> 0]
Quiet  == [call |-> 0, info |-> None]
Pub    == [call : Calls, info : Info]

Kinds   == {"dial", "answer", "reject", "hold", "hangup", "media", "delete"}
\* row: the record the request read; info: what it will write.
Request == [pc : {"free", "read", "look", "pend", "invite", "await", "act", "store", "again",
                  "publish", "save", "end"},
            kind : Kinds, call : Calls \cup {0}, row : Info, info : Info, tag : Nat]
NoRequest == [pc |-> "free", kind |-> "dial", call |-> 0, row |-> None, info |-> None, tag |-> 0]

\* What Call.State says of a call: nothing tells an outgoing call that rings
\* from an incoming one.
Seen(c)  == IF net[c] = "dialing" THEN "ringing" ELSE net[c]
Fresh    == {c \in Calls : net[c] = "none"}
First(S) == CHOOSE c \in S : \A d \in S : c <= d
MayFail  == spent.faults < MaxFaults
Fault    == spent' = [spent EXCEPT !.faults = @ + 1]
Set(r, q) == reqs' = [reqs EXCEPT ![r] = q]
Done(r)   == Set(r, NoRequest)

-----------------------------------------------------------------------------
(* What a critical section does to the calls. *)

\* advanceVoiceCall.
Advanced(info, st, answered) ==
  IF IsLive(info) THEN [st |-> st, ans |-> info.ans \/ answered \/ st = "active"] ELSE info

\* Mutant of Disconnected: the calls of a lost client are failed and nobody is told.
DisconnectedQuietly(t) == {}

\* disconnectedCallEvents: every call of the session that is not over fails.
Disconnected(t) ==
  {[call |-> c, info |-> Advanced(t[c].info, "failed", FALSE)] : c \in {d \in Calls : IsLive(t[d].info)}}

FailedTable(t) == [c \in Calls |-> [t[c] EXCEPT !.info = Advanced(@, "failed", FALSE)]]

\* updateVoiceCallWithPointerLocked, of the session there is, whichever that is.
Update(c, info, has) ==
  table' = IF session.id = 0 THEN table
           ELSE [table EXCEPT ![c] = [info |-> info, has |-> @.has \/ has]]

\* Mutant of Overwrites: the statement has no WHERE.
OverwritesAlways(old, new) == TRUE

\* SaveCallPreservingTerminal: a terminal record is not overwritten by a live one.
Overwrites(old, new) == ~(IsTerminal(old) /\ ~IsTerminal(new))

\* Mutant of Saved: answered_at is written like the other columns.
SavedAsIs(old, new) == new

\* ON CONFLICT: answered_at stays when the new record has none.
Saved(old, new) == [new EXCEPT !.ans = @ \/ (old # None /\ old.ans)]

Save(c, info) ==
  rows' = [rows EXCEPT ![c] = IF Overwrites(@, info) THEN Saved(@, info) ELSE @]

SaveOr(c, info) ==
  \/ Save(c, info) /\ UNCHANGED <<excused, spent>>
  \/ MayFail /\ Fault /\ excused' = excused \cup {c} /\ UNCHANGED rows

-----------------------------------------------------------------------------
(* The network and the client. *)

Emit(c, st) == [events EXCEPT ![c] = Append(@, st)]

Ring ==
  /\ session.connected
  /\ Fresh # {}
  /\ LET c == First(Fresh)
     IN  net' = [net EXCEPT ![c] = "ringing"] /\ incoming' = incoming \cup {c}
  /\ UNCHANGED <<events, books, stored, reqs, spent>>

\* The other end answers an outgoing call, or ends any call.
Answered(c) ==
  /\ net[c] = "dialing"
  /\ net' = [net EXCEPT ![c] = "active"]
  /\ events' = Emit(c, "active")
  /\ UNCHANGED <<incoming, books, stored, reqs, spent>>

Ends(c) ==
  /\ net[c] \in {"dialing", "ringing", "active"}
  /\ net' = [net EXCEPT ![c] = "ended"]
  /\ events' = Emit(c, "ended")
  /\ UNCHANGED <<incoming, books, stored, reqs, spent>>

\* With its client every call of a session is over, and its channels close.
Hung == [c \in Calls |-> IF net[c] = "none" THEN "none" ELSE "ended"]
Cut  == net' = Hung /\ incoming' = {} /\ events' = [c \in Calls |-> <<>>]

-----------------------------------------------------------------------------
(* The session. *)

Start ==
  /\ session.id = 0
  /\ spent.sessions < MaxSessions
  /\ spent' = [spent EXCEPT !.sessions = @ + 1]
  /\ session' = [Nobody EXCEPT !.id = spent.sessions + 1, !.connected = TRUE]
  /\ table' = [c \in Calls |-> NoEntry]
  /\ UNCHANGED <<live, publishing, closing, stored, reqs>>

\* A client of its own again, for the same session: markConnected.
Reconnect ==
  /\ session.id # 0 /\ ~session.connected /\ ~session.lost
  /\ session' = [session EXCEPT !.connected = TRUE]
  /\ UNCHANGED <<live, table, publishing, closing, stored, reqs, spent>>

\* markDisconnected, by the goroutine that watches and hears the client fail.
Lose ==
  /\ session.connected
  /\ publishing = Quiet
  /\ MayFail /\ Fault
  /\ session' = [session EXCEPT !.connected = FALSE]
  /\ closing' = closing \cup Disconnected(table)
  /\ table' = FailedTable(table)
  /\ Cut
  /\ UNCHANGED <<publishing, stored, reqs>>

\* requestReconnect, by a request whose call found the client gone. The
\* goroutine hears of it later, and takes what it finds in its channels until then.
GiveUp ==
  /\ session.connected
  /\ MayFail /\ Fault
  /\ session' = [session EXCEPT !.connected = FALSE, !.lost = TRUE, !.token = TRUE]
  /\ closing' = closing \cup Disconnected(table)
  /\ table' = FailedTable(table)
  /\ UNCHANGED <<live, publishing, stored, reqs>>

\* It hears by the token, or by the client, and then the token stays.
HearsOfIt ==
  /\ session.lost
  /\ publishing = Quiet
  /\ \E left \in BOOLEAN : session' = [session EXCEPT !.lost = FALSE, !.token = left]
  /\ Cut
  /\ UNCHANGED <<table, publishing, closing, stored, reqs, spent>>

\* A token that was left closes the next client. The branch of watchClient that
\* takes it does not call markDisconnected: the calls in the table stay as they are.
TakeToken ==
  /\ session.connected /\ session.token
  /\ publishing = Quiet
  /\ session' = [session EXCEPT !.connected = FALSE, !.token = FALSE]
  /\ Cut
  /\ UNCHANGED <<table, publishing, closing, stored, reqs, spent>>

\* detachSession; what its goroutine is publishing goes on.
Detach ==
  /\ session.id # 0
  /\ session' = Nobody
  /\ closing' = closing \cup Disconnected(table)
                  \cup (IF publishing = Quiet THEN {} ELSE {publishing})
  /\ publishing' = Quiet
  /\ table' = [c \in Calls |-> NoEntry]
  /\ Cut
  /\ UNCHANGED <<stored, reqs, spent>>

Crash ==
  /\ MayFail /\ Fault
  /\ session' = Nobody
  /\ table' = [c \in Calls |-> NoEntry]
  /\ publishing' = Quiet /\ closing' = {}
  /\ excused' = excused \cup {c \in Calls : IsLive(rows[c])}
  /\ reqs' = [r \in Requests |-> NoRequest]
  /\ Cut
  /\ UNCHANGED rows

-----------------------------------------------------------------------------
(* The goroutine of the session takes from its channels, in any order. *)

Takes == session.connected \/ session.lost

\* forwardIncomingCall: the call is stored as it is by now.
TakeIncoming(c) ==
  /\ Takes /\ publishing = Quiet
  /\ c \in incoming
  /\ incoming' = incoming \ {c}
  /\ LET info == [st |-> Seen(c), ans |-> table[c].info.ans]
     IN  Update(c, info, TRUE) /\ publishing' = [call |-> c, info |-> info]
  /\ UNCHANGED <<net, events, session, closing, stored, reqs, spent>>

\* forwardCallEvent: an event of a call that is not known belongs to the dial
\* that is under way, or is dropped.
TakeEvent(c) ==
  /\ Takes /\ publishing = Quiet
  /\ events[c] # <<>>
  /\ events' = [events EXCEPT ![c] = Tail(@)]
  /\ LET known == table[c] # NoEntry
         from  == IF known THEN table[c].info ELSE [st |-> "ringing", ans |-> FALSE]
         info  == Advanced(from, Head(events[c]), FALSE)
     IN  IF known \/ session.dial # 0
         THEN /\ \E has \in BOOLEAN : Update(c, info, has)
              /\ publishing' = IF IsLive(from) THEN [call |-> c, info |-> info] ELSE Quiet
         ELSE UNCHANGED <<table, publishing>>
  /\ UNCHANGED <<net, incoming, session, closing, stored, reqs, spent>>

Publish ==
  /\ publishing # Quiet
  /\ SaveOr(publishing.call, publishing.info)
  /\ publishing' = Quiet
  /\ UNCHANGED <<live, session, table, closing, reqs>>

PublishClosing(p) ==
  /\ p \in closing
  /\ closing' = closing \ {p}
  /\ SaveOr(p.call, p.info)
  /\ UNCHANGED <<live, session, table, publishing, reqs>>

-----------------------------------------------------------------------------
(* Requests. *)

Begin(r) ==
  /\ reqs[r].pc = "free"
  /\ spent.requests < MaxRequests
  /\ spent' = [spent EXCEPT !.requests = @ + 1]
  /\ \/ /\ session.connected
        /\ Set(r, [NoRequest EXCEPT !.pc = "pend", !.tag = spent.requests + 1])
     \/ \E kind \in Kinds \ {"dial"}, c \in Calls :
          /\ rows[c] # None
          /\ Set(r, [NoRequest EXCEPT !.pc = "read", !.kind = kind, !.call = c, !.row = rows[c]])
  /\ UNCHANGED <<live, books, stored>>

\* setPendingVoiceDial: the latest dial is the one the session expects.
Pend(r) ==
  /\ reqs[r].pc = "pend"
  /\ session' = IF session.id = 0 THEN session ELSE [session EXCEPT !.dial = reqs[r].tag]
  /\ Set(r, [reqs[r] EXCEPT !.pc = "invite"])
  /\ UNCHANGED <<live, table, publishing, closing, stored, spent>>

\* The INVITE is on its way, with the client the request has found.
Invite(r) ==
  /\ reqs[r].pc = "invite"
  /\ \/ /\ session.connected /\ Fresh # {}
        /\ LET c == First(Fresh)
           IN  /\ net' = [net EXCEPT ![c] = "dialing"]
               /\ events' = Emit(c, "ringing")
               /\ Set(r, [reqs[r] EXCEPT !.pc = "await", !.call = c])
     \/ Set(r, [reqs[r] EXCEPT !.pc = "end"]) /\ UNCHANGED <<net, events>>
  /\ UNCHANGED <<incoming, books, stored, spent>>

\* Dial has returned a call, which is read, or an error.
Dialed(r) ==
  /\ reqs[r].pc = "await"
  /\ LET c == reqs[r].call
     IN  \/ /\ Set(r, [reqs[r] EXCEPT !.pc = "store", !.info = [st |-> Seen(c), ans |-> FALSE]])
            /\ UNCHANGED table
         \/ /\ net[c] = "ended"
            /\ \/ /\ IsLive(table[c].info)
                  /\ table' = [table EXCEPT ![c].info = Advanced(@, "failed", FALSE)]
                  /\ Set(r, [reqs[r] EXCEPT !.pc = "save",
                                            !.info = Advanced(table[c].info, "failed", FALSE)])
               \/ Set(r, [reqs[r] EXCEPT !.pc = "end"]) /\ UNCHANGED table
  /\ UNCHANGED <<live, session, publishing, closing, stored, spent>>

\* storeVoiceCall: what the session knew of the call is replaced, but for answered_at.
Store(r) ==
  /\ reqs[r].pc = "store"
  /\ LET c    == reqs[r].call
         kept == [reqs[r].info EXCEPT !.ans = table[c].info.ans]
         info == [kept EXCEPT !.ans = @ \/ kept.st = "active"]
     IN  IF session.id = 0
         THEN Set(r, [reqs[r] EXCEPT !.pc = "end"]) /\ UNCHANGED table
         ELSE /\ Update(c, kept, TRUE)
              /\ Set(r, [reqs[r] EXCEPT !.pc = IF info.ans THEN "again" ELSE "publish", !.info = info])
  /\ UNCHANGED <<live, session, publishing, closing, stored, spent>>

\* callForAction has read the record; lookupVoiceCall finds the call.
Look(r) ==
  /\ reqs[r].pc = "read" /\ reqs[r].kind \in {"answer", "reject", "hold"}
  /\ LET c == reqs[r].call
     IN  IF session.id # 0 /\ table[c].has
         THEN Set(r, [reqs[r] EXCEPT !.pc = "act", !.info = table[c].info])
         ELSE Done(r)
  /\ UNCHANGED <<live, books, stored, spent>>

\* What the request does on the network, and the call as it is after that.
Act(r) ==
  /\ reqs[r].pc = "act"
  /\ LET c  == reqs[r].call
         on == reqs[r].kind
         st == CASE on = "answer" -> "active" [] on = "hold" -> Seen(c) [] OTHER -> "ended"
     IN  \/ /\ net[c] \in (IF on = "answer" THEN {"ringing"} ELSE {"dialing", "ringing", "active"})
            /\ net' = IF on = "hold" THEN net ELSE [net EXCEPT ![c] = st]
            /\ events' = IF on = "hold" THEN events ELSE Emit(c, st)
            /\ Set(r, [reqs[r] EXCEPT !.pc = "again", !.info = Advanced(@, st, on = "answer")])
         \/ UNCHANGED <<net, events>> /\ Done(r)
  /\ UNCHANGED <<incoming, books, stored, spent>>

\* updateVoiceCall with what the request knows, and publishVoiceEvent.
Again(r) ==
  /\ reqs[r].pc = "again"
  /\ Update(reqs[r].call, reqs[r].info, FALSE)
  /\ Set(r, [reqs[r] EXCEPT !.pc = "publish"])
  /\ UNCHANGED <<live, session, publishing, closing, stored, spent>>

PublishOwn(r) ==
  /\ reqs[r].pc = "publish"
  /\ SaveOr(reqs[r].call, reqs[r].info)
  /\ Set(r, [reqs[r] EXCEPT !.pc = IF reqs[r].kind = "hangup" THEN "end" ELSE "save"])
  /\ UNCHANGED <<live, books>>

SaveOwn(r) ==
  /\ reqs[r].pc = "save"
  /\ SaveOr(reqs[r].call, reqs[r].info)
  /\ Set(r, [reqs[r] EXCEPT !.pc = "end"])
  /\ UNCHANGED <<live, books>>

\* clearPendingVoiceDial.
End(r) ==
  /\ reqs[r].pc = "end"
  /\ session' = IF reqs[r].tag # 0 /\ session.dial = reqs[r].tag THEN [session EXCEPT !.dial = 0] ELSE session
  /\ Done(r)
  /\ UNCHANGED <<live, table, publishing, closing, stored, spent>>

\* endWiFiCallingCall: the record ends first, the call after it, by a goroutine.
Hangup(r) ==
  /\ reqs[r].pc = "read" /\ reqs[r].kind = "hangup"
  /\ IF IsTerminal(reqs[r].row)
     THEN UNCHANGED <<rows, excused, spent>>
     ELSE SaveOr(reqs[r].call, [reqs[r].row EXCEPT !.st = "ended"])
  /\ Set(r, [reqs[r] EXCEPT !.pc = "look"])
  /\ UNCHANGED <<live, books>>

CleanUp(r) ==
  /\ reqs[r].pc = "look"
  /\ LET c == reqs[r].call
     IN  IF session.id # 0 /\ table[c].has
         THEN Set(r, [reqs[r] EXCEPT !.pc = "act", !.info = table[c].info])
         ELSE Done(r)
  /\ UNCHANGED <<live, books, stored, spent>>

\* callMedia.Open: a call the session does not know any more is over (SaveCall).
OpenMedia(r) ==
  /\ reqs[r].pc = "read" /\ reqs[r].kind = "media"
  /\ LET c == reqs[r].call
     IN  IF session.id # 0 /\ ~table[c].has /\ ~IsTerminal(reqs[r].row)
         THEN rows' = [rows EXCEPT ![c] = Saved(@, [reqs[r].row EXCEPT !.st = "ended"])]
         ELSE UNCHANGED rows
  /\ Done(r)
  /\ UNCHANGED <<live, books, excused, spent>>

\* deleteCall: only of a record that had ended when it was read.
Delete(r) ==
  /\ reqs[r].pc = "read" /\ reqs[r].kind = "delete"
  /\ IF IsTerminal(reqs[r].row)
     THEN /\ rows' = [rows EXCEPT ![reqs[r].call] = None]
          /\ excused' = excused \cup {reqs[r].call}
     ELSE UNCHANGED <<rows, excused>>
  /\ Done(r)
  /\ UNCHANGED <<live, books, spent>>

RequestStep(r) ==
  \/ Pend(r) \/ Invite(r) \/ Dialed(r) \/ Store(r) \/ Look(r) \/ Act(r) \/ Again(r)
  \/ PublishOwn(r) \/ SaveOwn(r) \/ End(r) \/ Hangup(r) \/ CleanUp(r) \/ OpenMedia(r) \/ Delete(r)

-----------------------------------------------------------------------------
Init ==
  /\ net = [c \in Calls |-> "none"]
  /\ incoming = {}
  /\ events = [c \in Calls |-> <<>>]
  /\ session = Nobody
  /\ table = [c \in Calls |-> NoEntry]
  /\ publishing = Quiet
  /\ closing = {}
  /\ rows = [c \in Calls |-> None]
  /\ excused = {}
  /\ reqs = [r \in Requests |-> NoRequest]
  /\ spent = [sessions |-> 0, requests |-> 0, faults |-> 0]

LoopStep == (\E c \in Calls : TakeIncoming(c) \/ TakeEvent(c)) \/ Publish \/ HearsOfIt \/ TakeToken

Next ==
  \/ Ring \/ (\E c \in Calls : Answered(c) \/ Ends(c))
  \/ Start \/ Reconnect \/ Lose \/ GiveUp \/ Detach \/ Crash
  \/ LoopStep \/ (\E p \in closing : PublishClosing(p))
  \/ \E r \in Requests : Begin(r) \/ RequestStep(r)

Spec == Init /\ [][Next]_vars

-----------------------------------------------------------------------------
\* Every variable stays within its type; no record and no entry is half made.
TypeOK ==
  /\ net \in [Calls -> {"none", "dialing", "ringing", "active", "ended"}]
  /\ incoming \in SUBSET Calls
  /\ events \in [Calls -> Seq({"ringing", "active", "ended"})]
  /\ session \in [id : 0..MaxSessions, connected : BOOLEAN, lost : BOOLEAN,
                 token : BOOLEAN, dial : 0..MaxRequests]
  /\ session.id = 0 => session = Nobody
  /\ table \in [Calls -> Entry]
  /\ session.id = 0 => \A c \in Calls : table[c] = NoEntry
  /\ publishing \in Pub \cup {Quiet}
  /\ closing \in SUBSET Pub
  /\ rows \in [Calls -> Info]
  /\ excused \in SUBSET Calls
  /\ reqs \in [Requests -> Request]
  /\ spent \in [sessions : 0..MaxSessions, requests : 0..MaxRequests, faults : 0..MaxFaults]

\* A record that says a call is over never says anything else again, whatever
\* late events, stale requests and other sessions still save
\* (SaveCallPreservingTerminal, endUnavailable).
StaysEnded == [][\A c \in Calls : IsTerminal(rows[c]) => rows'[c] = None \/ IsTerminal(rows'[c])]_vars

\* What a record says of when the call was answered is not lost while the record
\* is there: hanging up saves a record that was read before the answer.
AnsweredKept == [][\A c \in Calls : rows[c].ans => rows'[c] = None \/ rows'[c].ans]_vars

\* A record of a call that is not over has somebody who will end it: the call is
\* in the table of the session and not over there, so that an event or the end of
\* the session fails it at the latest, or its end is being published. When a token
\* that was left over has closed the client, it is the end of the session, or the
\* loss of the client after that, that ends it (TakeToken).
Backed ==
  \A c \in Calls \ excused : IsLive(rows[c]) =>
    \/ IsLive(table[c].info)
    \/ \E p \in closing \cup {publishing} : p.call = c /\ IsTerminal(p.info)
    \/ \E r \in Requests : reqs[r].call = c /\ reqs[r].pc \in {"again", "publish", "save"} /\ IsTerminal(reqs[r].info)
=============================================================================
