------------------------------ MODULE SmsInbox ------------------------------
(***************************************************************************)
(* The SMS of one modem and profile: ModemManager keeps them as objects,   *)
(* the database as rows. Three writers share the table: the relay, which   *)
(* stores a message when its signal arrives and forwards it to the         *)
(* notification channels; requests for the messages page, which copy what  *)
(* is on the modem; requests that send or delete. Nothing is held locked   *)
(* between the steps of any of them.                                       *)
(*                                                                         *)
(* ModemManager is outside the repository. It numbers its SMS objects from *)
(* zero again when it restarts. A list of messages is read at one moment.  *)
(* Sender, text and time of a message are one value of Incoming; a message *)
(* of several parts is there, with part of its text, before it is whole.   *)
(***************************************************************************)
EXTENDS Integers, Sequences, Functions

CONSTANTS
  Incoming,      \* messages the network delivers
  Outgoing,      \* messages a user sends
  Long,          \* incoming messages that come in parts
  Stale,         \* incoming messages delivered half an hour late or more
  Participants,
  With,          \* With[m]: the participant of message m
  Requests,      \* HTTP requests that may be under way at once
  LostParts,     \* environment: the last part of a message may never come
  MaxPath,       \* bound: object paths
  MaxRestarts,   \* bound: restarts of ModemManager
  MaxCrashes,    \* bound: restarts of Sigmo
  MaxFaults      \* bound: notifications and deletions that fail

Messages == Incoming \cup Outgoing
Paths    == 0..MaxPath

ASSUME InboxAssumption ==
  /\ Incoming \cap Outgoing = {}
  /\ Long \subseteq Incoming /\ Stale \subseteq Incoming
  /\ With \in [Messages -> Participants]
  /\ LostParts \in BOOLEAN
  /\ MaxPath \in Nat /\ MaxRestarts \in Nat /\ MaxCrashes \in Nat /\ MaxFaults \in Nat

Sms == [path : Paths, msg : Messages, whole : BOOLEAN]

VARIABLES
  sms,        \* SMS objects of ModemManager
  next,       \* the path it gives to the next one
  arrived,    \* messages that were sent or have begun to arrive
  received,   \* messages that have arrived to the last part, or were sent
  signals,    \* Added signals on the relay's connection, as paths
  relay,      \* what the relay is doing
  rows,       \* table messages; external_key is the object path
  notified,   \* messages the notification channels were sent
  req,        \* what each request is doing
  deleted,    \* messages whose rows a user has deleted
  restarts, crashes, faults

manager == <<sms, next, arrived, received>>
store   == <<rows, deleted>>
bounds  == <<restarts, crashes, faults>>
vars    == <<manager, signals, relay, store, notified, req, bounds>>

Relay == [at : {"idle", "wait", "insert", "notify"}, path : Paths, sms : SUBSET Sms]
Req   == [at : {"idle", "insert", "delete", "deleteSms"}, with : SUBSET Participants, left : SUBSET Sms]

RelayIdle == [at |-> "idle", path |-> 0, sms |-> {}]
ReqIdle   == [at |-> "idle", with |-> {}, left |-> {}]

-----------------------------------------------------------------------------
(* The table. *)

\* Mutant of SameFingerprint: the text is not part of it.
SameCorrespondent(r, s) == r.msg \in Incoming /\ With[r.msg] = With[s.msg]

\* Mutant of SameFingerprint: there is none.
NoFingerprint(r, s) == FALSE

\* MessageFingerprint: sender, text and time. A sent message has no time of its
\* own and is given the present one.
SameFingerprint(r, s) == r.msg = s.msg /\ r.whole = s.whole /\ s.msg \in Incoming

\* ON CONFLICT DO NOTHING, with two unique keys.
Conflicts(s) == \E r \in rows : r.path = s.path \/ SameFingerprint(r, s)

Inserted(s) == IF Conflicts(s) THEN rows ELSE rows \cup {s}

-----------------------------------------------------------------------------
(* ModemManager. *)

Arrive(m, whole) ==
  /\ m \in Incoming \ arrived
  /\ m \notin Long => whole
  /\ next <= MaxPath
  /\ sms' = sms \cup {[path |-> next, msg |-> m, whole |-> whole]}
  /\ next' = next + 1
  /\ arrived' = arrived \cup {m}
  /\ received' = IF whole THEN received \cup {m} ELSE received
  /\ signals' = Append(signals, next)
  /\ UNCHANGED <<relay, store, notified, req, bounds>>

\* The last part arrives.
Complete(m) ==
  /\ \E s \in sms : /\ s.msg = m /\ ~s.whole
                    /\ sms' = (sms \ {s}) \cup {[s EXCEPT !.whole = TRUE]}
  /\ received' = received \cup {m}
  /\ UNCHANGED <<next, arrived, signals, relay, store, notified, req, bounds>>

\* ModemManager restarts and numbers what is on the modem, in any order; a sent
\* message may not be there. Either the modem's new path ends the subscription,
\* and with it what the relay was doing, or the modem is given its old path
\* without having been removed: then addModem returns, and the old subscription
\* goes on with signals whose paths now stand for other messages.
ManagerRestart ==
  /\ restarts < MaxRestarts
  /\ restarts' = restarts + 1
  /\ \E gone \in SUBSET {s \in sms : s.msg \in Outgoing}, n \in 0..next :
       \E f \in Bijection(sms \ gone, 0..(n - 1)) :
         /\ sms' = {[s EXCEPT !.path = f[s]] : s \in sms \ gone}
         /\ next' = n
  /\ \/ signals' = <<>> /\ relay' = RelayIdle
     \/ UNCHANGED <<signals, relay>>
  /\ UNCHANGED <<arrived, received, store, notified, req, crashes, faults>>

-----------------------------------------------------------------------------
(* The relay: one loop, one message at a time. *)

Take ==
  /\ relay.at = "idle" /\ signals # <<>>
  /\ signals' = Tail(signals)
  /\ relay' = [at |-> "wait", path |-> Head(signals), sms |-> {}]
  /\ UNCHANGED <<manager, store, notified, req, bounds>>

\* Mutant of Ready: whatever is there is taken.
ReadyAtOnce(s) == TRUE

\* waitForSMSReceived polls until the state is "received".
Ready(s) == s.whole

\* An old message is neither stored nor forwarded here.
Fresh(m) == m \notin Stale

Retrieve ==
  /\ relay.at = "wait"
  /\ \/ \E s \in sms :
          /\ s.path = relay.path /\ Ready(s)
          /\ relay' = IF Fresh(s.msg) THEN [relay EXCEPT !.at = "insert", !.sms = {s}] ELSE RelayIdle
     \/ (\A s \in sms : s.path # relay.path) /\ relay' = RelayIdle
  /\ UNCHANGED <<manager, signals, store, notified, req, bounds>>

\* A message that is in the table already is known, and not forwarded.
RelayInserts ==
  /\ relay.at = "insert"
  /\ \E s \in relay.sms :
       /\ rows' = Inserted(s)
       /\ relay' = IF Conflicts(s) THEN RelayIdle ELSE [relay EXCEPT !.at = "notify"]
  /\ UNCHANGED <<manager, signals, deleted, notified, req, bounds>>

Notify ==
  /\ relay.at = "notify"
  /\ \/ /\ notified' = notified \cup {s.msg : s \in relay.sms}
        /\ UNCHANGED faults
     \/ /\ faults < MaxFaults /\ faults' = faults + 1
        /\ UNCHANGED notified
  /\ relay' = RelayIdle
  /\ UNCHANGED <<manager, signals, store, req, restarts, crashes>>

-----------------------------------------------------------------------------
(* Requests. *)

\* A page of messages, and a conversation: syncModemMessages.
PageLists(q) ==
  /\ req[q].at = "idle" /\ sms # {}
  /\ req' = [req EXCEPT ![q] = [at |-> "insert", with |-> {}, left |-> sms]]
  /\ UNCHANGED <<manager, signals, relay, store, notified, bounds>>

\* Messenger.send over the modem: the object is there before the row.
Send(q, m) ==
  /\ req[q].at = "idle"
  /\ m \in Outgoing \ arrived /\ next <= MaxPath
  /\ LET s == [path |-> next, msg |-> m, whole |-> TRUE]
     IN  /\ sms' = sms \cup {s}
         /\ req' = [req EXCEPT ![q] = [at |-> "insert", with |-> {}, left |-> {s}]]
  /\ next' = next + 1 /\ arrived' = arrived \cup {m} /\ received' = received \cup {m}
  /\ UNCHANGED <<signals, relay, store, notified, bounds>>

\* Where a request goes on when it has dealt with x.
Rest(q, x) == IF req[q].left = {x} THEN ReqIdle ELSE [req[q] EXCEPT !.left = @ \ {x}]

RequestInserts(q) ==
  /\ req[q].at = "insert"
  /\ \E s \in req[q].left :
       /\ rows' = Inserted(s)
       /\ req' = [req EXCEPT ![q] = Rest(q, s)]
  /\ UNCHANGED <<manager, signals, relay, deleted, notified, bounds>>

Of(p) == {r \in rows : With[r.msg] = p}

\* DeleteByParticipant, its two statements, then the objects, by path.
DeleteSelects(q, p) ==
  /\ req[q].at = "idle" /\ Of(p) # {}
  /\ req' = [req EXCEPT ![q] = [at |-> "delete", with |-> {p}, left |-> Of(p)]]
  /\ UNCHANGED <<manager, signals, relay, store, notified, bounds>>

DeleteRows(q) ==
  /\ req[q].at = "delete"
  /\ \E p \in req[q].with :
       /\ rows' = rows \ Of(p)
       /\ deleted' = deleted \cup {r.msg : r \in Of(p)}
  /\ req' = [req EXCEPT ![q].at = "deleteSms"]
  /\ UNCHANGED <<manager, signals, relay, notified, bounds>>

\* Mutant of Deletes: the objects of all messages are deleted.
DeletesAll(s, r) == TRUE

Deletes(s, r) == s.path = r.path

\* A path that is not there, or a call that fails, ends the request.
DeleteSms(q) ==
  /\ req[q].at = "deleteSms"
  /\ \E r \in req[q].left :
       \/ /\ \E s \in sms : s.path = r.path
          /\ sms' = {s \in sms : ~Deletes(s, r)}
          /\ req' = [req EXCEPT ![q] = Rest(q, r)]
          /\ UNCHANGED faults
       \/ /\ \A s \in sms : s.path # r.path
          /\ req' = [req EXCEPT ![q] = ReqIdle]
          /\ UNCHANGED <<sms, faults>>
       \/ /\ faults < MaxFaults /\ faults' = faults + 1
          /\ req' = [req EXCEPT ![q] = ReqIdle]
          /\ UNCHANGED sms
  /\ UNCHANGED <<next, arrived, received, signals, relay, store, notified, restarts, crashes>>

\* Sigmo restarts; the modem's messages and the table stay.
Crash ==
  /\ crashes < MaxCrashes
  /\ crashes' = crashes + 1
  /\ signals' = <<>> /\ relay' = RelayIdle
  /\ req' = [q \in Requests |-> ReqIdle]
  /\ UNCHANGED <<manager, store, notified, restarts, faults>>

Init ==
  /\ sms = {} /\ next = 0 /\ arrived = {} /\ received = {}
  /\ signals = <<>> /\ relay = RelayIdle
  /\ rows = {} /\ deleted = {} /\ notified = {}
  /\ req = [q \in Requests |-> ReqIdle]
  /\ restarts = 0 /\ crashes = 0 /\ faults = 0

RelayStep == Take \/ Retrieve \/ RelayInserts \/ Notify

RequestStep(q) ==
  \/ PageLists(q) \/ RequestInserts(q) \/ DeleteRows(q) \/ DeleteSms(q)
  \/ \E m \in Outgoing : Send(q, m)
  \/ \E p \in Participants : DeleteSelects(q, p)

Next ==
  \/ \E m \in Incoming, whole \in BOOLEAN : Arrive(m, whole)
  \/ \E m \in Incoming : Complete(m)
  \/ ManagerRestart \/ RelayStep \/ Crash
  \/ \E q \in Requests : RequestStep(q)

Spec == Init /\ [][Next]_vars

\* The relay's goroutine runs; the parts of a message arrive, unless the
\* network loses one.
Fairness == /\ WF_vars(RelayStep)
            /\ \A m \in Incoming : WF_vars(~LostParts /\ Complete(m))

FairSpec == Spec /\ Fairness

-----------------------------------------------------------------------------
(* Properties. *)

TypeOK ==
  /\ sms \subseteq Sms /\ next \in 0..(MaxPath + 1)
  /\ received \subseteq Messages /\ arrived \subseteq Messages
  /\ signals \in Seq(Paths) /\ relay \in Relay
  /\ rows \subseteq Sms /\ deleted \subseteq Messages /\ notified \subseteq Messages
  /\ req \in [Requests -> Req]
  /\ restarts \in 0..MaxRestarts /\ crashes \in 0..MaxCrashes /\ faults \in 0..MaxFaults

\* Every message received is in the table, was deleted there by a user, or is
\* on the modem where the next page will find it and be able to store it; a
\* restart of ModemManager may give its path to another one.
NothingLost ==
  restarts = 0 => \A m \in received :
    \/ \E r \in rows : r.msg = m
    \/ m \in deleted
    \/ \E s \in sms : s.msg = m /\ ~Conflicts(s)
    \/ \E q \in Requests : req[q].at = "insert" /\ \E s \in req[q].left : s.msg = m

\* A message of one part that was received is in the table once, however often
\* it is listed and under whatever path.
OneRow == \A r, t \in rows : r.msg = t.msg /\ r.msg \in Incoming \ Long => r = t

\* Only the messages of the conversation that a user deletes disappear from
\* the modem.
DeleteOwn ==
  [][\A s \in sms : (\A t \in sms' : t.msg # s.msg) /\ restarts' = 0 =>
       \E q \in Requests : req[q].at = "deleteSms" /\ With[s.msg] \in req[q].with]_vars

\* No page is opened, nothing fails and nothing restarts.
Undisturbed ==
  /\ restarts = 0 /\ crashes = 0 /\ faults = 0
  /\ \A q \in Requests : req[q].at = "idle"

\* Every fresh message that has arrived is stored with its whole text and is
\* forwarded, as long as the relay is left alone (relay.go, forwardModemSMS).
Forwarded ==
  []Undisturbed => \A m \in Incoming \ Stale :
    m \in received ~> m \in notified /\ \E r \in rows : r.msg = m /\ r.whole
=============================================================================
