--------------------------- MODULE SmsInbox_proof ---------------------------
(***************************************************************************)
(* The table of messages, for any messages, participants and number of     *)
(* concurrent requests, failures and restarts of Sigmo: one row for each   *)
(* message whatever ModemManager does, and nothing lost or deleted by      *)
(* mistake as long as it does not restart.                                 *)
(***************************************************************************)
EXTENDS SmsInbox, TLAPS

\* The copies of messages there are: on the modem, in the table, and in the
\* hands of the relay and of requests, which may be out of date.
Copies == sms \cup rows \cup relay.sms \cup UNION {req[q].left : q \in Requests}

\* A message of one part is whole from the start.
Single == \A x \in Copies : x.msg \in Incoming \ Long => x.whole

\* Until ModemManager restarts, a path has been given to one message only,
Below == \A x \in Copies : x.path < next
OnePath == \A x, y \in Copies : x.path = y.path => x.msg = y.msg

\* a message is on the modem until a user deletes it,
OnModem == \A m \in received : m \in deleted \/ \E s \in sms : s.msg = m

\* and what a request is deleting is of its participant, and is gone from the
\* table when the request comes to the modem.
Deleting(q) ==
  req[q].at \in {"delete", "deleteSms"} =>
    \E p \in Participants :
      /\ req[q].with = {p}
      /\ \A r \in req[q].left :
           /\ With[r.msg] = p
           /\ r.msg \in deleted \/ (req[q].at = "delete" /\ r \in rows)

Sure == Below /\ OnePath /\ OnModem /\ \A q \in Requests : Deleting(q)

IInv == TypeOK /\ Single /\ OneRow /\ (restarts = 0 => Sure)

-----------------------------------------------------------------------------
(* Types. *)

LEMMA IdleType == RelayIdle \in Relay /\ \A q \in Requests : ReqIdle \in Req
BY InboxAssumption, SMT DEF RelayIdle, ReqIdle, Relay, Req, Paths

LEMMA InsertedType ==
  ASSUME rows \subseteq Sms, NEW s \in Sms
  PROVE  Inserted(s) \subseteq Sms
BY DEF Inserted

LEMMA RestType ==
  ASSUME TypeOK, NEW q \in Requests, NEW x
  PROVE  Rest(q, x) \in Req
<1>1. req[q] \in Req
  BY DEF TypeOK
<1> QED
  BY <1>1, IdleType, SMT DEF Rest, Req

LEMMA CopiesType ==
  ASSUME TypeOK
  PROVE  Copies \subseteq Sms
BY SMT DEF TypeOK, Copies, Relay, Req

LEMMA ManagerType ==
  ASSUME TypeOK,
         \/ \E m \in Incoming, whole \in BOOLEAN : Arrive(m, whole)
         \/ \E m \in Incoming : Complete(m)
         \/ ManagerRestart
  PROVE  TypeOK'
<1>1. CASE \E m \in Incoming, whole \in BOOLEAN : Arrive(m, whole)
  <2>1. PICK m \in Incoming, whole \in BOOLEAN : Arrive(m, whole)
    BY <1>1
  <2>2. next \in Paths /\ next + 1 \in 0..(MaxPath + 1)
    BY <2>1, InboxAssumption, SMT DEF Arrive, TypeOK, Paths
  <2>3. [path |-> next, msg |-> m, whole |-> whole] \in Sms
    BY <2>2, SMT DEF Sms, Messages
  <2>4. signals' \in Seq(Paths)
    BY <2>1, <2>2, SMT DEF Arrive, TypeOK
  <2>5. sms' \subseteq Sms /\ next' \in 0..(MaxPath + 1)
    BY <2>1, <2>2, <2>3 DEF Arrive, TypeOK
  <2>6. arrived' \subseteq Messages /\ received' \subseteq Messages
    BY <2>1 DEF Arrive, TypeOK, Messages
  <2> QED
    BY <2>1, <2>4, <2>5, <2>6 DEF Arrive, TypeOK, store, bounds
<1>2. CASE \E m \in Incoming : Complete(m)
  <2>1. PICK m \in Incoming, s \in sms :
          /\ s.msg = m /\ sms' = (sms \ {s}) \cup {[s EXCEPT !.whole = TRUE]}
          /\ received' = received \cup {m}
          /\ UNCHANGED <<next, arrived, signals, relay, store, notified, req, bounds>>
    BY <1>2 DEF Complete
  <2>2. s \in Sms
    BY DEF TypeOK
  <2>3. [s EXCEPT !.whole = TRUE] \in Sms
    BY <2>2 DEF Sms
  <2>4. sms' \subseteq Sms /\ received' \subseteq Messages
    BY <2>1, <2>3 DEF TypeOK, Messages
  <2> QED
    BY <2>1, <2>4 DEF TypeOK, store, bounds
<1>3. CASE ManagerRestart
  <2>1. PICK gone \in SUBSET {s \in sms : s.msg \in Outgoing}, n \in 0..next :
          \E f \in Bijection(sms \ gone, 0..(n - 1)) :
            /\ sms' = {[s EXCEPT !.path = f[s]] : s \in sms \ gone}
            /\ next' = n
    BY <1>3 DEF ManagerRestart
  <2>2. PICK f \in Bijection(sms \ gone, 0..(n - 1)) :
          /\ sms' = {[s EXCEPT !.path = f[s]] : s \in sms \ gone}
          /\ next' = n
    BY <2>1
  <2>3. n \in 0..(MaxPath + 1) /\ 0..(n - 1) \subseteq Paths
    BY InboxAssumption, SMT DEF TypeOK, Paths
  <2>4. \A s \in sms \ gone : f[s] \in Paths
    BY <2>3 DEF Bijection, Injection
  <2>5. \A s \in sms \ gone : [s EXCEPT !.path = f[s]] \in Sms
    BY <2>4, SMT DEF TypeOK, Sms
  <2>6. sms' \subseteq Sms
    BY <2>2, <2>5
  <2>7. restarts' \in 0..MaxRestarts /\ <<>> \in Seq(Paths)
    BY <1>3, InboxAssumption, SMT DEF ManagerRestart, TypeOK
  <2> QED
    BY <1>3, <2>2, <2>3, <2>6, <2>7, IdleType DEF ManagerRestart, TypeOK, store
<1> QED
  BY <1>1, <1>2, <1>3

LEMMA RelayType ==
  ASSUME TypeOK, RelayStep
  PROVE  TypeOK'
<1>1. CASE Take
  <2>1. Head(signals) \in Paths /\ Tail(signals) \in Seq(Paths)
    BY <1>1, SMT DEF Take, TypeOK
  <2> QED
    BY <1>1, <2>1, SMT DEF Take, TypeOK, Relay, manager, store, bounds
<1>2. CASE Retrieve
  <2>1. relay \in Relay /\ sms \subseteq Sms
    BY DEF TypeOK
  <2>2. ASSUME NEW s \in sms PROVE [relay EXCEPT !.at = "insert", !.sms = {s}] \in Relay
    <3>1. {s} \in SUBSET Sms
      BY <2>1
    <3> QED
      BY <2>1, <3>1 DEF Relay
  <2>3. relay' \in Relay
    BY <1>2, <2>2, IdleType DEF Retrieve
  <2> QED
    BY <1>2, <2>3 DEF Retrieve, TypeOK, manager, store, bounds
<1>3. CASE RelayInserts
  <2>1. PICK s \in relay.sms :
          /\ rows' = Inserted(s)
          /\ relay' = IF Conflicts(s) THEN RelayIdle ELSE [relay EXCEPT !.at = "notify"]
    BY <1>3 DEF RelayInserts
  <2>2. s \in Sms
    BY <2>1, SMT DEF TypeOK, Relay
  <2>3. rows' \subseteq Sms
    BY <2>1, <2>2, InsertedType DEF TypeOK
  <2>4. relay' \in Relay
    BY <2>1, IdleType, SMT DEF TypeOK, Relay
  <2> QED
    BY <1>3, <2>3, <2>4, SMT DEF RelayInserts, TypeOK, manager, bounds
<1>4. CASE Notify
  <2>1. {s.msg : s \in relay.sms} \subseteq Messages
    BY SMT DEF TypeOK, Relay, Sms
  <2>2. notified' \subseteq Messages /\ faults' \in 0..MaxFaults
    BY <1>4, <2>1, InboxAssumption, SMT DEF Notify, TypeOK
  <2> QED
    BY <1>4, <2>2, IdleType DEF Notify, TypeOK, manager, store
<1> QED
  BY <1>1, <1>2, <1>3, <1>4 DEF RelayStep

LEMMA RequestType ==
  ASSUME TypeOK, NEW q \in Requests, RequestStep(q)
  PROVE  TypeOK'
<1>1. req[q] \in Req /\ sms \subseteq Sms /\ rows \subseteq Sms
  BY DEF TypeOK
<1>2. \A n \in Req : [req EXCEPT ![q] = n] \in [Requests -> Req]
  BY DEF TypeOK
<1>3. req[q].left \subseteq Sms /\ req[q].with \subseteq Participants
  BY <1>1, SMT DEF Req
<1>4. CASE PageLists(q)
  <2>1. [at |-> "insert", with |-> {}, left |-> sms] \in Req
    BY <1>1, SMT DEF Req
  <2> QED
    BY <1>2, <1>4, <2>1 DEF PageLists, TypeOK, manager, store, bounds
<1>5. CASE RequestInserts(q)
  <2>1. PICK s \in req[q].left : rows' = Inserted(s) /\ req' = [req EXCEPT ![q] = Rest(q, s)]
    BY <1>5 DEF RequestInserts
  <2>2. rows' \subseteq Sms
    BY <1>1, <1>3, <2>1, InsertedType
  <2>3. req' \in [Requests -> Req]
    BY <1>2, <2>1, RestType
  <2> QED
    BY <1>5, <2>2, <2>3 DEF RequestInserts, TypeOK, manager, bounds
<1>6. CASE DeleteRows(q)
  <2>1. PICK p \in req[q].with :
          /\ rows' = rows \ Of(p) /\ deleted' = deleted \cup {r.msg : r \in Of(p)}
    BY <1>6 DEF DeleteRows
  <2>2. deleted' \subseteq Messages
    BY <1>1, <2>1, SMT DEF Of, Sms, TypeOK
  <2>3. [req[q] EXCEPT !.at = "deleteSms"] \in Req
    BY <1>1 DEF Req
  <2>4. req' = [req EXCEPT ![q] = [req[q] EXCEPT !.at = "deleteSms"]]
    BY <1>6 DEF DeleteRows
  <2> QED
    BY <1>2, <1>6, <2>1, <2>2, <2>3, <2>4 DEF DeleteRows, TypeOK, manager, bounds
<1>7. CASE DeleteSms(q)
  <2>1. PICK r \in req[q].left :
          /\ sms' \subseteq sms
          /\ req' = [req EXCEPT ![q] = Rest(q, r)] \/ req' = [req EXCEPT ![q] = ReqIdle]
          /\ faults' = faults \/ (faults < MaxFaults /\ faults' = faults + 1)
    BY <1>7 DEF DeleteSms
  <2>2. req' \in [Requests -> Req]
    BY <1>2, <2>1, RestType, IdleType
  <2>3. faults' \in 0..MaxFaults
    BY <2>1, InboxAssumption, SMT DEF TypeOK
  <2> QED
    BY <1>7, <2>1, <2>2, <2>3 DEF DeleteSms, TypeOK, store
<1>8. CASE \E m \in Outgoing : Send(q, m)
  <2>1. PICK m \in Outgoing : Send(q, m)
    BY <1>8
  <2> DEFINE s == [path |-> next, msg |-> m, whole |-> TRUE]
  <2>2. next \in Paths /\ next + 1 \in 0..(MaxPath + 1)
    BY <2>1, InboxAssumption, SMT DEF Send, TypeOK, Paths
  <2>3. s \in Sms
    BY <2>2, SMT DEF Sms, Messages
  <2>4. [at |-> "insert", with |-> {}, left |-> {s}] \in Req
    BY <2>3, SMT DEF Req
  <2>5. sms' = sms \cup {s} /\ req' = [req EXCEPT ![q] = [at |-> "insert", with |-> {}, left |-> {s}]]
    BY <2>1 DEF Send
  <2>6. arrived' \subseteq Messages /\ received' \subseteq Messages
    BY <2>1 DEF Send, TypeOK, Messages
  <2> HIDE DEF s
  <2> QED
    BY <1>1, <1>2, <2>1, <2>2, <2>3, <2>4, <2>5, <2>6 DEF Send, TypeOK, store, bounds
<1>9. CASE \E p \in Participants : DeleteSelects(q, p)
  <2>1. PICK p \in Participants : DeleteSelects(q, p)
    BY <1>9
  <2>2. [at |-> "delete", with |-> {p}, left |-> Of(p)] \in Req
    BY <1>1, SMT DEF Req, Of
  <2> QED
    BY <1>2, <2>1, <2>2 DEF DeleteSelects, TypeOK, manager, store, bounds
<1> QED
  BY <1>4, <1>5, <1>6, <1>7, <1>8, <1>9 DEF RequestStep

LEMMA CrashType ==
  ASSUME TypeOK, Crash
  PROVE  TypeOK'
<1>1. crashes' \in 0..MaxCrashes /\ <<>> \in Seq(Paths)
  BY InboxAssumption, SMT DEF Crash, TypeOK
<1> QED
  BY <1>1, IdleType DEF Crash, TypeOK, manager, store

LEMMA StepType == TypeOK /\ [Next]_vars => TypeOK'
<1> SUFFICES ASSUME TypeOK, [Next]_vars PROVE TypeOK'
  OBVIOUS
<1>1. CASE UNCHANGED vars
  BY <1>1 DEF TypeOK, vars, manager, store, bounds
<1> QED
  BY <1>1, ManagerType, RelayType, RequestType, CrashType DEF Next

LEMMA InitType == Init => TypeOK
BY IdleType, InboxAssumption, SMT DEF Init, TypeOK

-----------------------------------------------------------------------------
(* Where copies come from. *)

LEMMA Elsewhere ==
  ASSUME TypeOK, NEW q \in Requests, NEW n, n.left \subseteq Copies,
         req' = [req EXCEPT ![q] = n]
  PROVE  UNION {req'[p].left : p \in Requests} \subseteq Copies
<1>1. ASSUME NEW p \in Requests PROVE req'[p].left \subseteq Copies
  <2>1. CASE p = q
    BY <2>1 DEF TypeOK
  <2>2. CASE p # q
    BY <2>2 DEF TypeOK, Copies
  <2> QED
    BY <2>1, <2>2
<1> QED
  BY <1>1

LEMMA RestLeft ==
  ASSUME TypeOK, NEW q \in Requests, NEW x
  PROVE  Rest(q, x).left \subseteq req[q].left
<1>1. req[q] \in Req
  BY DEF TypeOK
<1> QED
  BY <1>1 DEF Rest, ReqIdle, Req

LEMMA NothingNewRelay ==
  ASSUME TypeOK, RelayStep \/ Crash
  PROVE  Copies' \subseteq Copies
<1>1. CASE RelayStep
  <2>1. relay'.sms \subseteq Copies
    <3>1. CASE Retrieve
      <4>1. relay \in Relay
        BY DEF TypeOK
      <4>2. \A s \in sms : [relay EXCEPT !.at = "insert", !.sms = {s}].sms = {s}
        BY <4>1 DEF Relay
      <4>3. \/ relay' = RelayIdle
            \/ \E s \in sms : relay' = [relay EXCEPT !.at = "insert", !.sms = {s}]
        BY <3>1 DEF Retrieve
      <4>4. relay'.sms \subseteq sms
        <5>1. CASE relay' = RelayIdle
          BY <5>1 DEF RelayIdle
        <5>2. ASSUME NEW s \in sms, relay' = [relay EXCEPT !.at = "insert", !.sms = {s}]
              PROVE  relay'.sms \subseteq sms
          <6>1. relay'.sms = {s}
            BY <4>2, <5>2
          <6> QED
            BY <6>1
        <5> QED
          BY <4>3, <5>1, <5>2
      <4> QED
        BY <4>4 DEF Copies
    <3>2. CASE RelayInserts
      <4>1. relay'.sms \subseteq relay.sms
        BY <3>2 DEF RelayInserts, RelayIdle, TypeOK, Relay
      <4> QED
        BY <4>1 DEF Copies
    <3>3. CASE Take \/ Notify
      BY <3>3 DEF Take, Notify, RelayIdle
    <3> QED
      BY <1>1, <3>1, <3>2, <3>3 DEF RelayStep
  <2>2. rows' \subseteq Copies
    BY <1>1 DEF RelayStep, Take, Retrieve, RelayInserts, Notify, store, Inserted, Copies
  <2>3. sms' = sms /\ req' = req
    BY <1>1 DEF RelayStep, Take, Retrieve, RelayInserts, Notify, manager
  <2> QED
    BY <2>1, <2>2, <2>3 DEF Copies
<1>2. CASE Crash
  BY <1>2 DEF Crash, manager, store, RelayIdle, ReqIdle, Copies
<1> QED
  BY <1>1, <1>2

LEMMA NothingNewRequest ==
  ASSUME TypeOK, NEW q \in Requests,
         \/ PageLists(q) \/ RequestInserts(q) \/ DeleteRows(q) \/ DeleteSms(q)
         \/ \E p \in Participants : DeleteSelects(q, p)
  PROVE  Copies' \subseteq Copies
<1>1. CASE PageLists(q)
  <2> DEFINE n == [at |-> "insert", with |-> {}, left |-> sms]
  <2>1. req' = [req EXCEPT ![q] = n] /\ n.left \subseteq Copies
    BY <1>1 DEF PageLists, Copies
  <2> HIDE DEF n
  <2>2. UNION {req'[p].left : p \in Requests} \subseteq Copies
    BY <2>1, Elsewhere
  <2> QED
    BY <1>1, <2>2 DEF PageLists, manager, store, Copies
<1>2. CASE RequestInserts(q)
  <2>1. PICK s \in req[q].left : rows' = Inserted(s) /\ req' = [req EXCEPT ![q] = Rest(q, s)]
    BY <1>2 DEF RequestInserts
  <2>2. Rest(q, s).left \subseteq Copies
    BY RestLeft DEF Copies
  <2>3. UNION {req'[p].left : p \in Requests} \subseteq Copies
    BY <2>1, <2>2, Elsewhere
  <2>4. rows' \subseteq Copies
    BY <2>1 DEF Inserted, Copies
  <2> QED
    BY <1>2, <2>3, <2>4 DEF RequestInserts, manager, Copies
<1>3. CASE DeleteRows(q)
  <2> DEFINE n == [req[q] EXCEPT !.at = "deleteSms"]
  <2>1. req' = [req EXCEPT ![q] = n] /\ n.left \subseteq Copies
    BY <1>3 DEF DeleteRows, Copies, TypeOK, Req
  <2> HIDE DEF n
  <2>2. UNION {req'[p].left : p \in Requests} \subseteq Copies
    BY <2>1, Elsewhere
  <2> QED
    BY <1>3, <2>2 DEF DeleteRows, manager, Copies
<1>4. CASE DeleteSms(q)
  <2>1. PICK n \in {Rest(q, r) : r \in req[q].left} \cup {ReqIdle} :
          sms' \subseteq sms /\ req' = [req EXCEPT ![q] = n]
    BY <1>4 DEF DeleteSms
  <2>2. n.left \subseteq Copies
    BY <2>1, RestLeft DEF ReqIdle, Copies
  <2>3. UNION {req'[p].left : p \in Requests} \subseteq Copies
    BY <2>1, <2>2, Elsewhere
  <2> QED
    BY <1>4, <2>1, <2>3 DEF DeleteSms, store, Copies
<1>5. CASE \E p \in Participants : DeleteSelects(q, p)
  <2>1. PICK p \in Participants : DeleteSelects(q, p)
    BY <1>5
  <2> DEFINE n == [at |-> "delete", with |-> {p}, left |-> Of(p)]
  <2>2. req' = [req EXCEPT ![q] = n] /\ n.left \subseteq Copies
    BY <2>1 DEF DeleteSelects, Of, Copies
  <2> HIDE DEF n
  <2>3. UNION {req'[k].left : k \in Requests} \subseteq Copies
    BY <2>2, Elsewhere
  <2> QED
    BY <2>1, <2>3 DEF DeleteSelects, manager, store, Copies
<1> QED
  BY <1>1, <1>2, <1>3, <1>4, <1>5

\* One message begins to be there, under the next path.
LEMMA OneNew ==
  ASSUME TypeOK,
         \/ \E m \in Incoming, whole \in BOOLEAN : Arrive(m, whole)
         \/ \E q \in Requests, m \in Outgoing : Send(q, m)
  PROVE  \E x \in Sms :
           /\ x.path = next /\ next' = next + 1
           /\ x.msg \in Incoming \ Long => x.whole
           /\ Copies' \subseteq Copies \cup {x}
           /\ rows' = rows
<1>1. CASE \E m \in Incoming, whole \in BOOLEAN : Arrive(m, whole)
  <2>1. PICK m \in Incoming, whole \in BOOLEAN : Arrive(m, whole)
    BY <1>1
  <2> DEFINE x == [path |-> next, msg |-> m, whole |-> whole]
  <2>2. next \in Paths
    BY <2>1, InboxAssumption, SMT DEF Arrive, TypeOK, Paths
  <2>3. x \in Sms
    BY <2>2 DEF Sms, Messages
  <2>4. x.path = next /\ (x.msg \in Incoming \ Long => x.whole)
    BY <2>1 DEF Arrive
  <2>5. sms' = sms \cup {x} /\ next' = next + 1
    BY <2>1 DEF Arrive
  <2> HIDE DEF x
  <2>6. UNCHANGED <<rows, relay, req>>
    BY <2>1 DEF Arrive, store
  <2> QED
    BY <2>3, <2>4, <2>5, <2>6 DEF Copies
<1>2. CASE \E q \in Requests, m \in Outgoing : Send(q, m)
  <2>1. PICK q \in Requests, m \in Outgoing : Send(q, m)
    BY <1>2
  <2> DEFINE x == [path |-> next, msg |-> m, whole |-> TRUE]
             n == [at |-> "insert", with |-> {}, left |-> {x}]
  <2>2. next \in Paths
    BY <2>1, InboxAssumption, SMT DEF Send, TypeOK, Paths
  <2>3. x \in Sms
    BY <2>2 DEF Sms, Messages
  <2>4. x.path = next /\ (x.msg \in Incoming \ Long => x.whole)
    OBVIOUS
  <2>5. sms' = sms \cup {x} /\ next' = next + 1 /\ req' = [req EXCEPT ![q] = n] /\ n.left = {x}
    BY <2>1 DEF Send
  <2> HIDE DEF x, n
  <2>6. UNCHANGED <<rows, relay>>
    BY <2>1 DEF Send, store
  <2>7. ASSUME NEW p \in Requests PROVE req'[p].left \subseteq req[p].left \cup {x}
    BY <2>5 DEF TypeOK
  <2>8. UNION {req'[p].left : p \in Requests} \subseteq Copies \cup {x}
    BY <2>7 DEF Copies
  <2> QED
    BY <2>3, <2>4, <2>5, <2>6, <2>8 DEF Copies
<1> QED
  BY <1>1, <1>2

LEMMA CompleteNew ==
  ASSUME TypeOK, NEW m \in Incoming, Complete(m), NEW x \in Copies'
  PROVE  \E y \in Copies : x.path = y.path /\ x.msg = y.msg /\ (y.whole => x.whole)
<1>1. PICK s \in sms :
        /\ sms' = (sms \ {s}) \cup {[s EXCEPT !.whole = TRUE]}
        /\ UNCHANGED <<relay, store, req>>
  BY DEF Complete
<1>2. s \in Sms
  BY DEF TypeOK
<1> DEFINE n == [s EXCEPT !.whole = TRUE]
<1>3. n.path = s.path /\ n.msg = s.msg /\ n.whole
  BY <1>2 DEF Sms
<1>4. sms' = (sms \ {s}) \cup {n}
  BY <1>1
<1> HIDE DEF n
<1>5. x \in Copies \/ x = n
  BY <1>1, <1>4 DEF Copies, store
<1> QED
  BY <1>3, <1>5 DEF Copies

LEMMA RestartNew ==
  ASSUME TypeOK, ManagerRestart, NEW x \in Copies'
  PROVE  \E y \in Copies : x.msg = y.msg /\ x.whole = y.whole
<1>1. x \in Copies \/ x \in sms'
  BY DEF ManagerRestart, RelayIdle, store, Copies
<1>2. ASSUME x \in sms' PROVE \E y \in sms : x.msg = y.msg /\ x.whole = y.whole
  <2>1. PICK s \in sms : \E k : x = [s EXCEPT !.path = k]
    BY <1>2 DEF ManagerRestart
  <2>2. s \in Sms
    BY DEF TypeOK
  <2> QED
    BY <2>1, <2>2 DEF Sms
<1> QED
  BY <1>1, <1>2 DEF Copies

\* One row for each message.
LEMMA SingleStep == TypeOK /\ Single /\ [Next]_vars => Single'
<1> SUFFICES ASSUME TypeOK, Single, [Next]_vars PROVE Single'
  OBVIOUS
<1>1. CASE Copies' \subseteq Copies
  BY <1>1 DEF Single
<1>2. CASE UNCHANGED vars
  BY <1>1, <1>2 DEF vars, manager, store, Copies
<1>3. CASE \/ \E m \in Incoming, whole \in BOOLEAN : Arrive(m, whole)
           \/ \E q \in Requests, m \in Outgoing : Send(q, m)
  BY <1>3, OneNew DEF Single
<1>4. CASE \E m \in Incoming : Complete(m)
  BY <1>4, CompleteNew DEF Single
<1>5. CASE ManagerRestart
  BY <1>5, RestartNew DEF Single
<1>6. CASE RelayStep \/ Crash
  BY <1>1, <1>6, NothingNewRelay
<1>7. ASSUME NEW q \in Requests, RequestStep(q) PROVE Single'
  BY <1>1, <1>3, <1>7, NothingNewRequest DEF RequestStep
<1> QED
  BY <1>2, <1>3, <1>4, <1>5, <1>6, <1>7 DEF Next

LEMMA RowsChange ==
  ASSUME TypeOK, [Next]_vars
  PROVE  rows' \subseteq rows \/ \E s \in Copies : rows' = Inserted(s)
<1>1. CASE UNCHANGED vars
  BY <1>1 DEF vars, store
<1>2. CASE \/ \E m \in Incoming, whole \in BOOLEAN : Arrive(m, whole)
           \/ \E m \in Incoming : Complete(m)
           \/ ManagerRestart \/ Crash
  BY <1>2 DEF Arrive, Complete, ManagerRestart, Crash, store
<1>3. CASE RelayStep
  BY <1>3 DEF RelayStep, Take, Retrieve, RelayInserts, Notify, store, Copies
<1>4. ASSUME NEW q \in Requests, RequestStep(q)
      PROVE  rows' \subseteq rows \/ \E s \in Copies : rows' = Inserted(s)
  <2>1. CASE RequestInserts(q)
    BY <2>1 DEF RequestInserts, Copies
  <2>2. CASE DeleteRows(q)
    BY <2>2 DEF DeleteRows
  <2>3. CASE \/ PageLists(q) \/ DeleteSms(q) \/ \E m \in Outgoing : Send(q, m)
             \/ \E p \in Participants : DeleteSelects(q, p)
    BY <2>3 DEF PageLists, DeleteSms, Send, DeleteSelects, store
  <2> QED
    BY <1>4, <2>1, <2>2, <2>3 DEF RequestStep
<1> QED
  BY <1>1, <1>2, <1>3, <1>4 DEF Next

LEMMA OneRowStep == TypeOK /\ Single /\ OneRow /\ [Next]_vars => OneRow'
<1> SUFFICES ASSUME TypeOK, Single, OneRow, [Next]_vars PROVE OneRow'
  OBVIOUS
<1>1. CASE rows' \subseteq rows
  BY <1>1 DEF OneRow
<1>2. ASSUME NEW s \in Copies, rows' = Inserted(s), ~Conflicts(s)
      PROVE  OneRow'
  <2>1. ASSUME NEW r \in rows, r.msg = s.msg, r.msg \in Incoming \ Long
        PROVE  FALSE
    <3>1. r.whole /\ s.whole
      BY <2>1 DEF Single, Copies
    <3>2. r \in Sms /\ s \in Sms
      BY CopiesType DEF Copies
    <3>3. r.whole = s.whole
      BY <3>1, <3>2 DEF Sms
    <3> QED
      BY <1>2, <2>1, <3>3 DEF Conflicts, SameFingerprint
  <2>2. rows' = rows \cup {s}
    BY <1>2 DEF Inserted
  <2> QED
    BY <2>1, <2>2 DEF OneRow
<1>3. ASSUME NEW s \in Copies, rows' = Inserted(s), Conflicts(s)
      PROVE  OneRow'
  BY <1>1, <1>3 DEF Inserted
<1> QED
  BY <1>1, <1>2, <1>3, RowsChange

-----------------------------------------------------------------------------
(* Until ModemManager restarts. *)

LEMMA PathsStep ==
  ASSUME TypeOK, Below, OnePath, [Next]_vars, ~ManagerRestart
  PROVE  Below' /\ OnePath'
<1>1. next \in Nat
  BY InboxAssumption, SMT DEF TypeOK
<1>2. \A x \in Copies : x.path \in Nat /\ x.path # next
  <2>1. \A x \in Copies : x.path \in Paths
    BY CopiesType DEF Sms
  <2> QED
    BY <1>1, <2>1, InboxAssumption, SMT DEF Below, Paths
<1>3. CASE Copies' \subseteq Copies /\ next' = next
  BY <1>3 DEF Below, OnePath
<1>4. CASE UNCHANGED vars
  BY <1>3, <1>4 DEF vars, manager, store, Copies
<1>5. CASE \/ \E m \in Incoming, whole \in BOOLEAN : Arrive(m, whole)
           \/ \E q \in Requests, m \in Outgoing : Send(q, m)
  <2>1. PICK n \in Sms : n.path = next /\ next' = next + 1 /\ Copies' \subseteq Copies \cup {n}
    BY <1>5, OneNew
  <2>2. Below'
    <3>1. ASSUME NEW x \in Copies' PROVE x.path < next + 1
      BY <1>1, <1>2, <2>1, <3>1, SMT DEF Below
    <3> QED
      BY <2>1, <3>1 DEF Below
  <2> QED
    BY <1>2, <2>1, <2>2 DEF OnePath
<1>6. CASE \E m \in Incoming : Complete(m)
  <2>1. next' = next
    BY <1>6 DEF Complete
  <2> QED
    BY <1>6, <2>1, CompleteNew DEF Below, OnePath
<1>7. CASE RelayStep \/ Crash
  <2>1. next' = next
    BY <1>7 DEF RelayStep, Take, Retrieve, RelayInserts, Notify, Crash, manager
  <2> QED
    BY <1>3, <1>7, <2>1, NothingNewRelay
<1>8. ASSUME NEW q \in Requests, RequestStep(q) PROVE Below' /\ OnePath'
  <2>1. CASE \E m \in Outgoing : Send(q, m)
    BY <1>5, <2>1
  <2>2. CASE \/ PageLists(q) \/ RequestInserts(q) \/ DeleteRows(q) \/ DeleteSms(q)
             \/ \E p \in Participants : DeleteSelects(q, p)
    <3>1. next' = next
      BY <2>2 DEF PageLists, RequestInserts, DeleteRows, DeleteSms, DeleteSelects, manager
    <3> QED
      BY <1>3, <2>2, <3>1, NothingNewRequest
  <2> QED
    BY <1>8, <2>1, <2>2 DEF RequestStep
<1> QED
  BY <1>4, <1>5, <1>6, <1>7, <1>8 DEF Next

\* What a request takes from the modem.
LEMMA Taken ==
  ASSUME TypeOK, Sure, NEW q \in Requests, DeleteSms(q), NEW s \in sms, s \notin sms'
  PROVE  s.msg \in deleted /\ With[s.msg] \in req[q].with
<1>1. PICK r \in req[q].left : sms' = {t \in sms : ~Deletes(t, r)}
  BY DEF DeleteSms
<1>2. s.path = r.path
  BY <1>1 DEF Deletes
<1>3. s.msg = r.msg
  BY <1>2 DEF Sure, OnePath, Copies
<1>4. req[q].at = "deleteSms"
  BY DEF DeleteSms
<1> QED
  BY <1>3, <1>4 DEF Sure, Deleting

LEMMA OnModemStep ==
  ASSUME TypeOK, Sure, [Next]_vars, ~ManagerRestart
  PROVE  OnModem'
<1>1. OnModem
  BY DEF Sure
<1>2. CASE sms' = sms /\ received' = received /\ deleted \subseteq deleted'
  BY <1>1, <1>2 DEF OnModem
<1>3. CASE UNCHANGED vars
  BY <1>2, <1>3 DEF vars, manager, store
<1>4. CASE \E m \in Incoming, whole \in BOOLEAN : Arrive(m, whole)
  <2>1. PICK m \in Incoming, whole \in BOOLEAN : Arrive(m, whole)
    BY <1>4
  <2> DEFINE x == [path |-> next, msg |-> m, whole |-> whole]
  <2>2. sms' = sms \cup {x} /\ x.msg = m /\ received' \subseteq received \cup {m}
    BY <2>1 DEF Arrive
  <2> HIDE DEF x
  <2> QED
    BY <1>1, <2>1, <2>2 DEF Arrive, store, OnModem
<1>5. CASE \E m \in Incoming : Complete(m)
  <2>1. PICK m \in Incoming, s \in sms :
          /\ s.msg = m /\ sms' = (sms \ {s}) \cup {[s EXCEPT !.whole = TRUE]}
          /\ received' = received \cup {m} /\ UNCHANGED store
    BY <1>5 DEF Complete
  <2> DEFINE x == [s EXCEPT !.whole = TRUE]
  <2>2. s \in Sms
    BY DEF TypeOK
  <2>3. x.msg = m /\ sms' = (sms \ {s}) \cup {x}
    BY <2>1, <2>2 DEF Sms
  <2> HIDE DEF x
  <2> QED
    BY <1>1, <2>1, <2>3 DEF store, OnModem
<1>6. CASE RelayStep \/ Crash
  BY <1>2, <1>6 DEF RelayStep, Take, Retrieve, RelayInserts, Notify, Crash, manager, store
<1>7. ASSUME NEW q \in Requests, RequestStep(q) PROVE OnModem'
  <2>1. CASE \E m \in Outgoing : Send(q, m)
    <3>1. PICK m \in Outgoing : Send(q, m)
      BY <2>1
    <3> DEFINE x == [path |-> next, msg |-> m, whole |-> TRUE]
    <3>2. sms' = sms \cup {x} /\ x.msg = m /\ received' = received \cup {m}
      BY <3>1 DEF Send
    <3> HIDE DEF x
    <3> QED
      BY <1>1, <3>1, <3>2 DEF Send, store, OnModem
  <2>2. CASE DeleteSms(q)
    BY <1>1, <2>2, Taken DEF DeleteSms, store, OnModem
  <2>3. CASE \/ PageLists(q) \/ RequestInserts(q) \/ DeleteRows(q)
             \/ \E p \in Participants : DeleteSelects(q, p)
    BY <1>2, <2>3 DEF PageLists, RequestInserts, DeleteRows, DeleteSelects, manager, store
  <2> QED
    BY <1>7, <2>1, <2>2, <2>3 DEF RequestStep
<1> QED
  BY <1>3, <1>4, <1>5, <1>6, <1>7 DEF Next

\* A row goes only to become a deleted message.
LEMMA DeletedGrows ==
  ASSUME TypeOK, [Next]_vars
  PROVE  deleted \subseteq deleted' /\ \A r \in rows : r \in rows' \/ r.msg \in deleted'
<1>1. CASE UNCHANGED store
  BY <1>1 DEF store
<1>2. CASE deleted' = deleted /\ \E s \in Copies : rows' = Inserted(s)
  BY <1>2 DEF Inserted
<1>3. CASE UNCHANGED vars
  BY <1>1, <1>3 DEF vars
<1>4. CASE \/ \E m \in Incoming, whole \in BOOLEAN : Arrive(m, whole)
           \/ \E m \in Incoming : Complete(m)
           \/ ManagerRestart \/ Crash \/ Take \/ Retrieve \/ Notify
  BY <1>1, <1>4 DEF Arrive, Complete, ManagerRestart, Crash, Take, Retrieve, Notify
<1>5. CASE RelayInserts
  BY <1>2, <1>5 DEF RelayInserts, Copies
<1>6. ASSUME NEW q \in Requests, RequestStep(q)
      PROVE  deleted \subseteq deleted' /\ \A r \in rows : r \in rows' \/ r.msg \in deleted'
  <2>1. CASE RequestInserts(q)
    BY <1>2, <2>1 DEF RequestInserts, Copies
  <2>2. CASE DeleteRows(q)
    BY <2>2 DEF DeleteRows
  <2>3. CASE \/ PageLists(q) \/ DeleteSms(q) \/ \E m \in Outgoing : Send(q, m)
             \/ \E p \in Participants : DeleteSelects(q, p)
    BY <1>1, <2>3 DEF PageLists, DeleteSms, Send, DeleteSelects
  <2> QED
    BY <1>6, <2>1, <2>2, <2>3 DEF RequestStep
<1> QED
  BY <1>3, <1>4, <1>5, <1>6 DEF Next, RelayStep

LEMMA RestFields ==
  ASSUME TypeOK, NEW q \in Requests, NEW x
  PROVE  \/ Rest(q, x) = ReqIdle
         \/ /\ Rest(q, x).at = req[q].at
            /\ Rest(q, x).with = req[q].with
            /\ Rest(q, x).left \subseteq req[q].left
<1>1. req[q] \in Req
  BY DEF TypeOK
<1> QED
  BY <1>1 DEF Rest, Req

LEMMA DeletingOwn ==
  ASSUME TypeOK, NEW q \in Requests, Deleting(q), RequestStep(q)
  PROVE  Deleting(q)'
<1>1. req[q] \in Req /\ \A n : [req EXCEPT ![q] = n][q] = n
  BY DEF TypeOK
<1>2. CASE req'[q].at \notin {"delete", "deleteSms"}
  BY <1>2 DEF Deleting
<1>3. ASSUME NEW x, req'[q] = Rest(q, x), deleted' = deleted, rows \subseteq rows'
      PROVE  Deleting(q)'
  BY <1>2, <1>3, RestFields DEF Deleting, ReqIdle
<1>4. CASE PageLists(q) \/ \E m \in Outgoing : Send(q, m)
  BY <1>1, <1>2, <1>4 DEF PageLists, Send
<1>5. CASE RequestInserts(q)
  <2>1. PICK s : rows' = Inserted(s) /\ req' = [req EXCEPT ![q] = Rest(q, s)] /\ deleted' = deleted
    BY <1>5 DEF RequestInserts
  <2> QED
    BY <1>1, <1>3, <2>1 DEF Inserted
<1>6. CASE DeleteRows(q)
  <2>1. PICK p \in req[q].with :
          /\ rows' = rows \ Of(p) /\ deleted' = deleted \cup {r.msg : r \in Of(p)}
    BY <1>6 DEF DeleteRows
  <2>2. req'[q].at = "deleteSms" /\ req'[q].with = req[q].with /\ req'[q].left = req[q].left
    BY <1>1, <1>6 DEF DeleteRows, Req
  <2>3. req[q].at = "delete" /\ req[q].with \subseteq Participants
    BY <1>1, <1>6 DEF DeleteRows, Req
  <2>4. req[q].with = {p} /\ \A r \in req[q].left : With[r.msg] = p /\ (r.msg \in deleted \/ r \in rows)
    BY <2>1, <2>3 DEF Deleting
  <2>5. \A r \in req[q].left : r.msg \in deleted'
    BY <2>1, <2>4 DEF Of
  <2> QED
    BY <2>1, <2>2, <2>3, <2>4, <2>5 DEF Deleting
<1>7. CASE DeleteSms(q)
  <2>1. PICK r : req' = [req EXCEPT ![q] = Rest(q, r)] \/ req' = [req EXCEPT ![q] = ReqIdle]
    BY <1>7 DEF DeleteSms
  <2>2. UNCHANGED store
    BY <1>7 DEF DeleteSms
  <2> QED
    BY <1>1, <1>2, <1>3, <2>1, <2>2 DEF ReqIdle, store
<1>8. CASE \E p \in Participants : DeleteSelects(q, p)
  <2>1. PICK p \in Participants : DeleteSelects(q, p)
    BY <1>8
  <2>2. req'[q] = [at |-> "delete", with |-> {p}, left |-> Of(p)] /\ rows' = rows
    BY <1>1, <2>1 DEF DeleteSelects, store
  <2> QED
    BY <2>2 DEF Deleting, Of
<1> QED
  BY <1>4, <1>5, <1>6, <1>7, <1>8 DEF RequestStep

LEMMA DeletingStep ==
  ASSUME TypeOK, NEW q \in Requests, Deleting(q), [Next]_vars
  PROVE  Deleting(q)'
<1>1. CASE req'[q] = req[q]
  BY <1>1, DeletedGrows DEF Deleting
<1>2. CASE UNCHANGED vars
  BY <1>1, <1>2 DEF vars
<1>3. CASE \/ \E m \in Incoming, whole \in BOOLEAN : Arrive(m, whole)
           \/ \E m \in Incoming : Complete(m)
           \/ ManagerRestart \/ RelayStep
  BY <1>1, <1>3 DEF Arrive, Complete, ManagerRestart, RelayStep, Take, Retrieve, RelayInserts, Notify
<1>4. CASE Crash
  BY <1>4 DEF Crash, ReqIdle, Deleting
<1>5. ASSUME NEW p \in Requests, RequestStep(p) PROVE Deleting(q)'
  <2>1. CASE p = q
    BY <1>5, <2>1, DeletingOwn
  <2>2. CASE p # q
    <3>1. \E n : req' = [req EXCEPT ![p] = n]
      BY <1>5 DEF RequestStep, PageLists, RequestInserts, DeleteRows, DeleteSms, Send, DeleteSelects
    <3> QED
      BY <1>1, <2>2, <3>1 DEF TypeOK
  <2> QED
    BY <2>1, <2>2
<1> QED
  BY <1>2, <1>3, <1>4, <1>5 DEF Next

-----------------------------------------------------------------------------
(* The theorems. *)

LEMMA Start == Init => IInv
<1> SUFFICES ASSUME Init PROVE IInv
  OBVIOUS
<1>1. TypeOK
  BY InitType
<1>2. Copies = {} /\ rows = {} /\ received = {}
  BY DEF Init, Copies, RelayIdle, ReqIdle
<1>3. \A q \in Requests : Deleting(q)
  BY DEF Init, Deleting, ReqIdle
<1> QED
  BY <1>1, <1>2, <1>3 DEF IInv, Single, OneRow, Sure, Below, OnePath, OnModem

LEMMA Step == IInv /\ [Next]_vars => IInv'
<1> SUFFICES ASSUME IInv, [Next]_vars PROVE IInv'
  OBVIOUS
<1>1. TypeOK /\ TypeOK'
  BY StepType DEF IInv
<1>2. Single' /\ OneRow'
  BY SingleStep, OneRowStep DEF IInv
<1>3. ASSUME restarts' = 0 PROVE Sure'
  <2>1. restarts \in Nat
    BY <1>1, InboxAssumption, SMT DEF TypeOK
  <2>2. ~ManagerRestart
    BY <1>3, <2>1, SMT DEF ManagerRestart
  <2>3. restarts = 0
    BY <1>3, <2>2 DEF Next, Arrive, Complete, RelayStep, Take, Retrieve, RelayInserts, Notify, Crash,
      RequestStep, PageLists, RequestInserts, DeleteRows, DeleteSms, Send, DeleteSelects, bounds, vars
  <2>4. Sure
    BY <2>3 DEF IInv
  <2>5. Below' /\ OnePath'
    BY <1>1, <2>2, <2>4, PathsStep DEF Sure
  <2>6. OnModem'
    BY <1>1, <2>2, <2>4, OnModemStep
  <2>7. \A q \in Requests : Deleting(q)'
    BY <1>1, <2>4, DeletingStep DEF Sure
  <2> QED
    BY <2>5, <2>6, <2>7 DEF Sure
<1> QED
  BY <1>1, <1>2, <1>3 DEF IInv

\* IInv is an invariant.
THEOREM Invariance == Spec => []IInv
BY Start, Step, PTL DEF Spec

\* Every reachable state is well typed.
THEOREM TypeCorrect == Spec => []TypeOK
<1>1. IInv => TypeOK
  BY DEF IInv
<1> QED
  BY <1>1, Invariance, PTL

\* However often ModemManager restarts and whatever paths it gives, InsertMessage
\* stores a received message of one part once.
THEOREM StoredOnce == Spec => []OneRow
<1>1. IInv => OneRow
  BY DEF IInv
<1> QED
  BY <1>1, Invariance, PTL

LEMMA Findable == TypeOK /\ Sure => NothingLost
<1> SUFFICES ASSUME TypeOK, Sure, NEW m \in received, m \notin deleted, \A r \in rows : r.msg # m
             PROVE  \E s \in sms : s.msg = m /\ ~Conflicts(s)
  BY DEF NothingLost
<1>1. PICK s \in sms : s.msg = m
  BY DEF Sure, OnModem
<1>2. ASSUME NEW r \in rows, r.path = s.path PROVE FALSE
  BY <1>1, <1>2 DEF Sure, OnePath, Copies
<1> QED
  BY <1>1, <1>2 DEF Conflicts, SameFingerprint

\* As long as ModemManager does not restart, no message received is lost.
THEOREM NoneLost == Spec => []NothingLost
<1>1. IInv => NothingLost
  <2>1. CASE restarts = 0
    BY <2>1, Findable DEF IInv
  <2>2. CASE restarts # 0
    BY <2>2 DEF NothingLost
  <2> QED
    BY <2>1, <2>2
<1> QED
  BY <1>1, Invariance, PTL

\* As long as ModemManager does not restart, what disappears from the modem is
\* what a user is deleting.
THEOREM DeletesOwn == Spec => DeleteOwn
<1> DEFINE Own == \A s \in sms : (\A t \in sms' : t.msg # s.msg) /\ restarts' = 0 =>
                    \E q \in Requests : req[q].at = "deleteSms" /\ With[s.msg] \in req[q].with
<1>1. IInv /\ [Next]_vars => [Own]_vars
  <2> SUFFICES ASSUME IInv, Next, NEW s \in sms, \A t \in sms' : t.msg # s.msg, restarts' = 0
               PROVE  \E q \in Requests : req[q].at = "deleteSms" /\ With[s.msg] \in req[q].with
    OBVIOUS
  <2>0. TypeOK /\ s \in Sms /\ restarts \in Nat
    BY InboxAssumption, SMT DEF IInv, TypeOK
  <2>10. ~ManagerRestart
    BY <2>0, SMT DEF ManagerRestart
  <2>1. TypeOK /\ restarts = 0 /\ s \in Sms
    BY <2>0, <2>10 DEF Next, Arrive, Complete, RelayStep, Take, Retrieve, RelayInserts, Notify, Crash,
      RequestStep, PageLists, RequestInserts, DeleteRows, DeleteSms, Send, DeleteSelects, bounds
  <2>2. Sure
    BY <2>1 DEF IInv
  <2>3. s \notin sms'
    OBVIOUS
  <2>4. CASE sms \subseteq sms'
    BY <2>3, <2>4
  <2>5. CASE \E m \in Incoming, whole \in BOOLEAN : Arrive(m, whole)
    BY <2>4, <2>5 DEF Arrive
  <2>6. CASE \E m \in Incoming : Complete(m)
    <3>1. PICK x \in sms : sms' = (sms \ {x}) \cup {[x EXCEPT !.whole = TRUE]}
      BY <2>6 DEF Complete
    <3>2. x = s
      BY <2>3, <3>1
    <3>3. [s EXCEPT !.whole = TRUE].msg = s.msg
      BY <2>1 DEF Sms
    <3> QED
      BY <3>1, <3>2, <3>3
  <2>7. CASE ManagerRestart
    BY <2>7, <2>10
  <2>8. CASE RelayStep \/ Crash
    BY <2>4, <2>8 DEF RelayStep, Take, Retrieve, RelayInserts, Notify, Crash, manager
  <2>9. ASSUME NEW q \in Requests, RequestStep(q)
        PROVE  req[q].at = "deleteSms" /\ With[s.msg] \in req[q].with
    <3>1. CASE DeleteSms(q)
      BY <2>1, <2>2, <2>3, <3>1, Taken DEF DeleteSms
    <3>2. CASE \/ PageLists(q) \/ RequestInserts(q) \/ DeleteRows(q)
               \/ \E m \in Outgoing : Send(q, m)
               \/ \E p \in Participants : DeleteSelects(q, p)
      BY <2>4, <3>2 DEF PageLists, RequestInserts, DeleteRows, Send, DeleteSelects, manager
    <3> QED
      BY <2>9, <3>1, <3>2 DEF RequestStep
  <2> QED
    BY <2>5, <2>6, <2>7, <2>8, <2>9 DEF Next
<1> HIDE DEF Own
<1>2. Spec => [][Own]_vars
  BY <1>1, Invariance, PTL DEF Spec
<1> QED
  BY <1>2 DEF DeleteOwn, Own
=============================================================================
