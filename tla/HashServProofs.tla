--------------------------- MODULE HashServProofs ---------------------------
(***************************************************************************)
(* What is proved of HashServ for every set of clients, slots and hashes.  *)
(***************************************************************************)
EXTENDS HashServ, SequenceTheorems, WellFoundedInduction, TLAPS

-----------------------------------------------------------------------------
(* Types *)

LEMMA InitialValues ==
  /\ Idle \in CallState /\ Free \in HandlerState /\ NoWork \in WorkerState
  /\ Idle.st = "idle" /\ Idle.tries = 0
  /\ Free.pc = "free" /\ Free.client = NoClient /\ Free.found = {}
  /\ NoWork.pc = "idle" /\ NoWork.found = {}
<1>1. (CHOOSE m \in Requests : TRUE) \in Requests
  BY RequestsAssumption
<1>2. (CHOOSE t \in TaskHashes : TRUE) \in TaskHashes
  BY TaskHashesAssumption
<1>3. 0 \in 0..Retries
  BY BoundsAssumption
<1>4. QED
  BY <1>1, <1>2, <1>3 DEF Idle, Free, NoWork, CallState, HandlerState, WorkerState

\* _send_wrapper never counts past its limit
LEMMA RetryType ==
  ASSUME NEW x \in CallState
  PROVE  Retry(x) \in CallState
<1>1. CASE x.tries < Retries
  <2>1. x.tries + 1 \in 0..Retries /\ x.msg \in Requests
    BY <1>1, BoundsAssumption DEF CallState
  <2>2. QED
    BY <1>1, <2>1, InitialValues DEF Retry, CallState
<1>2. CASE ~(x.tries < Retries)
  BY <1>2, InitialValues DEF Retry
<1>3. QED
  BY <1>1, <1>2

\* A query returns rows of the table it reads
LEMMA QueryRows ==
  ASSUME NEW table, NEW t, NEW o
  PROVE  /\ TaskQuery(table, t) \subseteq table
         /\ OuthashQuery(table, o, t) \subseteq table
         /\ \A r \in TaskQuery(table, t) : r.taskhash = t
         /\ \A r \in OuthashQuery(table, o, t) : r.outhash = o
BY DEF TaskQuery, OuthashQuery, Fetch

LEMMA RowUnihashes ==
  ASSUME NEW rows \in SUBSET Row
  PROVE  {r.unihash : r \in rows} \subseteq UniHashes
BY DEF Row

LEMMA RequestFields ==
  ASSUME NEW m, m \in Requests \/ m \in UpRequests
  PROVE  /\ m.taskhash \in TaskHashes /\ m.outhash \in OutHashes
         /\ m.unihash \in UniHashes
BY RequestsAssumption DEF Request

LEMMA NewRowType ==
  ASSUME now \in Nat, NEW o \in OutHashes \cup {NoOut},
         NEW t \in TaskHashes, NEW u \in UniHashes
  PROVE  NewRow(o, t, u) \in Row
BY DEF NewRow, Row

LEMMA ReplyType ==
  ASSUME TypeOK, NEW k \in Conns, NEW us \in SUBSET UniHashes, Reply(k, us)
  PROVE  conn' \in [Conns -> HandlerState]
<1>1. conn[k] \in HandlerState
  BY DEF TypeOK
<1> DEFINE new == [conn[k] EXCEPT !.pc = "replied", !.found = {}, !.reply = us]
<1>2. new \in HandlerState
  BY <1>1 DEF HandlerState
<1>3. conn' = [conn EXCEPT ![k] = IF conn[k].client = NoClient THEN Free ELSE new]
  BY DEF Reply
<1>4. Free \in HandlerState
  BY InitialValues
<1> HIDE DEF new
<1>5. QED
  BY <1>2, <1>3, <1>4 DEF TypeOK

LEMMA RaiseType ==
  ASSUME TypeOK, NEW k \in Conns, Raise(k)
  PROVE  conn' \in [Conns -> HandlerState] /\ call' \in [Clients -> CallState]
BY InitialValues, RetryType DEF TypeOK, Raise

LEMMA FinishReportType ==
  ASSUME TypeOK, NEW k \in Conns, NEW table \in SUBSET Row, NEW found \in SUBSET Row,
         FinishReport(k, table, found)
  PROVE  /\ db' \subseteq Row /\ now' \in Nat
         /\ conn' \in [Conns -> HandlerState] /\ call' \in [Clients -> CallState]
<1> DEFINE m == conn[k].msg
<1>1. m \in Requests /\ m.taskhash \in TaskHashes /\ m.outhash \in OutHashes
      /\ m.unihash \in UniHashes
  BY RequestFields DEF TypeOK, HandlerState
<1>2. CASE /\ \E r \in found : r.taskhash = m.taskhash /\ Reply(k, {r.unihash})
           /\ db' = table /\ UNCHANGED <<now, call>>
  <2>1. PICK r \in found : Reply(k, {r.unihash})
    BY <1>2
  <2>2. {r.unihash} \in SUBSET UniHashes
    BY DEF Row
  <2>3. QED
    BY <1>2, <2>1, <2>2, ReplyType DEF TypeOK
<1>3. CASE /\ \E u \in StoredUnihash(m, found) :
                /\ db' = table \cup {NewRow(m.outhash, m.taskhash, u)}
                /\ Reply(k, {u})
           /\ now' = now + 1 /\ UNCHANGED call
  <2>1. PICK u \in StoredUnihash(m, found) :
                /\ db' = table \cup {NewRow(m.outhash, m.taskhash, u)}
                /\ Reply(k, {u})
    BY <1>3
  <2>2. u \in UniHashes
    BY <1>1, RowUnihashes DEF StoredUnihash
  <2>3. NewRow(m.outhash, m.taskhash, u) \in Row
    BY <1>1, <2>2, NewRowType DEF TypeOK
  <2>4. QED
    BY <1>3, <2>1, <2>2, <2>3, ReplyType DEF TypeOK
<1>4. CASE db' = table /\ Raise(k) /\ UNCHANGED now
  BY <1>4, RaiseType DEF TypeOK
<1>5. QED
  BY <1>2, <1>3, <1>4 DEF FinishReport

\* The part of JoinCount and of the types a handler's step can disturb
LEMMA HandlerStepType ==
  ASSUME TypeOK, JoinCount, NEW k \in Conns, Handler(k)
  PROVE  TypeOK' /\ JoinCount'
<1> DEFINE m == conn[k].msg
<1>m. /\ m \in Requests /\ m.taskhash \in TaskHashes /\ m.outhash \in OutHashes
      /\ m.unihash \in UniHashes
      /\ conn[k].found \subseteq Row /\ conn[k].reply \subseteq UniHashes
  BY RequestFields DEF TypeOK, HandlerState
<1>q. /\ TaskQuery(db, m.taskhash) \subseteq Row /\ TaskQuery(up, m.taskhash) \subseteq Row
      /\ OuthashQuery(db, m.outhash, m.taskhash) \subseteq Row
      /\ OuthashQuery(up, m.outhash, m.taskhash) \subseteq Row
  BY QueryRows DEF TypeOK
<1>j. ASSUME NEW us, Reply(k, us), UNCHANGED <<queue, worker>>,
             unfinished' \in {unfinished, unfinished + 1},
             unfinished' = Len(queue') + (IF worker.pc \in {"ask", "got", "dead"} THEN 1 ELSE 0)
      PROVE  JoinCount'
  BY <1>j, InitialValues DEF JoinCount, Reply, TypeOK, Free
<1>r. ASSUME Raise(k), UNCHANGED <<queue, worker, unfinished>>
      PROVE  JoinCount'
  BY <1>r DEF JoinCount, Raise, TypeOK, Free
<1>1. CASE GetLocal(k)
  BY <1>1, <1>q, <1>j, RowUnihashes, ReplyType DEF GetLocal, TypeOK, JoinCount
<1>2. CASE GetOuthash(k)
  BY <1>2, <1>q, <1>j, RowUnihashes, ReplyType DEF GetOuthash, TypeOK, JoinCount
<1>3. CASE StreamLocal(k)
  BY <1>3, <1>q, <1>j, RowUnihashes, ReplyType DEF StreamLocal, TypeOK, JoinCount
<1>4. CASE EquivReport(k)
  <2> DEFINE taken == KeyTaken(db, NoOut, m.taskhash)
             table == IF taken THEN db ELSE db \cup {NewRow(NoOut, m.taskhash, m.unihash)}
             us == {r.unihash : r \in TaskQuery(table, m.taskhash)}
  <2>1. NewRow(NoOut, m.taskhash, m.unihash) \in Row
    BY <1>m, NewRowType DEF TypeOK
  <2>2. table \in SUBSET Row
    BY <2>1 DEF TypeOK
  <2>3. TaskQuery(table, m.taskhash) \in SUBSET Row
    BY <2>2, QueryRows
  <2>4. us \in SUBSET UniHashes
    BY <2>3, RowUnihashes
  <2>5. /\ db' = table /\ now' \in {now, now + 1}
        /\ Reply(k, us)
        /\ UNCHANGED <<up, call, queue, unfinished, worker, srv>>
    BY <1>4 DEF EquivReport
  <2> HIDE DEF us, table
  <2>6. TypeOK'
    <3>1. conn' \in [Conns -> HandlerState]
      BY <2>4, <2>5, ReplyType
    <3>2. now' \in Nat
      BY <2>5 DEF TypeOK
    <3>3. QED
      BY <2>2, <2>5, <3>1, <3>2 DEF TypeOK
  <2>7. JoinCount'
    BY <2>5, <1>j DEF JoinCount
  <2>8. QED
    BY <2>6, <2>7
<1>5. CASE Unrecognized(k)
  BY <1>5, <1>r, RaiseType DEF Unrecognized, TypeOK
<1>6. ASSUME NEW table \in SUBSET Row, NEW found \in SUBSET Row,
             FinishReport(k, table, found), UNCHANGED <<up, queue, unfinished, worker, srv>>
      PROVE  TypeOK' /\ JoinCount'
  <2>1. Raise(k) \/ \E us : Reply(k, us)
    BY <1>6 DEF FinishReport
  <2>2. JoinCount'
    BY <1>6, <2>1, <1>j, <1>r DEF JoinCount, TypeOK
  <2>3. QED
    BY <1>6, <2>2, FinishReportType DEF TypeOK
<1>7. CASE ReportLocal(k)
  BY <1>7, <1>6, <1>q DEF ReportLocal, TypeOK
<1>8. CASE ReportResume(k)
  <2>1. CASE \E r \in conn[k].found : KeyTaken(db, r.outhash, r.taskhash)
    BY <1>8, <2>1, <1>r, RaiseType DEF ReportResume, TypeOK
  <2>2. CASE ~\E r \in conn[k].found : KeyTaken(db, r.outhash, r.taskhash)
    <3>1. db \cup conn[k].found \in SUBSET Row
      BY <1>m DEF TypeOK
    <3>2. QED
      BY <1>8, <2>2, <3>1, <1>m, <1>6 DEF ReportResume
  <2>3. QED
    BY <2>1, <2>2
<1>9. CASE GetResume(k)
  <2>1. CASE \E r \in conn[k].found : KeyTaken(db, r.outhash, r.taskhash)
    BY <1>9, <2>1, <1>r, RaiseType DEF GetResume, TypeOK
  <2>2. CASE ~\E r \in conn[k].found : KeyTaken(db, r.outhash, r.taskhash)
    BY <1>9, <2>2, <1>m, <1>j, RowUnihashes, ReplyType DEF GetResume, TypeOK, JoinCount
  <2>3. QED
    BY <2>1, <2>2
<1>10. CASE ReportAsk(k) \/ GetAsk(k) \/ StreamAsk(k)
  BY <1>10 DEF ReportAsk, GetAsk, StreamAsk, Await, TypeOK, JoinCount, HandlerState
<1>11. CASE ReportAnswer(k) \/ GetAnswer(k) \/ StreamAnswer(k)
  BY <1>11, <1>q DEF ReportAnswer, GetAnswer, StreamAnswer, TypeOK, JoinCount, HandlerState
<1>12. CASE StreamReply(k)
  <2>1. CASE conn[k].found = {}
    BY <1>12, <2>1, <1>j, ReplyType DEF StreamReply, TypeOK, JoinCount
  <2>2. CASE conn[k].found # {}
    <3>1. {r.unihash : r \in conn[k].found} \in SUBSET UniHashes
      BY <1>m, RowUnihashes
    <3>2. QED
      BY <1>12, <2>2, <3>1 DEF StreamReply, TypeOK, JoinCount, HandlerState
  <2>3. QED
    BY <2>1, <2>2
<1>13. CASE StreamPut(k)
  <2>1. /\ queue' \in Seq(SUBSET TaskHashes) /\ Len(queue') = Len(queue) + 1
    BY <1>13, <1>m DEF StreamPut, TypeOK
  <2>2. Reply(k, conn[k].reply) /\ UNCHANGED <<db, up, now, call, worker, srv>>
        /\ unfinished' = unfinished + 1
    BY <1>13 DEF StreamPut
  <2>3. conn' \in [Conns -> HandlerState]
    BY <2>2, <1>m, ReplyType
  <2>4. unfinished' = Len(queue') + (IF worker.pc \in {"ask", "got", "dead"} THEN 1 ELSE 0)
    BY <2>1, <2>2 DEF JoinCount, TypeOK
  <2>5. JoinCount'
    BY <2>2, <2>4, InitialValues DEF JoinCount, Reply, TypeOK, Free
  <2>6. QED
    BY <2>1, <2>2, <2>3, <2>5 DEF TypeOK
<1>14. CASE BackfillWait(k)
  <2>1. Outstanding \subseteq TaskHashes
    <3>1. queue \in [1..Len(queue) -> SUBSET TaskHashes]
      BY LenProperties DEF TypeOK
    <3>2. Range(queue) \subseteq SUBSET TaskHashes
      BY <3>1 DEF Range
    <3>3. UNION Range(queue) \subseteq TaskHashes
      BY <3>2
    <3>4. worker.taskhash \in TaskHashes
      BY DEF TypeOK, WorkerState
    <3>5. QED
      BY <3>3, <3>4 DEF Outstanding
  <2>2. CASE unfinished = 0
    BY <1>14, <2>2, <1>j, ReplyType DEF BackfillWait, TypeOK, JoinCount
  <2>3. CASE unfinished # 0
    <3>1. /\ conn' = [conn EXCEPT ![k].pc = "join", ![k].pending = Outstanding]
          /\ UNCHANGED <<db, up, now, call, queue, unfinished, worker, srv>>
      BY <1>14, <2>3 DEF BackfillWait
    <3>2. conn' \in [Conns -> HandlerState]
      <4>1. Outstanding \in SUBSET TaskHashes
        BY <2>1
      <4>2. [[conn[k] EXCEPT !.pc = "join"] EXCEPT !.pending = Outstanding] \in HandlerState
        BY <4>1 DEF TypeOK, HandlerState
      <4>3. conn' = [conn EXCEPT ![k] =
                       [[conn[k] EXCEPT !.pc = "join"] EXCEPT !.pending = Outstanding]]
        BY <3>1 DEF TypeOK
      <4>4. QED
        BY <4>2, <4>3 DEF TypeOK
    <3>3. unfinished > 0
      BY <2>3 DEF TypeOK
    <3>4. QED
      BY <3>1, <3>2, <3>3 DEF TypeOK, JoinCount
  <2>4. QED
    BY <2>2, <2>3
<1>15. QED
  BY <1>1, <1>2, <1>3, <1>4, <1>5, <1>7, <1>8, <1>9, <1>10, <1>11, <1>12, <1>13, <1>14
  DEF Handler

LEMMA WorkerStepType ==
  ASSUME TypeOK, JoinCount, Worker \/ WorkerUpstreamFails
  PROVE  TypeOK' /\ JoinCount'
<1>t. ASSUME TaskDone, unfinished > 0
      PROVE  /\ unfinished' \in Nat /\ unfinished' = unfinished - 1
             /\ conn' \in [Conns -> HandlerState]
             /\ \A k \in Conns : conn'[k].pc = "join" => unfinished' > 0
  <2>1. \A k \in Conns : [conn[k] EXCEPT !.pc = "replied"] \in HandlerState
    BY DEF TypeOK, HandlerState
  <2>2. conn' \in [Conns -> HandlerState]
    BY <1>t, <2>1, InitialValues DEF TaskDone, TypeOK
  <2>3. \A k \in Conns : conn'[k].pc = "join" => unfinished' > 0
    <3> SUFFICES ASSUME NEW k \in Conns, conn'[k].pc = "join"
                 PROVE  unfinished # 1 /\ conn[k].pc = "join"
      BY <1>t DEF TaskDone, TypeOK
    <3>1. [conn[k] EXCEPT !.pc = "replied"].pc = "replied"
      BY DEF TypeOK, HandlerState
    <3>2. QED
      BY <1>t, <3>1, InitialValues DEF TaskDone, TypeOK
  <2>4. QED
    BY <1>t, <2>2, <2>3 DEF TaskDone, TypeOK
<1>1. CASE WorkerGet
  <2>1. /\ Head(queue) \in SUBSET TaskHashes /\ Tail(queue) \in Seq(SUBSET TaskHashes)
        /\ Len(Tail(queue)) = Len(queue) - 1 /\ Len(queue) \in Nat /\ Len(queue) > 0
    <3>1. queue \in Seq(SUBSET TaskHashes) /\ queue # <<>>
      BY <1>1 DEF WorkerGet, TypeOK
    <3>2. Len(queue) \in Nat \ {0}
      BY <3>1, EmptySeq
    <3>3. QED
      BY <3>1, <3>2, HeadTailProperties
  <2>2. CASE Head(queue) = Sentinel /\ worker' = [NoWork EXCEPT !.pc = "stopped"] /\ TaskDone
    <3>1. worker.pc = "idle" /\ queue' = Tail(queue) /\ UNCHANGED <<db, up, now, call, srv>>
      BY <1>1 DEF WorkerGet
    <3>2. unfinished = Len(queue) /\ unfinished > 0
      BY <3>1, <2>1 DEF JoinCount
    <3>3. worker' \in WorkerState /\ worker'.pc = "stopped"
      BY <2>2, InitialValues DEF WorkerState
    <3>4. TypeOK'
      BY <3>1, <3>2, <3>3, <2>1, <2>2, <1>t DEF TypeOK
    <3>5. JoinCount'
      BY <3>1, <3>2, <3>3, <2>1, <2>2, <1>t DEF JoinCount
    <3>6. QED
      BY <3>4, <3>5
  <2>3. CASE \E t \in Head(queue) :
               /\ worker' = [NoWork EXCEPT !.pc = "ask", !.taskhash = t]
               /\ UNCHANGED <<conn, unfinished>>
    <3>1. worker.pc = "idle" /\ queue' = Tail(queue) /\ UNCHANGED <<db, up, now, call, srv>>
      BY <1>1 DEF WorkerGet
    <3>2. unfinished = Len(queue)
      BY <3>1, <2>1 DEF JoinCount
    <3>3. worker' \in WorkerState /\ worker'.pc = "ask"
      BY <2>1, <2>3, InitialValues DEF WorkerState
    <3>4. TypeOK'
      BY <3>1, <3>3, <2>1, <2>3 DEF TypeOK
    <3>5. JoinCount'
      BY <3>1, <3>2, <3>3, <2>1, <2>3 DEF JoinCount
    <3>6. QED
      BY <3>4, <3>5
  <2>4. QED
    BY <1>1, <2>2, <2>3 DEF WorkerGet
<1>2. CASE WorkerAnswer
  BY <1>2, QueryRows DEF WorkerAnswer, TypeOK, JoinCount, WorkerState
<1>3. CASE WorkerStore
  <2>1. unfinished > 0 /\ Len(queue) \in Nat
    BY <1>3, LenProperties DEF WorkerStore, JoinCount, TypeOK
  <2>2. db' \subseteq Row
    BY <1>3 DEF WorkerStore, TypeOK, WorkerState
  <2>3. worker' \in WorkerState /\ worker'.pc = "idle"
    BY <1>3, InitialValues DEF WorkerStore, NoWork
  <2>4. QED
    BY <1>3, <2>1, <2>2, <2>3, <1>t DEF WorkerStore, TypeOK, JoinCount
<1>4. CASE WorkerDies
  BY <1>4 DEF WorkerDies, TypeOK, JoinCount, WorkerState
<1>5. CASE WorkerUpstreamFails
  BY <1>5 DEF WorkerUpstreamFails, TypeOK, JoinCount, WorkerState
<1>6. QED
  BY <1>1, <1>2, <1>3, <1>4, <1>5 DEF Worker

LEMMA ClientStepType ==
  ASSUME TypeOK, JoinCount, NEW c \in Clients,
         \/ Client(c) \/ Timeout(c) \/ Disconnect(c)
         \/ \E m \in Requests : Call(c, m)
  PROVE  TypeOK' /\ JoinCount'
<1>l. ASSUME NEW k \in Conns, LeaveSlot(k), UNCHANGED <<queue, worker, unfinished>>
      PROVE  conn' \in [Conns -> HandlerState] /\ JoinCount'
  BY <1>l, InitialValues DEF LeaveSlot, TypeOK, JoinCount, HandlerState, Free
<1>1. CASE \E m \in Requests : Call(c, m)
  <2>1. PICK m \in Requests : Call(c, m)
    BY <1>1
  <2>2. [Idle EXCEPT !.st = "send", !.msg = m] \in CallState
    BY InitialValues DEF CallState
  <2>3. QED
    BY <2>1, <2>2 DEF Call, TypeOK, JoinCount
<1>2. CASE \E k \in Conns : Accept(c, k)
  <2>1. PICK k \in Conns : Accept(c, k)
    BY <1>2
  <2> DEFINE h == [Free EXCEPT !.pc = "start", !.client = c, !.msg = call[c].msg]
  <2>2. h \in HandlerState /\ h.pc = "start"
    BY InitialValues DEF HandlerState, TypeOK, CallState
  <2>3. call' \in [Clients -> CallState]
    BY <2>1 DEF Accept, TypeOK, CallState
  <2>4. conn' = [conn EXCEPT ![k] = h]
    BY <2>1 DEF Accept
  <2>5. UNCHANGED <<db, up, now, queue, unfinished, worker, srv>>
    BY <2>1 DEF Accept
  <2> HIDE DEF h
  <2>6. QED
    BY <2>2, <2>3, <2>4, <2>5 DEF TypeOK, JoinCount
<1>3. CASE ConnectFails(c)
  BY <1>3, RetryType DEF ConnectFails, TypeOK, JoinCount
<1>4. CASE Deliver(c)
  BY <1>4, <1>l, InitialValues DEF Deliver, TypeOK
<1>5. CASE Timeout(c) \/ Disconnect(c)
  BY <1>5, <1>l, RetryType DEF Timeout, Disconnect, GiveUp, TypeOK
<1>6. QED
  BY <1>1, <1>2, <1>3, <1>4, <1>5 DEF Client

LEMMA EnvironmentStepType ==
  ASSUME TypeOK, JoinCount,
         \/ \E k \in Conns : UpstreamFails(k)
         \/ \E m \in UpRequests : \/ UpReport(m) \/ UpEquivReport(m)
                                  \/ OwnerReport(m) \/ OwnerEquivReport(m)
         \/ Kill \/ Stop \/ Drain \/ Drained \/ Start
  PROVE  TypeOK' /\ JoinCount'
<1>1. ASSUME NEW k \in Conns, UpstreamFails(k)
      PROVE  TypeOK' /\ JoinCount'
  BY <1>1, RaiseType DEF UpstreamFails, Raise, TypeOK, JoinCount, Free
<1>2. ASSUME NEW m \in UpRequests, UpReport(m)
      PROVE  TypeOK' /\ JoinCount'
  <2>1. PICK u \in StoredUnihash(m, OuthashQuery(up, m.outhash, m.taskhash)) :
               up' = up \cup {NewRow(m.outhash, m.taskhash, u)}
    BY <1>2 DEF UpReport
  <2>2. OuthashQuery(up, m.outhash, m.taskhash) \in SUBSET Row
    BY QueryRows DEF TypeOK
  <2>3. u \in UniHashes
    BY <2>2, RequestFields, RowUnihashes DEF StoredUnihash
  <2>4. NewRow(m.outhash, m.taskhash, u) \in Row
    BY <2>3, RequestFields, NewRowType DEF TypeOK
  <2>5. QED
    BY <1>2, <2>1, <2>4 DEF UpReport, TypeOK, JoinCount
<1>3. ASSUME NEW m \in UpRequests, UpEquivReport(m)
      PROVE  TypeOK' /\ JoinCount'
  <2>1. NewRow(NoOut, m.taskhash, m.unihash) \in Row
    BY RequestFields, NewRowType DEF TypeOK
  <2>2. QED
    BY <1>3, <2>1 DEF UpEquivReport, TypeOK, JoinCount
<1>8. ASSUME NEW m \in UpRequests, OwnerReport(m)
      PROVE  TypeOK' /\ JoinCount'
  <2>1. PICK u \in StoredUnihash(m, OuthashQuery(db, m.outhash, m.taskhash)) :
               db' = db \cup {NewRow(m.outhash, m.taskhash, u)}
    BY <1>8 DEF OwnerReport
  <2>2. OuthashQuery(db, m.outhash, m.taskhash) \in SUBSET Row
    BY QueryRows DEF TypeOK
  <2>3. u \in UniHashes
    BY <2>2, RequestFields, RowUnihashes DEF StoredUnihash
  <2>4. NewRow(m.outhash, m.taskhash, u) \in Row
    BY <2>3, RequestFields, NewRowType DEF TypeOK
  <2>5. QED
    BY <1>8, <2>1, <2>4 DEF OwnerReport, TypeOK, JoinCount
<1>9. ASSUME NEW m \in UpRequests, OwnerEquivReport(m)
      PROVE  TypeOK' /\ JoinCount'
  <2>1. NewRow(NoOut, m.taskhash, m.unihash) \in Row
    BY RequestFields, NewRowType DEF TypeOK
  <2>2. QED
    BY <1>9, <2>1 DEF OwnerEquivReport, TypeOK, JoinCount
<1>4. CASE Gone
  <2>1. Len(<<>>) = 0 /\ <<>> \in Seq(SUBSET TaskHashes)
    BY EmptySeq
  <2>2. QED
    BY <1>4, <2>1, InitialValues, RetryType DEF Gone, TypeOK, JoinCount
<1>5. CASE Drain
  <2>1. queue' \in Seq(SUBSET TaskHashes) /\ Len(queue') = Len(queue) + 1
        /\ Len(queue) \in Nat
    BY <1>5 DEF Drain, TypeOK, Sentinel
  <2>2. QED
    BY <1>5, <2>1 DEF Drain, TypeOK, JoinCount
<1>6. CASE Start
  BY <1>6 DEF Start, TypeOK, JoinCount
<1>7. QED
  BY <1>1, <1>2, <1>3, <1>4, <1>5, <1>6, <1>8, <1>9 DEF Kill, Stop, Drained

-----------------------------------------------------------------------------
(* How a step can change the tables *)

\* Rows are only ever added: copies of upstream rows, and at most one new row,
\* which carries the current time
TableStep ==
  /\ db \subseteq db' /\ up \subseteq up'
  /\ \/ /\ now' = now /\ up' = up
        /\ \A r \in db' : r \in db \/ (HasUpstream /\ r \in up)
     \/ /\ now' = now + 1
        /\ \E new : /\ new.created = now
                    /\ \A r \in db' : r \in db \/ (HasUpstream /\ r \in up) \/ r = new
                    /\ \A r \in up' : r \in up \/ r = new

LEMMA NewRowStamp ==
  ASSUME NEW o, NEW t, NEW u
  PROVE  NewRow(o, t, u).created = now
BY DEF NewRow

LEMMA FinishReportTables ==
  ASSUME FoundUpstream, NEW k \in Conns, NEW table, NEW found,
         db \subseteq table, \A r \in table : r \in db \/ (HasUpstream /\ r \in up),
         FinishReport(k, table, found), up' = up
  PROVE  TableStep
<1> DEFINE m == conn[k].msg
<1>1. CASE db' = table /\ now' = now
  BY <1>1 DEF TableStep
<1>2. CASE \E u : db' = table \cup {NewRow(m.outhash, m.taskhash, u)} /\ now' = now + 1
  <2>1. PICK u : db' = table \cup {NewRow(m.outhash, m.taskhash, u)} /\ now' = now + 1
    BY <1>2
  <2> DEFINE new == NewRow(m.outhash, m.taskhash, u)
  <2>2. new.created = now
    BY NewRowStamp
  <2> HIDE DEF new
  <2>3. QED
    BY <2>1, <2>2 DEF TableStep, new
<1>3. QED
  BY <1>1, <1>2 DEF FinishReport

LEMMA HandlerTables ==
  ASSUME FoundUpstream, NoUpstreamWait, NEW k \in Conns, Handler(k)
  PROVE  TableStep
<1> DEFINE m == conn[k].msg
<1>f. \A r \in conn[k].found : HasUpstream /\ r \in up
  BY DEF FoundUpstream, NoUpstreamWait
<1>1. CASE UNCHANGED <<db, up, now>>
  BY <1>1 DEF TableStep
<1>2. CASE EquivReport(k)
  <2>1. CASE KeyTaken(db, NoOut, m.taskhash)
    BY <1>2, <2>1 DEF EquivReport, TableStep
  <2>2. CASE ~KeyTaken(db, NoOut, m.taskhash)
    <3> DEFINE new == NewRow(NoOut, m.taskhash, m.unihash)
    <3>1. new.created = now
      BY NewRowStamp
    <3>2. db' = db \cup {new} /\ now' = now + 1 /\ up' = up
      BY <1>2, <2>2 DEF EquivReport
    <3> HIDE DEF new
    <3>3. QED
      BY <3>1, <3>2 DEF TableStep
  <2>3. QED
    BY <2>1, <2>2
<1>3. CASE ReportLocal(k)
  BY <1>3, FinishReportTables DEF ReportLocal
<1>4. CASE ReportResume(k)
  BY <1>4, <1>f, <1>1, FinishReportTables DEF ReportResume
<1>5. CASE GetResume(k)
  BY <1>5, <1>f DEF GetResume, TableStep
<1>6. QED
  BY <1>1, <1>2, <1>3, <1>4, <1>5
  DEF Handler, GetLocal, GetOuthash, StreamLocal, Unrecognized, ReportAsk, ReportAnswer,
      GetAsk, GetAnswer, StreamAsk, StreamAnswer, StreamReply, StreamPut, BackfillWait

LEMMA OtherServerTables ==
  ASSUME NEW m \in UpRequests,
         UpReport(m) \/ UpEquivReport(m) \/ OwnerReport(m) \/ OwnerEquivReport(m)
  PROVE  TableStep
<1>1. PICK o, u : /\ now' = now + 1
                  /\ \/ up' = up \cup {NewRow(o, m.taskhash, u)} /\ db' = db
                     \/ db' = db \cup {NewRow(o, m.taskhash, u)} /\ up' = up
  BY DEF UpReport, UpEquivReport, OwnerReport, OwnerEquivReport
<1> DEFINE new == NewRow(o, m.taskhash, u)
<1>2. new.created = now
  BY NewRowStamp
<1> HIDE DEF new
<1>3. QED
  BY <1>1, <1>2 DEF TableStep, new

LEMMA NextTables ==
  ASSUME FoundUpstream, NoUpstreamWait, [Next]_vars
  PROVE  TableStep
<1>1. CASE UNCHANGED <<db, up, now>>
  BY <1>1 DEF TableStep
<1>2. CASE WorkerStore
  BY <1>2 DEF WorkerStore, FoundUpstream, NoUpstreamWait, TableStep
<1>3. CASE Worker \/ WorkerUpstreamFails
  BY <1>1, <1>2, <1>3 DEF Worker, WorkerGet, WorkerAnswer, WorkerDies, WorkerUpstreamFails
<1>4. ASSUME NEW c \in Clients, \/ Client(c) \/ Timeout(c) \/ Disconnect(c)
                                \/ \E m \in Requests : Call(c, m)
      PROVE  TableStep
  BY <1>1, <1>4 DEF Client, Accept, ConnectFails, Deliver, Timeout, Disconnect, GiveUp, Call
<1>5. CASE Kill \/ Stop \/ Drain \/ Drained \/ Start
  BY <1>1, <1>5 DEF Kill, Stop, Drain, Drained, Start, Gone
<1>6. ASSUME NEW k \in Conns, Handler(k) \/ UpstreamFails(k)
      PROVE  TableStep
  BY <1>1, <1>6, HandlerTables DEF UpstreamFails
<1>7. CASE UNCHANGED vars
  BY <1>1, <1>7 DEF vars
<1>8. QED
  BY <1>3, <1>4, <1>5, <1>6, <1>7, OtherServerTables DEF Next

LEMMA StampsStep ==
  ASSUME TypeOK, Stamps, TableStep
  PROVE  Stamps'
<1>t. now \in Nat /\ \A r \in db \cup up : r.created \in Nat
  BY DEF TypeOK, Row
<1>1. CASE now' = now /\ up' = up /\ \A r \in db' : r \in db \cup up
  BY <1>1 DEF Stamps
<1>2. ASSUME now' = now + 1,
             NEW new, new.created = now, \A r \in db' \cup up' : r \in db \cup up \/ r = new
      PROVE  Stamps'
  <2>1. \A r \in (db \cup up)' : r.created < now'
    BY <1>2, <1>t DEF Stamps
  <2>2. \A r, q \in (db \cup up)' : r.created = q.created => r = q
    BY <1>2, <1>t DEF Stamps
  <2>3. QED
    BY <2>1, <2>2 DEF Stamps
<1>3. QED
  BY <1>1, <1>2 DEF TableStep
-----------------------------------------------------------------------------
(* Where handlers are and what they hold *)

\* The rows held, the places reached and the reports answered
Holding == FoundUpstream /\ NoUpstreamWait /\ HandlerOf /\ ReportedIsStored

\* What a slot may look like, against the tables of the same state
SlotOK(h) ==
  /\ h.found \subseteq up
  /\ ~HasUpstream => h.pc \in {"free", "start", "join", "replied"} /\ h.found = {}
  /\ h.pc \in {"get_ask", "get_got"} => h.msg.kind = "get"
  /\ h.pc \in {"rep_ask", "rep_got"} => h.msg.kind = "report"
  /\ h.pc = "rep_got" => \A r \in h.found : r.outhash = h.msg.outhash
  /\ h.pc \in {"str_ask", "str_got", "str_put"} => h.msg.kind = "get-stream"
  /\ h.pc = "join" => h.msg.kind = "backfill-wait"
  /\ h.pc = "replied" /\ h.msg.kind = "report" =>
       \E r \in db : /\ r.outhash = h.msg.outhash /\ r.taskhash = h.msg.taskhash
                     /\ h.reply = {r.unihash}

WorkerOK ==
  /\ worker.found \subseteq up
  /\ ~HasUpstream => worker.pc \in {"idle", "stopped"} /\ worker.found = {}

LEMMA HoldingBySlot ==
  Holding <=> (\A k \in Conns : SlotOK(conn[k])) /\ WorkerOK
BY DEF Holding, FoundUpstream, NoUpstreamWait, HandlerOf, ReportedIsStored, SlotOK, WorkerOK

LEMMA HoldingBySlotNext ==
  (\A k \in Conns : SlotOK(conn[k])') /\ WorkerOK' => Holding'
BY DEF Holding, FoundUpstream, NoUpstreamWait, HandlerOf, ReportedIsStored, SlotOK, WorkerOK

\* A slot the step does not touch stays as it should be: tables only grow
LEMMA UntouchedSlot ==
  ASSUME NEW k \in Conns, SlotOK(conn[k]), conn'[k] = conn[k], TableStep
  PROVE  SlotOK(conn[k])'
BY DEF SlotOK, TableStep

LEMMA FreeSlot ==
  ASSUME NEW k \in Conns, conn'[k] = Free
  PROVE  SlotOK(conn[k])'
BY InitialValues DEF SlotOK

LEMMA UntouchedWorker ==
  ASSUME WorkerOK, UNCHANGED worker, TableStep
  PROVE  WorkerOK'
BY DEF WorkerOK, TableStep

\* Sufficient for a step of one slot
LEMMA OneSlot ==
  ASSUME TypeOK, Holding, TableStep, UNCHANGED worker,
         NEW k \in Conns, NEW h, conn' = [conn EXCEPT ![k] = h],
         SlotOK(conn[k])'
  PROVE  Holding'
<1>1. \A j \in Conns : SlotOK(conn[j])'
  BY HoldingBySlot, UntouchedSlot DEF TypeOK
<1>2. WorkerOK'
  BY HoldingBySlot, UntouchedWorker
<1>3. QED
  BY <1>1, <1>2, HoldingBySlotNext

LEMMA RaiseHolding ==
  ASSUME TypeOK, Holding, TableStep, UNCHANGED worker, NEW k \in Conns, Raise(k)
  PROVE  Holding'
BY OneSlot, FreeSlot DEF Raise, TypeOK

LEMMA ReplyHolding ==
  ASSUME TypeOK, Holding, TableStep, UNCHANGED worker, NEW k \in Conns, NEW us, Reply(k, us),
         conn[k].msg.kind = "report" =>
           \E r \in db' : /\ r.outhash = conn[k].msg.outhash
                          /\ r.taskhash = conn[k].msg.taskhash /\ us = {r.unihash}
  PROVE  Holding'
<1> DEFINE h == [conn[k] EXCEPT !.pc = "replied", !.found = {}, !.reply = us]
<1>1. CASE conn[k].client = NoClient
  BY <1>1, OneSlot, FreeSlot DEF Reply, TypeOK
<1>2. CASE conn[k].client # NoClient
  <2>1. h.pc = "replied" /\ h.found = {} /\ h.reply = us /\ h.msg = conn[k].msg
    BY DEF TypeOK, HandlerState
  <2>2. conn' = [conn EXCEPT ![k] = h]
    BY <1>2 DEF Reply
  <2>3. conn'[k] = h
    BY <2>2 DEF TypeOK
  <2> HIDE DEF h
  <2>4. SlotOK(conn[k])'
    BY <2>1, <2>3 DEF SlotOK
  <2>5. QED
    BY <2>2, <2>4, OneSlot
<1>3. QED
  BY <1>1, <1>2

LEMMA FinishReportHolding ==
  ASSUME TypeOK, Holding, TableStep, UNCHANGED worker, NEW k \in Conns,
         NEW table, NEW found, found \subseteq table,
         \A r \in found : r.outhash = conn[k].msg.outhash,
         FinishReport(k, table, found)
  PROVE  Holding'
<1> DEFINE m == conn[k].msg
<1>1. CASE /\ \E r \in found : r.taskhash = m.taskhash /\ Reply(k, {r.unihash})
           /\ db' = table
  BY <1>1, ReplyHolding
<1>2. CASE \E u \in StoredUnihash(m, found) :
             /\ db' = table \cup {NewRow(m.outhash, m.taskhash, u)}
             /\ Reply(k, {u})
  <2>1. PICK u : /\ db' = table \cup {NewRow(m.outhash, m.taskhash, u)}
                 /\ Reply(k, {u})
    BY <1>2
  <2>2. /\ NewRow(m.outhash, m.taskhash, u).outhash = m.outhash
        /\ NewRow(m.outhash, m.taskhash, u).taskhash = m.taskhash
        /\ NewRow(m.outhash, m.taskhash, u).unihash = u
    BY DEF NewRow
  <2>3. QED
    BY <2>1, <2>2, ReplyHolding
<1>3. CASE Raise(k)
  BY <1>3, RaiseHolding
<1>4. QED
  BY <1>1, <1>2, <1>3 DEF FinishReport
LEMMA HandlerHolding ==
  ASSUME TypeOK, Holding, NEW k \in Conns, Handler(k)
  PROVE  Holding'
<1> DEFINE m == conn[k].msg
<1>t. TableStep
  BY HandlerTables DEF Holding
<1>s. SlotOK(conn[k]) /\ conn[k] \in HandlerState
  BY HoldingBySlot DEF TypeOK
<1>1. ASSUME conn[k].pc = "start", conn[k].msg.kind # "report", NEW us, Reply(k, us),
             UNCHANGED worker
      PROVE  Holding'
  BY <1>1, <1>t, ReplyHolding
<1>2. CASE GetLocal(k) \/ GetOuthash(k) \/ StreamLocal(k) \/ EquivReport(k)
  BY <1>2, <1>1 DEF GetLocal, GetOuthash, StreamLocal, EquivReport, Starts
<1>3. CASE Unrecognized(k)
  BY <1>3, <1>t, RaiseHolding DEF Unrecognized
<1>4. CASE ReportLocal(k)
  <2>1. /\ OuthashQuery(db, m.outhash, m.taskhash) \subseteq db
        /\ \A r \in OuthashQuery(db, m.outhash, m.taskhash) : r.outhash = m.outhash
    BY QueryRows
  <2>2. QED
    BY <1>4, <1>t, <2>1, FinishReportHolding DEF ReportLocal
<1>5. CASE ReportResume(k)
  <2>1. /\ conn[k].found \subseteq db \cup conn[k].found
        /\ \A r \in conn[k].found : r.outhash = m.outhash
    BY <1>5, <1>s DEF ReportResume, SlotOK
  <2>2. QED
    BY <1>5, <1>t, <2>1, RaiseHolding, FinishReportHolding DEF ReportResume
<1>6. CASE GetResume(k)
  <2>1. conn[k].msg.kind # "report"
    BY <1>6, <1>s DEF GetResume, SlotOK
  <2>2. QED
    BY <1>6, <1>t, <2>1, RaiseHolding, ReplyHolding DEF GetResume
<1>a. ASSUME NEW pc, HasUpstream, Await(k, pc), UNCHANGED <<db, up, worker>>,
             \/ pc = "get_ask" /\ m.kind = "get"
             \/ pc = "rep_ask" /\ m.kind = "report"
             \/ pc = "str_ask" /\ m.kind = "get-stream"
      PROVE  Holding'
  <2> DEFINE h == [conn[k] EXCEPT !.pc = pc]
  <2>1. h.pc = pc /\ h.msg = m /\ h.found = conn[k].found
    BY <1>s DEF HandlerState
  <2>2. conn' = [conn EXCEPT ![k] = h] /\ conn'[k] = h
    BY <1>a DEF Await, TypeOK
  <2> HIDE DEF h
  <2>3. SlotOK(conn[k])'
    BY <1>a, <1>s, <2>1, <2>2 DEF SlotOK
  <2>4. QED
    BY <1>a, <1>t, <2>2, <2>3, OneSlot
<1>7. CASE ReportAsk(k) \/ GetAsk(k) \/ StreamAsk(k)
  BY <1>7, <1>a DEF ReportAsk, GetAsk, StreamAsk, Starts
<1>b. ASSUME NEW pc, NEW rows, rows \subseteq up, HasUpstream,
             conn' = [conn EXCEPT ![k].pc = pc, ![k].found = rows],
             UNCHANGED <<db, up, worker>>,
             \/ pc = "get_got" /\ m.kind = "get"
             \/ /\ pc = "rep_got" /\ m.kind = "report"
                /\ \A r \in rows : r.outhash = m.outhash
             \/ pc = "str_got" /\ m.kind = "get-stream"
      PROVE  Holding'
  <2> DEFINE h == [conn[k] EXCEPT !.pc = pc, !.found = rows]
  <2>1. h.pc = pc /\ h.msg = m /\ h.found = rows
    BY <1>s DEF HandlerState
  <2>2. conn' = [conn EXCEPT ![k] = h] /\ conn'[k] = h
    BY <1>b DEF TypeOK
  <2> HIDE DEF h
  <2>3. SlotOK(conn[k])'
    BY <1>b, <2>1, <2>2 DEF SlotOK
  <2>4. QED
    BY <1>b, <1>t, <2>2, <2>3, OneSlot
<1>8. CASE ReportAnswer(k)
  <2> DEFINE rows == OuthashQuery(up, m.outhash, m.taskhash)
  <2>1. rows \subseteq up /\ \A r \in rows : r.outhash = m.outhash
    BY QueryRows
  <2>2. HasUpstream /\ m.kind = "report"
    BY <1>8, <1>s DEF ReportAnswer, SlotOK
  <2>3. /\ conn' = [conn EXCEPT ![k].pc = "rep_got", ![k].found = rows]
        /\ UNCHANGED <<db, up, worker>>
    BY <1>8 DEF ReportAnswer
  <2> HIDE DEF rows
  <2>4. QED
    BY <2>1, <2>2, <2>3, <1>b
<1>9. CASE GetAnswer(k) \/ StreamAnswer(k)
  <2> DEFINE rows == TaskQuery(up, m.taskhash)
  <2>1. rows \subseteq up
    BY QueryRows
  <2>2. HasUpstream /\ (GetAnswer(k) => m.kind = "get") /\ (StreamAnswer(k) => m.kind = "get-stream")
    BY <1>9, <1>s DEF GetAnswer, StreamAnswer, SlotOK
  <2>3. /\ GetAnswer(k) => conn' = [conn EXCEPT ![k].pc = "get_got", ![k].found = rows]
        /\ StreamAnswer(k) => conn' = [conn EXCEPT ![k].pc = "str_got", ![k].found = rows]
        /\ UNCHANGED <<db, up, worker>>
    BY <1>9 DEF GetAnswer, StreamAnswer
  <2> HIDE DEF rows
  <2>4. QED
    BY <1>9, <2>1, <2>2, <2>3, <1>b
<1>10. CASE StreamReply(k)
  <2>1. m.kind = "get-stream" /\ HasUpstream /\ UNCHANGED <<db, up, worker>>
    BY <1>10, <1>s DEF StreamReply, SlotOK
  <2>2. CASE conn[k].found = {}
    BY <1>10, <1>t, <2>1, <2>2, ReplyHolding DEF StreamReply
  <2>3. CASE conn[k].found # {}
    <3> DEFINE us == {r.unihash : r \in conn[k].found}
               h == [conn[k] EXCEPT !.pc = "str_put", !.found = {}, !.reply = us]
    <3>1. h.pc = "str_put" /\ h.msg = m /\ h.found = {}
      BY <1>s DEF HandlerState
    <3>2. conn' = [conn EXCEPT ![k] = h] /\ conn'[k] = h
      BY <1>10, <2>3 DEF StreamReply, TypeOK
    <3> HIDE DEF h
    <3>3. SlotOK(conn[k])'
      BY <2>1, <3>1, <3>2 DEF SlotOK
    <3>4. QED
      BY <2>1, <1>t, <3>2, <3>3, OneSlot
  <2>4. QED
    BY <2>2, <2>3
<1>11. CASE StreamPut(k)
  <2>1. m.kind = "get-stream"
    BY <1>11, <1>s DEF StreamPut, SlotOK
  <2>2. QED
    BY <1>11, <1>t, <2>1, ReplyHolding DEF StreamPut
<1>12. CASE BackfillWait(k)
  <2>1. CASE unfinished = 0
    BY <1>12, <2>1, <1>1 DEF BackfillWait, Starts
  <2>2. CASE unfinished # 0
    <3> DEFINE h == [conn[k] EXCEPT !.pc = "join", !.pending = Outstanding]
    <3>1. h.pc = "join" /\ h.msg = m /\ h.found = conn[k].found
      BY <1>s DEF HandlerState
    <3>2. conn' = [conn EXCEPT ![k] = h] /\ conn'[k] = h
      BY <1>12, <2>2 DEF BackfillWait, TypeOK
    <3>3. m.kind = "backfill-wait" /\ UNCHANGED <<db, up, worker>>
      BY <1>12 DEF BackfillWait, Starts
    <3> HIDE DEF h
    <3>4. SlotOK(conn[k])'
      BY <1>s, <3>1, <3>2, <3>3 DEF SlotOK
    <3>5. QED
      BY <1>t, <3>2, <3>3, <3>4, OneSlot
  <2>3. QED
    BY <2>1, <2>2
<1>13. QED
  BY <1>2, <1>3, <1>4, <1>5, <1>6, <1>7, <1>8, <1>9, <1>10, <1>11, <1>12 DEF Handler
LEMMA TaskDoneSlots ==
  ASSUME TypeOK, Holding, TaskDone, TableStep
  PROVE  \A k \in Conns : SlotOK(conn[k])'
<1> SUFFICES ASSUME NEW k \in Conns
             PROVE  SlotOK(conn[k])'
  OBVIOUS
<1> DEFINE h == [conn[k] EXCEPT !.pc = "replied"]
<1>1. h.pc = "replied" /\ h.msg = conn[k].msg /\ h.found = conn[k].found
  BY DEF TypeOK, HandlerState
<1>2. SlotOK(conn[k])
  BY HoldingBySlot
<1>3. CASE conn'[k] = h /\ conn[k].pc = "join"
  <2> HIDE DEF h
  <2>1. h.msg.kind = "backfill-wait" /\ h.found \subseteq up' /\ (~HasUpstream => h.found = {})
    BY <1>1, <1>2, <1>3 DEF SlotOK, TableStep
  <2>2. QED
    BY <1>1, <1>3, <2>1 DEF SlotOK
<1>4. CASE conn'[k] = conn[k] \/ conn'[k] = Free
  BY <1>2, <1>4, UntouchedSlot, FreeSlot
<1>5. QED
  BY <1>3, <1>4 DEF TaskDone

LEMMA WorkerHolding ==
  ASSUME TypeOK, Holding, TableStep, Worker \/ WorkerUpstreamFails
  PROVE  Holding'
<1>s. (\A k \in Conns : SlotOK(conn[k])) /\ WorkerOK
  BY HoldingBySlot
<1>u. UNCHANGED conn => \A k \in Conns : SlotOK(conn[k])'
  BY <1>s, UntouchedSlot
<1>1. CASE WorkerGet
  <2>1. \A k \in Conns : SlotOK(conn[k])'
    BY <1>1, <1>u, TaskDoneSlots DEF WorkerGet
  <2>2. HasUpstream /\ worker'.found = {}
    BY <1>1, InitialValues DEF WorkerGet, WorkerState
  <2>3. QED
    BY <2>1, <2>2, HoldingBySlotNext DEF WorkerOK
<1>2. CASE WorkerAnswer
  <2>1. HasUpstream /\ worker'.found = TaskQuery(up, worker.taskhash) /\ up' = up
    BY <1>2, <1>s DEF WorkerAnswer, WorkerOK, TypeOK, WorkerState
  <2>2. TaskQuery(up, worker.taskhash) \subseteq up
    BY QueryRows
  <2>3. worker'.found \subseteq up'
    BY <2>1, <2>2
  <2>4. WorkerOK'
    BY <2>1, <2>3 DEF WorkerOK
  <2>5. QED
    BY <1>2, <1>u, <2>4, HoldingBySlotNext DEF WorkerAnswer
<1>3. CASE WorkerStore
  <2>1. WorkerOK'
    BY <1>3, InitialValues DEF WorkerStore, WorkerOK
  <2>2. QED
    BY <1>3, <2>1, TaskDoneSlots, HoldingBySlotNext DEF WorkerStore
<1>4. CASE WorkerDies \/ WorkerUpstreamFails
  <2>1. HasUpstream /\ worker'.found \subseteq up' /\ UNCHANGED conn
    BY <1>4, <1>s DEF WorkerDies, WorkerUpstreamFails, WorkerOK, TypeOK, WorkerState
  <2>2. QED
    BY <1>u, <2>1, HoldingBySlotNext DEF WorkerOK
<1>5. QED
  BY <1>1, <1>2, <1>3, <1>4 DEF Worker

LEMMA ClientHolding ==
  ASSUME TypeOK, Holding, TableStep, NEW c \in Clients,
         \/ Client(c) \/ Timeout(c) \/ Disconnect(c)
         \/ \E m \in Requests : Call(c, m)
  PROVE  Holding'
<1>s. (\A k \in Conns : SlotOK(conn[k])) /\ WorkerOK
  BY HoldingBySlot
<1>u. UNCHANGED <<conn, worker>> => Holding'
  BY <1>s, UntouchedSlot, UntouchedWorker, HoldingBySlotNext
<1>1. CASE (\E m \in Requests : Call(c, m)) \/ ConnectFails(c)
  BY <1>1, <1>u DEF Call, ConnectFails
<1>2. CASE \E k \in Conns : Accept(c, k)
  <2>1. PICK k \in Conns : Accept(c, k)
    BY <1>2
  <2> DEFINE h == [Free EXCEPT !.pc = "start", !.client = c, !.msg = call[c].msg]
  <2>2. h.pc = "start" /\ h.found = {}
    BY InitialValues DEF HandlerState
  <2>3. conn' = [conn EXCEPT ![k] = h] /\ conn'[k] = h /\ UNCHANGED worker
    BY <2>1 DEF Accept, TypeOK
  <2> HIDE DEF h
  <2>4. SlotOK(conn[k])'
    BY <2>2, <2>3 DEF SlotOK
  <2>5. QED
    BY <2>3, <2>4, OneSlot
<1>3. ASSUME NEW k \in Conns, LeaveSlot(k), UNCHANGED worker
      PROVE  Holding'
  <2>1. CASE conn[k].pc = "replied"
    BY <1>3, <2>1, OneSlot, FreeSlot DEF LeaveSlot, TypeOK
  <2>2. CASE conn[k].pc # "replied"
    <3> DEFINE h == [conn[k] EXCEPT !.client = NoClient]
    <3>1. h.pc = conn[k].pc /\ h.msg = conn[k].msg /\ h.found = conn[k].found
      BY DEF TypeOK, HandlerState
    <3>2. conn' = [conn EXCEPT ![k] = h] /\ conn'[k] = h
      BY <1>3, <2>2 DEF LeaveSlot, TypeOK
    <3> HIDE DEF h
    <3>3. SlotOK(conn[k])'
      BY <1>s, <2>2, <3>1, <3>2 DEF SlotOK, TableStep
    <3>4. QED
      BY <1>3, <3>2, <3>3, OneSlot
  <2>3. QED
    BY <2>1, <2>2
<1>4. CASE Deliver(c) \/ Timeout(c) \/ Disconnect(c)
  BY <1>3, <1>4 DEF Deliver, Timeout, Disconnect, GiveUp
<1>5. QED
  BY <1>1, <1>2, <1>4 DEF Client

LEMMA InductiveStep ==
  ASSUME TypeOK, JoinCount, Stamps, Holding, [Next]_vars
  PROVE  TypeOK' /\ JoinCount' /\ Stamps' /\ Holding' /\ TableStep
<1>t. TableStep
  BY NextTables DEF Holding
<1>1. TypeOK' /\ JoinCount'
  <2>1. CASE UNCHANGED vars
    BY <2>1 DEF vars, TypeOK, JoinCount
  <2>2. CASE Next
    BY <2>2, HandlerStepType, WorkerStepType, ClientStepType, EnvironmentStepType DEF Next
  <2>3. QED
    BY <2>1, <2>2
<1>2. Stamps'
  BY <1>t, StampsStep
<1>s. (\A k \in Conns : SlotOK(conn[k])) /\ WorkerOK
  BY HoldingBySlot
<1>u. UNCHANGED <<conn, worker>> => Holding'
  BY <1>s, <1>t, UntouchedSlot, UntouchedWorker, HoldingBySlotNext
<1>g. Gone => Holding'
  BY FreeSlot, InitialValues, HoldingBySlotNext DEF Gone, WorkerOK
<1>3. CASE UNCHANGED vars
  BY <1>1, <1>2, <1>3, <1>t, <1>u DEF vars
<1>4. CASE \E k \in Conns : UpstreamFails(k)
  BY <1>1, <1>2, <1>4, <1>t, RaiseHolding DEF UpstreamFails
<1>5. CASE \E m \in UpRequests : \/ UpReport(m) \/ UpEquivReport(m)
                                 \/ OwnerReport(m) \/ OwnerEquivReport(m)
  BY <1>1, <1>2, <1>5, <1>t, <1>u
  DEF UpReport, UpEquivReport, OwnerReport, OwnerEquivReport
<1>6. CASE Kill \/ Stop \/ Drain \/ Drained \/ Start
  BY <1>1, <1>2, <1>6, <1>t, <1>u, <1>g DEF Kill, Stop, Drain, Drained, Start
<1>7. QED
  BY <1>1, <1>2, <1>3, <1>4, <1>5, <1>6, <1>t, HandlerHolding, WorkerHolding, ClientHolding
  DEF Next

LEMMA InductiveInvariant == Spec => [](TypeOK /\ JoinCount /\ Stamps /\ Holding)
<1>1. Init => TypeOK /\ JoinCount /\ Stamps /\ Holding
  <2> SUFFICES ASSUME Init PROVE TypeOK /\ JoinCount /\ Stamps /\ Holding
    OBVIOUS
  <2>1. Len(<<>>) = 0 /\ <<>> \in Seq(SUBSET TaskHashes)
    BY EmptySeq
  <2>2. TypeOK /\ JoinCount /\ Stamps
    BY <2>1, InitialValues DEF Init, TypeOK, JoinCount, Stamps
  <2>3. (\A k \in Conns : SlotOK(conn[k])) /\ WorkerOK
    BY InitialValues DEF Init, SlotOK, WorkerOK
  <2>4. QED
    BY <2>2, <2>3, HoldingBySlot
<1>2. /\ TypeOK /\ JoinCount /\ Stamps /\ Holding
      /\ [Next]_vars
      => (TypeOK /\ JoinCount /\ Stamps /\ Holding)'
  BY InductiveStep
<1>3. QED
  BY <1>1, <1>2, PTL DEF Spec

\* The types hold, and join() counts every item put and not yet done: a
\* backfill-wait never sleeps on an empty count and task_done() never goes
\* below zero.  The two need each other.
THEOREM TypesAndJoinCount == Spec => [](TypeOK /\ JoinCount)
BY InductiveInvariant, PTL

\* A report is answered with the unihash stored under its own key, whatever ran
\* while the handler waited for the upstream server.
THEOREM ReportedIsStoredAlways == Spec => []ReportedIsStored
<1>1. Holding => ReportedIsStored
  BY DEF Holding
<1>2. QED
  BY <1>1, InductiveInvariant, PTL

-----------------------------------------------------------------------------
(* How a unihash can change *)

LEMMA UnihashMoves ==
  ASSUME TypeOK, Stamps, TableStep, NEW t,
         NEW old \in TaskQuery(db, t), NEW new \in TaskQuery(db', t), new # old
  PROVE  HasUpstream /\ new \in up /\ new.created < old.created
<1>1. old \in db /\ old \in db' /\ new \in db' /\ new.created <= old.created
  BY DEF TaskQuery, Fetch, TableStep
<1>2. old.created \in Nat /\ old.created < now /\ now \in Nat
  BY <1>1 DEF TypeOK, Row, Stamps
<1>3. CASE new \in db
  <2>1. old.created <= new.created
    BY <1>3 DEF TaskQuery, Fetch
  <2>2. QED
    BY <1>1, <1>2, <1>3, <2>1 DEF Stamps, TypeOK, Row
<1>4. CASE HasUpstream /\ new \in up
  BY <1>1, <1>2, <1>4 DEF Stamps, TypeOK, Row
<1>5. CASE new.created = now
  BY <1>1, <1>2, <1>5
<1>6. QED
  BY <1>1, <1>3, <1>4, <1>5 DEF TableStep

\* A taskhash that has a unihash changes it only to that of an older row of the
\* upstream server: no interleaving of reports, copies, retries and restarts
\* installs a newer answer over one a client may have used.
THEOREM UnihashMovesToUpstreamAlways == Spec => UnihashMovesToUpstream
<1> DEFINE Moves == \A t \in TaskHashes :
                      \A old \in TaskQuery(db, t), new \in TaskQuery(db', t) :
                        new # old => new \in up /\ new.created < old.created
<1>1. TypeOK /\ JoinCount /\ Stamps /\ Holding /\ [Next]_vars => [Moves]_vars
  BY InductiveStep, UnihashMoves
<1>2. Spec => [][Moves]_vars
  BY <1>1, InductiveInvariant, PTL DEF Spec
<1>3. QED
  BY <1>2 DEF UnihashMovesToUpstream

\* Without an upstream the first unihash of a taskhash is its unihash for good.
THEOREM FirstUnihashWinsAlways ==
  ASSUME ~HasUpstream
  PROVE  Spec => FirstUnihashWins
<1> DEFINE Keeps == \A t \in TaskHashes :
                      TaskQuery(db, t) # {} => TaskQuery(db', t) = TaskQuery(db, t)
<1>1. ASSUME TypeOK, JoinCount, Stamps, Holding, [Next]_vars
      PROVE  Keeps
  <2> SUFFICES ASSUME NEW t \in TaskHashes, NEW old \in TaskQuery(db, t)
               PROVE  TaskQuery(db', t) = TaskQuery(db, t)
    OBVIOUS
  <2>1. TableStep
    BY <1>1, InductiveStep
  <2>2. \A new \in TaskQuery(db', t) : new = old
    BY <1>1, <2>1, UnihashMoves
  <2>3. \A r \in TaskQuery(db, t) : r = old
    BY <1>1 DEF TaskQuery, Fetch, Stamps, TypeOK, Row
  <2>4. old \in TaskQuery(db', t)
    <3> SUFFICES ASSUME NEW r \in db', r.taskhash = t
                 PROVE  old.created <= r.created
      BY <2>1 DEF TaskQuery, Fetch, TableStep
    <3>1. old \in db /\ old.created \in Nat /\ old.created < now
      BY <1>1 DEF TaskQuery, Fetch, Stamps, TypeOK, Row
    <3>2. r \in db \/ r.created = now
      BY <2>1 DEF TableStep
    <3>3. QED
      BY <1>1, <3>1, <3>2 DEF TaskQuery, Fetch, TypeOK
  <2>5. QED
    BY <2>2, <2>3, <2>4
<1>2. Spec => [][Keeps]_vars
  <2>1. TypeOK /\ JoinCount /\ Stamps /\ Holding /\ [Next]_vars => [Keeps]_vars
    BY <1>1
  <2>2. QED
    BY <2>1, InductiveInvariant, PTL DEF Spec
<1>3. QED
  BY <1>2 DEF FirstUnihashWins

-----------------------------------------------------------------------------
(* Queries that find something *)

\* Numbers cannot go down for ever
LEMMA LeastNumber ==
  ASSUME NEW S \in SUBSET Nat, S # {}
  PROVE  \E n \in S : \A m \in S : n <= m
<1> DEFINE R == OpToRel(<, Nat)
<1>1. IsWellFoundedOn(R, Nat)
  BY NatLessThanWellFounded
<1>2. R = {ss \in Nat \X Nat : ss[1] < ss[2]}
  BY DEF OpToRel
<1> HIDE DEF R
<1>3. PICK n \in S : \A m \in S : ~(<<m, n>> \in R)
  BY <1>1, WFMin
<1>4. \A m \in S : ~(m < n)
  BY <1>2, <1>3
<1>5. QED
  BY <1>4

\* A taskhash that has a row in the table
Known(table, t) == \E r \in table : r.taskhash = t

\* SELECT ... ORDER BY created LIMIT 1 only finds nothing where there is nothing
LEMMA QueryFinds ==
  ASSUME NEW table \in SUBSET Row, NEW t
  PROVE  TaskQuery(table, t) # {} <=> Known(table, t)
<1> DEFINE rows == {r \in table : r.taskhash = t}
           times == {r.created : r \in rows}
<1>1. ASSUME rows # {} PROVE TaskQuery(table, t) # {}
  <2>1. times \in SUBSET Nat /\ times # {}
    BY <1>1 DEF Row
  <2> HIDE DEF times
  <2>2. PICK n \in times : \A m \in times : n <= m
    BY <2>1, LeastNumber
  <2>3. PICK r \in rows : r.created = n
    BY <2>2 DEF times
  <2>4. \A q \in rows : r.created <= q.created
    BY <2>2, <2>3 DEF times
  <2>5. QED
    BY <2>3, <2>4 DEF TaskQuery, Fetch
<1>2. TaskQuery(table, t) # {} => rows # {}
  BY DEF TaskQuery, Fetch
<1>3. QED
  BY <1>1, <1>2 DEF Known

-----------------------------------------------------------------------------
(* What the queue holds *)

LEMMA QueueRange ==
  ASSUME NEW q \in Seq(SUBSET TaskHashes)
  PROVE  /\ \A S \in SUBSET TaskHashes : Range(Append(q, S)) = Range(q) \cup {S}
         /\ q # <<>> => Range(q) = {Head(q)} \cup Range(Tail(q))
         /\ q = <<>> => Range(q) = {}
<1> DEFINE n == Len(q)
<1>0. n \in Nat /\ DOMAIN q = 1..n
  BY LenProperties
<1>1. ASSUME NEW S \in SUBSET TaskHashes PROVE Range(Append(q, S)) = Range(q) \cup {S}
  <2> DEFINE a == Append(q, S)
  <2>1. /\ DOMAIN a = 1..(n + 1) /\ a[n + 1] = S
        /\ \A i \in 1..n : a[i] = q[i]
    BY <1>0, AppendProperties
  <2> HIDE DEF a
  <2>2. ASSUME NEW x \in Range(a) PROVE x \in Range(q) \cup {S}
    <3>1. PICK i \in 1..(n + 1) : x = a[i]
      BY <2>1, <2>2 DEF Range
    <3>2. i \in 1..n \/ i = n + 1
      BY <1>0
    <3>3. QED
      BY <1>0, <2>1, <3>1, <3>2 DEF Range
  <2>3. ASSUME NEW x \in Range(q) \cup {S} PROVE x \in Range(a)
    <3>1. CASE x = S
      <4>1. n + 1 \in 1..(n + 1)
        BY <1>0
      <4>2. QED
        BY <2>1, <3>1, <4>1 DEF Range
    <3>2. ASSUME NEW i \in 1..n, x = q[i] PROVE x \in Range(a)
      <4>1. i \in 1..(n + 1)
        BY <1>0
      <4>2. QED
        BY <2>1, <3>2, <4>1 DEF Range
    <3>3. QED
      BY <1>0, <2>3, <3>1, <3>2 DEF Range
  <2>4. QED
    BY <2>2, <2>3 DEF a
<1>2. ASSUME q # <<>> PROVE Range(q) = {Head(q)} \cup Range(Tail(q))
  <2> DEFINE b == Tail(q)
  <2>1. /\ n >= 1 /\ Head(q) = q[1] /\ DOMAIN b = 1..(n - 1)
        /\ \A i \in 1..(n - 1) : b[i] = q[i + 1]
    BY <1>0, <1>2, EmptySeq, HeadTailProperties, LenProperties
  <2> HIDE DEF b
  <2>2. ASSUME NEW x \in Range(q) PROVE x \in {Head(q)} \cup Range(b)
    <3>1. PICK i \in 1..n : x = q[i]
      BY <1>0, <2>2 DEF Range
    <3>2. CASE i = 1
      BY <2>1, <3>1, <3>2
    <3>3. CASE i # 1
      <4>1. i - 1 \in 1..(n - 1) /\ (i - 1) + 1 = i
        BY <1>0, <3>3
      <4>2. x = b[i - 1]
        BY <2>1, <3>1, <4>1
      <4>3. QED
        BY <2>1, <4>1, <4>2 DEF Range
    <3>4. QED
      BY <3>2, <3>3
  <2>3. ASSUME NEW x \in {Head(q)} \cup Range(b) PROVE x \in Range(q)
    <3>1. CASE x = Head(q)
      <4>1. 1 \in 1..n
        BY <1>0, <2>1
      <4>2. QED
        BY <1>0, <2>1, <3>1, <4>1 DEF Range
    <3>2. ASSUME NEW i \in 1..(n - 1), x = b[i] PROVE x \in Range(q)
      <4>1. i + 1 \in 1..n
        BY <1>0
      <4>2. QED
        BY <1>0, <2>1, <3>2, <4>1 DEF Range
    <3>3. QED
      BY <2>1, <2>3, <3>1, <3>2 DEF Range
  <2>4. QED
    BY <2>2, <2>3 DEF b
<1>3. q = <<>> => Range(q) = {}
  BY <1>0, EmptySeq DEF Range
<1>4. QED
  BY <1>1, <1>2, <1>3

-----------------------------------------------------------------------------
(* The backfill queue *)

\* A stream's answer is put on the queue after it was found upstream, and a
\* handler that waits for the queue is owed what is not in the table yet
SlotBack(h) ==
  /\ h.pc = "str_got" => \A r \in h.found : r.taskhash = h.msg.taskhash
  /\ h.pc = "str_put" => Known(up, h.msg.taskhash)
  /\ h.pc \notin {"join", "replied"} => h.pending = {}
  /\ h.pc = "join" => \A t \in h.pending : Known(db, t) \/ t \in Outstanding
  /\ h.pc = "replied" /\ h.msg.kind = "backfill-wait" => \A t \in h.pending : Known(db, t)

\* An item is one taskhash, it is known upstream, and so the worker finds it
QueueBack ==
  /\ \A S \in Range(queue) : \A a, b \in S : a = b
  /\ \A t \in Outstanding : Known(up, t)
  /\ worker.pc = "got" => /\ worker.found # {}
                          /\ \A r \in worker.found : r.taskhash = worker.taskhash

Backfilling == QueueBack /\ \A k \in Conns : SlotBack(conn[k])

\* No item is lost: what a step takes from the queue and the worker is stored
OwedStep == \A t \in Outstanding : t \in Outstanding' \/ Known(db', t)

LEMMA UntouchedBack ==
  ASSUME NEW k \in Conns, SlotBack(conn[k]), conn'[k] = conn[k], TableStep, OwedStep
  PROVE  SlotBack(conn[k])'
BY DEF SlotBack, TableStep, OwedStep, Known

LEMMA FreeBack ==
  ASSUME NEW k \in Conns, conn'[k] = Free
  PROVE  SlotBack(conn[k])'
BY InitialValues DEF SlotBack, Free

LEMMA OneBack ==
  ASSUME TypeOK, Backfilling, TableStep, OwedStep,
         NEW k \in Conns, NEW h, conn' = [conn EXCEPT ![k] = h], SlotBack(conn[k])'
  PROVE  \A j \in Conns : SlotBack(conn[j])'
BY UntouchedBack DEF TypeOK, Backfilling

LEMMA ReplyBack ==
  ASSUME TypeOK, Backfilling, TableStep, OwedStep, NEW k \in Conns,
         conn[k].pc \notin {"join", "replied"}, NEW us, Reply(k, us)
  PROVE  \A j \in Conns : SlotBack(conn[j])'
<1> DEFINE h == [conn[k] EXCEPT !.pc = "replied", !.found = {}, !.reply = us]
<1>1. CASE conn[k].client = NoClient
  BY <1>1, OneBack, FreeBack DEF Reply, TypeOK
<1>2. CASE conn[k].client # NoClient
  <2>1. h.pc = "replied" /\ h.pending = {}
    BY DEF TypeOK, HandlerState, Backfilling, SlotBack
  <2>2. conn' = [conn EXCEPT ![k] = h] /\ conn'[k] = h
    BY <1>2 DEF Reply, TypeOK
  <2> HIDE DEF h
  <2>3. SlotBack(conn[k])'
    BY <2>1, <2>2 DEF SlotBack
  <2>4. QED
    BY <2>2, <2>3, OneBack
<1>3. QED
  BY <1>1, <1>2

LEMMA RaiseBack ==
  ASSUME TypeOK, Backfilling, TableStep, OwedStep, NEW k \in Conns, Raise(k)
  PROVE  \A j \in Conns : SlotBack(conn[j])'
BY OneBack, FreeBack DEF Raise, TypeOK

LEMMA SameQueue ==
  ASSUME QueueBack, TableStep, UNCHANGED <<queue, worker>>
  PROVE  OwedStep /\ QueueBack'
<1>1. Outstanding' = Outstanding
  BY DEF Outstanding
<1>2. QED
  BY <1>1 DEF OwedStep, QueueBack, TableStep, Known

LEMMA HandlerBack ==
  ASSUME TypeOK, Holding, TableStep, Backfilling, NEW k \in Conns, Handler(k)
  PROVE  Backfilling'
<1> DEFINE m == conn[k].msg
<1>b. QueueBack /\ SlotBack(conn[k]) /\ conn[k] \in HandlerState
  BY DEF Backfilling, TypeOK
<1>1. CASE StreamPut(k)
  <2>1. /\ queue' = Append(queue, {m.taskhash}) /\ worker' = worker
        /\ conn[k].pc = "str_put" /\ Reply(k, conn[k].reply)
    BY <1>1 DEF StreamPut
  <2>2. m.taskhash \in TaskHashes
    BY RequestFields DEF TypeOK, HandlerState
  <2>3. Range(queue') = Range(queue) \cup {{m.taskhash}}
    <3>1. {m.taskhash} \in SUBSET TaskHashes /\ queue \in Seq(SUBSET TaskHashes)
      BY <2>2 DEF TypeOK
    <3>2. QED
      BY <2>1, <3>1, QueueRange
  <2>4. Outstanding' = Outstanding \cup {m.taskhash}
    BY <2>1, <2>3 DEF Outstanding
  <2>5. OwedStep
    BY <2>4 DEF OwedStep
  <2>6. Known(up, m.taskhash)
    BY <1>b, <2>1 DEF SlotBack
  <2>7. QueueBack'
    BY <1>b, <2>1, <2>3, <2>4, <2>6 DEF QueueBack, TableStep, Known
  <2>8. QED
    BY <2>1, <2>5, <2>7, ReplyBack DEF Backfilling
<1>2. CASE ~StreamPut(k)
  <2>1. UNCHANGED <<queue, worker>>
    BY <1>2
    DEF Handler, GetLocal, GetOuthash, StreamLocal, EquivReport, Unrecognized, ReportLocal,
        ReportAsk, ReportAnswer, ReportResume, GetAsk, GetAnswer, GetResume, StreamAsk,
        StreamAnswer, StreamReply, BackfillWait
  <2>2. OwedStep /\ QueueBack'
    BY <1>b, <2>1, SameQueue
  <2>r. ASSUME NEW us, Reply(k, us), conn[k].pc \notin {"join", "replied"}
        PROVE  Backfilling'
    BY <2>2, <2>r, ReplyBack DEF Backfilling
  <2>x. Raise(k) => Backfilling'
    BY <2>2, RaiseBack DEF Backfilling
  <2>h. ASSUME NEW h, conn' = [conn EXCEPT ![k] = h], SlotBack(conn[k])'
        PROVE  Backfilling'
    BY <2>2, <2>h, OneBack DEF Backfilling
  <2>3. CASE GetLocal(k) \/ GetOuthash(k) \/ StreamLocal(k) \/ EquivReport(k) \/ Unrecognized(k)
    BY <2>3, <2>r, <2>x DEF GetLocal, GetOuthash, StreamLocal, EquivReport, Unrecognized, Starts
  <2>4. CASE ReportLocal(k) \/ ReportResume(k) \/ GetResume(k)
    BY <2>4, <2>r, <2>x DEF ReportLocal, ReportResume, GetResume, FinishReport, Starts
  <2>5. CASE ReportAsk(k) \/ GetAsk(k) \/ StreamAsk(k)
    <3>1. PICK pc \in {"rep_ask", "get_ask", "str_ask"} : Await(k, pc) /\ conn[k].pc = "start"
      BY <2>5 DEF ReportAsk, GetAsk, StreamAsk, Starts
    <3> DEFINE h == [conn[k] EXCEPT !.pc = pc]
    <3>2. h.pc = pc /\ h.pending = {}
      BY <1>b, <3>1 DEF HandlerState, SlotBack
    <3>3. conn' = [conn EXCEPT ![k] = h] /\ conn'[k] = h
      BY <3>1 DEF Await, TypeOK
    <3> HIDE DEF h
    <3>4. SlotBack(conn[k])'
      BY <3>1, <3>2, <3>3 DEF SlotBack
    <3>5. QED
      BY <2>h, <3>3, <3>4
  <2>7. CASE ReportAnswer(k) \/ GetAnswer(k) \/ StreamAnswer(k)
    <3>1. CASE ReportAnswer(k)
      <4> DEFINE rows == OuthashQuery(up, m.outhash, m.taskhash)
                 h == [conn[k] EXCEPT !.pc = "rep_got", !.found = rows]
      <4>1. h.pc = "rep_got" /\ h.pending = {} /\ h.found = rows /\ h.msg = m
        BY <1>b, <3>1 DEF ReportAnswer, HandlerState, SlotBack
      <4>2. conn' = [conn EXCEPT ![k] = h] /\ conn'[k] = h
        BY <3>1 DEF ReportAnswer, TypeOK
      <4>3. \A r \in rows : r.outhash = m.outhash
        BY QueryRows
      <4> HIDE DEF rows, h
      <4>4. SlotBack(conn[k])'
        BY <4>1, <4>2, <4>3 DEF SlotBack
      <4>5. QED
        BY <2>h, <4>2, <4>4
    <3>2. CASE GetAnswer(k)
      <4> DEFINE rows == TaskQuery(up, m.taskhash)
                 h == [conn[k] EXCEPT !.pc = "get_got", !.found = rows]
      <4>1. h.pc = "get_got" /\ h.pending = {} /\ h.found = rows /\ h.msg = m
        BY <1>b, <3>2 DEF GetAnswer, HandlerState, SlotBack
      <4>2. conn' = [conn EXCEPT ![k] = h] /\ conn'[k] = h
        BY <3>2 DEF GetAnswer, TypeOK
      <4>3. \A r \in rows : r.taskhash = m.taskhash
        BY QueryRows
      <4> HIDE DEF rows, h
      <4>4. SlotBack(conn[k])'
        BY <4>1, <4>2, <4>3 DEF SlotBack
      <4>5. QED
        BY <2>h, <4>2, <4>4
    <3>3. CASE StreamAnswer(k)
      <4> DEFINE rows == TaskQuery(up, m.taskhash)
                 h == [conn[k] EXCEPT !.pc = "str_got", !.found = rows]
      <4>1. h.pc = "str_got" /\ h.pending = {} /\ h.found = rows /\ h.msg = m
        BY <1>b, <3>3 DEF StreamAnswer, HandlerState, SlotBack
      <4>2. conn' = [conn EXCEPT ![k] = h] /\ conn'[k] = h
        BY <3>3 DEF StreamAnswer, TypeOK
      <4>3. \A r \in rows : r.taskhash = m.taskhash
        BY QueryRows
      <4> HIDE DEF rows, h
      <4>4. SlotBack(conn[k])'
        BY <4>1, <4>2, <4>3 DEF SlotBack
      <4>5. QED
        BY <2>h, <4>2, <4>4
    <3>4. QED
      BY <2>7, <3>1, <3>2, <3>3
  <2>8. CASE StreamReply(k)
    <3>1. CASE conn[k].found = {}
      BY <2>8, <3>1, <2>r DEF StreamReply
    <3>2. CASE conn[k].found # {}
      <4> DEFINE us == {r.unihash : r \in conn[k].found}
                 h == [conn[k] EXCEPT !.pc = "str_put", !.found = {}, !.reply = us]
      <4>1. h.pc = "str_put" /\ h.pending = {} /\ h.msg = m
        BY <1>b, <2>8 DEF StreamReply, HandlerState, SlotBack
      <4>2. conn' = [conn EXCEPT ![k] = h] /\ conn'[k] = h
        BY <2>8, <3>2 DEF StreamReply, TypeOK
      <4>3. Known(up, m.taskhash)
        BY <1>b, <2>8, <3>2 DEF StreamReply, SlotBack, Holding, FoundUpstream, Known
      <4> HIDE DEF h
      <4>4. SlotBack(conn[k])'
        BY <4>1, <4>2, <4>3 DEF SlotBack, TableStep, Known
      <4>5. QED
        BY <2>h, <4>2, <4>4
    <3>3. QED
      BY <3>1, <3>2
  <2>9. CASE BackfillWait(k)
    <3>1. CASE unfinished = 0
      BY <2>9, <3>1, <2>r DEF BackfillWait, Starts
    <3>2. CASE unfinished # 0
      <4> DEFINE h == [conn[k] EXCEPT !.pc = "join", !.pending = Outstanding]
      <4>1. h.pc = "join" /\ h.pending = Outstanding
        BY <1>b DEF HandlerState
      <4>2. conn' = [conn EXCEPT ![k] = h] /\ conn'[k] = h
        BY <2>9, <3>2 DEF BackfillWait, TypeOK
      <4> HIDE DEF h
      <4>3. SlotBack(conn[k])'
        BY <2>2, <4>1, <4>2 DEF SlotBack, OwedStep
      <4>4. QED
        BY <2>h, <4>2, <4>3
    <3>3. QED
      BY <3>1, <3>2
  <2>10. QED
    BY <1>2, <2>3, <2>4, <2>5, <2>7, <2>8, <2>9 DEF Handler
<1>3. QED
  BY <1>1, <1>2

\* task_done() wakes the handlers that wait only when all they wait for is stored
LEMMA TaskDoneBack ==
  ASSUME TypeOK, Backfilling, TableStep, OwedStep, TaskDone,
         unfinished = 1 => \A t \in Outstanding : Known(db', t)
  PROVE  \A k \in Conns : SlotBack(conn[k])'
<1> SUFFICES ASSUME NEW k \in Conns PROVE SlotBack(conn[k])'
  OBVIOUS
<1> DEFINE h == [conn[k] EXCEPT !.pc = "replied"]
<1>1. h.pc = "replied" /\ h.pending = conn[k].pending /\ h.msg = conn[k].msg
  BY DEF TypeOK, HandlerState
<1>2. CASE conn'[k] = h /\ conn[k].pc = "join" /\ unfinished = 1
  <2>1. \A t \in conn[k].pending : Known(db, t) \/ t \in Outstanding
    BY <1>2 DEF Backfilling, SlotBack
  <2>2. \A t \in h.pending : Known(db', t)
    BY <1>1, <1>2, <2>1 DEF Known, TableStep
  <2> HIDE DEF h
  <2>3. QED
    BY <1>1, <1>2, <2>2 DEF SlotBack
<1>3. CASE conn'[k] = conn[k]
  BY <1>3, UntouchedBack DEF Backfilling
<1>4. CASE conn'[k] = Free
  BY <1>4, FreeBack
<1>5. QED
  BY <1>2, <1>3, <1>4 DEF TaskDone

LEMMA WorkerBack ==
  ASSUME TypeOK, JoinCount, Holding, TableStep, Backfilling, Worker \/ WorkerUpstreamFails
  PROVE  Backfilling'
<1>b. /\ QueueBack /\ queue \in Seq(SUBSET TaskHashes) /\ Len(queue) \in Nat
      /\ worker \in WorkerState
  BY LenProperties DEF Backfilling, TypeOK
<1>u. ASSUME UNCHANGED conn, OwedStep PROVE \A k \in Conns : SlotBack(conn[k])'
  BY <1>u, UntouchedBack DEF Backfilling
<1>e. queue = <<>> => UNION Range(queue) = {}
  BY <1>b, QueueRange
<1>1. CASE WorkerGet
  <2>1. /\ worker.pc = "idle" /\ queue # <<>> /\ queue' = Tail(queue)
        /\ UNCHANGED <<db, up>>
    BY <1>1 DEF WorkerGet
  <2>2. Range(queue) = {Head(queue)} \cup Range(queue')
    BY <1>b, <2>1, QueueRange
  <2>3. Outstanding = Head(queue) \cup UNION Range(queue')
    BY <2>1, <2>2 DEF Outstanding
  <2>4. CASE Head(queue) = Sentinel /\ worker' = [NoWork EXCEPT !.pc = "stopped"] /\ TaskDone
    <3>1. worker'.pc = "stopped"
      BY <2>4, InitialValues DEF WorkerState
    <3>2. Outstanding' = Outstanding
      BY <2>3, <2>4, <3>1 DEF Outstanding, Sentinel
    <3>3. OwedStep
      BY <3>2 DEF OwedStep
    <3>4. QueueBack'
      BY <1>b, <2>1, <2>2, <3>1, <3>2 DEF QueueBack
    <3>5. unfinished = 1 => Outstanding = {}
      <4>1. SUFFICES ASSUME unfinished = 1 PROVE queue' = <<>>
        <5>1. queue' = <<>> => UNION Range(queue') = {}
          BY DEF Range
        <5>2. QED
          BY <2>3, <2>4, <4>1, <5>1 DEF Sentinel
      <4>2. Len(queue) = 1
        BY <1>b, <2>1, <4>1 DEF JoinCount
      <4>3. Len(Tail(queue)) = 0 /\ Tail(queue) \in Seq(SUBSET TaskHashes)
        BY <1>b, <2>1, <4>2, HeadTailProperties
      <4>4. QED
        BY <2>1, <4>3, EmptySeq
    <3>6. QED
      BY <2>4, <3>3, <3>4, <3>5, TaskDoneBack DEF Backfilling
  <2>5. ASSUME NEW t \in Head(queue), worker' = [NoWork EXCEPT !.pc = "ask", !.taskhash = t],
               UNCHANGED <<conn, unfinished>>
        PROVE  Backfilling'
    <3>1. worker'.pc = "ask" /\ worker'.taskhash = t
      BY <2>5, InitialValues DEF WorkerState
    <3>2. Head(queue) = {t}
      <4> DEFINE S == Head(queue)
      <4>1. S \in Range(queue) /\ t \in S
        BY <2>2, <2>5
      <4> HIDE DEF S
      <4>2. \A a, b \in S : a = b
        BY <1>b, <4>1 DEF QueueBack
      <4>3. S = {t}
        BY <4>1, <4>2
      <4>4. QED
        BY <4>3 DEF S
    <3>3. Outstanding' = Outstanding
      BY <2>3, <3>1, <3>2 DEF Outstanding
    <3>4. OwedStep
      BY <3>3 DEF OwedStep
    <3>5. QueueBack'
      BY <1>b, <2>1, <2>2, <3>1, <3>3 DEF QueueBack
    <3>6. QED
      BY <1>u, <2>5, <3>4, <3>5 DEF Backfilling
  <2>6. QED
    BY <1>1, <2>4, <2>5 DEF WorkerGet
<1>2. CASE WorkerAnswer
  <2>1. /\ worker.pc = "ask" /\ worker'.pc = "got" /\ worker'.taskhash = worker.taskhash
        /\ worker'.found = TaskQuery(up, worker.taskhash)
        /\ UNCHANGED <<db, up, conn, queue>>
    BY <1>2, <1>b DEF WorkerAnswer, WorkerState
  <2>2. Outstanding' = Outstanding /\ worker.taskhash \in Outstanding
    BY <2>1 DEF Outstanding
  <2>3. worker'.found # {}
    BY <1>b, <2>1, <2>2, QueryFinds DEF QueueBack, TypeOK
  <2>4. \A r \in worker'.found : r.taskhash = worker'.taskhash
    <3>1. \A r \in TaskQuery(up, worker.taskhash) : r.taskhash = worker.taskhash
      BY QueryRows
    <3>2. QED
      BY <2>1, <3>1
  <2>5. QueueBack'
    BY <1>b, <2>1, <2>2, <2>3, <2>4 DEF QueueBack
  <2>6. OwedStep
    BY <2>2 DEF OwedStep
  <2>7. QED
    BY <1>u, <2>1, <2>5, <2>6 DEF Backfilling
<1>3. CASE WorkerStore
  <2>1. /\ worker.pc = "got" /\ worker'.pc = "idle" /\ worker'.found = {}
        /\ db' = db \cup worker.found /\ UNCHANGED <<up, queue>> /\ TaskDone
    BY <1>3, InitialValues DEF WorkerStore
  <2>2. Known(db', worker.taskhash)
    BY <1>b, <2>1 DEF QueueBack, Known
  <2>3. Outstanding = Outstanding' \cup {worker.taskhash}
    BY <2>1 DEF Outstanding
  <2>4. OwedStep
    BY <2>2, <2>3 DEF OwedStep
  <2>5. QueueBack'
    BY <1>b, <2>1, <2>3 DEF QueueBack
  <2>6. unfinished = 1 => Outstanding = {worker.taskhash}
    <3> SUFFICES ASSUME unfinished = 1 PROVE Outstanding = {worker.taskhash}
      OBVIOUS
    <3>1. Len(queue) = 0
      BY <1>b, <2>1 DEF JoinCount
    <3>2. queue = <<>>
      BY <1>b, <3>1, EmptySeq
    <3>3. QED
      BY <1>e, <2>1, <3>2 DEF Outstanding
  <2>7. QED
    BY <2>1, <2>2, <2>4, <2>5, <2>6, TaskDoneBack DEF Backfilling
<1>4. CASE WorkerDies \/ WorkerUpstreamFails
  <2>1. /\ worker.pc \in {"ask", "got"} /\ worker'.pc = "dead"
        /\ worker'.taskhash = worker.taskhash /\ UNCHANGED <<db, up, conn, queue>>
    BY <1>4, <1>b DEF WorkerDies, WorkerUpstreamFails, WorkerState
  <2>2. Outstanding' = Outstanding
    BY <2>1 DEF Outstanding
  <2>3. OwedStep /\ QueueBack'
    BY <1>b, <2>1, <2>2 DEF OwedStep, QueueBack
  <2>4. QED
    BY <1>u, <2>1, <2>3 DEF Backfilling
<1>5. QED
  BY <1>1, <1>2, <1>3, <1>4 DEF Worker

LEMMA ClientBack ==
  ASSUME TypeOK, TableStep, Backfilling, NEW c \in Clients,
         \/ Client(c) \/ Timeout(c) \/ Disconnect(c)
         \/ \E m \in Requests : Call(c, m)
  PROVE  Backfilling'
<1>1. UNCHANGED <<queue, worker>>
  BY DEF Client, Accept, ConnectFails, Deliver, Timeout, Disconnect, GiveUp, Call
<1>2. OwedStep /\ QueueBack'
  BY <1>1, SameQueue DEF Backfilling
<1>u. UNCHANGED conn => Backfilling'
  BY <1>2, UntouchedBack DEF Backfilling
<1>h. ASSUME NEW k \in Conns, NEW h, conn' = [conn EXCEPT ![k] = h], SlotBack(conn[k])'
      PROVE  Backfilling'
  BY <1>2, <1>h, OneBack DEF Backfilling
<1>3. CASE (\E m \in Requests : Call(c, m)) \/ ConnectFails(c)
  BY <1>3, <1>u DEF Call, ConnectFails
<1>4. CASE \E k \in Conns : Accept(c, k)
  <2>1. PICK k \in Conns : Accept(c, k)
    BY <1>4
  <2> DEFINE h == [Free EXCEPT !.pc = "start", !.client = c, !.msg = call[c].msg]
  <2>2. h.pc = "start" /\ h.pending = {}
    BY InitialValues DEF HandlerState, Free
  <2>3. conn' = [conn EXCEPT ![k] = h] /\ conn'[k] = h
    BY <2>1 DEF Accept, TypeOK
  <2> HIDE DEF h
  <2>4. SlotBack(conn[k])'
    BY <2>2, <2>3 DEF SlotBack
  <2>5. QED
    BY <1>h, <2>3, <2>4
<1>5. ASSUME NEW k \in Conns, LeaveSlot(k)
      PROVE  Backfilling'
  <2>1. CASE conn[k].pc = "replied"
    BY <1>5, <1>h, <2>1, FreeBack DEF LeaveSlot, TypeOK
  <2>2. CASE conn[k].pc # "replied"
    <3> DEFINE h == [conn[k] EXCEPT !.client = NoClient]
    <3>1. /\ h.pc = conn[k].pc /\ h.msg = conn[k].msg /\ h.found = conn[k].found
          /\ h.pending = conn[k].pending
      BY DEF TypeOK, HandlerState
    <3>2. conn' = [conn EXCEPT ![k] = h] /\ conn'[k] = h
      BY <1>5, <2>2 DEF LeaveSlot, TypeOK
    <3> HIDE DEF h
    <3>3. SlotBack(conn[k])
      BY DEF Backfilling
    <3>4. SlotBack(conn[k])'
      BY <1>2, <2>2, <3>1, <3>2, <3>3 DEF SlotBack, TableStep, OwedStep, Known
    <3>5. QED
      BY <1>h, <3>2, <3>4
  <2>3. QED
    BY <2>1, <2>2
<1>6. CASE Deliver(c) \/ Timeout(c) \/ Disconnect(c)
  BY <1>5, <1>6 DEF Deliver, Timeout, Disconnect, GiveUp
<1>7. QED
  BY <1>3, <1>4, <1>6 DEF Client

LEMMA BackStep ==
  ASSUME TypeOK, JoinCount, Holding, TableStep, Backfilling, [Next]_vars
  PROVE  Backfilling'
<1>b. QueueBack
  BY DEF Backfilling
<1>u. UNCHANGED <<conn, queue, worker>> => Backfilling'
  BY <1>b, SameQueue, UntouchedBack DEF Backfilling
<1>1. CASE UNCHANGED vars
  BY <1>1, <1>u DEF vars
<1>2. CASE \E k \in Conns : UpstreamFails(k)
  BY <1>2, <1>b, SameQueue, RaiseBack DEF UpstreamFails, Backfilling
<1>3. CASE \E m \in UpRequests : \/ UpReport(m) \/ UpEquivReport(m)
                                 \/ OwnerReport(m) \/ OwnerEquivReport(m)
  BY <1>3, <1>u DEF UpReport, UpEquivReport, OwnerReport, OwnerEquivReport
<1>4. CASE Gone
  <2>1. /\ \A k \in Conns : conn'[k] = Free
        /\ queue' = <<>> /\ worker' = NoWork
    BY <1>4 DEF Gone
  <2>2. Range(queue') = {} /\ Outstanding' = {}
    BY <2>1, InitialValues DEF Range, Outstanding
  <2>3. QueueBack'
    BY <2>1, <2>2, InitialValues DEF QueueBack
  <2>4. QED
    BY <2>1, <2>3, FreeBack DEF Backfilling
<1>5. CASE Drain
  <2>1. queue' = Append(queue, {}) /\ UNCHANGED <<db, up, conn, worker>>
    BY <1>5 DEF Drain, Sentinel
  <2>2. Range(queue') = Range(queue) \cup {{}}
    BY <2>1, QueueRange DEF TypeOK
  <2>3. Outstanding' = Outstanding
    BY <2>1, <2>2 DEF Outstanding
  <2>4. OwedStep /\ QueueBack'
    BY <1>b, <2>1, <2>2, <2>3 DEF OwedStep, QueueBack
  <2>5. QED
    BY <2>1, <2>4, UntouchedBack DEF Backfilling
<1>6. CASE Start
  BY <1>6, <1>u DEF Start
<1>7. QED
  BY <1>1, <1>2, <1>3, <1>4, <1>5, <1>6, HandlerBack, WorkerBack, ClientBack
  DEF Next, Kill, Stop, Drained

\* Once backfill-wait is answered, everything that was queued when it was asked
\* is in the local table: nothing but a stored row takes an item out of what
\* join() counts, a worker that died keeps its item, and a restart drops the
\* handlers together with the queue.
THEOREM BackfillWaitCoversAlways == Spec => []BackfillWaitCovers
<1>1. Init => Backfilling
  <2> SUFFICES ASSUME Init PROVE Backfilling
    OBVIOUS
  <2>1. Range(queue) = {} /\ Outstanding = {}
    BY InitialValues DEF Init, Range, Outstanding
  <2>2. QueueBack
    BY <2>1, InitialValues DEF Init, QueueBack
  <2>3. QED
    BY <2>2, InitialValues DEF Init, Backfilling, SlotBack, Free
<1>2. TypeOK /\ JoinCount /\ Stamps /\ Holding /\ Backfilling /\ [Next]_vars => Backfilling'
  BY InductiveStep, BackStep
<1>3. Spec => []Backfilling
  BY <1>1, <1>2, InductiveInvariant, PTL DEF Spec
<1>4. TypeOK /\ Backfilling => BackfillWaitCovers
  BY QueryFinds DEF TypeOK, Backfilling, SlotBack, BackfillWaitCovers
<1>5. QED
  BY <1>3, <1>4, InductiveInvariant, PTL

-----------------------------------------------------------------------------
(* A server that only copies agrees with its upstream *)

\* The row the upstream server answers with for its taskhash
Oldest(r) == r \in TaskQuery(up, r.taskhash)

\* Only such rows are copied
Mirrored ==
  /\ \A r \in db \cap up : Oldest(r)
  /\ \A k \in Conns : \A r \in conn[k].found : Oldest(r)
  /\ \A r \in worker.found : Oldest(r)

\* Rows that others report upstream are newer, and change no answer there
LEMMA OldestKept ==
  ASSUME TypeOK, Stamps, TableStep, NEW r, Oldest(r)
  PROVE  Oldest(r)'
<1>1. r \in up /\ r \in up' /\ r.created \in Nat /\ r.created < now /\ now \in Nat
  BY DEF Oldest, TaskQuery, Fetch, TableStep, TypeOK, Row, Stamps
<1>2. ASSUME NEW q \in up', q.taskhash = r.taskhash
      PROVE  r.created <= q.created
  <2>1. CASE q \in up
    BY <1>2, <2>1 DEF Oldest, TaskQuery, Fetch
  <2>2. CASE q.created = now
    BY <1>1, <2>2
  <2>3. QED
    BY <1>2, <2>1, <2>2 DEF TableStep
<1>3. QED
  BY <1>1, <1>2 DEF Oldest, TaskQuery, Fetch

LEMMA QueryOldest ==
  ASSUME NEW t
  PROVE  \A r \in TaskQuery(up, t) : Oldest(r)
BY DEF TaskQuery, Fetch, Oldest

\* Where a step's new rows of the local table come from
CopyStep ==
  \A r \in db' : \/ r \in db \/ r \in worker.found
                 \/ \E k \in Conns : r \in conn[k].found
                 \/ r.created = now /\ up' = up

LEMMA FinishReportCopies ==
  ASSUME NEW k \in Conns, NEW table, NEW found, FinishReport(k, table, found), up' = up,
         \A r \in table : r \in db \/ r \in conn[k].found
  PROVE  CopyStep
<1> DEFINE m == conn[k].msg
<1>1. CASE db' = table
  BY <1>1 DEF CopyStep
<1>2. CASE \E u : db' = table \cup {NewRow(m.outhash, m.taskhash, u)}
  <2>1. PICK u : db' = table \cup {NewRow(m.outhash, m.taskhash, u)}
    BY <1>2
  <2> DEFINE new == NewRow(m.outhash, m.taskhash, u)
  <2>2. new.created = now
    BY NewRowStamp
  <2>3. db' = table \cup {new}
    BY <2>1
  <2> HIDE DEF new
  <2>4. QED
    BY <2>2, <2>3 DEF CopyStep
<1>3. QED
  BY <1>1, <1>2 DEF FinishReport

LEMMA HandlerCopies ==
  ASSUME NEW k \in Conns, Handler(k)
  PROVE  CopyStep
<1> DEFINE m == conn[k].msg
<1>1. CASE UNCHANGED db
  BY <1>1 DEF CopyStep
<1>2. CASE EquivReport(k)
  <2>1. CASE KeyTaken(db, NoOut, m.taskhash)
    BY <1>1, <1>2, <2>1 DEF EquivReport
  <2>2. CASE ~KeyTaken(db, NoOut, m.taskhash)
    <3> DEFINE new == NewRow(NoOut, m.taskhash, m.unihash)
    <3>1. new.created = now
      BY NewRowStamp
    <3>2. db' = db \cup {new} /\ up' = up
      BY <1>2, <2>2 DEF EquivReport
    <3> HIDE DEF new
    <3>3. QED
      BY <3>1, <3>2 DEF CopyStep
  <2>3. QED
    BY <2>1, <2>2
<1>3. CASE ReportLocal(k)
  BY <1>3, FinishReportCopies DEF ReportLocal
<1>4. CASE ReportResume(k)
  BY <1>1, <1>4, FinishReportCopies DEF ReportResume
<1>5. CASE GetResume(k)
  BY <1>5 DEF GetResume, CopyStep
<1>6. QED
  BY <1>1, <1>2, <1>3, <1>4, <1>5
  DEF Handler, GetLocal, GetOuthash, StreamLocal, Unrecognized, ReportAsk, ReportAnswer,
      GetAsk, GetAnswer, StreamAsk, StreamAnswer, StreamReply, StreamPut, BackfillWait

LEMMA NextCopies ==
  ASSUME [Next]_vars
  PROVE  CopyStep
<1>1. CASE UNCHANGED db
  BY <1>1 DEF CopyStep
<1>2. CASE Worker \/ WorkerUpstreamFails
  BY <1>1, <1>2
  DEF Worker, WorkerGet, WorkerAnswer, WorkerStore, WorkerDies, WorkerUpstreamFails, CopyStep
<1>3. ASSUME NEW c \in Clients, \/ Client(c) \/ Timeout(c) \/ Disconnect(c)
                                \/ \E m \in Requests : Call(c, m)
      PROVE  CopyStep
  BY <1>1, <1>3 DEF Client, Accept, ConnectFails, Deliver, Timeout, Disconnect, GiveUp, Call
<1>4. CASE Kill \/ Stop \/ Drain \/ Drained \/ Start
  BY <1>1, <1>4 DEF Kill, Stop, Drain, Drained, Start, Gone
<1>5. ASSUME NEW k \in Conns, Handler(k) \/ UpstreamFails(k)
      PROVE  CopyStep
  BY <1>1, <1>5, HandlerCopies DEF UpstreamFails
<1>6. ASSUME NEW m \in UpRequests, OwnerReport(m) \/ OwnerEquivReport(m)
      PROVE  CopyStep
  <2>1. PICK o, u : db' = db \cup {NewRow(o, m.taskhash, u)} /\ up' = up
    BY <1>6 DEF OwnerReport, OwnerEquivReport
  <2> DEFINE new == NewRow(o, m.taskhash, u)
  <2>2. new.created = now
    BY NewRowStamp
  <2>3. db' = db \cup {new}
    BY <2>1
  <2> HIDE DEF new
  <2>4. QED
    BY <2>1, <2>2, <2>3 DEF CopyStep
<1>7. ASSUME NEW m \in UpRequests, UpReport(m) \/ UpEquivReport(m)
      PROVE  CopyStep
  BY <1>1, <1>7 DEF UpReport, UpEquivReport
<1>8. CASE UNCHANGED vars
  BY <1>1, <1>8 DEF vars
<1>9. QED
  BY <1>2, <1>3, <1>4, <1>5, <1>6, <1>7, <1>8 DEF Next

\* What a slot holds after a step is what it held, or the upstream's answer
FoundStep == \A k \in Conns : \A r \in conn'[k].found : r \in conn[k].found \/ Oldest(r)

LEMMA OneFound ==
  ASSUME TypeOK, NEW k \in Conns, NEW h, conn' = [conn EXCEPT ![k] = h],
         \A r \in h.found : r \in conn[k].found \/ Oldest(r)
  PROVE  FoundStep
<1>1. conn'[k] = h /\ \A j \in Conns \ {k} : conn'[j] = conn[j]
  BY DEF TypeOK
<1>2. QED
  BY <1>1 DEF FoundStep

LEMMA ReplyFound ==
  ASSUME TypeOK, NEW k \in Conns, (\E us : Reply(k, us)) \/ Raise(k)
  PROVE  FoundStep
<1>1. CASE conn' = [conn EXCEPT ![k] = Free]
  BY <1>1, OneFound, InitialValues
<1>2. ASSUME NEW us, Reply(k, us), conn[k].client # NoClient
      PROVE  FoundStep
  <2> DEFINE h == [conn[k] EXCEPT !.pc = "replied", !.found = {}, !.reply = us]
  <2>1. h.found = {}
    BY DEF TypeOK, HandlerState
  <2>2. conn' = [conn EXCEPT ![k] = h]
    BY <1>2 DEF Reply
  <2> HIDE DEF h
  <2>3. QED
    BY <2>1, <2>2, OneFound
<1>3. QED
  BY <1>1, <1>2 DEF Reply, Raise, TypeOK

LEMMA HandlerFound ==
  ASSUME TypeOK, Holding, \A m \in Requests : m.kind # "report", NEW k \in Conns, Handler(k)
  PROVE  FoundStep
<1> DEFINE m == conn[k].msg
<1>b. conn[k] \in HandlerState /\ m.kind # "report"
  BY DEF TypeOK, HandlerState
<1>r. (\E us : Reply(k, us)) \/ Raise(k) => FoundStep
  BY ReplyFound
<1>1. CASE \/ GetLocal(k) \/ GetOuthash(k) \/ StreamLocal(k) \/ EquivReport(k)
           \/ Unrecognized(k) \/ GetResume(k) \/ StreamPut(k)
  BY <1>1, <1>r
  DEF GetLocal, GetOuthash, StreamLocal, EquivReport, Unrecognized, GetResume, StreamPut
<1>2. ~(ReportLocal(k) \/ ReportAsk(k) \/ ReportAnswer(k) \/ ReportResume(k))
  BY <1>b DEF ReportLocal, ReportAsk, ReportAnswer, ReportResume, Starts, Holding, HandlerOf
<1>3. CASE GetAsk(k) \/ StreamAsk(k)
  <2>1. PICK pc : Await(k, pc)
    BY <1>3 DEF GetAsk, StreamAsk
  <2> DEFINE h == [conn[k] EXCEPT !.pc = pc]
  <2>2. h.found = conn[k].found
    BY <1>b DEF HandlerState
  <2>3. conn' = [conn EXCEPT ![k] = h]
    BY <2>1 DEF Await, TypeOK
  <2> HIDE DEF h
  <2>4. QED
    BY <2>2, <2>3, OneFound
<1>4. CASE GetAnswer(k)
  <2> DEFINE rows == TaskQuery(up, m.taskhash)
             h == [conn[k] EXCEPT !.pc = "get_got", !.found = rows]
  <2>1. h.found = rows
    BY <1>b DEF HandlerState
  <2>2. conn' = [conn EXCEPT ![k] = h]
    BY <1>4 DEF GetAnswer, TypeOK
  <2>3. \A r \in rows : Oldest(r)
    BY QueryOldest
  <2> HIDE DEF rows, h
  <2>4. QED
    BY <2>1, <2>2, <2>3, OneFound
<1>5. CASE StreamAnswer(k)
  <2> DEFINE rows == TaskQuery(up, m.taskhash)
             h == [conn[k] EXCEPT !.pc = "str_got", !.found = rows]
  <2>1. h.found = rows
    BY <1>b DEF HandlerState
  <2>2. conn' = [conn EXCEPT ![k] = h]
    BY <1>5 DEF StreamAnswer, TypeOK
  <2>3. \A r \in rows : Oldest(r)
    BY QueryOldest
  <2> HIDE DEF rows, h
  <2>4. QED
    BY <2>1, <2>2, <2>3, OneFound
<1>6. CASE StreamReply(k)
  <2> DEFINE us == {r.unihash : r \in conn[k].found}
             h == [conn[k] EXCEPT !.pc = "str_put", !.found = {}, !.reply = us]
  <2>1. h.found = {}
    BY <1>b DEF HandlerState
  <2>2. Reply(k, {}) \/ conn' = [conn EXCEPT ![k] = h]
    BY <1>6 DEF StreamReply, TypeOK
  <2> HIDE DEF h
  <2>3. QED
    BY <1>r, <2>1, <2>2, OneFound
<1>7. CASE BackfillWait(k)
  <2> DEFINE h == [conn[k] EXCEPT !.pc = "join", !.pending = Outstanding]
  <2>1. h.found = conn[k].found
    BY <1>b DEF HandlerState
  <2>2. Reply(k, {}) \/ conn' = [conn EXCEPT ![k] = h]
    BY <1>7 DEF BackfillWait, TypeOK
  <2> HIDE DEF h
  <2>3. QED
    BY <1>r, <2>1, <2>2, OneFound
<1>8. QED
  BY <1>1, <1>2, <1>3, <1>4, <1>5, <1>6, <1>7 DEF Handler

LEMMA NextFound ==
  ASSUME TypeOK, Holding, \A m \in Requests : m.kind # "report", [Next]_vars
  PROVE  FoundStep
<1>u. UNCHANGED conn => FoundStep
  BY DEF FoundStep
<1>g. (\A k \in Conns : conn'[k] = conn[k] \/ conn'[k] = Free) => FoundStep
  BY InitialValues DEF FoundStep
<1>1. CASE Worker \/ WorkerUpstreamFails
  <2>1. ASSUME TaskDone PROVE FoundStep
    <3> SUFFICES ASSUME NEW k \in Conns PROVE \A r \in conn'[k].found : r \in conn[k].found
      BY DEF FoundStep
    <3> DEFINE h == [conn[k] EXCEPT !.pc = "replied"]
    <3>1. h.found = conn[k].found
      BY DEF TypeOK, HandlerState
    <3>2. conn'[k] = h \/ conn'[k] = conn[k] \/ conn'[k] = Free
      BY <2>1 DEF TaskDone
    <3> HIDE DEF h
    <3>3. QED
      BY <3>1, <3>2, InitialValues
  <2>2. QED
    BY <1>1, <1>u, <2>1
    DEF Worker, WorkerGet, WorkerAnswer, WorkerStore, WorkerDies, WorkerUpstreamFails
<1>2. ASSUME NEW c \in Clients, \/ Client(c) \/ Timeout(c) \/ Disconnect(c)
                                \/ \E m \in Requests : Call(c, m)
      PROVE  FoundStep
  <2>1. ASSUME NEW k \in Conns, Accept(c, k) PROVE FoundStep
    <3> DEFINE h == [Free EXCEPT !.pc = "start", !.client = c, !.msg = call[c].msg]
    <3>1. h.found = {}
      BY DEF Free
    <3>2. conn' = [conn EXCEPT ![k] = h]
      BY <2>1 DEF Accept
    <3> HIDE DEF h
    <3>3. QED
      BY <3>1, <3>2, OneFound
  <2>2. ASSUME NEW k \in Conns, LeaveSlot(k) PROVE FoundStep
    <3> DEFINE h == [conn[k] EXCEPT !.client = NoClient]
    <3>1. h.found = conn[k].found
      BY DEF TypeOK, HandlerState
    <3>2. conn' = [conn EXCEPT ![k] = Free] \/ conn' = [conn EXCEPT ![k] = h]
      BY <2>2 DEF LeaveSlot, TypeOK
    <3> HIDE DEF h
    <3>3. QED
      BY <3>1, <3>2, OneFound, InitialValues
  <2>3. QED
    BY <1>2, <1>u, <2>1, <2>2
    DEF Client, ConnectFails, Deliver, Timeout, Disconnect, GiveUp, Call
<1>3. CASE Kill \/ Stop \/ Drain \/ Drained \/ Start
  BY <1>3, <1>u, <1>g DEF Kill, Stop, Drain, Drained, Start, Gone
<1>4. ASSUME NEW k \in Conns, Handler(k) \/ UpstreamFails(k)
      PROVE  FoundStep
  BY <1>4, HandlerFound, ReplyFound DEF UpstreamFails
<1>5. ASSUME NEW m \in UpRequests, \/ UpReport(m) \/ UpEquivReport(m)
                                   \/ OwnerReport(m) \/ OwnerEquivReport(m)
      PROVE  FoundStep
  BY <1>5, <1>u DEF UpReport, UpEquivReport, OwnerReport, OwnerEquivReport
<1>6. CASE UNCHANGED vars
  BY <1>6, <1>u DEF vars
<1>7. QED
  BY <1>1, <1>2, <1>3, <1>4, <1>5, <1>6 DEF Next

LEMMA WorkerFound ==
  ASSUME TypeOK, [Next]_vars
  PROVE  \A r \in worker'.found : r \in worker.found \/ Oldest(r)
<1>1. CASE worker' = worker \/ worker' = NoWork
  BY <1>1, InitialValues
<1>2. CASE WorkerGet
  BY <1>2, InitialValues DEF WorkerGet, WorkerState
<1>3. CASE WorkerAnswer
  <2>1. worker'.found = TaskQuery(up, worker.taskhash)
    BY <1>3 DEF WorkerAnswer, TypeOK, WorkerState
  <2>2. QED
    BY <2>1, QueryOldest
<1>4. CASE WorkerDies \/ WorkerUpstreamFails
  BY <1>4 DEF WorkerDies, WorkerUpstreamFails, TypeOK, WorkerState
<1>5. CASE WorkerStore
  BY <1>1, <1>5 DEF WorkerStore
<1>6. ASSUME NEW c \in Clients, \/ Client(c) \/ Timeout(c) \/ Disconnect(c)
                                \/ \E m \in Requests : Call(c, m)
      PROVE  worker' = worker
  BY <1>6 DEF Client, Accept, ConnectFails, Deliver, Timeout, Disconnect, GiveUp, Call
<1>7. ASSUME NEW k \in Conns, Handler(k) \/ UpstreamFails(k)
      PROVE  worker' = worker
  BY <1>7
  DEF Handler, GetLocal, GetOuthash, StreamLocal, EquivReport, Unrecognized, ReportLocal,
      ReportAsk, ReportAnswer, ReportResume, GetAsk, GetAnswer, GetResume, StreamAsk,
      StreamAnswer, StreamReply, StreamPut, BackfillWait, UpstreamFails
<1>8. QED
  BY <1>1, <1>2, <1>3, <1>4, <1>5, <1>6, <1>7
  DEF Next, vars, Worker, UpReport, UpEquivReport, OwnerReport, OwnerEquivReport,
      Kill, Stop, Drain, Drained, Start, Gone

LEMMA MirroredStep ==
  ASSUME TypeOK, Stamps, Holding, TableStep, Mirrored,
         \A m \in Requests : m.kind # "report", [Next]_vars
  PROVE  Mirrored'
<1>1. ASSUME NEW r \in db', r \in up' PROVE Oldest(r)'
  <2>1. CASE Oldest(r)
    BY <2>1, OldestKept
  <2>2. CASE r \in db
    <3>1. r.created < now /\ r.created \in Nat /\ now \in Nat
      BY <2>2 DEF Stamps, TypeOK, Row
    <3>2. r \in up
      BY <1>1, <3>1 DEF TableStep
    <3>3. QED
      BY <2>1, <2>2, <3>2 DEF Mirrored
  <2>3. CASE r \in worker.found \/ \E k \in Conns : r \in conn[k].found
    BY <2>1, <2>3 DEF Mirrored
  <2>4. CASE r.created = now /\ up' = up
    <3>1. r.created < now /\ now \in Nat
      BY <1>1, <2>4 DEF Stamps, TypeOK
    <3>2. QED
      BY <2>4, <3>1
  <2>5. QED
    BY <1>1, <2>2, <2>3, <2>4, NextCopies DEF CopyStep
<1>2. ASSUME NEW k \in Conns, NEW r \in conn'[k].found PROVE Oldest(r)'
  BY <1>2, NextFound, OldestKept DEF FoundStep, Mirrored
<1>3. ASSUME NEW r \in worker'.found PROVE Oldest(r)'
  BY <1>3, WorkerFound, OldestKept DEF Mirrored
<1>4. QED
  BY <1>1, <1>2, <1>3 DEF Mirrored

\* Where nothing is reported to this server but equivalences, a taskhash that it
\* only knows by copies resolves as it does upstream: a copy is the oldest
\* upstream row of its taskhash and stays that, whenever it was asked for.
THEOREM ServersAgreeAlways ==
  ASSUME \A m \in Requests : m.kind # "report"
  PROVE  Spec => []ServersAgree
<1>1. Init => Mirrored
  BY InitialValues DEF Init, Mirrored
<1>2. TypeOK /\ JoinCount /\ Stamps /\ Holding /\ Mirrored /\ [Next]_vars => Mirrored'
  BY InductiveStep, MirroredStep
<1>3. Spec => []Mirrored
  BY <1>1, <1>2, InductiveInvariant, PTL DEF Spec
<1>4. ASSUME TypeOK, Stamps, Mirrored PROVE ServersAgree
  <2> SUFFICES ASSUME NEW t \in TaskHashes,
                      NEW old \in {r \in db : r.taskhash = t},
                      {r \in db : r.taskhash = t} \subseteq up
               PROVE  TaskQuery(db, t) = {old} /\ TaskQuery(up, t) = {old}
    BY DEF ServersAgree
  <2>1. \A r \in db : r.taskhash = t => r \in TaskQuery(up, t)
    BY <1>4 DEF Mirrored, Oldest
  <2>2. \A r, q \in TaskQuery(up, t) : r = q
    BY <1>4 DEF TaskQuery, Fetch, Stamps, TypeOK, Row
  <2>3. TaskQuery(up, t) = {old}
    BY <2>1, <2>2
  <2>4. \A r \in db : r.taskhash = t => r = old
    BY <2>1, <2>3
  <2>5. old.created \in Nat
    BY <1>4 DEF TypeOK, Row
  <2>6. TaskQuery(db, t) = {old}
    BY <2>4, <2>5 DEF TaskQuery, Fetch
  <2>7. QED
    BY <2>3, <2>6
<1>5. QED
  BY <1>3, <1>4, InductiveInvariant, PTL
=============================================================================
