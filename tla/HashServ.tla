------------------------------ MODULE HashServ ------------------------------
(***************************************************************************)
(* The hash equivalence server of BitBake (lib/hashserv/server.py), the    *)
(* connection layer below it (lib/bb/asyncrpc) and the calls that clients  *)
(* make on it (lib/hashserv/client.py).                                    *)
(*                                                                         *)
(* The server is one asyncio process: a handler runs without interruption  *)
(* from one await to the next, and each such stretch is one action here.   *)
(* A handler awaits only its upstream server, the backfill queue's join()  *)
(* and its own socket.  A connection slot k of Conns holds one request     *)
(* from the moment the server reads it until its handler is done with it;  *)
(* a client that gave up on a slot leaves its handler running.             *)
(*                                                                         *)
(* Abstractions.  Every query names one method, so the table of a single   *)
(* method is modelled.  datetime.now() is a clock `now' that two machines  *)
(* share and that moves on with every new row.  A SELECT ... LIMIT 1 is    *)
(* the set of the rows it may return: empty or a singleton.                *)
(***************************************************************************)
EXTENDS Naturals, Sequences, Functions

CONSTANTS TaskHashes, OutHashes, UniHashes,
          Clients,       \* processes that hold a client object
          Conns,         \* connection slots of the server (bound)
          Requests,      \* what a client may ask for
          UpRequests,    \* what others report: to the upstream server, or to the
                         \* server whose file a read-only one shares
          NoClient,      \* no one waits for the handler in a slot
          NoOut,         \* the empty outhash of an equivalence report
          HasUpstream,   \* the server was given an upstream
          ReadOnly,      \* the server was started read-only
          Retries,       \* reconnects before a call fails: 3 in the code
          QueueBound,    \* bound: no stream request is sent on a longer queue
          Faults         \* the faults of the environment that may happen

Request == [kind : {"get", "get-outhash", "get-stream", "report",
                    "report-equiv", "backfill-wait"},
            taskhash : TaskHashes, outhash : OutHashes, unihash : UniHashes]

Row == [outhash : OutHashes \cup {NoOut}, taskhash : TaskHashes,
        unihash : UniHashes, created : Nat]

ASSUME NoneAssumption == NoOut \notin OutHashes /\ NoClient \notin Clients
ASSUME RequestsAssumption == /\ Requests \subseteq Request /\ Requests # {}
                             /\ UpRequests \subseteq Request
ASSUME TaskHashesAssumption == TaskHashes # {}
ASSUME ModeAssumption == /\ HasUpstream \in BOOLEAN
                         /\ ReadOnly \in BOOLEAN
                         /\ ~(HasUpstream /\ ReadOnly)
ASSUME BoundsAssumption == Retries \in Nat /\ QueueBound \in Nat
ASSUME FaultsAssumption == Faults \subseteq {"link", "upstream", "stop", "kill"}

VARIABLES
  db,          \* rows of tasks_v2, the sqlite file: survives the process
  up,          \* rows of the upstream server's table
  now,         \* the clock both servers stamp new rows with
  conn,        \* the handler running in each connection slot
  call,        \* the call each client has in progress
  queue,       \* backfill_queue: taskhashes, and at shutdown the sentinel
  unfinished,  \* its count of items put and not yet task_done()
  worker,      \* backfill_worker_task
  srv          \* "up", "draining" after SIGTERM, "down"

vars == <<db, up, now, conn, call, queue, unfinished, worker, srv>>

-----------------------------------------------------------------------------
(* The table *)

\* Mutant: ORDER BY created DESC
FetchNewest(rows) == {r \in rows : \A q \in rows : r.created >= q.created}

\* ORDER BY created ASC LIMIT 1
Fetch(rows) == {r \in rows : \A q \in rows : r.created <= q.created}

\* FAST_QUERY and ALL_QUERY
TaskQuery(table, t) == Fetch({r \in table : r.taskhash = t})

\* OUTHASH_QUERY: the row of this taskhash if there is one, else the oldest
OuthashQuery(table, o, t) ==
  LET same  == {r \in table : r.outhash = o}
      exact == {r \in same : r.taskhash = t}
  IN  IF exact # {} THEN Fetch(exact) ELSE Fetch(same)

\* UNIQUE(method, outhash, taskhash)
KeyTaken(table, o, t) == \E r \in table : r.outhash = o /\ r.taskhash = t

NewRow(o, t, u) == [outhash |-> o, taskhash |-> t, unihash |-> u, created |-> now]

\* Mutant: the caller's unihash is stored beside the row that was found
StoredOwn(m, found) == {m.unihash}

\* The unihash handle_report stores: that of the row found, else the caller's
StoredUnihash(m, found) ==
  IF found = {} THEN {m.unihash} ELSE {r.unihash : r \in found}

-----------------------------------------------------------------------------
(* Handlers and calls *)

Idle == [st |-> "idle", msg |-> CHOOSE m \in Requests : TRUE, tries |-> 0]

Free == [pc |-> "free", client |-> NoClient, msg |-> CHOOSE m \in Requests : TRUE,
         found |-> {}, reply |-> {}, pending |-> {}]

NoWork == [pc |-> "idle", taskhash |-> CHOOSE t \in TaskHashes : TRUE, found |-> {}]

\* The queue holds sets of taskhashes: a singleton per item, {} the sentinel
Sentinel == {}

\* Mutant: one reconnect too many
RetryOnceMore(x) ==
  IF x.tries <= Retries
  THEN [Idle EXCEPT !.st = "send", !.msg = x.msg, !.tries = x.tries + 1]
  ELSE Idle

\* Mutant: the count of reconnects starts again with every connection
RetryForever(x) == [Idle EXCEPT !.st = "send", !.msg = x.msg]

\* _send_wrapper: reconnect and send again, up to Retries times.  The count is that
\* of the outermost call: setup_connection() of a stream client sends its own
\* requests through _send_wrapper, each with a count of three, and they are not here.
Retry(x) ==
  IF x.tries < Retries
  THEN [Idle EXCEPT !.st = "send", !.msg = x.msg, !.tries = x.tries + 1]
  ELSE Idle

\* write_message: the connection of a client that gave up is closed
Reply(k, unihashes) ==
  conn' = [conn EXCEPT ![k] = IF @.client = NoClient
                              THEN Free
                              ELSE [@ EXCEPT !.pc = "replied", !.found = {},
                                             !.reply = unihashes]]

\* An exception leaves the handler: the connection is closed, the client retries
Raise(k) ==
  /\ conn' = [conn EXCEPT ![k] = Free]
  /\ call' = [c \in Clients |-> IF c = conn[k].client THEN Retry(call[c]) ELSE call[c]]

\* The handler awaits an answer of the upstream server
Await(k, pc) == conn' = [conn EXCEPT ![k].pc = pc]

HandlerState ==
  [pc : {"free", "start", "get_ask", "get_got", "rep_ask", "rep_got", "str_ask",
         "str_got", "str_put", "join", "replied"},
   client : Clients \cup {NoClient}, msg : Requests, found : SUBSET Row,
   reply : SUBSET UniHashes, pending : SUBSET TaskHashes]

CallState == [st : {"idle", "send", "wait"}, msg : Requests, tries : 0..Retries]

WorkerState == [pc : {"idle", "ask", "got", "stopped", "dead"},
                taskhash : TaskHashes, found : SUBSET Row]

TypeOK ==
  /\ db \subseteq Row /\ up \subseteq Row /\ now \in Nat
  /\ conn \in [Conns -> HandlerState]
  /\ call \in [Clients -> CallState]
  /\ queue \in Seq(SUBSET TaskHashes)
  /\ unfinished \in Nat
  /\ worker \in WorkerState
  /\ srv \in {"up", "draining", "down"}

Init ==
  /\ db = {} /\ up = {} /\ now = 0
  /\ conn = [k \in Conns |-> Free]
  /\ call = [c \in Clients |-> Idle]
  /\ queue = <<>> /\ unfinished = 0
  /\ worker = NoWork
  /\ srv = "up"

-----------------------------------------------------------------------------
(* Clients *)

\* A method of the client object is called
Call(c, m) ==
  /\ call[c].st = "idle"
  /\ m.kind = "get-stream" => Len(queue) < QueueBound
  /\ call' = [call EXCEPT ![c] = [Idle EXCEPT !.st = "send", !.msg = m]]
  /\ UNCHANGED <<db, up, now, conn, queue, unfinished, worker, srv>>

\* The server reads the request from a connection
Accept(c, k) ==
  /\ call[c].st = "send" /\ srv # "down" /\ conn[k].pc = "free"
  /\ call' = [call EXCEPT ![c].st = "wait"]
  /\ conn' = [conn EXCEPT ![k] = [Free EXCEPT !.pc = "start", !.client = c,
                                              !.msg = call[c].msg]]
  /\ UNCHANGED <<db, up, now, queue, unfinished, worker, srv>>

\* The server cannot be reached, or has no descriptor left
ConnectFails(c) ==
  /\ call[c].st = "send"
  /\ srv = "down" \/ "link" \in Faults \/ \A k \in Conns : conn[k].pc # "free"
  /\ call' = [call EXCEPT ![c] = Retry(@)]
  /\ UNCHANGED <<db, up, now, conn, queue, unfinished, worker, srv>>

LeaveSlot(k) ==
  conn' = [conn EXCEPT ![k] = IF @.pc = "replied" THEN Free
                              ELSE [@ EXCEPT !.client = NoClient]]

\* The reply reaches the client; a stream's handler may still have to put
Deliver(c) ==
  \E k \in Conns :
    /\ conn[k].client = c /\ conn[k].pc \in {"replied", "str_put"}
    /\ call' = [call EXCEPT ![c] = Idle]
    /\ LeaveSlot(k)
    /\ UNCHANGED <<db, up, now, queue, unfinished, worker, srv>>

\* The client drops a connection and the handler behind it keeps running: after
\* 30 seconds without an answer (send_message, not send_stream), or on an error
GiveUp(c) ==
  \E k \in Conns :
    /\ conn[k].client = c
    /\ call' = [call EXCEPT ![c] = Retry(@)]
    /\ LeaveSlot(k)
    /\ UNCHANGED <<db, up, now, queue, unfinished, worker, srv>>

Timeout(c) == call[c].msg.kind # "get-stream" /\ GiveUp(c)

Disconnect(c) == "link" \in Faults /\ GiveUp(c)

-----------------------------------------------------------------------------
(* Requests answered from the table alone *)

Starts(k, kind) == conn[k].pc = "start" /\ conn[k].msg.kind = kind

\* handle_get with a row in the table, or without upstream
GetLocal(k) ==
  LET found == TaskQuery(db, conn[k].msg.taskhash)
  IN  /\ Starts(k, "get")
      /\ found # {} \/ ~HasUpstream
      /\ Reply(k, {r.unihash : r \in found})
      /\ UNCHANGED <<db, up, now, call, queue, unfinished, worker, srv>>

\* handle_get_outhash
GetOuthash(k) ==
  LET m == conn[k].msg
  IN  /\ Starts(k, "get-outhash")
      /\ Reply(k, {r.unihash : r \in OuthashQuery(db, m.outhash, m.taskhash)})
      /\ UNCHANGED <<db, up, now, call, queue, unfinished, worker, srv>>

\* handle_get_stream with a row in the table, or without upstream
StreamLocal(k) ==
  LET found == TaskQuery(db, conn[k].msg.taskhash)
  IN  /\ Starts(k, "get-stream")
      /\ found # {} \/ ~HasUpstream
      /\ Reply(k, {r.unihash : r \in found})
      /\ UNCHANGED <<db, up, now, call, queue, unfinished, worker, srv>>

\* handle_equivreport: INSERT OR IGNORE, then FAST_QUERY
EquivReport(k) ==
  LET m     == conn[k].msg
      taken == KeyTaken(db, NoOut, m.taskhash)
      table == IF taken THEN db ELSE db \cup {NewRow(NoOut, m.taskhash, m.unihash)}
  IN  /\ Starts(k, "report-equiv") /\ ~ReadOnly
      /\ db' = table
      /\ now' = IF taken THEN now ELSE now + 1
      /\ Reply(k, {r.unihash : r \in TaskQuery(table, m.taskhash)})
      /\ UNCHANGED <<up, call, queue, unfinished, worker, srv>>

\* A read-only server has no handler for the requests that write: ClientError
Unrecognized(k) ==
  /\ conn[k].pc = "start" /\ ReadOnly
  /\ conn[k].msg.kind \in {"report", "report-equiv", "backfill-wait"}
  /\ Raise(k)
  /\ UNCHANGED <<db, up, now, queue, unfinished, worker, srv>>

-----------------------------------------------------------------------------
(* handle_report *)

\* Mutant: INSERT OR IGNORE, as handle_equivreport does
FinishReportIgnoring(k, table, found) ==
  LET m == conn[k].msg
  IN  \/ /\ \E r \in found : r.taskhash = m.taskhash /\ Reply(k, {r.unihash})
         /\ db' = table
         /\ UNCHANGED <<now, call>>
      \/ /\ \A r \in found : r.taskhash # m.taskhash
         /\ \E u \in StoredUnihash(m, found) :
              /\ db' = IF KeyTaken(table, m.outhash, m.taskhash)
                       THEN table
                       ELSE table \cup {NewRow(m.outhash, m.taskhash, u)}
              /\ Reply(k, {u})
         /\ now' = now + 1
         /\ UNCHANGED call

\* From the row found (locally, or copied into table from upstream) to the reply.
\* A plain INSERT of a key that is already there raises IntegrityError.
FinishReport(k, table, found) ==
  LET m == conn[k].msg
  IN  \/ /\ \E r \in found : r.taskhash = m.taskhash /\ Reply(k, {r.unihash})
         /\ db' = table
         /\ UNCHANGED <<now, call>>
      \/ /\ \A r \in found : r.taskhash # m.taskhash
         /\ ~KeyTaken(table, m.outhash, m.taskhash)
         /\ \E u \in StoredUnihash(m, found) :
              /\ db' = table \cup {NewRow(m.outhash, m.taskhash, u)}
              /\ Reply(k, {u})
         /\ now' = now + 1
         /\ UNCHANGED call
      \/ /\ \A r \in found : r.taskhash # m.taskhash
         /\ KeyTaken(table, m.outhash, m.taskhash)
         /\ db' = table
         /\ Raise(k)
         /\ UNCHANGED now

ReportLocal(k) ==
  LET m     == conn[k].msg
      found == OuthashQuery(db, m.outhash, m.taskhash)
  IN  /\ Starts(k, "report") /\ ~ReadOnly
      /\ found # {} \/ ~HasUpstream
      /\ FinishReport(k, db, found)
      /\ UNCHANGED <<up, queue, unfinished, worker, srv>>

ReportAsk(k) ==
  LET m == conn[k].msg
  IN  /\ Starts(k, "report") /\ HasUpstream
      /\ OuthashQuery(db, m.outhash, m.taskhash) = {}
      /\ Await(k, "rep_ask")
      /\ UNCHANGED <<db, up, now, call, queue, unfinished, worker, srv>>

\* The upstream server's handle_get_outhash
ReportAnswer(k) ==
  LET m == conn[k].msg
  IN  /\ conn[k].pc = "rep_ask"
      /\ conn' = [conn EXCEPT ![k].pc = "rep_got",
                              ![k].found = OuthashQuery(up, m.outhash, m.taskhash)]
      /\ UNCHANGED <<db, up, now, call, queue, unfinished, worker, srv>>

\* copy_outhash_from_upstream after its await, and the rest of handle_report
ReportResume(k) ==
  LET found == conn[k].found
  IN  /\ conn[k].pc = "rep_got"
      /\ IF \E r \in found : KeyTaken(db, r.outhash, r.taskhash)
         THEN Raise(k) /\ UNCHANGED <<db, now>>
         ELSE FinishReport(k, db \cup found, found)
      /\ UNCHANGED <<up, queue, unfinished, worker, srv>>

-----------------------------------------------------------------------------
(* handle_get through the upstream server: copy_from_upstream *)

GetAsk(k) ==
  /\ Starts(k, "get") /\ HasUpstream
  /\ TaskQuery(db, conn[k].msg.taskhash) = {}
  /\ Await(k, "get_ask")
  /\ UNCHANGED <<db, up, now, call, queue, unfinished, worker, srv>>

\* Mutant: the upstream's query has no ORDER BY
GetAnswerAny(k) ==
  /\ conn[k].pc = "get_ask"
  /\ \E r \in {q \in up : q.taskhash = conn[k].msg.taskhash} :
       conn' = [conn EXCEPT ![k].pc = "get_got", ![k].found = {r}]
  /\ UNCHANGED <<db, up, now, call, queue, unfinished, worker, srv>>

GetAnswer(k) ==
  /\ conn[k].pc = "get_ask"
  /\ conn' = [conn EXCEPT ![k].pc = "get_got",
                          ![k].found = TaskQuery(up, conn[k].msg.taskhash)]
  /\ UNCHANGED <<db, up, now, call, queue, unfinished, worker, srv>>

GetResume(k) ==
  LET found == conn[k].found
  IN  /\ conn[k].pc = "get_got"
      /\ IF \E r \in found : KeyTaken(db, r.outhash, r.taskhash)
         THEN Raise(k) /\ UNCHANGED db
         ELSE db' = db \cup found /\ Reply(k, {r.unihash : r \in found}) /\ UNCHANGED call
      /\ UNCHANGED <<up, now, queue, unfinished, worker, srv>>

-----------------------------------------------------------------------------
(* handle_get_stream through the upstream server, and the backfill queue *)

StreamAsk(k) ==
  /\ Starts(k, "get-stream") /\ HasUpstream
  /\ TaskQuery(db, conn[k].msg.taskhash) = {}
  /\ Await(k, "str_ask")
  /\ UNCHANGED <<db, up, now, call, queue, unfinished, worker, srv>>

StreamAnswer(k) ==
  /\ conn[k].pc = "str_ask"
  /\ conn' = [conn EXCEPT ![k].pc = "str_got",
                          ![k].found = TaskQuery(up, conn[k].msg.taskhash)]
  /\ UNCHANGED <<db, up, now, call, queue, unfinished, worker, srv>>

\* The reply is written; the queue is fed only after writer.drain() returns
StreamReply(k) ==
  LET found == conn[k].found
  IN  /\ conn[k].pc = "str_got"
      /\ IF found = {}
         THEN Reply(k, {})
         ELSE conn' = [conn EXCEPT ![k].pc = "str_put", ![k].found = {},
                                   ![k].reply = {r.unihash : r \in found}]
      /\ UNCHANGED <<db, up, now, call, queue, unfinished, worker, srv>>

StreamPut(k) ==
  /\ conn[k].pc = "str_put"
  /\ queue' = Append(queue, {conn[k].msg.taskhash})
  /\ unfinished' = unfinished + 1
  /\ Reply(k, conn[k].reply)
  /\ UNCHANGED <<db, up, now, call, worker, srv>>

\* The taskhashes that join() is to wait for
Outstanding ==
  (UNION Range(queue))
    \cup (IF worker.pc \in {"ask", "got", "dead"} THEN {worker.taskhash} ELSE {})

\* handle_backfill_wait
BackfillWait(k) ==
  /\ Starts(k, "backfill-wait") /\ ~ReadOnly
  /\ IF unfinished = 0
     THEN Reply(k, {})
     ELSE conn' = [conn EXCEPT ![k].pc = "join", ![k].pending = Outstanding]
  /\ UNCHANGED <<db, up, now, call, queue, unfinished, worker, srv>>

\* task_done(): the last one wakes every join()
TaskDone ==
  /\ unfinished' = unfinished - 1
  /\ conn' = [k \in Conns |->
                IF unfinished = 1 /\ conn[k].pc = "join"
                THEN IF conn[k].client = NoClient
                     THEN Free
                     ELSE [conn[k] EXCEPT !.pc = "replied"]
                ELSE conn[k]]

-----------------------------------------------------------------------------
(* The backfill worker *)

\* Mutant: task_done() as soon as an item is taken, before it is copied
WorkerGetDone ==
  /\ srv # "down" /\ HasUpstream /\ worker.pc = "idle" /\ queue # <<>>
  /\ queue' = Tail(queue)
  /\ TaskDone
  /\ \/ /\ Head(queue) = Sentinel
        /\ worker' = [NoWork EXCEPT !.pc = "stopped"]
     \/ \E t \in Head(queue) : worker' = [NoWork EXCEPT !.pc = "ask", !.taskhash = t]
  /\ UNCHANGED <<db, up, now, call, srv>>

WorkerGet ==
  /\ srv # "down" /\ HasUpstream /\ worker.pc = "idle" /\ queue # <<>>
  /\ queue' = Tail(queue)
  /\ \/ /\ Head(queue) = Sentinel
        /\ worker' = [NoWork EXCEPT !.pc = "stopped"]
        /\ TaskDone
     \/ \E t \in Head(queue) :
          /\ worker' = [NoWork EXCEPT !.pc = "ask", !.taskhash = t]
          /\ UNCHANGED <<conn, unfinished>>
  /\ UNCHANGED <<db, up, now, call, srv>>

WorkerAnswer ==
  /\ worker.pc = "ask"
  /\ worker' = [worker EXCEPT !.pc = "got", !.found = TaskQuery(up, worker.taskhash)]
  /\ UNCHANGED <<db, up, now, conn, call, queue, unfinished, srv>>

WorkerStore ==
  /\ worker.pc = "got"
  /\ \A r \in worker.found : ~KeyTaken(db, r.outhash, r.taskhash)
  /\ db' = db \cup worker.found
  /\ worker' = NoWork
  /\ TaskDone
  /\ UNCHANGED <<up, now, call, queue, srv>>

\* Nothing catches the IntegrityError of copy_from_upstream: the task ends
WorkerDies ==
  /\ worker.pc = "got"
  /\ \E r \in worker.found : KeyTaken(db, r.outhash, r.taskhash)
  /\ worker' = [worker EXCEPT !.pc = "dead", !.found = {}]
  /\ UNCHANGED <<db, up, now, conn, call, queue, unfinished, srv>>

-----------------------------------------------------------------------------
(* Other servers, which run the same code: the upstream, or the file's owner *)

UpReport(m) ==
  LET found == OuthashQuery(up, m.outhash, m.taskhash)
  IN  /\ HasUpstream /\ m.kind = "report"
      /\ \A r \in found : r.taskhash # m.taskhash
      /\ \E u \in StoredUnihash(m, found) :
           up' = up \cup {NewRow(m.outhash, m.taskhash, u)}
      /\ now' = now + 1
      /\ UNCHANGED <<db, conn, call, queue, unfinished, worker, srv>>

UpEquivReport(m) ==
  /\ HasUpstream /\ m.kind = "report-equiv" /\ ~KeyTaken(up, NoOut, m.taskhash)
  /\ up' = up \cup {NewRow(NoOut, m.taskhash, m.unihash)}
  /\ now' = now + 1
  /\ UNCHANGED <<db, conn, call, queue, unfinished, worker, srv>>

\* tests.py test_ro_server: another server of the same file stores a report
OwnerReport(m) ==
  /\ ReadOnly /\ m.kind = "report" /\ ~KeyTaken(db, m.outhash, m.taskhash)
  /\ \E u \in StoredUnihash(m, OuthashQuery(db, m.outhash, m.taskhash)) :
       db' = db \cup {NewRow(m.outhash, m.taskhash, u)}
  /\ now' = now + 1
  /\ UNCHANGED <<up, conn, call, queue, unfinished, worker, srv>>

OwnerEquivReport(m) ==
  /\ ReadOnly /\ m.kind = "report-equiv" /\ ~KeyTaken(db, NoOut, m.taskhash)
  /\ db' = db \cup {NewRow(NoOut, m.taskhash, m.unihash)}
  /\ now' = now + 1
  /\ UNCHANGED <<up, conn, call, queue, unfinished, worker, srv>>

\* The upstream cannot be reached: ConnectionError after its client's retries
UpstreamFails(k) ==
  /\ "upstream" \in Faults
  /\ conn[k].pc \in {"get_ask", "rep_ask", "str_ask"}
  /\ Raise(k)
  /\ UNCHANGED <<db, up, now, queue, unfinished, worker, srv>>

WorkerUpstreamFails ==
  /\ "upstream" \in Faults /\ worker.pc = "ask"
  /\ worker' = [worker EXCEPT !.pc = "dead"]
  /\ UNCHANGED <<db, up, now, conn, call, queue, unfinished, srv>>

-----------------------------------------------------------------------------
(* The server process *)

\* The process is gone: sockets close and the queue is lost, the file stays
Gone ==
  /\ srv' = "down"
  /\ conn' = [k \in Conns |-> Free]
  /\ call' = [c \in Clients |-> IF call[c].st = "wait" THEN Retry(call[c]) ELSE call[c]]
  /\ queue' = <<>> /\ unfinished' = 0 /\ worker' = NoWork
  /\ UNCHANGED <<db, up, now>>

Kill == "kill" \in Faults /\ srv # "down" /\ Gone

\* SIGTERM without upstream: the loop stops and nothing is waited for
Stop == "stop" \in Faults /\ srv = "up" /\ ~HasUpstream /\ Gone

\* SIGTERM with upstream: join_worker puts the sentinel and runs the loop on
Drain ==
  /\ "stop" \in Faults /\ srv = "up" /\ HasUpstream
  /\ srv' = "draining"
  /\ queue' = Append(queue, Sentinel)
  /\ unfinished' = unfinished + 1
  /\ UNCHANGED <<db, up, now, conn, call, worker>>

\* Mutant: join_worker puts the sentinel and does not await the worker
DrainedAtOnce == srv = "draining" /\ Gone

Drained == srv = "draining" /\ worker.pc \in {"stopped", "dead"} /\ Gone

Start ==
  /\ srv = "down"
  /\ srv' = "up"
  /\ UNCHANGED <<db, up, now, conn, call, queue, unfinished, worker>>

-----------------------------------------------------------------------------
Handler(k) ==
  \/ GetLocal(k) \/ GetOuthash(k) \/ StreamLocal(k) \/ EquivReport(k)
  \/ Unrecognized(k) \/ ReportLocal(k) \/ ReportAsk(k) \/ ReportAnswer(k)
  \/ ReportResume(k) \/ GetAsk(k) \/ GetAnswer(k) \/ GetResume(k)
  \/ StreamAsk(k) \/ StreamAnswer(k) \/ StreamReply(k) \/ StreamPut(k)
  \/ BackfillWait(k)

Worker == WorkerGet \/ WorkerAnswer \/ WorkerStore \/ WorkerDies

Client(c) == (\E k \in Conns : Accept(c, k)) \/ ConnectFails(c) \/ Deliver(c)

Next ==
  \/ \E c \in Clients : Client(c) \/ Timeout(c) \/ Disconnect(c)
                        \/ \E m \in Requests : Call(c, m)
  \/ \E k \in Conns : Handler(k) \/ UpstreamFails(k)
  \/ Worker \/ WorkerUpstreamFails
  \/ \E m \in UpRequests : UpReport(m) \/ UpEquivReport(m)
                            \/ OwnerReport(m) \/ OwnerEquivReport(m)
  \/ Kill \/ Stop \/ Drain \/ Drained \/ Start

\* The event loop runs every task that is ready and the upstream server answers
\* a request it was sent; clients read what arrived, and send_message gives up
\* after its timeout.  Nobody is obliged to make a call or to restart a server.
Fairness ==
  /\ \A k \in Conns : WF_vars(Handler(k))
  /\ WF_vars(Worker)
  /\ WF_vars(Drained)
  /\ \A c \in Clients : WF_vars(Client(c)) /\ WF_vars(Timeout(c))

Spec == Init /\ [][Next]_vars

FairSpec == Spec /\ Fairness
-----------------------------------------------------------------------------
(* Properties *)

\* With an upstream a taskhash can change its unihash under a build that already
\* read it, but only by a row of the upstream server that is older than the
\* row it replaces: copies never install a newer or an invented answer.
UnihashMovesToUpstream ==
  [][\A t \in TaskHashes :
       \A old \in TaskQuery(db, t), new \in TaskQuery(db', t) :
          new # old => new \in up /\ new.created < old.created]_vars

\* tests.py test_duplicate_taskhash: a taskhash keeps "the unihash from the first
\* reported taskhash". Without upstream its answer never changes once there is
\* one, whatever is reported later, and the builds that used it stay valid.
FirstUnihashWins ==
  [][\A t \in TaskHashes :
       TaskQuery(db, t) # {} => TaskQuery(db', t) = TaskQuery(db, t)]_vars

\* tests.py test_create_equivalent: tasks reported with the same outhash are
\* given the same unihash, so that they share what is built from them.
SameOutputSameUnihash ==
  \A r, q \in db : r.outhash = q.outhash /\ r.outhash # NoOut => r.unihash = q.unihash

\* The unihash a report is answered with is in the table under its own key when
\* the answer leaves: the report that _send_wrapper repeats after a lost answer,
\* a timeout or a restart is given the same unihash again.
ReportedIsStored ==
  \A k \in Conns :
    conn[k].pc = "replied" /\ conn[k].msg.kind = "report" =>
      \E r \in db : /\ r.outhash = conn[k].msg.outhash
                    /\ r.taskhash = conn[k].msg.taskhash
                    /\ conn[k].reply = {r.unihash}

\* tests.py test_upstream_server: once backfill-wait is answered, every taskhash
\* that was queued when it was asked is in the local table.
BackfillWaitCovers ==
  \A k \in Conns :
    conn[k].pc = "replied" /\ conn[k].msg.kind = "backfill-wait" =>
      \A t \in conn[k].pending : TaskQuery(db, t) # {}

\* Queue.join() depends on one task_done() per item, also for the sentinel and
\* for the item the worker holds: no join() waits on an empty count.
JoinCount ==
  /\ unfinished = Len(queue) + (IF worker.pc \in {"ask", "got", "dead"} THEN 1 ELSE 0)
  /\ \A k \in Conns : conn[k].pc = "join" => unfinished > 0

\* tests.py test_upstream_server: "All servers should agree with the originally
\* reported hash": a taskhash the local builders never reported resolves as it
\* does upstream.
ServersAgree ==
  \A t \in TaskHashes :
    LET rows == {r \in db : r.taskhash = t}
    IN  rows # {} /\ rows \subseteq up =>
          {r.unihash : r \in TaskQuery(db, t)} = {r.unihash : r \in TaskQuery(up, t)}

\* Every call of a client comes back, with an answer or with a ConnectionError:
\* the retries are bounded and a lost answer does not block the caller.
CallEnds ==
  \A c \in Clients : call[c].st # "idle" ~> call[c].st = "idle"

\* What the worker still owes: its own item, and the queue ahead of the sentinel
AheadOfSentinel ==
  (IF worker.pc \in {"ask", "got"} THEN {worker.taskhash} ELSE {})
    \cup UNION {queue[i] : i \in {j \in 1..Len(queue) :
                                    /\ worker.pc \notin {"stopped", "dead"}
                                    /\ \A h \in 1..j : queue[h] # Sentinel}}

\* A taskhash whose upstream answer was given to a client, ahead of the sentinel
\* of join_worker, reaches the local table, whether the server goes on or is
\* stopped by SIGTERM and drains.  Only a worker that died on an item before it
\* loses it, with what is still queued behind that item.
BackfillHappens ==
  \A t \in TaskHashes :
    t \in AheadOfSentinel ~>
      TaskQuery(db, t) # {} \/ (worker.pc = "dead" /\ t \in UNION Range(queue))
-----------------------------------------------------------------------------
(* A server without upstream implements Equivalence *)

UnihashOf == [t \in TaskHashes |-> {r.unihash : r \in TaskQuery(db, t)}]

OutputOf == [o \in OutHashes |-> {r.unihash : r \in {q \in db : q.outhash = o}}]

Abstract == INSTANCE Equivalence WITH unihashOf <- UnihashOf, outputOf <- OutputOf

\* Every step of the server, its crashes and its clients' retries is a step of
\* Equivalence or changes none of its answers.
ImplementsEquivalence == Abstract!ASpec
-----------------------------------------------------------------------------
(* What the properties above rest on: the inductive invariant of the proofs *)

\* The clock has passed every row, and a row of both tables is the same row
Stamps ==
  /\ \A r \in db \cup up : r.created < now
  /\ \A r, q \in db \cup up : r.created = q.created => r = q

\* What a handler or the worker holds came from the upstream server
FoundUpstream == (\A k \in Conns : conn[k].found \subseteq up) /\ worker.found \subseteq up

\* Without upstream nobody waits for it
NoUpstreamWait ==
  ~HasUpstream =>
    /\ \A k \in Conns : /\ conn[k].pc \in {"free", "start", "join", "replied"}
                         /\ conn[k].found = {}
    /\ worker.pc \in {"idle", "stopped"} /\ worker.found = {}

\* Where a handler can be in its code, from the request it was given
HandlerOf ==
  \A k \in Conns :
    /\ conn[k].pc \in {"get_ask", "get_got"} => conn[k].msg.kind = "get"
    /\ conn[k].pc \in {"rep_ask", "rep_got"} => conn[k].msg.kind = "report"
    /\ conn[k].pc = "rep_got" =>
         \A r \in conn[k].found : r.outhash = conn[k].msg.outhash
    /\ conn[k].pc \in {"str_ask", "str_got", "str_put"} => conn[k].msg.kind = "get-stream"
    /\ conn[k].pc = "join" => conn[k].msg.kind = "backfill-wait"

Inductive ==
  /\ TypeOK /\ JoinCount /\ Stamps /\ FoundUpstream /\ NoUpstreamWait
  /\ HandlerOf /\ ReportedIsStored
=============================================================================
