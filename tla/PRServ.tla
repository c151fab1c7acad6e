------------------------------- MODULE PRServ -------------------------------
(***************************************************************************)
(* The PR server of BitBake (lib/prserv): daemons that hand out package    *)
(* revisions from one sqlite file, their start and their end.  The clients *)
(* are the asyncrpc clients of HashServ; a call that is repeated after a   *)
(* timeout or a broken connection is one more request here.                *)
(*                                                                         *)
(* A handler of the PR server has no await, so a daemon works on one       *)
(* request at a time; what the model splits are the points where another  *)
(* process, the file lock or a kill can come between: the SELECT, the      *)
(* INSERT that starts a transaction, the reply, COMMIT and BEGIN EXCLUSIVE.*)
(*                                                                         *)
(* Abstractions.  Rows of different (version, pkgarch) never meet in a     *)
(* query, so the table of one of them is modelled.  The file lock is       *)
(* `owner': the process whose transaction is open.  Waiting on a locked    *)
(* file is a step that is not enabled until the lock is free, or a timeout *)
(* instead of it.  The pidfile only tells the start and stop commands which*)
(* process there is, and races between them make it wrong: daemons start   *)
(* and get a SIGTERM at any time here.                                     *)
(***************************************************************************)
EXTENDS Naturals

CONSTANTS Checksums,
          Ports,
          Daemons,      \* server processes, each started at most once
          Port,         \* Port[d]: the port d is told to listen on
          ReadOnly,     \* daemons started with --read-only
          Requests,     \* what clients ask for
          MaxValue,     \* bound: nobody asks once a row has this value
          Kills,        \* bound: how many daemons are killed
          None          \* no process, no request, JSON null

Ops == {"get-pr", "import-one", "export"}
Request == [op : Ops, checksum : Checksums, value : Nat]
Row == [checksum : Checksums, value : Nat]
Steps == {"lookup", "insert", "commit", "begin"}
Job == [req : Request, step : Steps, resets : BOOLEAN]
         \cup [req : {None}, step : {"commit", "begin"}, resets : {FALSE}]
Lives == {"new", "bound", "up", "stopping", "closing", "ended"}

ASSUME PortAssumption == Port \in [Daemons -> Ports] /\ ReadOnly \subseteq Daemons
ASSUME RequestsAssumption == Requests \subseteq Request
ASSUME BoundsAssumption == MaxValue \in Nat /\ Kills \in Nat
ASSUME NoneAssumption == None \notin Daemons /\ None \notin Request \cup Job

VARIABLES
  file,      \* committed rows
  work,      \* rows as the open transaction sees them
  owner,     \* the daemon whose transaction is open
  dirty,     \* PRTable.dirty
  life,      \* where each daemon is between its start and its end
  job,       \* the request each daemon works on and the step it is at
  kills,     \* daemons killed so far
  given,     \* history: answers of get-pr and export by daemons that can write,
             \* less those whose rows went with a killed daemon
  last,      \* history: the value answered last
  risk,      \* history: answers sent whose rows are not committed
  imported   \* history: values that were imported

store == <<file, work, owner, dirty>>
daemon == <<life, kills>>
history == <<given, last, risk, imported>>
vars == <<store, daemon, job, history>>

-----------------------------------------------------------------------------
(* The table *)

\* The rows a process that is not locked out sees
Table == IF owner = None THEN file ELSE work

Unlocked(d) == owner \in {d, None}

\* SELECT ... WHERE value >= (SELECT max(value) ...)
Top(rows) == {r \in rows : \A q \in rows : q.value <= r.value}

\* Mutant: max(value) without the + 1
NextValueSame(rows) == IF rows = {} THEN {0} ELSE {r.value : r \in Top(rows)}

\* SELECT ifnull(max(value)+1, 0), as a set of one value
NextValue(rows) == IF rows = {} THEN {0} ELSE {r.value + 1 : r \in Top(rows)}

\* INSERT OR REPLACE
Replace(rows, c, v) == {r \in rows : r.checksum # c} \cup {[checksum |-> c, value |-> v]}

\* INSERT, and on a duplicate key UPDATE ... WHERE value < v
Import(rows, c, v) ==
  IF \E r \in rows : r.checksum = c /\ r.value >= v THEN rows ELSE Replace(rows, c, v)

-----------------------------------------------------------------------------
Init ==
  /\ file = {} /\ work = {} /\ owner = None
  /\ dirty = [d \in Daemons |-> FALSE]
  /\ life = [d \in Daemons |-> "new"]
  /\ job = [d \in Daemons |-> None]
  /\ kills = 0
  /\ given = {} /\ last = 0 /\ risk = {} /\ imported = {}

Listening(d) == life[d] \in {"bound", "up", "stopping"}
Serving(d) == life[d] \in {"up", "stopping"}
Alive(d) == life[d] \notin {"new", "ended"}

-----------------------------------------------------------------------------
(* Handlers *)

\* A message is read from some connection; an import starts with its INSERT
Dispatch(d) ==
  /\ Serving(d) /\ job[d] = None
  /\ \A r \in Table : r.value < MaxValue
  /\ \E req \in Requests :
       job' = [job EXCEPT ![d] =
         [req |-> req, resets |-> TRUE,
          step |-> IF req.op = "import-one" /\ d \notin ReadOnly THEN "insert" ELSE "lookup"]]
  /\ UNCHANGED <<store, daemon, history>>

\* Mutant: dispatch_message without sync_if_dirty
ReplyOnly(d, isDirty) ==
  /\ job' = [job EXCEPT ![d] = None]
  /\ UNCHANGED daemon

\* write_message, then sync_if_dirty: the reply is out before the commit
Reply(d, isDirty) ==
  /\ job' = [job EXCEPT ![d] = IF isDirty THEN [@ EXCEPT !.step = "commit"] ELSE None]
  /\ UNCHANGED daemon

Tell(d, rows) ==
  /\ given' = IF d \in ReadOnly THEN given ELSE given \cup rows
  /\ last' = IF d \in ReadOnly \/ rows = {} THEN last
             ELSE CHOOSE v \in {r.value : r \in rows} : TRUE
  /\ risk' = IF d \in ReadOnly THEN risk ELSE risk \cup (rows \ file)

\* Mutant: the SELECT without AND value >= max(value)
FoundAny(d) ==
  /\ job[d] # None /\ job[d].step = "lookup" /\ Unlocked(d)
  /\ job[d].req.op = "get-pr"
  /\ \E r \in Table : /\ r.checksum = job[d].req.checksum
                      /\ Tell(d, {r})
  /\ Reply(d, dirty[d])
  /\ UNCHANGED <<store, imported>>

\* getValue's SELECT: the row of this checksum, if it has the maximum
Found(d) ==
  /\ job[d] # None /\ job[d].step = "lookup" /\ Unlocked(d)
  /\ job[d].req.op = "get-pr"
  /\ \E r \in Top(Table) : /\ r.checksum = job[d].req.checksum
                           /\ Tell(d, {r})
  /\ Reply(d, dirty[d])
  /\ UNCHANGED <<store, imported>>

NotFound(d) ==
  /\ job[d] # None /\ job[d].step = "lookup" /\ Unlocked(d)
  /\ job[d].req.op = "get-pr"
  /\ \A r \in Top(Table) : r.checksum # job[d].req.checksum

\* A read-only server answers what the next value would be
NotFoundReadOnly(d) ==
  /\ NotFound(d) /\ d \in ReadOnly
  /\ Reply(d, FALSE)
  /\ UNCHANGED <<store, history>>

\* Otherwise the INSERT is next; without a transaction others may come between
NotFoundInserts(d) ==
  /\ NotFound(d) /\ d \notin ReadOnly
  /\ job' = [job EXCEPT ![d].step = "insert"]
  /\ UNCHANGED <<store, daemon, history>>

\* getValue's INSERT OR REPLACE, its SELECT and the reply
Insert(d) ==
  /\ job[d] # None /\ job[d].step = "insert" /\ Unlocked(d)
  /\ job[d].req.op = "get-pr"
  /\ \E v \in NextValue(Table) :
       LET row == [checksum |-> job[d].req.checksum, value |-> v]
       IN  /\ work' = Replace(Table, row.checksum, v)
           /\ Tell(d, {row})
  /\ owner' = d
  /\ dirty' = [dirty EXCEPT ![d] = TRUE]
  /\ Reply(d, TRUE)
  /\ UNCHANGED <<file, imported>>

\* _importNohist and the reply: the value the row has then, the larger of the two.
\* Imports are not answers: given and last do not have these replies.
ImportOne(d) ==
  /\ job[d] # None /\ job[d].step = "insert" /\ Unlocked(d)
  /\ job[d].req.op = "import-one"
  /\ work' = Import(Table, job[d].req.checksum, job[d].req.value)
  /\ imported' = imported \cup {job[d].req.value}
  /\ owner' = d
  /\ dirty' = [dirty EXCEPT ![d] = TRUE]
  /\ Reply(d, TRUE)
  /\ UNCHANGED <<file, given, last, risk>>

ImportReadOnly(d) ==
  /\ job[d] # None /\ job[d].step = "lookup" /\ d \in ReadOnly
  /\ job[d].req.op = "import-one"
  /\ Reply(d, FALSE)
  /\ UNCHANGED <<store, history>>

\* export: the rows that have the maximum
Export(d) ==
  /\ job[d] # None /\ job[d].step = "lookup" /\ Unlocked(d)
  /\ job[d].req.op = "export"
  /\ Tell(d, Top(Table))
  /\ Reply(d, dirty[d])
  /\ UNCHANGED <<store, imported>>

\* 20 seconds of "database is locked".  get-pr and export answer null ...
Locked(d) ==
  /\ job[d] # None /\ job[d].step \in {"lookup", "insert"} /\ ~Unlocked(d)
  /\ job[d].req.op # "import-one"
  /\ Reply(d, dirty[d])
  /\ UNCHANGED <<store, history>>

\* ... import-one raises: table.sync(), and the connection is closed
LockedRaises(d) ==
  /\ job[d] # None /\ job[d].step = "insert" /\ ~Unlocked(d)
  /\ job[d].req.op = "import-one"
  /\ job' = [job EXCEPT ![d] = [@ EXCEPT !.step = "commit", !.resets = FALSE]]
  /\ UNCHANGED <<store, daemon, history>>

-----------------------------------------------------------------------------
(* sync: commit, and a new exclusive transaction *)

\* conn.commit() of a process that may have no transaction open
CommitOf(d) ==
  /\ file' = IF owner = d THEN work ELSE file
  /\ owner' = IF owner = d THEN None ELSE owner
  /\ risk' = IF owner = d THEN {} ELSE risk

\* The end of a connection: what it did not commit is gone
Rollback(d) ==
  /\ work' = IF owner = d THEN file ELSE work
  /\ owner' = IF owner = d THEN None ELSE owner
  /\ risk' = IF owner = d THEN {} ELSE risk

Commit(d) ==
  /\ job[d] # None /\ job[d].step = "commit"
  /\ CommitOf(d)
  /\ job' = [job EXCEPT ![d].step = "begin"]
  /\ UNCHANGED <<work, dirty, daemon, given, last, imported>>

\* BEGIN EXCLUSIVE.  sync_if_dirty resets dirty; sync alone is called where a
\* handler raised, whose connection is closed, and by the signal handler.
SyncEnds(d) ==
  /\ job' = [job EXCEPT ![d] = None]
  /\ UNCHANGED <<file, daemon, history>>

Begin(d) ==
  /\ job[d] # None /\ job[d].step = "begin" /\ owner = None
  /\ owner' = d /\ work' = file
  /\ dirty' = [dirty EXCEPT ![d] = @ /\ ~job[d].resets]
  /\ SyncEnds(d)

\* Another process took the lock and kept it: the exception ends the sync only
BeginLocked(d) ==
  /\ job[d] # None /\ job[d].step = "begin" /\ ~Unlocked(d)
  /\ SyncEnds(d)
  /\ UNCHANGED <<work, owner, dirty>>

-----------------------------------------------------------------------------
(* Starting and stopping a daemon *)

PortTaken(d) == \E e \in Daemons : Port[e] = Port[d] /\ Listening(e)

\* The forked process binds its port, or dies of an exception
StartDaemon(d) ==
  /\ life[d] = "new"
  /\ life' = [life EXCEPT ![d] = IF PortTaken(d) THEN "ended" ELSE "bound"]
  /\ UNCHANGED <<store, kills, job, history>>

\* A process ends: its connections close
Ends(d) ==
  /\ life' = [life EXCEPT ![d] = "ended"]
  /\ dirty' = [dirty EXCEPT ![d] = FALSE]
  /\ job' = [job EXCEPT ![d] = None]

\* PRData and PRTable; a file that stays locked ends the daemon
OpenTable(d) ==
  /\ life[d] = "bound" /\ owner = None
  /\ life' = [life EXCEPT ![d] = "up"]
  /\ UNCHANGED <<store, kills, job, history>>

OpenLocked(d) ==
  /\ life[d] = "bound" /\ owner # None
  /\ Ends(d)
  /\ UNCHANGED <<file, work, owner, kills, history>>

\* SIGTERM, from stop_daemon or auto_shutdown, before the loop has its handler
DiesEarly(d) ==
  /\ life[d] = "bound"
  /\ Ends(d)
  /\ UNCHANGED <<file, work, owner, kills, history>>

\* Mutant: sync without the read_only check
SignalHandlerSyncs(d) ==
  /\ life[d] = "up" /\ job[d] = None
  /\ life' = [life EXCEPT ![d] = "stopping"]
  /\ job' = [job EXCEPT ![d] = [req |-> None, step |-> "commit", resets |-> FALSE]]
  /\ UNCHANGED <<store, kills, history>>

\* SIGTERM's signal_handler: loop.stop(), and table.sync() for a server that can write
SignalHandler(d) ==
  /\ life[d] = "up" /\ job[d] = None
  /\ life' = [life EXCEPT ![d] = "stopping"]
  /\ job' = [job EXCEPT ![d] = IF d \in ReadOnly THEN None ELSE
                              [req |-> None, step |-> "commit", resets |-> FALSE]]
  /\ UNCHANGED <<store, kills, history>>

\* run_forever has returned.  wait_closed may still let a handler that is ready run;
\* such a last turn is taken before this step.
StopListening(d) ==
  /\ life[d] = "stopping" /\ job[d] = None
  /\ life' = [life EXCEPT ![d] = "closing"]
  /\ UNCHANGED <<store, kills, job, history>>

\* sync_if_dirty, disconnect (a rollback)
Exit(d) ==
  /\ life[d] = "closing"
  /\ IF dirty[d] THEN CommitOf(d) /\ UNCHANGED work ELSE Rollback(d) /\ UNCHANGED file
  /\ Ends(d)
  /\ UNCHANGED <<kills, given, last, imported>>

\* A BEGIN that stays locked ends it with an exception instead
ExitRaises(d) ==
  /\ life[d] = "closing" /\ dirty[d] /\ ~Unlocked(d)
  /\ Ends(d)
  /\ UNCHANGED <<file, work, owner, kills, history>>

Kill(d) ==
  /\ kills < Kills /\ Alive(d)
  /\ kills' = kills + 1
  /\ Ends(d)
  /\ Rollback(d)
  /\ given' = IF owner = d THEN given \ risk ELSE given
  /\ UNCHANGED <<file, last, imported>>

-----------------------------------------------------------------------------
Handler(d) ==
  \/ Dispatch(d) \/ Found(d) \/ NotFoundReadOnly(d) \/ NotFoundInserts(d)
  \/ Insert(d) \/ ImportOne(d) \/ ImportReadOnly(d) \/ Export(d)
  \/ Locked(d) \/ LockedRaises(d)
  \/ Commit(d) \/ Begin(d) \/ BeginLocked(d)

Lifecycle(d) ==
  \/ OpenTable(d) \/ OpenLocked(d)
  \/ DiesEarly(d) \/ SignalHandler(d) \/ StopListening(d) \/ Exit(d) \/ ExitRaises(d)

Next ==
  \E d \in Daemons :
    Handler(d) \/ Lifecycle(d) \/ StartDaemon(d) \/ Kill(d)

Spec == Init /\ [][Next]_vars

-----------------------------------------------------------------------------
(* Correctness *)

\* Types; a daemon that can only read never has a transaction.
TypeOK ==
  /\ file \subseteq Row /\ work \subseteq Row
  /\ owner \in (Daemons \ ReadOnly) \cup {None}
  /\ dirty \in [Daemons -> BOOLEAN]
  /\ life \in [Daemons -> Lives]
  /\ job \in [Daemons -> Job \cup {None}]
  /\ kills \in Nat
  /\ given \subseteq Row /\ risk \subseteq Row
  /\ last \in Nat /\ imported \subseteq Nat

\* "The PR value returned can NOT be decremented" (db.py:25): whichever of the
\* daemons that can write answers a get-pr or an export, the latest answer is the
\* highest, but for answers whose rows a kill destroyed before they were committed.
\* What a read-only daemon answers is stored nowhere and may be answered again.
NeverDecreases == \A r \in given : r.value <= last

\* One value is never given to two checksums unless it was imported, which is how
\* somebody outside can make two checksums share one.
ValuesDistinct ==
  \A r, q \in given :
    r.value = q.value /\ r.checksum # q.checksum => r.value \in imported

\* Replies leave before the commit, but at most one is ahead of the file: that of
\* the process that is about to commit.  Everything else survives any kill.
OneAnswerAtRisk ==
  /\ \A r, q \in risk : r = q
  /\ risk # {} => owner # None /\ job[owner] # None /\ job[owner].step = "commit"
  /\ \A r \in given \ risk : \E q \in file : q.value >= r.value

\* Committed rows never go and their values never go down.
FileGrows ==
  [][\A r \in file : \E q \in file' : q.checksum = r.checksum /\ q.value >= r.value]_vars
=============================================================================
