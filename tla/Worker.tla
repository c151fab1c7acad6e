------------------------------- MODULE Worker -------------------------------
(***************************************************************************)
(* One bitbake-worker (bin/bitbake-worker), the processes it forks for     *)
(* tasks, and the end of its two pipes in the server (RunQueue and         *)
(* runQueuePipe in lib/bb/runqueue.py).  Commands go down one pipe, events *)
(* and exit codes come up the other.  A task sends its events through a    *)
(* pipe of its own, and its exit code is found by waitpid(): the worker    *)
(* has to put the two in order.  Pipes have a limited capacity and the     *)
(* server's writes block; the worker writes from a thread of its own.      *)
(*                                                                         *)
(* Abstractions.  A message that has only come in part has not come.       *)
(* cookerconfig, extraconfigdata and workerdata were sent when the worker  *)
(* started; ping only logs.  A task fires the same number of events        *)
(* whatever becomes of it, and dies of SIGTERM at once once it has its     *)
(* handler.  A signal may come between any two steps of the worker.        *)
(***************************************************************************)
EXTENDS Naturals, Sequences, FiniteSets

CONSTANTS Tasks,
          Events,     \* how many events each task fires
          Hashes,     \* bound: how often the server sends new hashes
          TaskRoom,   \* events that fit the pipe of a task
          Room,       \* commands that fit the worker's stdin
          Answers,    \* events and exit codes that fit its stdout
          Faults,     \* which of "server", "worker" are killed, "term" for SIGTERM
          None

ASSUME BoundsAssumption ==
  /\ Events \in [Tasks -> Nat] /\ Hashes \in Nat /\ Room \in Nat
  /\ TaskRoom \in Nat /\ Answers \in Nat
ASSUME NoneAssumption == None \notin Nat /\ None \notin Tasks
ASSUME FiniteAssumption == IsFiniteSet(Tasks)

VARIABLES
  server,     \* "build", "teardown", "done", or "dead"
  version,    \* newtaskhashes messages written so far
  sent,       \* for each task the version when it was sent, or None
  unsent,     \* what is in the buffer of process.stdin
  seen,       \* the events of each task the server has read
  answered,   \* tasks whose exit code it has read
  stdin, closed,
  pc,         \* where the worker's main thread is
  kind,       \* the handle_item() call in which it is, 0 before the first
  queue,      \* commands it has read
  has,        \* the hashes it has
  left,       \* tasks handle_finishnow() has not come to
  build_pids,
  reaped,     \* what waitpid() returned, or None
  broken,     \* serve() was left by an exception nobody expected
  proc,       \* task processes: "none", "forked", "guarded" (dies with its
              \* parent), "running" (in its own process group), "exited", "gone"
  fired,      \* the events a task has written to its pipe
  passed,     \* those of them the worker has read
  out,        \* worker_queue: <<task, n>> for its n-th event, 0 for its exit code
  stdout

upper == <<server, version, sent, unsent, seen, answered>>
main == <<pc, kind, queue, has, left, build_pids, reaped, broken>>
tasks == <<proc, fired, passed>>
vars == <<upper, stdin, closed, main, tasks, out, stdout>>

Kinds == <<"newtaskhashes", "runtask", "finishnow", "quit">>
Rank(m) == CHOOSE i \in DOMAIN Kinds : Kinds[i] = m.kind
RunTask(t) == [kind |-> "runtask", task |-> t]
NewTaskHashes(v) == [kind |-> "newtaskhashes", version |-> v]
FinishNow == [kind |-> "finishnow"]
Quit == [kind |-> "quit"]

Init ==
  /\ server = "build" /\ version = 0 /\ unsent = <<>> /\ answered = {}
  /\ sent = [t \in Tasks |-> None] /\ seen = [t \in Tasks |-> 0]
  /\ stdin = <<>> /\ closed = FALSE
  /\ pc = "select" /\ kind = 0 /\ queue = <<>> /\ has = 0
  /\ left = {} /\ build_pids = {} /\ reaped = None /\ broken = FALSE
  /\ proc = [t \in Tasks |-> "none"]
  /\ fired = [t \in Tasks |-> 0] /\ passed = [t \in Tasks |-> 0]
  /\ out = <<>> /\ stdout = <<>>

-----------------------------------------------------------------------------
(* The server *)

\* newtaskhashes is written without a flush; everything else is flushed, and
\* the server waits until it has gone.
Flushing == \E i \in DOMAIN unsent : unsent[i].kind # "newtaskhashes"
Idle == server = "build" /\ ~Flushing

SendTask(t) ==
  /\ Idle /\ sent[t] = None
  /\ sent' = [sent EXCEPT ![t] = version]
  /\ unsent' = Append(unsent, RunTask(t))
  /\ UNCHANGED <<server, version, seen, answered, stdin, closed, main, tasks, out, stdout>>

\* process_possible_migrations()
SendHashes ==
  /\ Idle /\ version < Hashes
  /\ version' = version + 1
  /\ unsent' = Append(unsent, NewTaskHashes(version + 1))
  /\ UNCHANGED <<server, sent, seen, answered, stdin, closed, main, tasks, out, stdout>>

Outstanding == {t \in Tasks : sent[t] # None} \ answered

\* A build that is over, or finish_now(): teardown_workers()
Teardown ==
  /\ Idle
  /\ \/ Outstanding = {} /\ unsent' = Append(unsent, Quit)
     \/ unsent' = unsent \o <<FinishNow, Quit>>
  /\ server' = "teardown"
  /\ UNCHANGED <<version, sent, seen, answered, stdin, closed, main, tasks, out, stdout>>

Write ==
  /\ unsent # <<>> /\ server # "dead"
  /\ pc # "dead" /\ Len(stdin) < Room
  /\ stdin' = Append(stdin, Head(unsent))
  /\ unsent' = Tail(unsent)
  /\ closed' = (Head(unsent) = Quit)
  /\ UNCHANGED <<server, version, sent, seen, answered, main, tasks, out, stdout>>

\* The worker has gone: the pipe is broken, or its end was noticed
WorkerGone ==
  /\ pc = "dead"
  /\ \/ server = "build"
     \/ server = "teardown" /\ unsent # <<>>
  /\ unsent' = <<>> /\ server' = "teardown"
  /\ UNCHANGED <<version, sent, seen, answered, stdin, closed, main, tasks, out, stdout>>

\* Mutant: the worker's last words are not read, only its end is waited for
ReadBefore ==
  /\ server = "build" /\ ~Flushing
  /\ stdout # <<>>
  /\ stdout' = Tail(stdout)
  /\ IF Head(stdout)[2] = 0
     THEN answered' = answered \cup {Head(stdout)[1]} /\ UNCHANGED seen
     ELSE seen' = [seen EXCEPT ![Head(stdout)[1]] = @ + 1] /\ UNCHANGED answered
  /\ UNCHANGED <<server, version, sent, unsent, stdin, closed, main, tasks, out>>

\* runQueuePipe.read()
Read ==
  /\ server \in {"build", "teardown"} /\ ~Flushing
  /\ stdout # <<>>
  /\ LET t == Head(stdout)[1]
         n == Head(stdout)[2]
     IN IF n = 0
        THEN answered' = answered \cup {t} /\ UNCHANGED seen
        ELSE seen' = [seen EXCEPT ![t] = @ + 1] /\ UNCHANGED answered
  /\ stdout' = Tail(stdout)
  /\ UNCHANGED <<server, version, sent, unsent, stdin, closed, main, tasks, out>>

TornDown ==
  /\ server = "teardown" /\ unsent = <<>>
  /\ pc = "dead" /\ stdout = <<>>
  /\ server' = "done"
  /\ UNCHANGED <<version, sent, unsent, seen, answered, stdin, closed, main, tasks, out, stdout>>

KillServer ==
  /\ "server" \in Faults /\ server \in {"build", "teardown"}
  /\ server' = "dead" /\ unsent' = <<>> /\ closed' = TRUE /\ stdout' = <<>>
  /\ UNCHANGED <<version, sent, seen, answered, stdin, main, tasks, out>>

-----------------------------------------------------------------------------
(* The worker's main thread: serve() *)

Unread(t) == fired[t] > passed[t]
Exited == {t \in Tasks : proc[t] = "exited"}

Select ==
  /\ pc = "select"
  /\ \/ stdin # <<>> \/ closed \/ queue # <<>> \/ Exited # {}
     \/ \E t \in build_pids : Unread(t)
  /\ queue' = queue \o stdin /\ stdin' = <<>>
  /\ IF stdin = <<>> /\ closed
     THEN pc' = "dying" /\ left' = build_pids
     ELSE pc' = "items" /\ UNCHANGED left
  /\ UNCHANGED <<upper, closed, kind, has, build_pids, reaped, broken, tasks, out, stdout>>

\* handle_item() looks for the next closing tag of its kind without looking at
\* what the queue now starts with, and what it cuts out is no pickle.
Garbled ==
  /\ kind > 0 /\ queue # <<>> /\ Rank(Head(queue)) # kind
  /\ \E i \in DOMAIN queue : Rank(queue[i]) = kind

Handles(k) ==
  /\ pc = "items" /\ ~Garbled
  /\ queue # <<>> /\ Head(queue).kind = k
  /\ kind <= Rank(Head(queue))
  /\ kind' = Rank(Head(queue)) /\ queue' = Tail(queue)

HandleNewTaskHashes ==
  /\ Handles("newtaskhashes")
  /\ has' = Head(queue).version
  /\ UNCHANGED <<upper, stdin, closed, pc, left, build_pids, reaped, broken, tasks, out, stdout>>

\* Mutant: whatever the queue starts with, the next runtask is taken out of it
HandleRunTaskAnywhere ==
  /\ pc = "items" /\ kind <= 2
  /\ \E i \in DOMAIN queue :
       /\ queue[i].kind = "runtask"
       /\ proc' = [proc EXCEPT ![queue[i].task] = "forked"]
       /\ build_pids' = build_pids \cup {queue[i].task}
       /\ queue' = SubSeq(queue, 1, i - 1) \o SubSeq(queue, i + 1, Len(queue))
  /\ kind' = 2
  /\ UNCHANGED <<upper, stdin, closed, pc, has, left, reaped, broken, fired, passed, out, stdout>>

HandleRunTask ==
  /\ Handles("runtask")
  /\ proc' = [proc EXCEPT ![Head(queue).task] = "forked"]
  /\ build_pids' = build_pids \cup {Head(queue).task}
  /\ UNCHANGED <<upper, stdin, closed, pc, has, left, reaped, broken, fired, passed, out, stdout>>

HandleFinishNow ==
  /\ Handles("finishnow")
  /\ pc' = "finishnow" /\ left' = build_pids
  /\ UNCHANGED <<upper, stdin, closed, has, build_pids, reaped, broken, tasks, out, stdout>>

HandleQuit ==
  /\ Handles("quit")
  /\ pc' = "leaving"
  /\ UNCHANGED <<upper, stdin, closed, has, left, build_pids, reaped, broken, tasks, out, stdout>>

PickleFails ==
  /\ pc = "items" /\ Garbled
  /\ pc' = "leaving" /\ broken' = TRUE /\ kind' = 0
  /\ UNCHANGED <<upper, stdin, closed, queue, has, left, build_pids, reaped, tasks, out, stdout>>

ItemsDone ==
  /\ pc = "items" /\ ~Garbled
  /\ queue # <<>> => Rank(Head(queue)) < kind
  /\ pc' = "pipes" /\ kind' = 0
  /\ UNCHANGED <<upper, stdin, closed, queue, has, left, build_pids, reaped, broken, tasks, out, stdout>>

\* handle_finishnow(): os.kill() of a process group that is not there raises,
\* and the waitpid() that follows a kill takes any process that ended.
Signalled(t) == [proc EXCEPT ![t] = "exited"]
FinishTask(t) ==
  /\ pc \in {"finishnow", "dying"} /\ t \in left
  /\ left' = left \ {t}
  /\ IF proc[t] \in {"running", "exited"}
     THEN \E z \in Exited \cup {t} : proc' = [Signalled(t) EXCEPT ![z] = "gone"]
     ELSE UNCHANGED proc
  /\ UNCHANGED <<upper, stdin, closed, pc, kind, queue, has, build_pids, reaped, broken,
                 fired, passed, out, stdout>>

\* runQueueWorkerPipe.read(), in the loop over the pipes, at the end of
\* handle_finishnow(), and in close()
Forward(t) ==
  /\ \/ pc = "pipes" /\ t \in build_pids
     \/ pc = "finishnow" /\ left = {} /\ t \in build_pids
     \/ pc = "close" /\ t = reaped
  /\ Unread(t)
  /\ passed' = [passed EXCEPT ![t] = @ + 1]
  /\ out' = Append(out, <<t, passed[t] + 1>>)
  /\ UNCHANGED <<upper, stdin, closed, main, proc, fired, stdout>>

PipesRead ==
  /\ \A t \in build_pids : ~Unread(t)
  /\ \/ pc = "pipes" /\ pc' = "reap"
     \/ pc = "finishnow" /\ left = {} /\ pc' = "items"
  /\ UNCHANGED <<upper, stdin, closed, kind, queue, has, left, build_pids, reaped, broken,
                 tasks, out, stdout>>

\* Mutant: the process is not removed from build_pids
WaitPidKeeps ==
  /\ pc = "reap"
  /\ IF Exited = {}
     THEN pc' = "select" /\ UNCHANGED <<proc, reaped>>
     ELSE \E t \in Exited :
            /\ proc' = [proc EXCEPT ![t] = "gone"]
            /\ reaped' = t /\ pc' = "close"
  /\ UNCHANGED <<upper, stdin, closed, kind, queue, has, left, build_pids, broken, fired, passed, out, stdout>>

\* process_waitpid()
WaitPid ==
  /\ pc = "reap"
  /\ IF Exited = {}
     THEN pc' = "select" /\ UNCHANGED <<proc, build_pids, reaped>>
     ELSE \E t \in Exited :
            /\ proc' = [proc EXCEPT ![t] = "gone"]
            /\ build_pids' = build_pids \ {t}
            /\ reaped' = t /\ pc' = "close"
  /\ UNCHANGED <<upper, stdin, closed, kind, queue, has, left, broken, fired, passed, out, stdout>>

\* Mutant: the exit code is sent before the pipe is closed
ReportFirst ==
  /\ pc = "close"
  /\ out' = Append(out, <<reaped, 0>>)
  /\ pc' = "reap" /\ reaped' = None
  /\ UNCHANGED <<upper, stdin, closed, kind, queue, has, left, build_pids, broken, tasks, stdout>>

Report ==
  /\ pc = "close" /\ ~Unread(reaped)
  /\ out' = Append(out, <<reaped, 0>>)
  /\ pc' = "reap" /\ reaped' = None
  /\ UNCHANGED <<upper, stdin, closed, kind, queue, has, left, build_pids, broken, tasks, stdout>>

-----------------------------------------------------------------------------
(* Its thread, and its end *)

\* worker_flush(): with the server gone it tries again for ever.
Flush ==
  /\ pc # "dead" /\ server # "dead"
  /\ out # <<>> /\ Len(stdout) < Answers
  /\ stdout' = Append(stdout, Head(out)) /\ out' = Tail(out)
  /\ UNCHANGED <<upper, stdin, closed, main, tasks>>

\* The processes that asked for it get SIGTERM with the end of their parent.
\* One that has not yet will find nobody at the end of its pipe.
Ends ==
  /\ pc' = "dead" /\ out' = <<>>
  /\ proc' = [t \in Tasks |-> IF proc[t] \in {"none", "forked"} THEN proc[t] ELSE "gone"]
  /\ stdin' = <<>> /\ kind' = 0 /\ queue' = <<>> /\ has' = 0
  /\ left' = {} /\ build_pids' = {} /\ reaped' = None
  /\ UNCHANGED <<upper, closed, broken, fired, passed, stdout>>

Leaves == pc = "leaving" /\ out = <<>> /\ Ends
\* On SIGTERM the pipes of the tasks are read once more, for a thread that dies
\* with the process; that reading is left out.
Dies == pc = "dying" /\ left = {} /\ Ends
KillWorker == "worker" \in Faults /\ pc # "dead" /\ Ends

\* sigterm_exception()
Sigterm ==
  /\ "term" \in Faults /\ pc \notin {"dying", "dead"}
  /\ pc' = "dying" /\ left' = build_pids /\ reaped' = None
  /\ UNCHANGED <<upper, stdin, closed, kind, queue, has, build_pids, broken, tasks, out, stdout>>

-----------------------------------------------------------------------------
(* A task *)

Move(t, from, to) == proc[t] = from /\ proc' = [proc EXCEPT ![t] = to]

\* signal_on_parent_exit(), then setsid() and the handlers.  Without a worker
\* the first event, TaskStarted, finds the pipe broken.
StartsUp(t) ==
  /\ \/ pc # "dead" /\ Move(t, "forked", "guarded")
     \/ pc = "dead" /\ Move(t, "forked", "gone")
     \/ Move(t, "guarded", "running")
  /\ UNCHANGED <<upper, stdin, closed, main, fired, passed, out, stdout>>

\* worker_child_fire()
Fires(t) ==
  /\ proc[t] = "running" /\ fired[t] < Events[t]
  /\ fired[t] < passed[t] + TaskRoom
  /\ fired' = [fired EXCEPT ![t] = @ + 1]
  /\ UNCHANGED <<upper, stdin, closed, main, proc, passed, out, stdout>>

Exits(t) ==
  /\ fired[t] = Events[t] /\ Move(t, "running", "exited")
  /\ UNCHANGED <<upper, stdin, closed, main, fired, passed, out, stdout>>

-----------------------------------------------------------------------------

Items == HandleNewTaskHashes \/ HandleRunTask \/ HandleFinishNow \/ HandleQuit \/ PickleFails \/ ItemsDone
Serve ==
  \/ Select \/ Items \/ PipesRead \/ WaitPid \/ Report \/ Leaves \/ Dies
  \/ \E t \in Tasks : FinishTask(t) \/ Forward(t)
Task(t) == StartsUp(t) \/ Fires(t) \/ Exits(t)
Step ==
  \/ Write \/ WorkerGone \/ Read \/ TornDown
  \/ Serve \/ Flush
  \/ \E t \in Tasks : Task(t)

Next ==
  \/ Step
  \/ SendHashes \/ Teardown \/ KillServer \/ KillWorker \/ Sigterm
  \/ \E t \in Tasks : SendTask(t)

Spec == Init /\ [][Next]_vars

\* The server flushes what it wrote and reads, from its idle loop and during
\* teardown; both threads of the worker run; tasks that run end.  None of them
\* can go on for ever without the others, so their fairness is that of all.
FairSpec == Spec /\ WF_vars(Step)

-----------------------------------------------------------------------------
(* Properties *)

Message == [kind : {"runtask"}, task : Tasks]
           \cup [kind : {"newtaskhashes"}, version : 1..Hashes]
           \cup {FinishNow, Quit}
Places == {"select", "items", "finishnow", "pipes", "reap", "close", "leaving", "dying", "dead"}

\* The state is well typed, and a process that was waited for is no longer in
\* build_pids, where its number may come again.
TypeOK ==
  /\ server \in {"build", "teardown", "done", "dead"}
  /\ version \in 0..Hashes /\ sent \in [Tasks -> (0..Hashes) \cup {None}]
  /\ unsent \in Seq(Message) /\ stdin \in Seq(Message) /\ queue \in Seq(Message)
  /\ seen \in [Tasks -> Nat] /\ answered \subseteq Tasks
  /\ closed \in BOOLEAN /\ broken \in BOOLEAN
  /\ pc \in Places /\ kind \in 0..4 /\ has \in 0..Hashes
  /\ left \subseteq Tasks /\ build_pids \subseteq Tasks
  /\ reaped \in Tasks \cup {None}
  /\ pc = "close" => reaped \in Tasks \ build_pids
  /\ proc \in [Tasks -> {"none", "forked", "guarded", "running", "exited", "gone"}]
  /\ fired \in [Tasks -> Nat] /\ passed \in [Tasks -> Nat]
  /\ out \in Seq(Tasks \X Nat) /\ stdout \in Seq(Tasks \X Nat)

\* When the server reads the exit code of a task it has read every event the
\* task ever fired, although the two come from different pipes.
EventsFirst == \A t \in answered : seen[t] = fired[t] /\ proc[t] = "gone"

\* A task is forked with the hashes the server had when it sent the task,
\* neither older nor newer ones, whatever is read in one piece.
HashesInOrder ==
  [][\A t \in Tasks : proc[t] = "none" /\ proc'[t] # "none" => has = sent[t]]_vars

\* Nobody waits for ever: a task that was sent is answered or the build ends,
\* the worker is torn down although both may be writing, and it does not
\* outlive a server that dies unless it was on its way out with something to
\* say.  What a garbled queue does is left out.
Waiting ==
  /\ ~broken
  /\ \/ server = "build" /\ Outstanding # {}
     \/ server = "teardown"
     \/ server = "dead" /\ pc \notin {"dead", "leaving"}
WaitsEnd == []<>~Waiting
=============================================================================
