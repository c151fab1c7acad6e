# TLA+ models of the build engine

This repository is an OpenBMC build tree: Yocto layers for many machines
(`meta-*`), the Phoenix platform layers (`meta-phoenix`) and `poky`, which
carries the build engine itself, **BitBake** (`src/poky/bitbake`). The layers are
recipes, configuration, patches and shell scripts that copy images. The program
with state, concurrency and failure in it is BitBake, so that is what is modelled
here. Paths below are relative to `src/poky/bitbake/lib` unless they start
with `src/`.

## 1. Inventory

| Part | State | Operations | Interacts with | What is hard | What makes it correct |
|---|---|---|---|---|---|
| Hash equivalence server (`hashserv/server.py`, `hashserv/__init__.py`) | sqlite table `tasks_v2`; backfill queue and its unfinished count; worker task; one handler per connection | get, get-outhash, get-stream, report, report-equiv, backfill-wait, SIGTERM, start | clients and workers through asyncrpc; an upstream server; other servers on the same file | every `await` on upstream lets other handlers change the table; retries run a handler twice; shutdown with work queued | a taskhash keeps its first unihash; equal outputs share one; what is answered is stored; waits end |
| Hash equivalence client, asyncrpc (`hashserv/client.py`, `bb/asyncrpc`) | connection, mode, retry count | the calls above; reconnect and repeat | server | timeouts that race a late answer | calls end; a repeat is harmless |
| Run queue (`bb/runqueue.py`) | task states, setscene states, stamps, statistics, migrations of hashes | start, complete, fail and skip of tasks and setscene tasks, covered computation, hold-offs, rehash | worker processes through pipes; siggen; the cooker's idle loop | setscene and real tasks of one build race; a task's hash can change while it waits | no task before its dependencies; none twice; the build ends |
| Worker process (`src/poky/bitbake/bin/bitbake-worker`) | children, pipes, output queue | fork, wait, forward events, finish, finish-now | run queue | exit status and last events of a child arrive through different pipes | one exit code per task, after its events |
| Signature generator (`bb/siggen.py`) | unihash cache, pending hashes | get_unihash, report_unihash, save | hash server, run queue | a unihash that changes after others were computed from it | one answer per task and build |
| PR server (`prserv/*.py`) | sqlite table of PR values, dirty flag | getPR, importone, export, sync, SIGTERM | recipes through asyncrpc | the answer leaves before the commit | a PR value is never given to two checksums, never decreases |
| Cooker server (`bb/server/process.py`, `bb/command.py`, `bb/event.py`) | the UI connected, idle functions, pending command, socket and lock file | connect, command, cancel, idle, timeout, exit | UIs, cooker | a UI leaving in the middle of a command; a new server started while the old one exits | one server per build directory, one command at a time |
| Parser pool (`bb/cooker.py` CookerParser) | job queue, result queue, processes | feed, parse, collect, shutdown | cooker | shutdown with a full result queue | every recipe parsed once; shutdown returns |
| Lock files (`bb/utils.py` lockfile, unlockfile) | file, inode, flock | lock, unlock with unlink | every process of a build | the file is unlinked between open and flock | mutual exclusion |
| Fetcher (`bb/fetch2`) | downloads, donestamps | download, unpack, mirrors | lock files | two builds share DL_DIR | a donestamp only beside a verified file |
| Persistent data (`bb/persist_data.py`) | sqlite tables | dict operations in transactions | fetcher, code parser | locked database, nested use | a transaction is atomic |
| Datastore, parser, task data, providers, caches (`bb/data_smart.py`, `bb/COW.py`, `bb/parse`, `bb/taskdata.py`, `bb/providers.py`, `bb/cache.py`) | in-process data | sequential | cooker | algorithms, not interleavings | agreement with a reference definition |
| Image init and update scripts (`src/meta-phosphor`), vendor layers | files and flash partitions | boot, update, shutdown | hardware | power loss | mostly I/O |

## 2. Plan

In the order of importance.

1. `HashServ` with its client layer, the abstract specification `Equivalence`,
   and their proofs (`HashServProofs`, `EquivalenceProofs`). Done, section 3.
2. `RunQueue`: the scheduler, the setscene queue and their statistics, with the
   proofs of all its safety properties (`RunQueueProofs`). Done, section 4.
3. `Worker`: bitbake-worker between the pipes of the run queue and its tasks,
   with `WorkerProofs`. Done, section 5.
4. `PRServ` with `PRServProofs`: allocation of PR values and their durability.
   Done, section 6.
5. `LockFile` with `LockFileProofs`. Done, section 7.
6. `CookerServer` with `CookerServerProofs`: one server per build directory.
   Done, section 8.
7. `ParserPool` with `ParserPoolProofs`: parsing, its shutdown, and the states of
   the cooker. Done, section 9.
8. Next: the unihash cache of siggen between `RunQueue` and `HashServ`; donestamps
   and mirrors of the fetcher over `LockFile`; `RunQueueData.prepare`.

Which assumes what: `RunQueue` takes exit codes and unihashes as choices, and
`Worker` shows that exit codes come after the events of their task and that a task
runs with the hashes it was sent with; `HashServ` shows what is behind the
unihashes. `CookerServer` uses one step for an attempt at the lock file, which
`LockFile` splits, and `ParserPool` takes clients and their leaving from it.

## 3. HashServ: server, clients and their connection

`HashServ` is the asyncio server, its upstream, its backfill worker and the
clients. asyncio interrupts a handler only at an `await`, so each stretch
between two awaits is one action.

| Code | Model |
|---|---|
| table `tasks_v2` (`hashserv/__init__.py`) | `db`, a set of rows; `up` for the upstream server's; `KeyTaken` is the UNIQUE constraint, `TaskQuery` and `OuthashQuery` the three queries with their ORDER BY |
| `datetime.now()` | `now`, which moves with every row and is shared by the machines |
| `dispatch_message` and the handlers | `Deliver`, `GetLocal`, `GetAsk`/`GetAnswer`/`GetResume`, `GetOuthash`, `StreamLocal` and `StreamAsk` to `StreamPut`, `ReportLocal`/`ReportAsk`/`ReportAnswer`/`ReportResume`, `BackfillWait`, `Handler` |
| `backfill_queue`, its `join()`, `_backfill_worker` | `queue`, `unfinished`, `worker`; `WorkerGet`, `WorkerAnswer`, `WorkerStore`, `WorkerDies`, `TaskDone` |
| `_send_wrapper`, `send_message`, `connect` | `call`, `Retry`, `Call`, `Accept`, `ConnectFails`, `Timeout`, `Disconnect` |
| SIGTERM, the drain in `run_loop_forever`, a kill, a new start | `Stop`, `Drain`, `Drained`, `Kill`, `Start` |
| others that report to the upstream server, or to the file a read-only server shares | `UpReport`, `UpEquivReport`, `OwnerReport`, `OwnerEquivReport` |

`Equivalence` is the abstract specification of a server without upstream: two
maps, from task hashes and from outputs to unihashes, whose entries are written
once. `ImplementsEquivalence` maps the table to them.

Bounds: `Clients` and `Conns` are two each (two handlers are enough for every
pair of awaits to interleave; one each in `HashServMirror`, where the worker
is the second actor), two task hashes, outputs and unihashes (one pair
equal, one pair different), `QueueBound` one item beyond the one the worker
holds, two in `HashServMirror` (the sentinel can still queue behind them, and an
item behind one the worker dies on), `Retries` 0 where the property
is not about them and 3, as in the code, where it is. `Faults` says which
failures of the environment a run has. Symmetry over clients and slots is used
only in runs without liveness.

Fairness: every ready handler and the worker are scheduled (weak fairness: the
event loop runs every ready task), the upstream answers or its connection
breaks, a client reads what arrived or times out. Nobody has to call, and nobody
has to restart a server that was killed.

Left out: the counters of get-stats, ping, protocol negotiation, the chunking of
long messages; sqlite's locking between two processes; and the switch between
stream and normal mode. The last one matters for the number of attempts: when a
stream client reconnects, `setup_connection` (`hashserv/client.py:23-27`) switches
the mode with requests of its own, each through a `_send_wrapper` that counts to
three again, so `Retries` is the number of reconnects of the outermost call only.
`CallEnds` needs that the attempts are bounded, not that they are four.

## 4. RunQueue: one build

`RunQueue` is `RunQueueExecute` with the parts of `RunQueue` that drive it. The
server is single-threaded: `execute()` runs from one read of the worker pipe to
the next, so a call is a walk of `pc` through
`read → migrate → setscene → holdoff → task → wait`, and the answers of workers
(`SetsceneExits`, `TaskEnds`, `TaskFails`, `HashUpdate`) are applied only where
the pipe is read: at the start of a call, at its end when nothing can be started,
in `finish()` and during teardown. The variables have the names of the code.

| Code (`bb/runqueue.py`) | Model |
|---|---|
| `build_scenequeue_data` | the constant operators `Covers`, `SqRevdeps`, `SqDeps`, `Unskippable`, each as what the collapsing of the graph computes rather than how |
| `check_stamp_task`, `check_setscene_stamps`, `make_stamp` | `StampCurrent`, `StampTrusted`, `NoNeedToFetch`, `StampRun`; `stamp[t]` is the valid stamp on the disk, and a stamp that a newer dependency has made worthless is none |
| `scenequeue_updatecounters` and the five `sq_task_*` | `Decide`, with `Failing` (hard dependencies), `Released`, `DoneBelow` |
| `process_possible_migrations` | `Rehash`, `MigrateSkips`, `MigrateTakes` (`MigrateMoves`, or `MigrateAborts` where the code gives up), `MigrateEnds` |
| the setscene half of `execute` | `SetsceneUnneeded`, `SetsceneSettles`, `SetsceneStarts`, `SetsceneNone` |
| `update_holdofftasks`, `summarise_scenequeue_errors` | `HoldoffUpdate`, `SetsceneErrors`, in `Holdoff` |
| `RunQueueScheduler.next`, the task half of `execute` | `Buildable`; `Refuse`, `SkipCovered`, `SkipExisting`, `RunNoExec`, `Starts`, `Waits`, `ForceDeferred`, `Ends` |
| `task_skip`, `task_complete`, `task_completeoutright` | `Finished`, `TaskEnds`, `Wake` |
| `finish`, `finish_now`, `teardown_workers` | `Finish`, `Shutdown`, `ForceShutdown`, `Teardown`, `FinishLeft` |

Abstractions. The scheduler's priorities and the sorted order of setscene tasks
are choices; what metadata decides (`hashvalidate`: is there a package;
`depvalidate`: is a covered task not needed) is a choice at each question.
A rehash chooses which dependants come out with a new unihash, among those with
a changed input; a new hash was not built before, so it has no stamp. Dependants
that are covered or being installed keep their unihash in the run queue, but
siggen goes on with another one if the server already knows the new hash
(`report_unihash_equiv`): their stamp is then no longer found, and one that is
being installed leaves none that is (`remapped`). Which task is the twin of which
is fixed, although a migration computes it anew (2446-2450). Only
setscene tasks report a changed unihash, as `sstate_report_unihash` does. Each
task has a stamp of its own. A task's stamp appears when its exit is read. The
count that `Refuse` drives down stops at minus the number of tasks, where it can
no longer change a decision. A failure that teardown reads puts the state back to
cleanup, and one more call of `finish()` follows (`FinishLeft`): there is no worker
any more to read from, and the empty list of descriptors that it returns for tasks it
thinks are running is what `buildTargetsIdle` (`bb/cooker.py:1489`) takes for the end.

Assumptions on the constants: a finite graph whose edges stay inside it
(`GraphAssumption`, `SizeAssumption`), twins that are setscene tasks
(`TwinAssumption`), and no circle in it (`AcyclicAssumption`: `calculate_task_weights`
refuses one, and everything the collapsing of the graph means depends on it). Hard
dependencies may be anything; section 11 says what the code expects of them.

Bounds. `RunQueueBuild`: the graph of `RunQueueMC` with three setscene tasks over
seven tasks in three recipes: one setscene task covers a compile that another
one's inputs come through, two share a covered task, one hard dependency, one
noexec target, a fetch that can overlap with installations; five histories of
stamps; one and two threads; with and without `-k`. Each setscene task may
report once between two reads that process it. `RunQueueTwins`: two copies of
compile, package, image with the second package deferred to the first, with and
without enforcement and both ways of stopping.

Fairness: the idle loop of the server calls `execute` again and again (weak
fairness of `Execute`); tasks end and their exit codes are found by one of the
reads (strong fairness, because the pipe is only read in some places, and only
over all tasks together: nothing is assumed of the order). A task that fails may
fail every time.

Not modelled: `RunQueueData.prepare`, thread limits per task, fakeroot workers,
stamps shared by tasks, `--setscene-only`, `--no-setscene`, `-f`, `-n`, nostamp
tasks, the stamp policies other than per file, the stamp cache.

## 5. Worker: the worker process and both of its pipes

`Worker` is one `src/poky/bitbake/bin/bitbake-worker` with the end of its pipes in
the server and the processes it forks. Commands come down one pipe, events and
exit codes go up the other; each task has a pipe of its own for events, while its
exit code is found by `waitpid()`.

| Code | Model |
|---|---|
| the writes of `RunQueueExecute.execute`, `process_possible_migrations`, `finish_now`, `_teardown_worker` | `SendTask`, `SendHashes`, `Teardown` into `unsent`, the buffer of `process.stdin`; `Write`, one command at a time, while the server waits |
| `runQueuePipe.read` | `Read`, `WorkerGone`, `TornDown`; `seen`, `answered` |
| `BitbakeWorker.serve`, `handle_item` | `pc`, `queue`, `kind`: `Select`, one action per handler, `ItemsDone`, `PickleFails` |
| `runQueueWorkerPipe.read`, `process_waitpid`, `handle_finishnow` | `Forward`, `PipesRead`, `WaitPid`, `Report`, `FinishTask` |
| `worker_flush` thread and `worker_queue` | `Flush`, `out`, `stdout` |
| `fork_off_task`, `worker_child_fire` | `proc`, `fired`, `passed`: `StartsUp`, `Fires`, `Exits` |
| `sigterm_exception`, end of file, `quit`, a kill | `Sigterm`, `Select`, `Leaves`, `Dies`, `KillWorker`, all with `Ends` |

Abstractions. A message has come as a whole or not at all. The death of tasks by
`PR_SET_PDEATHSIG` is one step with the end of the worker; a task forked too late
for it dies at its first event. The handlers of a task are in place with its
`setsid()`. A pipe is read empty. `newtaskhashes` is written without a flush, as in
the code. Left out: `fork()` failing, profiling, the fakeroot worker, and that `handle_finishnow`
also reads the pipes of the tasks (496-497) when SIGTERM called it: what it puts into
`worker_queue` then is events, never exit codes, and goes with the process unless the
thread is quicker.

Bounds: two tasks, one with two events and one with one (order within a task, and
between two); one change of hashes; three commands in stdin, one answer in stdout,
one event in the pipe of a task, so that each of them fills up; `Faults` are kills
of server and worker and SIGTERM, each of which happens at most once by itself.

Fairness: weak fairness of `Step`, which has every internal step of server, worker
and tasks. It amounts to weak fairness of each of them because none can go on for
ever alone: each step consumes a command, an event or a message.

Observations. `handle_item` (409) takes what stands between the ends of the queue
and the next closing tag of its kind: a runtask, new hashes and a runtask that are
read in one piece make it unpickle garbage, and the worker ends in the middle of a
build. The run reaches this state (`broken`); `WaitsEnd` leaves it out. A task
between `fork()` and `setsid()` is not reached by finishnow. Tasks that
`handle_finishnow` waits for are never reported, and exit codes that are still in
`worker_queue` at SIGTERM or end of file are lost, so the server has to end them
itself. A server that dies after `quit` leaves a worker whose thread ignores `EPIPE`
and tries again for ever.

## 6. PRServ: package revisions

`PRServ` is the PR server (`prserv/serv.py`, `prserv/db.py`): daemons that are
started, stopped and killed, with one sqlite file. A handler has no `await`, so a
daemon handles one request at a time; what is split are the points where another
process, the file lock or a kill comes between.

| Code | Model |
|---|---|
| table `PRMAIN_nohist`, its transaction | `file` (committed), `work` and `owner` (the open transaction) |
| `_getValueNohist`, `_importNohist`, `export` | `Found`, `NotFound`, `NotFoundInserts`, `NotFoundReadOnly`, `Insert`; `ImportOne`, `ImportReadOnly`; `Export` |
| `dispatch_message`, `sync_if_dirty`, `sync` | `Dispatch`, `Reply` (which leaves before) `Commit`, `SyncEnds`, `Begin`, `BeginLocked`; `Locked`, `LockedRaises`, `Rollback` |
| `start_daemon`, `_serve_forever`, SIGTERM | `StartDaemon`, `OpenTable`, `OpenLocked`, `PortTaken`, `SignalHandler`, `StopListening`, `Exit`, `ExitRaises`, `Kill` |

Properties: `NeverDecreases` and `ValuesDistinct` are about every answer ever given
(`given`), `OneAnswerAtRisk` says that a kill takes at most the one answer that was
sent and is about to be committed. Bounds: two daemons that write, on two ports, so
that both run, and a read-only one on the port of the first; two checksums, the
requests of `SomeRequests`; nobody asks once a row has `MaxValue` 2 (two values are
the least for order and collision, an import may reach it); two kills. There is no
liveness here: a call that is locked out ends with an error.

`given` and `last` are the answers to get-pr and export by daemons that can write.
Left out of them are the answers of read-only daemons, which store nothing, and the
replies to import-one, which are the larger of the old value and the imported one
(`db.py:203`) and may be below an answer for another checksum; `ValuesDistinct`
exempts values that were imported. After SIGTERM `wait_closed()` may let handlers run
that are ready; their turn is taken before `StopListening`.

Observations. After its first commit a writing daemon holds the file for good, so a
read-only daemon beside it answers null. A read-only daemon gives several checksums
the same `max + 1`, as it stores nothing. The history mode, which `PRServer` never
asks for, and the pidfile are left out; two daemons on one file, which the pidfile
should prevent, are in the model because its check and write race.

## 7. LockFile: a lock that is deleted with its file

`LockFile` is `lockfile()` and `unlockfile()` of `bb/utils.py` for one path: `Call`,
`Open`, `Flock`, `WouldBlock`, `Compare` (of the inode that was locked with the one
at the path), then `Promote` (to an exclusive lock, without waiting), `Unlink`,
`Release`; `CloseOnly` for callers that only close the file, and `Kill`. Inodes are
reused when nobody has them open. Properties: `Exclusion` across deleted and new
files, `UnlinksOwnFile`, `LastOneDeletes` (shared holders, callers that give up and
callers that come too late do not leave the file behind; a killed process and
`CloseOnly` do), and `SomebodyGetsIt` under weak fairness of each call in
progress: a waiter that retries is not starved by deleted files. Bounds: three
processes (one holder, one that waits on a dead inode, one newcomer), one inode more
than processes, shared and exclusive, waiting and not, one kill.

The promotion of a shared lock is atomic in the model, as it is on Linux.
`flock(2)` allows a conversion that first drops the lock; with that, `unlockfile()`
could delete a file that another process has just locked.

## 8. CookerServer: one server per build directory

`CookerServer` is the server process (`bb/server/process.py`) with the clients that
find it, start it, use it and stop it (`bb/main.py`). They meet in `bitbake.lock`,
`bitbake.sock` and the three pipes of a connection.

| Code | Model |
|---|---|
| `setup_bitbake`, `connectProcessServer`, `ServerCommunicator` | `at`, `try`: `LockBitbake`, `LockBusy`, `ServerReady`, `WaitForLock`, `WaitReleases`, `Connect`, `SendFds`, `Connected`, `ConnectFails`, `GivesUp`, `HangUp`, `HungUp`, `TerminateServer`, `Terminate`, `Build`, `Leave`, `Retry` |
| `BitBakeServer`, `execServer`, `ProcessServer.run` | `Bind`, `Started`, `WritePid`, `BootFails`, `Ends` |
| `ProcessServer.main`, `idle_commands` | `pc` of a server, `ready`: `Select`, `Accept`, `ReceiveFds`, `ControllerGone`, `DisconnectClient`, `StopsWithoutClient`, `Read`, `NoCommand`, `RunCommand`, `Answers`, `Terminated`, `ClientGone`, `TimesOut`, `JobEnds` |
| its end | `UnlinkSocket`, `Shutdown`, `CloseLock`, `ChildrenEnd`, `RemoveLockFile`, `LockFileChanged` |

Properties: `ServesAlone` (lock, socket and pid of the directory are a working
server's own), `NoStalePid`, and `ServersEnd`: no server outlives its clients for
longer than its timeout. Fairness is weak fairness of `Step`, every internal step of
clients and servers. Bounds: one client that builds with two attempts and one that
calls `--kill-server` with one (the code makes eight; two are enough for an attempt
to meet what an earlier one left behind), two servers (one starting while the other
ends), `listen(1)` with room for two, one kill.

The lock is that of an open file, which the processes a server forks (parsers, the
hash server) share: after `CloseLock`, or when a server is killed in its loop, it may
stay locked until they have ended (`ChildrenEnd`). They do end: `ServersEnd` takes that
from them, as the code waits for them without a limit (`process.py:287-332`). A
setFeatures that raises BBHandledException (an error in the configuration) makes the
client close its pipes and try again, another error makes it end (`Answers`).

Left out: XML-RPC clients; and an idle function that raises SystemExit, which
`idle_commands` passes on (`process.py:354`), so that the server would end without
removing its files. The idle functions there are catch it themselves (`cooker.py:1440`,
1485, `command.py:133`), or are not known to raise it.

Observations. `terminateServer` and the hang-up that follows it can be found by one
`select()`; then the server handles the hang-up first and never sees the command
(`process.py:167`), and with `BB_SERVER_TIMEOUT=-1` it runs on, although `--kill-server`
is described as "Terminate any running bitbake server" (`bb/main.py:271`). An answer
`CommandCompleted` can reach the next client's UI (`command.py:154`).

## 9. ParserPool: parsing and the states of the cooker

`ParserPool` is `CookerParser` and `Parser` of `bb/cooker.py` with the commands that
start and stop them. The server thread takes one result per call of its idle
function; worker processes take recipes from their chunk and put results into a
queue whose threads feed one pipe.

| Code | Model |
|---|---|
| `BBCooker.updateCache`, `Command.runAsyncCommand` | `Refused`, `Resume`, `CannotParse`, `NewParser`, `ParseNext`, `ParsingComplete`, `BuildStarts`, `BuildEnds` |
| `CookerParser.shutdown` | `ShutDown`, `Drain`, `Drained`, `Joined` with `Terminate`, and back with `Return` |
| `Parser.realrun` | `Parses`, `Puts`, `Feeds`, `Quits`, `Ends` |
| clients, inotify, signals | `Connect`, `Build`, `Stop`, `Leave`, `Change`, `Sigterm`, `Exit` |

Properties: `CompleteMeansAll` (a build starts on every recipe or not at all,
whatever set `cooker.state` in between), `NoneLeft` (whoever shut the pool down goes
on without a process of it), `CommandEnds` under weak fairness of the server thread
and of each process. Bounds: two processes with up to three recipes dealt out in the
ways of `Dealt`, so that one has more than the other; room for one result in the
pipe, so that it fills; two clients after each other.

`CommandEnds` excepts one case, `Late`, which is reached: "Cleanup the queue before
call process.join(), otherwise there might be deadlocks" (`cooker.py:2152`) does not
prevent the deadlock. When a parse is stopped without force in the middle, results
that come after the queue was drained and do not fit the pipe make `join()` wait for
ever.

Left out: recipes taken from the cache; a pool that is replaced while it lives (a
client that leaves a memory-resident server in the middle of a parse orphans the old
processes, which hold the lock they inherited); killed parser processes, which
nobody notices; the branch for `pending` results, which is dead because `put()` on an
unbounded queue never raises `Full`. Two observations: after an interrupted parse
with a valid cache the next command of the same client would poll for ever (UIs
leave; guard of `Build`); SIGTERM only sets the state, which the next assignment
overwrites.

## 10. Runs

| Run | Question | Result |
|---|---|---|
| `HashServStandalone` | Does a server without upstream, stopped and restarted at will, keep what it answered? | `SameOutputSameUnihash`; it implements `Equivalence` |
| `HashServUpstream` | What is left of that when an upstream server changes concurrently and fails? | a report's answer is stored, a finished backfill-wait covers what was queued, an answer only moves to an older upstream row |
| `HashServMirror` | Does a server nobody reports to agree with its upstream? | yes, through shutdown and drain; before a SIGTERM ends the process all that was queued ahead of the sentinel is stored, unless the worker died on an item in front of it (then what is behind it is lost, as in the code) |
| `HashServReadOnly` | Do calls end on a read-only server with broken connections and kills? | yes, with an answer or with an error after three reconnects (section 3 on those of stream clients) |
| `RunQueueBuild` | Is a build correct under failures, old stamps and changing hashes? | order, inputs, single variants, hard dependencies, counts, end of the build |
| `RunQueueTwins` | Are deferred tasks and stopped builds resolved? | the build ends and no internal check fires |
| `Worker` | Are exit codes and events, commands and hashes in order, and does everybody stop waiting? | yes, except for a garbled queue and for a worker whose server died after `quit` |
| `PRServ` | Are values unique and monotonic with several daemons, kills and a locked file? | yes; a kill takes at most the answer about to be committed |
| `LockFile` | Is a lock exclusive although its file is deleted and created anew? | yes, the last one deletes it, and waiters do not all starve |
| `CookerServer` | One server at a time, its files its own, and none that stays? | yes |
| `ParserPool` | Does a build start on all recipes, and shutdown return with no process left? | yes, except for `Late` |
| `HashServReportRace` | "a second reported task with the same outhash will be assigned the same unihash" (`hashserv/tests.py:89`) | violated with an upstream: the outhash is looked up before the await and not again |

Every property of a passing run has a mutant (`mutants` in `PROJECT.json`): an
operator written beside the one it replaces, with a mistake that this code could
have, under which the run finds the property violated.

Statements of the repository that the models contradict, found while modelling and
kept here as observations without a run of their own:

- "it should appear in the side server" (`hashserv/tests.py:209`): storing a second
  copy of a row raises in the backfill worker (`hashserv/server.py:438`, 124), which
  ends, and waits hang.
- "All servers should agree with the originally reported hash" (`hashserv/tests.py:224`):
  a report copies the upstream row of its outhash (`server.py:304`, 129), although the
  upstream server may answer the taskhash of that row with an older one; then the two
  servers disagree. TLC finds it for a mirror with one client that reports another
  taskhash with that output.
- duplicate reports "always return the unihash from the first reported taskhash"
  (`hashserv/tests.py:106`): a report is answered with its own.
- "No task should end up in both covered and uncovered" (`bb/runqueue.py:1966`): when
  nothing runs any more, `sq_deferred.pop` (2181) returns the task that was waited for,
  and that one is failed, possibly after it was covered.
- `-k` "Continue as much as possible after an error": a task that is refused (2118) is
  refused for ever.
- the two in sections 8 and 9 about `--kill-server` and `process.join()`.

The `continue` at `bb/runqueue.py:2022` continues the inner loop, so the check that
covered tasks do not run has no effect there; `OneVariant` holds without it, because
the hold-off and the check at migration (2385) already imply it: `OneVariantAlways`
proves that for every acyclic graph with whole stamps (section 11). The branch "marked
as completed but now needing to rerun" (2399) is never reached then: `NeverRerun`.

## 11. Proofs

| Theorem | Says |
|---|---|
| `HashServProofs!TypesAndJoinCount` | types, and `JoinCount` |
| `HashServProofs!ReportedIsStoredAlways` | `ReportedIsStored` |
| `HashServProofs!UnihashMovesToUpstreamAlways` | `UnihashMovesToUpstream` |
| `HashServProofs!FirstUnihashWinsAlways` | `FirstUnihashWins` without upstream, also read-only |
| `HashServProofs!BackfillWaitCoversAlways` | `BackfillWaitCovers` |
| `HashServProofs!ServersAgreeAlways` | `ServersAgree`, where no outputs are reported to the server itself |
| `EquivalenceProofs!SameOutputSameUnihashAlways` | `SameOutputSameUnihash` without upstream |
| `EquivalenceProofs!StandaloneImplementsEquivalence` | the refinement, without upstream |
| `RunQueueProofs!TypeCorrect`, `CountCorrect`, `OrderCorrect` | types, `Counted`, `InOrder` |
| `RunQueueProofs!HardDepsAlways`, `OneVariantAlways`, `CompleteIsBuiltAlways`, `NeverRerun` | `HardDepsFirst`, `OneVariant`, `CompleteIsBuilt`, and that no skipped task is needed again, for whole stamps |
| `RunQueueProofs!SetsceneSoundAlways`, `NotRepeatedAlways` | `SetsceneSound`, `NotRepeated`, for whole stamps and no twins |
| `RunQueueProofs!InputsExistAlways` | `InputsExist`, for whole stamps, no twins and flat hard dependencies |
| `RunQueueProofs!NoInternalErrorAlways` | `NoInternalError`, for whole stamps and acyclic hard dependencies |
| `WorkerProofs!TypeCorrect`, `EventsFirstAlways`, `HashesInOrderAlways` | types, `EventsFirst`, `HashesInOrder` |
| `PRServProofs!TypesAlways` | `TypeOK` |
| `PRServProofs!NeverDecreasesAlways` | `NeverDecreases` |
| `PRServProofs!ValuesDistinctAlways` | `ValuesDistinct` |
| `PRServProofs!OneAnswerAtRiskAlways` | `OneAnswerAtRisk` |
| `PRServProofs!FileGrowsAlways` | No commit, exit or kill removes a committed row or lowers its value. |
| `LockFileProofs!ExclusionAlways` | `Exclusion` |
| `LockFileProofs!UnlinksOwnFileAlways` | `UnlinksOwnFile` |
| `LockFileProofs!LastOneDeletesAlways` | `LastOneDeletes` |
| `CookerServerProofs!TypesAlways` | `TypeOK` |
| `CookerServerProofs!ServesAloneAlways` | `ServesAlone` |
| `CookerServerProofs!NoStalePidAlways` | `NoStalePid` |
| `ParserPoolProofs!TypeCorrect` | `TypeOK` |
| `ParserPoolProofs!CompleteMeansAllAlways` | `CompleteMeansAll` |
| `ParserPoolProofs!NoneLeftAlways` | `NoneLeft` |

They hold for every value of the constants that the named assumptions of the
modules allow: sets of any size for `HashServ`; every finite acyclic graph of tasks,
every number of threads, and under the hypotheses below, for `RunQueue`; any tasks, numbers of events,
capacities and faults for `Worker`; any number of daemons, processes, clients,
servers, kills and recipes for the others.

*HashServ.* `ReportedIsStored` is not inductive: what a handler holds across its
await has to come from the upstream table and fit the request it is serving.
`Inductive` adds that (`FoundUpstream`, `HandlerOf`, `NoUpstreamWait`), the join
count, and that the clock has passed every row (`Stamps`), without which a new
row could become the oldest. It is split by slot (`OneSlot`), so that a step of
one handler leaves the part of the others alone. Every step changes the table by
at most one new row (`TableStep`); `UnihashMovesToUpstream`,
`FirstUnihashWins`, `TableOK` and the refinement all follow from that lemma.

`BackfillWaitCovers` needs to know of every item of the queue, and of the one the
worker has, that it is known upstream (`QueueBack`): then the worker finds it and
stores it, or dies and keeps it in the count, so that no item is lost (`OwedStep`),
and a handler in `join()` is owed only what is stored or still outstanding
(`SlotBack`). It takes that a query finds something wherever there is something
(`QueryFinds`), which is the least-number principle; the library's `WFMin` gives it.
`ServersAgree` follows from `Mirrored`: every row that was copied, and every row a
handler or the worker holds on its way to be, is the oldest of its taskhash
upstream. It stays that, because upstream rows are only added and are newer
(`OldestKept`). A local report can copy another row (section 10).

*RunQueue.* `Counting` adds to `Counted` that what is with the worker is marked as
running, which is why nothing is counted twice. `Ordering` adds to `InOrder` that
the dependencies of everything buildable are complete; it needs that completion is
never taken back, which holds because a migration touches only setscene marks.

All else follows from `Sound`, which adds the setscene half and its relation to the
tasks. `MarksSound` ties the five marks together (what is undecided has no stamp;
what was decided has released or failed what waited for it; nothing starts before its
hard dependencies), `MigrationSound` says what a migration in the middle of its loop
may have taken back. `UndecidedApart` is the heart: of an undecided setscene task
neither its task nor one it covers runs. A task starts only in a state in which the
hold-offs are those of the decisions there are (`HoldsFresh`, with `NotCovered` and
`CoveredNow` for what `update_holdofftasks` computes), so what starts is covered by
nothing undecided; and a migration makes a setscene task undecided only after looking
whether what it covers runs. `SkipsSound` and `RunsSound` say why a task was skipped
or runs, `NeedlessSound` that a setscene task that was left out is needed only by
others that are covered, `RunqSound` and `DoneSound` what the marks say when the
halves are over. `NextSound` has one lemma per action or half.

How a build ends is `SuccessSound` and `FailureSound`, which rest on `Sound`: when
nothing can be started, nothing runs and nothing failed, then every setscene task is
decided, because the graph of setscene tasks has no circle (`SqRevdepsAcyclic`), so
the hold-offs are empty, so everything was dealt with (`EndsClean`), and the checks
at the end find what they expect.

The hypotheses of these theorems are named, they hold in `RunQueueBuild`, and each is
there because TLC finds the property violated on a small graph without it:

- `WholeStamps`: what earlier builds left is whole, a task has its stamp only if those
  of its recipe that it was made from have one. Somebody who deletes a stamp in the
  middle makes a setscene task trusted although one that it needs by name is not there;
  a rehash then takes the trust back, and it is installed although its hard dependency
  has failed: `HardDepsFirst` is violated.
- `HardDepsFlat`: hard dependencies make no chains. Of a chain a, b, c the code forgets
  what else wants b (`runqueue.py:2752-2760` empties its reverse dependencies), so b
  counts as not needed once a is covered, and a task may run without its input:
  `InputsExist` is violated.
- `HardDepsAcyclic`: they make no circles. The code does not look for them; two
  setscene tasks that wait for each other never become buildable, and the build fails
  with the checks of `summarise_scenequeue_errors`.
- no twins: `ForceDeferred` fails the task that was waited for, possibly after it was
  covered, which breaks `SetsceneSound`, `NotRepeated` and `InputsExist` (the fourth
  observation of section 10).

Unions in `RunQueue` that another operator follows are in parentheses for the prover's
parser; nothing else in the model was changed for a proof.

*Worker.* What is on its way is one sequence in either direction: `Commands` (the
worker's queue, its stdin, the server's buffer) and `Chan` (stdout, then
`worker_queue`). `CommandsOK` says of each task on its way that it was not run and
that the last hashes before it are those it was sent with (`Brings`); taking the
first command keeps that, and makes the worker's hashes those of a task that is
first. `AnswersOK` says of `Chan` that events of a task are in order (`InOrder`),
that an exit code stands behind every event the server has not seen (`Complete`),
and, while the worker lives, that no event is missing (`Full`); a worker that ends
cuts the sequence off at its end, which keeps the first two. That a task that has gone
does not come back needs `CommandsOK`: it is not run twice.

*PRServ.* `Inductive` is `TypeOK`, `ReadersRead` (a read-only daemon never has the
transaction), `Transactions` (who is where in it) and `Values`: the answers given
are bounded by the rows the owner of the transaction sees.

*LockFile.* `LockTable` (the kernel's), `Possessions` (what each place of a call
has open and locked), `Current`: a held lock is on the file at the path, and nobody
else deletes it; and `Deleted`: a lock that outlives `Unlink` is on a file that is
gone, so that whoever is refused a lock or a promotion knows that another one still
uses the file at the path, which is what `LastOneDeletes` needs. `TypeOK` is a conjunct
of the invariant and has no run or theorem of its own.

*CookerServer.* `Shape` and `Claims` say what a server at each place has of lock,
socket and pid, and `ClientsLock` what a client that has the lock may find. Its types
need that each client is at one of its attempts (`TypesInv`), as an attempt is half
of the name of a connection.

*ParserPool.* `Apart` (a recipe is in one place only), `Counted` (results that came
are those added), `Completed` and `Quiet` (processes of a pool that was joined).

Checked by proof only, because a run would repeat what another property of the run
implies: `JoinCount`, `FirstUnihashWins`, `FileGrows`, `NeverRerun`, and
`HardDepsFirst` on its own, which unlike `SetsceneSound` also holds with twins.

Only model-checked: liveness (`CallEnds`, `BackfillHappens`, `BuildEnds`,
`WaitsEnd`, `SomebodyGetsIt`, `ServersEnd`, `CommandEnds`), which needs fairness and
ENABLED, out of the prover's reach. Every safety property of the passing runs is
proved, `RunQueue`'s within the hypotheses above. `SameOutputSameUnihash` with an
upstream and `ServersAgree` with local reports are false (`HashServReportRace`, and
the second observation of section 10).

## 12. Not modelled

- the unihash cache of `bb/siggen.py`, the fetcher's donestamps and mirrors, and
  `RunQueueData.prepare`: next in the plan.
- `bb/persist_data.py`: atomicity there is SQLite's. `bb/monitordisk.py`: it only
  asks for the shutdown that `RunQueue` has.
- parsing of metadata, the datastore, task data, providers, recipe caches, `bb/build.py`:
  sequential computation on strings and files, without concurrency or failure handling
  of its own.
- user interfaces, toaster, devtool, wic, oe-selftest and the other scripts: they use
  the engine or post-process files; `lib/ply`, `pyinotify`, `simplediff`, `progressbar`,
  `bs4` are vendored.
- layers, recipes and image scripts of OpenBMC and Phoenix: configuration and device I/O.
