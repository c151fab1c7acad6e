------------------------------ MODULE RunQueue ------------------------------
(***************************************************************************)
(* The run queue of BitBake (bb/runqueue.py, RunQueueExecute): one build    *)
(* of a fixed task graph.  The server is one thread that calls execute()    *)
(* again and again; the worker runs what it is sent, and its answers are    *)
(* applied only where the server reads its pipe.  A task with a setscene    *)
(* variant can be installed from shared state instead of being run, which   *)
(* covers the tasks it was built from.  The unihash of a finished task may  *)
(* change what its dependants would be built from, and setscene tasks that  *)
(* were given up are then tried again ("migrated").                         *)
(*                                                                          *)
(* pc is the place execute() has reached:                                   *)
(*   read -> (migrate) -> setscene -> holdoff -> task -> (wait) -> read     *)
(* and, once the state is not "running", finish and teardown.               *)
(***************************************************************************)
EXTENDS Integers, FiniteSets

CONSTANTS
  Tasks,          \* rqdata.runtaskentries
  Setscene,       \* rqdata.runq_setscene_tids
  Depends,        \* runtaskentries[t].depends
  File,           \* the recipe file a task belongs to
  Targets,        \* rqdata.target_tids
  HardDeps,       \* sq_harddeps: the setscene tasks that need this one's
  NoExec,         \* tasks flagged noexec
  Twin,           \* the setscene task another multiconfig's has to wait for
  InitialStamps,  \* what earlier builds may have left in the stamps directory
  Aborts,         \* taskData.abort: TRUE without -k
  EnforcedSets,   \* {}, or the tasks BB_SETSCENE_ENFORCE forbids to run
  Threads,        \* the settings of BB_NUMBER_THREADS
  Reporters,      \* tasks whose unihash may turn out different
  Interrupts      \* the ways a user may stop the build

Stamps == {"none", "real", "setscene"}

ASSUME GraphAssumption ==
  /\ Setscene \subseteq Tasks /\ Targets \subseteq Tasks /\ NoExec \subseteq Tasks
  /\ EnforcedSets \subseteq SUBSET Tasks /\ Reporters \subseteq Tasks
  /\ Depends \in [Tasks -> SUBSET Tasks]
  /\ HardDeps \in [Setscene -> SUBSET Setscene]
  /\ InitialStamps \subseteq [Tasks -> Stamps]
ASSUME SizeAssumption == /\ IsFiniteSet(Tasks)
                         /\ Threads \subseteq Nat \ {0} /\ Aborts \subseteq BOOLEAN
ASSUME TwinAssumption == Twin \in [DOMAIN Twin -> Setscene] /\ DOMAIN Twin \subseteq Setscene

VARIABLES
  abort, enforced, number_tasks,   \* the settings of this build
  state, pc,
  stamp,                   \* the stamp on the disk for each task
  sq_buildable, sq_running, scenequeue_covered, scenequeue_notcovered,
  tasks_scenequeue_done, holdoff_need_update,
  sq_live, sq_active,      \* setscene tasks with the worker; sq_stats.active
  sq_deferred, outrightfail, scenequeue_notneeded, sqdone,
  tasks_covered, tasks_notcovered, holdoff_tasks,
  runq_buildable, runq_running, runq_complete, runq_tasksrun, failed_tids,
  live, active,            \* tasks with the worker; stats.active
  updated_taskhash_queue, pending_migrations,
  remapped,                \* installing under a unihash that siggen has replaced
  todo, moved, hardfail, changed   \* locals of process_possible_migrations

settings == <<abort, enforced, number_tasks>>
marks   == <<sq_buildable, sq_running, scenequeue_covered, scenequeue_notcovered,
             tasks_scenequeue_done, holdoff_need_update>>
scene   == <<sq_live, sq_active, sq_deferred, outrightfail, scenequeue_notneeded, sqdone>>
holds   == <<tasks_covered, tasks_notcovered, holdoff_tasks>>
runq    == <<runq_buildable, runq_running, runq_complete, runq_tasksrun, failed_tids,
             live, active>>
hashes  == <<updated_taskhash_queue, pending_migrations, remapped, todo, moved, hardfail, changed>>
control == <<settings, state, pc, stamp>>
vars    == <<control, marks, scene, holds, runq, hashes>>

-----------------------------------------------------------------------------
(* The graphs, computed once before the build. *)

\* runtaskentries[t].revdeps
Revdeps(t) == {u \in Tasks : t \in Depends[u]}

\* calculate_task_weights refuses circular dependencies: among any tasks there
\* is a lowest and a highest one
ASSUME AcyclicAssumption ==
  \A S \in SUBSET Tasks : S # {} => /\ \E t \in S : Depends[t] \cap S = {}
                                    /\ \E t \in S : Revdeps(t) \cap S = {}

\* The least set of tasks that holds seed and all that Step gives from it
Closure(seed, Step(_)) ==
  {t \in Tasks : \A S \in SUBSET Tasks : seed \subseteq S /\ Step(S) \subseteq S => t \in S}

\* sq_covered_tasks: the tasks a setscene task stands for
Covers == [s \in Setscene |->
  LET Below(S) == (UNION {Depends[t] : t \in S}) \ Setscene
  IN  Closure(Depends[s] \ Setscene, Below)]

\* Mutant: without the hard dependencies
SqRevdepsGraph == [s \in Setscene |->
  {u \in Setscene : s \in Depends[u] \cup UNION {Depends[t] : t \in Covers[u]}}]

\* sq_revdeps: the setscene tasks to be decided before this one.  A hard
\* dependency replaces what the task graph says of the task depended upon.
SqRevdeps == [s \in Setscene |->
  {h \in Setscene : s \in HardDeps[h]}
  \cup {u \in Setscene : /\ HardDeps[s] = {}
                         /\ s \in Depends[u] \cup UNION {Depends[t] : t \in Covers[u]}}]

SqDeps(s) == {d \in Setscene : s \in SqRevdeps[d]}

\* We can't skip specified target tasks which aren't setscene tasks
CantSkip == Targets \ Setscene

\* The ends of the graph, the targets, and on to the first setscene tasks
Unskippable ==
  LET Below(S) == UNION {Depends[t] : t \in S \ Setscene}
  IN  Closure({t \in Tasks : Revdeps(t) = {}} \cup CantSkip, Below)

Dependants(S) == LET Above(U) == UNION {Revdeps(t) : t \in U}
                 IN  Closure(Above(S), Above)

-----------------------------------------------------------------------------
(* Stamps, under the default policy that only looks at the task's own file. *)

StampDeps(t) == {d \in Depends[t] : File[d] = File[t]}

\* check_stamp_task(t)
StampCurrent(t) == stamp[t] = "real" /\ \A d \in StampDeps(t) : stamp[d] # "none"

\* check_stamp_task(t, recurse = True)
StampTrusted(st, t) ==
  \E S \in SUBSET Tasks :
     /\ t \in S
     /\ \A u \in S : st[u] = "real" /\ \A d \in StampDeps(u) : st[d] = "setscene" \/ d \in S

\* A task that was run is newer than the stamps made from its old output.
\* With BB_SETSCENE_ENFORCE tasks are only pretended to run.
StampRun(t) ==
  IF enforced # {} THEN stamp
  ELSE [u \in Tasks |-> IF u = t THEN "real"
                         ELSE IF stamp[u] = "real" /\ t \in StampDeps(u) THEN "none"
                         ELSE stamp[u]]

\* check_setscene_stamps: noexec, or a stamp of either variant is present
NoNeedToFetch(st, t) == t \in NoExec \/ st[t] = "setscene" \/ StampTrusted(st, t)

-----------------------------------------------------------------------------
(* Deciding setscene tasks: scenequeue_updatecounters and its callers. *)

Decided == scenequeue_covered \cup scenequeue_notcovered

\* A failure fails the undecided tasks that need it, and so on
Failing(decided, st, fail) ==
  LET Down(S) == {d \in UNION {HardDeps[s] \cap SqDeps(s) : s \in S \cap Setscene} :
                    d \notin decided /\ ~NoNeedToFetch(st, d)}
  IN  Closure(fail, Down)

\* The setscene tasks whose turn it is after "new" were decided
Released(decided, failed, new) ==
  {d \in Setscene : /\ SqRevdeps[d] \subseteq decided
                    /\ \E s \in new : d \in SqDeps(s) /\ ~(s \in failed /\ d \in HardDeps[s])}

\* Mutant: only the tasks themselves
DoneItself(done, new) == done \cup new

\* Down the graph, what only those tasks wanted is done with as well
DoneBelow(done, new) ==
  LET Below(S) == {d \in (UNION {Depends[t] : t \in S}) \ (Setscene \cup done) :
                     Revdeps(d) \subseteq done \cup S}
  IN  done \cup Closure(new, Below)

\* sq_task_skip, sq_task_complete of cov; sq_task_failoutright, sq_task_fail of fail
Decide(cov, fail) ==
  \E failed \in {Failing(Decided \cup cov, stamp, fail)} : \E new \in {cov \cup failed} :
     /\ scenequeue_covered' = scenequeue_covered \cup cov
     /\ scenequeue_notcovered' = scenequeue_notcovered \cup failed
     /\ sq_running' = sq_running \cup new
     /\ sq_buildable' = sq_buildable \cup new \cup Released(Decided \cup new, failed, new)
     /\ tasks_scenequeue_done' = DoneBelow(tasks_scenequeue_done, new)
     /\ holdoff_need_update' = TRUE

-----------------------------------------------------------------------------
\* RunQueueExecute.__init__, build_scenequeue_data, update_scenequeue_data
Init ==
  LET ends == {t \in Unskippable \ Setscene : Depends[t] = {}}
      done == Unskippable \ Setscene
      made(st) == [t \in Tasks |-> IF t \in Setscene \cap NoExec THEN "setscene" ELSE st[t]]
      skipped == {t \in Setscene : NoNeedToFetch(stamp, t)}
  IN  /\ abort \in Aborts /\ enforced \in EnforcedSets /\ number_tasks \in Threads
      /\ state = "running" /\ pc = "read"
      /\ stamp \in {made(st) : st \in InitialStamps}
      /\ scenequeue_covered = skipped /\ scenequeue_notcovered = {}
      /\ sq_running = skipped
      /\ sq_buildable = {t \in Setscene : SqRevdeps[t] = {}} \cup skipped
                        \cup Released(skipped, {}, skipped)
      /\ tasks_scenequeue_done = DoneBelow(done, skipped)
      /\ holdoff_need_update = TRUE
      /\ sq_live = {} /\ sq_active = 0 /\ scenequeue_notneeded = {}
      /\ sq_deferred = DOMAIN Twin
      /\ \E valid \in SUBSET (Setscene \ skipped) :
            outrightfail = Setscene \ (skipped \cup valid \cup sq_deferred)
      /\ sqdone = (Setscene = {})
      /\ tasks_covered = {} /\ holdoff_tasks = {}
      /\ tasks_notcovered = IF Setscene = {} THEN Tasks ELSE {}
      /\ runq_buildable = ends \cup IF Setscene = {} THEN {t \in Tasks : Depends[t] = {}} ELSE {}
      /\ runq_running = {} /\ runq_complete = {} /\ runq_tasksrun = {} /\ failed_tids = {}
      /\ live = {} /\ active = 0
      /\ updated_taskhash_queue = {} /\ pending_migrations = {} /\ remapped = {}
      /\ todo = {} /\ moved = {} /\ hardfail = {} /\ changed = FALSE

-----------------------------------------------------------------------------
(* The worker's answers, applied where the server reads its pipe. *)

Reading == pc \in {"read", "wait", "finish", "teardown"}

\* Mutant: the other dependencies are not looked at
WakeEager(t) == Revdeps(t) \ runq_running

\* setbuildable for the dependants whose last dependency t was
Wake(t) == {r \in Revdeps(t) \ runq_running : Depends[r] \subseteq runq_complete \cup {t}}

\* runqueue_process_waitpid for a setscene task.  The stamp it leaves has the
\* unihash it was started with, which need not be the one that is looked for.
SetsceneExits(t, ok) ==
  /\ Reading /\ t \in sq_live
  /\ sq_live' = sq_live \ {t} /\ sq_active' = sq_active - 1
  /\ Decide(IF ok THEN {t} ELSE {}, IF ok THEN {} ELSE {t})
  /\ stamp' = IF ok /\ t \notin remapped THEN [stamp EXCEPT ![t] = "setscene"] ELSE stamp
  /\ remapped' = remapped \ {t}
  /\ state' = IF ~ok /\ t \in enforced THEN "cleanup" ELSE state
  /\ UNCHANGED <<settings, pc, sq_deferred, outrightfail, scenequeue_notneeded, sqdone,
                 holds, runq, updated_taskhash_queue, pending_migrations, todo, moved,
                 hardfail, changed>>

\* runqueue_process_waitpid, task_complete
TaskEnds(t) ==
  /\ Reading /\ t \in live \ sq_live
  /\ live' = live \ {t} /\ active' = active - 1
  /\ runq_complete' = runq_complete \cup {t}
  /\ runq_buildable' = runq_buildable \cup Wake(t)
  /\ runq_tasksrun' = runq_tasksrun \cup {t}
  /\ stamp' = StampRun(t)
  /\ UNCHANGED <<settings, state, pc, marks, scene, holds, runq_running, failed_tids, hashes>>

\* runqueue_process_waitpid, task_fail
TaskFails(t) ==
  /\ Reading /\ t \in live \ sq_live
  /\ live' = live \ {t} /\ active' = active - 1
  /\ failed_tids' = failed_tids \cup {t}
  /\ state' = IF abort THEN "cleanup" ELSE state
  /\ UNCHANGED <<settings, pc, stamp, marks, scene, holds, runq_buildable, runq_running,
                 runq_complete, runq_tasksrun, hashes>>

\* runQueuePipe.read: a taskUniHashUpdate of a task that is about to end
HashUpdate(t) ==
  /\ pc \in {"read", "wait"} /\ t \in (live \cap Reporters) \ updated_taskhash_queue
  /\ updated_taskhash_queue' = updated_taskhash_queue \cup {t}
  /\ UNCHANGED <<control, marks, scene, holds, runq, pending_migrations, remapped, todo,
                 moved, hardfail, changed>>

-----------------------------------------------------------------------------
(* process_possible_migrations. *)

Proceed == /\ pc = "read" /\ updated_taskhash_queue \cup pending_migrations = {}
           /\ pc' = "setscene"
           /\ UNCHANGED <<settings, state, stamp, marks, scene, holds, runq, hashes>>

\* Mutant: tasks without a setscene variant too
RetriedAny(C) == C

\* Of the tasks whose hash changed, those that could now be in shared state
Retried(C) == C \cap Setscene

\* Whose unihash the update of R changes, and whose hashes depend on those
Source(R)   == R \cup {d \in sq_deferred : Twin[d] \in R}
Affected(R) == Dependants(Source(R))

\* A dependant that was installed or is being installed keeps its unihash, and
\* the server is asked to map the new hash to it
Kept == scenequeue_covered \cup sq_live

\* C are the other dependants whose unihash came out different.  X are those
\* kept, but with the server knowing another unihash for the new hash: siggen
\* goes on with that one.
Recompute(R, C, X) ==
  /\ \A c \in C \cup X : Depends[c] \cap (Source(R) \cup C \cup X) # {}
  /\ pending_migrations' = pending_migrations \cup Retried(C)
  /\ stamp' = [t \in Tasks |-> IF t \in C \cup X \cup (Source(R) \ R)
                               THEN "none" ELSE stamp[t]]
  /\ remapped' = remapped \cup (X \cap sq_live)
  /\ changed' = (C # {})

\* Queued updates are taken unless their task still runs; R is what was news
Rehash ==
  LET ready == {t \in updated_taskhash_queue : t \notin runq_running \/ t \in runq_complete}
  IN  /\ pc = "read" /\ updated_taskhash_queue \cup pending_migrations # {}
      /\ updated_taskhash_queue' = updated_taskhash_queue \ ready
      /\ \E R \in SUBSET ready :
           \E C \in SUBSET (Affected(R) \ Kept), X \in SUBSET (Affected(R) \cap Kept) :
             Recompute(R, C, X)
      /\ todo' = pending_migrations' /\ moved' = {} /\ hardfail' = {}
      /\ pc' = "migrate"
      /\ UNCHANGED <<settings, state, marks, scene, holds, runq>>

\* Mutant: running tasks are not looked for
CoveredUnseen(t) == FALSE

CoveredRunning(t) == Covers[t] \cap (runq_running \ runq_complete) # {}
CoveredSkipped(t) == Covers[t] \cap (runq_complete \ runq_tasksrun) # {}

\* Too late if the task itself runs or ran; if one it covers runs, t stays pending
MigrateSkips(t) ==
  LET late == t \in runq_running \cup sq_live
  IN  /\ pc = "migrate" /\ t \in todo /\ (late \/ CoveredRunning(t))
      /\ todo' = todo \ {t}
      /\ pending_migrations' = IF late THEN pending_migrations \ {t} ELSE pending_migrations
      /\ UNCHANGED <<control, marks, scene, holds, runq, updated_taskhash_queue, remapped,
                     moved, hardfail, changed>>

\* What t covers and the setscene queue had done with
DoneCovered(t) == (Covers[t] \cap tasks_scenequeue_done) \ (runq_complete \cup Unskippable)

\* "marked as completed but now needing to rerun?": the rest of the migration
\* is left undone, and the pass goes on
MigrateAborts(t) ==
  /\ \E D \in SUBSET DoneCovered(t) :
        tasks_scenequeue_done' = tasks_scenequeue_done \ ({t} \cup D)
  /\ failed_tids' = failed_tids \cup {t} /\ state' = "cleanup" /\ pc' = "setscene"
  /\ todo' = {}
  /\ UNCHANGED <<sq_buildable, sq_running, scenequeue_covered, scenequeue_notcovered,
                 outrightfail, scenequeue_notneeded, moved, hardfail>>

\* The setscene task goes back to the start of the setscene queue
MigrateMoves(t) ==
  LET dropped == \E h \in Setscene : t \in HardDeps[h] /\ h \in scenequeue_notcovered
      turn == (~dropped /\ SqRevdeps[t] \subseteq Decided) \/ SqRevdeps[t] = {}
  IN  /\ tasks_scenequeue_done' = tasks_scenequeue_done \ ({t} \cup DoneCovered(t))
      /\ sq_buildable' = (sq_buildable \ {t}) \cup (IF turn THEN {t} ELSE {})
      /\ sq_running' = sq_running \ {t}
      /\ outrightfail' = outrightfail \ {t}
      /\ scenequeue_covered' = scenequeue_covered \ {t}
      /\ scenequeue_notcovered' = scenequeue_notcovered \ {t}
      /\ scenequeue_notneeded' = scenequeue_notneeded \ {t}
      /\ moved' = moved \cup {t}
      /\ hardfail' = hardfail \cup (IF dropped THEN {t} ELSE {})
      /\ todo' = todo \ {t}
      /\ UNCHANGED <<state, pc, failed_tids>>

MigrateTakes(t) ==
  /\ pc = "migrate" /\ t \in todo \ (runq_running \cup sq_live) /\ ~CoveredRunning(t)
  /\ pending_migrations' = pending_migrations \ {t}
  /\ IF CoveredSkipped(t) THEN MigrateAborts(t) ELSE MigrateMoves(t)
  /\ UNCHANGED <<settings, stamp, holdoff_need_update, sq_live, sq_active, sq_deferred, sqdone,
                 holds, runq_buildable, runq_running, runq_complete, runq_tasksrun, live,
                 active, updated_taskhash_queue, remapped, changed>>

\* update_scenequeue_data for the moved tasks, which may have to wait for a
\* twin again, and the hard dependencies that are gone
MigrateEnds ==
  LET skipped == {t \in moved : NoNeedToFetch(stamp, t)}
  IN  /\ pc = "migrate" /\ todo = {} /\ pc' = "setscene"
      /\ \E D \in SUBSET (moved \cap DOMAIN Twin) : sq_deferred' = sq_deferred \cup D
      /\ \E valid \in SUBSET (moved \ skipped) :
            outrightfail' = (outrightfail \ moved)
                            \cup (moved \ (skipped \cup valid \cup Decided \cup sq_deferred'))
      /\ sqdone' = (sqdone /\ moved = {})
      /\ stamp' = [t \in Tasks |-> IF t \in moved \cap NoExec THEN "setscene" ELSE stamp[t]]
      /\ IF moved # {} THEN Decide(skipped, hardfail)
         ELSE /\ holdoff_need_update' = (holdoff_need_update \/ changed)
              /\ UNCHANGED <<sq_buildable, sq_running, scenequeue_covered,
                             scenequeue_notcovered, tasks_scenequeue_done>>
      /\ changed' = FALSE /\ moved' = {} /\ hardfail' = {}
      /\ UNCHANGED <<settings, state, sq_live, sq_active, scenequeue_notneeded, holds, runq,
                     updated_taskhash_queue, pending_migrations, remapped, todo>>

-----------------------------------------------------------------------------
(* The setscene half of execute(). *)

\* Mutant: setscene tasks are not counted
CanStartTask == active < number_tasks

\* can_start_task, of both halves together
CanStart == active + sq_active < number_tasks

\* "return True": the next call reads, or the new state is acted upon
Return == pc' = IF state' = "running" THEN "read"
                ELSE IF state' = "cleanup" THEN "finish" ELSE "teardown"

Waiting == {t \in sq_buildable \ sq_running : ~sqdone /\ CanStart}
Deferred(t) == t \in sq_deferred /\ Twin[t] \notin runq_complete

\* Mutant: also what the end of the build is made of
NeedlessAny(t) == t \notin Targets /\ SqRevdeps[t] # {} /\ SqRevdeps[t] \subseteq scenequeue_covered

\* Everything that would use it is installed, and the metadata
\* (depvalidate) says that then it is not needed
Needless(t) == /\ t \notin Unskippable \cup Targets /\ SqRevdeps[t] # {}
               /\ SqRevdeps[t] \subseteq scenequeue_covered

SetsceneUnneeded(t) ==
  /\ pc = "setscene" /\ t \in Waiting /\ Needless(t)
  /\ Decide({t}, {})
  /\ scenequeue_notneeded' = scenequeue_notneeded \cup {t}
  /\ sq_deferred' = sq_deferred \ {t}
  /\ UNCHANGED <<settings, state, stamp, sq_live, sq_active, outrightfail, sqdone, holds, runq,
                 hashes>>
  /\ Return

\* There is no package, the twin did not produce one, or the task itself is
\* built already; or the setscene stamp is current
SetsceneSettles(t) ==
  /\ pc = "setscene" /\ t \in Waiting /\ ~Deferred(t)
  /\ \E valid \in BOOLEAN :
       LET fails == (t \in sq_deferred /\ ~valid) \/ t \in outrightfail \/ StampTrusted(stamp, t)
       IN  /\ fails \/ stamp[t] = "setscene"
           /\ IF fails THEN Decide({}, {t}) ELSE Decide({t}, {})
  /\ sq_deferred' = sq_deferred \ {t}
  /\ UNCHANGED <<settings, state, stamp, sq_live, sq_active, outrightfail, scenequeue_notneeded,
                 sqdone, holds, runq, hashes>>
  /\ Return

SetsceneStarts(t) ==
  /\ pc = "setscene" /\ t \in Waiting \ outrightfail /\ ~Deferred(t)
  /\ ~StampTrusted(stamp, t) /\ stamp[t] # "setscene"
  /\ sq_deferred' = sq_deferred \ {t}
  /\ sq_running' = sq_running \cup {t}
  /\ sq_live' = sq_live \cup {t} /\ sq_active' = sq_active + 1
  /\ UNCHANGED <<settings, state, stamp, sq_buildable, scenequeue_covered, scenequeue_notcovered,
                 tasks_scenequeue_done, holdoff_need_update, outrightfail,
                 scenequeue_notneeded, sqdone, holds, runq, hashes>>
  /\ IF CanStart' THEN Return ELSE pc' = "holdoff"

SetsceneNone ==
  /\ pc = "setscene" /\ \A t \in Waiting : Deferred(t)
  /\ pc' = "holdoff"
  /\ UNCHANGED <<settings, state, stamp, marks, scene, holds, runq, hashes>>

\* What summarise_scenequeue_errors complains of
SetsceneErrors ==
  \/ sq_deferred # {} \/ updated_taskhash_queue # {} \/ holdoff_tasks # {}
  \/ \E t \in Setscene : t \notin Decided \/ t \notin sq_buildable \/ t \notin sq_running
  \/ \E t \in Tasks : \/ t \notin tasks_covered \cup tasks_notcovered
                      \/ t \notin tasks_scenequeue_done
                      \/ Depends[t] = {} /\ t \notin runq_buildable

\* update_holdofftasks: which tasks are covered and which have to be run, as
\* far as that is known, and which have to be held until it is
HoldoffUpdate ==
  LET notcovered == tasks_scenequeue_done \cap
                    (scenequeue_notcovered \cup CantSkip
                     \cup (UNION {Covers[t] : t \in scenequeue_notcovered})
                     \cup (Unskippable \ Setscene))
      covered    == (tasks_scenequeue_done \cap
                     (scenequeue_covered \cup (UNION {Covers[t] : t \in scenequeue_covered})))
                    \ notcovered
      undecided  == Setscene \ Decided
  IN  /\ tasks_covered' = covered /\ tasks_notcovered' = notcovered
      /\ runq_buildable' = runq_buildable \cup
                           {t \in covered \cup notcovered : Depends[t] \subseteq runq_complete}
      /\ holdoff_tasks' = undecided
                          \cup ((UNION {Covers[t] : t \in undecided}) \ runq_complete)
      /\ holdoff_need_update' = FALSE

\* update_holdofftasks and the end of the setscene half
Holdoff ==
  /\ pc = "holdoff"
  /\ UNCHANGED <<settings, stamp, sq_buildable, sq_running, scenequeue_covered,
                 scenequeue_notcovered, tasks_scenequeue_done, sq_live, sq_active,
                 sq_deferred, outrightfail, scenequeue_notneeded, runq_running,
                 runq_complete, runq_tasksrun, failed_tids, live, active, hashes>>
  /\ IF holdoff_need_update THEN HoldoffUpdate
     ELSE UNCHANGED <<holds, runq_buildable, holdoff_need_update>>
  /\ IF /\ sq_live = {} /\ ~sqdone /\ sq_deferred = {} /\ updated_taskhash_queue = {}
        /\ holdoff_tasks' = {}
     THEN IF SetsceneErrors'
          THEN state' = "failed" /\ sqdone' = sqdone /\ Return
          ELSE state' = state /\ sqdone' = TRUE /\ pc' = "task"
     ELSE UNCHANGED <<state, sqdone>> /\ pc' = "task"

-----------------------------------------------------------------------------
(* The other half. *)

\* Mutant: a task that failed is offered again
BuildableAgain == {t \in (runq_buildable \ ((runq_running \ failed_tids) \cup holdoff_tasks))
                         \cap (tasks_covered \cup tasks_notcovered) : CanStart}

\* RunQueueScheduler.next, in any order of priority
Buildable == {t \in (runq_buildable \ (runq_running \cup holdoff_tasks))
                    \cap (tasks_covered \cup tasks_notcovered) : CanStart}

\* check_setscenewhitelist
Unexpected(t) == /\ t \in enforced \ (tasks_covered \cup NoExec)
                 /\ ~StampCurrent(t)

\* task_fail of a task that was never counted as active.  Below -Cardinality(Tasks)
\* the count makes no difference any more.
Refuse(t) ==
  /\ pc = "task" /\ t \in Buildable /\ Unexpected(t)
  /\ active' = IF active > -Cardinality(Tasks) THEN active - 1 ELSE active
  /\ failed_tids' = failed_tids \cup {t}
  /\ state' = IF abort THEN "cleanup" ELSE state
  /\ UNCHANGED <<settings, stamp, marks, scene, holds, runq_buildable, runq_running,
                 runq_complete, runq_tasksrun, live, hashes>>
  /\ Return

\* task_skip, and task_complete of a task that nothing is run for
Finished(t) == /\ runq_running' = runq_running \cup {t}
               /\ runq_complete' = runq_complete \cup {t}
               /\ runq_buildable' = runq_buildable \cup {t} \cup Wake(t)
               /\ UNCHANGED <<settings, state, marks, scene, holds, failed_tids, live, active, hashes>>

SkipCovered(t) ==
  /\ pc = "task" /\ t \in Buildable \cap tasks_covered
  /\ Finished(t) /\ Return /\ UNCHANGED <<stamp, runq_tasksrun>>

SkipExisting(t) ==
  /\ pc = "task" /\ t \in Buildable \ tasks_covered /\ StampCurrent(t)
  /\ runq_tasksrun' = runq_tasksrun \cup {t}
  /\ Finished(t) /\ Return /\ UNCHANGED stamp

RunNoExec(t) ==
  /\ pc = "task" /\ t \in (Buildable \cap NoExec) \ tasks_covered /\ ~StampCurrent(t)
  /\ runq_tasksrun' = runq_tasksrun \cup {t}
  /\ stamp' = StampRun(t)
  /\ Finished(t) /\ Return

Starts(t) ==
  /\ pc = "task" /\ t \in Buildable \ (tasks_covered \cup NoExec)
  /\ ~StampCurrent(t) /\ ~Unexpected(t)
  /\ runq_running' = runq_running \cup {t}
  /\ live' = live \cup {t} /\ active' = active + 1
  /\ UNCHANGED <<settings, state, stamp, marks, scene, holds, runq_buildable, runq_complete,
                 runq_tasksrun, failed_tids, hashes>>
  /\ IF CanStart' THEN Return ELSE pc' = "wait"

\* Nothing to start: read the workers before the next call
Waits == /\ pc = "task" /\ Buildable = {} /\ (active > 0 \/ sq_active > 0)
         /\ pc' = "wait"
         /\ UNCHANGED <<settings, state, stamp, marks, scene, holds, runq, hashes>>

Again == /\ pc = "wait" /\ state' = state /\ Return
         /\ UNCHANGED <<settings, stamp, marks, scene, holds, runq, hashes>>

Stuck == pc = "task" /\ Buildable = {} /\ active <= 0 /\ sq_active <= 0

\* Mutant: the entry is not dropped
ForceKept(t) ==
  /\ Stuck /\ t \in sq_deferred
  /\ Decide({}, {Twin[t]})
  /\ UNCHANGED <<settings, state, stamp, sq_deferred, sq_live, sq_active, outrightfail,
                 scenequeue_notneeded, sqdone, holds, runq, hashes>>
  /\ Return

\* "deadlocked on deferred tasks, forcing task": the entry of t is dropped,
\* and the task that is failed is the one it was waiting for
ForceDeferred(t) ==
  /\ Stuck /\ t \in sq_deferred
  /\ sq_deferred' = sq_deferred \ {t}
  /\ Decide({}, {Twin[t]})
  /\ UNCHANGED <<settings, state, stamp, sq_live, sq_active, outrightfail, scenequeue_notneeded,
                 sqdone, holds, runq, hashes>>
  /\ Return

\* The sanity checks at the end of execute()
BuildErrors == SetsceneErrors \/ ~(Tasks \subseteq runq_buildable \cap runq_running \cap runq_complete)

Ends == /\ Stuck /\ sq_deferred = {}
        /\ state' = IF failed_tids # {} \/ BuildErrors THEN "failed" ELSE "complete"
        /\ UNCHANGED <<settings, stamp, marks, scene, holds, runq, hashes>>
        /\ Return

-----------------------------------------------------------------------------
(* Stopping. *)

Result == IF failed_tids # {} THEN "failed" ELSE "complete"

\* finish: the tasks with the worker are waited for
Finish == /\ pc = "finish" /\ state = "cleanup" /\ active + sq_active <= 0
          /\ state' = Result /\ Return
          /\ UNCHANGED <<settings, stamp, marks, scene, holds, runq, hashes>>

\* The user stops the build: finish_runqueue(False), finish_runqueue(True)
Shutdown == /\ pc = "read" /\ state = "running" /\ "finish" \in Interrupts
            /\ state' = "cleanup" /\ Return
            /\ UNCHANGED <<settings, stamp, marks, scene, holds, runq, hashes>>

ForceShutdown == /\ pc \in {"read", "finish"} /\ state \in {"running", "cleanup"}
                 /\ "finishnow" \in Interrupts
                 /\ state' = Result /\ Return
                 /\ UNCHANGED <<settings, stamp, marks, scene, holds, runq, hashes>>

\* teardown_workers still reads the pipes; a failure read there puts the
\* state back to cleanup, and execute_runqueue is called once more
Teardown == /\ pc = "teardown"
            /\ pc' = IF state = "cleanup" THEN "left" ELSE "ended"
            /\ UNCHANGED <<settings, state, stamp, marks, scene, holds, runq, hashes>>

\* That call has no worker to read from: finish() gives back no descriptors for
\* tasks it thinks are running, which buildTargetsIdle takes for the end
FinishLeft == /\ pc = "left" /\ state = "cleanup" /\ pc' = "ended"
              /\ \/ state' = IF active + sq_active <= 0 THEN Result ELSE state
                 \/ "finishnow" \in Interrupts /\ state' = Result
              /\ UNCHANGED <<settings, stamp, marks, scene, holds, runq, hashes>>

Ended == pc = "ended" /\ UNCHANGED vars

-----------------------------------------------------------------------------
Migrate == \/ Proceed \/ Rehash \/ MigrateEnds
           \/ \E t \in Setscene : MigrateSkips(t) \/ MigrateTakes(t)

SetsceneStep == \/ SetsceneNone
                \/ \E t \in Setscene : \/ SetsceneUnneeded(t) \/ SetsceneSettles(t)
                                       \/ SetsceneStarts(t)

TaskStep == \/ Waits \/ Again \/ Ends
            \/ \E t \in Tasks : \/ Refuse(t) \/ SkipCovered(t) \/ SkipExisting(t)
                                \/ RunNoExec(t) \/ Starts(t)
            \/ \E t \in Setscene : ForceDeferred(t)

\* One step of the server's only thread
Execute == Migrate \/ SetsceneStep \/ Holdoff \/ TaskStep \/ Finish \/ Teardown \/ FinishLeft

Exits(t) == TaskEnds(t) \/ TaskFails(t) \/ \E ok \in BOOLEAN : SetsceneExits(t, ok)

Next == \/ Execute \/ Ended \/ Shutdown \/ ForceShutdown
        \/ \E t \in Tasks : Exits(t) \/ HashUpdate(t)

Spec == Init /\ [][Next]_vars

\* The idle loop calls execute() again and again; tasks end, and what the
\* worker writes is sooner or later found by one of the reads
FairSpec == Spec /\ WF_vars(Execute) /\ SF_vars(\E t \in Tasks : Exits(t))

-----------------------------------------------------------------------------
(* Properties. *)

TypeOK ==
  /\ abort \in BOOLEAN /\ enforced \subseteq Tasks /\ number_tasks \in Nat \ {0}
  /\ state \in {"running", "cleanup", "failed", "complete"}
  /\ pc \in {"read", "migrate", "setscene", "holdoff", "task", "wait", "finish",
             "teardown", "left", "ended"}
  /\ stamp \in [Tasks -> Stamps]
  /\ sq_buildable \subseteq Setscene /\ sq_running \subseteq Setscene
  /\ scenequeue_covered \subseteq Setscene /\ scenequeue_notcovered \subseteq Setscene
  /\ tasks_scenequeue_done \subseteq Tasks /\ holdoff_need_update \in BOOLEAN
  /\ sq_live \subseteq Setscene /\ sq_active \in Int
  /\ sq_deferred \subseteq DOMAIN Twin /\ outrightfail \subseteq Setscene
  /\ scenequeue_notneeded \subseteq Setscene /\ sqdone \in BOOLEAN
  /\ tasks_covered \subseteq Tasks /\ tasks_notcovered \subseteq Tasks
  /\ holdoff_tasks \subseteq Tasks
  /\ runq_buildable \subseteq Tasks /\ runq_running \subseteq Tasks
  /\ runq_complete \subseteq Tasks /\ runq_tasksrun \subseteq Tasks
  /\ failed_tids \subseteq Tasks /\ live \subseteq Tasks /\ active \in Int
  /\ updated_taskhash_queue \subseteq Tasks /\ pending_migrations \subseteq Setscene
  /\ remapped \subseteq Setscene
  /\ todo \subseteq Setscene /\ moved \subseteq Setscene /\ hardfail \subseteq Setscene
  /\ changed \in BOOLEAN

\* Installed: its setscene task was run, or left its stamp earlier
Installed == scenequeue_covered \ scenequeue_notneeded

\* A task only runs on inputs that exist: each dependency was run, or was
\* installed from shared state.  One that was only skipped because something
\* above it was installed will not do.
InputsExist == \A t \in live : Depends[t] \subseteq runq_tasksrun \cup Installed

\* The task graph is followed: whatever order the setscene queue, the skips
\* and the workers make, a task is only started, and only dealt with, after
\* everything it depends on was dealt with.
InOrder == \A t \in live \cup runq_complete : Depends[t] \subseteq runq_complete

\* While a setscene task installs, neither its task nor any task it stands
\* for is running ("If covered tasks are running, need to wait for them").
OneVariant == \A s \in sq_live : live \cap ({s} \cup Covers[s]) = {}

\* A setscene task is only installed after those it needs were.
HardDepsFirst == \A s \in sq_live, h \in Setscene : s \in HardDeps[h] => h \in scenequeue_covered

\* No task is in both covered and uncovered ("that is a bug").
NotBoth == scenequeue_covered \cap scenequeue_notcovered = {}

\* What is decided about setscene tasks fits together, whichever of the two it concerns.
SetsceneSound == HardDepsFirst /\ NotBoth

\* The statistics are what the worker was given, and never more than
\* BB_NUMBER_THREADS tasks are.
Counted ==
  enforced = {} => /\ active = Cardinality(live) /\ sq_active = Cardinality(sq_live)
                   /\ Cardinality(live) + Cardinality(sq_live) <= number_tasks

\* A build only fails because a task of it did: the internal checks of the
\* scenequeue, of the migrations and of the run queue never find anything.
NoInternalError ==
  /\ state = "failed" => failed_tids # {}
  /\ enforced = {} => failed_tids \subseteq runq_running \ runq_complete

\* A build that was not stopped and succeeded has everything: every task is
\* dealt with, and the targets and what they are made of were run or installed.
CompleteIsBuilt ==
  (state = "complete" /\ Interrupts = {} /\ enforced = {}) =>
     /\ runq_complete = Tasks /\ sq_live \cup live = {}
     /\ Unskippable \subseteq runq_tasksrun \cup Installed

\* Work is not repeated: no task is started that was run, was skipped, failed,
\* or was installed; no setscene task is started whose task was run.
NotRepeated ==
  [][/\ \A t \in live' \ live : t \notin runq_running \cup scenequeue_covered
     /\ \A s \in sq_live' \ sq_live : s \notin runq_running \cup scenequeue_covered]_vars

\* Every build ends, unless tasks are refused that -k goes on trying.
BuildEnds == (abort \/ enforced = {}) => <>(pc = "ended")
=============================================================================
