--------------------------- MODULE RunQueueProofs ---------------------------
(* What RunQueue promises of every task graph. *)
EXTENDS RunQueue, FiniteSetTheorems, TLAPS

-----------------------------------------------------------------------------
(* The operators that decide setscene tasks stay within them. *)

\* A closure never leaves a set that holds its seed and that Step keeps to:
\* the failures that hard dependencies spread (sq_task_failoutright) are
\* failures of setscene tasks.
LEMMA FailingType ==
  ASSUME NEW decided, NEW st, NEW fail \in SUBSET Setscene
  PROVE  Failing(decided, st, fail) \subseteq Setscene
<1>1. Setscene \in SUBSET Tasks  BY GraphAssumption
<1>2. \A s : SqDeps(s) \subseteq Setscene  BY DEF SqDeps
<1> QED  BY <1>1, <1>2 DEF Failing, Closure

\* Done with are only tasks of the graph.
LEMMA DoneBelowType ==
  ASSUME NEW done \in SUBSET Tasks, NEW new
  PROVE  DoneBelow(done, new) \subseteq Tasks
BY DEF DoneBelow, Closure

\* Whatever is decided, the marks stay sets of setscene tasks, and none of
\* those that were started becomes unstarted.
LEMMA DecideType ==
  ASSUME TypeOK, NEW cov \in SUBSET Setscene, NEW fail \in SUBSET Setscene, Decide(cov, fail)
  PROVE  /\ sq_buildable' \subseteq Setscene /\ sq_running' \subseteq Setscene
         /\ scenequeue_covered' \subseteq Setscene /\ scenequeue_notcovered' \subseteq Setscene
         /\ tasks_scenequeue_done' \subseteq Tasks /\ holdoff_need_update' \in BOOLEAN
         /\ sq_running \subseteq sq_running'
<1> DEFINE failed == Failing(Decided \cup cov, stamp, fail)
           new == cov \cup failed
<1>1. failed \subseteq Setscene  BY FailingType
<1>2. Released(Decided \cup new, failed, new) \subseteq Setscene  BY DEF Released
<1>3. DoneBelow(tasks_scenequeue_done, new) \subseteq Tasks  BY DoneBelowType DEF TypeOK
<1>4. /\ scenequeue_covered' = scenequeue_covered \cup cov
      /\ scenequeue_notcovered' = scenequeue_notcovered \cup failed
      /\ sq_running' = sq_running \cup new
      /\ sq_buildable' = sq_buildable \cup new \cup Released(Decided \cup new, failed, new)
      /\ tasks_scenequeue_done' = DoneBelow(tasks_scenequeue_done, new)
      /\ holdoff_need_update' = TRUE
  BY DEF Decide
<1> HIDE DEF failed
<1> QED  BY <1>1, <1>2, <1>3, <1>4 DEF TypeOK

-----------------------------------------------------------------------------
(* Types *)

LEMMA InitType == Init => TypeOK
<1> SUFFICES ASSUME Init PROVE TypeOK  OBVIOUS
<1> DEFINE skipped == {t \in Setscene : NoNeedToFetch(stamp, t)}
           done == Unskippable \ Setscene
<1>1. stamp \in [Tasks -> Stamps]
  BY GraphAssumption DEF Init, Stamps
<1>2. tasks_scenequeue_done \subseteq Tasks
  <2>1. done \in SUBSET Tasks  BY DEF Unskippable, Closure
  <2>2. DoneBelow(done, skipped) \subseteq Tasks  BY <2>1, DoneBelowType
  <2> QED  BY <2>2 DEF Init
<1>3. /\ sq_buildable \subseteq Setscene /\ sq_running \subseteq Setscene
      /\ scenequeue_covered \subseteq Setscene /\ scenequeue_notcovered \subseteq Setscene
      /\ sq_deferred \subseteq DOMAIN Twin /\ outrightfail \subseteq Setscene
  BY DEF Init, Released
<1>4. runq_buildable \subseteq Tasks
  <2>1. Unskippable \subseteq Tasks  BY DEF Unskippable, Closure
  <2> QED  BY <2>1 DEF Init
<1>5. /\ abort \in BOOLEAN /\ enforced \subseteq Tasks /\ number_tasks \in Nat \ {0}
      /\ sqdone \in BOOLEAN /\ holdoff_need_update \in BOOLEAN /\ changed \in BOOLEAN
  BY GraphAssumption, SizeAssumption DEF Init
<1>6. /\ scenequeue_notneeded = {} /\ tasks_covered = {} /\ tasks_notcovered \subseteq Tasks
      /\ holdoff_tasks = {} /\ runq_running = {} /\ runq_complete = {} /\ runq_tasksrun = {}
      /\ failed_tids = {} /\ live = {} /\ updated_taskhash_queue = {}
      /\ pending_migrations = {} /\ remapped = {} /\ todo = {} /\ moved = {} /\ hardfail = {}
      /\ sq_live = {} /\ sq_active = 0 /\ active = 0 /\ state = "running" /\ pc = "read"
  BY DEF Init
<1> QED
  BY <1>1, <1>2, <1>3, <1>4, <1>5, <1>6 DEF TypeOK

LEMMA ExitsType ==
  ASSUME TypeOK, NEW t \in Tasks, Exits(t) \/ HashUpdate(t)
  PROVE  TypeOK'
<1>1. ASSUME NEW ok \in BOOLEAN, SetsceneExits(t, ok) PROVE TypeOK'
  <2>1. t \in Setscene  BY <1>1 DEF SetsceneExits, TypeOK
  <2>2. PICK cov \in SUBSET Setscene, fail \in SUBSET Setscene : Decide(cov, fail)
    BY <1>1, <2>1 DEF SetsceneExits
  <2>3. /\ sq_buildable' \subseteq Setscene /\ sq_running' \subseteq Setscene
        /\ scenequeue_covered' \subseteq Setscene /\ scenequeue_notcovered' \subseteq Setscene
        /\ tasks_scenequeue_done' \subseteq Tasks /\ holdoff_need_update' \in BOOLEAN
    BY <2>2, DecideType
  <2>4. stamp' \in [Tasks -> Stamps] /\ remapped' \subseteq Setscene
    BY <1>1 DEF SetsceneExits, TypeOK, Stamps
  <2> QED
    BY <1>1, <2>3, <2>4 DEF SetsceneExits, TypeOK, settings, holds, runq
<1>2. CASE TaskEnds(t)
  <2>1. Wake(t) \subseteq Tasks  BY DEF Wake, Revdeps
  <2>2. StampRun(t) \in [Tasks -> Stamps]  BY DEF TypeOK, StampRun, Stamps
  <2> QED
    BY <1>2, <2>1, <2>2 DEF TaskEnds, TypeOK, settings, marks, scene, holds, hashes
<1>3. CASE TaskFails(t)
  BY <1>3 DEF TaskFails, TypeOK, settings, marks, scene, holds, hashes
<1>4. CASE HashUpdate(t)
  BY <1>4 DEF HashUpdate, TypeOK, control, settings, marks, scene, holds, runq
<1> QED  BY <1>1, <1>2, <1>3, <1>4 DEF Exits

LEMMA MigrateType ==
  ASSUME TypeOK, Migrate
  PROVE  TypeOK'
<1>1. CASE Proceed
  BY <1>1 DEF Proceed, TypeOK, settings, marks, scene, holds, runq, hashes
<1>2. CASE Rehash
  <2>1. PICK R, C, X : Recompute(R, C, X)  BY <1>2 DEF Rehash
  <2>2. stamp' \in [Tasks -> Stamps] /\ remapped' \subseteq Setscene
    BY <2>1 DEF Recompute, TypeOK, Stamps
  <2>3. pending_migrations' \subseteq Setscene /\ changed' \in BOOLEAN
    BY <2>1 DEF Recompute, Retried, TypeOK
  <2> QED
    BY <1>2, <2>2, <2>3 DEF Rehash, TypeOK, settings, marks, scene, holds, runq
<1>3. CASE MigrateEnds
  <2> DEFINE skipped == {t \in moved : NoNeedToFetch(stamp, t)}
  <2>1. /\ sq_buildable' \subseteq Setscene /\ sq_running' \subseteq Setscene
        /\ scenequeue_covered' \subseteq Setscene /\ scenequeue_notcovered' \subseteq Setscene
        /\ tasks_scenequeue_done' \subseteq Tasks /\ holdoff_need_update' \in BOOLEAN
    <3>1. CASE moved # {}
      <4>1. Decide(skipped, hardfail)  BY <1>3, <3>1 DEF MigrateEnds
      <4>2. skipped \in SUBSET Setscene /\ hardfail \in SUBSET Setscene  BY DEF TypeOK
      <4> QED  BY <4>1, <4>2, DecideType
    <3>2. CASE moved = {}
      BY <1>3, <3>2 DEF MigrateEnds, TypeOK
    <3> QED  BY <3>1, <3>2
  <2>2. sq_deferred' \subseteq DOMAIN Twin  BY <1>3 DEF MigrateEnds, TypeOK
  <2>3. outrightfail' \subseteq Setscene  BY <1>3 DEF MigrateEnds, TypeOK
  <2>4. stamp' \in [Tasks -> Stamps] /\ sqdone' \in BOOLEAN  
    BY <1>3 DEF MigrateEnds, TypeOK, Stamps
  <2> QED
    BY <1>3, <2>1, <2>2, <2>3, <2>4 DEF MigrateEnds, TypeOK, settings, holds, runq
<1>4. ASSUME NEW t \in Setscene, MigrateSkips(t) PROVE TypeOK'
  BY <1>4 DEF MigrateSkips, TypeOK, control, settings, marks, scene, holds, runq
<1>5. ASSUME NEW t \in Setscene, MigrateTakes(t) PROVE TypeOK'
  <2>1. t \in Tasks  BY GraphAssumption
  <2>2. CASE MigrateAborts(t)
    BY <1>5, <2>1, <2>2 DEF MigrateTakes, MigrateAborts, TypeOK, settings, holds
  <2>3. CASE MigrateMoves(t)
    BY <1>5, <2>1, <2>3 DEF MigrateTakes, MigrateMoves, TypeOK, settings, holds
  <2> QED  BY <1>5, <2>2, <2>3 DEF MigrateTakes
<1> QED  BY <1>1, <1>2, <1>3, <1>4, <1>5 DEF Migrate

LEMMA SetsceneType ==
  ASSUME TypeOK, SetsceneStep
  PROVE  TypeOK'
<1>1. CASE SetsceneNone
  BY <1>1 DEF SetsceneNone, TypeOK, settings, marks, scene, holds, runq, hashes
<1>2. ASSUME NEW t \in Setscene, NEW cov \in SUBSET Setscene, NEW fail \in SUBSET Setscene,
             Decide(cov, fail), SetsceneUnneeded(t) \/ SetsceneSettles(t)
      PROVE  TypeOK'
  <2>1. /\ sq_buildable' \subseteq Setscene /\ sq_running' \subseteq Setscene
        /\ scenequeue_covered' \subseteq Setscene /\ scenequeue_notcovered' \subseteq Setscene
        /\ tasks_scenequeue_done' \subseteq Tasks /\ holdoff_need_update' \in BOOLEAN
    BY <1>2, DecideType
  <2>2. pc' \in {"read", "finish", "teardown"}
    BY <1>2 DEF SetsceneUnneeded, SetsceneSettles, Return
  <2>3. CASE SetsceneUnneeded(t)
    BY <2>1, <2>2, <2>3 DEF SetsceneUnneeded, TypeOK, settings, holds, runq, hashes
  <2>4. CASE SetsceneSettles(t)
    BY <2>1, <2>2, <2>4 DEF SetsceneSettles, TypeOK, settings, holds, runq, hashes
  <2> QED  BY <1>2, <2>3, <2>4
<1>3. ASSUME NEW t \in Setscene, SetsceneUnneeded(t) PROVE TypeOK'
  <2>1. Decide({t}, {})  BY <1>3 DEF SetsceneUnneeded
  <2> QED  BY <1>2, <1>3, <2>1
<1>4. ASSUME NEW t \in Setscene, SetsceneSettles(t) PROVE TypeOK'
  <2>1. Decide({}, {t}) \/ Decide({t}, {})  BY <1>4 DEF SetsceneSettles
  <2> QED  BY <1>2, <1>4, <2>1
<1>5. ASSUME NEW t \in Setscene, SetsceneStarts(t) PROVE TypeOK'
  <2>1. pc' \in {"read", "finish", "teardown", "holdoff"}  BY <1>5 DEF SetsceneStarts, Return
  <2> QED
    BY <1>5, <2>1 DEF SetsceneStarts, TypeOK, settings, holds, runq, hashes
<1> QED  BY <1>1, <1>3, <1>4, <1>5 DEF SetsceneStep

LEMMA HoldoffType ==
  ASSUME TypeOK, Holdoff
  PROVE  TypeOK'
<1>1. /\ tasks_covered' \subseteq Tasks /\ tasks_notcovered' \subseteq Tasks
      /\ runq_buildable' \subseteq Tasks /\ holdoff_need_update' \in BOOLEAN
      /\ holdoff_tasks' \subseteq Tasks
  <2>1. CASE HoldoffUpdate
    <3>1. \A s \in Setscene : Covers[s] \subseteq Tasks  BY DEF Covers, Closure
    <3> DEFINE undecided == Setscene \ Decided
    <3>2. undecided \cup ((UNION {Covers[s] : s \in undecided}) \ runq_complete) \subseteq Tasks
      BY <3>1, GraphAssumption
    <3>3. holdoff_tasks' \subseteq Tasks
      BY <2>1, <3>2 DEF HoldoffUpdate
    <3>4. /\ tasks_covered' \subseteq Tasks /\ tasks_notcovered' \subseteq Tasks
          /\ holdoff_need_update' = FALSE
      BY <2>1 DEF HoldoffUpdate, TypeOK
    <3>5. runq_buildable' \subseteq runq_buildable \cup tasks_covered' \cup tasks_notcovered'
      BY <2>1 DEF HoldoffUpdate
    <3> QED  BY <3>3, <3>4, <3>5 DEF TypeOK
  <2>2. CASE UNCHANGED <<holds, runq_buildable, holdoff_need_update>>
    BY <2>2 DEF holds, TypeOK
  <2> QED  BY <2>1, <2>2 DEF Holdoff
<1>2. /\ state' \in {"running", "cleanup", "failed", "complete"} /\ sqdone' \in BOOLEAN
      /\ pc' \in {"read", "finish", "teardown", "task"}
  BY DEF Holdoff, Return, TypeOK
<1> QED
  BY <1>1, <1>2 DEF Holdoff, TypeOK, settings, hashes

LEMMA TaskType ==
  ASSUME TypeOK, TaskStep \/ Finish \/ Teardown \/ FinishLeft \/ Shutdown \/ ForceShutdown
  PROVE  TypeOK'
<1>1. CASE Waits \/ Again \/ Ends
  <2>1. state' \in {"running", "cleanup", "failed", "complete"}  
    BY <1>1 DEF Waits, Again, Ends, TypeOK
  <2>2. pc' \in {"read", "finish", "teardown", "wait"}  BY <1>1 DEF Waits, Again, Ends, Return
  <2> QED
    BY <1>1, <2>1, <2>2
    DEF Waits, Again, Ends, TypeOK, settings, marks, scene, holds, runq, hashes
<1>2. CASE Finish \/ Teardown \/ FinishLeft \/ Shutdown \/ ForceShutdown
  <2>1. state' \in {"running", "cleanup", "failed", "complete"}
    BY <1>2 DEF Finish, Teardown, FinishLeft, Shutdown, ForceShutdown, Result, TypeOK
  <2>2. pc' \in {"read", "finish", "teardown", "left", "ended"}
    BY <1>2 DEF Finish, Teardown, FinishLeft, Shutdown, ForceShutdown, Return
  <2> QED
    BY <1>2, <2>1, <2>2
    DEF Finish, Teardown, FinishLeft, Shutdown, ForceShutdown, TypeOK, settings, marks, scene, holds, runq, hashes
<1>3. ASSUME NEW t \in Tasks, Refuse(t) PROVE TypeOK'
  <2>1. pc' \in {"read", "finish", "teardown"}  BY <1>3 DEF Refuse, Return
  <2> QED
    BY <1>3, <2>1 DEF Refuse, TypeOK, settings, marks, scene, holds, hashes
<1>4. ASSUME NEW t \in Tasks, SkipCovered(t) \/ SkipExisting(t) \/ RunNoExec(t) PROVE TypeOK'
  <2>1. Wake(t) \subseteq Tasks  BY DEF Wake, Revdeps
  <2>2. pc' \in {"read", "finish", "teardown"}
    BY <1>4 DEF SkipCovered, SkipExisting, RunNoExec, Return
  <2>3. stamp' \in [Tasks -> Stamps]
    BY <1>4 DEF SkipCovered, SkipExisting, RunNoExec, StampRun, TypeOK, Stamps
  <2>4. Finished(t) /\ runq_tasksrun' \subseteq Tasks
    BY <1>4 DEF SkipCovered, SkipExisting, RunNoExec, TypeOK
  <2> QED
    BY <2>1, <2>2, <2>3, <2>4 DEF Finished, TypeOK, settings, marks, scene, holds, hashes
<1>5. ASSUME NEW t \in Tasks, Starts(t) PROVE TypeOK'
  <2>1. pc' \in {"read", "finish", "teardown", "wait"}  BY <1>5 DEF Starts, Return
  <2> QED
    BY <1>5, <2>1 DEF Starts, TypeOK, settings, marks, scene, holds, hashes
<1>6. ASSUME NEW t \in Setscene, ForceDeferred(t) PROVE TypeOK'
  <2>1. pc' \in {"read", "finish", "teardown"}  BY <1>6 DEF ForceDeferred, Return
  <2>2. {Twin[t]} \in SUBSET Setscene /\ Decide({}, {Twin[t]})
    BY <1>6, TwinAssumption DEF ForceDeferred, TypeOK
  <2>3. /\ sq_buildable' \subseteq Setscene /\ sq_running' \subseteq Setscene
        /\ scenequeue_covered' \subseteq Setscene /\ scenequeue_notcovered' \subseteq Setscene
        /\ tasks_scenequeue_done' \subseteq Tasks /\ holdoff_need_update' \in BOOLEAN
    BY <2>2, DecideType
  <2> QED
    BY <1>6, <2>1, <2>3 DEF ForceDeferred, TypeOK, settings, holds, runq, hashes
<1> QED
  BY <1>1, <1>2, <1>3, <1>4, <1>5, <1>6 DEF TaskStep

\* The next step's type, for the proofs of the other invariants.
LEMMA NextType == TypeOK /\ [Next]_vars => TypeOK'
<1> SUFFICES ASSUME TypeOK, [Next]_vars PROVE TypeOK'  OBVIOUS
<1>1. CASE UNCHANGED vars
  BY <1>1 DEF TypeOK, vars, control, settings, marks, scene, holds, runq, hashes
<1>2. CASE Ended
  BY <1>2 DEF Ended, TypeOK, vars, control, settings, marks, scene, holds, runq, hashes
<1> QED
  BY <1>1, <1>2, ExitsType, MigrateType, SetsceneType, HoldoffType, TaskType DEF Next, Execute

\* Every variable of the run queue keeps its type: no step marks anything but
\* a task of the graph, or anything but a setscene task in the setscene queue.
THEOREM TypeCorrect == Spec => []TypeOK
BY InitType, NextType, PTL DEF Spec

-----------------------------------------------------------------------------
(* The statistics.  What is with the worker was marked as running before and  *)
(* is started once, which is what makes the counts exact.                     *)

counters == <<live, active, sq_live, sq_active, enforced, number_tasks>>

Counting ==
  /\ TypeOK
  /\ live \subseteq runq_running /\ sq_live \subseteq sq_running
  /\ sq_active = Cardinality(sq_live)
  /\ enforced = {} => active = Cardinality(live) /\ active + sq_active <= number_tasks
  /\ failed_tids = {} => active = Cardinality(live)

LEMMA FiniteTasks ==
  ASSUME TypeOK
  PROVE  /\ IsFiniteSet(live) /\ IsFiniteSet(sq_live)
         /\ Cardinality(live) \in Nat /\ Cardinality(sq_live) \in Nat
<1>1. live \subseteq Tasks /\ sq_live \subseteq Tasks  BY GraphAssumption DEF TypeOK
<1> QED  BY <1>1, SizeAssumption, FS_Subset, FS_CardinalityType

\* Steps that start and end nothing.
LEMMA StillCounting ==
  ASSUME Counting, TypeOK', UNCHANGED counters,
         runq_running \subseteq runq_running', sq_running \subseteq sq_running',
         failed_tids \subseteq failed_tids'
  PROVE  Counting'
BY DEF Counting, counters

LEMMA ExitsCounting ==
  ASSUME Counting, TypeOK', NEW t \in Tasks, Exits(t) \/ HashUpdate(t)
  PROVE  Counting'
<1> USE DEF Counting
<1>1. ASSUME NEW ok \in BOOLEAN, SetsceneExits(t, ok) PROVE Counting'
  <2>1. t \in sq_live /\ sq_live' = sq_live \ {t} /\ sq_active' = sq_active - 1
    BY <1>1 DEF SetsceneExits
  <2>2. UNCHANGED <<live, active, enforced, number_tasks, runq_running, failed_tids>>
    BY <1>1 DEF SetsceneExits, settings, runq
  <2>3. sq_running \subseteq sq_running'
    <3>1. t \in Setscene  BY <2>1 DEF TypeOK
    <3>2. PICK cov \in SUBSET Setscene, fail \in SUBSET Setscene : Decide(cov, fail)
      BY <1>1, <3>1 DEF SetsceneExits
    <3> QED  BY <3>2, DecideType
  <2>4. Cardinality(sq_live') = Cardinality(sq_live) - 1
    BY <2>1, FiniteTasks, FS_RemoveElement
  <2> QED  BY <2>1, <2>2, <2>3, <2>4, FiniteTasks DEF TypeOK
<1>2. CASE TaskEnds(t) \/ TaskFails(t)
  <2>1. /\ t \in live /\ live' = live \ {t} /\ active' = active - 1
        /\ failed_tids \subseteq failed_tids'
    BY <1>2 DEF TaskEnds, TaskFails
  <2>2. UNCHANGED <<sq_live, sq_active, enforced, number_tasks, runq_running, sq_running>>
    BY <1>2 DEF TaskEnds, TaskFails, settings, marks, scene
  <2>3. Cardinality(live') = Cardinality(live) - 1
    BY <2>1, FiniteTasks, FS_RemoveElement
  <2> QED  BY <2>1, <2>2, <2>3, FiniteTasks DEF TypeOK
<1>3. CASE HashUpdate(t)
  BY <1>3, StillCounting DEF HashUpdate, control, settings, marks, scene, runq, counters
<1> QED  BY <1>1, <1>2, <1>3 DEF Exits

LEMMA MigrateCounting ==
  ASSUME Counting, TypeOK', Migrate
  PROVE  Counting'
<1>1. CASE Proceed \/ Rehash
  BY <1>1, StillCounting DEF Proceed, Rehash, settings, marks, scene, runq, counters
<1>2. ASSUME NEW t \in Setscene, MigrateSkips(t) PROVE Counting'
  BY <1>2, StillCounting DEF MigrateSkips, control, settings, marks, scene, runq, counters
<1>3. ASSUME NEW t \in Setscene, MigrateTakes(t) PROVE Counting'
  <2>1. UNCHANGED <<counters, runq_running>> /\ t \notin sq_live
    BY <1>3 DEF MigrateTakes, settings, counters
  <2>2. /\ sq_running' = sq_running \/ sq_running' = sq_running \ {t}
        /\ failed_tids \subseteq failed_tids'
    BY <1>3 DEF MigrateTakes, MigrateAborts, MigrateMoves
  <2> QED  BY <2>1, <2>2 DEF Counting, counters
<1>4. CASE MigrateEnds
  <2>1. UNCHANGED <<counters, runq_running, failed_tids>>
    BY <1>4 DEF MigrateEnds, settings, runq, counters
  <2>2. sq_running \subseteq sq_running'
    <3>1. CASE moved # {}
      <4> DEFINE skipped == {t \in moved : NoNeedToFetch(stamp, t)}
      <4>1. Decide(skipped, hardfail)  BY <1>4, <3>1 DEF MigrateEnds
      <4>2. skipped \in SUBSET Setscene /\ hardfail \in SUBSET Setscene
        BY DEF Counting, TypeOK
      <4> QED  BY <4>1, <4>2, DecideType DEF Counting
    <3>2. CASE moved = {}
      BY <1>4, <3>2 DEF MigrateEnds
    <3> QED  BY <3>1, <3>2
  <2> QED  BY <2>1, <2>2, StillCounting DEF counters
<1> QED  BY <1>1, <1>2, <1>3, <1>4 DEF Migrate

LEMMA SetsceneCounting ==
  ASSUME Counting, TypeOK', SetsceneStep
  PROVE  Counting'
<1>1. CASE SetsceneNone
  BY <1>1, StillCounting DEF SetsceneNone, settings, marks, scene, runq, counters
<1>2. ASSUME NEW t \in Setscene, SetsceneUnneeded(t) \/ SetsceneSettles(t) PROVE Counting'
  <2>1. PICK cov \in SUBSET Setscene, fail \in SUBSET Setscene : Decide(cov, fail)
    BY <1>2 DEF SetsceneUnneeded, SetsceneSettles
  <2>2. UNCHANGED <<counters, runq_running, failed_tids>>
    BY <1>2 DEF SetsceneUnneeded, SetsceneSettles, settings, runq, counters
  <2> QED  BY <2>1, <2>2, DecideType, StillCounting DEF Counting, counters
<1>3. ASSUME NEW t \in Setscene, SetsceneStarts(t) PROVE Counting'
  <2>1. /\ t \notin sq_live /\ sq_live' = sq_live \cup {t} /\ sq_active' = sq_active + 1
        /\ sq_running' = sq_running \cup {t} /\ CanStart
    BY <1>3 DEF SetsceneStarts, Waiting, Counting
  <2>2. UNCHANGED <<live, active, enforced, number_tasks, runq_running, failed_tids>>
    BY <1>3 DEF SetsceneStarts, settings, runq
  <2>3. Cardinality(sq_live') = Cardinality(sq_live) + 1
    BY <2>1, FiniteTasks, FS_AddElement DEF Counting
  <2> QED  BY <2>1, <2>2, <2>3, FiniteTasks DEF Counting, CanStart, TypeOK
<1> QED  BY <1>1, <1>2, <1>3 DEF SetsceneStep

LEMMA TaskCounting ==
  ASSUME Counting, TypeOK', TaskStep
  PROVE  Counting'
<1>1. CASE Waits \/ Again \/ Ends
  BY <1>1, StillCounting DEF Waits, Again, Ends, settings, marks, scene, runq, counters
<1>2. ASSUME NEW t \in Tasks, Refuse(t) PROVE Counting'
  <2>1. enforced # {} /\ failed_tids' # {}  BY <1>2 DEF Refuse, Unexpected
  <2> QED
    BY <1>2, <2>1 DEF Refuse, settings, marks, scene, Counting
<1>3. ASSUME NEW t \in Tasks, SkipCovered(t) \/ SkipExisting(t) \/ RunNoExec(t) PROVE Counting'
  <2>1. Finished(t)  BY <1>3 DEF SkipCovered, SkipExisting, RunNoExec
  <2> QED
    BY <2>1, StillCounting DEF Finished, settings, marks, scene, counters
<1>4. ASSUME NEW t \in Tasks, Starts(t) PROVE Counting'
  <2>1. /\ t \notin live /\ live' = live \cup {t} /\ active' = active + 1
        /\ runq_running' = runq_running \cup {t} /\ CanStart
    BY <1>4 DEF Starts, Buildable, Counting
  <2>2. UNCHANGED <<sq_live, sq_active, enforced, number_tasks, sq_running, failed_tids>>
    BY <1>4 DEF Starts, settings, marks, scene
  <2>3. Cardinality(live') = Cardinality(live) + 1
    BY <2>1, FiniteTasks, FS_AddElement DEF Counting
  <2> QED  BY <2>1, <2>2, <2>3, FiniteTasks DEF Counting, CanStart, TypeOK
<1>5. ASSUME NEW t \in Setscene, ForceDeferred(t) PROVE Counting'
  <2>1. {Twin[t]} \in SUBSET Setscene /\ Decide({}, {Twin[t]})
    BY <1>5, TwinAssumption DEF ForceDeferred, Counting, TypeOK
  <2>2. UNCHANGED <<counters, runq_running, failed_tids>>
    BY <1>5 DEF ForceDeferred, settings, runq, counters
  <2> QED  BY <2>1, <2>2, DecideType, StillCounting DEF Counting, counters
<1> QED  BY <1>1, <1>2, <1>3, <1>4, <1>5 DEF TaskStep

LEMMA InitCounting == Init => Counting
<1> SUFFICES ASSUME Init PROVE Counting  OBVIOUS
<1>1. live = {} /\ sq_live = {} /\ active = 0 /\ sq_active = 0  BY DEF Init
<1> QED  BY <1>1, InitType, FS_EmptySet DEF Counting, TypeOK

LEMMA NextCounting == Counting /\ [Next]_vars => Counting'
<1> SUFFICES ASSUME Counting, [Next]_vars PROVE Counting'  OBVIOUS
<1>1. TypeOK'  BY NextType DEF Counting
<1>2. CASE UNCHANGED vars \/ Ended
  BY <1>1, <1>2, StillCounting
  DEF Ended, vars, control, settings, marks, scene, runq, counters
<1>3. CASE Finish \/ Teardown \/ FinishLeft \/ Shutdown \/ ForceShutdown
  BY <1>1, <1>3, StillCounting
  DEF Finish, Teardown, FinishLeft, Shutdown, ForceShutdown, settings, marks, scene, runq, counters
<1>4. CASE Holdoff
  BY <1>1, <1>4, StillCounting DEF Holdoff, settings, counters
<1> QED
  BY <1>1, <1>2, <1>3, <1>4, ExitsCounting, MigrateCounting, SetsceneCounting, TaskCounting
  DEF Next, Execute

\* However setscene tasks and tasks start, fail, are skipped and migrated, the
\* statistics are exact and the two halves of execute() together never give
\* the worker more than BB_NUMBER_THREADS tasks.
THEOREM CountCorrect == Spec => []Counted
<1>1. Counting => Counted
  BY FiniteTasks DEF Counting, Counted, TypeOK
<1> QED  BY <1>1, InitCounting, NextCounting, PTL DEF Spec

-----------------------------------------------------------------------------
(* The order of the task graph.  A task becomes buildable when the last of    *)
(* its dependencies is complete, and nothing ever leaves runq_complete.       *)

Ordering ==
  /\ TypeOK
  /\ live \cup runq_complete \subseteq runq_running
  /\ \A t \in runq_buildable \cup runq_running : Depends[t] \subseteq runq_complete

order == <<runq_buildable, runq_running, runq_complete, live>>

LEMMA StillOrdered ==
  ASSUME Ordering, TypeOK', UNCHANGED order
  PROVE  Ordering'
BY DEF Ordering, order

\* The completion of t makes nothing buildable that waits for something else.
LEMMA WokenInOrder ==
  ASSUME Ordering, TypeOK', NEW t \in runq_buildable \cup runq_running,
         runq_running' = runq_running \cup {t}, runq_complete' = runq_complete \cup {t},
         runq_buildable' \in {runq_buildable \cup Wake(t), runq_buildable \cup {t} \cup Wake(t)},
         live' \subseteq live
  PROVE  Ordering'
<1>1. \A r \in Wake(t) : Depends[r] \subseteq runq_complete'  BY DEF Wake
<1> QED  BY <1>1 DEF Ordering

LEMMA TaskInOrder ==
  ASSUME Ordering, TypeOK', TaskStep
  PROVE  Ordering'
<1>1. CASE Waits \/ Again \/ Ends
  BY <1>1, StillOrdered DEF Waits, Again, Ends, runq, order
<1>2. ASSUME NEW t \in Tasks, Refuse(t) PROVE Ordering'
  BY <1>2, StillOrdered DEF Refuse, order
<1>3. ASSUME NEW t \in Tasks, SkipCovered(t) \/ SkipExisting(t) \/ RunNoExec(t) PROVE Ordering'
  <2>1. Finished(t) /\ t \in runq_buildable
    BY <1>3 DEF SkipCovered, SkipExisting, RunNoExec, Buildable
  <2> QED  BY <2>1, WokenInOrder DEF Finished
<1>4. ASSUME NEW t \in Tasks, Starts(t) PROVE Ordering'
  <2>1. /\ t \in runq_buildable /\ runq_running' = runq_running \cup {t}
        /\ live' = live \cup {t} /\ UNCHANGED <<runq_buildable, runq_complete>>
    BY <1>4 DEF Starts, Buildable
  <2> QED  BY <2>1 DEF Ordering
<1>5. ASSUME NEW t \in Setscene, ForceDeferred(t) PROVE Ordering'
  BY <1>5, StillOrdered DEF ForceDeferred, runq, order
<1> QED  BY <1>1, <1>2, <1>3, <1>4, <1>5 DEF TaskStep

LEMMA InitOrdering == Init => Ordering
<1> SUFFICES ASSUME Init PROVE Ordering  OBVIOUS
<1>1. \A t \in runq_buildable : Depends[t] = {}  BY DEF Init
<1>2. live = {} /\ runq_running = {} /\ runq_complete = {}  BY DEF Init
<1> QED  BY <1>1, <1>2, InitType DEF Ordering

LEMMA NextOrdering == Ordering /\ [Next]_vars => Ordering'
<1> SUFFICES ASSUME Ordering, [Next]_vars PROVE Ordering'  OBVIOUS
<1>1. TypeOK'  BY NextType DEF Ordering
<1>2. CASE UNCHANGED vars \/ Ended
  BY <1>1, <1>2, StillOrdered DEF Ended, vars, runq, order
<1>3. CASE Finish \/ Teardown \/ FinishLeft \/ Shutdown \/ ForceShutdown
  BY <1>1, <1>3, StillOrdered DEF Finish, Teardown, FinishLeft, Shutdown, ForceShutdown, runq, order
<1>4. CASE Holdoff
  <2>1. UNCHANGED <<runq_running, runq_complete, live>>  BY <1>4 DEF Holdoff
  <2>2. runq_buildable' \subseteq
          runq_buildable \cup {t \in Tasks : Depends[t] \subseteq runq_complete}
    <3>1. CASE HoldoffUpdate
      BY <1>1, <3>1 DEF HoldoffUpdate, TypeOK
    <3>2. CASE UNCHANGED runq_buildable
      BY <3>2
    <3> QED  BY <1>4, <3>1, <3>2 DEF Holdoff
  <2> QED  BY <1>1, <2>1, <2>2 DEF Ordering
<1>5. ASSUME NEW t \in Tasks, Exits(t) \/ HashUpdate(t) PROVE Ordering'
  <2>1. CASE TaskEnds(t)
    <3>1. t \in live /\ live' = live \ {t}  BY <2>1 DEF TaskEnds
    <3>2. t \in runq_running  BY <3>1 DEF Ordering
    <3> QED  BY <1>1, <2>1, <3>1, <3>2, WokenInOrder DEF TaskEnds
  <2>2. CASE TaskFails(t)
    BY <1>1, <2>2 DEF TaskFails, Ordering
  <2>3. ASSUME NEW ok \in BOOLEAN, SetsceneExits(t, ok) PROVE Ordering'
    BY <1>1, <2>3, StillOrdered DEF SetsceneExits, runq, order
  <2>4. CASE HashUpdate(t)
    BY <1>1, <2>4, StillOrdered DEF HashUpdate, runq, order
  <2> QED  BY <1>5, <2>1, <2>2, <2>3, <2>4 DEF Exits
<1>6. CASE Migrate
  BY <1>1, <1>6, StillOrdered
  DEF Migrate, Proceed, Rehash, MigrateEnds, MigrateSkips, MigrateTakes, runq, order
<1>7. CASE SetsceneStep
  BY <1>1, <1>7, StillOrdered
  DEF SetsceneStep, SetsceneNone, SetsceneUnneeded, SetsceneSettles, SetsceneStarts, runq, order
<1> QED
  BY <1>1, <1>2, <1>3, <1>4, <1>5, <1>6, <1>7, TaskInOrder DEF Next, Execute

\* Setscene tasks, coverage and migrations decide whether a task is run, but
\* never make it run, or count as complete, before what it depends on.
THEOREM OrderCorrect == Spec => []InOrder
<1>1. Ordering => InOrder
  BY DEF Ordering, InOrder
<1> QED  BY <1>1, InitOrdering, NextOrdering, PTL DEF Spec

-----------------------------------------------------------------------------
(* What the operators on the graphs compute (build_scenequeue_data).          *)

\* What a setscene task covers: what it depends on, down to the next setscene
\* tasks, and nothing else.
LEMMA CoversStep ==
  ASSUME NEW s \in Setscene
  PROVE  /\ Covers[s] \subseteq Tasks \ Setscene
         /\ Depends[s] \ Setscene \subseteq Covers[s]
         /\ \A y \in Covers[s] : Depends[y] \ Setscene \subseteq Covers[s]
         /\ \A x \in Covers[s] : x \in Depends[s] \/ \E y \in Covers[s] : x \in Depends[y]
<1> DEFINE Below(S) == (UNION {Depends[t] : t \in S}) \ Setscene
           Closed(S) == Depends[s] \ Setscene \subseteq S /\ Below(S) \subseteq S
           C == Covers[s]
<1>1. C = {t \in Tasks : \A S \in SUBSET Tasks : Closed(S) => t \in S}
  BY DEF Covers, Closure
<1>2. \A t \in Tasks : Depends[t] \subseteq Tasks  BY GraphAssumption
<1>3. s \in Tasks  BY GraphAssumption
<1>4. C \subseteq Tasks \ Setscene
  <2> DEFINE S == Tasks \ Setscene
  <2>1. S \in SUBSET Tasks  OBVIOUS
  <2>2. Depends[s] \ Setscene \subseteq S  BY <1>2, <1>3
  <2>3. Below(S) \subseteq S
    <3>1. ASSUME NEW x \in Below(S) PROVE x \in S
      <4>1. PICK t \in S : x \in Depends[t]  BY <3>1
      <4> QED  BY <4>1, <1>2, <3>1
    <3> QED  BY <3>1
  <2>4. Closed(S)  BY <2>2, <2>3
  <2> HIDE DEF S, Closed
  <2>5. C \subseteq S  BY <2>1, <2>4, <1>1
  <2> QED  BY <2>5 DEF S
<1>5. C \subseteq Tasks \ Setscene  BY <1>4
<1>6. Depends[s] \ Setscene \subseteq C  BY <1>1, <1>2, <1>3
<1>7. ASSUME NEW y \in C, NEW x \in Depends[y] \ Setscene PROVE x \in C
  <2>1. x \in Tasks  BY <1>5, <1>2, <1>7
  <2>2. ASSUME NEW S \in SUBSET Tasks, Closed(S) PROVE x \in S
    <3>1. y \in S  BY <1>1, <1>7, <2>2
    <3>2. x \in Below(S)  BY <1>7, <3>1
    <3> QED  BY <2>2, <3>2
  <2> QED  BY <2>1, <2>2, <1>1
<1>8. ASSUME NEW x \in C, x \notin Depends[s], \A y \in C : x \notin Depends[y] PROVE FALSE
  <2> DEFINE D == C \ {x}
  <2>1. D \in SUBSET Tasks  BY <1>5
  <2>2. Depends[s] \ Setscene \subseteq D  BY <1>6, <1>8
  <2>3. Below(D) \subseteq D
    <3>1. ASSUME NEW z \in Below(D) PROVE z \in D
      <4>1. PICK y \in D : z \in Depends[y]  BY <3>1
      <4>2. z \in C  BY <1>7, <3>1, <4>1
      <4> QED  BY <1>8, <4>1, <4>2
    <3> QED  BY <3>1
  <2> QED  BY <2>1, <2>2, <2>3, <1>1, <1>8
<1> QED  BY <1>5, <1>6, <1>7, <1>8

\* The end of the build: unskippable are the ends of the graph and the targets,
\* and what an unskippable task that has no setscene variant depends on.
LEMMA UnskippableStep ==
  /\ Unskippable \subseteq Tasks
  /\ \A t \in Tasks : Revdeps(t) = {} => t \in Unskippable
  /\ CantSkip \subseteq Unskippable
  /\ \A t \in Unskippable \ Setscene : Depends[t] \subseteq Unskippable
<1> DEFINE Below(S) == UNION {Depends[t] : t \in S \ Setscene}
           Seed == {t \in Tasks : Revdeps(t) = {}} \cup CantSkip
           Closed(S) == Seed \subseteq S /\ Below(S) \subseteq S
           U == Unskippable
<1>1. U = {t \in Tasks : \A S \in SUBSET Tasks : Closed(S) => t \in S}
  BY DEF Unskippable, Closure
<1>2. \A t \in Tasks : Depends[t] \subseteq Tasks  BY GraphAssumption
<1>3. CantSkip \subseteq Tasks  BY GraphAssumption DEF CantSkip
<1>4. Seed \subseteq U  BY <1>1, <1>3
<1>5. ASSUME NEW y \in U \ Setscene, NEW x \in Depends[y] PROVE x \in U
  <2>1. x \in Tasks  BY <1>1, <1>2, <1>5
  <2>2. ASSUME NEW S \in SUBSET Tasks, Closed(S) PROVE x \in S
    BY <1>1, <1>5, <2>2
  <2> QED  BY <2>1, <2>2, <1>1
<1> QED  BY <1>1, <1>4, <1>5

\* Every task without a setscene variant is unskippable or stood for by a
\* setscene task: up the graph from it comes one or the other.
LEMMA WantedOrCovered ==
  \A t \in Tasks \ Setscene : t \in Unskippable \/ \E s \in Setscene : t \in Covers[s]
<1> DEFINE T == {t \in Tasks \ Setscene : t \notin Unskippable /\ \A s \in Setscene : t \notin Covers[s]}
<1>1. SUFFICES ASSUME T # {} PROVE FALSE  OBVIOUS
<1>2. PICK t \in T : Revdeps(t) \cap T = {}  BY <1>1, AcyclicAssumption
<1>3. PICK u \in Tasks : t \in Depends[u] /\ u \notin T
  BY <1>2, UnskippableStep DEF Revdeps
<1>4. CASE u \in Setscene
  BY <1>3, <1>4, CoversStep
<1>5. CASE u \in Unskippable \ Setscene
  BY <1>3, <1>5, UnskippableStep
<1>6. ASSUME NEW s \in Setscene, u \in Covers[s] PROVE FALSE
  BY <1>3, <1>6, CoversStep
<1> QED  BY <1>3, <1>4, <1>5, <1>6

\* What is done with after new was decided: new, and tasks without a setscene
\* variant; a task is done with when everything that depends on it is.
LEMMA DoneBelowStep ==
  ASSUME NEW done \in SUBSET Tasks, NEW new \in SUBSET Setscene,
         \A t \in Tasks \ Setscene : Revdeps(t) \subseteq done => t \in done
  PROVE  LET d == DoneBelow(done, new)
         IN  /\ done \cup new \subseteq d
             /\ d \subseteq done \cup new \cup (Tasks \ Setscene)
             /\ \A t \in Tasks \ Setscene : Revdeps(t) \subseteq d => t \in d
<1> DEFINE Below(S) == {d \in (UNION {Depends[t] : t \in S}) \ (Setscene \cup done) :
                          Revdeps(d) \subseteq done \cup S}
           Closed(S) == new \subseteq S /\ Below(S) \subseteq S
           K == {t \in Tasks : \A S \in SUBSET Tasks : Closed(S) => t \in S}
<1>1. DoneBelow(done, new) = done \cup K  BY DEF DoneBelow, Closure
<1>2. \A t \in Tasks : Depends[t] \subseteq Tasks  BY GraphAssumption
<1>3. new \subseteq K  BY GraphAssumption
<1>4. K \subseteq new \cup (Tasks \ Setscene)
  <2> DEFINE S == new \cup (Tasks \ Setscene)
  <2>1. S \in SUBSET Tasks  BY GraphAssumption
  <2>2. Below(S) \subseteq S
    <3>1. ASSUME NEW x \in Below(S) PROVE x \in S
      <4>1. PICK t \in S : x \in Depends[t]  BY <3>1
      <4>2. x \in Tasks /\ x \notin Setscene  BY <1>2, <2>1, <3>1, <4>1
      <4> QED  BY <4>2
    <3> QED  BY <3>1
  <2> QED  BY <2>1, <2>2
<1>5. ASSUME NEW t \in Tasks \ Setscene, Revdeps(t) \subseteq done \cup K, t \notin done PROVE t \in K
  <2>1. PICK u \in Revdeps(t) : u \in K  BY <1>5
  <2>2. t \in Depends[u]  BY <2>1 DEF Revdeps
  <2>3. ASSUME NEW S \in SUBSET Tasks, Closed(S) PROVE t \in S
    <3>1. K \subseteq S  BY <2>3
    <3>2. u \in S /\ t \in UNION {Depends[x] : x \in S}  BY <2>1, <2>2, <3>1
    <3>3. Revdeps(t) \subseteq done \cup S  BY <1>5, <3>1
    <3>4. t \in Below(S)  BY <1>5, <3>2, <3>3
    <3> QED  BY <2>3, <3>4
  <2> QED  BY <2>3
<1> QED  BY <1>1, <1>3, <1>4, <1>5

\* When every setscene task is decided, everything is done with.
LEMMA AllDone ==
  ASSUME NEW done \in SUBSET Tasks, Setscene \subseteq done,
         \A t \in Tasks \ Setscene : Revdeps(t) \subseteq done => t \in done
  PROVE  done = Tasks
<1>1. SUFFICES ASSUME Tasks \ done # {} PROVE FALSE  OBVIOUS
<1>2. PICK t \in Tasks \ done : Revdeps(t) \cap (Tasks \ done) = {}
  BY <1>1, AcyclicAssumption
<1>3. Revdeps(t) \subseteq done  BY <1>2 DEF Revdeps
<1> QED  BY <1>2, <1>3

-----------------------------------------------------------------------------
(* The invariant of the two halves of execute(), in parts.                    *)

Undecided == Setscene \ Decided

\* What decides a setscene task also marks it; what is with the worker, or may
\* be given to it, has its hard dependencies; and what was decided has released
\* or failed all that waited for it.
MarksSound ==
  /\ Decided \subseteq sq_running /\ Decided \subseteq sq_buildable
  /\ sq_running \subseteq Decided \cup sq_live /\ sq_live \cap Decided = {}
  /\ Setscene \cap NoExec \subseteq scenequeue_covered
  /\ \A s \in Undecided : stamp[s] = "none"
  /\ \A h \in Setscene : \A s \in HardDeps[h] :
       /\ s \in sq_live \cup (sq_buildable \ sq_running) => h \in scenequeue_covered
       /\ s \in Undecided /\ h \in scenequeue_notcovered \ scenequeue_covered => s \in hardfail
  /\ \A s \in Undecided : SqRevdeps[s] \subseteq Decided => s \in sq_buildable \cup hardfail
  /\ DOMAIN Twin = {} => NotBoth

\* What waits to be migrated is not installed, and outside of a migration it was
\* given up; what was moved is undecided until the migration ends.
MigrationSound ==
  /\ pending_migrations \cap scenequeue_covered = {}
  /\ \A s \in pending_migrations \ runq_running : stamp[s] = "none"
  /\ pending_migrations \ todo \subseteq scenequeue_notcovered
  /\ todo \subseteq pending_migrations
  /\ moved \subseteq Undecided \ sq_live /\ hardfail \subseteq moved /\ moved \cap todo = {}
  /\ pc # "migrate" => moved = {} /\ todo = {}
  /\ pc \in {"migrate", "setscene", "holdoff", "task"} =>
       updated_taskhash_queue \subseteq runq_running \ runq_complete

\* While a setscene task is undecided, neither its task nor one it covers runs.
UndecidedApart == \A s \in Undecided : s \notin runq_running /\ ~CoveredRunning(s)

\* Between an update of the hold-offs and the next decision, the sets that
\* update_holdofftasks computed are those of the decisions there are.
Current == ~holdoff_need_update /\ moved = {}
NotCovered == tasks_scenequeue_done \cap
                (scenequeue_notcovered \cup CantSkip
                 \cup (UNION {Covers[t] : t \in scenequeue_notcovered})
                 \cup (Unskippable \ Setscene))
CoveredNow == (tasks_scenequeue_done \cap
                 (scenequeue_covered \cup (UNION {Covers[t] : t \in scenequeue_covered})))
              \ NotCovered
HoldsFresh ==
  /\ pc = "task" => ~holdoff_need_update
  /\ Current =>
       /\ tasks_notcovered = NotCovered /\ tasks_covered = CoveredNow
       /\ \A s \in Undecided : {s} \cup (Covers[s] \ runq_complete) \subseteq holdoff_tasks
       /\ \A t \in holdoff_tasks : t \in Undecided \/ \E s \in Undecided : t \in Covers[s]
       /\ \A t \in tasks_covered \cup tasks_notcovered :
            Depends[t] \subseteq runq_complete => t \in runq_buildable

\* A task is skipped only if it was installed, or all that stand for it were.
SkipsSound ==
  \A t \in runq_complete \ runq_tasksrun :
    /\ t \in Setscene => t \in scenequeue_covered
    /\ t \notin Setscene => /\ t \notin Unskippable
                            /\ \A s \in Setscene : t \in Covers[s] => s \in scenequeue_covered

\* A task runs only if nothing was installed in its place: its own setscene
\* task or one that stands for it was given up, or it cannot be skipped.
RunsSound ==
  \A t \in runq_running \ runq_complete :
    \/ t \in scenequeue_notcovered
    \/ t \in Unskippable \ Setscene
    \/ \E s \in scenequeue_notcovered : t \in Covers[s]

\* What was left out as not needed is needed by nothing that is built.
NeedlessSound ==
  \A s \in scenequeue_notneeded :
    /\ s \in scenequeue_covered /\ s \notin Unskippable
    /\ SqRevdeps[s] # {} /\ SqRevdeps[s] \subseteq scenequeue_covered

\* The marks of the run queue.
RunqSound ==
  /\ live \cap runq_complete = {}
  /\ runq_running \subseteq runq_complete \cup live \cup failed_tids
  /\ enforced = {} => failed_tids \subseteq runq_running \ (runq_complete \cup live)
  /\ runq_running \subseteq runq_buildable

\* tasks_scenequeue_done follows the decisions, and the setscene half is never
\* left with a task that could go on.
DoneSound ==
  /\ Decided \subseteq tasks_scenequeue_done
  /\ tasks_scenequeue_done \cap Setscene \subseteq Decided
  /\ Unskippable \ Setscene \subseteq tasks_scenequeue_done
  /\ \A t \in Tasks \ Setscene : Revdeps(t) \subseteq tasks_scenequeue_done => t \in tasks_scenequeue_done
  /\ sqdone => Undecided \subseteq moved
  /\ pc \in {"holdoff", "task"} => \A t \in Waiting : Deferred(t)

\* What success takes: it is only declared where nothing is left to be done, and
\* a build that nobody stops is only cut short by a failure.
SuccessSound ==
  /\ state = "complete" => pc \in {"teardown", "ended"}
  /\ Interrupts = {} /\ enforced = {} =>
       /\ state = "cleanup" => failed_tids # {}
       /\ state = "complete" => runq_complete = Tasks /\ sq_live \cup live = {}

\* What failure takes.
FailureSound == state = "failed" => failed_tids # {}

SceneSound == MarksSound /\ MigrationSound /\ UndecidedApart /\ HoldsFresh
RunSound   == SkipsSound /\ RunsSound /\ NeedlessSound /\ RunqSound /\ DoneSound
Sound      == Counting /\ Ordering /\ SceneSound /\ RunSound

\* The failures of a decision: those it is made of, and undecided tasks that
\* nobody works on; they take with them all that needs them.
LEMMA FailingStep ==
  ASSUME MarksSound, TypeOK, NEW cov \in SUBSET Setscene, NEW fail \in SUBSET Setscene,
         fail \cap scenequeue_covered = {} \/ sq_live = {}
  PROVE  LET failed == Failing(Decided \cup cov, stamp, fail)
         IN  /\ fail \subseteq failed
             /\ failed \subseteq fail \cup (Undecided \ (cov \cup sq_live))
             /\ \A h \in failed : \A s \in HardDeps[h] : s \in Undecided \ cov => s \in failed
<1> DEFINE decided == Decided \cup cov
           Down(S) == {d \in UNION {HardDeps[s] \cap SqDeps(s) : s \in S \cap Setscene} :
                         d \notin decided /\ ~NoNeedToFetch(stamp, d)}
           Closed(S) == fail \subseteq S /\ Down(S) \subseteq S
           F == Failing(decided, stamp, fail)
<1>1. F = {t \in Tasks : \A S \in SUBSET Tasks : Closed(S) => t \in S}
  BY DEF Failing, Closure
<1>2. fail \subseteq F  BY <1>1, GraphAssumption
<1>3. F \subseteq fail \cup (Undecided \ (cov \cup sq_live))
  <2> DEFINE Q == fail \cup (Undecided \ (cov \cup sq_live))
  <2>1. Q \in SUBSET Tasks  BY GraphAssumption DEF Undecided
  <2>2. Down(Q) \subseteq Q
    <3>1. ASSUME NEW d \in Down(Q) PROVE d \in Q
      <4>1. PICK h \in Q \cap Setscene : d \in HardDeps[h]  BY <3>1
      <4>2. d \in Undecided \ cov
        BY <3>1, <4>1, GraphAssumption DEF Undecided
      <4>3. d \notin sq_live
        BY <4>1, <4>2 DEF MarksSound, Undecided, Decided
      <4> QED  BY <4>2, <4>3
    <3> QED  BY <3>1
  <2>3. Closed(Q)  BY <2>2
  <2> HIDE DEF Q, Closed
  <2>4. F \subseteq Q  BY <1>1, <2>1, <2>3
  <2> QED  BY <2>4 DEF Q
<1>4. ASSUME NEW h \in F, NEW s \in HardDeps[h], s \in Undecided \ cov PROVE s \in F
  <2>1. h \in Setscene /\ s \in Setscene /\ s \in Tasks
    BY <1>3, <1>4, GraphAssumption DEF Undecided
  <2>2. s \in SqDeps(h)  BY <1>4, <2>1 DEF SqDeps, SqRevdeps
  <2>3. s \notin decided  BY <1>4 DEF Undecided
  <2>4. ~NoNeedToFetch(stamp, s)
    <3>1. stamp[s] = "none" /\ s \notin NoExec
      BY <1>4, <2>1 DEF MarksSound, Undecided, Decided
    <3> QED  BY <3>1 DEF NoNeedToFetch, StampTrusted
  <2>5. ASSUME NEW S \in SUBSET Tasks, Closed(S) PROVE s \in S
    <3>1. h \in S  BY <1>1, <1>4, <2>5
    <3>2. s \in UNION {HardDeps[x] \cap SqDeps(x) : x \in S \cap Setscene}
      BY <1>4, <2>1, <2>2, <3>1
    <3>3. s \in Down(S)  BY <2>3, <2>4, <3>2
    <3> QED  BY <2>5, <3>3
  <2> QED  BY <1>1, <2>1, <2>5
<1> QED  BY <1>2, <1>3, <1>4

\* What holds when setscene tasks are decided (sq_task_skip, sq_task_complete,
\* sq_task_failoutright, sq_task_fail): they were undecided, or the twin of a
\* deferred task is failed when nothing runs.
Deciding(cov, fail) ==
  /\ Decide(cov, fail)
  /\ cov \cap fail = {} /\ hardfail \subseteq fail
  /\ cov \cup fail \subseteq Undecided \/ (cov = {} /\ sq_live = {} /\ DOMAIN Twin # {})
  /\ sq_live' = sq_live \ (cov \cup fail)
  /\ \A t \in Setscene \ ((cov \cup fail) \cap Undecided) : stamp'[t] = stamp[t]
  /\ todo = {} /\ todo' = {} /\ moved' = {} /\ hardfail' = {}
  /\ sqdone' => sqdone /\ moved = {}
  /\ pc' \notin {"migrate", "holdoff", "task"} /\ (pc' = "setscene" => pc = "migrate")
  /\ UNCHANGED <<runq_running, runq_complete, runq_tasksrun, pending_migrations,
                 updated_taskhash_queue>>
  /\ scenequeue_notneeded' = scenequeue_notneeded
     \/ \E t \in cov : /\ scenequeue_notneeded' = scenequeue_notneeded \cup {t} /\ Needless(t)

\* The decided tasks grow by cov, by fail and by failures that were undecided,
\* and the marks with them.
Grows(cov, fail) ==
  /\ scenequeue_covered' = scenequeue_covered \cup cov
  /\ scenequeue_notcovered \cup fail \subseteq scenequeue_notcovered'
  /\ Decided' = Decided \cup cov \cup (scenequeue_notcovered' \ scenequeue_notcovered) \cup fail
  /\ scenequeue_notcovered' \subseteq
       scenequeue_notcovered \cup fail \cup (Undecided \ (cov \cup sq_live))
  /\ Undecided' \subseteq Undecided \ (cov \cup fail)
  /\ sq_running' = sq_running \cup cov \cup (scenequeue_notcovered' \ scenequeue_notcovered) \cup fail
  /\ sq_buildable \cup (Decided' \ Decided) \subseteq sq_buildable'
  /\ holdoff_need_update' = TRUE
  /\ \A h \in Setscene : \A s \in HardDeps[h] :
       s \in Undecided' /\ h \in Decided' => h \in scenequeue_covered'
  /\ \A s \in sq_buildable' : s \in sq_buildable \cup Decided' \/ SqRevdeps[s] \subseteq Decided'
  /\ \A s \in Undecided' : SqRevdeps[s] \subseteq Decided' => s \in sq_buildable'

LEMMA DecideGrows ==
  ASSUME Sound, NEW cov \in SUBSET Setscene, NEW fail \in SUBSET Setscene, Deciding(cov, fail)
  PROVE  Grows(cov, fail)
<1> DEFINE failed == Failing(Decided \cup cov, stamp, fail)
           new == cov \cup failed
<1>1. TypeOK /\ MarksSound  BY DEF Sound, Counting, SceneSound
<1>2. fail \cap scenequeue_covered = {} \/ sq_live = {}
  BY DEF Deciding, Undecided, Decided
<1>3. /\ fail \subseteq failed
      /\ failed \subseteq fail \cup (Undecided \ (cov \cup sq_live))
      /\ \A h \in failed : \A s \in HardDeps[h] : s \in Undecided \ cov => s \in failed
  BY <1>1, <1>2, FailingStep
<1>4. /\ scenequeue_covered' = scenequeue_covered \cup cov
      /\ scenequeue_notcovered' = scenequeue_notcovered \cup failed
      /\ sq_running' = sq_running \cup new
      /\ sq_buildable' = sq_buildable \cup new \cup Released(Decided \cup new, failed, new)
      /\ holdoff_need_update' = TRUE
  BY DEF Deciding, Decide
<1> HIDE DEF failed
<1>5. Decided' = Decided \cup new  BY <1>4 DEF Decided
<1>6. Undecided' = Undecided \ new  BY <1>5 DEF Undecided
<1>7. ASSUME NEW h \in Setscene, NEW s \in HardDeps[h], s \in Undecided', h \in Decided'
      PROVE  h \in scenequeue_covered'
  <2>1. h \notin failed  BY <1>3, <1>6, <1>7
  <2>2. h \notin scenequeue_notcovered \ scenequeue_covered
    <3>1. s \notin hardfail  BY <1>3, <1>6, <1>7 DEF Deciding
    <3> QED  BY <1>1, <1>6, <1>7, <3>1 DEF MarksSound
  <2> QED  BY <1>4, <1>5, <1>7, <2>1, <2>2 DEF Decided
<1>8. ASSUME NEW s \in sq_buildable', s \notin sq_buildable \cup Decided'
      PROVE  SqRevdeps[s] \subseteq Decided'
  <2>1. s \in Released(Decided \cup new, failed, new)  BY <1>4, <1>5, <1>8
  <2> QED  BY <2>1, <1>5 DEF Released
<1>9. ASSUME NEW s \in Undecided', SqRevdeps[s] \subseteq Decided'
      PROVE  s \in sq_buildable'
  <2>1. CASE SqRevdeps[s] \subseteq Decided
    <3>1. s \in sq_buildable \cup hardfail  BY <1>1, <1>6, <1>9, <2>1 DEF MarksSound
    <3>2. s \notin hardfail  BY <1>3, <1>6, <1>9 DEF Deciding
    <3> QED  BY <3>1, <3>2, <1>4
  <2>2. CASE ~(SqRevdeps[s] \subseteq Decided)
    <3>1. PICK u \in SqRevdeps[s] : u \in new \ Decided  BY <2>2, <1>5, <1>9
    <3>2. s \in Setscene  BY DEF Undecided
    <3>3. s \in SqDeps(u)  BY <3>1, <3>2 DEF SqDeps
    <3>4. ~(u \in failed /\ s \in HardDeps[u])  BY <1>3, <1>6, <1>9
    <3>5. s \in Released(Decided \cup new, failed, new)
      BY <1>5, <1>9, <3>1, <3>2, <3>3, <3>4 DEF Released
    <3> QED  BY <3>5, <1>4
  <2> QED  BY <2>1, <2>2
<1>10. /\ scenequeue_notcovered \cup fail \subseteq scenequeue_notcovered'
       /\ Decided' = Decided \cup cov \cup (scenequeue_notcovered' \ scenequeue_notcovered) \cup fail
       /\ scenequeue_notcovered' \subseteq
              scenequeue_notcovered \cup fail \cup (Undecided \ (cov \cup sq_live))
       /\ Undecided' \subseteq Undecided \ (cov \cup fail)
       /\ sq_buildable \cup (Decided' \ Decided) \subseteq sq_buildable'
  BY <1>3, <1>4, <1>5, <1>6 DEF Decided
<1>11. sq_running' = sq_running \cup cov \cup (scenequeue_notcovered' \ scenequeue_notcovered) \cup fail
  <2>1. failed \cap scenequeue_notcovered \subseteq fail
    BY <1>3 DEF Undecided, Decided
  <2> QED  BY <1>3, <1>4, <2>1
<1> QED  BY <1>4, <1>7, <1>8, <1>9, <1>10, <1>11 DEF Grows

LEMMA DecideMarks ==
  ASSUME Sound, NEW cov \in SUBSET Setscene, NEW fail \in SUBSET Setscene, Deciding(cov, fail)
  PROVE  MarksSound'
<1>0. Grows(cov, fail)  BY DecideGrows
<1> USE <1>0 DEF Grows
<1>1. MarksSound /\ TypeOK /\ sq_live \subseteq sq_running
  BY DEF Sound, SceneSound, Counting
<1>2. cov \subseteq Undecided  BY DEF Deciding
<1>3. Decided' \subseteq sq_running' /\ Decided' \subseteq sq_buildable'
  BY <1>1 DEF MarksSound
<1>4. sq_running' \subseteq Decided' \cup sq_live'
  BY <1>1 DEF MarksSound, Deciding
<1>5. sq_live' \cap Decided' = {}
  BY <1>1 DEF MarksSound, Deciding, Decided
<1>6. Setscene \cap NoExec \subseteq scenequeue_covered'
  BY <1>1 DEF MarksSound
<1>7. \A s \in Undecided' : stamp'[s] = "none"
  BY <1>1 DEF MarksSound, Deciding, Undecided
<1>8. ASSUME NEW h \in Setscene, NEW s \in HardDeps[h]
      PROVE  /\ s \in sq_live' \cup (sq_buildable' \ sq_running') => h \in scenequeue_covered'
             /\ s \in Undecided' /\ h \in scenequeue_notcovered' \ scenequeue_covered'
                  => s \in hardfail'
  <2>1. s \in Setscene  BY <1>8, GraphAssumption
  <2>2. CASE s \in sq_live'
    BY <1>1, <2>1, <2>2, <1>8 DEF MarksSound, Deciding, Undecided, Decided
  <2>3. ASSUME s \in sq_buildable' \ sq_running' PROVE h \in scenequeue_covered'
    <3>1. s \in Undecided'  BY <1>3, <2>1, <2>3 DEF Undecided
    <3>2. CASE s \in sq_buildable
      BY <1>1, <1>8, <2>3, <3>2 DEF MarksSound
    <3>3. CASE SqRevdeps[s] \subseteq Decided'
      <4>1. h \in SqRevdeps[s]  BY <1>8, <2>1 DEF SqRevdeps
      <4> QED  BY <3>1, <3>3, <4>1, <1>8
    <3> QED  BY <1>3, <2>3, <3>2, <3>3
  <2>4. s \in Undecided' => ~(h \in scenequeue_notcovered' \ scenequeue_covered')
    BY <1>8 DEF Decided
  <2>5. s \in sq_live' => s \in sq_live  BY DEF Deciding
  <2> QED  BY <1>1, <1>8, <2>3, <2>4, <2>5 DEF MarksSound
<1>9. \A s \in Undecided' : SqRevdeps[s] \subseteq Decided' => s \in sq_buildable' \cup hardfail'
  OBVIOUS
<1>10. DOMAIN Twin = {} => NotBoth'
  BY <1>1 DEF MarksSound, NotBoth, Deciding, Undecided, Decided
<1> QED  BY <1>3, <1>4, <1>5, <1>6, <1>7, <1>8, <1>9, <1>10 DEF MarksSound

LEMMA DecideSound ==
  ASSUME Sound, TypeOK', NEW cov \in SUBSET Setscene, NEW fail \in SUBSET Setscene,
         Deciding(cov, fail), RunqSound'
  PROVE  SceneSound' /\ RunSound'
<1>0. Grows(cov, fail)  BY DecideGrows
<1> USE <1>0 DEF Grows
<1>1. MarksSound /\ TypeOK  BY DEF Sound, SceneSound, Counting
<1>2. MigrationSound'
  <2>1. MigrationSound  BY DEF Sound, SceneSound
  <2>2. pending_migrations' \cap scenequeue_covered' = {}
    <3>1. cov \subseteq Undecided  BY DEF Deciding
    <3>2. pending_migrations \subseteq scenequeue_notcovered
      BY <2>1 DEF MigrationSound, Deciding
    <3> QED  BY <2>1, <3>1, <3>2 DEF MigrationSound, Deciding, Undecided, Decided
  <2>3. \A s \in pending_migrations' \ runq_running' : stamp'[s] = "none"
    BY <1>1, <2>1 DEF MigrationSound, Deciding, Undecided, Decided, TypeOK
  <2>4. moved' = {} /\ hardfail' = {} /\ todo' = {}  BY DEF Deciding
  <2>5. pending_migrations' \subseteq scenequeue_notcovered'
    BY <2>1 DEF MigrationSound, Deciding
  <2>6. pc' \in {"migrate", "setscene", "holdoff", "task"} =>
          updated_taskhash_queue' \subseteq runq_running' \ runq_complete'
    BY <2>1 DEF MigrationSound, Deciding
  <2> QED  BY <2>2, <2>3, <2>4, <2>5, <2>6 DEF MigrationSound
<1>3. UndecidedApart'
  BY DEF Sound, SceneSound, UndecidedApart, CoveredRunning, Deciding
<1>4. HoldsFresh'
  BY DEF HoldsFresh, Current, Deciding
<1>5. SkipsSound'
  BY DEF Sound, RunSound, SkipsSound, Deciding
<1>6. RunsSound'
  BY DEF Sound, RunSound, RunsSound, Deciding
<1>7. NeedlessSound'
  BY DEF Sound, RunSound, NeedlessSound, Deciding, Needless
<1>8. DoneSound'
  <2>1. PICK new \in SUBSET Setscene : /\ tasks_scenequeue_done' = DoneBelow(tasks_scenequeue_done, new)
                                       /\ Decided' = Decided \cup new
    <3> DEFINE failed == Failing(Decided \cup cov, stamp, fail)
    <3>1. failed \subseteq Setscene  BY FailingType
    <3>2. /\ scenequeue_covered' = scenequeue_covered \cup cov
          /\ scenequeue_notcovered' = scenequeue_notcovered \cup failed
          /\ tasks_scenequeue_done' = DoneBelow(tasks_scenequeue_done, cov \cup failed)
      BY DEF Deciding, Decide
    <3> HIDE DEF failed
    <3>3. Decided' = Decided \cup (cov \cup failed)  BY <3>2 DEF Decided
    <3> QED  BY <3>1, <3>2, <3>3
  <2>2. DoneSound /\ tasks_scenequeue_done \in SUBSET Tasks
    BY <1>1 DEF Sound, RunSound, TypeOK
  <2>3. LET d == tasks_scenequeue_done'
        IN  /\ tasks_scenequeue_done \cup new \subseteq d
            /\ d \subseteq tasks_scenequeue_done \cup new \cup (Tasks \ Setscene)
            /\ \A t \in Tasks \ Setscene : Revdeps(t) \subseteq d => t \in d
    BY <2>1, <2>2, DoneBelowStep DEF DoneSound
  <2>4. sqdone' => Undecided' = {}
    BY <2>2 DEF DoneSound, Deciding
  <2>5. pc' \notin {"holdoff", "task"}  BY DEF Deciding
  <2> QED  BY <2>1, <2>2, <2>3, <2>4, <2>5 DEF DoneSound
<1> QED  BY <1>2, <1>3, <1>4, <1>5, <1>6, <1>7, <1>8, DecideMarks DEF SceneSound, RunSound

-----------------------------------------------------------------------------
(* The steps.                                                                 *)

idle == <<settings, stamp, marks, scene, holds, runq, hashes>>

\* Steps that only move on.
LEMMA StillSound ==
  ASSUME Sound, UNCHANGED idle, pc # "migrate",
         pc' \in {"read", "setscene", "holdoff", "wait", "finish", "teardown", "left", "ended"},
         pc' = "setscene" => updated_taskhash_queue = {},
         pc' = "holdoff" => pc = "setscene" /\ \A t \in Waiting : Deferred(t)
  PROVE  SceneSound' /\ RunSound'
<1> USE DEF Sound, idle, settings, marks, scene, holds, runq, hashes
<1>1. MarksSound'
  BY DEF SceneSound, MarksSound, NotBoth, Undecided, Decided
<1>2. MigrationSound'
  BY DEF SceneSound, MigrationSound, Undecided, Decided
<1>3. UndecidedApart'
  BY DEF SceneSound, UndecidedApart, Undecided, Decided, CoveredRunning
<1>4. HoldsFresh'
  BY DEF SceneSound, HoldsFresh, Current, NotCovered, CoveredNow, Undecided, Decided
<1>5. SkipsSound' /\ RunsSound' /\ NeedlessSound' /\ RunqSound'
  BY DEF RunSound, SkipsSound, RunsSound, NeedlessSound, RunqSound
<1>6. DoneSound'
  BY DEF RunSound, DoneSound, Waiting, CanStart, Deferred, Undecided, Decided
<1> QED  BY <1>1, <1>2, <1>3, <1>4, <1>5, <1>6 DEF SceneSound, RunSound

LEMMA SetsceneExitsSound ==
  ASSUME Sound, TypeOK', NEW t \in Tasks, NEW ok \in BOOLEAN, SetsceneExits(t, ok)
  PROVE  SceneSound' /\ RunSound'
<1> DEFINE cov == IF ok THEN {t} ELSE {}
           fail == IF ok THEN {} ELSE {t}
<1>1. /\ t \in sq_live /\ sq_live' = sq_live \ {t} /\ Decide(cov, fail)
      /\ pc' = pc /\ Reading
      /\ stamp' = (IF ok /\ t \notin remapped THEN [stamp EXCEPT ![t] = "setscene"] ELSE stamp)
      /\ UNCHANGED <<settings, holds, runq, sqdone, scenequeue_notneeded,
                     updated_taskhash_queue, pending_migrations, todo, moved, hardfail>>
  BY DEF SetsceneExits
<1>2. t \in Setscene /\ t \in Undecided
  BY <1>1 DEF Sound, Counting, TypeOK, SceneSound, MarksSound, Undecided
<1>3. moved = {} /\ todo = {} /\ hardfail = {}
  BY <1>1 DEF Reading, Sound, SceneSound, MigrationSound
<1>4. cov \in SUBSET Setscene /\ fail \in SUBSET Setscene /\ cov \cup fail = {t} /\ cov \cap fail = {}
  BY <1>2
<1>5. \A s \in Setscene \ ((cov \cup fail) \cap Undecided) : stamp'[s] = stamp[s]
  BY <1>1, <1>2, <1>4 DEF Sound, Counting, TypeOK
<1>6. pc' \notin {"migrate", "holdoff", "task", "setscene"}  BY <1>1 DEF Reading
<1> HIDE DEF cov, fail
<1>7. Deciding(cov, fail)
  BY <1>1, <1>2, <1>3, <1>4, <1>5, <1>6 DEF Deciding, runq
<1>8. RunqSound'
  BY <1>1 DEF Sound, RunSound, RunqSound, runq, settings
<1> QED  BY <1>4, <1>7, <1>8, DecideSound

\* What becomes complete wakes what waited for nothing else.
LEMMA WokenBuildable ==
  ASSUME Sound, NEW t \in Tasks, NEW r \in Tasks, runq_complete' = runq_complete \cup {t},
         runq_buildable \cup Wake(t) \subseteq runq_buildable',
         Depends[r] \subseteq runq_complete', Depends[r] \subseteq runq_complete => r \in runq_buildable
  PROVE  r \in runq_buildable'
<1>1. CASE r \in runq_running
  BY <1>1 DEF Sound, RunSound, RunqSound
<1>2. CASE r \notin runq_running /\ t \in Depends[r]
  BY <1>2 DEF Wake, Revdeps
<1> QED  BY <1>1, <1>2

LEMMA TaskEndsSound ==
  ASSUME Sound, TypeOK', NEW t \in Tasks, TaskEnds(t)
  PROVE  SceneSound' /\ RunSound'
<1>1. /\ t \in live /\ live' = live \ {t} /\ Reading
      /\ runq_complete' = runq_complete \cup {t}
      /\ runq_buildable' = runq_buildable \cup Wake(t)
      /\ runq_tasksrun' = runq_tasksrun \cup {t} /\ stamp' = StampRun(t)
      /\ UNCHANGED <<settings, pc, marks, scene, holds, runq_running, failed_tids, hashes>>
  BY DEF TaskEnds
<1>2. t \in runq_running  BY <1>1 DEF Sound, Counting
<1>3. \A s \in Tasks : s # t /\ stamp[s] = "none" => stamp'[s] = "none"
  BY <1>1 DEF StampRun
<1> USE <1>1 DEF Sound, settings, marks, scene, holds, hashes
<1>4. MarksSound'
  <2>1. \A s \in Undecided : stamp'[s] = "none"
    BY <1>2, <1>3, GraphAssumption DEF SceneSound, UndecidedApart, MarksSound, Undecided
  <2> QED  BY <2>1 DEF SceneSound, MarksSound, NotBoth, Undecided, Decided
<1>5. MigrationSound'
  <2>1. \A s \in pending_migrations \ runq_running : stamp'[s] = "none"
    BY <1>2, <1>3, GraphAssumption DEF SceneSound, MigrationSound, Counting, TypeOK
  <2> QED  BY <2>1 DEF SceneSound, MigrationSound, Undecided, Decided, Reading
<1>6. UndecidedApart'
  BY DEF SceneSound, UndecidedApart, Undecided, Decided, CoveredRunning
<1>7. HoldsFresh'
  <2>1. HoldsFresh /\ pc' # "task"  BY DEF SceneSound, Reading
  <2>2. Current' => Current  BY DEF Current
  <2>3. UNCHANGED <<NotCovered, CoveredNow, Undecided>>
    BY DEF NotCovered, CoveredNow, Undecided, Decided
  <2>4. ASSUME Current, NEW r \in tasks_covered \cup tasks_notcovered,
               Depends[r] \subseteq runq_complete'
        PROVE  r \in runq_buildable'
    BY <2>1, <2>4, WokenBuildable DEF HoldsFresh, Counting, TypeOK
  <2> QED  BY <2>1, <2>2, <2>3, <2>4 DEF HoldsFresh
<1>8. SkipsSound' /\ RunsSound' /\ NeedlessSound'
  BY DEF RunSound, SkipsSound, RunsSound, NeedlessSound
<1>9. RunqSound'
  BY DEF RunSound, RunqSound
<1>10. DoneSound'
  BY DEF RunSound, DoneSound, Reading, Undecided, Decided
<1> QED  BY <1>4, <1>5, <1>6, <1>7, <1>8, <1>9, <1>10 DEF SceneSound, RunSound

LEMMA TaskFailsSound ==
  ASSUME Sound, TypeOK', NEW t \in Tasks, TaskFails(t)
  PROVE  SceneSound' /\ RunSound'
<1>1. /\ t \in live /\ live' = live \ {t} /\ failed_tids' = failed_tids \cup {t} /\ Reading
      /\ UNCHANGED <<settings, pc, stamp, marks, scene, holds, runq_buildable, runq_running,
                     runq_complete, runq_tasksrun, hashes>>
  BY DEF TaskFails
<1> USE <1>1 DEF Sound, settings, marks, scene, holds, hashes
<1>2. MarksSound' /\ MigrationSound'
  BY DEF SceneSound, MarksSound, NotBoth, MigrationSound, Undecided, Decided
<1>3. UndecidedApart'
  BY DEF SceneSound, UndecidedApart, Undecided, Decided, CoveredRunning
<1>4. HoldsFresh'
  BY DEF SceneSound, HoldsFresh, Current, NotCovered, CoveredNow, Undecided, Decided
<1>5. SkipsSound' /\ RunsSound' /\ NeedlessSound'
  BY DEF RunSound, SkipsSound, RunsSound, NeedlessSound
<1>6. RunqSound'
  BY DEF RunSound, RunqSound, Counting
<1>7. DoneSound'
  BY DEF RunSound, DoneSound, Reading, Undecided, Decided
<1> QED  BY <1>2, <1>3, <1>4, <1>5, <1>6, <1>7 DEF SceneSound, RunSound

LEMMA HashUpdateSound ==
  ASSUME Sound, TypeOK', NEW t \in Tasks, HashUpdate(t)
  PROVE  SceneSound' /\ RunSound'
<1>1. /\ pc \in {"read", "wait"}
      /\ UNCHANGED <<control, marks, scene, holds, runq, pending_migrations, todo, moved, hardfail>>
  BY DEF HashUpdate
<1> USE <1>1 DEF Sound, control, settings, marks, scene, holds, runq
<1>2. MarksSound' /\ MigrationSound'
  BY DEF SceneSound, MarksSound, NotBoth, MigrationSound, Undecided, Decided
<1>3. UndecidedApart'
  BY DEF SceneSound, UndecidedApart, Undecided, Decided, CoveredRunning
<1>4. HoldsFresh'
  BY DEF SceneSound, HoldsFresh, Current, NotCovered, CoveredNow, Undecided, Decided
<1>5. SkipsSound' /\ RunsSound' /\ NeedlessSound' /\ RunqSound'
  BY DEF RunSound, SkipsSound, RunsSound, NeedlessSound, RunqSound
<1>6. DoneSound'
  BY DEF RunSound, DoneSound, Undecided, Decided
<1> QED  BY <1>2, <1>3, <1>4, <1>5, <1>6 DEF SceneSound, RunSound

LEMMA RehashSound ==
  ASSUME Sound, TypeOK', Rehash
  PROVE  SceneSound' /\ RunSound'
<1> DEFINE ready == {t \in updated_taskhash_queue : t \notin runq_running \/ t \in runq_complete}
<1>1. PICK R \in SUBSET ready :
        \E C \in SUBSET (Affected(R) \ Kept), X \in SUBSET (Affected(R) \cap Kept) : Recompute(R, C, X)
  BY DEF Rehash
<1>2. PICK C \in SUBSET (Affected(R) \ Kept), X \in SUBSET (Affected(R) \cap Kept) : Recompute(R, C, X)
  BY <1>1
<1>3. /\ pending_migrations' = pending_migrations \cup (C \cap Setscene)
      /\ stamp' = [t \in Tasks |-> IF t \in C \cup X \cup (Source(R) \ R) THEN "none" ELSE stamp[t]]
      /\ C \cap scenequeue_covered = {}
  BY <1>2 DEF Recompute, Retried, Kept
<1>4. \A t \in Tasks : stamp[t] = "none" \/ t \in C => stamp'[t] = "none"
  BY <1>3
<1>5. /\ pc = "read" /\ pc' = "migrate" /\ updated_taskhash_queue' = updated_taskhash_queue \ ready
      /\ todo' = pending_migrations' /\ moved' = {} /\ hardfail' = {}
      /\ UNCHANGED <<settings, state, marks, scene, holds, runq>>
  BY DEF Rehash
<1>6. moved = {} /\ hardfail = {} /\ todo = {}
  BY <1>5 DEF Sound, SceneSound, MigrationSound
<1> HIDE DEF ready
<1> USE <1>5, <1>6 DEF Sound, settings, marks, scene, holds, runq
<1>7. MarksSound'
  <2>1. \A s \in Undecided : stamp'[s] = "none"
    BY <1>4, GraphAssumption DEF SceneSound, MarksSound, Undecided
  <2> QED  BY <2>1 DEF SceneSound, MarksSound, NotBoth, Undecided, Decided
<1>8. MigrationSound'
  <2>1. \A s \in pending_migrations' \ runq_running : stamp'[s] = "none"
    BY <1>3, <1>4, GraphAssumption DEF SceneSound, MigrationSound, Counting, TypeOK
  <2>2. updated_taskhash_queue' \subseteq runq_running' \ runq_complete'
    BY DEF ready
  <2> QED  BY <1>3, <2>1, <2>2 DEF SceneSound, MigrationSound
<1>9. UndecidedApart'
  BY DEF SceneSound, UndecidedApart, Undecided, Decided, CoveredRunning
<1>10. HoldsFresh'
  BY DEF SceneSound, HoldsFresh, Current, NotCovered, CoveredNow, Undecided, Decided
<1>11. SkipsSound' /\ RunsSound' /\ NeedlessSound' /\ RunqSound'
  BY DEF RunSound, SkipsSound, RunsSound, NeedlessSound, RunqSound
<1>12. DoneSound'
  BY DEF RunSound, DoneSound, Undecided, Decided
<1> QED  BY <1>7, <1>8, <1>9, <1>10, <1>11, <1>12 DEF SceneSound, RunSound

LEMMA MigrateSkipsSound ==
  ASSUME Sound, TypeOK', NEW t \in Setscene, MigrateSkips(t)
  PROVE  SceneSound' /\ RunSound'
<1>1. /\ pc = "migrate" /\ t \in todo /\ todo' = todo \ {t}
      /\ IF t \in runq_running \cup sq_live THEN pending_migrations' = pending_migrations \ {t}
         ELSE CoveredRunning(t) /\ pending_migrations' = pending_migrations
      /\ UNCHANGED <<control, marks, scene, holds, runq, updated_taskhash_queue, moved, hardfail>>
  BY DEF MigrateSkips
<1> USE <1>1 DEF Sound, control, settings, marks, scene, holds, runq
<1>2. MarksSound'
  BY DEF SceneSound, MarksSound, NotBoth, Undecided, Decided
<1>3. MigrationSound'
  <2>1. pending_migrations' \ todo' \subseteq scenequeue_notcovered
    BY DEF SceneSound, MigrationSound, UndecidedApart, Undecided, Decided
  <2> QED  BY <2>1 DEF SceneSound, MigrationSound, Undecided, Decided
<1>4. UndecidedApart'
  BY DEF SceneSound, UndecidedApart, Undecided, Decided, CoveredRunning
<1>5. HoldsFresh'
  BY DEF SceneSound, HoldsFresh, Current, NotCovered, CoveredNow, Undecided, Decided
<1>6. SkipsSound' /\ RunsSound' /\ NeedlessSound' /\ RunqSound'
  BY DEF RunSound, SkipsSound, RunsSound, NeedlessSound, RunqSound
<1>7. DoneSound'
  BY DEF RunSound, DoneSound, Undecided, Decided
<1> QED  BY <1>2, <1>3, <1>4, <1>5, <1>6, <1>7 DEF SceneSound, RunSound

\* No migration meets a covered task that was skipped: everything that stands
\* for such a task is installed, and what is installed does not migrate.
LEMMA NothingSkipped ==
  ASSUME Sound, NEW t \in todo
  PROVE  ~CoveredSkipped(t)
<1>1. t \in pending_migrations /\ t \notin scenequeue_covered /\ t \in Setscene
  BY DEF Sound, Counting, TypeOK, SceneSound, MigrationSound
<1>2. ASSUME NEW c \in Covers[t], c \in runq_complete \ runq_tasksrun PROVE FALSE
  BY <1>1, <1>2, CoversStep DEF Sound, RunSound, SkipsSound
<1> QED  BY <1>2 DEF CoveredSkipped

LEMMA MigrateTakesSound ==
  ASSUME Sound, TypeOK', NEW t \in Setscene, MigrateTakes(t)
  PROVE  SceneSound' /\ RunSound'
<1> DEFINE dropped == \E h \in Setscene : t \in HardDeps[h] /\ h \in scenequeue_notcovered
           turn == (~dropped /\ SqRevdeps[t] \subseteq Decided) \/ SqRevdeps[t] = {}
<1>1. /\ pc = "migrate" /\ t \in todo \ (runq_running \cup sq_live) /\ ~CoveredRunning(t)
      /\ pending_migrations' = pending_migrations \ {t} /\ MigrateMoves(t)
      /\ UNCHANGED <<settings, stamp, holdoff_need_update, sq_live, sq_active, sq_deferred, sqdone,
                 holds, runq_buildable, runq_running, runq_complete, runq_tasksrun, live,
                 active, updated_taskhash_queue>>
  BY NothingSkipped DEF MigrateTakes
<1>2. /\ tasks_scenequeue_done' = tasks_scenequeue_done \ ({t} \cup DoneCovered(t))
      /\ sq_buildable' = (sq_buildable \ {t}) \cup (IF turn THEN {t} ELSE {})
      /\ sq_running' = sq_running \ {t}
      /\ scenequeue_covered' = scenequeue_covered \ {t}
      /\ scenequeue_notcovered' = scenequeue_notcovered \ {t}
      /\ scenequeue_notneeded' = scenequeue_notneeded \ {t}
      /\ moved' = moved \cup {t} /\ todo' = todo \ {t}
      /\ hardfail' = hardfail \cup (IF dropped THEN {t} ELSE {})
      /\ UNCHANGED <<state, pc, failed_tids>>
  BY <1>1 DEF MigrateMoves
<1>3. /\ MarksSound /\ MigrationSound /\ UndecidedApart /\ TypeOK
      /\ SkipsSound /\ RunsSound /\ NeedlessSound /\ RunqSound /\ DoneSound
  BY DEF Sound, SceneSound, RunSound, Counting
<1>4. t \notin scenequeue_covered /\ stamp[t] = "none" /\ t \notin NoExec
  BY <1>1, <1>3 DEF MigrationSound, MarksSound
<1>5. Decided' = Decided \ {t} /\ Undecided' = Undecided \cup {t}
  BY <1>2 DEF Decided, Undecided
<1>6. scenequeue_covered' = scenequeue_covered  BY <1>2, <1>4
<1> HIDE DEF dropped, turn
<1>7. MarksSound'
  <2>1. /\ Decided' \subseteq sq_running' /\ Decided' \subseteq sq_buildable'
        /\ sq_running' \subseteq Decided' \cup sq_live' /\ sq_live' \cap Decided' = {}
        /\ Setscene \cap NoExec \subseteq scenequeue_covered'
        /\ \A s \in Undecided' : stamp'[s] = "none"
        /\ DOMAIN Twin = {} => NotBoth'
    BY <1>1, <1>2, <1>3, <1>4, <1>5, <1>6 DEF MarksSound, NotBoth
  <2>2. ASSUME NEW h \in Setscene, NEW s \in HardDeps[h]
        PROVE  /\ s \in sq_live' \cup (sq_buildable' \ sq_running') => h \in scenequeue_covered'
               /\ s \in Undecided' /\ h \in scenequeue_notcovered' \ scenequeue_covered'
                    => s \in hardfail'
    <3>1. CASE s # t
      BY <1>1, <1>2, <1>3, <1>5, <1>6, <2>2, <3>1 DEF MarksSound
    <3>2. CASE s = t
      <4>1. h \in SqRevdeps[t]  BY <2>2, <3>2 DEF SqRevdeps
      <4>2. turn => h \in scenequeue_covered
        BY <2>2, <3>2, <4>1 DEF turn, dropped, Decided
      <4>3. h \in scenequeue_notcovered => t \in hardfail'
        BY <1>2, <2>2, <3>2 DEF dropped
      <4> QED  BY <1>1, <1>2, <1>6, <3>2, <4>2, <4>3
    <3> QED  BY <3>1, <3>2
  <2>3. ASSUME NEW s \in Undecided', SqRevdeps[s] \subseteq Decided'
        PROVE  s \in sq_buildable' \cup hardfail'
    <3>1. CASE s # t
      BY <1>2, <1>3, <1>5, <2>3, <3>1 DEF MarksSound
    <3>2. CASE s = t
      BY <1>2, <1>5, <2>3, <3>2 DEF turn
    <3> QED  BY <3>1, <3>2
  <2> QED  BY <2>1, <2>2, <2>3 DEF MarksSound
<1>8. MigrationSound'
  BY <1>1, <1>2, <1>3, <1>5, <1>6 DEF MigrationSound
<1>9. UndecidedApart'
  BY <1>1, <1>3, <1>5 DEF UndecidedApart, CoveredRunning
<1>10. HoldsFresh'
  BY <1>1, <1>2 DEF HoldsFresh, Current
<1>11. SkipsSound' /\ NeedlessSound' /\ RunqSound'
  BY <1>1, <1>2, <1>3, <1>6 DEF SkipsSound, NeedlessSound, RunqSound, settings
<1>12. RunsSound'
  BY <1>1, <1>2, <1>3 DEF RunsSound, CoveredRunning
<1>13. DoneSound'
  <2>1. DoneCovered(t) \cap (Setscene \cup Unskippable) = {}
    BY CoversStep DEF DoneCovered
  <2>2. ASSUME NEW x \in Tasks \ Setscene, Revdeps(x) \subseteq tasks_scenequeue_done'
        PROVE  x \in tasks_scenequeue_done'
    <3>1. x \in tasks_scenequeue_done  BY <1>2, <1>3, <2>2 DEF DoneSound
    <3>2. SUFFICES ASSUME x \in DoneCovered(t) PROVE FALSE
      BY <1>2, <2>2, <3>1
    <3>3. x \in Covers[t] /\ x \notin runq_complete /\ x \notin Unskippable
      BY <3>2 DEF DoneCovered
    <3>4. t \notin Revdeps(x)  BY <1>2, <2>2
    <3>5. t \in Tasks /\ x \notin Depends[t]
      BY <3>4, GraphAssumption DEF Revdeps
    <3>6. PICK y \in Covers[t] : x \in Depends[y]
      BY <3>3, <3>5, CoversStep
    <3>7. y \in Tasks \ Setscene /\ y \in Revdeps(x)  BY <3>6, CoversStep DEF Revdeps
    <3>8. y \in runq_complete \cup Unskippable
      BY <1>2, <2>2, <3>6, <3>7 DEF DoneCovered
    <3>9. CASE y \in runq_complete
      BY <3>3, <3>6, <3>9 DEF Sound, Ordering
    <3>10. CASE y \in Unskippable
      BY <3>3, <3>6, <3>7, <3>10, UnskippableStep
    <3> QED  BY <3>8, <3>9, <3>10
  <2>3. Decided' \subseteq tasks_scenequeue_done'
    BY <1>2, <1>3, <1>5, <2>1 DEF DoneSound, TypeOK, Decided
  <2>4. tasks_scenequeue_done' \cap Setscene \subseteq Decided'
    BY <1>2, <1>3, <1>5 DEF DoneSound
  <2>5. Unskippable \ Setscene \subseteq tasks_scenequeue_done'
    BY <1>2, <1>3, <2>1 DEF DoneSound
  <2>6. (sqdone' => Undecided' \subseteq moved') /\ pc' \notin {"holdoff", "task"}
    BY <1>1, <1>2, <1>3, <1>5 DEF DoneSound
  <2> QED  BY <2>2, <2>3, <2>4, <2>5, <2>6 DEF DoneSound
<1> QED
  BY <1>7, <1>8, <1>9, <1>10, <1>11, <1>12, <1>13 DEF SceneSound, RunSound

LEMMA MigrateEndsSound ==
  ASSUME Sound, TypeOK', MigrateEnds
  PROVE  SceneSound' /\ RunSound'
<1> DEFINE skipped == {t \in moved : NoNeedToFetch(stamp, t)}
<1>1. /\ pc = "migrate" /\ todo = {} /\ pc' = "setscene"
      /\ sqdone' = (sqdone /\ moved = {})
      /\ stamp' = [t \in Tasks |-> IF t \in moved \cap NoExec THEN "setscene" ELSE stamp[t]]
      /\ moved' = {} /\ hardfail' = {}
      /\ UNCHANGED <<settings, state, sq_live, sq_active, scenequeue_notneeded, holds, runq,
                     updated_taskhash_queue, pending_migrations, todo>>
  BY DEF MigrateEnds
<1>2. /\ TypeOK /\ MarksSound /\ MigrationSound /\ RunqSound /\ moved \subseteq Undecided \ sq_live
      /\ hardfail \subseteq moved
  BY DEF Sound, Counting, SceneSound, RunSound, MigrationSound
<1>3. skipped = {} /\ moved \cap NoExec = {}
  <2>1. ASSUME NEW t \in moved PROVE ~NoNeedToFetch(stamp, t) /\ t \notin NoExec
    <3>1. stamp[t] = "none" /\ t \notin NoExec
      BY <1>2, <2>1 DEF MarksSound, Undecided, Decided
    <3> QED  BY <3>1 DEF NoNeedToFetch, StampTrusted
  <2> QED  BY <2>1
<1>4. stamp' = stamp
  BY <1>1, <1>2, <1>3 DEF TypeOK
<1>5. RunqSound'
  BY <1>1, <1>2 DEF RunqSound, runq, settings
<1>6. CASE moved # {}
  <2>1. Decide({}, hardfail)  BY <1>3, <1>6 DEF MigrateEnds
  <2>2. {} \in SUBSET Setscene /\ hardfail \in SUBSET Setscene  BY <1>2 DEF TypeOK
  <2>3. Deciding({}, hardfail)
    BY <1>1, <1>2, <1>4, <2>1 DEF Deciding, runq
  <2> QED  BY <1>5, <2>2, <2>3, DecideSound
<1>7. CASE moved = {}
  <2>1. /\ UNCHANGED <<sq_buildable, sq_running, scenequeue_covered, scenequeue_notcovered,
                       tasks_scenequeue_done>>
        /\ holdoff_need_update' = (holdoff_need_update \/ changed)
    BY <1>7 DEF MigrateEnds
  <2>2. UNCHANGED <<sqdone, moved, hardfail>>
    BY <1>1, <1>2, <1>7 DEF TypeOK
  <2> USE <1>1, <1>4, <1>7, <2>1, <2>2 DEF Sound, settings, holds, runq
  <2>3. MarksSound' /\ MigrationSound'
    BY <1>2 DEF MarksSound, MigrationSound, NotBoth, Undecided, Decided
  <2>4. UndecidedApart'
    BY DEF SceneSound, UndecidedApart, Undecided, Decided, CoveredRunning
  <2>5. HoldsFresh'
    <3>1. Current' => Current  BY DEF Current
    <3>2. UNCHANGED <<NotCovered, CoveredNow, Undecided>>
      BY DEF NotCovered, CoveredNow, Undecided, Decided
    <3> QED  BY <3>1, <3>2 DEF SceneSound, HoldsFresh
  <2>6. SkipsSound' /\ RunsSound' /\ NeedlessSound'
    BY DEF RunSound, SkipsSound, RunsSound, NeedlessSound
  <2>7. DoneSound'
    BY DEF RunSound, DoneSound, Undecided, Decided
  <2> QED  BY <1>5, <2>3, <2>4, <2>5, <2>6, <2>7 DEF SceneSound, RunSound
<1> QED  BY <1>6, <1>7

LEMMA MigrateSound ==
  ASSUME Sound, TypeOK', Migrate
  PROVE  SceneSound' /\ RunSound'
<1>1. CASE Proceed
  BY <1>1, StillSound DEF Proceed, idle
<1> QED
  BY <1>1, RehashSound, MigrateSkipsSound, MigrateTakesSound, MigrateEndsSound DEF Migrate

-----------------------------------------------------------------------------
(* The setscene half. *)

\* What the setscene half takes up is undecided, and the worker does not have it.
LEMMA WaitingUndecided ==
  ASSUME Sound, NEW t \in Waiting
  PROVE  t \in Undecided /\ t \notin sq_live /\ ~sqdone
BY DEF Sound, Counting, TypeOK, SceneSound, MarksSound, Waiting, Undecided

\* At the places where migrations are over.
LEMMA NothingMoved ==
  ASSUME Sound, pc # "migrate"
  PROVE  moved = {} /\ todo = {} /\ hardfail = {}
BY DEF Sound, SceneSound, MigrationSound

LEMMA SetsceneDecidesSound ==
  ASSUME Sound, TypeOK', NEW t \in Setscene, SetsceneUnneeded(t) \/ SetsceneSettles(t)
  PROVE  SceneSound' /\ RunSound'
<1>1. /\ pc = "setscene" /\ t \in Waiting /\ Return
      /\ UNCHANGED <<settings, stamp, sq_live, sqdone, holds, runq, hashes>>
  BY DEF SetsceneUnneeded, SetsceneSettles
<1>2. t \in Undecided /\ t \notin sq_live  BY <1>1, WaitingUndecided
<1>3. moved = {} /\ todo = {} /\ hardfail = {}  BY <1>1, NothingMoved
<1>4. RunqSound'
  BY <1>1 DEF Sound, RunSound, RunqSound, runq, settings
<1>5. ASSUME NEW cov \in SUBSET Setscene, NEW fail \in SUBSET Setscene, Decide(cov, fail),
             cov \cup fail = {t}, cov \cap fail = {},
             scenequeue_notneeded' = scenequeue_notneeded
             \/ (cov = {t} /\ scenequeue_notneeded' = scenequeue_notneeded \cup {t} /\ Needless(t))
      PROVE  SceneSound' /\ RunSound'
  <2>1. pc' \in {"read", "finish", "teardown"}  BY <1>1 DEF Return
  <2>2. Deciding(cov, fail)
    BY <1>1, <1>2, <1>3, <1>5, <2>1 DEF Deciding, runq, hashes
  <2> QED  BY <1>4, <1>5, <2>2, DecideSound
<1>6. CASE SetsceneUnneeded(t)
  <2>1. /\ Decide({t}, {}) /\ Needless(t)
        /\ scenequeue_notneeded' = scenequeue_notneeded \cup {t}
    BY <1>6 DEF SetsceneUnneeded
  <2> QED  BY <1>5, <2>1
<1>7. CASE SetsceneSettles(t)
  <2>1. /\ Decide({}, {t}) \/ Decide({t}, {})
        /\ scenequeue_notneeded' = scenequeue_notneeded
    BY <1>7 DEF SetsceneSettles
  <2>2. CASE Decide({}, {t})  BY <1>5, <2>1, <2>2
  <2>3. CASE Decide({t}, {})  BY <1>5, <2>1, <2>3
  <2> QED  BY <2>1, <2>2, <2>3
<1> QED  BY <1>6, <1>7

LEMMA SetsceneStartsSound ==
  ASSUME Sound, TypeOK', NEW t \in Setscene, SetsceneStarts(t)
  PROVE  SceneSound' /\ RunSound'
<1>1. /\ pc = "setscene" /\ t \in Waiting
      /\ sq_running' = sq_running \cup {t} /\ sq_live' = sq_live \cup {t}
      /\ IF CanStart' THEN Return ELSE pc' = "holdoff"
      /\ UNCHANGED <<settings, state, stamp, sq_buildable, scenequeue_covered, scenequeue_notcovered,
                     tasks_scenequeue_done, holdoff_need_update, scenequeue_notneeded, sqdone,
                     holds, runq, hashes>>
  BY DEF SetsceneStarts
<1>2. t \in Undecided /\ t \notin sq_live /\ t \in sq_buildable \ sq_running
  BY <1>1, WaitingUndecided DEF Waiting
<1>3. moved = {} /\ todo = {} /\ hardfail = {}  BY <1>1, NothingMoved
<1>4. pc' \in {"read", "finish", "teardown", "holdoff"}  BY <1>1 DEF Return
<1> USE <1>1, <1>2, <1>3, <1>4 DEF Sound, settings, holds, runq, hashes
<1>5. MarksSound'
  BY DEF SceneSound, MarksSound, NotBoth, Undecided, Decided
<1>6. MigrationSound'
  BY DEF SceneSound, MigrationSound, Undecided, Decided
<1>7. UndecidedApart'
  BY DEF SceneSound, UndecidedApart, Undecided, Decided, CoveredRunning
<1>8. HoldsFresh'
  BY DEF SceneSound, HoldsFresh, Current, NotCovered, CoveredNow, Undecided, Decided
<1>9. SkipsSound' /\ RunsSound' /\ NeedlessSound' /\ RunqSound'
  BY DEF RunSound, SkipsSound, RunsSound, NeedlessSound, RunqSound
<1>10. DoneSound'
  <2>1. pc' = "holdoff" => Waiting' = {}  BY DEF Waiting, Return
  <2> QED  BY <2>1 DEF RunSound, DoneSound, Undecided, Decided
<1> QED  BY <1>5, <1>6, <1>7, <1>8, <1>9, <1>10 DEF SceneSound, RunSound

LEMMA SetsceneStepSound ==
  ASSUME Sound, TypeOK', SetsceneStep
  PROVE  SceneSound' /\ RunSound'
<1>1. CASE SetsceneNone
  BY <1>1, StillSound DEF SetsceneNone, idle
<1> QED
  BY <1>1, SetsceneDecidesSound, SetsceneStartsSound DEF SetsceneStep

\* Once every setscene task is decided and the hold-offs are up to date, every
\* task is either covered or to be run, and none is held.
Settled == /\ tasks_scenequeue_done = Tasks /\ tasks_covered \cup tasks_notcovered = Tasks
           /\ holdoff_tasks = {}
           /\ \A t \in Tasks : Depends[t] \subseteq runq_complete => t \in runq_buildable

LEMMA AllSettled ==
  TypeOK /\ DoneSound /\ HoldsFresh /\ Current /\ Undecided = {} => Settled
<1> SUFFICES ASSUME TypeOK, DoneSound, HoldsFresh, Current, Undecided = {} PROVE Settled
  OBVIOUS
<1>1. Setscene \subseteq Decided  BY DEF Undecided
<1>2. tasks_scenequeue_done = Tasks
  <2>1. /\ tasks_scenequeue_done \in SUBSET Tasks /\ Setscene \subseteq tasks_scenequeue_done
        /\ \A t \in Tasks \ Setscene :
             Revdeps(t) \subseteq tasks_scenequeue_done => t \in tasks_scenequeue_done
    BY <1>1 DEF TypeOK, DoneSound
  <2> QED  BY <2>1, AllDone
<1>3. ASSUME NEW t \in Tasks PROVE t \in NotCovered \cup CoveredNow
  <2>1. CASE t \in Setscene
    BY <1>1, <1>2, <2>1 DEF NotCovered, CoveredNow, Decided
  <2>2. CASE t \in Unskippable \ Setscene
    BY <1>2, <2>2 DEF NotCovered
  <2>3. ASSUME NEW s \in Setscene, t \in Covers[s] PROVE t \in NotCovered \cup CoveredNow
    <3>1. s \in scenequeue_covered \cup scenequeue_notcovered  BY <1>1 DEF Decided
    <3> QED  BY <1>2, <1>3, <2>3, <3>1 DEF NotCovered, CoveredNow
  <2> QED  BY <2>1, <2>2, <2>3, WantedOrCovered
<1>4. tasks_covered = CoveredNow /\ tasks_notcovered = NotCovered  BY DEF HoldsFresh
<1>5. tasks_covered \cup tasks_notcovered = Tasks  BY <1>3, <1>4 DEF TypeOK
<1>6. holdoff_tasks = {}  BY DEF HoldsFresh
<1>7. \A t \in Tasks : Depends[t] \subseteq runq_complete => t \in runq_buildable
  BY <1>5 DEF HoldsFresh
<1> QED  BY <1>2, <1>5, <1>6, <1>7 DEF Settled

LEMMA HoldoffSound ==
  ASSUME Sound, TypeOK', Holdoff
  PROVE  SceneSound' /\ RunSound' /\ state' = state
<1>1. /\ pc = "holdoff"
      /\ UNCHANGED <<settings, stamp, sq_buildable, sq_running, scenequeue_covered,
                     scenequeue_notcovered, tasks_scenequeue_done, sq_live, sq_active,
                     sq_deferred, scenequeue_notneeded, runq_running,
                     runq_complete, runq_tasksrun, failed_tids, live, active, hashes>>
      /\ \/ HoldoffUpdate
         \/ ~holdoff_need_update /\ UNCHANGED <<holds, runq_buildable, holdoff_need_update>>
  BY DEF Holdoff
<1>2. moved = {} /\ todo = {} /\ hardfail = {}  BY <1>1, NothingMoved
<1>3. UNCHANGED <<NotCovered, CoveredNow, Undecided, Decided>>
  BY <1>1 DEF NotCovered, CoveredNow, Undecided, Decided
<1>4. runq_buildable \subseteq runq_buildable'  BY <1>1 DEF HoldoffUpdate
<1>5. HoldsFresh' /\ Current'
  <2>1. CASE HoldoffUpdate
    <3>1. /\ tasks_notcovered' = NotCovered /\ tasks_covered' = CoveredNow
          /\ runq_buildable' = runq_buildable \cup
               {t \in CoveredNow \cup NotCovered : Depends[t] \subseteq runq_complete}
          /\ holdoff_tasks' = Undecided \cup ((UNION {Covers[t] : t \in Undecided}) \ runq_complete)
          /\ holdoff_need_update' = FALSE
      BY <2>1 DEF HoldoffUpdate, NotCovered, CoveredNow, Undecided
    <3>2. \A s \in Undecided : {s} \cup (Covers[s] \ runq_complete) \subseteq holdoff_tasks'
      BY <3>1
    <3>3. \A t \in holdoff_tasks' : t \in Undecided \/ \E s \in Undecided : t \in Covers[s]
      BY <3>1
    <3> QED  BY <1>1, <1>2, <1>3, <3>1, <3>2, <3>3 DEF HoldsFresh, Current, hashes
  <2>2. CASE ~holdoff_need_update /\ UNCHANGED <<holds, runq_buildable, holdoff_need_update>>
    BY <1>1, <1>2, <1>3, <2>2 DEF HoldsFresh, Current, hashes, holds, Sound, SceneSound
  <2> QED  BY <1>1, <2>1, <2>2
<1>6. MarksSound' /\ MigrationSound'
  <2>1. updated_taskhash_queue \subseteq runq_running \ runq_complete
    BY <1>1 DEF Sound, SceneSound, MigrationSound
  <2> QED
    BY <1>1, <1>2, <1>3, <2>1
    DEF Sound, SceneSound, MarksSound, MigrationSound, NotBoth, settings, hashes
<1>7. UndecidedApart'
  BY <1>1, <1>3 DEF Sound, SceneSound, UndecidedApart, CoveredRunning
<1>8. SkipsSound' /\ RunsSound' /\ NeedlessSound' /\ RunqSound'
  BY <1>1, <1>4 DEF Sound, RunSound, SkipsSound, RunsSound, NeedlessSound, RunqSound, settings
<1>9. /\ sqdone' => sqdone \/ Undecided = {}
      /\ DoneSound'
  <2>1. sqdone' => sqdone \/ holdoff_tasks' = {}  BY DEF Holdoff
  <2>2. holdoff_tasks' = {} => Undecided = {}  BY <1>3, <1>5 DEF HoldsFresh
  <2>3. \A t \in Waiting' : t \in Waiting  BY <1>1, <2>1 DEF Waiting, CanStart, settings, Holdoff
  <2>4. \A t : Deferred(t)' <=> Deferred(t)  BY <1>1 DEF Deferred
  <2> QED
    BY <1>1, <1>2, <1>3, <2>1, <2>2, <2>3, <2>4 DEF Sound, RunSound, DoneSound, hashes
<1>10. state' = state
  <2>1. SUFFICES ASSUME holdoff_tasks' = {}, sq_deferred = {}, updated_taskhash_queue = {}
                 PROVE  ~SetsceneErrors'
    BY DEF Holdoff
  <2>2. (Undecided = {})'  BY <1>3, <1>5, <2>1 DEF HoldsFresh
  <2>3. Settled'  BY <1>5, <1>9, <2>2, AllSettled, PTL
  <2>4. Setscene \subseteq Decided'  BY <2>2 DEF Undecided
  <2>5. sq_deferred' = {} /\ updated_taskhash_queue' = {}  BY <1>1, <2>1 DEF hashes
  <2> QED
    BY <1>6, <2>1, <2>3, <2>4, <2>5 DEF SetsceneErrors, Settled, MarksSound
<1> QED  BY <1>5, <1>6, <1>7, <1>8, <1>9, <1>10 DEF SceneSound, RunSound

-----------------------------------------------------------------------------
(* The task half. *)

\* What the scheduler may offer: nothing that an undecided setscene task holds,
\* and nothing that was started before.
LEMMA BuildableFree ==
  ASSUME Sound, pc = "task", NEW t \in Buildable
  PROVE  /\ Current /\ HoldsFresh /\ t \in Tasks
         /\ t \notin runq_running /\ t \notin live /\ t \notin runq_complete
         /\ t \in runq_buildable
         /\ t \notin Undecided /\ \A s \in Undecided : t \notin Covers[s]
         /\ t \in tasks_scenequeue_done /\ t \in CoveredNow \cup NotCovered
<1>1. Current /\ HoldsFresh
  BY NothingMoved DEF Sound, SceneSound, HoldsFresh, Current
<1>2. /\ t \in runq_buildable /\ t \notin runq_running /\ t \notin holdoff_tasks
      /\ t \in tasks_covered \cup tasks_notcovered
  BY DEF Buildable
<1>3. t \notin live /\ t \notin runq_complete  BY <1>2 DEF Sound, Ordering
<1>4. t \notin Undecided /\ \A s \in Undecided : t \notin Covers[s]
  BY <1>1, <1>2, <1>3 DEF HoldsFresh
<1>5. t \in CoveredNow \cup NotCovered  BY <1>1, <1>2 DEF HoldsFresh
<1> QED
  BY <1>1, <1>2, <1>3, <1>4, <1>5 DEF CoveredNow, NotCovered, Sound, Counting, TypeOK

LEMMA RefuseSound ==
  ASSUME Sound, TypeOK', NEW t \in Tasks, Refuse(t)
  PROVE  SceneSound' /\ RunSound'
<1>1. /\ pc = "task" /\ enforced # {} /\ failed_tids' = failed_tids \cup {t}
      /\ UNCHANGED <<settings, stamp, marks, scene, holds, runq_buildable, runq_running,
                     runq_complete, runq_tasksrun, live, hashes>>
  BY DEF Refuse, Unexpected
<1>2. pc' \in {"read", "finish", "teardown"}  BY DEF Refuse, Return
<1> USE <1>1, <1>2 DEF Sound, settings, marks, scene, holds, hashes
<1>3. MarksSound' /\ MigrationSound'
  BY DEF SceneSound, MarksSound, NotBoth, MigrationSound, Undecided, Decided
<1>4. UndecidedApart'
  BY DEF SceneSound, UndecidedApart, Undecided, Decided, CoveredRunning
<1>5. HoldsFresh'
  BY DEF SceneSound, HoldsFresh, Current, NotCovered, CoveredNow, Undecided, Decided
<1>6. SkipsSound' /\ RunsSound' /\ NeedlessSound' /\ RunqSound'
  BY DEF RunSound, SkipsSound, RunsSound, NeedlessSound, RunqSound
<1>7. DoneSound'
  BY DEF RunSound, DoneSound, Undecided, Decided
<1> QED  BY <1>3, <1>4, <1>5, <1>6, <1>7 DEF SceneSound, RunSound

LEMMA FinishedSound ==
  ASSUME Sound, TypeOK', NEW t \in Tasks, SkipCovered(t) \/ SkipExisting(t) \/ RunNoExec(t)
  PROVE  SceneSound' /\ RunSound'
<1>1. pc = "task" /\ t \in Buildable /\ Finished(t) /\ Return
  BY DEF SkipCovered, SkipExisting, RunNoExec
<1>2. \/ t \in tasks_covered /\ UNCHANGED <<stamp, runq_tasksrun>>
      \/ runq_tasksrun' = runq_tasksrun \cup {t} /\ stamp' \in {stamp, StampRun(t)}
  BY DEF SkipCovered, SkipExisting, RunNoExec
<1>3. \A s \in Tasks : s # t /\ stamp[s] = "none" => stamp'[s] = "none"
  BY <1>2 DEF StampRun
<1>4. /\ Current /\ HoldsFresh /\ t \notin runq_running /\ t \notin live /\ t \notin runq_complete
      /\ t \in runq_buildable /\ t \notin Undecided /\ \A s \in Undecided : t \notin Covers[s]
      /\ t \in tasks_scenequeue_done /\ t \in CoveredNow \cup NotCovered
  BY <1>1, BuildableFree
<1>5. /\ runq_running' = runq_running \cup {t} /\ runq_complete' = runq_complete \cup {t}
      /\ runq_buildable' = runq_buildable \cup {t} \cup Wake(t)
      /\ UNCHANGED <<settings, state, marks, scene, holds, failed_tids, live, active, hashes>>
  BY <1>1 DEF Finished
<1>6. pc' \in {"read", "finish", "teardown"}  BY <1>1 DEF Return
<1>7. moved = {} /\ todo = {} /\ hardfail = {}  BY <1>1, NothingMoved
<1> USE <1>5, <1>6, <1>7 DEF Sound, settings, marks, scene, holds, hashes
<1>8. MarksSound'
  <2>1. \A s \in Undecided : stamp'[s] = "none"
    BY <1>3, <1>4, GraphAssumption DEF SceneSound, MarksSound, Undecided
  <2> QED  BY <2>1 DEF SceneSound, MarksSound, NotBoth, Undecided, Decided
<1>9. MigrationSound'
  <2>1. \A s \in pending_migrations \ runq_running' : stamp'[s] = "none"
    BY <1>3, GraphAssumption DEF SceneSound, MigrationSound, Counting, TypeOK
  <2> QED  BY <2>1 DEF SceneSound, MigrationSound, Undecided, Decided
<1>10. UndecidedApart'
  BY <1>4 DEF SceneSound, UndecidedApart, Undecided, Decided, CoveredRunning
<1>11. HoldsFresh'
  <2>1. UNCHANGED <<NotCovered, CoveredNow, Undecided>>
    BY DEF NotCovered, CoveredNow, Undecided, Decided
  <2>2. ASSUME NEW r \in tasks_covered \cup tasks_notcovered, Depends[r] \subseteq runq_complete'
        PROVE  r \in runq_buildable'
    BY <1>4, <2>2, WokenBuildable DEF HoldsFresh, Counting, TypeOK
  <2> QED  BY <1>4, <2>1, <2>2 DEF HoldsFresh, Current
<1>12. SkipsSound'
  <2>1. CASE t \in tasks_covered /\ UNCHANGED <<stamp, runq_tasksrun>>
    <3>1. t \in CoveredNow /\ t \notin NotCovered
      BY <1>4, <2>1 DEF HoldsFresh, CoveredNow
    <3>2. t \in Setscene => t \in scenequeue_covered
      BY <1>4, <3>1 DEF NotCovered, Undecided, Decided
    <3>3. t \notin Setscene => t \notin Unskippable
      BY <1>4, <3>1 DEF NotCovered
    <3>4. \A s \in Setscene : t \in Covers[s] => s \in scenequeue_covered
      BY <1>4, <3>1 DEF NotCovered, Undecided, Decided
    <3> QED  BY <2>1, <3>2, <3>3, <3>4 DEF RunSound, SkipsSound
  <2>2. CASE runq_tasksrun' = runq_tasksrun \cup {t}
    BY <2>2 DEF RunSound, SkipsSound
  <2> QED  BY <1>2, <2>1, <2>2
<1>13. RunsSound' /\ NeedlessSound'
  BY DEF RunSound, RunsSound, NeedlessSound
<1>14. RunqSound'
  BY <1>4 DEF RunSound, RunqSound
<1>15. DoneSound'
  BY DEF RunSound, DoneSound, Undecided, Decided
<1> QED
  BY <1>8, <1>9, <1>10, <1>11, <1>12, <1>13, <1>14, <1>15 DEF SceneSound, RunSound

LEMMA StartsSound ==
  ASSUME Sound, TypeOK', NEW t \in Tasks, Starts(t)
  PROVE  SceneSound' /\ RunSound'
<1>1. /\ pc = "task" /\ t \in Buildable \ tasks_covered
      /\ runq_running' = runq_running \cup {t} /\ live' = live \cup {t}
      /\ UNCHANGED <<settings, state, stamp, marks, scene, holds, runq_buildable, runq_complete,
                     runq_tasksrun, failed_tids, hashes>>
  BY DEF Starts
<1>2. /\ Current /\ HoldsFresh /\ t \notin runq_running /\ t \notin live /\ t \notin runq_complete
      /\ t \in runq_buildable /\ t \notin Undecided /\ \A s \in Undecided : t \notin Covers[s]
      /\ t \in CoveredNow \cup NotCovered
  BY <1>1, BuildableFree
<1>3. pc' \in {"read", "finish", "teardown", "wait"}  BY DEF Starts, Return
<1>4. t \in NotCovered  BY <1>1, <1>2 DEF HoldsFresh
<1> USE <1>1, <1>3 DEF Sound, settings, marks, scene, holds, hashes
<1>5. MarksSound' /\ MigrationSound'
  BY DEF SceneSound, MarksSound, NotBoth, MigrationSound, Undecided, Decided
<1>6. UndecidedApart'
  BY <1>2 DEF SceneSound, UndecidedApart, Undecided, Decided, CoveredRunning
<1>7. HoldsFresh'
  BY DEF SceneSound, HoldsFresh, Current, NotCovered, CoveredNow, Undecided, Decided
<1>8. RunsSound'
  <2>1. \/ t \in scenequeue_notcovered \/ t \in Unskippable \ Setscene
        \/ \E s \in scenequeue_notcovered : t \in Covers[s]
    BY <1>4, UnskippableStep DEF NotCovered, CantSkip
  <2> QED  BY <2>1 DEF RunSound, RunsSound
<1>9. SkipsSound' /\ NeedlessSound'
  BY DEF RunSound, SkipsSound, NeedlessSound
<1>10. RunqSound'
  BY <1>2 DEF RunSound, RunqSound
<1>11. DoneSound'
  BY DEF RunSound, DoneSound, Undecided, Decided
<1> QED  BY <1>5, <1>6, <1>7, <1>8, <1>9, <1>10, <1>11 DEF SceneSound, RunSound

\* When nothing can be started and nothing runs, the worker has nothing.
LEMMA StuckEmpty ==
  ASSUME Sound, Stuck
  PROVE  sq_live = {} /\ (failed_tids = {} => live = {}) /\ (failed_tids = {} => CanStart)
<1>1. Cardinality(sq_live) <= 0
  BY DEF Stuck, Sound, Counting
<1>2. sq_live = {}  BY <1>1, FiniteTasks, FS_EmptySet DEF Sound, Counting
<1>3. ASSUME failed_tids = {} PROVE live = {} /\ CanStart
  <2>1. active = Cardinality(live) /\ active <= 0  BY <1>3 DEF Stuck, Sound, Counting
  <2>2. live = {}  BY <2>1, FiniteTasks, FS_EmptySet DEF Sound, Counting
  <2> QED  BY <2>1, <2>2, FiniteTasks DEF Stuck, CanStart, Sound, Counting, TypeOK
<1> QED  BY <1>2, <1>3

LEMMA ForceDeferredSound ==
  ASSUME Sound, TypeOK', NEW t \in Setscene, ForceDeferred(t)
  PROVE  SceneSound' /\ RunSound'
<1>1. /\ Stuck /\ t \in sq_deferred /\ Decide({}, {Twin[t]}) /\ Return
      /\ UNCHANGED <<settings, state, stamp, sq_live, sq_active, scenequeue_notneeded, sqdone,
                     holds, runq, hashes>>
  BY DEF ForceDeferred
<1>2. {Twin[t]} \in SUBSET Setscene /\ DOMAIN Twin # {}
  BY <1>1, TwinAssumption DEF Sound, Counting, TypeOK
<1>3. sq_live = {}  BY <1>1, StuckEmpty
<1>4. moved = {} /\ todo = {} /\ hardfail = {}  BY <1>1, NothingMoved DEF Stuck
<1>5. pc' \in {"read", "finish", "teardown"}  BY <1>1 DEF Return
<1>6. Deciding({}, {Twin[t]})
  BY <1>1, <1>2, <1>3, <1>4, <1>5 DEF Deciding, runq, hashes
<1>7. RunqSound'
  BY <1>1 DEF Sound, RunSound, RunqSound, runq, settings
<1> QED  BY <1>2, <1>6, <1>7, DecideSound

LEMMA TaskStepSound ==
  ASSUME Sound, TypeOK', TaskStep
  PROVE  SceneSound' /\ RunSound'
<1>1. CASE Waits \/ Again \/ Ends
  <2>1. UNCHANGED idle /\ pc \in {"task", "wait"}  BY <1>1 DEF Waits, Again, Ends, Stuck, idle
  <2>2. pc' \in {"read", "wait", "finish", "teardown"}  BY <1>1 DEF Waits, Again, Ends, Return
  <2> QED  BY <2>1, <2>2, StillSound
<1> QED
  BY <1>1, RefuseSound, FinishedSound, StartsSound, ForceDeferredSound DEF TaskStep

LEMMA StopSound ==
  ASSUME Sound, TypeOK', Finish \/ Teardown \/ FinishLeft \/ Shutdown \/ ForceShutdown
  PROVE  SceneSound' /\ RunSound'
<1>1. UNCHANGED idle /\ pc \in {"read", "finish", "teardown", "left"}
  BY DEF Finish, Teardown, FinishLeft, Shutdown, ForceShutdown, idle
<1>2. pc' \in {"read", "finish", "teardown", "left", "ended"}
  BY DEF Finish, Teardown, FinishLeft, Shutdown, ForceShutdown, Return
<1> QED  BY <1>1, <1>2, StillSound

-----------------------------------------------------------------------------
(* The invariant. *)

\* What earlier builds left is whole: a task only has its stamp if those of its
\* recipe that it was made from have one.
WholeStamps ==
  \A st \in InitialStamps : \A t \in Tasks : \A d \in StampDeps(t) :
     st[t] = "real" => st[d] # "none"

LEMMA InitSound ==
  ASSUME WholeStamps
  PROVE  Init => Sound
<1> SUFFICES ASSUME Init PROVE Sound  OBVIOUS
<1> DEFINE skipped == {t \in Setscene : NoNeedToFetch(stamp, t)}
           base == Unskippable \ Setscene
<1>1. Counting /\ Ordering /\ TypeOK
  BY InitCounting, InitOrdering DEF Counting
<1>2. /\ scenequeue_covered = skipped /\ scenequeue_notcovered = {} /\ sq_running = skipped
      /\ sq_buildable = {t \in Setscene : SqRevdeps[t] = {}} \cup skipped
                        \cup Released(skipped, {}, skipped)
      /\ tasks_scenequeue_done = DoneBelow(base, skipped)
      /\ holdoff_need_update = TRUE /\ state = "running" /\ pc = "read" /\ sqdone = (Setscene = {})
      /\ sq_live = {} /\ scenequeue_notneeded = {} /\ runq_running = {} /\ runq_complete = {}
      /\ runq_tasksrun = {} /\ failed_tids = {} /\ live = {} /\ updated_taskhash_queue = {}
      /\ pending_migrations = {} /\ todo = {} /\ moved = {} /\ hardfail = {}
  BY DEF Init
<1>3. Decided = skipped /\ Undecided = Setscene \ skipped  BY <1>2 DEF Decided, Undecided
<1>4. \A s \in Undecided : stamp[s] = "none"
  <2>1. PICK st \in InitialStamps :
          stamp = [t \in Tasks |-> IF t \in Setscene \cap NoExec THEN "setscene" ELSE st[t]]
    BY DEF Init
  <2>2. ASSUME NEW s \in Undecided, stamp[s] = "real" PROVE FALSE
    <3> DEFINE S == {u \in Tasks : stamp[u] = "real"}
    <3>1. s \in S  BY <1>3, <2>2, GraphAssumption
    <3>2. ASSUME NEW u \in S, NEW d \in StampDeps(u) PROVE stamp[d] = "setscene" \/ d \in S
      <4>1. st[u] = "real" /\ d \in Tasks
        BY <2>1, <3>2, GraphAssumption DEF StampDeps
      <4>2. st[d] # "none"  BY <3>2, <4>1 DEF WholeStamps
      <4>3. stamp[d] # "none"  BY <2>1, <4>1, <4>2
      <4> QED  BY <1>1, <4>1, <4>3 DEF TypeOK, Stamps
    <3>3. StampTrusted(stamp, s)  BY <3>1, <3>2 DEF StampTrusted
    <3> QED  BY <1>3, <2>2, <3>3 DEF NoNeedToFetch
  <2>3. \A s \in Undecided : stamp[s] \in Stamps /\ stamp[s] # "setscene"
    BY <1>1, <1>3, GraphAssumption DEF NoNeedToFetch, TypeOK
  <2> QED  BY <2>2, <2>3 DEF Stamps
<1> HIDE DEF skipped, base
<1>5. MarksSound
  <2>1. Setscene \cap NoExec \subseteq scenequeue_covered
    BY <1>2 DEF skipped, NoNeedToFetch
  <2>2. ASSUME NEW h \in Setscene, NEW s \in HardDeps[h], s \in sq_buildable \ sq_running
        PROVE  h \in scenequeue_covered
    <3>1. h \in SqRevdeps[s]  BY <2>2, GraphAssumption DEF SqRevdeps
    <3>2. s \in Released(skipped, {}, skipped)  BY <1>2, <2>2, <3>1
    <3> QED  BY <1>2, <3>1, <3>2 DEF Released
  <2>3. ASSUME NEW s \in Undecided, SqRevdeps[s] \subseteq Decided PROVE s \in sq_buildable
    <3>1. s \in Setscene  BY DEF Undecided
    <3>2. CASE SqRevdeps[s] = {}  BY <1>2, <3>1, <3>2
    <3>3. CASE SqRevdeps[s] # {}
      <4>1. PICK u \in SqRevdeps[s] : u \in skipped  BY <1>3, <2>3, <3>3
      <4>2. s \in Released(skipped, {}, skipped)
        BY <1>3, <2>3, <3>1, <4>1 DEF Released, SqDeps
      <4> QED  BY <1>2, <4>2
    <3> QED  BY <3>2, <3>3
  <2> QED  BY <1>2, <1>3, <1>4, <2>1, <2>2, <2>3 DEF MarksSound, NotBoth
<1>6. MigrationSound /\ UndecidedApart /\ HoldsFresh
  BY <1>2 DEF MigrationSound, UndecidedApart, CoveredRunning, HoldsFresh, Current
<1>7. SkipsSound /\ RunsSound /\ NeedlessSound /\ RunqSound
  BY <1>2 DEF SkipsSound, RunsSound, NeedlessSound, RunqSound
<1>8. DoneSound
  <2>1. base \in SUBSET Tasks  BY UnskippableStep DEF base
  <2>2. ASSUME NEW t \in Tasks \ Setscene, Revdeps(t) \subseteq base PROVE t \in base
    <3>1. CASE Revdeps(t) = {}  BY <3>1, UnskippableStep DEF base
    <3>2. CASE Revdeps(t) # {}
      BY <2>2, <3>2, UnskippableStep DEF base, Revdeps
    <3> QED  BY <3>1, <3>2
  <2>3. skipped \in SUBSET Setscene  BY DEF skipped
  <2>4. LET d == tasks_scenequeue_done
        IN  /\ base \cup skipped \subseteq d
            /\ d \subseteq base \cup skipped \cup (Tasks \ Setscene)
            /\ \A t \in Tasks \ Setscene : Revdeps(t) \subseteq d => t \in d
    BY <1>2, <2>1, <2>2, <2>3, DoneBelowStep
  <2> QED  BY <1>2, <1>3, <2>4 DEF DoneSound, base, Undecided
<1> QED  BY <1>1, <1>5, <1>6, <1>7, <1>8 DEF Sound, SceneSound, RunSound

LEMMA NextSound == Sound /\ [Next]_vars => Sound'
<1> SUFFICES ASSUME Sound, [Next]_vars PROVE Sound'  OBVIOUS
<1>1. TypeOK'  BY NextType DEF Sound, Counting
<1>2. Counting' /\ Ordering'  BY NextCounting, NextOrdering DEF Sound
<1>3. CASE UNCHANGED vars \/ Ended
  <2>1. UNCHANGED vars  BY <1>3 DEF Ended
  <2> USE <2>1 DEF Sound, vars, control, settings, marks, scene, holds, runq, hashes
  <2>2. MarksSound' /\ MigrationSound'
    BY DEF SceneSound, MarksSound, NotBoth, MigrationSound, Undecided, Decided
  <2>3. UndecidedApart'
    BY DEF SceneSound, UndecidedApart, Undecided, Decided, CoveredRunning
  <2>4. HoldsFresh'
    BY DEF SceneSound, HoldsFresh, Current, NotCovered, CoveredNow, Undecided, Decided
  <2>5. SkipsSound' /\ RunsSound' /\ NeedlessSound' /\ RunqSound'
    BY DEF RunSound, SkipsSound, RunsSound, NeedlessSound, RunqSound
  <2>6. DoneSound'
    BY DEF RunSound, DoneSound, Waiting, CanStart, Deferred, Undecided, Decided
  <2> QED  BY <1>2, <2>2, <2>3, <2>4, <2>5, <2>6 DEF SceneSound, RunSound
<1>4. ASSUME NEW t \in Tasks, Exits(t) \/ HashUpdate(t) PROVE SceneSound' /\ RunSound'
  BY <1>1, <1>4, SetsceneExitsSound, TaskEndsSound, TaskFailsSound, HashUpdateSound DEF Exits
<1>5. CASE Execute
  BY <1>1, <1>2, <1>5, MigrateSound, SetsceneStepSound, HoldoffSound, TaskStepSound, StopSound DEF Execute, Sound
<1>6. CASE Shutdown \/ ForceShutdown
  BY <1>1, <1>2, <1>6, StopSound DEF Sound
<1> QED  BY <1>2, <1>3, <1>4, <1>5, <1>6 DEF Next, Sound

-----------------------------------------------------------------------------
(* What follows from it. *)

\* Whatever fails, migrates or is killed: a setscene task is only installed
\* after those that it depends on by name (its hard dependencies) were.
THEOREM HardDepsAlways ==
  ASSUME WholeStamps
  PROVE  Spec => []HardDepsFirst
<1>1. Init => Sound  BY InitSound
<1>2. Sound /\ [Next]_vars => Sound'  BY NextSound
<1>3. Sound => HardDepsFirst
  BY DEF Sound, SceneSound, MarksSound, HardDepsFirst
<1> QED  BY <1>1, <1>2, <1>3, PTL DEF Spec

\* While a setscene task installs, neither its task nor one it stands for runs:
\* the hold-offs and the check at migrations see to it without a check of their own.
THEOREM OneVariantAlways ==
  ASSUME WholeStamps
  PROVE  Spec => []OneVariant
<1>1. Sound => OneVariant
  <2> SUFFICES ASSUME Sound, NEW s \in sq_live PROVE live \cap ({s} \cup Covers[s]) = {}
    BY DEF OneVariant
  <2>1. s \in Undecided
    BY DEF Sound, Counting, TypeOK, SceneSound, MarksSound, Undecided
  <2>2. s \notin runq_running /\ Covers[s] \cap (runq_running \ runq_complete) = {}
    BY <2>1 DEF Sound, SceneSound, UndecidedApart, CoveredRunning
  <2> QED  BY <2>2 DEF Sound, Counting, RunSound, RunqSound
<1> QED  BY <1>1, InitSound, NextSound, PTL DEF Spec

\* Without twins, what is decided about a setscene task stays of one kind: none
\* is covered and uncovered at once.
THEOREM SetsceneSoundAlways ==
  ASSUME WholeStamps, DOMAIN Twin = {}
  PROVE  Spec => []SetsceneSound
<1>1. Sound => SetsceneSound
  BY DEF Sound, SceneSound, MarksSound, SetsceneSound, HardDepsFirst
<1> QED  BY <1>1, InitSound, NextSound, PTL DEF Spec

\* Without twins, nothing is done again: what is started was not run, skipped,
\* failed or installed before, and no setscene task starts once its task did.
THEOREM NotRepeatedAlways ==
  ASSUME WholeStamps, DOMAIN Twin = {}
  PROVE  Spec => NotRepeated
<1> DEFINE A == /\ \A t \in live' \ live : t \notin runq_running \cup scenequeue_covered
                /\ \A s \in sq_live' \ sq_live : s \notin runq_running \cup scenequeue_covered
<1>1. Sound /\ [Next]_vars => [A]_vars
  <2> SUFFICES ASSUME Sound, Next PROVE A  OBVIOUS
  <2>1. ASSUME NEW t \in Tasks, Starts(t) PROVE A
    <3>1. /\ pc = "task" /\ t \in Buildable \ tasks_covered
          /\ live' = live \cup {t} /\ sq_live' = sq_live
      BY <2>1 DEF Starts, scene
    <3>2. HoldsFresh /\ Current /\ t \notin runq_running /\ t \in CoveredNow \cup NotCovered
      BY <3>1, BuildableFree
    <3>3. t \in NotCovered  BY <3>1, <3>2 DEF HoldsFresh
    <3>4. t \notin scenequeue_covered
      <4>1. NotBoth  BY DEF Sound, SceneSound, MarksSound
      <4>2. scenequeue_covered \cup scenequeue_notcovered \subseteq Setscene
        BY DEF Sound, Counting, TypeOK
      <4> QED  BY <3>3, <4>1, <4>2, CoversStep DEF NotCovered, NotBoth, CantSkip
    <3> QED  BY <3>1, <3>2, <3>4
  <2>2. ASSUME NEW t \in Setscene, SetsceneStarts(t) PROVE A
    <3>1. t \in Waiting /\ sq_live' = sq_live \cup {t} /\ live' = live
      BY <2>2 DEF SetsceneStarts, runq
    <3>2. t \in Undecided  BY <3>1, WaitingUndecided
    <3> QED  BY <3>1, <3>2 DEF Sound, SceneSound, UndecidedApart, Undecided, Decided
  <2>3. CASE Ended \/ Finish \/ Teardown \/ FinishLeft \/ Shutdown \/ ForceShutdown \/ Holdoff
    BY <2>3 DEF Ended, Finish, Teardown, FinishLeft, Shutdown, ForceShutdown, Holdoff, vars, scene, runq
  <2>4. CASE Migrate
    BY <2>4 DEF Migrate, Proceed, Rehash, MigrateSkips, MigrateTakes, MigrateEnds, scene, runq
  <2>5. ASSUME NEW t \in Tasks, Exits(t) \/ HashUpdate(t) PROVE A
    BY <2>5 DEF Exits, SetsceneExits, TaskEnds, TaskFails, HashUpdate, scene, runq
  <2>6. CASE SetsceneStep
    BY <2>2, <2>6 DEF SetsceneStep, SetsceneNone, SetsceneUnneeded, SetsceneSettles, scene, runq
  <2>7. CASE TaskStep
    BY <2>1, <2>7
    DEF TaskStep, Waits, Again, Ends, Refuse, SkipCovered, SkipExisting, RunNoExec, Finished,
        ForceDeferred, scene, runq
  <2> QED  BY <2>3, <2>4, <2>5, <2>6, <2>7 DEF Next, Execute
<1> QED  BY <1>1, InitSound, NextSound, PTL DEF Spec, NotRepeated

\* The hard dependencies make no chains: the code then forgets what else wants
\* the setscene task in the middle of one.
HardDepsFlat == \A s, h \in Setscene : HardDeps[s] # {} => s \notin HardDeps[h]

\* Without twins and chains of hard dependencies, a task only runs on inputs
\* that were built or installed: coverage never takes away what is needed.
THEOREM InputsExistAlways ==
  ASSUME WholeStamps, DOMAIN Twin = {}, HardDepsFlat
  PROVE  Spec => []InputsExist
<1>1. Sound => InputsExist
  <2> SUFFICES ASSUME Sound, NEW t \in live, NEW d \in Depends[t], d \notin runq_tasksrun
               PROVE  d \in Installed
    BY DEF InputsExist
  <2>1. t \in runq_running \ runq_complete /\ t \in Tasks /\ d \in Tasks
    BY GraphAssumption DEF Sound, Counting, TypeOK, RunSound, RunqSound
  <2>2. d \in runq_complete \ runq_tasksrun
    BY <2>1 DEF Sound, Ordering
  <2>3. NotBoth  BY DEF Sound, SceneSound, MarksSound
  <2>4. scenequeue_covered \cup scenequeue_notcovered \subseteq Setscene
    BY DEF Sound, Counting, TypeOK
  <2>5. \/ t \in scenequeue_notcovered \/ t \in Unskippable \ Setscene
        \/ \E s \in scenequeue_notcovered : t \in Covers[s]
    BY <2>1 DEF Sound, RunSound, RunsSound
  <2>6. d \in Setscene
    <3>1. SUFFICES ASSUME d \notin Setscene PROVE FALSE  OBVIOUS
    <3>2. d \notin Unskippable /\ \A s \in Setscene : d \in Covers[s] => s \in scenequeue_covered
      BY <2>2, <3>1 DEF Sound, RunSound, SkipsSound
    <3>3. CASE t \in scenequeue_notcovered
      BY <2>3, <2>4, <3>1, <3>2, <3>3, CoversStep DEF NotBoth
    <3>4. CASE t \in Unskippable \ Setscene
      BY <3>2, <3>4, UnskippableStep
    <3>5. ASSUME NEW s \in scenequeue_notcovered, t \in Covers[s] PROVE FALSE
      BY <2>3, <2>4, <3>1, <3>2, <3>5, CoversStep DEF NotBoth
    <3> QED  BY <2>5, <3>3, <3>4, <3>5
  <2>7. d \in scenequeue_covered
    BY <2>2, <2>6 DEF Sound, RunSound, SkipsSound
  <2>8. d \notin scenequeue_notneeded
    <3>1. SUFFICES ASSUME d \in scenequeue_notneeded PROVE FALSE  OBVIOUS
    <3>2. d \notin Unskippable /\ SqRevdeps[d] # {} /\ SqRevdeps[d] \subseteq scenequeue_covered
      BY <3>1 DEF Sound, RunSound, NeedlessSound
    <3>3. HardDeps[d] = {}
      BY <2>6, <3>2 DEF HardDepsFlat, SqRevdeps
    <3>4. CASE t \in scenequeue_notcovered
      BY <2>3, <2>4, <2>6, <3>2, <3>3, <3>4 DEF NotBoth, SqRevdeps
    <3>5. CASE t \in Unskippable \ Setscene
      BY <3>2, <3>5, UnskippableStep
    <3>6. ASSUME NEW s \in scenequeue_notcovered, t \in Covers[s] PROVE FALSE
      BY <2>3, <2>4, <2>6, <3>2, <3>3, <3>6 DEF NotBoth, SqRevdeps
    <3> QED  BY <2>5, <3>4, <3>5, <3>6
  <2> QED  BY <2>7, <2>8 DEF Installed
<1> QED  BY <1>1, InitSound, NextSound, PTL DEF Spec

-----------------------------------------------------------------------------
(* How a build ends. *)

LEMMA SuccessKept ==
  ASSUME SuccessSound, UNCHANGED settings, state' \in {state, "cleanup", "failed"},
         failed_tids \subseteq failed_tids',
         state # "complete",
         state' = "cleanup" /\ enforced = {} /\ Interrupts = {} => state = "cleanup" \/ failed_tids' # {}
  PROVE  SuccessSound'
BY DEF SuccessSound, settings

\* A build that is declared complete has nothing left: the steps that declare it,
\* and those that could still follow.
LEMMA NextSuccess == Sound /\ SuccessSound /\ [Next]_vars => SuccessSound'
<1> SUFFICES ASSUME Sound, SuccessSound, [Next]_vars PROVE SuccessSound'  OBVIOUS
<1>1. state = "complete" => pc \in {"teardown", "ended"}  BY DEF SuccessSound
<1>2. CASE UNCHANGED vars \/ Ended
  BY <1>2 DEF Ended, vars, control, settings, scene, runq, SuccessSound
<1>3. ASSUME NEW t \in Tasks, TaskEnds(t) \/ TaskFails(t) PROVE SuccessSound'
  <2>1. /\ t \in live /\ UNCHANGED <<settings, pc>> /\ state' \in {state, "cleanup"}
        /\ failed_tids \subseteq failed_tids' /\ (state' = state \/ failed_tids' # {})
    BY <1>3 DEF TaskEnds, TaskFails
  <2> QED  BY <2>1 DEF SuccessSound, settings
<1>4. ASSUME NEW t \in Tasks, NEW ok \in BOOLEAN, SetsceneExits(t, ok) PROVE SuccessSound'
  <2>1. /\ t \in sq_live /\ UNCHANGED <<settings, pc, runq>> /\ state' \in {state, "cleanup"}
        /\ (enforced = {} => state' = state)
    BY <1>4 DEF SetsceneExits
  <2> QED  BY <2>1 DEF SuccessSound, settings, runq
<1>5. ASSUME NEW t \in Tasks, HashUpdate(t) PROVE SuccessSound'
  BY <1>1, <1>5, SuccessKept DEF HashUpdate, control, runq
<1>6. CASE Migrate
  <2>1. /\ pc \in {"read", "migrate"} /\ UNCHANGED settings
        /\ \/ UNCHANGED <<state, failed_tids>>
           \/ state' = "cleanup" /\ failed_tids \subseteq failed_tids' /\ failed_tids' # {}
    BY <1>6
    DEF Migrate, Proceed, Rehash, MigrateEnds, MigrateSkips, MigrateTakes, MigrateAborts,
        MigrateMoves, control, runq
  <2> QED  BY <1>1, <2>1, SuccessKept
<1>7. CASE SetsceneStep
  BY <1>1, <1>7, SuccessKept
  DEF SetsceneStep, SetsceneNone, SetsceneUnneeded, SetsceneSettles, SetsceneStarts, runq
<1>8. CASE Holdoff
  <2>1. /\ pc = "holdoff" /\ UNCHANGED <<settings, failed_tids>>  BY <1>8 DEF Holdoff
  <2>2. TypeOK'  BY NextType DEF Sound, Counting
  <2> QED  BY <1>1, <1>8, <2>1, <2>2, HoldoffSound, SuccessKept
<1>9. CASE Ends
  <2>1. CASE failed_tids # {}
    BY <1>1, <1>9, <2>1, SuccessKept DEF Ends, Stuck, runq
  <2>2. CASE failed_tids = {} /\ ~BuildErrors
    <3>1. /\ state' = "complete" /\ pc' = "teardown" /\ UNCHANGED <<settings, scene, runq>>
      BY <1>9, <2>2 DEF Ends, Return
    <3>2. sq_live \cup live = {}  BY <1>9, <2>2, StuckEmpty DEF Ends
    <3>3. runq_complete = Tasks
      BY <2>2 DEF BuildErrors, Sound, Counting, TypeOK
    <3> QED  BY <3>1, <3>2, <3>3 DEF SuccessSound, scene, runq
  <2>3. CASE BuildErrors /\ failed_tids = {}
    BY <1>1, <1>9, <2>3, SuccessKept DEF Ends, Stuck, runq
  <2> QED  BY <2>1, <2>2, <2>3
<1>10. ASSUME NEW t \in Tasks, Refuse(t) PROVE SuccessSound'
  BY <1>1, <1>10, SuccessKept DEF Refuse
<1>11. CASE TaskStep /\ ~Ends /\ \A t \in Tasks : ~Refuse(t)
  <2>1. pc \in {"task", "wait"} /\ UNCHANGED <<settings, state, failed_tids>>
    BY <1>11
    DEF TaskStep, Waits, Again, SkipCovered, SkipExisting, RunNoExec, Finished, Starts,
        ForceDeferred, Stuck, runq
  <2> QED  BY <1>1, <2>1, SuccessKept
<1>12. CASE Finish \/ Shutdown \/ ForceShutdown
  <2>1. /\ UNCHANGED <<settings, scene, runq>>
        /\ state' \in {"cleanup", Result}
        /\ (state' = "complete" => pc' = "teardown")
        /\ (Interrupts = {} => state = "cleanup" /\ state' = Result)
    BY <1>12 DEF Finish, Shutdown, ForceShutdown, Return
  <2> QED  BY <2>1 DEF SuccessSound, Result, settings, scene, runq
<1>13. CASE Teardown
  BY <1>1, <1>13 DEF Teardown, SuccessSound, settings, scene, runq
<1>14. CASE FinishLeft
  BY <1>1, <1>14 DEF FinishLeft, SuccessSound, Result, settings, scene, runq
<1> QED
  BY <1>2, <1>3, <1>4, <1>5, <1>6, <1>7, <1>8, <1>9, <1>10, <1>11, <1>12, <1>13, <1>14
  DEF Next, Execute, TaskStep, Exits

\* A build that nobody stopped and that succeeded has dealt with every task, and
\* has the targets and what they are made of: coverage and the estimates of what
\* is not needed never leave one of these out.
THEOREM CompleteIsBuiltAlways ==
  ASSUME WholeStamps
  PROVE  Spec => []CompleteIsBuilt
<1>1. Init => SuccessSound  BY DEF Init, SuccessSound
<1>2. Sound /\ SuccessSound => CompleteIsBuilt
  <2> SUFFICES ASSUME Sound, SuccessSound, state = "complete", Interrupts = {}, enforced = {}
               PROVE  /\ runq_complete = Tasks /\ sq_live \cup live = {}
                      /\ Unskippable \subseteq runq_tasksrun \cup Installed
    BY DEF CompleteIsBuilt
  <2>1. runq_complete = Tasks /\ sq_live \cup live = {}  BY DEF SuccessSound
  <2>2. ASSUME NEW t \in Unskippable, t \notin runq_tasksrun PROVE t \in Installed
    <3>1. t \in runq_complete \ runq_tasksrun  BY <2>1, <2>2, UnskippableStep
    <3>2. t \in scenequeue_covered
      BY <2>2, <3>1 DEF Sound, RunSound, SkipsSound
    <3>3. t \notin scenequeue_notneeded
      BY <2>2 DEF Sound, RunSound, NeedlessSound
    <3> QED  BY <3>2, <3>3 DEF Installed
  <2> QED  BY <2>1, <2>2
<1> QED  BY <1>1, <1>2, InitSound, NextSound, NextSuccess, PTL DEF Spec

-----------------------------------------------------------------------------
(* No internal check fires. *)

\* Setscene tasks do not wait for each other by name in a circle.  The code
\* checks the task graph for circles, but not these dependencies.
HardDepsAcyclic ==
  \A S \in SUBSET Setscene : S # {} => \E s \in S : \A h \in S : s \notin HardDeps[h]

\* Then neither do they in the graph of setscene tasks (build_scenequeue_data):
\* what a hard dependency replaces is what would have made the circle.
LEMMA SqRevdepsAcyclic ==
  ASSUME HardDepsAcyclic, NEW S \in SUBSET Setscene, S # {}
  PROVE  \E s \in S : SqRevdeps[s] \cap S = {}
<1> DEFINE H == {s \in S : HardDeps[s] # {}}
<1>1. CASE H # {}
  <2>1. PICK s \in H : \A h \in H : s \notin HardDeps[h]
    BY <1>1 DEF HardDepsAcyclic
  <2>2. \A h \in SqRevdeps[s] : s \in HardDeps[h]  BY <2>1 DEF SqRevdeps
  <2> QED  BY <2>1, <2>2
<1>2. CASE H = {}
  <2> DEFINE U == S \cup UNION {Covers[u] : u \in S}
  <2>1. U \in SUBSET Tasks /\ U # {}
    <3>1. \A u \in S : Covers[u] \subseteq Tasks  BY CoversStep
    <3> QED  BY <3>1, GraphAssumption
  <2>2. PICK t \in U : Revdeps(t) \cap U = {}  BY <2>1, AcyclicAssumption
  <2> HIDE DEF U
  <2>3. \A u \in S : u \in U /\ Covers[u] \subseteq U  BY DEF U
  <2>4. \A u \in U : t \notin Depends[u]  BY <2>1, <2>2 DEF Revdeps
  <2>5. t \in S
    <3>1. ASSUME NEW u \in S, t \in Covers[u] PROVE FALSE
      BY <2>3, <2>4, <3>1, CoversStep
    <3> QED  BY <3>1, <2>2 DEF U
  <2>6. \A u \in S : u \notin SqRevdeps[t]
    <3>1. SUFFICES ASSUME NEW u \in S, u \in SqRevdeps[t] PROVE FALSE  OBVIOUS
    <3>2. t \notin HardDeps[u]  BY <1>2
    <3>3. t \in Depends[u] \/ \E c \in Covers[u] : t \in Depends[c]
      BY <2>5, <3>1, <3>2 DEF SqRevdeps
    <3> QED  BY <2>3, <2>4, <3>3
  <2> QED  BY <2>5, <2>6
<1> QED  BY <1>1, <1>2

\* When nothing can be started, nothing runs and nothing failed, everything was
\* done: the marks of both halves are what the checks at the end expect.
LEMMA EndsClean ==
  ASSUME Sound, HardDepsAcyclic, Stuck, sq_deferred = {}, failed_tids = {}
  PROVE  ~BuildErrors
<1>1. /\ pc = "task" /\ Buildable = {} /\ sq_live = {} /\ live = {} /\ CanStart
      /\ moved = {} /\ hardfail = {}
  BY StuckEmpty, NothingMoved DEF Stuck
<1>2. TypeOK /\ MarksSound /\ MigrationSound /\ HoldsFresh /\ RunqSound /\ DoneSound
  BY DEF Sound, Counting, SceneSound, RunSound
<1>3. Undecided = {}
  <2>1. CASE sqdone  BY <1>1, <1>2, <2>1 DEF DoneSound
  <2>2. ASSUME ~sqdone, Undecided # {} PROVE FALSE
    <3>1. PICK s \in Undecided : SqRevdeps[s] \cap Undecided = {}
      BY <2>2, SqRevdepsAcyclic DEF Undecided
    <3>2. s \in Setscene /\ SqRevdeps[s] \subseteq Decided
      BY <3>1 DEF Undecided, SqRevdeps
    <3>3. s \in sq_buildable \ sq_running
      BY <1>1, <1>2, <3>1, <3>2 DEF MarksSound, Undecided
    <3>4. s \in Waiting  BY <1>1, <2>2, <3>3 DEF Waiting
    <3> QED  BY <1>1, <1>2, <3>4 DEF DoneSound, Deferred
  <2> QED  BY <2>1, <2>2
<1>4. Settled
  BY <1>1, <1>2, <1>3, AllSettled DEF HoldsFresh, Current
<1>5. runq_running \subseteq runq_complete  BY <1>1, <1>2 DEF RunqSound
<1>6. updated_taskhash_queue = {}  BY <1>1, <1>2, <1>5 DEF MigrationSound
<1>7. runq_complete = Tasks
  <2>1. SUFFICES ASSUME Tasks \ runq_complete # {} PROVE FALSE  BY <1>2 DEF TypeOK
  <2>2. PICK t \in Tasks \ runq_complete : Depends[t] \cap (Tasks \ runq_complete) = {}
    BY <2>1, AcyclicAssumption
  <2>3. t \in runq_buildable  BY <1>4, <2>2, GraphAssumption DEF Settled
  <2>4. t \in Buildable  BY <1>1, <1>4, <1>5, <2>2, <2>3 DEF Buildable, Settled
  <2> QED  BY <1>1, <2>4
<1>8. Tasks \subseteq runq_running /\ Tasks \subseteq runq_buildable
  BY <1>2, <1>7 DEF Sound, Ordering, RunqSound
<1>9. Setscene \subseteq Decided  BY <1>3 DEF Undecided
<1>10. ~SetsceneErrors
  BY <1>2, <1>4, <1>6, <1>8, <1>9 DEF SetsceneErrors, Settled, MarksSound
<1> QED  BY <1>7, <1>8, <1>10 DEF BuildErrors

LEMMA NextFailure == HardDepsAcyclic /\ Sound /\ FailureSound /\ [Next]_vars => FailureSound'
<1> SUFFICES ASSUME HardDepsAcyclic, Sound, FailureSound, [Next]_vars PROVE FailureSound'
  OBVIOUS
<1>1. ASSUME failed_tids \subseteq failed_tids', state' \in {state, "cleanup"} \/ state' = Result
      PROVE  FailureSound'
  BY <1>1 DEF FailureSound, Result
<1>2. CASE UNCHANGED vars \/ Ended
  BY <1>1, <1>2 DEF Ended, vars, control, runq
<1>3. ASSUME NEW t \in Tasks, Exits(t) \/ HashUpdate(t) PROVE FailureSound'
  BY <1>1, <1>3 DEF Exits, TaskEnds, TaskFails, SetsceneExits, HashUpdate, control, runq
<1>4. CASE Migrate
  BY <1>1, <1>4
  DEF Migrate, Proceed, Rehash, MigrateEnds, MigrateSkips, MigrateTakes, MigrateAborts,
      MigrateMoves, control, runq
<1>5. CASE SetsceneStep
  BY <1>1, <1>5
  DEF SetsceneStep, SetsceneNone, SetsceneUnneeded, SetsceneSettles, SetsceneStarts, runq
<1>6. CASE Holdoff
  <2>1. TypeOK'  BY NextType DEF Sound, Counting
  <2>2. failed_tids' = failed_tids  BY <1>6 DEF Holdoff
  <2> QED  BY <1>1, <1>6, <2>1, <2>2, HoldoffSound
<1>7. CASE Ends
  BY <1>7, EndsClean DEF Ends, FailureSound, runq
<1>8. CASE TaskStep /\ ~Ends
  BY <1>1, <1>8
  DEF TaskStep, Waits, Again, Refuse, SkipCovered, SkipExisting, RunNoExec, Finished, Starts,
      ForceDeferred, runq
<1>9. CASE Finish \/ Shutdown \/ ForceShutdown \/ Teardown \/ FinishLeft
  BY <1>1, <1>9 DEF Finish, Shutdown, ForceShutdown, Teardown, FinishLeft, runq
<1> QED
  BY <1>2, <1>3, <1>4, <1>5, <1>6, <1>7, <1>8, <1>9 DEF Next, Execute

\* A build only fails because a task of it did: whatever the order of decisions,
\* migrations and completions, summarise_scenequeue_errors and the sanity checks
\* at the end of execute() find nothing.
THEOREM NoInternalErrorAlways ==
  ASSUME WholeStamps, HardDepsAcyclic
  PROVE  Spec => []NoInternalError
<1>1. Init => FailureSound  BY DEF Init, FailureSound
<1>2. Sound /\ FailureSound => NoInternalError
  BY DEF Sound, RunSound, RunqSound, FailureSound, NoInternalError
<1>3. Sound /\ FailureSound /\ [Next]_vars => FailureSound'  BY NextFailure
<1> QED  BY <1>1, <1>2, <1>3, InitSound, NextSound, PTL DEF Spec

\* "marked as completed but now needing to rerun" is never logged: a task that
\* was skipped as covered is never needed after all.
THEOREM NeverRerun ==
  ASSUME WholeStamps
  PROVE  Spec => [](\A t \in todo : ~CoveredSkipped(t))
<1>1. Sound => \A t \in todo : ~CoveredSkipped(t)  BY NothingSkipped
<1> QED  BY <1>1, InitSound, NextSound, PTL DEF Spec

=============================================================================
