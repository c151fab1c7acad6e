---------------------------- MODULE WorkerProofs ----------------------------
(* Theorems about Worker, for any tasks, numbers of events, hashes and      *)
(* capacities.                                                              *)
EXTENDS Worker, SequenceTheorems, TLAPS

(* What the worker has to say, as one sequence from its queue to the server *)

Item == Tasks \X Nat
Chan == stdout \o out

\* The events of a task are in the order they were fired in, after those that were
\* seen and up to those that were passed on, and nothing of it follows its exit code.
InOrder(c, s, p) ==
  /\ \A i \in 1..Len(c) : c[i][2] > 0 => s[c[i][1]] < c[i][2] /\ c[i][2] <= p[c[i][1]]
  /\ \A i, j \in 1..Len(c) :
       i < j /\ c[i][1] = c[j][1] => c[i][2] > 0 /\ (c[j][2] = 0 \/ c[i][2] < c[j][2])

\* What leads up to an exit code is there
Complete(c, s, p, f, pr) ==
  \A i \in 1..Len(c) : c[i][2] = 0 =>
    LET t == c[i][1] IN
    /\ f[t] = p[t] /\ pr[t] = "gone"
    /\ \A n \in Nat : s[t] < n /\ n <= f[t] =>
         \E j \in 1..Len(c) : j < i /\ c[j][1] = t /\ c[j][2] = n

\* Nothing was lost
Full(c, s, p) ==
  \A t \in Tasks, n \in Nat : s[t] < n /\ n <= p[t] =>
    \E j \in 1..Len(c) : c[j][1] = t /\ c[j][2] = n

LEMMA MoveHead ==
  ASSUME NEW S, NEW a \in Seq(S), NEW b \in Seq(S), b # <<>>
  PROVE  /\ Append(a, Head(b)) \o Tail(b) = a \o b
         /\ Append(a, Head(b)) \in Seq(S) /\ Tail(b) \in Seq(S)
<1> DEFINE a1 == Append(a, Head(b))  b1 == Tail(b)
<1>1. /\ Head(b) \in S /\ b1 \in Seq(S) /\ Len(b1) = Len(b) - 1 /\ Len(b) \in Nat /\ Len(b) > 0
      /\ \A i \in 1..Len(b1) : b1[i] = b[i + 1]
  BY HeadTailProperties, EmptySeq, LenProperties
<1>2. /\ a1 \in Seq(S) /\ Len(a1) = Len(a) + 1 /\ Len(a) \in Nat
      /\ \A i \in 1..Len(a) : a1[i] = a[i]
      /\ a1[Len(a) + 1] = b[1]
  BY <1>1, AppendProperties, LenProperties
<1>3. /\ a1 \o b1 \in Seq(S) /\ Len(a1 \o b1) = Len(a) + Len(b)
      /\ a \o b \in Seq(S) /\ Len(a \o b) = Len(a) + Len(b)
  BY <1>1, <1>2, ConcatProperties
<1>4. ASSUME NEW i \in 1..Len(a) + Len(b) PROVE (a1 \o b1)[i] = (a \o b)[i]
  <2>1. (a \o b)[i] = IF i <= Len(a) THEN a[i] ELSE b[i - Len(a)]
    BY ConcatProperties
  <2>2. (a1 \o b1)[i] = IF i <= Len(a1) THEN a1[i] ELSE b1[i - Len(a1)]
    BY <1>1, <1>2, ConcatProperties
  <2>3. CASE i <= Len(a)
    BY <2>1, <2>2, <2>3, <1>2
  <2>4. CASE i = Len(a) + 1
    BY <2>1, <2>2, <2>4, <1>2
  <2>5. CASE i > Len(a) + 1
    <3>1. i - Len(a1) \in 1..Len(b1)
      BY <2>5, <1>1, <1>2
    <3>2. b1[i - Len(a1)] = b[(i - Len(a1)) + 1]
      BY <3>1, <1>1
    <3>3. (i - Len(a1)) + 1 = i - Len(a)
      BY <1>2
    <3>4. QED
      BY <2>1, <2>2, <2>5, <1>2, <3>2, <3>3
  <2>6. QED
    BY <2>3, <2>4, <2>5, <1>2
<1>5. a1 \o b1 = a \o b
  BY <1>3, <1>4, SeqEqual
<1>6. QED
  BY <1>1, <1>2, <1>5

LEMMA AppendRight ==
  ASSUME NEW S, NEW a \in Seq(S), NEW b \in Seq(S), NEW x \in S
  PROVE  a \o Append(b, x) = Append(a \o b, x)
<1>1. a \o b \in Seq(S) /\ <<x>> \in Seq(S)
  BY ConcatProperties
<1>2. Append(b, x) = b \o <<x>> /\ Append(a \o b, x) = (a \o b) \o <<x>>
  BY <1>1, AppendIsConcat
<1>3. QED
  BY <1>1, <1>2, ConcatAssociative

LEMMA TailLeft ==
  ASSUME NEW S, NEW a \in Seq(S), NEW b \in Seq(S), a # <<>>
  PROVE  /\ Tail(a) \o b = Tail(a \o b)
         /\ Head(a) = Head(a \o b) /\ a \o b # <<>>
         /\ Tail(a) \in Seq(S) /\ Head(a) \in S
<1>1. /\ Head(a) \in S /\ Tail(a) \in Seq(S) /\ Len(Tail(a)) = Len(a) - 1
      /\ Len(a) \in Nat /\ Len(a) > 0 /\ Len(b) \in Nat
      /\ \A i \in 1..Len(Tail(a)) : Tail(a)[i] = a[i + 1]
  BY HeadTailProperties, EmptySeq, LenProperties
<1>2. /\ a \o b \in Seq(S) /\ Len(a \o b) = Len(a) + Len(b)
      /\ \A i \in 1..Len(a) + Len(b) : (a \o b)[i] = IF i <= Len(a) THEN a[i] ELSE b[i - Len(a)]
  BY ConcatProperties
<1>3. a \o b # <<>>
  BY <1>1, <1>2, EmptySeq
<1>4. Head(a) = Head(a \o b)
  BY <1>1, <1>2
<1>5. /\ Tail(a \o b) \in Seq(S) /\ Len(Tail(a \o b)) = Len(a) + Len(b) - 1
      /\ \A i \in 1..Len(Tail(a \o b)) : Tail(a \o b)[i] = (a \o b)[i + 1]
  BY <1>2, <1>3, HeadTailProperties
<1>6. /\ Tail(a) \o b \in Seq(S) /\ Len(Tail(a) \o b) = Len(a) + Len(b) - 1
      /\ \A i \in 1..Len(Tail(a)) + Len(b) :
           (Tail(a) \o b)[i] = IF i <= Len(Tail(a)) THEN Tail(a)[i] ELSE b[i - Len(Tail(a))]
  BY <1>1, ConcatProperties
<1>7. ASSUME NEW i \in 1..Len(a) + Len(b) - 1 PROVE (Tail(a) \o b)[i] = Tail(a \o b)[i]
  <2>1. Tail(a \o b)[i] = (a \o b)[i + 1]
    BY <1>5, <1>1
  <2>2. i + 1 \in 1..Len(a) + Len(b)
    BY <1>1
  <2>3. CASE i < Len(a)
    BY <2>1, <2>2, <2>3, <1>1, <1>2, <1>6
  <2>4. CASE i >= Len(a)
    <3>1. (a \o b)[i + 1] = b[(i + 1) - Len(a)]
      BY <2>2, <2>4, <1>1, <1>2
    <3>2. (Tail(a) \o b)[i] = b[i - Len(Tail(a))]
      BY <2>4, <1>1, <1>6
    <3>3. (i + 1) - Len(a) = i - Len(Tail(a))
      BY <1>1
    <3>4. QED
      BY <2>1, <3>1, <3>2, <3>3
  <2>5. QED
    BY <2>3, <2>4, <1>1
<1>8. Tail(a) \o b = Tail(a \o b)
  BY <1>5, <1>6, <1>7, SeqEqual
<1>9. QED
  BY <1>1, <1>3, <1>4, <1>8

(* Types *)

LEMMA RankType == \A m \in Message : Rank(m) \in 1..4
<1>1. SUFFICES ASSUME NEW m \in Message PROVE Rank(m) \in 1..4
  OBVIOUS
<1>2. DOMAIN Kinds = 1..4
  BY DEF Kinds
<1>3. m.kind \in {"newtaskhashes", "runtask", "finishnow", "quit"}
  BY DEF Message, FinishNow, Quit
<1>4. \E i \in DOMAIN Kinds : Kinds[i] = m.kind
  BY <1>2, <1>3 DEF Kinds
<1>5. QED
  BY <1>2, <1>4 DEF Rank

LEMMA MessageFields ==
  /\ \A m \in Message : m.kind = "runtask" => m.task \in Tasks
  /\ \A m \in Message : m.kind = "newtaskhashes" => m.version \in 1..Hashes
  /\ \A t \in Tasks : RunTask(t) \in Message /\ RunTask(t).kind = "runtask" /\ RunTask(t).task = t
  /\ \A v \in 1..Hashes : /\ NewTaskHashes(v) \in Message
                          /\ NewTaskHashes(v).kind = "newtaskhashes" /\ NewTaskHashes(v).version = v
  /\ Quit \in Message /\ Quit.kind = "quit"
  /\ FinishNow \in Message /\ FinishNow.kind = "finishnow"
BY DEF Message, RunTask, NewTaskHashes, FinishNow, Quit

LEMMA HeadMessage ==
  ASSUME NEW s \in Seq(Message), s # <<>>
  PROVE  /\ Head(s) \in Message /\ Tail(s) \in Seq(Message)
         /\ Rank(Head(s)) \in 1..4
BY HeadTailProperties, RankType

\* The two parts of TypeOK, which most steps touch one of
QueueTypes ==
  /\ unsent \in Seq(Message) /\ stdin \in Seq(Message) /\ queue \in Seq(Message)
  /\ out \in Seq(Item) /\ stdout \in Seq(Item)
StateTypes ==
  /\ server \in {"build", "teardown", "done", "dead"}
  /\ version \in 0..Hashes /\ sent \in [Tasks -> (0..Hashes) \cup {None}]
  /\ seen \in [Tasks -> Nat] /\ answered \subseteq Tasks
  /\ closed \in BOOLEAN /\ broken \in BOOLEAN
  /\ pc \in Places /\ kind \in 0..4 /\ has \in 0..Hashes
  /\ left \subseteq Tasks /\ build_pids \subseteq Tasks
  /\ reaped \in Tasks \cup {None}
  /\ pc = "close" => reaped \in Tasks \ build_pids
  /\ proc \in [Tasks -> {"none", "forked", "guarded", "running", "exited", "gone"}]
  /\ fired \in [Tasks -> Nat] /\ passed \in [Tasks -> Nat]

LEMMA TypeParts == TypeOK <=> QueueTypes /\ StateTypes
BY DEF TypeOK, QueueTypes, StateTypes, Item

LEMMA TypeInit == Init => TypeOK
<1> SUFFICES ASSUME Init PROVE QueueTypes /\ StateTypes
  BY TypeParts
<1>1. QueueTypes
  BY EmptySeq DEF Init, QueueTypes
<1>2. /\ sent \in [Tasks -> (0..Hashes) \cup {None}]
      /\ seen \in [Tasks -> Nat] /\ fired \in [Tasks -> Nat] /\ passed \in [Tasks -> Nat]
      /\ proc \in [Tasks -> {"none", "forked", "guarded", "running", "exited", "gone"}]
  BY DEF Init
<1>3. 0 \in 0..Hashes
  BY BoundsAssumption
<1>4. /\ server = "build" /\ version = 0 /\ answered = {}
      /\ closed \in BOOLEAN /\ broken \in BOOLEAN
      /\ pc = "select" /\ kind = 0 /\ has = 0
      /\ left = {} /\ build_pids = {} /\ reaped = None
  BY DEF Init
<1>5. StateTypes
  BY <1>2, <1>3, <1>4 DEF StateTypes, Places
<1>6. QED
  BY <1>1, <1>5

LEMMA QueueTypesServer ==
  ASSUME QueueTypes, StateTypes,
         \/ \E t \in Tasks : SendTask(t)
         \/ SendHashes \/ Teardown \/ Write \/ WorkerGone \/ Read \/ TornDown \/ KillServer
  PROVE  QueueTypes'
<1>1. CASE \E t \in Tasks : SendTask(t)
  BY <1>1, MessageFields, AppendProperties DEF QueueTypes, SendTask, main
<1>2. CASE SendHashes
  <2>1. version + 1 \in 1..Hashes
    BY <1>2, BoundsAssumption DEF SendHashes, StateTypes
  <2>2. QED
    BY <1>2, <2>1, MessageFields, AppendProperties DEF QueueTypes, SendHashes, main
<1>3. CASE Teardown
  <2>1. <<FinishNow, Quit>> \in Seq(Message)
    BY MessageFields
  <2>2. QED
    <3>1. unsent \o <<FinishNow, Quit>> \in Seq(Message) /\ Append(unsent, Quit) \in Seq(Message)
      BY <2>1, MessageFields, AppendProperties, ConcatProperties DEF QueueTypes
    <3>2. unsent' \in Seq(Message)
      BY <1>3, <3>1 DEF Teardown
    <3>3. QED
      BY <1>3, <3>2 DEF QueueTypes, Teardown, main
<1>4. CASE Write
  BY <1>4, HeadMessage, AppendProperties DEF QueueTypes, Write, main
<1>5. CASE WorkerGone
  BY <1>5, EmptySeq DEF QueueTypes, WorkerGone, main
<1>6. CASE Read
  BY <1>6, HeadTailProperties DEF QueueTypes, Read, main
<1>7. CASE TornDown
  BY <1>7 DEF QueueTypes, TornDown, main
<1>8. CASE KillServer
  BY <1>8, EmptySeq DEF QueueTypes, KillServer, main
<1>9. QED
  BY <1>1, <1>2, <1>3, <1>4, <1>5, <1>6, <1>7, <1>8

LEMMA StateTypesServer ==
  ASSUME QueueTypes, StateTypes,
         \/ \E t \in Tasks : SendTask(t)
         \/ SendHashes \/ Teardown \/ Write \/ WorkerGone \/ Read \/ TornDown \/ KillServer
  PROVE  StateTypes'
<1> USE DEF main, tasks
<1>1. CASE \E t \in Tasks : SendTask(t)
  BY <1>1 DEF StateTypes, SendTask
<1>2. CASE SendHashes
  BY <1>2, BoundsAssumption DEF StateTypes, SendHashes
<1>3. CASE Teardown
  BY <1>3 DEF StateTypes, Teardown
<1>4. CASE Write
  BY <1>4 DEF StateTypes, Write
<1>5. CASE WorkerGone
  BY <1>5 DEF StateTypes, WorkerGone
<1>6. CASE Read
  <2>1. Head(stdout) \in Tasks \X Nat
    BY <1>6, HeadTailProperties DEF QueueTypes, Read, Item
  <2>2. Head(stdout)[1] \in Tasks /\ Head(stdout)[2] \in Nat
    BY <2>1
  <2>3. seen' \in [Tasks -> Nat] /\ answered' \subseteq Tasks
    <3>1. CASE Head(stdout)[2] = 0
      BY <1>6, <2>2, <3>1 DEF StateTypes, Read
    <3>2. CASE Head(stdout)[2] # 0
      <4> DEFINE t == Head(stdout)[1]
      <4>1. seen' = [seen EXCEPT ![t] = seen[t] + 1] /\ answered' = answered
        BY <1>6, <3>2 DEF Read
      <4>2. t \in Tasks
        BY <2>2
      <4> HIDE DEF t
      <4>3. QED
        BY <4>1, <4>2 DEF StateTypes
    <3>3. QED
      BY <3>1, <3>2
  <2>4. UNCHANGED <<server, version, sent, unsent, stdin, closed, main, tasks, out>>
    BY <1>6 DEF Read
  <2>5. QED
    BY <2>3, <2>4 DEF StateTypes
<1>7. CASE TornDown
  BY <1>7 DEF StateTypes, TornDown
<1>8. CASE KillServer
  BY <1>8 DEF StateTypes, KillServer
<1>9. QED
  BY <1>1, <1>2, <1>3, <1>4, <1>5, <1>6, <1>7, <1>8

LEMMA HandlesTypes ==
  ASSUME QueueTypes, NEW k, Handles(k)
  PROVE  /\ Head(queue) \in Message /\ Head(queue).kind = k /\ queue # <<>>
         /\ queue' = Tail(queue) /\ queue' \in Seq(Message)
         /\ kind' \in 1..4 /\ pc = "items"
BY HeadMessage DEF QueueTypes, Handles

LEMMA TypesItems ==
  ASSUME QueueTypes, StateTypes, Items
  PROVE  QueueTypes' /\ StateTypes'
<1> USE DEF upper, tasks
<1>1. CASE HandleNewTaskHashes
  <2>1. Head(queue).version \in 1..Hashes /\ queue' \in Seq(Message) /\ kind' \in 1..4
    BY <1>1, HandlesTypes, MessageFields DEF HandleNewTaskHashes
  <2>2. has' \in 0..Hashes /\ kind' \in 0..4
    BY <1>1, <2>1, BoundsAssumption DEF HandleNewTaskHashes
  <2>3. UNCHANGED <<upper, stdin, closed, pc, left, build_pids, reaped, broken, tasks, out, stdout>>
    BY <1>1 DEF HandleNewTaskHashes
  <2>4. QED
    BY <2>1, <2>2, <2>3 DEF QueueTypes, StateTypes
<1>2. CASE HandleRunTask
  <2>1. Head(queue).task \in Tasks /\ queue' \in Seq(Message) /\ kind' \in 1..4 /\ pc = "items"
    BY <1>2, HandlesTypes, MessageFields DEF HandleRunTask
  <2>2. /\ proc' \in [Tasks -> {"none", "forked", "guarded", "running", "exited", "gone"}]
        /\ build_pids' \subseteq Tasks /\ kind' \in 0..4
    BY <1>2, <2>1 DEF StateTypes, HandleRunTask
  <2>3. UNCHANGED <<upper, stdin, closed, pc, has, left, reaped, broken, fired, passed, out, stdout>>
    BY <1>2 DEF HandleRunTask
  <2>4. QED
    BY <2>1, <2>2, <2>3 DEF QueueTypes, StateTypes
<1>3. CASE HandleFinishNow
  <2>1. queue' \in Seq(Message) /\ kind' \in 1..4
    BY <1>3, HandlesTypes DEF HandleFinishNow
  <2>2. QED
    BY <1>3, <2>1 DEF QueueTypes, StateTypes, HandleFinishNow, Places
<1>4. CASE HandleQuit
  <2>1. queue' \in Seq(Message) /\ kind' \in 1..4
    BY <1>4, HandlesTypes DEF HandleQuit
  <2>2. QED
    BY <1>4, <2>1 DEF QueueTypes, StateTypes, HandleQuit, Places
<1>5. CASE PickleFails
  BY <1>5 DEF QueueTypes, StateTypes, PickleFails, Places
<1>6. CASE ItemsDone
  BY <1>6 DEF QueueTypes, StateTypes, ItemsDone, Places
<1>7. QED
  BY <1>1, <1>2, <1>3, <1>4, <1>5, <1>6 DEF Items

LEMMA TypesEnds ==
  ASSUME QueueTypes, StateTypes, Ends
  PROVE  QueueTypes' /\ StateTypes'
<1>1. QueueTypes'
  BY EmptySeq DEF QueueTypes, Ends, upper
<1>2. StateTypes'
  BY BoundsAssumption DEF StateTypes, Ends, Places, upper
<1>3. QED
  BY <1>1, <1>2

LEMMA ForwardTypes ==
  ASSUME QueueTypes, StateTypes, NEW t \in Tasks, Forward(t)
  PROVE  /\ passed' = [passed EXCEPT ![t] = passed[t] + 1] /\ passed' \in [Tasks -> Nat]
         /\ <<t, passed[t] + 1>> \in Item /\ out' \in Seq(Item)
<1>1. passed' \in [Tasks -> Nat] /\ <<t, passed[t] + 1>> \in Item
  BY DEF StateTypes, Forward, Item
<1>2. QED
  BY <1>1, AppendProperties DEF QueueTypes, Forward

LEMMA ReportTypes ==
  ASSUME QueueTypes, StateTypes, Report
  PROVE  reaped \in Tasks /\ <<reaped, 0>> \in Item /\ out' \in Seq(Item)
<1>1. reaped \in Tasks /\ <<reaped, 0>> \in Item
  BY DEF StateTypes, Report, Item
<1>2. QED
  BY <1>1, AppendProperties DEF QueueTypes, Report

LEMMA TypesServe ==
  ASSUME QueueTypes, StateTypes, Serve \/ Flush \/ KillWorker \/ Sigterm
  PROVE  QueueTypes' /\ StateTypes'
<1> USE DEF upper, tasks
<1>1. CASE Select
  <2>1. queue' \in Seq(Message) /\ stdin' \in Seq(Message)
    BY <1>1, EmptySeq, ConcatProperties DEF QueueTypes, Select
  <2>2. QED
    BY <1>1, <2>1 DEF QueueTypes, StateTypes, Select, Places
<1>2. CASE Items
  BY <1>2, TypesItems
<1>3. CASE PipesRead
  BY <1>3 DEF QueueTypes, StateTypes, PipesRead, Places
<1>4. CASE WaitPid
  BY <1>4 DEF QueueTypes, StateTypes, WaitPid, Exited, Places
<1>5. CASE Report
  BY <1>5, ReportTypes DEF QueueTypes, StateTypes, Report, Places
<1>6. CASE Leaves \/ Dies \/ KillWorker
  BY <1>6, TypesEnds DEF Leaves, Dies, KillWorker
<1>7. ASSUME NEW t \in Tasks, FinishTask(t) PROVE QueueTypes' /\ StateTypes'
  BY <1>7 DEF QueueTypes, StateTypes, FinishTask, Exited, Signalled
<1>8. ASSUME NEW t \in Tasks, Forward(t) PROVE QueueTypes' /\ StateTypes'
  <2>1. passed' \in [Tasks -> Nat] /\ out' \in Seq(Item)
    BY <1>8, ForwardTypes
  <2>2. UNCHANGED <<upper, stdin, closed, main, proc, fired, stdout>>
    BY <1>8 DEF Forward
  <2>3. QED
    BY <2>1, <2>2 DEF QueueTypes, StateTypes, main
<1>9. CASE Flush
  <2>1. out' \in Seq(Item) /\ stdout' \in Seq(Item)
    BY <1>9, HeadTailProperties, AppendProperties DEF QueueTypes, Flush
  <2>2. QED
    BY <1>9, <2>1 DEF QueueTypes, StateTypes, Flush, main
<1>10. CASE Sigterm
  BY <1>10 DEF QueueTypes, StateTypes, Sigterm, Places
<1>11. QED
  BY <1>1, <1>2, <1>3, <1>4, <1>5, <1>6, <1>7, <1>8, <1>9, <1>10 DEF Serve

LEMMA TypesTask ==
  ASSUME QueueTypes, StateTypes, NEW t \in Tasks, Task(t)
  PROVE  QueueTypes' /\ StateTypes'
<1> USE DEF upper, main
<1>1. CASE StartsUp(t)
  BY <1>1 DEF QueueTypes, StateTypes, StartsUp, Move
<1>2. CASE Fires(t)
  <2>1. fired' \in [Tasks -> Nat]
    BY <1>2 DEF StateTypes, Fires
  <2>2. UNCHANGED <<upper, stdin, closed, main, proc, passed, out, stdout>>
    BY <1>2 DEF Fires
  <2>3. QED
    BY <2>1, <2>2 DEF QueueTypes, StateTypes
<1>3. CASE Exits(t)
  BY <1>3 DEF QueueTypes, StateTypes, Exits, Move
<1>4. QED
  BY <1>1, <1>2, <1>3 DEF Task

LEMMA TypeNext == TypeOK /\ [Next]_vars => TypeOK'
<1> SUFFICES ASSUME QueueTypes, StateTypes, [Next]_vars PROVE QueueTypes' /\ StateTypes'
  <2>1. TypeOK' <=> QueueTypes' /\ StateTypes'
    BY DEF TypeOK, QueueTypes, StateTypes, Item
  <2>2. QED
    BY <2>1, TypeParts
<1>1. CASE UNCHANGED vars
  BY <1>1 DEF QueueTypes, StateTypes, vars, upper, main, tasks
<1>2. CASE Next
  BY <1>2, QueueTypesServer, StateTypesServer, TypesServe, TypesTask DEF Next, Step
<1>3. QED
  BY <1>1, <1>2

(* What the server has told the worker, from the next command on *)

Commands == (queue \o stdin) \o unsent

\* After the first n commands of c a worker that has h now has v
Brings(c, n, h, v) ==
  \/ h = v /\ \A i \in 1..n : c[i].kind # "newtaskhashes"
  \/ \E i \in 1..n : /\ c[i].kind = "newtaskhashes" /\ c[i].version = v
                     /\ \A k \in (i + 1)..n : c[k].kind # "newtaskhashes"

\* A task on its way was not run before, and it will find the hashes it was sent with
RunsOK(c, snt, pr, h) ==
  \A j \in 1..Len(c) : c[j].kind = "runtask" =>
    /\ pr[c[j].task] = "none" /\ snt[c[j].task] # None
    /\ \A i \in 1..(j - 1) : c[i].kind = "runtask" => c[i].task # c[j].task
    /\ Brings(c, j - 1, h, snt[c[j].task])

CommandsOK ==
  /\ \A t \in Tasks : sent[t] = None => proc[t] = "none"
  /\ pc # "dead" => RunsOK(Commands, sent, proc, has)
  /\ pc # "dead" /\ server = "build" => Brings(Commands, Len(Commands), has, version)

LEMMA AppendAt ==
  ASSUME NEW S, NEW c \in Seq(S), NEW x \in S
  PROVE  /\ Append(c, x) \in Seq(S) /\ Len(Append(c, x)) = Len(c) + 1 /\ Len(c) \in Nat
         /\ \A i \in 1..Len(c) : Append(c, x)[i] = c[i]
         /\ Append(c, x)[Len(c) + 1] = x
BY AppendProperties, LenProperties

LEMMA TailAt ==
  ASSUME NEW S, NEW c \in Seq(S), c # <<>>
  PROVE  /\ Tail(c) \in Seq(S) /\ Len(c) \in Nat /\ Len(c) > 0 /\ Len(Tail(c)) = Len(c) - 1
         /\ \A i \in 1..Len(Tail(c)) : Tail(c)[i] = c[i + 1]
         /\ Head(c) = c[1] /\ c[1] \in S
BY HeadTailProperties, EmptySeq, LenProperties

\* Only the first n commands matter
LEMMA BringsSame ==
  ASSUME NEW c, NEW d, NEW n \in Nat, NEW h, NEW v,
         \A i \in 1..n : d[i] = c[i], Brings(c, n, h, v)
  PROVE  Brings(d, n, h, v)
BY DEF Brings

LEMMA BringsNext ==
  ASSUME NEW d, NEW n \in Nat, NEW h, NEW v, NEW w,
         Brings(d, n, h, v),
         \/ d[n + 1].kind # "newtaskhashes" /\ w = v
         \/ d[n + 1].kind = "newtaskhashes" /\ w = d[n + 1].version
  PROVE  Brings(d, n + 1, h, w)
<1>1. CASE d[n + 1].kind = "newtaskhashes"
  <2>1. n + 1 \in 1..(n + 1) /\ ((n + 1) + 1)..(n + 1) = {}
    OBVIOUS
  <2>2. QED
    BY <1>1, <2>1 DEF Brings
<1>2. CASE d[n + 1].kind # "newtaskhashes"
  BY <1>2 DEF Brings
<1>3. QED
  BY <1>1, <1>2

\* When the worker takes the first command
LEMMA BringsTail ==
  ASSUME NEW c \in Seq(Message), c # <<>>, NEW n \in 1..Len(c), NEW h, NEW v, NEW g,
         Brings(c, n, h, v),
         \/ c[1].kind # "newtaskhashes" /\ g = h
         \/ c[1].kind = "newtaskhashes" /\ g = c[1].version
  PROVE  Brings(Tail(c), n - 1, g, v)
<1> DEFINE d == Tail(c)
<1>1. /\ Len(c) \in Nat /\ Len(d) = Len(c) - 1
      /\ \A i \in 1..Len(d) : d[i] = c[i + 1]
  BY TailAt
<1> HIDE DEF d
<1>2. \A i \in 1..(n - 1) : i + 1 \in 2..n /\ d[i] = c[i + 1]
  BY <1>1
<1>3. CASE h = v /\ \A i \in 1..n : c[i].kind # "newtaskhashes"
  <2>1. 1 \in 1..n
    OBVIOUS
  <2>2. QED
    BY <1>2, <1>3, <2>1 DEF Brings
<1>4. ASSUME NEW i \in 1..n, c[i].kind = "newtaskhashes", c[i].version = v,
             \A k \in (i + 1)..n : c[k].kind # "newtaskhashes"
      PROVE  Brings(d, n - 1, g, v)
  <2>1. CASE i = 1
    BY <1>2, <1>4, <2>1 DEF Brings
  <2>2. CASE i # 1
    <3>1. i - 1 \in 1..(n - 1) /\ (i - 1) + 1 = i /\ d[i - 1] = c[i]
      BY <1>2, <2>2
    <3>2. \A k \in ((i - 1) + 1)..(n - 1) : k + 1 \in (i + 1)..n /\ d[k] = c[k + 1]
      BY <1>2, <2>2
    <3>3. QED
      BY <1>4, <3>1, <3>2 DEF Brings
  <2>3. QED
    BY <2>1, <2>2
<1>5. QED
  BY <1>3, <1>4 DEF Brings, d

LEMMA RunsAppendOther ==
  ASSUME NEW c \in Seq(Message), NEW m \in Message, NEW snt, NEW pr, NEW h,
         RunsOK(c, snt, pr, h), m.kind # "runtask"
  PROVE  RunsOK(Append(c, m), snt, pr, h)
<1> DEFINE d == Append(c, m)
<1>1. Len(d) = Len(c) + 1 /\ Len(c) \in Nat /\ (\A i \in 1..Len(c) : d[i] = c[i]) /\ d[Len(c) + 1] = m
  BY AppendAt
<1> HIDE DEF d
<1>2. ASSUME NEW j \in 1..Len(d), d[j].kind = "runtask"
      PROVE  /\ pr[d[j].task] = "none" /\ snt[d[j].task] # None
             /\ \A i \in 1..(j - 1) : d[i].kind = "runtask" => d[i].task # d[j].task
             /\ Brings(d, j - 1, h, snt[d[j].task])
  <2>1. j \in 1..Len(c)
    BY <1>1, <1>2
  <2>2. d[j] = c[j] /\ j - 1 \in Nat /\ \A i \in 1..(j - 1) : d[i] = c[i]
    BY <1>1, <2>1
  <2>3. Brings(c, j - 1, h, snt[d[j].task])
    BY <1>2, <2>1, <2>2 DEF RunsOK
  <2>4. Brings(d, j - 1, h, snt[d[j].task])
    BY <2>2, <2>3, BringsSame
  <2>5. QED
    BY <1>2, <2>1, <2>2, <2>4 DEF RunsOK
<1>3. QED
  BY <1>2 DEF RunsOK, d

LEMMA RunsAppendTask ==
  ASSUME NEW c \in Seq(Message), NEW t \in Tasks, NEW v \in 0..Hashes,
         NEW snt \in [Tasks -> (0..Hashes) \cup {None}], NEW pr, NEW h,
         RunsOK(c, snt, pr, h), Brings(c, Len(c), h, v), snt[t] = None, pr[t] = "none"
  PROVE  RunsOK(Append(c, RunTask(t)), [snt EXCEPT ![t] = v], pr, h)
<1> DEFINE d == Append(c, RunTask(t))  snt1 == [snt EXCEPT ![t] = v]
<1>1. /\ Len(d) = Len(c) + 1 /\ Len(c) \in Nat
      /\ \A i \in 1..Len(c) : d[i] = c[i]
      /\ d[Len(c) + 1].kind = "runtask" /\ d[Len(c) + 1].task = t
  BY MessageFields, AppendAt
<1>2. \A i \in 1..Len(c) : c[i].kind = "runtask" => c[i].task \in Tasks /\ c[i].task # t
  BY MessageFields, ElementOfSeq DEF RunsOK
<1>3. snt1[t] = v /\ v # None /\ \A u \in Tasks : u # t => snt1[u] = snt[u]
  BY NoneAssumption
<1> HIDE DEF d, snt1
<1>4. ASSUME NEW j \in 1..Len(d), d[j].kind = "runtask"
      PROVE  /\ pr[d[j].task] = "none" /\ snt1[d[j].task] # None
             /\ \A i \in 1..(j - 1) : d[i].kind = "runtask" => d[i].task # d[j].task
             /\ Brings(d, j - 1, h, snt1[d[j].task])
  <2>1. j - 1 \in Nat /\ j - 1 <= Len(c) /\ \A i \in 1..(j - 1) : i \in 1..Len(c) /\ d[i] = c[i]
    BY <1>1
  <2>2. CASE j = Len(c) + 1
    <3>1. d[j].task = t /\ j - 1 = Len(c)
      BY <1>1, <2>2
    <3>2. Brings(d, j - 1, h, v)
      BY <2>1, <3>1, BringsSame
    <3>3. QED
      BY <2>1, <3>1, <3>2, <1>2, <1>3
  <2>3. CASE j \in 1..Len(c)
    <3>1. d[j] = c[j] /\ snt1[c[j].task] = snt[c[j].task]
      BY <1>1, <1>2, <1>3, <1>4, <2>3
    <3>2. Brings(c, j - 1, h, snt[c[j].task])
      BY <1>4, <2>3, <3>1 DEF RunsOK
    <3>3. Brings(d, j - 1, h, snt[c[j].task])
      BY <2>1, <3>2, BringsSame
    <3>4. QED
      BY <2>1, <3>1, <3>3, <1>4, <2>3 DEF RunsOK
  <2>4. QED
    BY <2>2, <2>3, <1>1
<1>5. QED
  BY <1>4 DEF RunsOK, d, snt1

\* The next command, when it is a task, has its hashes, and does not come again.
LEMMA RunsTail ==
  ASSUME NEW c \in Seq(Message), c # <<>>, NEW snt, NEW pr, NEW h, NEW g,
         RunsOK(c, snt, pr, h),
         \/ c[1].kind # "newtaskhashes" /\ g = h
         \/ c[1].kind = "newtaskhashes" /\ g = c[1].version
  PROVE  /\ RunsOK(Tail(c), snt, pr, g)
         /\ c[1].kind = "runtask" =>
              /\ pr[c[1].task] = "none" /\ snt[c[1].task] = h
              /\ \A i \in 1..Len(Tail(c)) :
                   Tail(c)[i].kind = "runtask" => Tail(c)[i].task # c[1].task
<1> DEFINE d == Tail(c)
<1>1. /\ Len(c) \in Nat /\ Len(c) > 0 /\ Len(d) = Len(c) - 1
      /\ \A i \in 1..Len(d) : d[i] = c[i + 1]
  BY TailAt
<1>2. \A n \in 1..Len(c) : \A v : Brings(c, n, h, v) => Brings(d, n - 1, g, v)
  BY BringsTail
<1> HIDE DEF d
<1>3. ASSUME NEW j \in 1..Len(d), d[j].kind = "runtask"
      PROVE  /\ pr[d[j].task] = "none" /\ snt[d[j].task] # None
             /\ \A i \in 1..(j - 1) : d[i].kind = "runtask" => d[i].task # d[j].task
             /\ Brings(d, j - 1, g, snt[d[j].task])
             /\ c[1].kind = "runtask" => d[j].task # c[1].task
  <2>1. j + 1 \in 1..Len(c) /\ d[j] = c[j + 1] /\ (j + 1) - 1 = j /\ j \in 1..Len(c) /\ 1 \in 1..j
    BY <1>1
  <2>2. \A i \in 1..(j - 1) : i + 1 \in 1..j /\ d[i] = c[i + 1]
    BY <1>1
  <2>3. /\ pr[d[j].task] = "none" /\ snt[d[j].task] # None
        /\ \A i \in 1..j : c[i].kind = "runtask" => c[i].task # d[j].task
        /\ Brings(c, j, h, snt[d[j].task])
    BY <1>3, <2>1 DEF RunsOK
  <2>4. Brings(d, j - 1, g, snt[d[j].task])
    BY <1>2, <2>1, <2>3
  <2>5. QED
    BY <2>1, <2>2, <2>3, <2>4
<1>4. ASSUME c[1].kind = "runtask" PROVE pr[c[1].task] = "none" /\ snt[c[1].task] = h
  <2>1. 1 \in 1..Len(c) /\ 1 - 1 = 0 /\ 1..0 = {}
    BY <1>1
  <2>2. pr[c[1].task] = "none" /\ Brings(c, 0, h, snt[c[1].task])
    BY <1>4, <2>1 DEF RunsOK
  <2>3. QED
    BY <2>1, <2>2 DEF Brings
<1>5. RunsOK(d, snt, pr, g)
  BY <1>3 DEF RunsOK
<1>6. QED
  BY <1>3, <1>4, <1>5 DEF d

LEMMA CommandTypes == QueueTypes => Commands \in Seq(Message)
BY ConcatProperties DEF QueueTypes, Commands

\* A step that leaves the commands alone and starts no task that was not sent
LEMMA CommandsKept ==
  ASSUME CommandsOK, QueueTypes, Commands' = Commands,
         UNCHANGED <<sent, version, has>>,
         server' = "build" => server = "build", pc' # "dead" => pc # "dead",
         \A t \in Tasks : proc[t] = "none" => proc'[t] = "none"
  PROVE  CommandsOK'
<1>1. \A t \in Tasks : sent'[t] = None => proc'[t] = "none"
  BY DEF CommandsOK
<1>2. ASSUME pc' # "dead" PROVE RunsOK(Commands, sent, proc', has)
  <2>1. \A i \in 1..Len(Commands) : Commands[i].kind = "runtask" => Commands[i].task \in Tasks
    BY CommandTypes, MessageFields, ElementOfSeq
  <2>2. RunsOK(Commands, sent, proc, has)
    BY <1>2 DEF CommandsOK
  <2>3. QED
    BY <2>1, <2>2 DEF RunsOK
<1>3. pc' # "dead" /\ server' = "build" => Brings(Commands, Len(Commands), has, version)
  BY DEF CommandsOK
<1>4. QED
  BY <1>1, <1>2, <1>3 DEF CommandsOK

LEMMA RunsPrefix ==
  ASSUME NEW a \in Seq(Message), NEW b \in Seq(Message), NEW snt, NEW pr, NEW h,
         RunsOK(a \o b, snt, pr, h)
  PROVE  RunsOK(a, snt, pr, h)
<1> DEFINE c == a \o b
<1>1. Len(a) \in Nat /\ Len(c) >= Len(a) /\ Len(c) \in Nat /\ \A i \in 1..Len(a) : c[i] = a[i]
  BY ConcatProperties, LenProperties
<1>2. RunsOK(c, snt, pr, h)
  OBVIOUS
<1> HIDE DEF c
<1>3. ASSUME NEW j \in 1..Len(a), a[j].kind = "runtask"
      PROVE  /\ pr[a[j].task] = "none" /\ snt[a[j].task] # None
             /\ \A i \in 1..(j - 1) : a[i].kind = "runtask" => a[i].task # a[j].task
             /\ Brings(a, j - 1, h, snt[a[j].task])
  <2>1. j \in 1..Len(c) /\ c[j] = a[j] /\ j - 1 \in Nat /\ \A i \in 1..(j - 1) : a[i] = c[i]
    BY <1>1
  <2>2. Brings(c, j - 1, h, snt[a[j].task])
    BY <1>2, <1>3, <2>1 DEF RunsOK
  <2>3. Brings(a, j - 1, h, snt[a[j].task])
    BY <2>1, <2>2, BringsSame
  <2>4. QED
    <3>1. /\ pr[a[j].task] = "none" /\ snt[a[j].task] # None
          /\ \A i \in 1..(j - 1) : c[i].kind = "runtask" => c[i].task # a[j].task
      BY <1>2, <1>3, <2>1 DEF RunsOK
    <3>2. QED
      BY <2>1, <2>3, <3>1
<1>4. QED
  BY <1>3 DEF RunsOK

LEMMA BringsAppend ==
  ASSUME NEW c \in Seq(Message), NEW m \in Message, NEW h, NEW v, NEW w,
         Brings(c, Len(c), h, v),
         \/ m.kind # "newtaskhashes" /\ w = v
         \/ m.kind = "newtaskhashes" /\ w = m.version
  PROVE  Brings(Append(c, m), Len(Append(c, m)), h, w)
<1>1. /\ Len(Append(c, m)) = Len(c) + 1 /\ Len(c) \in Nat
      /\ \A i \in 1..Len(c) : Append(c, m)[i] = c[i]
      /\ Append(c, m)[Len(c) + 1] = m
  BY AppendAt
<1>2. Brings(Append(c, m), Len(c), h, v)
  BY <1>1, BringsSame
<1>3. Brings(Append(c, m), Len(c) + 1, h, w)
  BY <1>1, <1>2, BringsNext
<1>4. QED
  BY <1>1, <1>3

LEMMA CommandsServer ==
  ASSUME TypeOK, CommandsOK,
         \/ \E t \in Tasks : SendTask(t)
         \/ SendHashes \/ Teardown \/ Write \/ WorkerGone \/ Read \/ TornDown \/ KillServer
  PROVE  CommandsOK'
<1>1. QueueTypes /\ StateTypes /\ Commands \in Seq(Message) /\ queue \o stdin \in Seq(Message)
  BY TypeParts, CommandTypes, ConcatProperties DEF QueueTypes
<1>2. ASSUME NEW t \in Tasks, SendTask(t) PROVE CommandsOK'
  <2>1. /\ server = "build" /\ sent[t] = None
        /\ sent' = [sent EXCEPT ![t] = version] /\ unsent' = Append(unsent, RunTask(t))
        /\ UNCHANGED <<server, version, queue, stdin, pc, has, proc>>
    BY <1>2 DEF SendTask, Idle, main, tasks
  <2>2. Commands' = Append(Commands, RunTask(t))
    BY <1>1, <2>1, AppendRight, MessageFields DEF Commands, QueueTypes
  <2>3. version \in 0..Hashes /\ version # None /\ sent \in [Tasks -> (0..Hashes) \cup {None}]
    BY <1>1, NoneAssumption DEF StateTypes
  <2>4. \A u \in Tasks : sent'[u] = None => proc'[u] = "none"
    BY <2>1, <2>3 DEF CommandsOK
  <2>5. ASSUME pc' # "dead"
        PROVE  RunsOK(Commands', sent', proc', has') /\ Brings(Commands', Len(Commands'), has', version')
    <3>1. RunsOK(Commands, sent, proc, has) /\ Brings(Commands, Len(Commands), has, version)
      BY <2>1, <2>5 DEF CommandsOK
    <3>2. proc[t] = "none"
      BY <2>1 DEF CommandsOK
    <3>3. RunsOK(Append(Commands, RunTask(t)), [sent EXCEPT ![t] = version], proc, has)
      BY <1>1, <2>1, <2>3, <3>1, <3>2, RunsAppendTask
    <3>4. Brings(Append(Commands, RunTask(t)), Len(Append(Commands, RunTask(t))), has, version)
      BY <1>1, <3>1, MessageFields, BringsAppend
    <3>5. QED
      BY <2>1, <2>2, <3>3, <3>4
  <2>6. QED
    BY <2>4, <2>5 DEF CommandsOK
<1>3. CASE SendHashes
  <2> DEFINE m == NewTaskHashes(version + 1)
  <2>1. /\ server = "build" /\ version' = version + 1 /\ unsent' = Append(unsent, m)
        /\ UNCHANGED <<server, sent, queue, stdin, pc, has, proc>>
    BY <1>3 DEF SendHashes, Idle, main, tasks
  <2>2. m \in Message /\ m.kind = "newtaskhashes" /\ m.version = version + 1
    <3>1. version + 1 \in 1..Hashes
      BY <1>1, <1>3, BoundsAssumption DEF SendHashes, StateTypes
    <3>2. QED
      BY <3>1, MessageFields
  <2>3. Commands' = Append(Commands, m)
    BY <1>1, <2>1, <2>2, AppendRight DEF Commands, QueueTypes
  <2>4. ASSUME pc' # "dead"
        PROVE  RunsOK(Commands', sent', proc', has') /\ Brings(Commands', Len(Commands'), has', version')
    <3>1. RunsOK(Commands, sent, proc, has) /\ Brings(Commands, Len(Commands), has, version)
      BY <2>1, <2>4 DEF CommandsOK
    <3> HIDE DEF m
    <3>2. RunsOK(Append(Commands, m), sent, proc, has)
      BY <1>1, <2>2, <3>1, RunsAppendOther
    <3>3. Brings(Append(Commands, m), Len(Append(Commands, m)), has, version + 1)
      BY <1>1, <2>2, <3>1, BringsAppend
    <3>4. QED
      BY <2>1, <2>3, <3>2, <3>3
  <2>5. QED
    BY <2>1, <2>4 DEF CommandsOK
<1>4. CASE Teardown
  <2>1. server' = "teardown" /\ UNCHANGED <<version, sent, queue, stdin, pc, has, proc>>
    BY <1>4 DEF Teardown, main, tasks
  <2>2. Commands' = Append(Commands, Quit) \/ Commands' = Append(Append(Commands, FinishNow), Quit)
    <3>1. CASE unsent' = Append(unsent, Quit)
      <4>1. (queue \o stdin) \o Append(unsent, Quit) = Append((queue \o stdin) \o unsent, Quit)
        BY <1>1, AppendRight, MessageFields DEF QueueTypes
      <4>2. QED
        BY <2>1, <3>1, <4>1 DEF Commands
    <3>2. CASE unsent' = unsent \o <<FinishNow, Quit>>
      <4>1. unsent \o <<FinishNow, Quit>> = Append(Append(unsent, FinishNow), Quit)
        BY <1>1, MessageFields DEF QueueTypes
      <4>2. Append(unsent, FinishNow) \in Seq(Message)
        BY <1>1, MessageFields, AppendProperties DEF QueueTypes
      <4>3. (queue \o stdin) \o Append(unsent, FinishNow) = Append((queue \o stdin) \o unsent, FinishNow)
        BY <1>1, AppendRight, MessageFields DEF QueueTypes
      <4>4. (queue \o stdin) \o Append(Append(unsent, FinishNow), Quit)
              = Append((queue \o stdin) \o Append(unsent, FinishNow), Quit)
        BY <1>1, <4>2, AppendRight, MessageFields
      <4>5. QED
        BY <2>1, <3>2, <4>1, <4>3, <4>4 DEF Commands
    <3>3. QED
      BY <1>4, <3>1, <3>2 DEF Teardown
  <2>3. ASSUME pc' # "dead" PROVE RunsOK(Commands', sent', proc', has')
    <3>1. RunsOK(Commands, sent, proc, has)
      BY <2>1, <2>3 DEF CommandsOK
    <3>2. RunsOK(Append(Commands, Quit), sent, proc, has) /\ RunsOK(Append(Commands, FinishNow), sent, proc, has)
      BY <1>1, <3>1, MessageFields, RunsAppendOther
    <3>3. RunsOK(Append(Append(Commands, FinishNow), Quit), sent, proc, has)
      BY <1>1, <3>2, MessageFields, RunsAppendOther, AppendProperties
    <3>4. QED
      BY <2>1, <2>2, <3>2, <3>3
  <2>4. QED
    BY <2>1, <2>3 DEF CommandsOK
<1>5. CASE Write
  <2>1. /\ unsent # <<>> /\ stdin' = Append(stdin, Head(unsent)) /\ unsent' = Tail(unsent)
        /\ UNCHANGED <<server, version, sent, pc, has, proc, queue>>
    BY <1>5 DEF Write, main, tasks
  <2>2. Append(queue \o stdin, Head(unsent)) \o Tail(unsent) = (queue \o stdin) \o unsent
    <3> DEFINE a == queue \o stdin
    <3>1. unsent \in Seq(Message) /\ unsent # <<>> /\ a \in Seq(Message)
      BY <1>1, <2>1 DEF QueueTypes
    <3> HIDE DEF a
    <3>2. Append(a, Head(unsent)) \o Tail(unsent) = a \o unsent
      BY <3>1, MoveHead, Zenon
    <3>3. QED
      BY <3>2 DEF a
  <2>3. queue \o Append(stdin, Head(unsent)) = Append(queue \o stdin, Head(unsent))
    BY <1>1, <2>1, HeadMessage, AppendRight DEF QueueTypes
  <2>4. Commands' = Commands
    BY <2>1, <2>2, <2>3 DEF Commands
  <2>5. QED
    BY <1>1, <2>1, <2>4, CommandsKept
<1>6. CASE WorkerGone
  BY <1>6 DEF WorkerGone, CommandsOK, main, tasks
<1>7. CASE Read \/ TornDown
  <2>1. /\ UNCHANGED <<queue, stdin, unsent, sent, version, has, proc, pc>>
        /\ server' = "build" => server = "build"
    BY <1>7 DEF Read, TornDown, main, tasks
  <2>2. Commands' = Commands
    BY <2>1 DEF Commands
  <2>3. QED
    BY <1>1, <2>1, <2>2, CommandsKept
<1>8. CASE KillServer
  <2>1. server' = "dead" /\ unsent' = <<>> /\ UNCHANGED <<queue, stdin, sent, version, has, proc, pc>>
    BY <1>8 DEF KillServer, main, tasks
  <2>2. Commands' = queue \o stdin
    BY <1>1, <2>1, ConcatEmptySeq DEF Commands
  <2>3. pc # "dead" => RunsOK(queue \o stdin, sent, proc, has)
    BY <1>1, RunsPrefix DEF CommandsOK, Commands, QueueTypes
  <2>4. QED
    BY <2>1, <2>2, <2>3 DEF CommandsOK
<1>9. QED
  BY <1>2, <1>3, <1>4, <1>5, <1>6, <1>7, <1>8

\* The worker takes its next command
LEMMA CommandsTail ==
  ASSUME QueueTypes, NEW k, Handles(k), UNCHANGED <<stdin, unsent>>
  PROVE  /\ Commands # <<>> /\ Commands[1] = Head(queue) /\ Commands' = Tail(Commands)
         /\ Head(queue).kind = k
<1>1. queue # <<>> /\ queue' = Tail(queue) /\ Head(queue).kind = k
  BY HandlesTypes
<1>2. queue \o stdin \in Seq(Message) /\ queue \in Seq(Message) /\ stdin \in Seq(Message)
      /\ unsent \in Seq(Message)
  BY ConcatProperties DEF QueueTypes
<1>3. /\ Tail(queue) \o stdin = Tail(queue \o stdin)
      /\ Head(queue) = Head(queue \o stdin) /\ queue \o stdin # <<>>
  BY <1>1, <1>2, TailLeft
<1>4. /\ Tail(queue \o stdin) \o unsent = Tail(Commands)
      /\ Head(queue \o stdin) = Head(Commands) /\ Commands # <<>>
  BY <1>2, <1>3, TailLeft DEF Commands
<1>5. Commands \in Seq(Message)
  BY CommandTypes
<1>6. Commands' = Tail(Commands) /\ Commands[1] = Head(queue)
  BY <1>1, <1>3, <1>4, <1>5, TailAt DEF Commands
<1>7. QED
  BY <1>1, <1>4, <1>6

\* A command other than runtask
LEMMA CommandsOther ==
  ASSUME TypeOK, CommandsOK, NEW k \in {"newtaskhashes", "finishnow", "quit"}, Handles(k),
         UNCHANGED <<stdin, unsent, server, version, sent, proc>>, pc' # "dead",
         has' = IF k = "newtaskhashes" THEN Head(queue).version ELSE has
  PROVE  CommandsOK'
<1>1. QueueTypes /\ StateTypes /\ Commands \in Seq(Message) /\ pc # "dead"
  BY TypeParts, CommandTypes DEF Handles
<1>2. /\ Commands # <<>> /\ Commands[1] = Head(queue) /\ Commands' = Tail(Commands)
      /\ Head(queue).kind = k
  BY <1>1, CommandsTail
<1>3. RunsOK(Tail(Commands), sent, proc, has')
  BY <1>1, <1>2, RunsTail DEF CommandsOK
<1>4. ASSUME server = "build" PROVE Brings(Tail(Commands), Len(Tail(Commands)), has', version)
  <2>1. Len(Commands) \in 1..Len(Commands) /\ Len(Tail(Commands)) = Len(Commands) - 1
    BY <1>1, <1>2, TailAt
  <2>2. Brings(Commands, Len(Commands), has, version)
    BY <1>1, <1>4 DEF CommandsOK
  <2>3. Brings(Tail(Commands), Len(Commands) - 1, has', version)
    BY <1>1, <1>2, <2>1, <2>2, BringsTail
  <2>4. QED
    BY <2>1, <2>3
<1>5. QED
  BY <1>2, <1>3, <1>4 DEF CommandsOK

\* What is forked was not forked before, and has its hashes.
LEMMA CommandsRun ==
  ASSUME TypeOK, CommandsOK, HandleRunTask
  PROVE  /\ CommandsOK'
         /\ Head(queue).task \in Tasks
         /\ proc[Head(queue).task] = "none" /\ sent[Head(queue).task] = has
<1> DEFINE t == Head(queue).task
<1>1. /\ QueueTypes /\ StateTypes /\ Commands \in Seq(Message) /\ pc # "dead"
      /\ proc' = [proc EXCEPT ![t] = "forked"]
      /\ UNCHANGED <<stdin, unsent, server, version, sent, has, pc>>
  BY TypeParts, CommandTypes DEF HandleRunTask, Handles, upper
<1>2. /\ Commands # <<>> /\ Commands[1] = Head(queue) /\ Commands' = Tail(Commands)
      /\ Head(queue).kind = "runtask" /\ t \in Tasks
  BY <1>1, CommandsTail, HandlesTypes, MessageFields DEF HandleRunTask
<1>3. RunsOK(Commands, sent, proc, has)
  BY <1>1 DEF CommandsOK
<1>4. RunsOK(Tail(Commands), sent, proc, has)
  BY <1>1, <1>2, <1>3, RunsTail
<1>5. /\ proc[t] = "none" /\ sent[t] = has
      /\ \A i \in 1..Len(Tail(Commands)) :
           Tail(Commands)[i].kind = "runtask" => Tail(Commands)[i].task # t
  <2>1. Commands[1].kind = "runtask" /\ Commands[1].kind # "newtaskhashes" /\ Commands[1].task = t
    BY <1>2
  <2>2. Commands[1].kind = "runtask" =>
          /\ proc[Commands[1].task] = "none" /\ sent[Commands[1].task] = has
          /\ \A i \in 1..Len(Tail(Commands)) :
               Tail(Commands)[i].kind = "runtask" => Tail(Commands)[i].task # Commands[1].task
    BY <1>1, <1>2, <1>3, <2>1, RunsTail
  <2>3. QED
    BY <2>1, <2>2
<1>6. \A i \in 1..Len(Tail(Commands)) :
        Tail(Commands)[i].kind = "runtask" => Tail(Commands)[i].task \in Tasks
  BY <1>1, <1>2, TailAt, MessageFields, ElementOfSeq
<1> HIDE DEF t
<1>7. \A u \in Tasks : u # t => proc'[u] = proc[u]
  BY <1>1 DEF StateTypes
<1>8. RunsOK(Tail(Commands), sent, proc', has)
  BY <1>4, <1>5, <1>6, <1>7 DEF RunsOK
<1>9. ASSUME server = "build" PROVE Brings(Tail(Commands), Len(Tail(Commands)), has, version)
  <2>1. Len(Commands) \in 1..Len(Commands) /\ Len(Tail(Commands)) = Len(Commands) - 1
    BY <1>1, <1>2, TailAt
  <2>2. Brings(Commands, Len(Commands), has, version)
    BY <1>1, <1>9 DEF CommandsOK
  <2>3. Brings(Tail(Commands), Len(Commands) - 1, has, version)
    BY <1>1, <1>2, <2>1, <2>2, BringsTail
  <2>4. QED
    BY <2>1, <2>3
<1>10. \A u \in Tasks : sent[u] = None => proc'[u] = "none"
  <2>1. sent[t] # None
    BY <1>1, <1>5, NoneAssumption DEF StateTypes
  <2>2. QED
    BY <1>7, <2>1 DEF CommandsOK
<1>11. CommandsOK'
  BY <1>1, <1>2, <1>8, <1>9, <1>10 DEF CommandsOK
<1>12. QED
  BY <1>2, <1>5, <1>11 DEF t

\* No other step starts a task.
LEMMA NoneStays ==
  ASSUME TypeOK,
         \/ Select \/ PipesRead \/ WaitPid \/ Report \/ Leaves \/ Dies
         \/ \E t \in Tasks : FinishTask(t) \/ Forward(t)
         \/ Flush \/ KillWorker \/ Sigterm
         \/ HandleNewTaskHashes \/ HandleFinishNow \/ HandleQuit \/ PickleFails \/ ItemsDone
         \/ \E t \in Tasks : Task(t)
  PROVE  \A u \in Tasks : proc[u] = "none" <=> proc'[u] = "none"
<1>1. proc \in [Tasks -> {"none", "forked", "guarded", "running", "exited", "gone"}]
  BY DEF TypeOK
<1>2. CASE UNCHANGED proc
  BY <1>2
<1>3. CASE WaitPid
  BY <1>1, <1>3 DEF WaitPid, Exited
<1>4. CASE Ends
  BY <1>1, <1>4 DEF Ends
<1>5. ASSUME NEW t \in Tasks, FinishTask(t) PROVE \A u \in Tasks : proc[u] = "none" <=> proc'[u] = "none"
  BY <1>1, <1>5 DEF FinishTask, Exited, Signalled
<1>6. ASSUME NEW t \in Tasks, Task(t) PROVE \A u \in Tasks : proc[u] = "none" <=> proc'[u] = "none"
  BY <1>1, <1>6 DEF Task, StartsUp, Fires, Exits, Move
<1>7. QED
  BY <1>2, <1>3, <1>4, <1>5, <1>6
     DEF Select, PipesRead, Report, Leaves, Dies, Forward, Flush, KillWorker, Sigterm,
         HandleNewTaskHashes, HandleFinishNow, HandleQuit, PickleFails, ItemsDone, tasks

LEMMA CommandsServe ==
  ASSUME TypeOK, CommandsOK,
         \/ Serve \/ Flush \/ KillWorker \/ Sigterm
         \/ \E t \in Tasks : Task(t)
  PROVE  CommandsOK'
<1>1. QueueTypes /\ StateTypes
  BY TypeParts
<1>2. CASE Select
  <2>1. queue' = queue \o stdin /\ stdin' = <<>>
        /\ UNCHANGED <<unsent, sent, version, has, proc, server>> /\ pc # "dead"
    BY <1>2 DEF Select, upper, tasks
  <2>2. Commands' = Commands
    <3>1. queue \o stdin \in Seq(Message)
      BY <1>1, ConcatProperties DEF QueueTypes
    <3>2. (queue \o stdin) \o <<>> = queue \o stdin
      BY <3>1, ConcatEmptySeq
    <3>3. QED
      BY <2>1, <3>2 DEF Commands
  <2>3. QED
    BY <1>1, <2>1, <2>2, CommandsKept
<1>3. CASE HandleNewTaskHashes
  <2>1. /\ Handles("newtaskhashes") /\ has' = Head(queue).version /\ pc' # "dead"
        /\ UNCHANGED <<stdin, unsent, server, version, sent, proc>>
    BY <1>3 DEF HandleNewTaskHashes, Handles, upper, tasks
  <2>2. QED
    BY <2>1, CommandsOther
<1>4. CASE HandleFinishNow
  <2>1. /\ Handles("finishnow") /\ has' = has /\ pc' # "dead"
        /\ UNCHANGED <<stdin, unsent, server, version, sent, proc>>
    BY <1>4 DEF HandleFinishNow, Handles, upper, tasks
  <2>2. QED
    BY <2>1, CommandsOther
<1>5. CASE HandleQuit
  <2>1. /\ Handles("quit") /\ has' = has /\ pc' # "dead"
        /\ UNCHANGED <<stdin, unsent, server, version, sent, proc>>
    BY <1>5 DEF HandleQuit, Handles, upper, tasks
  <2>2. QED
    BY <2>1, CommandsOther
<1>6. CASE HandleRunTask
  BY <1>6, CommandsRun
<1>7. CASE Ends
  <2>1. UNCHANGED sent /\ pc' = "dead"
    BY <1>7 DEF Ends, upper
  <2>2. \A t \in Tasks : proc[t] = "none" => proc'[t] = "none"
    BY <1>7 DEF Ends
  <2>3. QED
    BY <2>1, <2>2 DEF CommandsOK
<1>8. CASE \/ PipesRead \/ WaitPid \/ Report \/ Flush \/ Sigterm \/ PickleFails \/ ItemsDone
           \/ \E t \in Tasks : FinishTask(t) \/ Forward(t)
           \/ \E t \in Tasks : Task(t)
  <2>1. UNCHANGED <<queue, stdin, unsent, sent, version, has, server>>
    BY <1>8
       DEF PipesRead, WaitPid, Report, Flush, Sigterm, PickleFails, ItemsDone, FinishTask, Forward,
           Task, StartsUp, Fires, Exits, upper, main
  <2>2. pc' # "dead" => pc # "dead"
    BY <1>8
       DEF PipesRead, WaitPid, Report, Flush, Sigterm, PickleFails, ItemsDone, FinishTask, Forward,
           Task, StartsUp, Fires, Exits, main
  <2>3. Commands' = Commands
    BY <2>1 DEF Commands
  <2>4. \A t \in Tasks : proc[t] = "none" => proc'[t] = "none"
    BY <1>8, NoneStays
  <2>5. QED
    BY <1>1, <2>1, <2>2, <2>3, <2>4, CommandsKept
<1>9. QED
  BY <1>2, <1>3, <1>4, <1>5, <1>6, <1>7, <1>8 DEF Serve, Items, Leaves, Dies, KillWorker

(* What the worker tells the server *)

LEMMA ItemAt ==
  ASSUME NEW c \in Seq(Item)
  PROVE  \A i \in 1..Len(c) : c[i][1] \in Tasks /\ c[i][2] \in Nat
BY ElementOfSeq DEF Item

NoExit(c, t) == \A i \in 1..Len(c) : c[i][1] = t => c[i][2] > 0

LEMMA SaysEvent ==
  ASSUME NEW c \in Seq(Item), NEW t \in Tasks, NEW pr,
         NEW s \in [Tasks -> Nat], NEW p \in [Tasks -> Nat], NEW f \in [Tasks -> Nat],
         s[t] <= p[t], p[t] < f[t], InOrder(c, s, p), Complete(c, s, p, f, pr)
  PROVE  LET d == Append(c, <<t, p[t] + 1>>)
             q == [p EXCEPT ![t] = p[t] + 1]
         IN /\ InOrder(d, s, q) /\ Complete(d, s, q, f, pr)
            /\ Full(c, s, p) => Full(d, s, q)
            /\ \A u \in Tasks : NoExit(c, u) => NoExit(d, u)
<1> DEFINE x == <<t, p[t] + 1>>  d == Append(c, x)  q == [p EXCEPT ![t] = p[t] + 1]
<1>1. x[1] = t /\ x[2] = p[t] + 1 /\ x \in Item
  BY DEF Item
<1>2. q[t] = p[t] + 1 /\ (\A u \in Tasks : u # t => q[u] = p[u]) /\ \A u \in Tasks : s[u] \in Nat /\ p[u] \in Nat /\ f[u] \in Nat
  OBVIOUS
<1> HIDE DEF x, q
<1>2a. \A u \in Tasks : p[u] <= q[u] /\ q[u] \in Nat
  <2>1. SUFFICES ASSUME NEW u \in Tasks PROVE p[u] <= q[u] /\ q[u] \in Nat
    OBVIOUS
  <2>2. CASE u = t
    BY <1>2, <2>2
  <2>3. CASE u # t
    BY <1>2, <2>3
  <2>4. QED
    BY <2>2, <2>3
<1>3. Len(d) = Len(c) + 1 /\ Len(c) \in Nat /\ (\A i \in 1..Len(c) : d[i] = c[i]) /\ d[Len(c) + 1] = x
  BY <1>1, AppendAt
<1> HIDE DEF d
<1>4. \A i \in 1..Len(c) : c[i][1] \in Tasks /\ c[i][2] \in Nat
  BY ItemAt
<1>5. \A i \in 1..Len(c) : c[i][1] = t => c[i][2] > 0 /\ c[i][2] <= p[t]
  BY <1>2, <1>4 DEF InOrder, Complete
<1>6. InOrder(d, s, q)
  <2>1. ASSUME NEW i \in 1..Len(d), d[i][2] > 0 PROVE s[d[i][1]] < d[i][2] /\ d[i][2] <= q[d[i][1]]
    <3>1. CASE i = Len(c) + 1
      BY <1>1, <1>2, <1>3, <3>1
    <3>2. CASE i \in 1..Len(c)
      <4>1. s[c[i][1]] < c[i][2] /\ c[i][2] <= p[c[i][1]] /\ c[i][1] \in Tasks /\ c[i][2] \in Nat
        BY <1>3, <1>4, <2>1, <3>2 DEF InOrder
      <4>2. p[c[i][1]] <= q[c[i][1]]
        BY <1>2a, <4>1
      <4>3. q[c[i][1]] \in Nat /\ p[c[i][1]] \in Nat
        BY <1>2, <1>2a, <4>1
      <4>4. QED
        BY <1>3, <3>2, <4>1, <4>2, <4>3
    <3>3. QED
      BY <1>3, <3>1, <3>2
  <2>2. ASSUME NEW i \in 1..Len(d), NEW j \in 1..Len(d), i < j, d[i][1] = d[j][1]
        PROVE  d[i][2] > 0 /\ (d[j][2] = 0 \/ d[i][2] < d[j][2])
    <3>1. i \in 1..Len(c) /\ d[i] = c[i]
      BY <1>3, <2>2
    <3>2. CASE j = Len(c) + 1
      <4>1. c[i][2] > 0 /\ c[i][2] <= p[t] /\ c[i][2] \in Nat /\ d[j][2] = p[t] + 1
        BY <1>1, <1>3, <1>4, <1>5, <2>2, <3>1, <3>2
      <4>2. QED
        BY <1>2, <3>1, <4>1
    <3>3. CASE j \in 1..Len(c)
      BY <1>3, <2>2, <3>1, <3>3 DEF InOrder
    <3>4. QED
      BY <1>3, <3>2, <3>3
  <2>3. QED
    BY <2>1, <2>2 DEF InOrder
<1>7. Complete(d, s, q, f, pr)
  <2>1. ASSUME NEW i \in 1..Len(d), d[i][2] = 0
        PROVE  LET u == d[i][1] IN
               /\ f[u] = q[u] /\ pr[u] = "gone"
               /\ \A n \in Nat : s[u] < n /\ n <= f[u] =>
                    \E j \in 1..Len(d) : j < i /\ d[j][1] = u /\ d[j][2] = n
    <3>1. i \in 1..Len(c) /\ d[i] = c[i] /\ c[i][1] \in Tasks
      BY <1>1, <1>2, <1>3, <1>4, <2>1
    <3>2. c[i][1] # t
      BY <1>5, <2>1, <3>1
    <3>3. q[c[i][1]] = p[c[i][1]]
      BY <1>2, <3>1, <3>2
    <3>4. /\ f[c[i][1]] = p[c[i][1]] /\ pr[c[i][1]] = "gone"
          /\ \A n \in Nat : s[c[i][1]] < n /\ n <= f[c[i][1]] =>
               \E j \in 1..Len(c) : j < i /\ c[j][1] = c[i][1] /\ c[j][2] = n
      BY <2>1, <3>1 DEF Complete
    <3>5. \A j \in 1..Len(c) : j \in 1..Len(d) /\ d[j] = c[j]
      BY <1>3
    <3>6. QED
      BY <3>1, <3>3, <3>4, <3>5
  <2>2. QED
    BY <2>1 DEF Complete
<1>8. ASSUME Full(c, s, p) PROVE Full(d, s, q)
  <2>1. ASSUME NEW u \in Tasks, NEW n \in Nat, s[u] < n, n <= q[u]
        PROVE  \E j \in 1..Len(d) : d[j][1] = u /\ d[j][2] = n
    <3>1. CASE u = t /\ n = p[t] + 1
      BY <1>1, <1>3, <3>1
    <3>2. CASE ~(u = t /\ n = p[t] + 1)
      <4>1. n <= p[u]
        BY <1>2, <2>1, <3>2
      <4>2. PICK j \in 1..Len(c) : c[j][1] = u /\ c[j][2] = n
        BY <1>8, <2>1, <4>1 DEF Full
      <4>3. QED
        BY <1>3, <4>2
    <3>3. QED
      BY <3>1, <3>2
  <2>2. QED
    BY <2>1 DEF Full
<1>9. ASSUME NEW u \in Tasks, NoExit(c, u) PROVE NoExit(d, u)
  <2>1. x[2] > 0
    BY <1>1, <1>2
  <2>2. ASSUME NEW i \in 1..Len(d), d[i][1] = u PROVE d[i][2] > 0
    <3>1. CASE i = Len(c) + 1
      BY <1>3, <2>1, <3>1
    <3>2. CASE i \in 1..Len(c)
      BY <1>3, <1>9, <2>2, <3>2 DEF NoExit
    <3>3. i = Len(c) + 1 \/ i \in 1..Len(c)
      BY <1>3
    <3>4. QED
      BY <3>1, <3>2, <3>3
  <2>3. QED
    BY <2>2 DEF NoExit
<1>10. QED
  BY <1>6, <1>7, <1>8, <1>9 DEF d, q, x

LEMMA SaysExit ==
  ASSUME NEW c \in Seq(Item), NEW t \in Tasks, NEW pr,
         NEW s \in [Tasks -> Nat], NEW p \in [Tasks -> Nat], NEW f \in [Tasks -> Nat],
         f[t] = p[t], pr[t] = "gone", NoExit(c, t),
         InOrder(c, s, p), Complete(c, s, p, f, pr), Full(c, s, p)
  PROVE  LET d == Append(c, <<t, 0>>)
         IN InOrder(d, s, p) /\ Complete(d, s, p, f, pr) /\ Full(d, s, p)
<1> DEFINE x == <<t, 0>>  d == Append(c, x)
<1>1. x[1] = t /\ x[2] = 0 /\ x \in Item
  BY DEF Item
<1> HIDE DEF x
<1>2. Len(d) = Len(c) + 1 /\ Len(c) \in Nat /\ (\A i \in 1..Len(c) : d[i] = c[i]) /\ d[Len(c) + 1] = x
  BY <1>1, AppendAt
<1> HIDE DEF d
<1>3. \A j \in 1..Len(c) : j \in 1..Len(d) /\ d[j] = c[j] /\ j < Len(c) + 1
  BY <1>2
<1>4. InOrder(d, s, p)
  <2>1. ASSUME NEW i \in 1..Len(d), d[i][2] > 0 PROVE s[d[i][1]] < d[i][2] /\ d[i][2] <= p[d[i][1]]
    <3>1. i \in 1..Len(c)
      BY <1>1, <1>2, <2>1
    <3>2. QED
      BY <1>2, <2>1, <3>1 DEF InOrder
  <2>2. ASSUME NEW i \in 1..Len(d), NEW j \in 1..Len(d), i < j, d[i][1] = d[j][1]
        PROVE  d[i][2] > 0 /\ (d[j][2] = 0 \/ d[i][2] < d[j][2])
    <3>1. i \in 1..Len(c) /\ d[i] = c[i]
      BY <1>2, <2>2
    <3>2. CASE j = Len(c) + 1
      BY <1>1, <1>2, <2>2, <3>1, <3>2 DEF NoExit
    <3>3. CASE j \in 1..Len(c)
      BY <1>2, <2>2, <3>1, <3>3 DEF InOrder
    <3>4. QED
      BY <1>2, <3>2, <3>3
  <2>3. QED
    BY <2>1, <2>2 DEF InOrder
<1>5. Complete(d, s, p, f, pr)
  <2>1. ASSUME NEW i \in 1..Len(d), d[i][2] = 0
        PROVE  LET u == d[i][1] IN
               /\ f[u] = p[u] /\ pr[u] = "gone"
               /\ \A n \in Nat : s[u] < n /\ n <= f[u] =>
                    \E j \in 1..Len(d) : j < i /\ d[j][1] = u /\ d[j][2] = n
    <3>1. CASE i = Len(c) + 1
      <4>1. d[i][1] = t
        BY <1>1, <1>2, <3>1
      <4>2. \A n \in Nat : s[t] < n /\ n <= p[t] => \E j \in 1..Len(c) : c[j][1] = t /\ c[j][2] = n
        BY DEF Full
      <4>3. \A n \in Nat : s[t] < n /\ n <= p[t] =>
              \E j \in 1..Len(d) : j < i /\ d[j][1] = t /\ d[j][2] = n
        BY <1>3, <3>1, <4>2
      <4>4. QED
        BY <4>1, <4>3
    <3>2. CASE i \in 1..Len(c)
      <4>1. /\ f[c[i][1]] = p[c[i][1]] /\ pr[c[i][1]] = "gone"
            /\ \A n \in Nat : s[c[i][1]] < n /\ n <= f[c[i][1]] =>
                 \E j \in 1..Len(c) : j < i /\ c[j][1] = c[i][1] /\ c[j][2] = n
        BY <1>3, <2>1, <3>2 DEF Complete
      <4>2. QED
        BY <1>3, <3>2, <4>1
    <3>3. QED
      BY <1>2, <3>1, <3>2
  <2>2. QED
    BY <2>1 DEF Complete
<1>6. Full(d, s, p)
  BY <1>3 DEF Full
<1>7. QED
  BY <1>4, <1>5, <1>6 DEF d, x

LEMMA HeadIsEvent ==
  ASSUME NEW c \in Seq(Item), c # <<>>, NEW t \in Tasks, c[1][1] = t, c[1][2] # 0, NEW pr,
         NEW s \in [Tasks -> Nat], NEW p \in [Tasks -> Nat], NEW f \in [Tasks -> Nat],
         p[t] <= f[t], InOrder(c, s, p), Complete(c, s, p, f, pr)
  PROVE  LET d == Tail(c)
             z == [s EXCEPT ![t] = s[t] + 1]
         IN /\ InOrder(d, z, p) /\ Complete(d, z, p, f, pr)
            /\ Full(c, s, p) => Full(d, z, p)
            /\ s[t] < p[t]
<1> DEFINE d == Tail(c)  z == [s EXCEPT ![t] = s[t] + 1]
<1>1. /\ Len(c) \in Nat /\ Len(c) > 0 /\ Len(d) = Len(c) - 1
      /\ \A i \in 1..Len(d) : d[i] = c[i + 1]
  BY TailAt
<1>2. /\ z[t] = s[t] + 1 /\ \A u \in Tasks : u # t => z[u] = s[u]
      /\ \A u \in Tasks : s[u] \in Nat /\ p[u] \in Nat /\ f[u] \in Nat /\ z[u] \in Nat
  OBVIOUS
<1> HIDE DEF d, z
<1>3. \A i \in 1..Len(c) : c[i][1] \in Tasks /\ c[i][2] \in Nat
  BY ItemAt
<1>4. 1 \in 1..Len(c) /\ c[1][2] \in Nat /\ c[1][2] > 0 /\ s[t] < c[1][2] /\ c[1][2] <= p[t]
  <2>1. 1 \in 1..Len(c)
    BY <1>1
  <2>2. QED
    BY <2>1, <1>3 DEF InOrder
<1>5. \A i \in 2..Len(c) : c[i][1] = t /\ c[i][2] # 0 => c[1][2] < c[i][2]
  <2>1. SUFFICES ASSUME NEW i \in 2..Len(c), c[i][1] = t, c[i][2] # 0 PROVE c[1][2] < c[i][2]
    OBVIOUS
  <2>2. i \in 1..Len(c) /\ 1 < i
    BY <1>1
  <2>3. QED
    BY <1>4, <2>1, <2>2 DEF InOrder
<1>5a. \A u \in Tasks : s[u] <= z[u]
  <2>1. SUFFICES ASSUME NEW u \in Tasks PROVE s[u] <= z[u]
    OBVIOUS
  <2>2. CASE u = t
    BY <1>2, <2>2
  <2>3. CASE u # t
    BY <1>2, <2>3
  <2>4. QED
    BY <2>2, <2>3
<1>6. InOrder(d, z, p)
  <2>1. ASSUME NEW i \in 1..Len(d), d[i][2] > 0 PROVE z[d[i][1]] < d[i][2] /\ d[i][2] <= p[d[i][1]]
    <3>1. d[i] = c[i + 1] /\ i + 1 \in 2..Len(c) /\ i + 1 \in 1..Len(c)
      BY <1>1
    <3>2. /\ s[d[i][1]] < d[i][2] /\ d[i][2] <= p[d[i][1]]
          /\ d[i][1] \in Tasks /\ d[i][2] \in Nat
      BY <1>3, <2>1, <3>1 DEF InOrder
    <3>3. CASE d[i][1] = t
      <4>1. c[1][2] < d[i][2]
        BY <1>5, <2>1, <3>1, <3>2, <3>3
      <4>2. s[t] + 1 < d[i][2]
        BY <1>2, <1>4, <3>2, <4>1
      <4>3. QED
        BY <1>2, <3>2, <3>3, <4>2
    <3>4. CASE d[i][1] # t
      BY <1>2, <3>2, <3>4
    <3>5. QED
      BY <3>3, <3>4
  <2>2. ASSUME NEW i \in 1..Len(d), NEW j \in 1..Len(d), i < j, d[i][1] = d[j][1]
        PROVE  d[i][2] > 0 /\ (d[j][2] = 0 \/ d[i][2] < d[j][2])
    <3>1. i + 1 \in 1..Len(c) /\ j + 1 \in 1..Len(c) /\ i + 1 < j + 1
      BY <1>1, <2>2
    <3>2. d[i] = c[i + 1] /\ d[j] = c[j + 1]
      BY <1>1
    <3>3. c[i + 1][2] > 0 /\ (c[j + 1][2] = 0 \/ c[i + 1][2] < c[j + 1][2])
      BY <2>2, <3>1, <3>2 DEF InOrder
    <3>4. QED
      BY <3>2, <3>3
  <2>3. QED
    BY <2>1, <2>2 DEF InOrder
<1>7. Complete(d, z, p, f, pr)
  <2>1. ASSUME NEW i \in 1..Len(d), d[i][2] = 0, NEW u \in Tasks, u = d[i][1]
        PROVE  /\ f[u] = p[u] /\ pr[u] = "gone"
               /\ \A n \in Nat : z[u] < n /\ n <= f[u] =>
                    \E j \in 1..Len(d) : j < i /\ d[j][1] = u /\ d[j][2] = n
    <3>1. d[i] = c[i + 1] /\ i + 1 \in 1..Len(c) /\ u \in Tasks /\ i \in Nat
      BY <1>1, <1>3, <2>1
    <3>2. /\ f[u] = p[u] /\ pr[u] = "gone"
          /\ \A n \in Nat : s[u] < n /\ n <= f[u] =>
               \E j \in 1..Len(c) : j < i + 1 /\ c[j][1] = u /\ c[j][2] = n
      <4>1. c[i + 1][2] = 0 /\ c[i + 1][1] = u
        BY <2>1, <3>1
      <4>2. QED
        BY <3>1, <4>1 DEF Complete
    <3>3. ASSUME NEW n \in Nat, z[u] < n, n <= f[u]
          PROVE  \E j \in 1..Len(d) : j < i /\ d[j][1] = u /\ d[j][2] = n
      <4>1. s[u] < n
        BY <1>2, <1>5a, <3>1, <3>3
      <4>2. PICK j \in 1..Len(c) : j < i + 1 /\ c[j][1] = u /\ c[j][2] = n
        BY <3>2, <3>3, <4>1
      <4>3. j # 1
        <5>1. SUFFICES ASSUME j = 1 PROVE FALSE
          OBVIOUS
        <5>2. u = t /\ c[1][2] = n /\ s[t] + 1 < n
          BY <1>2, <3>3, <4>2, <5>1
        <5>3. s[t] + 1 \in Nat /\ s[u] < s[t] + 1 /\ s[t] + 1 <= f[u]
          BY <1>2, <3>1, <3>3, <5>2
        <5>4. PICK k \in 1..Len(c) : k < i + 1 /\ c[k][1] = u /\ c[k][2] = s[t] + 1
          BY <3>2, <5>3
        <5>5. k \in 2..Len(c)
          BY <1>1, <1>2, <5>2, <5>4
        <5>6. n < s[t] + 1
          BY <1>2, <1>5, <5>2, <5>4, <5>5
        <5>7. QED
          BY <1>2, <5>2, <5>6
      <4>4. j - 1 \in 1..Len(d) /\ j - 1 < i /\ d[j - 1] = c[j]
        <5>1. j - 1 \in 1..Len(d) /\ (j - 1) + 1 = j /\ j - 1 < i
          BY <1>1, <3>1, <4>2, <4>3
        <5>2. QED
          BY <1>1, <5>1
      <4>5. QED
        BY <4>2, <4>4
    <3>4. QED
      BY <3>2, <3>3
  <2>2. \A i \in 1..Len(d) : d[i][2] = 0 =>
          /\ f[d[i][1]] = p[d[i][1]] /\ pr[d[i][1]] = "gone"
          /\ \A n \in Nat : z[d[i][1]] < n /\ n <= f[d[i][1]] =>
               \E j \in 1..Len(d) : j < i /\ d[j][1] = d[i][1] /\ d[j][2] = n
    <3>1. SUFFICES ASSUME NEW i \in 1..Len(d), d[i][2] = 0
                   PROVE  /\ f[d[i][1]] = p[d[i][1]] /\ pr[d[i][1]] = "gone"
                          /\ \A n \in Nat : z[d[i][1]] < n /\ n <= f[d[i][1]] =>
                               \E j \in 1..Len(d) : j < i /\ d[j][1] = d[i][1] /\ d[j][2] = n
      OBVIOUS
    <3>2. i + 1 \in 1..Len(c) /\ d[i] = c[i + 1]
      BY <1>1
    <3>3. d[i][1] \in Tasks
      BY <1>3, <3>2
    <3>4. QED
      BY <2>1, <3>1, <3>3
  <2>3. QED
    BY <2>2 DEF Complete
<1>8. ASSUME Full(c, s, p) PROVE Full(d, z, p)
  <2>1. ASSUME NEW u \in Tasks, NEW n \in Nat, z[u] < n, n <= p[u]
        PROVE  \E j \in 1..Len(d) : d[j][1] = u /\ d[j][2] = n
    <3>1. s[u] < n
      BY <1>2, <1>5a, <2>1
    <3>2. PICK j \in 1..Len(c) : c[j][1] = u /\ c[j][2] = n
      BY <1>8, <2>1, <3>1 DEF Full
    <3>3. j # 1
      <4>1. SUFFICES ASSUME j = 1 PROVE FALSE
        OBVIOUS
      <4>2. u = t /\ c[1][2] = n /\ s[t] + 1 < n
        BY <1>2, <2>1, <3>2, <4>1
      <4>3. s[t] + 1 \in Nat /\ s[u] < s[t] + 1 /\ s[t] + 1 <= p[u]
        BY <1>2, <2>1, <4>2
      <4>4. PICK k \in 1..Len(c) : c[k][1] = u /\ c[k][2] = s[t] + 1
        BY <1>8, <4>3 DEF Full
      <4>5. k \in 2..Len(c)
        BY <1>1, <1>2, <4>2, <4>4
      <4>6. n < s[t] + 1
        BY <1>2, <1>5, <4>2, <4>4, <4>5
      <4>7. QED
        BY <1>2, <4>2, <4>6
    <3>4. j - 1 \in 1..Len(d) /\ (j - 1) + 1 = j
      BY <1>1, <3>3
    <3>5. QED
      BY <1>1, <3>2, <3>4
  <2>2. QED
    BY <2>1 DEF Full
<1>9. s[t] < p[t]
  BY <1>2, <1>4
<1>10. QED
  BY <1>6, <1>7, <1>8, <1>9 DEF d, z

LEMMA HeadIsExit ==
  ASSUME NEW c \in Seq(Item), c # <<>>, NEW t \in Tasks, c[1][1] = t, c[1][2] = 0, NEW pr,
         NEW s \in [Tasks -> Nat], NEW p \in [Tasks -> Nat], NEW f \in [Tasks -> Nat],
         s[t] <= p[t], InOrder(c, s, p), Complete(c, s, p, f, pr)
  PROVE  /\ InOrder(Tail(c), s, p) /\ Complete(Tail(c), s, p, f, pr)
         /\ Full(c, s, p) => Full(Tail(c), s, p)
<1> DEFINE d == Tail(c)
<1>1. /\ Len(c) \in Nat /\ Len(c) > 0 /\ Len(d) = Len(c) - 1
      /\ \A i \in 1..Len(d) : d[i] = c[i + 1]
  BY TailAt
<1> HIDE DEF d
<1>2. \A u \in Tasks : s[u] \in Nat /\ p[u] \in Nat /\ f[u] \in Nat
  OBVIOUS
<1>3. \A i \in 1..Len(c) : c[i][1] \in Tasks /\ c[i][2] \in Nat
  BY ItemAt
<1>4. \A j \in 1..Len(c) : j # 1 => j - 1 \in 1..Len(d) /\ d[j - 1] = c[j] /\ j - 1 < j
  <2>1. SUFFICES ASSUME NEW j \in 1..Len(c), j # 1
                 PROVE  j - 1 \in 1..Len(d) /\ d[j - 1] = c[j] /\ j - 1 < j
    OBVIOUS
  <2>2. j - 1 \in 1..Len(d) /\ (j - 1) + 1 = j /\ j - 1 < j
    BY <1>1, <2>1
  <2>3. QED
    BY <1>1, <2>2
<1>5. InOrder(d, s, p)
  <2>1. ASSUME NEW i \in 1..Len(d), d[i][2] > 0 PROVE s[d[i][1]] < d[i][2] /\ d[i][2] <= p[d[i][1]]
    <3>1. d[i] = c[i + 1] /\ i + 1 \in 1..Len(c)
      BY <1>1
    <3>2. QED
      BY <2>1, <3>1 DEF InOrder
  <2>2. ASSUME NEW i \in 1..Len(d), NEW j \in 1..Len(d), i < j, d[i][1] = d[j][1]
        PROVE  d[i][2] > 0 /\ (d[j][2] = 0 \/ d[i][2] < d[j][2])
    <3>1. i + 1 \in 1..Len(c) /\ j + 1 \in 1..Len(c) /\ i + 1 < j + 1
      BY <1>1, <2>2
    <3>2. d[i] = c[i + 1] /\ d[j] = c[j + 1]
      BY <1>1
    <3>3. c[i + 1][2] > 0 /\ (c[j + 1][2] = 0 \/ c[i + 1][2] < c[j + 1][2])
      BY <2>2, <3>1, <3>2 DEF InOrder
    <3>4. QED
      BY <3>2, <3>3
  <2>3. QED
    BY <2>1, <2>2 DEF InOrder
<1>6. Complete(d, s, p, f, pr)
  <2>1. ASSUME NEW i \in 1..Len(d), d[i][2] = 0, NEW u \in Tasks, u = d[i][1]
        PROVE  /\ f[u] = p[u] /\ pr[u] = "gone"
               /\ \A n \in Nat : s[u] < n /\ n <= f[u] =>
                    \E j \in 1..Len(d) : j < i /\ d[j][1] = u /\ d[j][2] = n
    <3>1. d[i] = c[i + 1] /\ i + 1 \in 1..Len(c) /\ u \in Tasks /\ i \in Nat
      BY <1>1, <1>3, <2>1
    <3>2. /\ f[u] = p[u] /\ pr[u] = "gone"
          /\ \A n \in Nat : s[u] < n /\ n <= f[u] =>
               \E j \in 1..Len(c) : j < i + 1 /\ c[j][1] = u /\ c[j][2] = n
      <4>1. c[i + 1][2] = 0 /\ c[i + 1][1] = u
        BY <2>1, <3>1
      <4>2. QED
        BY <3>1, <4>1 DEF Complete
    <3>3. ASSUME NEW n \in Nat, s[u] < n, n <= f[u]
          PROVE  \E j \in 1..Len(d) : j < i /\ d[j][1] = u /\ d[j][2] = n
      <4>1. PICK j \in 1..Len(c) : j < i + 1 /\ c[j][1] = u /\ c[j][2] = n
        BY <3>2, <3>3
      <4>2. j # 1
        BY <1>2, <3>1, <3>3, <4>1
      <4>3. j - 1 \in 1..Len(d) /\ d[j - 1] = c[j] /\ j - 1 < i
        BY <1>4, <3>1, <4>1, <4>2
      <4>4. QED
        BY <4>1, <4>3
    <3>4. QED
      BY <3>2, <3>3
  <2>2. \A i \in 1..Len(d) : d[i][2] = 0 =>
          /\ f[d[i][1]] = p[d[i][1]] /\ pr[d[i][1]] = "gone"
          /\ \A n \in Nat : s[d[i][1]] < n /\ n <= f[d[i][1]] =>
               \E j \in 1..Len(d) : j < i /\ d[j][1] = d[i][1] /\ d[j][2] = n
    <3>1. SUFFICES ASSUME NEW i \in 1..Len(d), d[i][2] = 0
                   PROVE  /\ f[d[i][1]] = p[d[i][1]] /\ pr[d[i][1]] = "gone"
                          /\ \A n \in Nat : s[d[i][1]] < n /\ n <= f[d[i][1]] =>
                               \E j \in 1..Len(d) : j < i /\ d[j][1] = d[i][1] /\ d[j][2] = n
      OBVIOUS
    <3>2. i + 1 \in 1..Len(c) /\ d[i] = c[i + 1]
      BY <1>1
    <3>3. d[i][1] \in Tasks
      BY <1>3, <3>2
    <3>4. QED
      BY <2>1, <3>1, <3>3
  <2>3. QED
    BY <2>2 DEF Complete
<1>7. ASSUME Full(c, s, p) PROVE Full(d, s, p)
  <2>1. ASSUME NEW u \in Tasks, NEW n \in Nat, s[u] < n, n <= p[u]
        PROVE  \E j \in 1..Len(d) : d[j][1] = u /\ d[j][2] = n
    <3>1. PICK j \in 1..Len(c) : c[j][1] = u /\ c[j][2] = n
      BY <1>7, <2>1 DEF Full
    <3>2. j # 1
      BY <1>2, <2>1, <3>1
    <3>3. QED
      BY <1>4, <3>1, <3>2
  <2>2. QED
    BY <2>1 DEF Full
<1>8. QED
  BY <1>5, <1>6, <1>7 DEF d

Passing == \A t \in Tasks : seen[t] <= passed[t] /\ passed[t] <= fired[t]

AnswersOK ==
  /\ EventsFirst
  /\ Passing
  /\ server # "dead" =>
       /\ InOrder(Chan, seen, passed) /\ Complete(Chan, seen, passed, fired, proc)
       /\ pc # "dead" => Full(Chan, seen, passed)
  /\ pc = "close" => proc[reaped] = "gone" /\ (server # "dead" => NoExit(Chan, reaped))

\* A step that says nothing and fires nothing for a task that has gone
LEMMA AnswersKept ==
  ASSUME AnswersOK, QueueTypes, StateTypes, fired' \in [Tasks -> Nat],
         server' # "dead" => server # "dead" /\ Chan' = Chan,
         pc' # "dead" => pc # "dead",
         UNCHANGED <<seen, answered, passed>>,
         \A t \in Tasks : fired[t] <= fired'[t],
         \A t \in Tasks : proc[t] = "gone" => proc'[t] = "gone" /\ fired'[t] = fired[t],
         pc' = "close" => proc'[reaped'] = "gone" /\ (server # "dead" => NoExit(Chan, reaped'))
  PROVE  AnswersOK'
<1>1. EventsFirst'
  BY DEF AnswersOK, EventsFirst, StateTypes
<1>2. Passing'
  BY DEF AnswersOK, Passing, StateTypes
<1>3. ASSUME server' # "dead"
      PROVE  /\ InOrder(Chan, seen, passed) /\ Complete(Chan, seen, passed, fired', proc')
             /\ pc' # "dead" => Full(Chan, seen, passed)
  <2>1. /\ InOrder(Chan, seen, passed) /\ Complete(Chan, seen, passed, fired, proc)
        /\ pc' # "dead" => Full(Chan, seen, passed)
    BY <1>3 DEF AnswersOK
  <2>2. \A i \in 1..Len(Chan) : Chan[i][1] \in Tasks
    <3>1. Chan \in Seq(Item)
      BY ConcatProperties DEF Chan, QueueTypes
    <3>2. QED
      BY <3>1, ItemAt
  <2>3. \A i \in 1..Len(Chan) : Chan[i][2] = 0 =>
          proc'[Chan[i][1]] = "gone" /\ fired'[Chan[i][1]] = fired[Chan[i][1]]
    BY <2>1, <2>2 DEF Complete
  <2>4. Complete(Chan, seen, passed, fired', proc')
    BY <2>1, <2>3 DEF Complete
  <2>5. QED
    BY <2>1, <2>4
<1>4. QED
  BY <1>1, <1>2, <1>3 DEF AnswersOK

LEMMA ReadAnswers ==
  ASSUME TypeOK, AnswersOK, Read
  PROVE  AnswersOK'
<1> DEFINE t == Head(stdout)[1]
<1>1. /\ stdout # <<>> /\ stdout' = Tail(stdout) /\ server \in {"build", "teardown"}
      /\ UNCHANGED <<server, pc, reaped, proc, fired, passed, out>>
  BY DEF Read, main, tasks
<1>2. QueueTypes /\ StateTypes /\ stdout \in Seq(Item) /\ out \in Seq(Item)
  BY TypeParts DEF QueueTypes
<1>3. /\ Chan \in Seq(Item) /\ Chan # <<>> /\ Chan[1] = Head(stdout) /\ Chan' = Tail(Chan)
      /\ Chan[1][1] \in Tasks
  <2>1. /\ Tail(stdout) \o out = Tail(stdout \o out)
        /\ Head(stdout) = Head(stdout \o out) /\ stdout \o out # <<>>
    BY <1>1, <1>2, TailLeft
  <2>2. Chan \in Seq(Item)
    BY <1>2, ConcatProperties DEF Chan
  <2>3. Chan # <<>> /\ Head(stdout) = Head(Chan) /\ Chan' = Tail(Chan)
    BY <1>1, <2>1 DEF Chan
  <2>4. Head(Chan) = Chan[1] /\ 1 \in 1..Len(Chan)
    BY <2>2, <2>3, TailAt
  <2>5. QED
    BY <2>2, <2>3, <2>4, ItemAt
<1>4. t \in Tasks /\ Chan[1][1] = t
  BY <1>3
<1>5. /\ InOrder(Chan, seen, passed) /\ Complete(Chan, seen, passed, fired, proc)
      /\ pc # "dead" => Full(Chan, seen, passed)
      /\ seen[t] <= passed[t] /\ passed[t] <= fired[t]
  BY <1>1, <1>4 DEF AnswersOK, Passing
<1>6. /\ seen \in [Tasks -> Nat] /\ passed \in [Tasks -> Nat] /\ fired \in [Tasks -> Nat]
      /\ answered \subseteq Tasks
  BY <1>2 DEF StateTypes
<1>7. ASSUME NEW u, NoExit(Chan, u) PROVE NoExit(Chan', u)
  BY <1>3, <1>7, TailAt DEF NoExit
<1>8. CASE Head(stdout)[2] = 0
  <2>1. seen' = seen /\ answered' = answered \cup {t}
    BY <1>8 DEF Read
  <2>2. Chan[1][2] = 0
    BY <1>3, <1>8
  <2> HIDE DEF t
  <2>3. /\ InOrder(Tail(Chan), seen, passed) /\ Complete(Tail(Chan), seen, passed, fired, proc)
        /\ Full(Chan, seen, passed) => Full(Tail(Chan), seen, passed)
        /\ seen[t] = fired[t] /\ proc[t] = "gone"
    <3>1. /\ Chan \in Seq(Item) /\ Chan # <<>> /\ t \in Tasks /\ Chan[1][1] = t /\ Chan[1][2] = 0
          /\ seen \in [Tasks -> Nat] /\ passed \in [Tasks -> Nat] /\ fired \in [Tasks -> Nat]
          /\ seen[t] <= passed[t]
          /\ InOrder(Chan, seen, passed) /\ Complete(Chan, seen, passed, fired, proc)
      BY <1>3, <1>4, <1>5, <1>6, <2>2
    <3>2. InOrder(Tail(Chan), seen, passed)
      BY <3>1, HeadIsExit
    <3>3. Complete(Tail(Chan), seen, passed, fired, proc)
      BY <3>1, HeadIsExit
    <3>4. Full(Chan, seen, passed) => Full(Tail(Chan), seen, passed)
      BY <3>1, HeadIsExit
    <3>5. seen[t] = fired[t] /\ proc[t] = "gone"
      <4>1. 1 \in 1..Len(Chan)
        BY <1>3, TailAt
      <4>2. /\ fired[t] = passed[t] /\ proc[t] = "gone"
            /\ \A n \in Nat : seen[t] < n /\ n <= fired[t] =>
                 \E j \in 1..Len(Chan) : j < 1 /\ Chan[j][1] = t /\ Chan[j][2] = n
        BY <3>1, <4>1 DEF Complete
      <4>3. \A n \in Nat : ~(seen[t] < n /\ n <= fired[t])
        BY <4>2
      <4>4. seen[t] \in Nat /\ passed[t] \in Nat /\ fired[t] \in Nat
        BY <3>1
      <4>5. ~(seen[t] < fired[t] /\ fired[t] <= fired[t])
        BY <4>3, <4>4
      <4>6. seen[t] <= passed[t]
        BY <3>1
      <4>7. seen[t] = fired[t]
        BY <4>2, <4>4, <4>5, <4>6
      <4>8. QED
        BY <4>2, <4>7
    <3>6. QED
      BY <3>2, <3>3, <3>4, <3>5
  <2>4. EventsFirst'
    BY <1>1, <2>1, <2>3 DEF AnswersOK, EventsFirst
  <2>5. Passing'
    BY <1>1, <2>1 DEF AnswersOK, Passing
  <2>6. QED
    BY <1>1, <1>3, <1>5, <1>7, <2>1, <2>3, <2>4, <2>5 DEF AnswersOK
<1>9. CASE Head(stdout)[2] # 0
  <2>1. seen' = [seen EXCEPT ![t] = seen[t] + 1] /\ answered' = answered
    BY <1>9 DEF Read
  <2>2. Chan[1][2] # 0
    BY <1>3, <1>9
  <2> HIDE DEF t
  <2>3. /\ InOrder(Tail(Chan), seen', passed) /\ Complete(Tail(Chan), seen', passed, fired, proc)
        /\ Full(Chan, seen, passed) => Full(Tail(Chan), seen', passed)
        /\ seen[t] < passed[t]
    BY <1>3, <1>4, <1>5, <1>6, <2>1, <2>2, HeadIsEvent
  <2>4. EventsFirst'
    <3>1. t \notin answered
      BY <1>4, <1>5, <1>6, <2>3 DEF AnswersOK, EventsFirst
    <3>2. \A u \in Tasks : u # t => seen'[u] = seen[u]
      BY <1>6, <2>1
    <3>3. QED
      BY <1>1, <1>6, <2>1, <3>1, <3>2 DEF AnswersOK, EventsFirst
  <2>5. Passing'
    <3>1. SUFFICES ASSUME NEW u \in Tasks PROVE seen'[u] <= passed[u] /\ passed[u] <= fired[u]
      BY <1>1 DEF Passing
    <3>2. CASE u = t
      BY <1>4, <1>5, <1>6, <2>1, <2>3, <3>2
    <3>3. CASE u # t
      BY <1>6, <2>1, <3>3 DEF AnswersOK, Passing
    <3>4. QED
      BY <3>2, <3>3
  <2>6. QED
    BY <1>1, <1>3, <1>5, <1>7, <2>3, <2>4, <2>5 DEF AnswersOK
<1>10. QED
  BY <1>8, <1>9

LEMMA ForwardAnswers ==
  ASSUME TypeOK, AnswersOK, NEW t \in Tasks, Forward(t)
  PROVE  AnswersOK'
<1>1. /\ passed' = [passed EXCEPT ![t] = passed[t] + 1] /\ out' = Append(out, <<t, passed[t] + 1>>)
      /\ UNCHANGED <<server, seen, answered, stdout, pc, reaped, proc, fired>>
      /\ fired[t] > passed[t] /\ pc # "dead"
  BY DEF Forward, Unread, upper, main
<1>2. QueueTypes /\ StateTypes /\ stdout \in Seq(Item) /\ out \in Seq(Item) /\ <<t, passed[t] + 1>> \in Item
  BY TypeParts, ForwardTypes DEF QueueTypes
<1>3. Chan' = Append(Chan, <<t, passed[t] + 1>>) /\ Chan \in Seq(Item)
  <2>1. stdout \o Append(out, <<t, passed[t] + 1>>) = Append(stdout \o out, <<t, passed[t] + 1>>)
    BY <1>2, AppendRight
  <2>2. QED
    BY <1>1, <1>2, <2>1, ConcatProperties DEF Chan
<1>4. /\ seen \in [Tasks -> Nat] /\ passed \in [Tasks -> Nat] /\ fired \in [Tasks -> Nat]
      /\ answered \subseteq Tasks /\ (pc = "close" => reaped \in Tasks)
  BY <1>2 DEF StateTypes
<1>5. EventsFirst'
  BY <1>1 DEF AnswersOK, EventsFirst
<1>6. Passing'
  <2>1. SUFFICES ASSUME NEW u \in Tasks PROVE seen[u] <= passed'[u] /\ passed'[u] <= fired[u]
    BY <1>1 DEF Passing
  <2>2. seen[u] <= passed[u] /\ passed[u] <= fired[u]
    BY DEF AnswersOK, Passing
  <2>3. CASE u = t
    BY <1>1, <1>4, <2>2, <2>3
  <2>4. CASE u # t
    BY <1>1, <1>4, <2>2, <2>4
  <2>5. QED
    BY <2>3, <2>4
<1>7. ASSUME server # "dead"
      PROVE  /\ InOrder(Chan', seen, passed') /\ Complete(Chan', seen, passed', fired, proc)
             /\ Full(Chan', seen, passed')
             /\ \A u \in Tasks : NoExit(Chan, u) => NoExit(Chan', u)
  <2>1. /\ InOrder(Chan, seen, passed) /\ Complete(Chan, seen, passed, fired, proc)
        /\ Full(Chan, seen, passed) /\ seen[t] <= passed[t] /\ passed[t] < fired[t]
    BY <1>1, <1>4, <1>7 DEF AnswersOK, Passing
  <2>2. QED
    BY <1>1, <1>3, <1>4, <2>1, SaysEvent
<1>8. QED
  BY <1>1, <1>4, <1>5, <1>6, <1>7 DEF AnswersOK

LEMMA ReportAnswers ==
  ASSUME TypeOK, AnswersOK, Report
  PROVE  AnswersOK'
<1> DEFINE t == reaped
<1>1. /\ pc = "close" /\ ~(fired[t] > passed[t]) /\ out' = Append(out, <<t, 0>>) /\ pc' = "reap"
      /\ UNCHANGED <<server, seen, answered, stdout, proc, fired, passed>>
  BY DEF Report, Unread, upper, tasks
<1>2. /\ QueueTypes /\ StateTypes /\ stdout \in Seq(Item) /\ out \in Seq(Item)
      /\ t \in Tasks /\ <<t, 0>> \in Item
  BY TypeParts, ReportTypes DEF QueueTypes
<1> HIDE DEF t
<1>3. Chan' = Append(Chan, <<t, 0>>) /\ Chan \in Seq(Item)
  <2>1. stdout \o Append(out, <<t, 0>>) = Append(stdout \o out, <<t, 0>>)
    BY <1>2, AppendRight
  <2>2. QED
    BY <1>1, <1>2, <2>1, ConcatProperties DEF Chan
<1>4. seen \in [Tasks -> Nat] /\ passed \in [Tasks -> Nat] /\ fired \in [Tasks -> Nat]
  BY <1>2 DEF StateTypes
<1>5. EventsFirst' /\ Passing'
  BY <1>1 DEF AnswersOK, EventsFirst, Passing
<1>6. ASSUME server # "dead"
      PROVE  /\ InOrder(Chan', seen, passed) /\ Complete(Chan', seen, passed, fired, proc)
             /\ Full(Chan', seen, passed)
  <2>1. /\ InOrder(Chan, seen, passed) /\ Complete(Chan, seen, passed, fired, proc)
        /\ Full(Chan, seen, passed) /\ proc[t] = "gone" /\ NoExit(Chan, t)
    BY <1>1, <1>6 DEF AnswersOK, t
  <2>2. fired[t] = passed[t]
    BY <1>1, <1>2, <1>4 DEF AnswersOK, Passing
  <2>3. QED
    BY <1>2, <1>3, <1>4, <2>1, <2>2, SaysExit
<1>7. QED
  BY <1>1, <1>5, <1>6 DEF AnswersOK

\* What was in the queue of a worker that ends is lost: what is left is cut off at an end.
LEMMA EndsAnswers ==
  ASSUME TypeOK, AnswersOK, Ends
  PROVE  AnswersOK'
<1>1. /\ pc' = "dead" /\ out' = <<>>
      /\ UNCHANGED <<server, seen, answered, stdout, fired, passed>>
      /\ \A t \in Tasks : proc[t] = "gone" => proc'[t] = "gone"
  BY DEF Ends, upper
<1>2. QueueTypes /\ StateTypes /\ stdout \in Seq(Item) /\ out \in Seq(Item)
  BY TypeParts DEF QueueTypes
<1>3. Chan' = stdout
  BY <1>1, <1>2, ConcatEmptySeq DEF Chan
<1>4. /\ Len(stdout) \in Nat /\ Len(Chan) \in Nat /\ Len(stdout) <= Len(Chan)
      /\ \A i \in 1..Len(stdout) : i \in 1..Len(Chan) /\ Chan[i] = stdout[i]
  BY <1>2, ConcatProperties, LenProperties DEF Chan
<1>5. EventsFirst' /\ Passing'
  <2>1. answered \subseteq Tasks
    BY <1>2 DEF StateTypes
  <2>2. QED
    BY <1>1, <2>1 DEF AnswersOK, EventsFirst, Passing
<1>6. ASSUME server # "dead"
      PROVE  InOrder(stdout, seen, passed) /\ Complete(stdout, seen, passed, fired, proc')
  <2>1. InOrder(Chan, seen, passed) /\ Complete(Chan, seen, passed, fired, proc)
    BY <1>6 DEF AnswersOK
  <2>2. InOrder(stdout, seen, passed)
    BY <1>4, <2>1 DEF InOrder
  <2>3. ASSUME NEW i \in 1..Len(stdout), stdout[i][2] = 0, NEW t \in Tasks, t = stdout[i][1]
        PROVE  /\ fired[t] = passed[t] /\ proc'[t] = "gone"
               /\ \A n \in Nat : seen[t] < n /\ n <= fired[t] =>
                    \E j \in 1..Len(stdout) : j < i /\ stdout[j][1] = t /\ stdout[j][2] = n
    <3>1. i \in 1..Len(Chan) /\ Chan[i] = stdout[i]
      BY <1>4
    <3>2. /\ fired[t] = passed[t] /\ proc[t] = "gone"
          /\ \A n \in Nat : seen[t] < n /\ n <= fired[t] =>
               \E j \in 1..Len(Chan) : j < i /\ Chan[j][1] = t /\ Chan[j][2] = n
      BY <2>1, <2>3, <3>1 DEF Complete
    <3>3. \A j \in 1..Len(Chan) : j < i => j \in 1..Len(stdout)
      BY <1>4
    <3>4. QED
      BY <1>1, <1>4, <3>2, <3>3
  <2>4. Complete(stdout, seen, passed, fired, proc')
    <3>1. \A i \in 1..Len(stdout) : stdout[i][1] \in Tasks
      BY <1>2, ItemAt
    <3>2. \A i \in 1..Len(stdout) : stdout[i][2] = 0 =>
            /\ fired[stdout[i][1]] = passed[stdout[i][1]] /\ proc'[stdout[i][1]] = "gone"
            /\ \A n \in Nat : seen[stdout[i][1]] < n /\ n <= fired[stdout[i][1]] =>
                 \E j \in 1..Len(stdout) : j < i /\ stdout[j][1] = stdout[i][1] /\ stdout[j][2] = n
      BY <2>3, <3>1
    <3>3. QED
      BY <3>2 DEF Complete
  <2>5. QED
    BY <2>2, <2>4
<1>7. QED
  BY <1>1, <1>3, <1>5, <1>6 DEF AnswersOK

LEMMA WaitPidAnswers ==
  ASSUME TypeOK, AnswersOK, WaitPid
  PROVE  AnswersOK'
<1>1. QueueTypes /\ StateTypes /\ Chan' = Chan
  BY TypeParts DEF WaitPid, Chan
<1>2. UNCHANGED <<server, seen, answered, fired, passed>> /\ pc # "dead"
  BY DEF WaitPid, upper
<1>3. \A t \in Tasks : proc[t] = "gone" => proc'[t] = "gone"
  BY <1>1 DEF WaitPid, StateTypes
<1>4. pc' = "close" => proc'[reaped'] = "gone" /\ (server # "dead" => NoExit(Chan, reaped'))
  <2>1. SUFFICES ASSUME pc' = "close" PROVE proc'[reaped'] = "gone" /\ (server # "dead" => NoExit(Chan, reaped'))
    OBVIOUS
  <2>2. PICK t \in Tasks : proc[t] = "exited" /\ proc' = [proc EXCEPT ![t] = "gone"] /\ reaped' = t
    BY <2>1 DEF WaitPid, Exited
  <2>3. proc'[t] = "gone"
    BY <1>1, <2>2 DEF StateTypes
  <2>4. ASSUME server # "dead" PROVE NoExit(Chan, t)
    <3>1. Chan \in Seq(Item) /\ Complete(Chan, seen, passed, fired, proc)
      BY <1>1, <2>4, ConcatProperties DEF AnswersOK, Chan, QueueTypes
    <3>2. \A i \in 1..Len(Chan) : Chan[i][2] = 0 => proc[Chan[i][1]] = "gone"
      BY <3>1 DEF Complete
    <3>3. QED
      BY <2>2, <3>1, <3>2, ItemAt DEF NoExit
  <2>5. QED
    BY <2>2, <2>3, <2>4
<1>5. fired' \in [Tasks -> Nat] /\ \A t \in Tasks : fired[t] <= fired'[t] /\ fired'[t] = fired[t]
  BY <1>1, <1>2 DEF StateTypes
<1>6. QED
  BY <1>1, <1>2, <1>3, <1>4, <1>5, AnswersKept

\* The steps that say nothing
LEMMA QuietAnswers ==
  ASSUME TypeOK, CommandsOK, AnswersOK,
         \/ \E t \in Tasks : SendTask(t)
         \/ SendHashes \/ Teardown \/ Write \/ WorkerGone \/ TornDown \/ KillServer
         \/ Select \/ Items \/ PipesRead \/ Sigterm \/ Flush
         \/ \E t \in Tasks : FinishTask(t)
         \/ \E t \in Tasks : Task(t)
  PROVE  AnswersOK'
<1> USE DEF upper, main, tasks
<1>1. QueueTypes /\ StateTypes
  BY TypeParts
<1>2. UNCHANGED <<seen, answered, passed>>
  BY DEF SendTask, SendHashes, Teardown, Write, WorkerGone, TornDown, KillServer, Select, Items,
         HandleNewTaskHashes, HandleRunTask, HandleFinishNow, HandleQuit, PickleFails, ItemsDone,
         PipesRead, Sigterm, Flush, FinishTask, Task, StartsUp, Fires, Exits
<1>3. /\ server' # "dead" => server # "dead" /\ Chan' = Chan
      /\ pc' # "dead" => pc # "dead"
  <2>1. CASE Flush
    <3>1. out # <<>> /\ stdout' = Append(stdout, Head(out)) /\ out' = Tail(out) /\ UNCHANGED <<server, pc>>
      BY <2>1 DEF Flush
    <3>2. stdout \in Seq(Item) /\ out \in Seq(Item)
      BY <1>1 DEF QueueTypes
    <3>3. stdout' \o out' = stdout \o out
      BY <3>1, <3>2, MoveHead
    <3>4. QED
      BY <3>1, <3>3 DEF Chan
  <2>2. CASE KillServer
    BY <2>2 DEF KillServer
  <2>3. CASE \/ \E t \in Tasks : SendTask(t)
             \/ SendHashes \/ Teardown \/ Write \/ WorkerGone \/ TornDown
             \/ Select \/ Items \/ PipesRead \/ Sigterm
             \/ \E t \in Tasks : FinishTask(t)
             \/ \E t \in Tasks : Task(t)
    <3>1. UNCHANGED <<stdout, out>>
      BY <2>3 DEF SendTask, SendHashes, Teardown, Write, WorkerGone, TornDown, Select, Items,
         HandleNewTaskHashes, HandleRunTask, HandleFinishNow, HandleQuit, PickleFails, ItemsDone,
         PipesRead, Sigterm, FinishTask, Task, StartsUp, Fires, Exits
    <3>2. server' # "dead" => server # "dead"
      BY <2>3 DEF SendTask, SendHashes, Teardown, Write, WorkerGone, TornDown, Select, Items,
         HandleNewTaskHashes, HandleRunTask, HandleFinishNow, HandleQuit, PickleFails, ItemsDone,
         PipesRead, Sigterm, FinishTask, Task, StartsUp, Fires, Exits, Idle
    <3>3. pc' # "dead" => pc # "dead"
      BY <2>3 DEF SendTask, SendHashes, Teardown, Write, WorkerGone, TornDown, Select, Items, Handles,
         HandleNewTaskHashes, HandleRunTask, HandleFinishNow, HandleQuit, PickleFails, ItemsDone,
         PipesRead, Sigterm, FinishTask, Task, StartsUp, Fires, Exits
    <3>4. QED
      BY <3>1, <3>2, <3>3 DEF Chan
  <2>4. QED
    BY <2>1, <2>2, <2>3
<1>4. /\ fired' \in [Tasks -> Nat]
      /\ \A t \in Tasks : fired[t] <= fired'[t]
      /\ \A t \in Tasks : proc[t] = "gone" => fired'[t] = fired[t]
  <2>1. CASE UNCHANGED fired
    BY <1>1, <2>1 DEF StateTypes
  <2>2. ASSUME NEW t \in Tasks, Fires(t)
        PROVE  /\ fired' \in [Tasks -> Nat]
               /\ \A u \in Tasks : fired[u] <= fired'[u]
               /\ \A u \in Tasks : proc[u] = "gone" => fired'[u] = fired[u]
    <3>1. proc[t] = "running" /\ fired' = [fired EXCEPT ![t] = fired[t] + 1]
      BY <2>2 DEF Fires
    <3>2. QED
      BY <1>1, <3>1 DEF StateTypes
  <2>3. QED
    BY <2>1, <2>2
       DEF SendTask, SendHashes, Teardown, Write, WorkerGone, TornDown, KillServer, Select, Items,
           HandleNewTaskHashes, HandleRunTask, HandleFinishNow, HandleQuit, PickleFails, ItemsDone,
           PipesRead, Sigterm, Flush, FinishTask, Task, StartsUp, Exits
<1>5. \A t \in Tasks : proc[t] = "gone" => proc'[t] = "gone"
  <2>1. CASE UNCHANGED proc
    BY <2>1
  <2>2. CASE HandleRunTask
    <3>1. /\ Head(queue).task \in Tasks /\ proc[Head(queue).task] = "none"
          /\ proc' = [proc EXCEPT ![Head(queue).task] = "forked"]
      BY <2>2, CommandsRun DEF HandleRunTask
    <3>2. QED
      BY <1>1, <3>1 DEF StateTypes
  <2>3. ASSUME NEW t \in Tasks, FinishTask(t) PROVE \A u \in Tasks : proc[u] = "gone" => proc'[u] = "gone"
    BY <1>1, <2>3 DEF FinishTask, Exited, Signalled, StateTypes
  <2>4. ASSUME NEW t \in Tasks, Task(t) PROVE \A u \in Tasks : proc[u] = "gone" => proc'[u] = "gone"
    BY <1>1, <2>4 DEF Task, StartsUp, Fires, Exits, Move, StateTypes
  <2>5. QED
    BY <2>1, <2>2, <2>3, <2>4
       DEF SendTask, SendHashes, Teardown, Write, WorkerGone, TornDown, KillServer, Select, Items,
           HandleNewTaskHashes, HandleFinishNow, HandleQuit, PickleFails, ItemsDone,
           PipesRead, Sigterm, Flush
<1>6. pc' = "close" => pc = "close" /\ reaped' = reaped
  BY DEF SendTask, SendHashes, Teardown, Write, WorkerGone, TornDown, KillServer, Select, Items,
         HandleNewTaskHashes, HandleRunTask, HandleFinishNow, HandleQuit, PickleFails, ItemsDone,
         Handles, PipesRead, Sigterm, Flush, FinishTask, Task, StartsUp, Fires, Exits
<1>7. pc' = "close" => proc'[reaped'] = "gone" /\ (server # "dead" => NoExit(Chan, reaped'))
  BY <1>1, <1>5, <1>6 DEF AnswersOK, StateTypes
<1>8. QED
  BY <1>1, <1>2, <1>3, <1>4, <1>5, <1>7, AnswersKept

(* The theorems *)

Inductive == TypeOK /\ CommandsOK /\ AnswersOK

LEMMA InductiveInit == Init => Inductive
<1> SUFFICES ASSUME Init PROVE Inductive
  OBVIOUS
<1>1. Commands = <<>> /\ Chan = <<>>
  BY DEF Init, Commands, Chan
<1>2. CommandsOK
  BY <1>1 DEF Init, CommandsOK, RunsOK, Brings
<1>3. EventsFirst /\ Passing
  BY DEF Init, EventsFirst, Passing
<1>4. InOrder(Chan, seen, passed) /\ Complete(Chan, seen, passed, fired, proc)
  BY <1>1 DEF InOrder, Complete
<1>5. Full(Chan, seen, passed)
  BY DEF Full, Init
<1>6. pc # "close"
  BY DEF Init
<1>7. QED
  BY <1>2, <1>3, <1>4, <1>5, <1>6, TypeInit DEF Inductive, AnswersOK

LEMMA InductiveNext == Inductive /\ [Next]_vars => Inductive'
<1> SUFFICES ASSUME TypeOK, CommandsOK, AnswersOK, [Next]_vars PROVE Inductive'
  BY DEF Inductive
<1>1. TypeOK'
  BY TypeNext
<1>2. CASE UNCHANGED vars
  BY <1>1, <1>2
     DEF Inductive, CommandsOK, AnswersOK, EventsFirst, Passing, Commands, Chan, vars, upper, main, tasks
<1>3. CASE Next
  <2>1. CommandsOK'
    BY <1>3, CommandsServer, CommandsServe DEF Next, Step
  <2>2. AnswersOK'
    BY <1>3, ReadAnswers, ForwardAnswers, ReportAnswers, EndsAnswers, WaitPidAnswers, QuietAnswers
       DEF Next, Step, Serve, Leaves, Dies, KillWorker
  <2>3. QED
    BY <1>1, <2>1, <2>2 DEF Inductive
<1>4. QED
  BY <1>2, <1>3

LEMMA InductiveAlways == Spec => []Inductive
BY InductiveInit, InductiveNext, PTL DEF Spec

\* The state is well typed, for any tasks, and build_pids never holds a process that was waited for
\* and is about to be reported.
THEOREM TypeCorrect == Spec => []TypeOK
BY InductiveAlways, PTL DEF Inductive

\* Whatever the sizes of the pipes and whenever something is killed, the server that reads an exit code
\* has read every event of the task.
THEOREM EventsFirstAlways == Spec => []EventsFirst
BY InductiveAlways, PTL DEF Inductive, AnswersOK

LEMMA StepHashesInOrder ==
  ASSUME Inductive, [Next]_vars
  PROVE  [\A t \in Tasks : proc[t] = "none" /\ proc'[t] # "none" => has = sent[t]]_vars
<1>1. TypeOK /\ CommandsOK
  BY DEF Inductive
<1>2. CASE UNCHANGED vars
  BY <1>2
<1>3. CASE HandleRunTask
  <2>1. /\ Head(queue).task \in Tasks /\ sent[Head(queue).task] = has
        /\ proc' = [proc EXCEPT ![Head(queue).task] = "forked"]
    BY <1>1, <1>3, CommandsRun DEF HandleRunTask
  <2>2. QED
    BY <1>1, <2>1 DEF TypeOK
<1>4. CASE \A t \in Tasks : proc[t] = "none" <=> proc'[t] = "none"
  BY <1>4
<1>5. QED
  <2>1. CASE Serve \/ Flush \/ KillWorker \/ Sigterm \/ \E t \in Tasks : Task(t)
    BY <1>1, <1>3, <1>4, <2>1, NoneStays DEF Serve, Items
  <2>2. CASE \/ \E t \in Tasks : SendTask(t)
             \/ SendHashes \/ Teardown \/ Write \/ WorkerGone \/ Read \/ TornDown \/ KillServer
    <3>1. UNCHANGED proc
      BY <2>2 DEF SendTask, SendHashes, Teardown, Write, WorkerGone, Read, TornDown, KillServer, tasks
    <3>2. QED
      BY <1>4, <3>1
  <2>3. QED
    BY <1>2, <2>1, <2>2 DEF Next, Step

\* Every task is forked with exactly the hashes the server had when it sent it, however its commands were
\* cut into pieces.
THEOREM HashesInOrderAlways == Spec => HashesInOrder
<1>1. Inductive /\ [Next]_vars => [\A t \in Tasks : proc[t] = "none" /\ proc'[t] # "none" => has = sent[t]]_vars
  BY StepHashesInOrder
<1>2. QED
  BY <1>1, InductiveAlways, PTL DEF Spec, HashesInOrder

=============================================================================
