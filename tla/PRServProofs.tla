---------------------------- MODULE PRServProofs ----------------------------
(* What PRServ promises, proved for any number of daemons, ports, checksums *)
(* and kills, and for values without a bound.                               *)
EXTENDS PRServ, TLAPS

-----------------------------------------------------------------------------
(* Types *)

\* A read-only daemon only looks up: it has nothing to insert and nothing to commit
ReadersRead == \A d \in ReadOnly : /\ ~dirty[d]
                                   /\ job[d] # None => job[d].step = "lookup"

LEMMA TableType == TypeOK => Table \subseteq Row
  BY DEF TypeOK, Table

LEMMA NextValueType ==
  ASSUME NEW rows \in SUBSET Row, NEW v \in NextValue(rows)
  PROVE  /\ v \in Nat
         /\ \A r \in rows : r.value < v
  BY DEF NextValue, Top, Row

LEMMA ReplaceType ==
  ASSUME NEW rows \in SUBSET Row, NEW c \in Checksums, NEW v \in Nat
  PROVE  Replace(rows, c, v) \subseteq Row
  BY DEF Replace, Row

LEMMA ImportType ==
  ASSUME NEW rows \in SUBSET Row, NEW c \in Checksums, NEW v \in Nat
  PROVE  Import(rows, c, v) \subseteq Row
  BY ReplaceType DEF Import

\* The value that is told last is that of one of the rows told
LEMMA TellLast ==
  ASSUME NEW d, d \notin ReadOnly, NEW rows \in SUBSET Row, rows # {}, Tell(d, rows)
  PROVE  \E r \in rows : last' = r.value
  BY DEF Tell

LEMMA TellType ==
  ASSUME TypeOK, NEW d \in Daemons, NEW rows \in SUBSET Row, Tell(d, rows)
  PROVE  given' \subseteq Row /\ risk' \subseteq Row /\ last' \in Nat
<1>1. given' \subseteq Row /\ risk' \subseteq Row
  BY DEF Tell, TypeOK
<1>2. CASE d \in ReadOnly \/ rows = {}
  BY <1>1, <1>2 DEF Tell, TypeOK
<1>3. CASE d \notin ReadOnly /\ rows # {}
  BY <1>1, <1>3, TellLast DEF Row
<1> QED  BY <1>2, <1>3

LEMMA ReplyType ==
  ASSUME TypeOK, NEW d \in Daemons, job[d] # None, NEW b \in BOOLEAN, Reply(d, b)
  PROVE  /\ job' \in [Daemons -> Job \cup {None}]
         /\ life' \in [Daemons -> Lives] /\ kills' \in Nat
<1>1. job[d] \in Job /\ [job[d] EXCEPT !.step = "commit"] \in Job
  BY DEF TypeOK, Job, Steps
<1> QED  BY <1>1 DEF Reply, TypeOK, daemon

LEMMA JobRequest ==
  ASSUME TypeOK, NEW d \in Daemons, job[d] # None, job[d].step \in {"lookup", "insert"}
  PROVE  job[d].req \in Request /\ job[d].req.checksum \in Checksums /\ job[d].req.value \in Nat
<1>1. job[d].req \in Request
  BY DEF TypeOK, Job
<1> QED  BY <1>1 DEF Request

LEMMA TypeInit == Init => TypeOK /\ ReadersRead
  BY NoneAssumption, PortAssumption DEF Init, TypeOK, Lives, ReadersRead

LEMMA ReadersStep == TypeOK /\ ReadersRead /\ [Next]_vars => ReadersRead'
<1> SUFFICES ASSUME TypeOK, ReadersRead, [Next]_vars, NEW e \in ReadOnly
             PROVE  ~dirty'[e] /\ (job'[e] # None => job'[e].step = "lookup")
  BY DEF ReadersRead
<1>1. e \in Daemons /\ ~dirty[e] /\ (job[e] # None => job[e].step = "lookup")
  BY PortAssumption DEF ReadersRead
<1> USE DEF TypeOK
<1>s. CASE UNCHANGED vars
  BY <1>1, <1>s DEF vars, store
<1>n. CASE Next
  <2> PICK d \in Daemons : Handler(d) \/ Lifecycle(d) \/ StartDaemon(d) \/ Kill(d)
    BY <1>n DEF Next
  <2>1. CASE Dispatch(d) \/ NotFoundInserts(d) \/ LockedRaises(d)
    BY <1>1, <2>1 DEF Dispatch, NotFoundInserts, LockedRaises, store
  <2>2. CASE \/ Found(d) \/ NotFoundReadOnly(d) \/ ImportReadOnly(d) \/ Export(d)
             \/ Locked(d) \/ Insert(d) \/ ImportOne(d)
    BY <1>1, <2>2
       DEF Found, NotFoundReadOnly, ImportReadOnly, Export, Locked, Insert, ImportOne,
           Reply, store
  <2>3. CASE Commit(d) \/ Begin(d) \/ BeginLocked(d)
    BY <1>1, <2>3 DEF Commit, Begin, BeginLocked, SyncEnds
  <2>4. CASE OpenTable(d) \/ StartDaemon(d) \/ StopListening(d) \/ SignalHandler(d)
    BY <1>1, <2>4 DEF OpenTable, StartDaemon, StopListening, SignalHandler, store
  <2>5. CASE OpenLocked(d) \/ DiesEarly(d) \/ ExitRaises(d) \/ Exit(d) \/ Kill(d)
    BY <1>1, <2>5 DEF OpenLocked, DiesEarly, ExitRaises, Exit, Kill, Ends
  <2> QED  BY <2>1, <2>2, <2>3, <2>4, <2>5 DEF Handler, Lifecycle
<1> QED  BY <1>s, <1>n

LEMMA TypeStep == TypeOK /\ ReadersRead /\ [Next]_vars => TypeOK'
<1> SUFFICES ASSUME TypeOK, ReadersRead, [Next]_vars PROVE TypeOK'
  OBVIOUS
<1> USE DEF TypeOK
<1>s. CASE UNCHANGED vars
  BY <1>s DEF vars, store, daemon, history
<1>n. CASE Next
  <2> PICK d \in Daemons : Handler(d) \/ Lifecycle(d) \/ StartDaemon(d) \/ Kill(d)
    BY <1>n DEF Next
  <2>1. CASE Dispatch(d)
    <3>1. PICK q \in Requests : job' = [job EXCEPT ![d] =
             [req |-> q, resets |-> TRUE,
              step |-> IF q.op = "import-one" /\ d \notin ReadOnly THEN "insert" ELSE "lookup"]]
      BY <2>1 DEF Dispatch
    <3>2. job' \in [Daemons -> Job \cup {None}]
      BY <3>1, RequestsAssumption DEF Job, Steps
    <3> QED  BY <2>1, <3>2 DEF Dispatch, store, daemon, history
  <2>2. CASE Found(d)
    <3>1. PICK r \in Top(Table) : Tell(d, {r})
      BY <2>2 DEF Found
    <3>2. {r} \in SUBSET Row
      BY <3>1, TableType DEF Top
    <3>3. given' \subseteq Row /\ risk' \subseteq Row /\ last' \in Nat
      BY <3>1, <3>2, TellType
    <3> QED  BY <2>2, <3>3, ReplyType DEF Found, store
  <2>3. CASE NotFoundReadOnly(d)
    BY <2>3, ReplyType DEF NotFoundReadOnly, NotFound, store, history
  <2>4. CASE NotFoundInserts(d)
    <3>1. job[d] \in Job /\ job[d].req \in Request
      BY <2>4, JobRequest DEF NotFoundInserts, NotFound
    <3>2. [job[d] EXCEPT !.step = "insert"] \in Job
      BY <3>1, NoneAssumption DEF Job, Steps
    <3> QED  BY <2>4, <3>2 DEF NotFoundInserts, store, daemon, history
  <2>5. CASE Insert(d)
    <3> DEFINE c == job[d].req.checksum
    <3>1. PICK v \in NextValue(Table) :
             work' = Replace(Table, c, v) /\ Tell(d, {[checksum |-> c, value |-> v]})
      BY <2>5 DEF Insert
    <3>2. c \in Checksums /\ v \in Nat
      BY <2>5, JobRequest, NextValueType, TableType DEF Insert
    <3>3. work' \subseteq Row
      BY <3>1, <3>2, ReplaceType, TableType
    <3>4. {[checksum |-> c, value |-> v]} \in SUBSET Row
      BY <3>2 DEF Row
    <3>5. given' \subseteq Row /\ risk' \subseteq Row /\ last' \in Nat
      BY <3>1, <3>4, TellType
    <3>6. d \notin ReadOnly
      BY <2>5 DEF Insert, ReadersRead
    <3> QED  BY <2>5, <3>3, <3>5, <3>6, ReplyType DEF Insert
  <2>6. CASE ImportOne(d)
    <3>1. job[d].req.checksum \in Checksums /\ job[d].req.value \in Nat
      BY <2>6, JobRequest DEF ImportOne
    <3>2. work' \subseteq Row
      BY <2>6, <3>1, ImportType, TableType DEF ImportOne
    <3>3. d \notin ReadOnly
      BY <2>6 DEF ImportOne, ReadersRead
    <3> QED  BY <2>6, <3>1, <3>2, <3>3, ReplyType DEF ImportOne
  <2>7. CASE ImportReadOnly(d)
    BY <2>7, ReplyType DEF ImportReadOnly, store, history
  <2>8. CASE Export(d)
    <3>1. Top(Table) \in SUBSET Row
      BY TableType DEF Top
    <3>2. given' \subseteq Row /\ risk' \subseteq Row /\ last' \in Nat
      BY <2>8, <3>1, TellType DEF Export
    <3> QED  BY <2>8, <3>2, ReplyType DEF Export, store
  <2>9. CASE Locked(d)
    BY <2>9, ReplyType DEF Locked, store, history
  <2>10. CASE LockedRaises(d)
    <3>1. job[d].req \in Request
      BY <2>10, JobRequest DEF LockedRaises
    <3>2. [job[d] EXCEPT !.step = "commit", !.resets = FALSE] \in Job
      BY <2>10, <3>1 DEF LockedRaises, Job, Steps
    <3> QED  BY <2>10, <3>2 DEF LockedRaises, store, daemon, history
  <2>11. CASE Commit(d)
    <3>1. [job[d] EXCEPT !.step = "begin"] \in Job
      BY <2>11 DEF Commit, Job, Steps
    <3> QED  BY <2>11, <3>1 DEF Commit, CommitOf, daemon
  <2>12. CASE Begin(d)
    BY <2>12 DEF Begin, SyncEnds, daemon, history, ReadersRead
  <2>13. CASE BeginLocked(d)
    BY <2>13 DEF BeginLocked, SyncEnds, daemon, history
  <2>14. CASE OpenTable(d)
    BY <2>14 DEF OpenTable, store, history, Lives
  <2>15. CASE OpenLocked(d) \/ DiesEarly(d) \/ ExitRaises(d)
    BY <2>15 DEF OpenLocked, DiesEarly, ExitRaises, Ends, history, Lives
  <2>16. CASE SignalHandler(d)
    <3>1. [req |-> None, step |-> "commit", resets |-> FALSE] \in Job
      BY DEF Job
    <3> QED  BY <2>16, <3>1 DEF SignalHandler, store, history, Lives
  <2>17. CASE StopListening(d)
    BY <2>17 DEF StopListening, store, history, Lives
  <2>18. CASE Exit(d)
    BY <2>18 DEF Exit, CommitOf, Rollback, Ends, Lives
  <2>19. CASE StartDaemon(d)
    BY <2>19 DEF StartDaemon, store, history, Lives
  <2>20. CASE Kill(d)
    BY <2>20 DEF Kill, Rollback, Ends, Lives
  <2> QED  BY <2>1, <2>2, <2>3, <2>4, <2>5, <2>6, <2>7, <2>8, <2>9, <2>10, <2>11,
              <2>12, <2>13, <2>14, <2>15, <2>16, <2>17, <2>18, <2>19, <2>20
           DEF Handler, Lifecycle
<1> QED  BY <1>s, <1>n

\* Every reachable state has the right types, and only daemons that can write
\* ever have a transaction open.
THEOREM TypesAlways == Spec => []TypeOK
<1>1. Spec => [](TypeOK /\ ReadersRead)
  BY TypeInit, TypeStep, ReadersStep, PTL DEF Spec
<1> QED  BY <1>1, PTL

-----------------------------------------------------------------------------
(* Whose transaction is open, and what is at risk *)

\* Only a process whose database is open works on a request or has a transaction
Working == \A d \in Daemons : /\ job[d] # None => Serving(d)
                              /\ owner = d => life[d] \in {"up", "stopping", "closing"}

Committing == owner # None /\ job[owner] # None /\ job[owner].step = "commit"

\* Outside of a request a transaction has changed nothing, and nothing is at risk
Clean == Committing \/ (risk = {} /\ (owner # None => work = file))

Single == \A r, q \in risk : r = q

Transactions == Working /\ Clean /\ Single

LEMMA WorkingStep == TypeOK /\ Working /\ [Next]_vars => Working'
<1> SUFFICES ASSUME TypeOK, Working, [Next]_vars, NEW e \in Daemons
             PROVE  /\ job'[e] # None => Serving(e)'
                    /\ owner' = e => life'[e] \in {"up", "stopping", "closing"}
  BY DEF Working
<1>1. /\ job[e] # None => life[e] \in {"up", "stopping"}
      /\ owner = e => life[e] \in {"up", "stopping", "closing"}
  BY DEF Working, Serving
<1> USE NoneAssumption DEF TypeOK, Serving
<1>s. CASE UNCHANGED vars
  BY <1>1, <1>s DEF vars, store, daemon
<1>n. CASE Next
  <2> PICK d \in Daemons : Handler(d) \/ Lifecycle(d) \/ StartDaemon(d) \/ Kill(d)
    BY <1>n DEF Next
  <2>1. CASE Dispatch(d) \/ NotFoundInserts(d) \/ LockedRaises(d)
    BY <1>1, <2>1
       DEF Dispatch, NotFoundInserts, NotFound, LockedRaises, store, daemon
  <2>2. CASE \/ Found(d) \/ NotFoundReadOnly(d) \/ ImportReadOnly(d) \/ Export(d)
             \/ Locked(d) \/ Insert(d) \/ ImportOne(d)
    BY <1>1, <2>2
       DEF Found, NotFoundReadOnly, NotFound, ImportReadOnly, Export, Locked, Insert,
           ImportOne, Reply, store, daemon
  <2>3. CASE Commit(d) \/ Begin(d) \/ BeginLocked(d)
    BY <1>1, <2>3 DEF Commit, CommitOf, Begin, BeginLocked, SyncEnds, daemon
  <2>4. CASE OpenTable(d) \/ StartDaemon(d) \/ StopListening(d) \/ SignalHandler(d)
    BY <1>1, <2>4 DEF OpenTable, StartDaemon, StopListening, SignalHandler, store
  <2>5. CASE OpenLocked(d) \/ DiesEarly(d) \/ ExitRaises(d) \/ Exit(d) \/ Kill(d)
    BY <1>1, <2>5
       DEF OpenLocked, DiesEarly, ExitRaises, Exit, Kill, Ends, Unlocked, Rollback, CommitOf
  <2> QED  BY <2>1, <2>2, <2>3, <2>4, <2>5 DEF Handler, Lifecycle
<1> QED  BY <1>s, <1>n

\* A process that is let in and is not committing sees the committed rows
LEMMA SeesFile ==
  ASSUME TypeOK, Transactions, NEW d \in Daemons, Unlocked(d),
         job[d] # None => job[d].step # "commit"
  PROVE  /\ Table = file /\ risk = {}
  BY DEF Transactions, Clean, Committing, Table, Unlocked

LEMMA CommitsNext ==
  ASSUME TypeOK, NEW d \in Daemons, job[d] # None, Reply(d, TRUE), owner' = d
  PROVE  Committing'
<1>1. [job[d] EXCEPT !.step = "commit"] \in Job
  BY DEF TypeOK, Job, Steps
<1> QED  BY <1>1, NoneAssumption DEF Reply, Committing, TypeOK

LEMMA CleanStep == TypeOK /\ Transactions /\ [Next]_vars => Clean' /\ Single'
<1> SUFFICES ASSUME TypeOK, Transactions, [Next]_vars PROVE Clean' /\ Single'
  OBVIOUS
<1> USE NoneAssumption DEF TypeOK
<1>t. Working /\ Clean /\ Single
  BY DEF Transactions
<1>s. CASE UNCHANGED vars
  BY <1>t, <1>s DEF vars, store, history, Clean, Committing, Single
<1>n. CASE Next
  <2> PICK d \in Daemons : Handler(d) \/ Lifecycle(d) \/ StartDaemon(d) \/ Kill(d)
    BY <1>n DEF Next
  <2>1. CASE Dispatch(d) \/ NotFoundInserts(d) \/ LockedRaises(d)
    BY <1>t, <2>1
       DEF Dispatch, NotFoundInserts, NotFound, LockedRaises, Unlocked, store, history,
           Clean, Committing, Single
  <2>2. CASE NotFoundReadOnly(d) \/ ImportReadOnly(d) \/ Locked(d)
    BY <1>t, <2>2
       DEF NotFoundReadOnly, NotFound, ImportReadOnly, Locked, Unlocked, Reply, store,
           history, Clean, Committing, Single
  <2>3. CASE Found(d) \/ Export(d)
    <3>1. PICK rows \in SUBSET Table : Tell(d, rows)
      BY <2>3 DEF Found, Export, Top
    <3>2. Unlocked(d) /\ Reply(d, dirty[d]) /\ UNCHANGED store
          /\ job[d] # None /\ job[d].step = "lookup"
      BY <2>3 DEF Found, Export
    <3>3. Table = file /\ risk = {}
      BY <3>2, SeesFile
    <3>4. risk' = {}
      BY <3>1, <3>3 DEF Tell
    <3>5. owner # None => work = file
      BY <3>2, <1>t DEF Clean, Committing, Unlocked
    <3> QED  BY <3>2, <3>4, <3>5 DEF Clean, Single, store
  <2>4. CASE Insert(d)
    <3>1. PICK row : Tell(d, {row})
      BY <2>4 DEF Insert
    <3>2. risk = {}
      BY <2>4, SeesFile DEF Insert
    <3>3. Single'
      BY <3>1, <3>2 DEF Tell, Single
    <3> QED  BY <2>4, <3>3, CommitsNext DEF Insert, Clean
  <2>5. CASE ImportOne(d)
    <3>1. risk' = {}
      BY <2>5, SeesFile DEF ImportOne
    <3> QED  BY <2>5, <3>1, CommitsNext DEF ImportOne, Clean, Single
  <2>6. CASE Commit(d) \/ Begin(d) \/ BeginLocked(d)
    BY <1>t, <2>6
       DEF Commit, CommitOf, Begin, BeginLocked, SyncEnds, Unlocked, history,
           Clean, Committing, Single
  <2>7. CASE OpenTable(d) \/ StartDaemon(d) \/ StopListening(d) \/ SignalHandler(d)
    BY <1>t, <2>7
       DEF OpenTable, StartDaemon, StopListening, SignalHandler, store, history,
           Clean, Committing, Single
  <2>8. CASE OpenLocked(d) \/ DiesEarly(d) \/ ExitRaises(d)
    BY <1>t, <2>8
       DEF OpenLocked, DiesEarly, ExitRaises, Ends, Unlocked, history, Working,
           Clean, Committing, Single
  <2>9. CASE Exit(d) \/ Kill(d)
    BY <1>t, <2>9
       DEF Exit, Kill, Ends, CommitOf, Rollback, Clean, Committing, Single
  <2> QED  BY <2>1, <2>2, <2>3, <2>4, <2>5, <2>6, <2>7, <2>8, <2>9 DEF Handler, Lifecycle
<1> QED  BY <1>s, <1>n

LEMMA TransactionsInit == Init => Transactions
  BY NoneAssumption DEF Init, Transactions, Working, Clean, Committing, Single

LEMMA TransactionsStep == TypeOK /\ Transactions /\ [Next]_vars => Transactions'
  BY WorkingStep, CleanStep DEF Transactions

-----------------------------------------------------------------------------
(* Values *)

\* No answer is above the rows the next request will see, nor, unless it is at
\* risk, above the committed ones
Bounded == /\ \A r \in given : \E q \in Table : r.value <= q.value
           /\ \A r \in given \ risk : \E q \in file : r.value <= q.value

\* r and q do not share a value that was given to one of them
Apart(r, q) == r.value = q.value /\ r.checksum # q.checksum => r.value \in imported

\* Rows, and rows and answers, share values only by imports
Distinct == /\ \A r, q \in given : Apart(r, q)
            /\ \A r \in given, q \in Table \cup file : Apart(r, q)
            /\ \A r, q \in Table : Apart(r, q)
            /\ \A r, q \in file : Apart(r, q)

\* New rows stand for at least what the old ones did
Covers(rows, old) ==
  \A r \in old : \E q \in rows : q.checksum = r.checksum /\ q.value >= r.value

Grown == Covers(Table, file)

LEMMA CoversTrans ==
  ASSUME NEW A \in SUBSET Row, NEW B \in SUBSET Row, NEW C \in SUBSET Row,
         Covers(A, B), Covers(B, C)
  PROVE  Covers(A, C)
<1> SUFFICES ASSUME NEW r \in C
             PROVE  \E q \in A : q.checksum = r.checksum /\ q.value >= r.value
  BY DEF Covers
<1>1. PICK s \in B : s.checksum = r.checksum /\ s.value >= r.value
  BY DEF Covers
<1>2. PICK q \in A : q.checksum = s.checksum /\ q.value >= s.value
  BY DEF Covers
<1>3. q.value \in Nat /\ s.value \in Nat /\ r.value \in Nat
  BY DEF Row
<1> QED  BY <1>1, <1>2, <1>3

LEMMA ReplaceCovers ==
  ASSUME NEW rows \in SUBSET Row, NEW c \in Checksums, NEW v \in Nat,
         \A r \in rows : r.checksum = c => r.value <= v
  PROVE  Covers(Replace(rows, c, v), rows)
<1> SUFFICES ASSUME NEW r \in rows
             PROVE  \E q \in Replace(rows, c, v) : q.checksum = r.checksum /\ q.value >= r.value
  BY DEF Covers
<1>1. r.value \in Nat
  BY DEF Row
<1>2. CASE r.checksum = c
  <2> DEFINE new == [checksum |-> c, value |-> v]
  <2>1. new \in Replace(rows, c, v) /\ new.checksum = c /\ new.value = v
    BY DEF Replace
  <2>2. v >= r.value
    BY <1>1, <1>2
  <2> QED  BY <1>2, <2>1, <2>2
<1>3. CASE r.checksum # c
  BY <1>1, <1>3 DEF Replace
<1> QED  BY <1>2, <1>3

LEMMA ImportCovers ==
  ASSUME NEW rows \in SUBSET Row, NEW c \in Checksums, NEW v \in Nat
  PROVE  Covers(Import(rows, c, v), rows)
<1>1. CASE \E r \in rows : r.checksum = c /\ r.value >= v
  <2>1. \A r \in rows : r.value \in Nat
    BY DEF Row
  <2> QED  BY <1>1, <2>1 DEF Import, Covers
<1>2. CASE ~ \E r \in rows : r.checksum = c /\ r.value >= v
  <2>1. \A r \in rows : r.checksum = c => r.value <= v
    BY <1>2 DEF Row
  <2> QED  BY <1>2, <2>1, ReplaceCovers DEF Import
<1> QED  BY <1>1, <1>2

LEMMA ImportRows ==
  ASSUME NEW rows \in SUBSET Row, NEW c \in Checksums, NEW v \in Nat,
         NEW r \in Import(rows, c, v)
  PROVE  r \in rows \/ r.value = v
  BY DEF Import, Replace

\* Answers that are bounded by rows are bounded by rows that cover them
LEMMA BoundedCovers ==
  ASSUME NEW A \in SUBSET Row, NEW B \in SUBSET Row, Covers(A, B),
         NEW r \in Row, \E q \in B : r.value <= q.value
  PROVE  \E q \in A : r.value <= q.value
<1>1. PICK s \in B : r.value <= s.value
  OBVIOUS
<1>2. PICK q \in A : q.value >= s.value
  BY DEF Covers
<1>3. q.value \in Nat /\ s.value \in Nat /\ r.value \in Nat
  BY DEF Row
<1> QED  BY <1>1, <1>2, <1>3

Values == Bounded /\ Distinct /\ Grown /\ NeverDecreases

\* Steps that only rearrange who works on what
LEMMA ValuesQuiet ==
  ASSUME TypeOK, Values, UNCHANGED <<file, given, last, risk, imported>>, Table' = Table
  PROVE  Values'
  BY DEF Values, Bounded, Distinct, Apart, Grown, Covers, NeverDecreases

LEMMA SameTable ==
  ASSUME UNCHANGED <<file, work, owner>>
  PROVE  Table' = Table
  BY DEF Table

\* Rows with the maximum are told, from a table equal to the file
LEMMA TellTop ==
  ASSUME TypeOK, Transactions, Values, NEW d \in Daemons, Unlocked(d),
         job[d] # None, job[d].step = "lookup",
         NEW rows \in SUBSET Top(Table), Tell(d, rows), UNCHANGED <<store, imported>>
  PROVE  Values'
<1>1. Table = file /\ risk = {} /\ Table' = Table /\ file' = file /\ imported' = imported
  BY SeesFile, SameTable DEF store
<1>2. Table \in SUBSET Row /\ rows \subseteq Table
  BY TableType DEF Top
<1>3. CASE d \in ReadOnly \/ rows = {}
  BY <1>1, <1>3, ValuesQuiet DEF Tell
<1>4. CASE d \notin ReadOnly /\ rows # {}
  <2>1. given' = given \cup rows /\ risk' = {}
    BY <1>1, <1>2, <1>4 DEF Tell
  <2>2. \A r \in rows : r.value <= r.value
    BY <1>2 DEF Row
  <2>3. Bounded'
    BY <1>1, <1>2, <2>1, <2>2 DEF Values, Bounded
  <2>4. Distinct'
    BY <1>1, <1>2, <2>1 DEF Values, Distinct, Apart
  <2>5. Grown'
    BY <1>1 DEF Values, Grown, Covers
  <2>6. PICK t \in rows : last' = t.value
    BY <1>2, <1>4, TellLast
  <2>7. \A q \in Table : q.value <= t.value
    BY <2>6 DEF Top
  <2>8. NeverDecreases'
    <3> SUFFICES ASSUME NEW r \in given \cup rows PROVE r.value <= t.value
      BY <2>1, <2>6 DEF NeverDecreases
    <3>1. PICK q \in Table : r.value <= q.value
      BY <1>2, <2>2 DEF Values, Bounded
    <3>2. r.value \in Nat /\ q.value \in Nat /\ t.value \in Nat
      BY <1>2 DEF TypeOK, Row
    <3> QED  BY <2>7, <3>1, <3>2
  <2> QED  BY <2>3, <2>4, <2>5, <2>8 DEF Values
<1> QED  BY <1>3, <1>4

LEMMA InsertStep ==
  ASSUME TypeOK, ReadersRead, Transactions, Values, NEW d \in Daemons, Insert(d)
  PROVE  Values'
<1> DEFINE c == job[d].req.checksum
<1>1. PICK v \in NextValue(Table) :
         work' = Replace(Table, c, v) /\ Tell(d, {[checksum |-> c, value |-> v]})
  BY DEF Insert
<1> DEFINE new == [checksum |-> c, value |-> v]
<1>2. c \in Checksums /\ v \in Nat /\ Table \in SUBSET Row
      /\ \A q \in Table : q.value < v
  BY JobRequest, NextValueType, TableType DEF Insert
<1>3. new \in Row /\ new.value = v /\ new.checksum = c
  BY <1>2 DEF Row
<1>4. Table = file /\ risk = {} /\ file' = file /\ imported' = imported
  BY SeesFile DEF Insert
<1>5. d \notin ReadOnly
  BY DEF Insert, ReadersRead
<1>6. Table' = Replace(Table, c, v)
  BY <1>1, NoneAssumption DEF Insert, Table
<1>7. \A q \in Table' : q = new \/ (q \in Table /\ q.value < v)
  BY <1>2, <1>6 DEF Replace
<1>8. new \in Table' /\ new \notin file
  BY <1>2, <1>3, <1>4, <1>6 DEF Replace, Row
<1>9. given' = given \cup {new} /\ risk' = {new}
  BY <1>1, <1>4, <1>5, <1>8 DEF Tell
<1>10. last' = v
  <2>1. \E r \in {new} : last' = r.value
    BY <1>1, <1>3, <1>5, TellLast
  <2> QED  BY <2>1, <1>3
<1>11. Covers(Table', Table)
  <2>1. \A r \in Table : r.checksum = c => r.value <= v
    BY <1>2 DEF Row
  <2> QED  BY <1>2, <1>6, <2>1, ReplaceCovers
<1>12. \A r \in given : r \in Row /\ r.value < v
  <2> TAKE r \in given
  <2>1. PICK q \in Table : r.value <= q.value
    BY DEF Values, Bounded
  <2>2. r \in Row /\ r.value \in Nat /\ q.value \in Nat
    BY <1>2 DEF TypeOK, Row
  <2> QED  BY <1>2, <2>1, <2>2
<1>13. v <= v /\ \A x \in Nat : x < v => x <= v /\ x # v
  BY <1>2
<1>14. \A r \in given \cup Table : r.value \in Nat /\ r.value < v
  BY <1>2, <1>12 DEF Row
<1>15. Bounded'
  <2>1. \A r \in given' : \E q \in Table' : r.value <= q.value
    BY <1>3, <1>8, <1>9, <1>13, <1>14
  <2>2. \A r \in given' \ risk' : \E q \in file' : r.value <= q.value
    BY <1>4, <1>9 DEF Values, Bounded
  <2> QED  BY <2>1, <2>2 DEF Bounded
<1>16. Distinct'
  <2>1. \A r \in given \cup Table \cup file :
           r.value # new.value
    BY <1>3, <1>4, <1>13, <1>14
  <2>2. \A r, q \in given' \cup Table' \cup file' :
           r \in given \cup Table \cup file \/ r = new
    BY <1>4, <1>7, <1>9
  <2> QED  BY <1>4, <1>7, <1>9, <2>1 DEF Values, Distinct, Apart
<1>17. Grown'
  BY <1>4, <1>11 DEF Grown
<1>18. NeverDecreases'
  BY <1>3, <1>9, <1>10, <1>13, <1>14 DEF NeverDecreases
<1> QED  BY <1>15, <1>16, <1>17, <1>18 DEF Values

LEMMA ImportStep ==
  ASSUME TypeOK, Transactions, Values, NEW d \in Daemons, ImportOne(d)
  PROVE  Values'
<1> DEFINE c == job[d].req.checksum
           v == job[d].req.value
<1>1. c \in Checksums /\ v \in Nat /\ Table \in SUBSET Row
  BY JobRequest, TableType DEF ImportOne
<1>2. Table = file /\ risk = {} /\ file' = file
  BY SeesFile DEF ImportOne
<1>3. Table' = Import(Table, c, v)
  BY NoneAssumption DEF ImportOne, Table
<1>4. UNCHANGED <<given, last, risk>> /\ imported' = imported \cup {v}
  BY DEF ImportOne
<1>5. Covers(Table', Table) /\ Table' \in SUBSET Row
  BY <1>1, <1>3, ImportCovers, ImportType
<1>6. Bounded'
  <2>1. ASSUME NEW r \in given PROVE \E q \in Table' : r.value <= q.value
    <3>1. r \in Row /\ \E q \in Table : r.value <= q.value
      BY DEF TypeOK, Values, Bounded
    <3> QED  BY <1>1, <1>5, <3>1, BoundedCovers
  <2> QED  BY <1>2, <1>4, <2>1 DEF Values, Bounded
<1>7. \A q \in Table' : q \in Table \/ q.value \in imported'
  BY <1>1, <1>3, <1>4, ImportRows
<1>8. Distinct'
  BY <1>2, <1>4, <1>7 DEF Values, Distinct, Apart
<1>9. Grown'
  BY <1>2, <1>5 DEF Grown
<1>10. NeverDecreases'
  BY <1>4 DEF Values, NeverDecreases
<1> QED  BY <1>6, <1>8, <1>9, <1>10 DEF Values

\* What is visible becomes the file
LEMMA CommitStep ==
  ASSUME TypeOK, Transactions, Values, NEW d \in Daemons, CommitOf(d),
         UNCHANGED <<work, given, last, imported>>
  PROVE  Values'
<1>1. CASE owner # d
  BY <1>1, SameTable, ValuesQuiet DEF CommitOf
<1>2. CASE owner = d
  <2>1. file' = Table /\ Table' = Table /\ risk' = {}
    BY <1>2, NoneAssumption DEF CommitOf, Table
  <2>2. \A r \in Table : r.value \in Nat
    BY TableType DEF Row
  <2> QED  BY <2>1, <2>2 DEF Values, Bounded, Distinct, Apart, Grown, Covers, NeverDecreases
<1> QED  BY <1>1, <1>2

\* What a process that died had not committed is gone, with the answers at risk
LEMMA KillStep ==
  ASSUME TypeOK, Transactions, Values, NEW d \in Daemons, Kill(d)
  PROVE  Values'
<1>1. CASE owner # d
  BY <1>1, SameTable, ValuesQuiet DEF Kill, Rollback
<1>2. CASE owner = d
  <2>1. file' = file /\ Table' = file /\ risk' = {} /\ given' = given \ risk
        /\ UNCHANGED <<last, imported>>
    BY <1>2, NoneAssumption DEF Kill, Rollback, Table
  <2>2. \A r \in file : r.value \in Nat
    BY DEF TypeOK, Row
  <2> QED  BY <2>1, <2>2 DEF Values, Bounded, Distinct, Apart, Grown, Covers, NeverDecreases
<1> QED  BY <1>1, <1>2

\* A clean exit loses nothing
LEMMA ExitStep ==
  ASSUME TypeOK, Transactions, Values, NEW d \in Daemons, Exit(d)
  PROVE  Values'
<1>1. CASE dirty[d]
  BY <1>1, CommitStep DEF Exit
<1>2. CASE ~dirty[d] /\ owner # d
  BY <1>2, SameTable, ValuesQuiet DEF Exit, Rollback
<1>3. CASE ~dirty[d] /\ owner = d
  <2>1. job[d] = None
    BY DEF Exit, Transactions, Working, Serving
  <2>2. work = file /\ risk = {}
    BY <1>3, <2>1, NoneAssumption DEF Transactions, Clean, Committing
  <2>3. Table' = Table /\ UNCHANGED <<file, given, last, risk, imported>>
    BY <1>3, <2>2, NoneAssumption DEF Exit, Rollback, Table
  <2> QED  BY <2>3, ValuesQuiet
<1> QED  BY <1>1, <1>2, <1>3

LEMMA ValuesStep ==
  ASSUME TypeOK, ReadersRead, Transactions, Values, [Next]_vars
  PROVE  Values'
<1>s. CASE UNCHANGED vars
  BY <1>s, ValuesQuiet, SameTable DEF vars, store, history
<1>n. CASE Next
  <2> PICK d \in Daemons : Handler(d) \/ Lifecycle(d) \/ StartDaemon(d) \/ Kill(d)
    BY <1>n DEF Next
  <2>1. CASE Found(d)
    <3>1. PICK r \in Top(Table) : Tell(d, {r})
      BY <2>1 DEF Found
    <3>2. {r} \in SUBSET Top(Table)
      BY <3>1
    <3> QED  BY <2>1, <3>1, <3>2, TellTop DEF Found
  <2>2. CASE Export(d)
    BY <2>2, TellTop DEF Export
  <2>3. CASE Insert(d)
    BY <2>3, InsertStep
  <2>4. CASE ImportOne(d)
    BY <2>4, ImportStep
  <2>5. CASE Commit(d)
    BY <2>5, CommitStep DEF Commit
  <2>6. CASE Begin(d)
    BY <2>6, ValuesQuiet, NoneAssumption DEF Begin, SyncEnds, history, Table
  <2>7. CASE Exit(d)
    BY <2>7, ExitStep
  <2>8. CASE Kill(d)
    BY <2>8, KillStep
  <2>9. CASE \/ Dispatch(d) \/ NotFoundReadOnly(d) \/ NotFoundInserts(d)
             \/ ImportReadOnly(d) \/ Locked(d) \/ LockedRaises(d) \/ BeginLocked(d)
             \/ OpenTable(d) \/ StartDaemon(d) \/ SignalHandler(d) \/ StopListening(d)
             \/ OpenLocked(d) \/ DiesEarly(d) \/ ExitRaises(d)
    <3>1. UNCHANGED <<file, work, owner, history>>
      BY <2>9
         DEF Dispatch, NotFoundReadOnly, NotFoundInserts, ImportReadOnly, Locked,
             LockedRaises, BeginLocked, SyncEnds, OpenTable, StartDaemon, SignalHandler,
             StopListening, OpenLocked, DiesEarly, ExitRaises, store
    <3> QED  BY <3>1, SameTable, ValuesQuiet DEF history
  <2> QED  BY <2>1, <2>2, <2>3, <2>4, <2>5, <2>6, <2>7, <2>8, <2>9 DEF Handler, Lifecycle
<1> QED  BY <1>s, <1>n

LEMMA ValuesInit == Init => Values
  BY DEF Init, Values, Bounded, Distinct, Grown, Covers, NeverDecreases, Table

-----------------------------------------------------------------------------
(* Theorems *)

Inductive == TypeOK /\ ReadersRead /\ Transactions /\ Values

LEMMA InductiveAlways == Spec => []Inductive
<1>1. Init => Inductive
  BY TypeInit, TransactionsInit, ValuesInit DEF Inductive
<1>2. Inductive /\ [Next]_vars => Inductive'
  BY TypeStep, ReadersStep, TransactionsStep, ValuesStep DEF Inductive
<1> QED  BY <1>1, <1>2, PTL DEF Spec

\* The PR value answered last is never below an earlier one that a kill did not undo.
THEOREM NeverDecreasesAlways == Spec => []NeverDecreases
<1>1. Inductive => NeverDecreases
  BY DEF Inductive, Values
<1> QED  BY <1>1, InductiveAlways, PTL

\* Two checksums are given one value only if that value was imported.
THEOREM ValuesDistinctAlways == Spec => []ValuesDistinct
<1>1. Inductive => ValuesDistinct
  BY DEF Inductive, Values, Distinct, Apart, ValuesDistinct
<1> QED  BY <1>1, InductiveAlways, PTL

\* Of all answers only the one whose commit comes next can be lost to a kill.
THEOREM OneAnswerAtRiskAlways == Spec => []OneAnswerAtRisk
<1>1. Inductive => OneAnswerAtRisk
  <2> SUFFICES ASSUME Inductive PROVE OneAnswerAtRisk
    OBVIOUS
  <2>1. \A r, q \in risk : r = q
    BY DEF Inductive, Transactions, Single
  <2>2. risk # {} => Committing
    BY DEF Inductive, Transactions, Clean
  <2>3. \A r \in given \ risk : \E q \in file : r.value <= q.value
    BY DEF Inductive, Values, Bounded
  <2>4. ASSUME NEW r \in given \ risk PROVE \E q \in file : q.value >= r.value
    <3>1. PICK q \in file : r.value <= q.value
      BY <2>3, <2>4
    <3>2. r.value \in Nat /\ q.value \in Nat
      BY DEF Inductive, TypeOK, Row
    <3> QED  BY <3>1, <3>2
  <2> QED  BY <2>1, <2>2, <2>4 DEF OneAnswerAtRisk, Committing
<1> QED  BY <1>1, InductiveAlways, PTL

\* No commit, exit or kill takes a committed row back or lowers it.
THEOREM FileGrowsAlways == Spec => FileGrows
<1>1. Inductive /\ Inductive' /\ [Next]_vars
        => [\A r \in file : \E q \in file' : q.checksum = r.checksum /\ q.value >= r.value]_vars
  <2> SUFFICES ASSUME Inductive, Next
               PROVE  \A r \in file : \E q \in file' : q.checksum = r.checksum /\ q.value >= r.value
    OBVIOUS
  <2>1. \A r \in file : r.value >= r.value
    BY DEF Inductive, TypeOK, Row
  <2>2. PICK d \in Daemons : Handler(d) \/ Lifecycle(d) \/ StartDaemon(d) \/ Kill(d)
    BY DEF Next
  <2>3. file' = file \/ file' = Table
    BY <2>2, NoneAssumption
       DEF Inductive, TypeOK, Table, Handler, Lifecycle, Kill, StartDaemon,
           Dispatch, Found, NotFoundReadOnly, NotFoundInserts, Insert, ImportOne,
           ImportReadOnly, Export, Locked, LockedRaises, Commit, CommitOf, Begin,
           BeginLocked, SyncEnds, OpenTable, OpenLocked, DiesEarly, SignalHandler,
           StopListening, Exit, ExitRaises, Rollback, store
  <2> QED  BY <2>1, <2>3 DEF Inductive, Values, Grown, Covers
<1> QED  BY <1>1, InductiveAlways, PTL DEF Spec, FileGrows
=============================================================================
