-------------------------- MODULE ParserPoolProofs --------------------------
(* Theorems about ParserPool, for any recipes, processes and capacity *)
EXTENDS ParserPool, FiniteSetTheorems, TLAPS

\* What a process has of the recipes that are to be parsed
Holds(p) == jobs[p] \cup ({doing[p]} \ {None}) \cup buffer[p]

\* A recipe is in one place: no result comes twice
Apart ==
  /\ \A p, q \in Processes : p # q => Holds(p) \cap Holds(q) = {}
  /\ \A p \in Processes :
       /\ jobs[p] \cap buffer[p] = {} /\ doing[p] \notin jobs[p] \cup buffer[p]
       /\ Holds(p) \cap (pipe \cup added) = {}
  /\ pipe \cap added = {}

\* The count of results is that of the recipes they are for, and none was an error
Counted ==
  /\ IsFiniteSet(willparse) /\ parsed = Cardinality(added)
  /\ added \cap broken = {} /\ (raised => error)

AllAdded == added = willparse /\ broken = {}

Completed ==
  /\ state = "running" => AllAdded
  /\ main \in {"drain", "join"} /\ next = "complete" => AllAdded
  /\ main = "parse" => state # "running"

Quiet ==
  parser = "shut" /\ main \in {"loop", "parse", "exited"} =>
    \A p \in Processes : place[p] = "ended"

IInv == TypeOK /\ Apart /\ Counted /\ Completed /\ Quiet

-----------------------------------------------------------------------------
(* Types *)

LEMMA InitInvariant == Init => IInv
<1> SUFFICES ASSUME Init PROVE IInv
  OBVIOUS
<1>1. TypeOK
  BY DEF Init, TypeOK
<1>2. Apart
  BY DEF Init, Apart, Holds
<1>3. Counted
  BY FS_EmptySet DEF Init, Counted
<1>4. Completed /\ Quiet
  BY DEF Init, Completed, Quiet
<1>5. QED
  BY <1>1, <1>2, <1>3, <1>4 DEF IInv

\* What shutdown() may change, whoever calls it
LEMMA ShutDownType ==
  ASSUME TypeOK, NEW st \in {"initial", "parsing", "running", "shutdown", "forceshutdown"},
         NEW forced \in BOOLEAN, NEW why \in {"stop", "failed", "complete", "exit"},
         ShutDown(st, forced, why)
  PROVE  /\ state' \in {"initial", "parsing", "running", "shutdown", "forceshutdown"}
         /\ command' \in {"none", "queued", "running"}
         /\ main' \in {"loop", "drain", "exited"}
         /\ force' \in BOOLEAN /\ next' = why
         /\ parser' \in {"none", "live", "shut"}
BY DEF TypeOK, ShutDown, Return

LEMMA ServerTypes == TypeOK /\ Server => TypeOK'
<1> SUFFICES ASSUME TypeOK, Server PROVE TypeOK'
  OBVIOUS
<1> USE DEF cooker, user, thread, pool, count, workers
<1>1. CASE Refused
  BY <1>1, ShutDownType DEF Refused, TypeOK
<1>2. CASE Resume
  BY <1>2 DEF Resume, TypeOK
<1>3. CASE CannotParse
  BY <1>3 DEF CannotParse, TypeOK
<1>4. CASE NewParser
  <2>1. PICK chunk \in Chunks :
          /\ jobs' = chunk
          /\ willparse' = UNION {chunk[p] : p \in Processes}
          /\ place' = [p \in Processes |-> IF chunk[p] = {} THEN "ended" ELSE "work"]
    BY <1>4 DEF NewParser
  <2>2. chunk \in [Processes -> SUBSET Recipes]
    BY ChunksAssumption
  <2>3. willparse' \subseteq Recipes /\ jobs' \in [Processes -> SUBSET willparse']
    BY <2>1, <2>2
  <2>4. QED
    BY <1>4, <2>1, <2>3 DEF NewParser, TypeOK
<1>5. CASE ParseNext
  <2>1. PICK r \in pipe :
       /\ pipe' = pipe \ {r}
       /\ IF r \in broken
          THEN /\ error' = TRUE /\ raised' = TRUE
               /\ ShutDown(state, TRUE, "failed")
               /\ UNCHANGED <<parsed, added>>
          ELSE /\ parsed' = parsed + 1 /\ added' = added \cup {r}
               /\ main' = "loop"
               /\ UNCHANGED <<state, command, force, next, parser, error, raised>>
    BY <1>5 DEF ParseNext
  <2>2. CASE r \in broken
    BY <1>5, <2>1, <2>2, ShutDownType DEF ParseNext, TypeOK
  <2>3. CASE r \notin broken
    BY <1>5, <2>1, <2>3 DEF ParseNext, TypeOK
  <2>4. QED
    BY <2>2, <2>3
<1>6. CASE ParsingComplete
  BY <1>6, ShutDownType DEF ParsingComplete, TypeOK
<1>7. CASE BuildStarts
  BY <1>7 DEF BuildStarts, TypeOK
<1>8. CASE Drain
  BY <1>8 DEF Drain, TypeOK
<1>9. CASE Drained
  BY <1>9 DEF Drained, TypeOK
<1>10. CASE Joined
  BY <1>10 DEF Joined, Terminate, Return, TypeOK
<1>11. QED
  BY <1>1, <1>2, <1>3, <1>4, <1>5, <1>6, <1>7, <1>8, <1>9, <1>10 DEF Server

LEMMA ProcessTypes ==
  ASSUME TypeOK, NEW p \in Processes, Process(p)
  PROVE  TypeOK'
<1> USE DEF cooker, user, thread, pool, count, workers, Ready
<1>1. CASE Quits(p)
  BY <1>1 DEF Quits, TypeOK
<1>2. CASE Parses(p)
  BY <1>2 DEF Parses, TypeOK
<1>3. CASE Puts(p)
  BY <1>3 DEF Puts, TypeOK
<1>4. CASE Feeds(p)
  BY <1>4 DEF Feeds, TypeOK
<1>5. CASE Ends(p)
  BY <1>5 DEF Ends, TypeOK
<1>6. QED
  BY <1>1, <1>2, <1>3, <1>4, <1>5 DEF Process

\* What the users, the build and the kernel do
Outside ==
  \/ BuildEnds \/ Connect \/ Build \/ Stop(TRUE) \/ Stop(FALSE) \/ Leave \/ Change
  \/ Sigterm \/ Exit

LEMMA OutsideTypes == TypeOK /\ Outside => TypeOK'
<1> SUFFICES ASSUME TypeOK, Outside PROVE TypeOK'
  OBVIOUS
<1> USE DEF cooker, user, thread, pool, count, workers
<1>1. CASE BuildEnds
  BY <1>1 DEF BuildEnds, TypeOK
<1>7. CASE Connect
  BY <1>7 DEF Connect, TypeOK
<1>4. CASE Build
  <2>1. command' = "queued" /\ UNCHANGED <<state, valid, user, thread, pool, count, workers, pipe>>
    BY <1>4 DEF Build
  <2>2. QED
    BY <2>1 DEF TypeOK
<1>5. CASE Leave
  BY <1>5 DEF Leave, TypeOK
<1>6. CASE Change
  <2>1. valid' \in BOOLEAN
    BY <1>6, Zenon DEF Change
  <2>2. UNCHANGED <<state, command, user, thread, pool, count, workers, pipe>>
    BY <1>6, Zenon DEF Change
  <2>3. QED
    BY <2>1, <2>2 DEF TypeOK
<1>8. CASE Sigterm
  BY <1>8 DEF Sigterm, TypeOK
<1>2. CASE Stop(TRUE) \/ Stop(FALSE)
  BY <1>2, ShutDownType DEF Stop, TypeOK
<1>3. CASE Exit
  BY <1>3, ShutDownType DEF Exit, TypeOK
<1>9. QED
  BY <1>1, <1>2, <1>3, <1>4, <1>5, <1>6, <1>7, <1>8 DEF Outside

LEMMA TypesStep == TypeOK /\ [Next]_vars => TypeOK'
<1> SUFFICES ASSUME TypeOK, [Next]_vars PROVE TypeOK'
  OBVIOUS
<1>1. CASE UNCHANGED vars
  BY <1>1 DEF vars, cooker, user, thread, pool, count, workers, TypeOK
<1>2. QED
  BY <1>1, ServerTypes, OutsideTypes, ProcessTypes DEF Next, Outside

\* Types are as TypeOK says in every behaviour.
THEOREM TypeCorrect == Spec => []TypeOK
<1>1. Init => TypeOK
  BY InitInvariant DEF IInv
<1>2. QED
  BY <1>1, TypesStep, PTL DEF Spec

-----------------------------------------------------------------------------
(* The invariant *)

\* A step that takes no result, moves none and starts no parser keeps what Apart and
\* Counted say
LEMMA Untouched ==
  ASSUME UNCHANGED <<willparse, broken, count, workers, pipe>>
  PROVE  (Apart => Apart') /\ (Counted => Counted')
BY DEF count, workers, Apart, Counted, Holds

LEMMA AllParsed ==
  ASSUME TypeOK, Counted, Exhausted, ~error
  PROVE  AllAdded
<1>1. Cardinality(willparse) <= Cardinality(added) /\ added \subseteq willparse
  BY DEF Exhausted, Counted, TypeOK
<1>2. IsFiniteSet(added) /\ Cardinality(added) <= Cardinality(willparse)
      /\ (Cardinality(added) = Cardinality(willparse) => added = willparse)
  BY <1>1, FS_Subset DEF Counted
<1>3. Cardinality(added) \in Nat /\ Cardinality(willparse) \in Nat
  BY <1>2, FS_CardinalityType DEF Counted
<1>4. added = willparse
  BY <1>1, <1>2, <1>3
<1>5. QED
  BY <1>4 DEF AllAdded, Counted, TypeOK

\* shutdown() called while the server is in its loop or waits for a result
LEMMA ShutDownKeeps ==
  ASSUME TypeOK, Completed, Quiet, UNCHANGED <<added, willparse, broken, place>>,
         main \in {"loop", "parse"},
         NEW st, st = "running" => state = "running",
         NEW forced, NEW why, why = "complete" => AllAdded,
         ShutDown(st, forced, why)
  PROVE  Completed' /\ Quiet'
<1>1. AllAdded' <=> AllAdded
  BY DEF AllAdded
<1>2. Completed'
  BY <1>1 DEF Completed, ShutDown, Return
<1>3. Quiet'
  BY DEF Quiet, ShutDown, Return
<1>4. QED
  BY <1>2, <1>3

LEMMA TakesResult ==
  ASSUME IInv, ParseNext
  PROVE  Apart' /\ Counted' /\ Completed' /\ Quiet'
<1> USE DEF IInv
<1>1. PICK r \in pipe :
       /\ pipe' = pipe \ {r}
       /\ IF r \in broken
          THEN /\ error' = TRUE /\ raised' = TRUE
               /\ ShutDown(state, TRUE, "failed")
               /\ UNCHANGED <<parsed, added>>
          ELSE /\ parsed' = parsed + 1 /\ added' = added \cup {r}
               /\ main' = "loop"
               /\ UNCHANGED <<state, command, force, next, parser, error, raised>>
  BY DEF ParseNext
<1>2. UNCHANGED <<willparse, broken, jobs, doing, buffer, place>> /\ main = "parse"
  BY DEF ParseNext, workers
<1>3. CASE r \in broken
  <2>1. Apart' /\ Counted'
    BY <1>1, <1>2, <1>3 DEF Apart, Counted, Holds
  <2>2. QED
    BY <1>1, <1>2, <1>3, <2>1, ShutDownKeeps
<1>4. CASE r \notin broken
  <2>1. Apart'
    BY <1>1, <1>2, <1>4 DEF Apart, Holds
  <2>2. r \notin added /\ IsFiniteSet(added)
    BY <1>1, FS_Subset DEF Apart, Counted, TypeOK
  <2>3. Cardinality(added \cup {r}) = Cardinality(added) + 1
    BY <2>2, FS_AddElement
  <2>4. Counted'
    BY <1>1, <1>2, <1>4, <2>3 DEF Counted
  <2>5. Completed' /\ Quiet'
    BY <1>1, <1>2, <1>4 DEF Completed, Quiet
  <2>6. QED
    BY <2>1, <2>4, <2>5
<1>5. QED
  BY <1>3, <1>4

LEMMA StartsParser ==
  ASSUME IInv, NewParser
  PROVE  Apart' /\ Counted' /\ Completed' /\ Quiet'
<1> USE DEF IInv
<1>1. PICK chunk \in Chunks :
        jobs' = chunk /\ willparse' = UNION {chunk[p] : p \in Processes}
  BY DEF NewParser
<1>2. /\ chunk \in [Processes -> SUBSET Recipes]
      /\ \A p, q \in Processes : p # q => chunk[p] \cap chunk[q] = {}
  BY ChunksAssumption
<1>3. \A p \in Processes : None \notin chunk[p]
  BY <1>2, NoneAssumption
<1>4. Apart'
  BY <1>1, <1>2, <1>3 DEF NewParser, Apart, Holds
<1>5. willparse' \subseteq Recipes
  BY <1>1, <1>2
<1>6. IsFiniteSet(willparse')
  BY <1>5, FiniteAssumption, FS_Subset
<1>7. Counted'
  BY <1>6, FS_EmptySet DEF NewParser, Counted
<1>8. QED
  BY <1>4, <1>7 DEF NewParser, Completed, Quiet

LEMMA ServerKeeps == IInv /\ Server => Apart' /\ Counted' /\ Completed' /\ Quiet'
<1> SUFFICES ASSUME IInv, Server PROVE Apart' /\ Counted' /\ Completed' /\ Quiet'
  OBVIOUS
<1> USE DEF IInv
<1>1. CASE Refused
  <2>1. UNCHANGED <<added, willparse, broken, place>>
    BY <1>1 DEF Refused, count, workers
  <2>2. QED
    BY <1>1, <2>1, Untouched, ShutDownKeeps DEF Refused
<1>2. CASE Resume
  BY <1>2, Untouched DEF Resume, Completed, Quiet, pool, count, workers, AllAdded
<1>3. CASE CannotParse
  BY <1>3, Untouched DEF CannotParse, Completed, Quiet, thread, pool, count, workers, AllAdded
<1>4. CASE NewParser
  BY <1>4, StartsParser
<1>5. CASE ParseNext
  BY <1>5, TakesResult
<1>6. CASE ParsingComplete
  <2>1. UNCHANGED <<added, willparse, broken, place>>
    BY <1>6 DEF ParsingComplete, count, workers
  <2>2. PICK why \in {"failed"} \cup (IF error THEN {} ELSE {"complete"}) :
          ShutDown(state, FALSE, why)
    BY <1>6 DEF ParsingComplete
  <2>3. why = "complete" => AllAdded
    BY <1>6, <2>2, AllParsed DEF ParsingComplete
  <2>4. Completed' /\ Quiet'
    BY <1>6, <2>1, <2>2, <2>3, ShutDownKeeps DEF ParsingComplete
  <2>5. QED
    BY <1>6, <2>4, Untouched DEF ParsingComplete
<1>7. CASE BuildStarts
  BY <1>7, Untouched DEF BuildStarts, Completed, Quiet, thread, pool, count, workers, AllAdded
<1>8. CASE Drain
  <2>1. Apart' /\ Counted'
    BY <1>8 DEF Drain, pool, count, workers, Apart, Counted, Holds
  <2>2. QED
    BY <1>8, <2>1 DEF Drain, Completed, Quiet, cooker, thread, pool, count, workers, AllAdded
<1>9. CASE Drained
  BY <1>9, Untouched DEF Drained, Completed, Quiet, cooker, pool, count, workers, AllAdded
<1>10. CASE Joined
  <2>1. \A p \in Processes : place'[p] = "ended" /\ Holds(p)' \subseteq Holds(p)
                           /\ jobs'[p] = jobs[p] /\ buffer'[p] \subseteq buffer[p]
                           /\ doing'[p] \in {doing[p], None}
    BY <1>10 DEF Joined, Terminate, TypeOK, Holds
  <2>2. \A p \in Processes : None \notin jobs[p] \cup buffer[p]
    BY NoneAssumption DEF TypeOK
  <2>3. UNCHANGED <<willparse, broken, count, pipe, parser>>
    BY <1>10 DEF Joined, pool
  <2>4. Apart'
    BY <2>1, <2>2, <2>3 DEF Apart, count
  <2>5. Counted'
    BY <2>3 DEF Counted, count
  <2>6. Completed' /\ Quiet'
    BY <1>10, <2>1, <2>3 DEF Joined, Return, Completed, Quiet, count, AllAdded
  <2>7. QED
    BY <2>4, <2>5, <2>6
<1>11. QED
  BY <1>1, <1>2, <1>3, <1>4, <1>5, <1>6, <1>7, <1>8, <1>9, <1>10 DEF Server

LEMMA ProcessKeeps ==
  ASSUME IInv, NEW p \in Processes, Process(p)
  PROVE  Apart' /\ Counted' /\ Completed' /\ Quiet'
<1> USE DEF IInv
<1>1. UNCHANGED <<cooker, user, thread, pool, count>>
  BY DEF Process, Quits, Parses, Puts, Feeds, Ends
<1>2. Counted' /\ Completed'
  BY <1>1 DEF cooker, thread, pool, count, Counted, Completed, AllAdded
<1>3. Quiet'
  <2>1. UNCHANGED <<parser, main>>
    BY <1>1 DEF pool, thread
  <2>2. \A q \in Processes : place[q] = "ended" => place'[q] = "ended"
    BY DEF Process, Quits, Parses, Puts, Feeds, Ends, TypeOK, workers, Ready
  <2>3. QED
    BY <2>1, <2>2 DEF Quiet
<1>n. \A q \in Processes : None \notin jobs[q] \cup buffer[q]
  BY NoneAssumption DEF TypeOK
<1>4. CASE Quits(p) \/ Ends(p)
  <2>1. UNCHANGED <<jobs, doing, buffer, pipe, added>>
    BY <1>1, <1>4 DEF Quits, Ends, count
  <2>2. QED
    BY <1>2, <1>3, <2>1 DEF Apart, Holds
<1>5. CASE Parses(p)
  <2>1. PICK r \in jobs[p] : /\ jobs' = [jobs EXCEPT ![p] = @ \ {r}]
                             /\ doing' = [doing EXCEPT ![p] = r]
    BY <1>5 DEF Parses
  <2>2. UNCHANGED <<buffer, pipe, added>>
    BY <1>1, <1>5 DEF Parses, count
  <2>3. \A q \in Processes : Holds(q)' \subseteq Holds(q)
    BY <2>1, <2>2 DEF TypeOK, Holds
  <2>4. Apart'
    BY <2>1, <2>2, <2>3 DEF Apart, TypeOK
  <2>5. QED
    BY <1>2, <1>3, <2>4
<1>6. CASE Puts(p)
  <2>1. /\ doing[p] # None
        /\ buffer' = [buffer EXCEPT ![p] = @ \cup {doing[p]}]
        /\ doing' = [doing EXCEPT ![p] = None]
        /\ UNCHANGED <<jobs, pipe, added>>
    BY <1>1, <1>6 DEF Puts, count
  <2>2. \A q \in Processes : Holds(q)' \subseteq Holds(q)
    BY <2>1 DEF TypeOK, Holds
  <2>3. Apart'
    BY <1>n, <2>1, <2>2 DEF Apart, TypeOK
  <2>4. QED
    BY <1>2, <1>3, <2>3
<1>7. CASE Feeds(p)
  <2>1. PICK r \in buffer[p] : /\ buffer' = [buffer EXCEPT ![p] = @ \ {r}]
                               /\ pipe' = pipe \cup {r}
    BY <1>7 DEF Feeds
  <2>2. UNCHANGED <<jobs, doing, added>>
    BY <1>1, <1>7 DEF Feeds, count
  <2>3. r \notin added /\ \A q \in Processes : r \notin Holds(q)' /\ Holds(q)' \subseteq Holds(q)
    BY <2>1, <2>2 DEF TypeOK, Holds, Apart
  <2>4. Apart'
    BY <2>1, <2>2, <2>3 DEF Apart, TypeOK
  <2>5. QED
    BY <1>2, <1>3, <2>4
<1>8. QED
  BY <1>4, <1>5, <1>6, <1>7 DEF Process

LEMMA OutsideKeeps == IInv /\ Outside => Apart' /\ Counted' /\ Completed' /\ Quiet'
<1> SUFFICES ASSUME IInv, Outside PROVE Apart' /\ Counted' /\ Completed' /\ Quiet'
  OBVIOUS
<1> USE DEF IInv
<1>1. UNCHANGED <<willparse, broken, count, workers, pipe, added, place>>
  BY DEF Outside, BuildEnds, Connect, Build, Stop, Leave, Change, Sigterm, Exit,
         pool, count, workers
<1>2. Apart' /\ Counted'
  BY <1>1, Untouched
<1>3. CASE BuildEnds \/ Connect \/ Build \/ Leave \/ Change \/ Sigterm
  BY <1>1, <1>2, <1>3 DEF BuildEnds, Connect, Build, Leave, Change, Sigterm,
     Completed, Quiet, cooker, thread, pool, AllAdded
<1>4. CASE Stop(TRUE) \/ Stop(FALSE)
  BY <1>1, <1>2, <1>4, ShutDownKeeps DEF Stop
<1>5. CASE Exit
  BY <1>1, <1>2, <1>5, ShutDownKeeps DEF Exit
<1>6. QED
  BY <1>3, <1>4, <1>5 DEF Outside

LEMMA InvariantStep == IInv /\ [Next]_vars => IInv'
<1> SUFFICES ASSUME IInv, [Next]_vars PROVE IInv'
  OBVIOUS
<1>1. TypeOK'
  BY TypesStep DEF IInv
<1>2. CASE UNCHANGED vars
  BY <1>1, <1>2, Untouched DEF IInv, vars, cooker, thread, pool, count, workers,
     Completed, Quiet, AllAdded
<1>3. QED
  BY <1>1, <1>2, ServerKeeps, ProcessKeeps, OutsideKeeps DEF IInv, Next, Outside

LEMMA Invariant == Spec => []IInv
BY InitInvariant, InvariantStep, PTL DEF Spec

\* Builds start on all recipes, however often parses were stopped, failed or begun anew.
THEOREM CompleteMeansAllAlways == Spec => []CompleteMeansAll
<1>1. IInv => CompleteMeansAll
  BY DEF IInv, Completed, AllAdded, CompleteMeansAll
<1>2. QED
  BY <1>1, Invariant, PTL

\* No process outlives the shutdown of its parser, with and without force.
THEOREM NoneLeftAlways == Spec => []NoneLeft
<1>1. IInv => NoneLeft
  BY DEF IInv, Quiet, NoneLeft
<1>2. QED
  BY <1>1, Invariant, PTL
=============================================================================
