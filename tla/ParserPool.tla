----------------------------- MODULE ParserPool -----------------------------
(***************************************************************************)
(* Parsing recipes in parallel (CookerParser and Parser in lib/bb/cooker.py*)
(* with the commands that start and stop it in lib/bb/command.py).  The    *)
(* server thread calls updateCache() from its idle loop once per recipe,   *)
(* and waits inside that call for the next result; worker processes take   *)
(* the recipes of their chunk and put results in one queue.  A             *)
(* multiprocessing.Queue is unbounded for put(): a thread of each process  *)
(* feeds its results into one pipe, and the process can only end when that *)
(* is done.                                                                *)
(*                                                                         *)
(* Abstractions.  The pipe has room for so many results, and they come out *)
(* in any order.  Recipes whose cache entry is valid are not waited for.   *)
(* A change of the base configuration is one more change that makes the    *)
(* parse cache invalid.  A pool that is replaced by the next one is        *)
(* forgotten; its processes are not (README).  A parser process that is    *)
(* killed from outside is left out: nobody notices it.                     *)
(***************************************************************************)
EXTENDS Naturals, FiniteSets

CONSTANTS Recipes,
          Processes,
          Chunks,      \* how chunkify() may deal out what has to be parsed
          Capacity,    \* results that fit the pipe
          Sessions,    \* bound: clients, one after the other
          None

ASSUME ChunksAssumption ==
  \A chunk \in Chunks :
    /\ chunk \in [Processes -> SUBSET Recipes]
    /\ \A p, q \in Processes : p # q => chunk[p] \cap chunk[q] = {}
ASSUME FiniteAssumption == IsFiniteSet(Recipes)
ASSUME BoundsAssumption == Capacity \in Nat \ {0} /\ Sessions \in Nat
ASSUME NoneAssumption == None \notin Recipes

VARIABLES
  state,       \* cooker.state
  valid,       \* cooker.parsecache_valid
  command,     \* currentAsyncCommand: "none", "queued" or "running"
  client,      \* a UI is connected
  sessions,
  main,        \* where the server thread is
  force, next, \* how it shuts the parser down, and what for
  parser,      \* "none", "live" or "shut" (haveshutdown)
  willparse, broken,  \* what has to be parsed, and what fails to
  parsed, error,
  raised,      \* the generator of results is over because it raised
  added,       \* recipes whose result went to the caches
  jobs, doing, \* of each process: its chunk, and what it parses
  buffer,      \* results its thread has not fed into the pipe
  place,       \* "work", "flush" (join_thread()) or "ended"
  pipe         \* result_queue

cooker == <<state, valid, command>>
user == <<client, sessions>>
thread == <<main, force, next>>
pool == <<parser, willparse, broken>>
count == <<parsed, error, raised, added>>
workers == <<jobs, doing, buffer, place>>
vars == <<cooker, user, thread, pool, count, workers, pipe>>

Init ==
  /\ state = "initial" /\ valid = FALSE /\ command = "none"
  /\ client = FALSE /\ sessions = 0
  /\ main = "loop" /\ force = FALSE /\ next = "stop"
  /\ parser = "none" /\ willparse = {} /\ broken = {}
  /\ parsed = 0 /\ error = FALSE /\ raised = FALSE /\ added = {}
  /\ jobs = [p \in Processes |-> {}]
  /\ doing = [p \in Processes |-> None]
  /\ buffer = [p \in Processes |-> {}]
  /\ place = [p \in Processes |-> "ended"]
  /\ pipe = {}

\* Mutant: one result is not waited for
ExhaustedEarly == raised \/ parsed + 1 >= Cardinality(willparse)

\* The generator of results ends
Exhausted == raised \/ parsed >= Cardinality(willparse)

-----------------------------------------------------------------------------
(* CookerParser.shutdown(clean, force) *)

\* Mutant: the reason is taken for the state
ReturnMixed(why, st) ==
  /\ main' = IF why = "exit" THEN "exited" ELSE "loop"
  /\ command' = IF why = "failed" THEN "none" ELSE command
  /\ state' = IF why = "failed" THEN "initial" ELSE why

\* It is over, for whoever called it: a UI or the end of the server, or updateCache(),
\* which raises, so that finishAsyncCommand() is called, or sets the state to running
Return(why, st) ==
  /\ main' = IF why = "exit" THEN "exited" ELSE "loop"
  /\ command' = IF why = "failed" THEN "none" ELSE command
  /\ state' = IF why = "failed" THEN "initial" ELSE IF why = "complete" THEN "running" ELSE st

\* Mutant: a parse that failed waits for its processes
ShutDownGently(st, forced, why) ==
  /\ force' = (forced /\ why # "failed") /\ next' = why
  /\ IF parser = "live" /\ willparse # {}
     THEN parser' = "shut" /\ main' = "drain" /\ state' = st /\ UNCHANGED command
     ELSE Return(why, st) /\ UNCHANGED parser

ShutDown(st, forced, why) ==
  /\ force' = forced /\ next' = why
  /\ IF parser = "live" /\ willparse # {}
     THEN parser' = "shut" /\ main' = "drain" /\ state' = st /\ UNCHANGED command
     ELSE Return(why, st) /\ UNCHANGED parser

Drain ==
  /\ main = "drain"
  /\ \E r \in pipe : pipe' = pipe \ {r}
  /\ UNCHANGED <<cooker, user, thread, pool, count, workers>>

\* Nothing came for a quarter of a second
Drained ==
  /\ main = "drain" /\ pipe = {}
  /\ main' = "join"
  /\ UNCHANGED <<cooker, user, force, next, pool, count, workers, pipe>>

\* Mutant: join(.1) is enough
TerminateNobody == UNCHANGED <<place, doing, buffer>>

Terminate ==
  /\ place' = [p \in Processes |-> "ended"]
  /\ doing' = [p \in Processes |-> None]
  /\ buffer' = [p \in Processes |-> {}]

Joined ==
  /\ main = "join"
  /\ IF force
     THEN Terminate
     ELSE (\A p \in Processes : place[p] = "ended") /\ UNCHANGED <<place, doing, buffer>>
  /\ Return(next, state)
  /\ UNCHANGED <<valid, user, force, next, pool, count, jobs, pipe>>

-----------------------------------------------------------------------------
(* The asynchronous command: runAsyncCommand() and updateCache() *)

\* Somebody asked to stop in the meantime
Refused ==
  /\ main = "loop" /\ command = "queued" /\ state \in {"shutdown", "forceshutdown"}
  /\ ShutDown(state, TRUE, "failed")
  /\ UNCHANGED <<valid, user, willparse, broken, count, workers, pipe>>

\* What the last parse found is used again, or the parse goes on
Resume ==
  /\ main = "loop" /\ command = "queued"
  /\ state = "parsing" \/ (state = "initial" /\ valid)
  /\ state' = "parsing" /\ main' = "parse"
  /\ UNCHANGED <<valid, command, user, force, next, pool, count, workers, pipe>>

\* Reading the configuration or collecting the recipes raises
CannotParse ==
  /\ main = "loop" /\ command = "queued" /\ state = "initial" /\ ~valid
  /\ command' = "none"
  /\ UNCHANGED <<state, valid, user, thread, pool, count, workers, pipe>>

\* CookerParser.__init__ and start()
NewParser ==
  /\ main = "loop" /\ command = "queued" /\ state = "initial" /\ ~valid
  /\ \E chunk \in Chunks :
       /\ jobs' = chunk
       /\ willparse' = UNION {chunk[p] : p \in Processes}
       /\ place' = [p \in Processes |-> IF chunk[p] = {} THEN "ended" ELSE "work"]
  /\ broken' \in SUBSET willparse'
  /\ doing' = [p \in Processes |-> None] /\ buffer' = [p \in Processes |-> {}]
  /\ pipe' = {}
  /\ parser' = "live" /\ parsed' = 0 /\ error' = FALSE /\ raised' = FALSE /\ added' = {}
  /\ valid' = TRUE /\ state' = "parsing" /\ main' = "parse"
  /\ UNCHANGED <<command, user, force, next>>

\* parse_next() has a result
ParseNext ==
  /\ main = "parse" /\ ~Exhausted
  /\ \E r \in pipe :
       /\ pipe' = pipe \ {r}
       /\ IF r \in broken
          THEN /\ error' = TRUE /\ raised' = TRUE
               /\ ShutDown(state, TRUE, "failed")
               /\ UNCHANGED <<parsed, added>>
          ELSE /\ parsed' = parsed + 1 /\ added' = added \cup {r}
               /\ main' = "loop"
               /\ UNCHANGED <<state, command, force, next, parser, error, raised>>
  /\ UNCHANGED <<valid, user, willparse, broken, workers>>

\* StopIteration; what updateCache() still does with the recipes may raise
ParsingComplete ==
  /\ main = "parse" /\ Exhausted
  /\ \E why \in {"failed"} \cup (IF error THEN {} ELSE {"complete"}) : ShutDown(state, FALSE, why)
  /\ UNCHANGED <<valid, user, willparse, broken, count, workers, pipe>>

BuildStarts ==
  /\ main = "loop" /\ command = "queued" /\ state = "running"
  /\ command' = "running"
  /\ UNCHANGED <<state, valid, user, thread, pool, count, workers, pipe>>

BuildEnds ==
  /\ main = "loop" /\ command = "running"
  /\ command' = "none" /\ state' = "initial"
  /\ UNCHANGED <<valid, user, thread, pool, count, workers, pipe>>

-----------------------------------------------------------------------------
(* What happens to the server between two calls of its idle loop *)

Connect ==
  /\ main = "loop" /\ ~client /\ sessions < Sessions
  /\ client' = TRUE /\ sessions' = sessions + 1
  /\ UNCHANGED <<cooker, thread, pool, count, workers, pipe>>

\* buildTargets, or another command that needs the recipes.  UIs leave when a parse
\* was interrupted: with the parser shut down nobody would answer parse_next().
Build ==
  /\ main = "loop" /\ client /\ command = "none"
  /\ (parser = "shut" /\ valid => Exhausted)
  /\ command' = "queued"
  /\ UNCHANGED <<state, valid, user, thread, pool, count, workers, pipe>>

\* stateShutdown and stateForceShutdown
Stop(forced) ==
  /\ main = "loop" /\ client
  /\ ShutDown(IF forced THEN "forceshutdown" ELSE "shutdown", forced, "stop")
  /\ UNCHANGED <<valid, user, willparse, broken, count, workers, pipe>>

\* clientComplete(), whatever the server is doing; the command stays
Leave ==
  /\ main = "loop" /\ client
  /\ client' = FALSE
  /\ state' = "initial" /\ valid' = FALSE
  /\ UNCHANGED <<command, sessions, thread, pool, count, workers, pipe>>

\* inotify tells of a change
Change ==
  /\ main = "loop" /\ valid
  /\ valid' = FALSE
  /\ UNCHANGED <<state, command, user, thread, pool, count, workers, pipe>>

\* sigterm_exception(), between any two steps of the server thread
Sigterm ==
  /\ main # "exited" /\ state' = "forceshutdown"
  /\ UNCHANGED <<valid, command, user, thread, pool, count, workers, pipe>>

\* The server stops without a client: cooker.shutdown(True)
Exit ==
  /\ main = "loop" /\ ~client /\ sessions > 0
  /\ ShutDown("forceshutdown", TRUE, "exit")
  /\ UNCHANGED <<valid, user, willparse, broken, count, workers, pipe>>

-----------------------------------------------------------------------------
(* Parser processes: realrun().  result_queue.put() always has room, so nothing is *)
(* ever pending; get_nowait() may miss the token that is meant for it.             *)

Ready(p) == place[p] = "work" /\ doing[p] = None

Quits(p) ==
  /\ Ready(p) /\ (parser = "shut" \/ jobs[p] = {})
  /\ place' = [place EXCEPT ![p] = "flush"]
  /\ UNCHANGED <<cooker, user, thread, pool, count, jobs, doing, buffer, pipe>>

Parses(p) ==
  /\ Ready(p)
  /\ \E r \in jobs[p] :
       /\ jobs' = [jobs EXCEPT ![p] = @ \ {r}]
       /\ doing' = [doing EXCEPT ![p] = r]
  /\ UNCHANGED <<cooker, user, thread, pool, count, buffer, place, pipe>>

Puts(p) ==
  /\ doing[p] # None
  /\ buffer' = [buffer EXCEPT ![p] = @ \cup {doing[p]}]
  /\ doing' = [doing EXCEPT ![p] = None]
  /\ UNCHANGED <<cooker, user, thread, pool, count, jobs, place, pipe>>

Feeds(p) ==
  /\ Cardinality(pipe) < Capacity
  /\ \E r \in buffer[p] :
       /\ buffer' = [buffer EXCEPT ![p] = @ \ {r}]
       /\ pipe' = pipe \cup {r}
  /\ UNCHANGED <<cooker, user, thread, pool, count, jobs, doing, place>>

Ends(p) ==
  /\ place[p] = "flush" /\ buffer[p] = {}
  /\ place' = [place EXCEPT ![p] = "ended"]
  /\ UNCHANGED <<cooker, user, thread, pool, count, jobs, doing, buffer, pipe>>

-----------------------------------------------------------------------------

Server ==
  \/ Refused \/ Resume \/ CannotParse \/ NewParser \/ ParseNext \/ ParsingComplete \/ BuildStarts
  \/ Drain \/ Drained \/ Joined

Process(p) == Quits(p) \/ Parses(p) \/ Puts(p) \/ Feeds(p) \/ Ends(p)

Next ==
  \/ Server \/ BuildEnds
  \/ Connect \/ Build \/ Stop(TRUE) \/ Stop(FALSE) \/ Leave \/ Change \/ Sigterm \/ Exit
  \/ \E p \in Processes : Process(p)

\* The server thread goes on when it can, and so does every process
Spec ==
  /\ Init /\ [][Next]_vars
  /\ WF_vars(Server)
  /\ \A p \in Processes : WF_vars(Process(p))

-----------------------------------------------------------------------------
(* Correctness *)

TypeOK ==
  /\ state \in {"initial", "parsing", "running", "shutdown", "forceshutdown"}
  /\ valid \in BOOLEAN /\ command \in {"none", "queued", "running"}
  /\ client \in BOOLEAN /\ sessions \in Nat
  /\ main \in {"loop", "parse", "drain", "join", "exited"}
  /\ force \in BOOLEAN /\ next \in {"stop", "failed", "complete", "exit"}
  /\ parser \in {"none", "live", "shut"}
  /\ willparse \subseteq Recipes /\ broken \subseteq willparse
  /\ parsed \in Nat /\ error \in BOOLEAN /\ raised \in BOOLEAN
  /\ added \subseteq willparse
  /\ jobs \in [Processes -> SUBSET willparse]
  /\ doing \in [Processes -> willparse \cup {None}]
  /\ buffer \in [Processes -> SUBSET willparse]
  /\ place \in [Processes -> {"work", "flush", "ended"}]
  /\ pipe \subseteq willparse

\* A build starts on every recipe: the state is only set to running when each result
\* has come and none was an error, whatever was interrupted, drained or left before.
CompleteMeansAll == state = "running" => added = willparse /\ broken = {}

\* Whoever shut the parser down goes on without any process of it alive: they hold the
\* lock of the build directory, which they inherited.
NoneLeft ==
  parser = "shut" /\ main \in {"loop", "exited"} =>
    \A p \in Processes : place[p] = "ended"

\* A parse was stopped without force before its end, and the results that came after
\* the queue was drained fill the pipe
Late ==
  /\ main = "join" /\ next = "stop" /\ ~force
  /\ parsed < Cardinality(willparse) /\ Cardinality(pipe) = Capacity

\* A command that needs the recipes fails, or starts its build, or ends with the server;
\* join() waits for ever for a process only if a parse is stopped without force, and
\* the process then has results that came too late for "Cleanup the queue before call
\* process.join(), otherwise there might be deadlocks" (cooker.py:2152).
CommandEnds ==
  command = "queued" ~> command # "queued" \/ main = "exited" \/ Late
=============================================================================
