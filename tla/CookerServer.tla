---------------------------- MODULE CookerServer ----------------------------
(***************************************************************************)
(* The BitBake server of a build directory (lib/bb/server/process.py) and  *)
(* the clients that find it, start it, use it and stop it (lib/bb/main.py).*)
(* They meet in the lock file bitbake.lock, the socket bitbake.sock and a  *)
(* connection with three pipes.                                            *)
(*                                                                         *)
(* Abstractions.  An attempt at the lock is one step, as LockFile allows:  *)
(* it gets the lock if nobody has it, and it may fail when nobody has it.  *)
(* unlockfile() is one step too.  The three pipes of a connection and its  *)
(* socket are closed together, but for a client that gives up connecting.  *)
(* A client waits for the answer to a command before it sends the next, so *)
(* a command pipe holds at most one.  A server asleep in select() takes no *)
(* step until there is something to read, a job, or a timeout.  `quit' set *)
(* in a loop iteration does not end that iteration.  XML-RPC clients are   *)
(* left out, and so is an idle function that raises SystemExit, which would*)
(* end the server at once: those there are catch it themselves.            *)
(***************************************************************************)
EXTENDS Naturals, Sequences

CONSTANTS Clients,    \* bitbake command lines
          Killers,    \* those with --kill-server
          Servers,    \* bound: server processes, each started at most once
          Timeouts,   \* BB_SERVER_TIMEOUT: "none" (unset or 0), "some", "never" (-1)
          Tries,      \* bound: attempts of each client; the code makes 8
          Backlog,    \* connections listen(1) lets wait
          Kills,      \* bound: clients and servers that are killed
          None

Conns == UNION {{c} \X (1..Tries[c]) : c \in Clients}
Commands == {"setFeatures", "buildTargets", "terminateServer"}

ASSUME KillersAssumption == Killers \subseteq Clients
ASSUME TimeoutsAssumption == Timeouts \subseteq {"none", "some", "never"}
ASSUME BoundsAssumption == Tries \in [Clients -> Nat \ {0}] /\ Backlog \in Nat \ {0} /\ Kills \in Nat
ASSUME NamesAssumption ==
  /\ Clients \cap Servers = {}
  /\ None \notin Clients \cup Servers \cup Conns \cup Commands
  /\ {"missing", "empty"} \cap Servers = {}

VARIABLES
  owner,      \* who has the lock of bitbake.lock
  contents,   \* what bitbake.lock says: "missing", "empty" or the pid of a server
  sockpath,   \* the server that bound bitbake.sock
  at,         \* where each client is
  try,        \* its attempt
  child,      \* the server it started in this attempt
  left,       \* connections their client has closed and the server has not
  sent,       \* connections whose file descriptors are sent and not received
  chan,       \* the command in each command pipe
  answer,     \* the answer in each reply pipe
  pc,         \* where each server is
  timeout,    \* self.timeout, the same for every server
  started,    \* servers that have sent "r"
  quit, hadanyui,
  ready,      \* what select() found readable: "sock", "control", "command"
  backlog,    \* connections not accepted yet
  newconnections, controllersock,
  ui,         \* the connection of command_channel, if haveui
  job,        \* an asynchronous command runs
  saved,      \* lockcontents
  killed, kills

dir == <<owner, contents, sockpath>>
client == <<at, try, child>>
pipes == <<left, sent, chan, answer>>
process == <<pc, timeout, started>>
channel == <<newconnections, controllersock, ui>>
loop == <<quit, hadanyui, ready, backlog, channel, job, saved>>
kill == <<killed, kills>>
vars == <<dir, client, pipes, process, loop, kill>>

Init ==
  /\ owner = None /\ contents = "missing" /\ sockpath = None
  /\ at = [c \in Clients |-> "lock"]
  /\ try = [c \in Clients |-> 1]
  /\ child = [c \in Clients |-> None]
  /\ left = {} /\ sent = {}
  /\ chan = [k \in Conns |-> None] /\ answer = [k \in Conns |-> None]
  /\ pc = [s \in Servers |-> "new"]
  /\ timeout \in Timeouts
  /\ started = {}
  /\ quit = [s \in Servers |-> FALSE] /\ hadanyui = [s \in Servers |-> FALSE]
  /\ ready = [s \in Servers |-> {}]
  /\ backlog = [s \in Servers |-> <<>>] /\ newconnections = [s \in Servers |-> <<>>]
  /\ controllersock = [s \in Servers |-> None] /\ ui = [s \in Servers |-> None]
  /\ job = [s \in Servers |-> FALSE]
  /\ saved = [s \in Servers |-> None]
  /\ killed = {} /\ kills = 0

Members(q) == {q[i] : i \in DOMAIN q}

\* The server end of a connection is open
Served(k) ==
  \E s \in Servers :
    k \in Members(backlog[s]) \cup Members(newconnections[s]) \cup {controllersock[s], ui[s]}

\* The server side of K is closed, with what is in its socket and its command pipe
ServerCloses(K) ==
  /\ left' = left \ K /\ sent' = sent \ K
  /\ chan' = [k \in Conns |-> IF k \in K THEN None ELSE chan[k]]

\* The client side of k is closed; what it sent stays
ClientCloses(k) ==
  /\ left' = IF Served(k) THEN left \cup {k} ELSE left
  /\ answer' = [answer EXCEPT ![k] = None]

GotoC(c, l) == at' = [at EXCEPT ![c] = l]
GotoS(s, l) == pc' = [pc EXCEPT ![s] = l]

Looping == {"accept", "command", "idle"}
Listening == {"boot", "pid"} \cup Looping

\* open(name, 'a+') by who gets the lock
Touched == IF contents = "missing" THEN "empty" ELSE contents

-----------------------------------------------------------------------------
(* Clients: setup_bitbake() *)

Conn(c) == <<c, try[c]>>

\* Mutant: one attempt too many
RetryOnceMore(c) ==
  IF try[c] <= Tries[c]
  THEN try' = [try EXCEPT ![c] = @ + 1] /\ GotoC(c, "lock")
  ELSE GotoC(c, "over") /\ UNCHANGED try

\* An attempt failed
Retry(c) ==
  IF try[c] < Tries[c]
  THEN try' = [try EXCEPT ![c] = @ + 1] /\ GotoC(c, "lock")
  ELSE GotoC(c, "over") /\ UNCHANGED try

\* lockBitbake() got the lock: no server runs
LockBitbake(c) ==
  /\ at[c] = "lock" /\ owner = None
  /\ contents' = Touched
  /\ IF c \in Killers
     THEN GotoC(c, "over") /\ UNCHANGED <<owner, try, child, pc>>
     ELSE \/ \E s \in Servers :
               /\ pc[s] = "new"
               /\ owner' = s
               /\ child' = [child EXCEPT ![c] = s]
               /\ GotoS(s, "bind") /\ GotoC(c, "ready")
               /\ UNCHANGED try
          \/ (\A s \in Servers : pc[s] # "new") /\ Retry(c) /\ UNCHANGED <<owner, child, pc>>
  /\ UNCHANGED <<sockpath, pipes, timeout, started, loop, kill>>

LockBusy(c) ==
  /\ at[c] = "lock"
  /\ GotoC(c, IF sockpath # None THEN "connect" ELSE "wait")
  /\ UNCHANGED <<dir, try, child, pipes, process, loop, kill>>

\* BitBakeServer.__init__ waits on the ready pipe: "r", its end, or 95 seconds
ServerReady(c) ==
  /\ at[c] = "ready"
  /\ \/ child[c] \in started /\ GotoC(c, "connect") /\ UNCHANGED try
     \/ child[c] \notin started /\ Retry(c)
  /\ child' = [child EXCEPT ![c] = None]
  /\ UNCHANGED <<dir, pipes, process, loop, kill>>

\* No lock and no socket: wait for the lock, then let go of it and try again
WaitForLock(c) ==
  /\ at[c] = "wait"
  /\ \/ /\ owner = None
        /\ owner' = c /\ contents' = Touched
        /\ GotoC(c, "release")
        /\ UNCHANGED try
     \/ owner # None /\ Retry(c) /\ UNCHANGED <<owner, contents>>
  /\ UNCHANGED <<sockpath, child, pipes, process, loop, kill>>

WaitReleases(c) ==
  /\ at[c] = "release"
  /\ owner' = None /\ contents' = "missing"
  /\ Retry(c)
  /\ UNCHANGED <<sockpath, child, pipes, process, loop, kill>>

-----------------------------------------------------------------------------
(* Clients: connectProcessServer() and what follows *)

Connect(c) ==
  /\ at[c] = "connect"
  /\ IF sockpath # None /\ pc[sockpath] \in Listening /\ Len(backlog[sockpath]) < Backlog
     THEN /\ backlog' = [backlog EXCEPT ![sockpath] = Append(@, Conn(c))]
          /\ GotoC(c, "send")
          /\ UNCHANGED try
     ELSE Retry(c) /\ UNCHANGED backlog
  /\ UNCHANGED <<dir, child, pipes, process, quit, hadanyui, ready, channel, job, saved, kill>>

\* sendfds() and the command setFeatures
SendFds(c) ==
  /\ at[c] = "send" /\ Served(Conn(c))
  /\ sent' = sent \cup {Conn(c)}
  /\ chan' = [chan EXCEPT ![Conn(c)] = "setFeatures"]
  /\ GotoC(c, "reply")
  /\ UNCHANGED <<dir, try, child, left, answer, process, loop, kill>>

\* The answer to setFeatures; an error is raised as a BaseException, which ends bitbake
Connected(c) ==
  /\ at[c] = "reply" /\ answer[Conn(c)] \in {"done", "error"}
  /\ IF answer[Conn(c)] = "error"
     THEN GotoC(c, "over") /\ ClientCloses(Conn(c))
     ELSE /\ GotoC(c, IF c \in Killers THEN "kill" ELSE "ui")
          /\ answer' = [answer EXCEPT ![Conn(c)] = None]
          /\ UNCHANGED left
  /\ UNCHANGED <<dir, try, child, sent, chan, process, loop, kill>>

ConnectFails(c) ==
  /\ at[c] = "send" /\ ~Served(Conn(c))
  /\ ClientCloses(Conn(c))
  /\ Retry(c)
  /\ UNCHANGED <<dir, child, sent, chan, process, loop, kill>>

\* The connection is broken, or 60 seconds are over, or the answer is one to raise
\* BBHandledException for: the pipes are closed, then the socket
GivesUp(c) ==
  /\ at[c] = "reply" /\ answer[Conn(c)] \in {None, "handled"}
  /\ GotoC(c, "hangup")
  /\ UNCHANGED <<dir, try, child, pipes, process, loop, kill>>

HangUp(c) ==
  /\ at[c] = "hangup"
  /\ ClientCloses(Conn(c))
  /\ Retry(c)
  /\ UNCHANGED <<dir, child, sent, chan, process, loop, kill>>

\* terminateServer(), to which there is no answer, then terminate()
TerminateServer(c) ==
  /\ at[c] = "kill"
  /\ chan' = [chan EXCEPT ![Conn(c)] = IF Served(Conn(c)) THEN "terminateServer" ELSE None]
  /\ GotoC(c, "terminate")
  /\ UNCHANGED <<dir, try, child, left, sent, answer, process, loop, kill>>

Terminate(c) ==
  /\ at[c] = "terminate"
  /\ ClientCloses(Conn(c))
  /\ GotoC(c, "over")
  /\ UNCHANGED <<dir, try, child, sent, chan, process, loop, kill>>

Build(c) ==
  /\ at[c] = "ui" /\ Served(Conn(c))
  /\ chan' = [chan EXCEPT ![Conn(c)] = "buildTargets"]
  /\ GotoC(c, "building")
  /\ UNCHANGED <<dir, try, child, left, sent, answer, process, loop, kill>>

\* The UI ends: done, refused, interrupted, or its server is gone
Leave(c) ==
  /\ at[c] \in {"ui", "building"}
  /\ ClientCloses(Conn(c))
  /\ GotoC(c, "over")
  /\ UNCHANGED <<dir, try, child, sent, chan, process, loop, kill>>

-----------------------------------------------------------------------------
(* Servers: execServer() *)

\* The socket file of a server that was killed is unlinked first
Bind(s) ==
  /\ pc[s] = "bind"
  /\ sockpath' = s
  /\ GotoS(s, "boot")
  /\ UNCHANGED <<owner, contents, client, pipes, timeout, started, loop, kill>>

\* The cooker is there
Started(s) ==
  /\ pc[s] = "boot"
  /\ started' = started \cup {s}
  /\ GotoS(s, "pid")
  /\ UNCHANGED <<dir, client, pipes, timeout, loop, kill>>

WritePid(s) ==
  /\ pc[s] = "pid"
  /\ contents' = s
  /\ GotoS(s, "idle")
  /\ UNCHANGED <<owner, sockpath, client, pipes, timeout, started, loop, kill>>

\* The process ends: the kernel closes what it had open.  The files stay.
Ends(s) ==
  /\ GotoS(s, "ended")
  /\ ServerCloses(Members(backlog[s]) \cup Members(newconnections[s])
                    \cup {controllersock[s], ui[s]})
  /\ ready' = [ready EXCEPT ![s] = {}]
  /\ backlog' = [backlog EXCEPT ![s] = <<>>]
  /\ newconnections' = [newconnections EXCEPT ![s] = <<>>]
  /\ controllersock' = [controllersock EXCEPT ![s] = None]
  /\ ui' = [ui EXCEPT ![s] = None]
  /\ job' = [job EXCEPT ![s] = FALSE]
  /\ quit' = [quit EXCEPT ![s] = FALSE]
  /\ hadanyui' = [hadanyui EXCEPT ![s] = FALSE]
  /\ saved' = [saved EXCEPT ![s] = None]

\* BBHandledException while the cooker is made
BootFails(s) ==
  /\ pc[s] = "boot"
  /\ Ends(s)
  /\ owner' = None
  /\ UNCHANGED <<contents, sockpath, client, answer, timeout, started, kill>>

-----------------------------------------------------------------------------
(* Servers: main() and idle_commands() *)

\* The client has closed its end of the command pipe
HungUp(k) == k \in left \/ (at[k[1]] = "hangup" /\ k = Conn(k[1]))

Readable(s) ==
  {"sock" : x \in Members(backlog[s])}
    \cup {"control" : k \in {controllersock[s]} \cap (sent \cup left)}
    \cup {"command" : k \in {ui[s]} \cap {l \in Conns : HungUp(l) \/ chan[l] # None}}

\* select(), and `while not self.quit'
Select(s) ==
  /\ pc[s] = "idle" /\ (quit[s] \/ Readable(s) # {})
  /\ ready' = [ready EXCEPT ![s] = Readable(s)]
  /\ GotoS(s, IF quit[s] THEN "unlink" ELSE "accept")
  /\ UNCHANGED <<dir, client, pipes, timeout, started, quit, hadanyui, backlog, channel,
                 job, saved, kill>>

\* An idle function returns False, or raises, which stops the server
JobEnds(s) ==
  /\ pc[s] = "idle" /\ job[s]
  /\ job' = [job EXCEPT ![s] = FALSE]
  /\ quit' \in {quit, [quit EXCEPT ![s] = TRUE]}
  /\ UNCHANGED <<dir, client, pipes, process, hadanyui, ready, backlog, channel, saved, kill>>

MayTimeOut(had, u) ==
  \/ timeout = "some" /\ u = None
  \/ timeout = "none" /\ ~had

\* An iteration that only finds that time is up
TimesOut(s) ==
  /\ pc[s] = "idle" /\ Readable(s) = {} /\ ~quit[s] /\ MayTimeOut(hadanyui[s], ui[s])
  /\ quit' = [quit EXCEPT ![s] = TRUE]
  /\ UNCHANGED <<dir, client, pipes, process, hadanyui, ready, backlog, channel, job, saved, kill>>

\* disconnect_client(): the newest waiting connection takes over; without one and
\* without a timeout the server stops, unless select() sees a new connection
DisconnectClient(s, waiting) ==
  /\ ServerCloses({controllersock[s], ui[s]})
  /\ ui' = [ui EXCEPT ![s] = None]
  /\ controllersock' =
       [controllersock EXCEPT ![s] = IF waiting = <<>> THEN None ELSE waiting[Len(waiting)]]
  /\ newconnections' =
       [newconnections EXCEPT ![s] = SubSeq(waiting, 1, Len(waiting) - 1)]

\* Mutant: only a timeout stops the server
StopsNever(waiting, pending) == FALSE

StopsWithoutClient(waiting, pending) == waiting = <<>> /\ pending = <<>> /\ timeout = "none"

\* Connections that wait are accepted: the first becomes the controller unless there
\* is one, the others queue.  Then, if select() saw the controller, recvfds() gives a
\* UI, or fails because the client is gone.  Then the timeouts.
Accepted(s) == IF "sock" \in ready[s] THEN backlog[s] ELSE <<>>

Accept(s) ==
  /\ pc[s] = "accept" /\ "control" \notin ready[s]
  /\ IF controllersock[s] = None /\ Accepted(s) # <<>>
     THEN /\ controllersock' = [controllersock EXCEPT ![s] = Head(Accepted(s))]
          /\ newconnections' = [newconnections EXCEPT ![s] = @ \o Tail(Accepted(s))]
     ELSE /\ newconnections' = [newconnections EXCEPT ![s] = @ \o Accepted(s)]
          /\ UNCHANGED controllersock
  /\ backlog' = [backlog EXCEPT ![s] = IF "sock" \in ready[s] THEN <<>> ELSE @]
  /\ \E late \in {FALSE, MayTimeOut(hadanyui[s], ui[s])} : quit' = [quit EXCEPT ![s] = @ \/ late]
  /\ GotoS(s, "command")
  /\ UNCHANGED <<dir, client, pipes, timeout, started, hadanyui, ready, ui, job, saved, kill>>

ReceiveFds(s) ==
  LET k == controllersock[s] IN
  /\ pc[s] = "accept" /\ "control" \in ready[s] /\ k \in sent
  /\ newconnections' = [newconnections EXCEPT ![s] = @ \o Accepted(s)]
  /\ backlog' = [backlog EXCEPT ![s] = IF "sock" \in ready[s] THEN <<>> ELSE @]
  /\ ui' = [ui EXCEPT ![s] = k]
  /\ sent' = sent \ {k}
  /\ hadanyui' = [hadanyui EXCEPT ![s] = TRUE]
  /\ GotoS(s, "command")
  /\ UNCHANGED <<dir, client, left, chan, answer, timeout, started, quit, ready, controllersock,
                 job, saved, kill>>

ControllerGone(s) ==
  LET waiting == newconnections[s] \o Accepted(s) IN
  /\ pc[s] = "accept" /\ "control" \in ready[s] /\ controllersock[s] \notin sent
  /\ DisconnectClient(s, waiting)
  /\ backlog' = [backlog EXCEPT ![s] = IF "sock" \in ready[s] THEN <<>> ELSE @]
  /\ \E late \in {FALSE, MayTimeOut(hadanyui[s], None)} :
       quit' = [quit EXCEPT ![s] = @ \/ late \/ StopsWithoutClient(waiting, backlog'[s])]
  /\ GotoS(s, "command")
  /\ UNCHANGED <<dir, client, answer, timeout, started, hadanyui, ready, job, saved, kill>>

\* Nobody looks at `ready' again before the next select()
Read(s) == ready' = [ready EXCEPT ![s] = {}]

\* Nothing to read: on to idle_commands()
NoCommand(s) ==
  /\ pc[s] = "command" /\ ("command" \notin ready[s] \/ ui[s] = None)
  /\ Read(s) /\ GotoS(s, "idle")
  /\ UNCHANGED <<dir, client, pipes, timeout, started, quit, hadanyui, backlog, channel,
                 job, saved, kill>>

\* setFeatures is refused while the cooker parses or builds for a client that left, and
\* fails if it resets the cooker and the configuration has an error; an asynchronous
\* command is refused while another runs
Answers(s) ==
  {"done"} \cup (IF job[s] THEN {"error"} ELSE {})
           \cup (IF chan[ui[s]] = "setFeatures" THEN {"handled"} ELSE {})

RunCommand(s) ==
  /\ pc[s] = "command" /\ "command" \in ready[s] /\ ui[s] # None
  /\ chan[ui[s]] \in {"setFeatures", "buildTargets"}
  /\ chan' = [chan EXCEPT ![ui[s]] = None]
  /\ \/ HungUp(ui[s]) /\ UNCHANGED answer
     \/ ~HungUp(ui[s]) /\ \E a \in Answers(s) : answer' = [answer EXCEPT ![ui[s]] = a]
  /\ job' = [job EXCEPT ![s] = @ \/ chan[ui[s]] = "buildTargets"]
  /\ Read(s) /\ GotoS(s, "idle")
  /\ UNCHANGED <<dir, client, left, sent, timeout, started, quit, hadanyui, backlog,
                 channel, saved, kill>>

\* `continue' ends the loop
Terminated(s) ==
  /\ pc[s] = "command" /\ "command" \in ready[s] /\ ui[s] # None
  /\ chan[ui[s]] = "terminateServer"
  /\ chan' = [chan EXCEPT ![ui[s]] = None]
  /\ quit' = [quit EXCEPT ![s] = TRUE]
  /\ Read(s) /\ GotoS(s, "unlink")
  /\ UNCHANGED <<dir, client, left, sent, answer, timeout, started, hadanyui, backlog,
                 channel, job, saved, kill>>

\* EOFError: ready = [], `continue'
ClientGone(s) ==
  /\ pc[s] = "command" /\ "command" \in ready[s] /\ ui[s] # None
  /\ chan[ui[s]] = None
  /\ DisconnectClient(s, newconnections[s])
  /\ Read(s)
  /\ quit' = [quit EXCEPT ![s] = @ \/ StopsWithoutClient(newconnections[s], backlog[s])]
  /\ GotoS(s, IF quit'[s] THEN "unlink" ELSE "idle")
  /\ UNCHANGED <<dir, client, answer, timeout, started, hadanyui, backlog, job, saved, kill>>

-----------------------------------------------------------------------------
(* Servers: the end of main() *)

\* os.unlink(self.sockname), whoever bound it; then the socket is closed
UnlinkSocket(s) ==
  /\ pc[s] = "unlink"
  /\ sockpath' = None
  /\ backlog' = [backlog EXCEPT ![s] = <<>>]
  /\ ServerCloses(Members(backlog[s]))
  /\ GotoS(s, "shutdown")
  /\ UNCHANGED <<owner, contents, client, answer, timeout, started, quit, hadanyui, ready,
                 channel, job, saved, kill>>

\* cooker.shutdown(True), post_serve(), get_lock_contents()
Shutdown(s) ==
  /\ pc[s] = "shutdown"
  /\ job' = [job EXCEPT ![s] = FALSE]
  /\ saved' = [saved EXCEPT ![s] = contents]
  /\ GotoS(s, "unlock")
  /\ UNCHANGED <<dir, client, pipes, timeout, started, quit, hadanyui, ready, backlog, channel, kill>>

\* What the server forked (parsers, the hash server) has the lock file open as well:
\* the lock is free when the last of them has ended
CloseLock(s) ==
  /\ pc[s] = "unlock"
  /\ owner' \in {None, s}
  /\ GotoS(s, "relock")
  /\ UNCHANGED <<contents, sockpath, client, pipes, timeout, started, loop, kill>>

ChildrenEnd(s) ==
  /\ pc[s] \in {"relock", "ended"} /\ owner = s
  /\ owner' = None
  /\ UNCHANGED <<contents, sockpath, client, pipes, process, loop, kill>>

\* Mutant: removed without the lock
RemoveLockFileAnyway(s) ==
  /\ pc[s] = "relock"
  /\ contents' = "missing"
  /\ Ends(s)
  /\ UNCHANGED <<owner, sockpath, client, answer, timeout, started, kill>>

\* The lock again, to remove the file with unlockfile() ...
RemoveLockFile(s) ==
  /\ pc[s] = "relock" /\ owner = None
  /\ contents' = "missing"
  /\ Ends(s)
  /\ UNCHANGED <<owner, sockpath, client, answer, timeout, started, kill>>

\* Mutant: a lock that cannot be had is taken to be that of a new server
LockFileTaken(s) ==
  /\ pc[s] = "relock" /\ owner # None
  /\ Ends(s)
  /\ UNCHANGED <<dir, client, answer, timeout, started, kill>>

\* ... or somebody else has it, and the contents tell that it is a new server
LockFileChanged(s) ==
  /\ pc[s] = "relock" /\ contents # saved[s]
  /\ Ends(s)
  /\ UNCHANGED <<dir, client, answer, timeout, started, kill>>

-----------------------------------------------------------------------------
(* Kills *)

\* What it forked since it runs its loop keeps the lock until it has ended, too
KillServer(s) ==
  /\ kills < Kills /\ pc[s] \notin {"new", "ended"}
  /\ kills' = kills + 1 /\ killed' = killed \cup {s}
  /\ \/ owner' = IF owner = s THEN None ELSE owner
     \/ pc[s] \notin {"bind", "boot", "pid"} /\ UNCHANGED owner
  /\ Ends(s)
  /\ UNCHANGED <<contents, sockpath, client, answer, timeout, started>>

\* Once it has its UI a client that is killed is one that leaves
KillClient(c) ==
  /\ kills < Kills /\ at[c] \notin {"ui", "building", "terminate", "over"}
  /\ kills' = kills + 1
  /\ owner' = IF owner = c THEN None ELSE owner
  /\ ClientCloses(Conn(c))
  /\ GotoC(c, "over")
  /\ UNCHANGED <<contents, sockpath, try, child, sent, chan, process, loop, killed>>

ClientStep(c) ==
  \/ LockBitbake(c) \/ LockBusy(c) \/ ServerReady(c) \/ WaitForLock(c) \/ WaitReleases(c)
  \/ Connect(c) \/ SendFds(c) \/ Connected(c) \/ ConnectFails(c)
  \/ GivesUp(c) \/ HangUp(c)
  \/ TerminateServer(c) \/ Terminate(c) \/ Build(c) \/ Leave(c)

ServerStep(s) ==
  \/ Bind(s) \/ Started(s) \/ WritePid(s) \/ BootFails(s)
  \/ Select(s) \/ JobEnds(s) \/ TimesOut(s)
  \/ Accept(s) \/ ReceiveFds(s) \/ ControllerGone(s) \/ NoCommand(s) \/ RunCommand(s) \/ Terminated(s) \/ ClientGone(s)
  \/ UnlinkSocket(s) \/ Shutdown(s) \/ CloseLock(s) \/ ChildrenEnd(s)
  \/ RemoveLockFile(s) \/ LockFileChanged(s)

Step == (\E c \in Clients : ClientStep(c)) \/ (\E s \in Servers : ServerStep(s))

Next ==
  \/ Step
  \/ \E c \in Clients : KillClient(c)
  \/ \E s \in Servers : KillServer(s)

\* Somebody who can go on does
Spec == Init /\ [][Next]_vars /\ WF_vars(Step)

-----------------------------------------------------------------------------
(* Correctness *)

Queues == Seq(Conns)

TypeOK ==
  /\ owner \in Clients \cup Servers \cup {None}
  /\ contents \in Servers \cup {"missing", "empty"}
  /\ sockpath \in Servers \cup {None}
  /\ at \in [Clients -> {"lock", "ready", "wait", "release", "connect", "send", "reply",
                         "hangup", "ui", "building", "kill", "terminate", "over"}]
  /\ try \in [Clients -> Nat]
  /\ child \in [Clients -> Servers \cup {None}]
  /\ left \subseteq Conns /\ sent \subseteq Conns
  /\ chan \in [Conns -> Commands \cup {None}]
  /\ answer \in [Conns -> {"done", "error", "handled", None}]
  /\ pc \in [Servers -> {"new", "bind", "unlink", "shutdown", "unlock", "relock", "ended"}
                         \cup Listening]
  /\ timeout \in Timeouts
  /\ started \subseteq Servers
  /\ quit \in [Servers -> BOOLEAN] /\ hadanyui \in [Servers -> BOOLEAN]
  /\ ready \in [Servers -> SUBSET {"sock", "control", "command"}]
  /\ backlog \in [Servers -> Queues] /\ newconnections \in [Servers -> Queues]
  /\ controllersock \in [Servers -> Conns \cup {None}]
  /\ ui \in [Servers -> Conns \cup {None}]
  /\ job \in [Servers -> BOOLEAN]
  /\ saved \in [Servers -> Servers \cup {"missing", "empty", None}]
  /\ killed \subseteq Servers /\ kills \in Nat

\* A server has the build directory to itself from its start to the end of its work:
\* the lock, and while it listens the socket that clients find, and once it has written
\* it the pid.  A server that ends deletes both files by name, while the next one starts.
ServesAlone ==
  \A s \in Servers :
    /\ pc[s] \notin {"new", "relock", "ended"} => owner = s
    /\ pc[s] \in Listening => sockpath = s
    /\ pc[s] \in Looping \cup {"unlink", "shutdown", "unlock"} => contents = s

\* "remove the file (hide stale pid data)" (process.py:301): no server that ended by
\* itself leaves its pid behind, whoever takes the lock between its two attempts.
NoStalePid == \A s \in Servers : pc[s] = "ended" /\ s \notin killed => contents # s

\* Servers outlive their last client only for the timeout: none waits for ever in its
\* loop, for a queue it forgot, or for the lock.
ServersEnd ==
  (timeout # "never" /\ \A c \in Clients : at[c] = "over")
    ~> (\A s \in Servers : pc[s] \in {"new", "ended"})
=============================================================================
