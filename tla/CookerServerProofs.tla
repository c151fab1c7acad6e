------------------------- MODULE CookerServerProofs -------------------------
(* One server at a time, no stale pid and the types, for any number of       *)
(* clients and servers, attempts and kills, and for every timeout.           *)
EXTENDS CookerServer, SequenceTheorems, TLAPS

-----------------------------------------------------------------------------
(* The inductive invariant *)

Places == {"new", "bind", "unlink", "shutdown", "unlock", "relock", "ended"} \cup Listening

Shape ==
  /\ pc \in [Servers -> Places]
  /\ saved \in [Servers -> Servers \cup {"missing", "empty", None}]
  /\ at \in [Clients -> {"lock", "ready", "wait", "release", "connect", "send", "reply",
                         "hangup", "ui", "building", "kill", "terminate", "over"}]

HasPid == Looping \cup {"unlink", "shutdown", "unlock"}

\* What a server can rely on at each place; the pid in the file is that of a server
\* that still cares, or that was killed
Claims(s) ==
  /\ pc[s] \notin {"new", "relock", "ended"} => owner = s
  /\ pc[s] \in Listening => sockpath = s
  /\ pc[s] \in HasPid => contents = s
  /\ pc[s] \in {"unlock", "relock"} => saved[s] = s
  /\ contents = s => pc[s] \in HasPid \cup {"relock"} \/ s \in killed

\* A client that waited for the lock has it until it deletes the file
ClientsLock == \A c \in Clients : at[c] = "release" => owner = c

IInv == Shape /\ (\A s \in Servers : Claims(s)) /\ ClientsLock

USE DEF Looping, Listening, HasPid, Places

LEMMA InitInvariant == Init => IInv
  BY NamesAssumption DEF Init, IInv, Shape, Claims, ClientsLock, dir

LEMMA Follows == IInv => ServesAlone /\ NoStalePid
  BY DEF IInv, Claims, ServesAlone, NoStalePid

-----------------------------------------------------------------------------
(* Steps of a client *)

\* What a client does without the lock does not concern the servers
LEMMA ClientMoves ==
  ASSUME IInv, NEW c \in Clients, dir' = dir, pc' = pc, saved' = saved, killed' = killed,
         NEW l \in {"lock", "ready", "wait", "connect", "send", "reply",
                    "hangup", "ui", "building", "kill", "terminate", "over"},
         GotoC(c, l)
  PROVE  IInv'
<1>1. owner' = owner /\ contents' = contents /\ sockpath' = sockpath
  BY DEF dir
<1>2. Shape'
  BY DEF IInv, Shape, GotoC
<1>3. \A s \in Servers : Claims(s)'
  BY <1>1 DEF IInv, Claims
<1>4. ClientsLock'
  BY <1>1 DEF IInv, Shape, ClientsLock, GotoC
<1> QED  BY <1>2, <1>3, <1>4 DEF IInv

LEMMA RetryMoves ==
  ASSUME NEW c \in Clients, Retry(c)
  PROVE  \E l \in {"lock", "over"} : GotoC(c, l)
  BY DEF Retry

LEMMA LockBitbakeKeeps == ASSUME IInv, NEW c \in Clients, LockBitbake(c) PROVE IInv'
<1>1. owner = None /\ contents' = Touched /\ sockpath' = sockpath /\ saved' = saved
        /\ killed' = killed /\ None \notin Clients \cup Servers
  BY NamesAssumption DEF LockBitbake, loop, kill
<1>2. Touched \in Servers => contents = Touched
  BY NamesAssumption DEF Touched
<1>3. \A s \in Servers : pc[s] \in {"new", "relock", "ended"}
  BY <1>1 DEF IInv, Claims, Shape
<1>4. \A d \in Clients : at[d] # "release"
  BY <1>1 DEF IInv, ClientsLock
<1>5. ASSUME owner' = owner, pc' = pc, NEW l \in {"lock", "over"}, GotoC(c, l)
      PROVE  IInv'
  <2>1. Shape'
    BY <1>1, <1>5 DEF IInv, Shape, GotoC
  <2>2. \A s \in Servers : Claims(s)'
    BY <1>1, <1>2, <1>3, <1>5 DEF IInv, Claims
  <2>3. ClientsLock'
    BY <1>4, <1>5 DEF IInv, Shape, ClientsLock, GotoC
  <2> QED  BY <2>1, <2>2, <2>3 DEF IInv
<1>6. ASSUME NEW s \in Servers, pc[s] = "new", owner' = s, GotoS(s, "bind"), GotoC(c, "ready")
      PROVE  IInv'
  <2>1. Shape'
    BY <1>1, <1>6 DEF IInv, Shape, GotoC, GotoS
  <2>2. \A t \in Servers : Claims(t)'
    BY <1>1, <1>2, <1>3, <1>6 DEF IInv, Shape, Claims, GotoS
  <2>3. ClientsLock'
    BY <1>4, <1>6 DEF IInv, Shape, ClientsLock, GotoC
  <2> QED  BY <2>1, <2>2, <2>3 DEF IInv
<1>7. CASE c \in Killers
  BY <1>5, <1>7 DEF LockBitbake
<1>8. CASE c \notin Killers
  BY <1>5, <1>6, <1>8, RetryMoves DEF LockBitbake
<1> QED  BY <1>7, <1>8

LEMMA WaitForLockKeeps == ASSUME IInv, NEW c \in Clients, WaitForLock(c) PROVE IInv'
<1>1. sockpath' = sockpath /\ pc' = pc /\ saved' = saved /\ killed' = killed
  BY DEF WaitForLock, process, loop, kill
<1>2. CASE owner = None /\ owner' = c /\ contents' = Touched /\ GotoC(c, "release")
  <2>1. c \notin Servers /\ None \notin Clients \cup Servers
    BY NamesAssumption
  <2>2. Touched \in Servers => contents = Touched
    BY NamesAssumption DEF Touched
  <2>3. Shape'
    BY <1>1, <1>2 DEF IInv, Shape, GotoC
  <2>4. \A s \in Servers : Claims(s)'
    BY <1>1, <1>2, <2>1, <2>2 DEF IInv, Claims
  <2>5. ClientsLock'
    BY <1>2, <2>1 DEF IInv, Shape, ClientsLock, GotoC
  <2> QED  BY <2>3, <2>4, <2>5 DEF IInv
<1>3. CASE Retry(c) /\ UNCHANGED <<owner, contents>>
  BY <1>1, <1>3, RetryMoves, ClientMoves DEF dir
<1> QED  BY <1>2, <1>3 DEF WaitForLock

\* The client has the lock: no server relies on what it deletes
LEMMA WaitReleasesKeeps == ASSUME IInv, NEW c \in Clients, WaitReleases(c) PROVE IInv'
<1>1. /\ at[c] = "release" /\ owner' = None /\ contents' = "missing"
      /\ sockpath' = sockpath /\ pc' = pc /\ saved' = saved /\ killed' = killed
  BY DEF WaitReleases, process, loop, kill
<1>2. owner = c /\ c \notin Servers /\ "missing" \notin Servers
  BY <1>1, NamesAssumption DEF IInv, ClientsLock
<1>3. PICK l \in {"lock", "over"} : GotoC(c, l)
  BY RetryMoves DEF WaitReleases
<1>4. Shape'
  BY <1>1, <1>3 DEF IInv, Shape, GotoC
<1>5. \A s \in Servers : Claims(s)'
  BY <1>1, <1>2 DEF IInv, Claims
<1>6. ClientsLock'
  BY <1>2, <1>3 DEF IInv, Shape, ClientsLock, GotoC
<1> QED  BY <1>4, <1>5, <1>6 DEF IInv

LEMMA ClientKeeps == ASSUME IInv, NEW c \in Clients, ClientStep(c) PROVE IInv'
<1>1. CASE LockBitbake(c)  BY <1>1, LockBitbakeKeeps
<1>2. CASE LockBusy(c)
  BY <1>2, ClientMoves DEF LockBusy, process, loop, kill
<1>3. CASE ServerReady(c)
  BY <1>3, ClientMoves, RetryMoves DEF ServerReady, process, loop, kill
<1>4. CASE WaitForLock(c)  BY <1>4, WaitForLockKeeps
<1>5. CASE WaitReleases(c)  BY <1>5, WaitReleasesKeeps
<1>6. CASE Connect(c)
  BY <1>6, ClientMoves, RetryMoves DEF Connect, process, kill
<1>7. CASE SendFds(c)
  BY <1>7, ClientMoves DEF SendFds, process, loop, kill
<1>8. CASE Connected(c)
  BY <1>8, ClientMoves DEF Connected, process, loop, kill
<1>9. CASE ConnectFails(c)
  BY <1>9, ClientMoves, RetryMoves DEF ConnectFails, process, loop, kill
<1>10. CASE TerminateServer(c)
  BY <1>10, ClientMoves DEF TerminateServer, process, loop, kill
<1>11. CASE Terminate(c)
  BY <1>11, ClientMoves DEF Terminate, process, loop, kill
<1>12. CASE Build(c)
  BY <1>12, ClientMoves DEF Build, process, loop, kill
<1>13. CASE Leave(c)
  BY <1>13, ClientMoves DEF Leave, process, loop, kill
<1>14. CASE GivesUp(c)
  BY <1>14, ClientMoves DEF GivesUp, process, loop, kill
<1>15. CASE HangUp(c)
  BY <1>15, ClientMoves, RetryMoves DEF HangUp, process, loop, kill
<1> QED
  BY <1>1, <1>2, <1>3, <1>4, <1>5, <1>6, <1>7, <1>8, <1>9, <1>10, <1>11, <1>12, <1>13,
     <1>14, <1>15
  DEF ClientStep

-----------------------------------------------------------------------------
(* Steps of a server *)

\* A server whose claims hold after its step disturbs nobody else's, if the files and
\* the lock stay or it is the one that has the lock
LEMMA ServerMoves ==
  ASSUME IInv, NEW s \in Servers, NEW l \in Places, GotoS(s, l),
         at' = at, killed' = killed, Claims(s)',
         saved' \in [Servers -> Servers \cup {"missing", "empty", None}],
         \A t \in Servers \ {s} : saved'[t] = saved[t],
         dir' = dir \/ (owner = s /\ owner' \in {s, None} /\ contents' \in {contents, s, "missing"})
  PROVE  IInv'
<1>1. Shape'
  BY DEF IInv, Shape, GotoS
<1>2. ASSUME NEW t \in Servers \ {s} PROVE Claims(t)'
  <2>1. pc'[t] = pc[t] /\ saved'[t] = saved[t] /\ "missing" \notin Servers
    BY <1>2, NamesAssumption DEF IInv, Shape, GotoS
  <2>2. CASE dir' = dir
    BY <1>2, <2>1, <2>2 DEF IInv, Claims, dir
  <2>3. CASE owner = s /\ owner' \in {s, None} /\ contents' \in {contents, s, "missing"}
    BY <1>2, <2>1, <2>3 DEF IInv, Claims
  <2> QED  BY <2>2, <2>3
<1>3. ClientsLock'
  BY NamesAssumption DEF IInv, ClientsLock, dir
<1> QED  BY <1>1, <1>2, <1>3 DEF IInv

LEMMA LoopMoves ==
  ASSUME IInv, NEW s \in Servers, pc[s] \in Looping, NEW l \in Looping \cup {"unlink"},
         GotoS(s, l), UNCHANGED <<dir, at, killed, saved>>
  PROVE  IInv'
<1>1. Claims(s)'
  BY DEF IInv, Shape, Claims, GotoS, dir
<1> QED  BY <1>1, ServerMoves DEF IInv, Shape

\* A process that ends: by itself with the lock, or killed, or when it is done
LEMMA EndMoves ==
  ASSUME IInv, NEW s \in Servers, Ends(s), at' = at, sockpath' = sockpath,
         killed' = killed,
         \/ owner' = owner \/ (owner = s /\ owner' = None),
         \/ contents' = contents
         \/ contents' = "missing" /\ owner = None,
         contents' = s => s \in killed
  PROVE  IInv'
<1>0. None \notin Clients \cup Servers /\ "missing" \notin Servers
  BY NamesAssumption
<1>1. /\ pc' = [pc EXCEPT ![s] = "ended"]
      /\ saved' = [saved EXCEPT ![s] = None]
  BY DEF Ends, GotoS
<1>2. Shape'
  BY <1>1 DEF IInv, Shape
<1>3. ASSUME NEW t \in Servers PROVE Claims(t)'
  <2>1. CASE t = s
    BY <1>1, <2>1 DEF IInv, Shape, Claims
  <2>2. CASE t # s
    BY <1>0, <1>1, <2>2 DEF IInv, Shape, Claims
  <2> QED  BY <2>1, <2>2
<1>4. ClientsLock'
  BY <1>0, NamesAssumption DEF IInv, ClientsLock
<1> QED  BY <1>2, <1>3, <1>4 DEF IInv

LEMMA ExecServerKeeps ==
  ASSUME IInv, NEW s \in Servers, Bind(s) \/ Started(s) \/ WritePid(s) \/ BootFails(s)
  PROVE  IInv'
<1>0. s # None /\ "missing" # s
  BY NamesAssumption
<1>1. CASE Bind(s)
  <2>1. Claims(s)'
    BY <1>1 DEF Bind, IInv, Shape, Claims, GotoS, loop, kill
  <2>2. owner = s
    BY <1>1 DEF Bind, IInv, Claims
  <2> QED  BY <1>1, <2>1, <2>2, ServerMoves DEF Bind, IInv, Shape, client, loop, kill
<1>2. CASE Started(s)
  <2>1. Claims(s)'
    BY <1>2 DEF Started, IInv, Shape, Claims, GotoS, loop, kill, dir
  <2> QED  BY <1>2, <2>1, ServerMoves DEF Started, IInv, Shape, client, loop, kill
<1>3. CASE WritePid(s)
  <2>1. Claims(s)'
    BY <1>3 DEF WritePid, IInv, Shape, Claims, GotoS, loop, kill
  <2>2. owner = s
    BY <1>3 DEF WritePid, IInv, Claims
  <2> QED  BY <1>3, <2>1, <2>2, ServerMoves DEF WritePid, IInv, Shape, client, loop, kill
<1>4. CASE BootFails(s)
  <2>1. owner = s /\ (contents = s => s \in killed)
    BY <1>4 DEF BootFails, IInv, Claims
  <2> QED  BY <1>4, <2>1, EndMoves DEF BootFails, client, kill
<1> QED  BY <1>1, <1>2, <1>3, <1>4

LEMMA LoopKeeps ==
  ASSUME IInv, NEW s \in Servers,
         \/ Select(s) \/ JobEnds(s) \/ TimesOut(s) \/ Accept(s) \/ ReceiveFds(s)
         \/ ControllerGone(s) \/ NoCommand(s) \/ RunCommand(s) \/ Terminated(s) \/ ClientGone(s)
  PROVE  IInv'
<1>1. CASE Select(s)
  BY <1>1, LoopMoves DEF Select, client, kill
<1>2. CASE JobEnds(s) \/ TimesOut(s)
  <2>1. UNCHANGED <<dir, at, pc, saved, killed>>
    BY <1>2 DEF JobEnds, TimesOut, client, process, kill
  <2> QED  BY <2>1 DEF IInv, Shape, Claims, ClientsLock, dir
<1>3. CASE Accept(s)
  BY <1>3, LoopMoves DEF Accept, client, kill
<1>4. CASE ReceiveFds(s)
  BY <1>4, LoopMoves DEF ReceiveFds, client, kill
<1>5. CASE ControllerGone(s)
  BY <1>5, LoopMoves DEF ControllerGone, client, kill
<1>6. CASE NoCommand(s)
  BY <1>6, LoopMoves DEF NoCommand, client, kill
<1>7. CASE RunCommand(s)
  BY <1>7, LoopMoves DEF RunCommand, client, kill
<1>8. CASE Terminated(s)
  BY <1>8, LoopMoves DEF Terminated, client, kill
<1>9. CASE ClientGone(s)
  BY <1>9, LoopMoves DEF ClientGone, client, kill
<1> QED  BY <1>1, <1>2, <1>3, <1>4, <1>5, <1>6, <1>7, <1>8, <1>9

LEMMA ExitKeeps ==
  ASSUME IInv, NEW s \in Servers,
         \/ UnlinkSocket(s) \/ Shutdown(s) \/ CloseLock(s) \/ ChildrenEnd(s)
         \/ RemoveLockFile(s) \/ LockFileChanged(s)
  PROVE  IInv'
<1>0. s # None /\ "missing" # s /\ None \notin Clients
  BY NamesAssumption
<1>1. CASE UnlinkSocket(s)
  <2>1. Claims(s)'
    BY <1>1 DEF UnlinkSocket, IInv, Shape, Claims, GotoS, kill
  <2>2. owner = s
    BY <1>1 DEF UnlinkSocket, IInv, Claims
  <2> QED  BY <1>1, <2>1, <2>2, ServerMoves DEF UnlinkSocket, IInv, Shape, client, kill
<1>2. CASE Shutdown(s)
  <2>1. Claims(s)' /\ contents = s
    BY <1>2 DEF Shutdown, IInv, Shape, Claims, GotoS, dir, kill
  <2> QED  BY <1>2, <2>1, ServerMoves DEF Shutdown, IInv, Shape, client, kill
<1>3. CASE CloseLock(s)
  <2>1. Claims(s)'
    BY <1>3 DEF CloseLock, IInv, Shape, Claims, GotoS, loop, kill
  <2>2. owner = s
    BY <1>3 DEF CloseLock, IInv, Claims
  <2> QED  BY <1>3, <2>1, <2>2, ServerMoves DEF CloseLock, IInv, Shape, client, loop, kill
<1>4. CASE RemoveLockFile(s)
  BY <1>0, <1>4, EndMoves DEF RemoveLockFile, client, kill
<1>5. CASE LockFileChanged(s)
  <2>1. contents # s
    BY <1>5 DEF LockFileChanged, IInv, Claims
  <2> QED  BY <1>5, <2>1, EndMoves DEF LockFileChanged, dir, client, kill
<1>6. CASE ChildrenEnd(s)
  <2>1. Claims(s)'
    BY <1>6 DEF ChildrenEnd, IInv, Shape, Claims, process, loop, kill
  <2>2. /\ GotoS(s, pc[s]) /\ pc[s] \in Places /\ owner = s
        /\ UNCHANGED <<at, killed, saved, contents, sockpath>>
    BY <1>6 DEF ChildrenEnd, IInv, Shape, GotoS, client, process, loop, kill
  <2> QED  BY <1>6, <2>1, <2>2, ServerMoves DEF ChildrenEnd, IInv, Shape
<1> QED  BY <1>1, <1>2, <1>3, <1>4, <1>5, <1>6

-----------------------------------------------------------------------------
(* Kills, and the theorems *)

LEMMA KillKeeps ==
  ASSUME IInv, (\E s \in Servers : KillServer(s)) \/ (\E c \in Clients : KillClient(c))
  PROVE  IInv'
<1>0. None \notin Clients \cup Servers /\ Clients \cap Servers = {}
  BY NamesAssumption
<1>1. ASSUME NEW s \in Servers, KillServer(s) PROVE IInv'
  <2>1. /\ Ends(s) /\ at' = at /\ sockpath' = sockpath /\ contents' = contents
        /\ killed' = killed \cup {s}
        /\ owner' = owner \/ (owner = s /\ owner' = None)
    BY <1>1 DEF KillServer, client
  <2>2. pc' = [pc EXCEPT ![s] = "ended"] /\ saved' = [saved EXCEPT ![s] = None]
    BY <2>1 DEF Ends, GotoS
  <2>3. Shape'
    BY <2>1, <2>2 DEF IInv, Shape
  <2>4. ASSUME NEW t \in Servers PROVE Claims(t)'
    <3>1. CASE t = s
      BY <2>1, <2>2, <3>1 DEF IInv, Shape, Claims
    <3>2. CASE t # s
      BY <1>0, <2>1, <2>2, <3>2 DEF IInv, Shape, Claims
    <3> QED  BY <3>1, <3>2
  <2>5. ClientsLock'
    BY <1>0, <2>1 DEF IInv, ClientsLock
  <2> QED  BY <2>3, <2>4, <2>5 DEF IInv
<1>2. ASSUME NEW c \in Clients, KillClient(c) PROVE IInv'
  <2>1. /\ GotoC(c, "over") /\ pc' = pc /\ saved' = saved /\ killed' = killed
        /\ contents' = contents /\ sockpath' = sockpath
        /\ owner' = IF owner = c THEN None ELSE owner
    BY <1>2 DEF KillClient, process, loop
  <2>2. Shape'
    BY <2>1 DEF IInv, Shape, GotoC
  <2>3. \A t \in Servers : Claims(t)'
    BY <1>0, <2>1 DEF IInv, Claims
  <2>4. ClientsLock'
    BY <1>0, <2>1 DEF IInv, Shape, ClientsLock, GotoC
  <2> QED  BY <2>2, <2>3, <2>4 DEF IInv
<1> QED  BY <1>1, <1>2

LEMMA NextInvariant == IInv /\ [Next]_vars => IInv'
<1> SUFFICES ASSUME IInv, [Next]_vars PROVE IInv'
  OBVIOUS
<1>1. ASSUME NEW c \in Clients, ClientStep(c) PROVE IInv'
  BY <1>1, ClientKeeps
<1>2. ASSUME NEW s \in Servers, ServerStep(s) PROVE IInv'
  BY <1>2, ExecServerKeeps, LoopKeeps, ExitKeeps DEF ServerStep
<1>3. CASE UNCHANGED vars
  BY <1>3 DEF vars, dir, client, process, loop, kill, IInv, Shape, Claims, ClientsLock
<1> QED  BY <1>1, <1>2, <1>3, KillKeeps DEF Next, Step

LEMMA Invariant == Spec => []IInv
<1>1. Init => IInv  BY InitInvariant
<1>2. IInv /\ [Next]_vars => IInv'  BY NextInvariant
<1> QED  BY <1>1, <1>2, PTL DEF Spec

\* From its start to the end of its work a server is the only one of its build
\* directory: it has the lock, the socket at the path is its own and so is the pid.
THEOREM ServesAloneAlways == Spec => []ServesAlone
<1>1. IInv => ServesAlone  BY Follows
<1> QED  BY <1>1, Invariant, PTL

\* A server that was not killed never leaves its pid in the lock file, although it
\* gives up the lock before it deletes the file.
THEOREM NoStalePidAlways == Spec => []NoStalePid
<1>1. IInv => NoStalePid  BY Follows
<1> QED  BY <1>1, Invariant, PTL

-----------------------------------------------------------------------------
(* Types *)

\* Every client is at one of its attempts, so that its connection is one of Conns
TypesInv == TypeOK /\ \A c \in Clients : try[c] \in 1..Tries[c]

LEMMA ConnsMembers ==
  ASSUME TypesInv, NEW c \in Clients
  PROVE  Conn(c) \in Conns
BY DEF TypesInv, Conn, Conns

\* A client that failed has one attempt more or is over
LEMMA RetryTypes ==
  ASSUME TypesInv, NEW c \in Clients, Retry(c)
  PROVE  /\ try' \in [Clients -> Nat] /\ \A d \in Clients : try'[d] \in 1..Tries[d]
         /\ \E l \in {"lock", "over"} : GotoC(c, l)
<1>1. Tries[c] \in Nat /\ try[c] \in 1..Tries[c] /\ try \in [Clients -> Nat]
  BY BoundsAssumption DEF TypesInv, TypeOK
<1>2. CASE try[c] < Tries[c]
  <2>1. try[c] + 1 \in 1..Tries[c] /\ try[c] + 1 \in Nat
    BY <1>1, <1>2
  <2>2. try' = [try EXCEPT ![c] = try[c] + 1] /\ GotoC(c, "lock")
    BY <1>2 DEF Retry
  <2>3. QED
    BY <1>1, <2>1, <2>2 DEF TypesInv
<1>3. CASE ~(try[c] < Tries[c])
  BY <1>1, <1>3 DEF Retry, TypesInv
<1>4. QED
  BY <1>2, <1>3

LEMMA ClientClosesTypes ==
  ASSUME TypesInv, NEW c \in Clients, ClientCloses(Conn(c))
  PROVE  left' \subseteq Conns /\ answer' \in [Conns -> {"done", "error", "handled", None}]
BY ConnsMembers DEF ClientCloses, TypesInv, TypeOK

LEMMA ServerClosesTypes ==
  ASSUME TypesInv, NEW K, ServerCloses(K)
  PROVE  /\ left' \subseteq Conns /\ sent' \subseteq Conns
         /\ chan' \in [Conns -> Commands \cup {None}]
BY DEF ServerCloses, TypesInv, TypeOK

\* What the program does with its queues of connections
LEMMA QueueTypes ==
  ASSUME NEW q \in Seq(Conns)
  PROVE  /\ q # <<>> => Head(q) \in Conns /\ Tail(q) \in Seq(Conns)
         /\ q # <<>> => q[Len(q)] \in Conns
         /\ SubSeq(q, 1, Len(q) - 1) \in Seq(Conns)
         /\ \A k \in Conns : Append(q, k) \in Seq(Conns)
         /\ \A p \in Seq(Conns) : q \o p \in Seq(Conns)
<1>1. Len(q) \in Nat /\ \A i \in 1..Len(q) : q[i] \in Conns
  OBVIOUS
<1>2. \A i \in 1..(Len(q) - 1) : q[i] \in Conns
  BY <1>1
<1>3. SubSeq(q, 1, Len(q) - 1) \in Seq(Conns)
  BY <1>1, <1>2, SubSeqProperties
<1>4. QED
  BY <1>1, <1>3

LEMMA EndsTypes ==
  ASSUME TypesInv, NEW s \in Servers, Ends(s)
  PROVE  /\ pc' \in [Servers -> Places]
         /\ left' \subseteq Conns /\ sent' \subseteq Conns
         /\ chan' \in [Conns -> Commands \cup {None}]
         /\ ready' \in [Servers -> SUBSET {"sock", "control", "command"}]
         /\ backlog' \in [Servers -> Queues] /\ newconnections' \in [Servers -> Queues]
         /\ controllersock' \in [Servers -> Conns \cup {None}]
         /\ ui' \in [Servers -> Conns \cup {None}]
         /\ job' \in [Servers -> BOOLEAN]
         /\ quit' \in [Servers -> BOOLEAN] /\ hadanyui' \in [Servers -> BOOLEAN]
         /\ saved' \in [Servers -> Servers \cup {"missing", "empty", None}]
<1>1. /\ left' \subseteq Conns /\ sent' \subseteq Conns
      /\ chan' \in [Conns -> Commands \cup {None}]
  BY ServerClosesTypes DEF Ends
<1>2. <<>> \in Queues
  BY DEF Queues
<1>3. QED
  BY <1>1, <1>2 DEF Ends, GotoS, TypesInv, TypeOK

\* The newest waiting connection becomes the controller
LEMMA DisconnectTypes ==
  ASSUME TypesInv, NEW s \in Servers, NEW waiting \in Queues, DisconnectClient(s, waiting)
  PROVE  /\ left' \subseteq Conns /\ sent' \subseteq Conns
         /\ chan' \in [Conns -> Commands \cup {None}]
         /\ newconnections' \in [Servers -> Queues]
         /\ controllersock' \in [Servers -> Conns \cup {None}]
         /\ ui' \in [Servers -> Conns \cup {None}]
<1>1. /\ left' \subseteq Conns /\ sent' \subseteq Conns
      /\ chan' \in [Conns -> Commands \cup {None}]
  BY ServerClosesTypes DEF DisconnectClient
<1>2. /\ SubSeq(waiting, 1, Len(waiting) - 1) \in Queues
      /\ waiting # <<>> => waiting[Len(waiting)] \in Conns
  BY QueueTypes DEF Queues
<1>3. QED
  BY <1>1, <1>2 DEF DisconnectClient, TypesInv, TypeOK

LEMMA AcceptedTypes ==
  ASSUME TypesInv, NEW s \in Servers
  PROVE  /\ Accepted(s) \in Queues
         /\ newconnections[s] \o Accepted(s) \in Queues
         /\ Accepted(s) # <<>> => /\ Head(Accepted(s)) \in Conns
                                  /\ newconnections[s] \o Tail(Accepted(s)) \in Queues
         /\ <<>> \in Queues
<1>1. <<>> \in Queues /\ backlog[s] \in Queues /\ newconnections[s] \in Queues
  BY DEF TypesInv, TypeOK, Queues
<1>2. Accepted(s) \in Queues
  BY <1>1 DEF Accepted
<1>3. QED
  BY <1>1, <1>2, QueueTypes DEF Queues

LEMMA ClientTypes ==
  ASSUME TypesInv, NEW c \in Clients, ClientStep(c)
  PROVE  TypesInv'
<1> USE DEF TypesInv, dir, client, pipes, process, channel, loop, kill
<1>t. Touched \in Servers \cup {"missing", "empty"}
  BY DEF Touched, TypeOK
<1>k. Conn(c) \in Conns
  BY ConnsMembers
<1>1. CASE LockBitbake(c)
  <2>1. CASE c \in Killers
    BY <1>1, <1>t, <2>1 DEF LockBitbake, GotoC, TypeOK
  <2>2. CASE \E s \in Servers :
               /\ pc[s] = "new" /\ owner' = s /\ child' = [child EXCEPT ![c] = s]
               /\ GotoS(s, "bind") /\ GotoC(c, "ready") /\ UNCHANGED try
    BY <1>1, <1>t, <2>2 DEF LockBitbake, GotoC, GotoS, TypeOK
  <2>3. CASE Retry(c) /\ UNCHANGED <<owner, child, pc>>
    BY <1>1, <1>t, <2>3, RetryTypes DEF LockBitbake, GotoC, TypeOK
  <2>4. QED
    BY <1>1, <2>1, <2>2, <2>3 DEF LockBitbake
<1>2. CASE LockBusy(c)
  BY <1>2 DEF LockBusy, GotoC, TypeOK
<1>3. CASE ServerReady(c)
  <2>1. /\ try' \in [Clients -> Nat] /\ \A d \in Clients : try'[d] \in 1..Tries[d]
        /\ \E l \in {"lock", "over", "connect"} : GotoC(c, l)
    BY <1>3, RetryTypes DEF ServerReady, TypeOK
  <2>2. QED
    BY <1>3, <2>1 DEF ServerReady, GotoC, TypeOK
<1>4. CASE WaitForLock(c)
  <2>1. /\ try' \in [Clients -> Nat] /\ \A d \in Clients : try'[d] \in 1..Tries[d]
        /\ \E l \in {"lock", "over", "release"} : GotoC(c, l)
    BY <1>4, RetryTypes DEF WaitForLock, TypeOK
  <2>2. QED
    BY <1>4, <1>t, <2>1 DEF WaitForLock, GotoC, TypeOK
<1>5. CASE WaitReleases(c)
  BY <1>5, RetryTypes DEF WaitReleases, GotoC, TypeOK
<1>6. CASE Connect(c)
  <2>1. /\ try' \in [Clients -> Nat] /\ \A d \in Clients : try'[d] \in 1..Tries[d]
        /\ \E l \in {"lock", "over", "send"} : GotoC(c, l)
    BY <1>6, RetryTypes DEF Connect, TypeOK
  <2>2. backlog' \in [Servers -> Queues]
    <3>1. \A s \in Servers : Append(backlog[s], Conn(c)) \in Queues
      BY <1>k, QueueTypes DEF TypeOK, Queues
    <3>2. CASE backlog' = backlog
      BY <3>2 DEF TypeOK
    <3>3. CASE /\ sockpath # None
               /\ backlog' = [backlog EXCEPT ![sockpath] = Append(@, Conn(c))]
      <4> DEFINE q == Append(backlog[sockpath], Conn(c))
      <4>1. q \in Queues
        BY <3>1, <3>3 DEF TypeOK
      <4>2. backlog' = [backlog EXCEPT ![sockpath] = q]
        BY <3>3
      <4> HIDE DEF q
      <4>3. QED
        BY <4>1, <4>2 DEF TypeOK
    <3>4. QED
      BY <1>6, <3>2, <3>3 DEF Connect
  <2>3. QED
    BY <1>6, <2>1, <2>2 DEF Connect, GotoC, TypeOK
<1>7. CASE SendFds(c)
  BY <1>7, <1>k DEF SendFds, GotoC, TypeOK, Commands
<1>8. CASE Connected(c)
  <2>1. left' \subseteq Conns /\ answer' \in [Conns -> {"done", "error", "handled", None}]
    BY <1>8, <1>k, ClientClosesTypes DEF Connected, TypeOK
  <2>2. \E l \in {"over", "kill", "ui"} : GotoC(c, l)
    BY <1>8 DEF Connected
  <2>3. QED
    BY <1>8, <2>1, <2>2 DEF Connected, GotoC, TypeOK
<1>9. CASE ConnectFails(c)
  BY <1>9, RetryTypes, ClientClosesTypes DEF ConnectFails, GotoC, TypeOK
<1>10. CASE GivesUp(c)
  BY <1>10 DEF GivesUp, GotoC, TypeOK
<1>11. CASE HangUp(c)
  BY <1>11, RetryTypes, ClientClosesTypes DEF HangUp, GotoC, TypeOK
<1>12. CASE TerminateServer(c)
  BY <1>12, <1>k DEF TerminateServer, GotoC, TypeOK, Commands
<1>13. CASE Terminate(c)
  BY <1>13, ClientClosesTypes DEF Terminate, GotoC, TypeOK
<1>14. CASE Build(c)
  BY <1>14, <1>k DEF Build, GotoC, TypeOK, Commands
<1>15. CASE Leave(c)
  BY <1>15, ClientClosesTypes DEF Leave, GotoC, TypeOK
<1>16. QED
  BY <1>1, <1>2, <1>3, <1>4, <1>5, <1>6, <1>7, <1>8, <1>9, <1>10, <1>11, <1>12, <1>13,
     <1>14, <1>15
  DEF ClientStep

LEMMA ServerTypes ==
  ASSUME TypesInv, NEW s \in Servers, ServerStep(s)
  PROVE  TypesInv'
<1> USE DEF TypesInv, dir, client, pipes, process, channel, loop, kill
<1>a. /\ Accepted(s) \in Queues
      /\ newconnections[s] \o Accepted(s) \in Queues
      /\ Accepted(s) # <<>> => /\ Head(Accepted(s)) \in Conns
                               /\ newconnections[s] \o Tail(Accepted(s)) \in Queues
      /\ <<>> \in Queues
  BY AcceptedTypes
<1>1. CASE Bind(s)
  BY <1>1 DEF Bind, GotoS, TypeOK
<1>2. CASE Started(s)
  BY <1>2 DEF Started, GotoS, TypeOK
<1>3. CASE WritePid(s)
  BY <1>3 DEF WritePid, GotoS, TypeOK
<1>4. CASE BootFails(s)
  BY <1>4, EndsTypes DEF BootFails, TypeOK
<1>5. CASE Select(s)
  <2>1. Readable(s) \in SUBSET {"sock", "control", "command"}
    BY DEF Readable
  <2>2. QED
    BY <1>5, <2>1 DEF Select, GotoS, TypeOK
<1>6. CASE JobEnds(s)
  BY <1>6 DEF JobEnds, TypeOK
<1>7. CASE TimesOut(s)
  BY <1>7 DEF TimesOut, TypeOK
<1>8. CASE Accept(s)
  <2>1. /\ newconnections' \in [Servers -> Queues]
        /\ controllersock' \in [Servers -> Conns \cup {None}]
    <3> DEFINE q == newconnections[s] \o Tail(Accepted(s))
               p == newconnections[s] \o Accepted(s)
               k == Head(Accepted(s))
    <3>1. \/ /\ Accepted(s) # <<>> /\ controllersock' = [controllersock EXCEPT ![s] = k]
             /\ newconnections' = [newconnections EXCEPT ![s] = q]
          \/ /\ newconnections' = [newconnections EXCEPT ![s] = p]
             /\ UNCHANGED controllersock
      BY <1>8 DEF Accept
    <3>2. p \in Queues /\ (Accepted(s) # <<>> => k \in Conns /\ q \in Queues)
      BY <1>a
    <3>3. /\ newconnections \in [Servers -> Queues]
          /\ controllersock \in [Servers -> Conns \cup {None}]
      BY DEF TypeOK
    <3> HIDE DEF p, q, k, TypesInv
    <3>4. controllersock' \in [Servers -> Conns \cup {None}]
      BY <3>1, <3>2, <3>3
    <3>5. newconnections' \in [Servers -> Queues]
      BY <3>1, <3>2, <3>3
    <3>6. QED
      BY <3>4, <3>5
  <2>2. backlog' \in [Servers -> Queues]
    BY <1>8, <1>a DEF Accept, TypeOK
  <2>3. quit' \in [Servers -> BOOLEAN]
    BY <1>8 DEF Accept, MayTimeOut, TypeOK
  <2>4. QED
    BY <1>8, <2>1, <2>2, <2>3 DEF Accept, GotoS, TypeOK
<1>9. CASE ReceiveFds(s)
  <2>1. /\ newconnections' \in [Servers -> Queues] /\ backlog' \in [Servers -> Queues]
    BY <1>9, <1>a DEF ReceiveFds, TypeOK
  <2>2. controllersock[s] \in Conns
    BY <1>9 DEF ReceiveFds, TypeOK
  <2>3. QED
    BY <1>9, <2>1, <2>2 DEF ReceiveFds, GotoS, TypeOK
<1>10. CASE ControllerGone(s)
  <2>1. DisconnectClient(s, newconnections[s] \o Accepted(s))
    BY <1>10 DEF ControllerGone
  <2>2. backlog' \in [Servers -> Queues]
    BY <1>10, <1>a DEF ControllerGone, TypeOK
  <2>3. quit' \in [Servers -> BOOLEAN]
    <3>1. PICK b : quit' = [quit EXCEPT ![s] = quit[s] \/ b]
      BY <1>10 DEF ControllerGone
    <3> DEFINE q == quit[s] \/ b
    <3>2. q \in BOOLEAN
      OBVIOUS
    <3>3. quit' = [quit EXCEPT ![s] = q]
      BY <3>1
    <3> HIDE DEF q
    <3>4. QED
      BY <3>2, <3>3 DEF TypeOK
  <2>4. /\ left' \subseteq Conns /\ sent' \subseteq Conns
        /\ chan' \in [Conns -> Commands \cup {None}]
        /\ newconnections' \in [Servers -> Queues]
        /\ controllersock' \in [Servers -> Conns \cup {None}]
        /\ ui' \in [Servers -> Conns \cup {None}]
    BY <1>a, <2>1, DisconnectTypes
  <2>5. QED
    BY <1>10, <2>2, <2>3, <2>4 DEF ControllerGone, GotoS, TypeOK
<1>11. CASE NoCommand(s)
  BY <1>11 DEF NoCommand, Read, GotoS, TypeOK
<1>12. CASE RunCommand(s)
  <2>1. ui[s] \in Conns
    BY <1>12 DEF RunCommand, TypeOK
  <2>2. answer' \in [Conns -> {"done", "error", "handled", None}]
    BY <1>12, <2>1 DEF RunCommand, Answers, TypeOK
  <2>3. chan' \in [Conns -> Commands \cup {None}]
    BY <1>12, <2>1 DEF RunCommand, TypeOK
  <2>4. job' \in [Servers -> BOOLEAN]
    BY <1>12 DEF RunCommand, TypeOK
  <2>5. QED
    BY <1>12, <2>2, <2>3, <2>4 DEF RunCommand, Read, GotoS, TypeOK
<1>13. CASE Terminated(s)
  <2>1. chan' \in [Conns -> Commands \cup {None}]
    BY <1>13 DEF Terminated, TypeOK
  <2>2. QED
    BY <1>13, <2>1 DEF Terminated, Read, GotoS, TypeOK
<1>14. CASE ClientGone(s)
  <2>1. newconnections[s] \in Queues
    BY DEF TypeOK
  <2>2. /\ left' \subseteq Conns /\ sent' \subseteq Conns
        /\ chan' \in [Conns -> Commands \cup {None}]
        /\ newconnections' \in [Servers -> Queues]
        /\ controllersock' \in [Servers -> Conns \cup {None}]
        /\ ui' \in [Servers -> Conns \cup {None}]
    BY <1>14, <2>1, DisconnectTypes DEF ClientGone
  <2>3. quit' \in [Servers -> BOOLEAN]
    <3>1. PICK b : quit' = [quit EXCEPT ![s] = quit[s] \/ b]
      BY <1>14 DEF ClientGone
    <3> DEFINE q == quit[s] \/ b
    <3>2. q \in BOOLEAN
      OBVIOUS
    <3>3. quit' = [quit EXCEPT ![s] = q]
      BY <3>1
    <3> HIDE DEF q
    <3>4. QED
      BY <3>2, <3>3 DEF TypeOK
  <2>4. \E l \in {"unlink", "idle"} : GotoS(s, l)
    BY <1>14 DEF ClientGone
  <2>5. QED
    BY <1>14, <2>2, <2>3, <2>4 DEF ClientGone, Read, GotoS, TypeOK
<1>15. CASE UnlinkSocket(s)
  <2>1. /\ left' \subseteq Conns /\ sent' \subseteq Conns
        /\ chan' \in [Conns -> Commands \cup {None}]
    BY <1>15, ServerClosesTypes DEF UnlinkSocket
  <2>2. QED
    BY <1>15, <1>a, <2>1 DEF UnlinkSocket, GotoS, TypeOK
<1>16. CASE Shutdown(s)
  BY <1>16 DEF Shutdown, GotoS, TypeOK
<1>17. CASE CloseLock(s)
  BY <1>17 DEF CloseLock, GotoS, TypeOK
<1>18. CASE RemoveLockFile(s)
  BY <1>18, EndsTypes DEF RemoveLockFile, TypeOK
<1>19. CASE LockFileChanged(s)
  BY <1>19, EndsTypes DEF LockFileChanged, TypeOK
<1>20. CASE ChildrenEnd(s)
  BY <1>20 DEF ChildrenEnd, process, loop, channel, kill, TypeOK
<1>21. QED
  BY <1>1, <1>2, <1>3, <1>4, <1>5, <1>6, <1>7, <1>8, <1>9, <1>10, <1>11, <1>12, <1>13,
     <1>14, <1>15, <1>16, <1>17, <1>18, <1>19, <1>20
  DEF ServerStep

LEMMA NextTypes == TypesInv /\ [Next]_vars => TypesInv'
<1> SUFFICES ASSUME TypesInv, [Next]_vars PROVE TypesInv'
  OBVIOUS
<1>1. ASSUME NEW s \in Servers, KillServer(s) PROVE TypesInv'
  BY <1>1, EndsTypes DEF KillServer, client, TypesInv, TypeOK
<1>2. ASSUME NEW c \in Clients, KillClient(c) PROVE TypesInv'
  BY <1>2, ClientClosesTypes
  DEF KillClient, GotoC, process, loop, channel, TypesInv, TypeOK
<1>3. CASE UNCHANGED vars
  BY <1>3 DEF vars, dir, client, pipes, process, loop, channel, kill, TypesInv, TypeOK
<1>4. QED
  BY <1>1, <1>2, <1>3, ClientTypes, ServerTypes DEF Next, Step

\* Every variable keeps its type: no client tries more often than it may, a queue
\* holds connections, and the loop takes no connection out of an empty queue.
THEOREM TypesAlways == Spec => []TypeOK
<1>1. Init => TypesInv
  BY BoundsAssumption DEF Init, TypesInv, TypeOK, Queues
<1>2. TypesInv /\ [Next]_vars => TypesInv'
  BY NextTypes
<1>3. TypesInv => TypeOK
  BY DEF TypesInv
<1>4. QED
  BY <1>1, <1>2, <1>3, PTL DEF Spec
=============================================================================
