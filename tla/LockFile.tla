------------------------------ MODULE LockFile ------------------------------
(***************************************************************************)
(* lockfile() and unlockfile() of lib/bb/utils.py: an advisory flock on a  *)
(* file that its last holder deletes.  Deleting means that a process can   *)
(* be granted the lock of a file that is no longer the one at the path; so *)
(* the code compares inodes once it has the lock.                          *)
(*                                                                         *)
(* One path.  An inode is free for a new file when the path does not name  *)
(* it and nobody has it open.  exists() and stat() are one step: the path  *)
(* never comes back to an inode it has left while that is open, so what the*)
(* two could see between them ends alike.  LOCK_UN and close() are one     *)
(* step too: nobody observes an open file without a lock.                  *)
(***************************************************************************)
EXTENDS Naturals

CONSTANTS Procs,
          Inodes,
          Ways,      \* the arguments lockfile() is called with
          Kills,     \* bound: how many processes are killed
          NoFile     \* no inode

Way == [shared : BOOLEAN, retry : BOOLEAN, block : BOOLEAN]

ASSUME WaysAssumption == Ways \subseteq Way /\ Ways # {}
ASSUME NoFileAssumption == NoFile \notin Inodes
ASSUME BoundAssumption == Kills \in Nat

VARIABLES
  path,   \* the inode the path names
  pc,     \* where each process is in lockfile() or unlockfile()
  way,    \* the arguments of its call
  file,   \* the inode it has open
  lock,   \* the lock it has on that: "none", "shared" or "exclusive"
  kills

vars == <<path, pc, way, file, lock, kills>>

Init ==
  /\ path = NoFile
  /\ pc = [p \in Procs |-> "idle"]
  /\ way = [p \in Procs |-> CHOOSE w \in Ways : TRUE]
  /\ file = [p \in Procs |-> NoFile]
  /\ lock = [p \in Procs |-> "none"]
  /\ kills = 0

Goto(p, l) == pc' = [pc EXCEPT ![p] = l]

\* flock() by p on its file would not have to wait
Grantable(p, kind) ==
  \A q \in Procs \ {p} :
    file[q] = file[p] =>
      lock[q] = "none" \/ (kind = "shared" /\ lock[q] = "shared")

\* The file is closed, and the kernel drops the lock
Close(p) ==
  /\ file' = [file EXCEPT ![p] = NoFile]
  /\ lock' = [lock EXCEPT ![p] = "none"]

Kind(p) == IF way[p].shared THEN "shared" ELSE "exclusive"

-----------------------------------------------------------------------------
(* lockfile(name, shared, retry, block) *)

Call(p) ==
  /\ pc[p] = "idle"
  /\ \E w \in Ways : way' = [way EXCEPT ![p] = w]
  /\ Goto(p, "open")
  /\ UNCHANGED <<path, file, lock, kills>>

\* open(name, 'a+') creates what is not there
Open(p) ==
  /\ pc[p] = "open"
  /\ \/ path # NoFile /\ UNCHANGED path
     \/ /\ path = NoFile
        /\ path' \in {i \in Inodes : \A q \in Procs : file[q] # i}
  /\ file' = [file EXCEPT ![p] = path']
  /\ Goto(p, "flock")
  /\ UNCHANGED <<way, lock, kills>>

Flock(p) ==
  /\ pc[p] = "flock" /\ Grantable(p, Kind(p))
  /\ lock' = [lock EXCEPT ![p] = Kind(p)]
  /\ Goto(p, "compare")
  /\ UNCHANGED <<path, way, file, kills>>

\* LOCK_NB: given up at once
WouldBlock(p) ==
  /\ pc[p] = "flock" /\ ~Grantable(p, Kind(p)) /\ ~way[p].retry /\ ~way[p].block
  /\ Close(p)
  /\ Goto(p, "idle")
  /\ UNCHANGED <<path, way, kills>>

\* Mutant: the lock is taken to be the lock of the path
CompareNothing(p) ==
  /\ pc[p] = "compare"
  /\ Goto(p, "held")
  /\ UNCHANGED <<path, way, file, lock, kills>>

\* Is what was locked still what the path names?
Compare(p) ==
  /\ pc[p] = "compare"
  /\ \/ path = file[p] /\ Goto(p, "held") /\ UNCHANGED <<file, lock>>
     \/ path # file[p] /\ Goto(p, IF way[p].retry THEN "open" ELSE "idle") /\ Close(p)
  /\ UNCHANGED <<path, way, kills>>

-----------------------------------------------------------------------------
(* unlockfile(lf) *)

\* Mutant: the file is removed whether or not the lock became exclusive
PromoteIgnored(p) ==
  /\ pc[p] = "held"
  /\ lock' = [lock EXCEPT ![p] = IF Grantable(p, "exclusive") THEN "exclusive" ELSE "none"]
  /\ Goto(p, "unlink")
  /\ UNCHANGED <<path, way, file, kills>>

\* Mutant: no promotion, a shared lock leaves the file alone
PromoteExclusiveOnly(p) ==
  /\ pc[p] = "held"
  /\ Goto(p, IF lock[p] = "exclusive" THEN "unlink" ELSE "release")
  /\ UNCHANGED <<path, way, file, lock, kills>>

\* LOCK_EX | LOCK_NB on a lock that may be shared: it becomes exclusive at once or
\* is lost, and then the file stays.
Promote(p) ==
  /\ pc[p] = "held"
  /\ IF Grantable(p, "exclusive")
     THEN lock' = [lock EXCEPT ![p] = "exclusive"] /\ Goto(p, "unlink")
     ELSE lock' = [lock EXCEPT ![p] = "none"] /\ Goto(p, "release")
  /\ UNCHANGED <<path, way, file, kills>>

\* os.unlink(lf.name): whatever has that name now
Unlink(p) ==
  /\ pc[p] = "unlink"
  /\ path' = NoFile
  /\ Goto(p, "release")
  /\ UNCHANGED <<way, file, lock, kills>>

\* Mutant: the file is left open with its lock
ReleaseForgets(p) ==
  /\ pc[p] = "release"
  /\ Goto(p, "idle")
  /\ UNCHANGED <<path, way, file, lock, kills>>

Release(p) ==
  /\ pc[p] = "release"
  /\ Close(p)
  /\ Goto(p, "idle")
  /\ UNCHANGED <<path, way, kills>>

-----------------------------------------------------------------------------
\* A holder that only closes the file: the server at its end, `bitbake --status-only'
CloseOnly(p) ==
  /\ pc[p] = "held"
  /\ Close(p)
  /\ Goto(p, "idle")
  /\ UNCHANGED <<path, way, kills>>

Kill(p) ==
  /\ kills < Kills /\ pc[p] # "idle"
  /\ kills' = kills + 1
  /\ Close(p)
  /\ Goto(p, "idle")
  /\ UNCHANGED <<path, way>>

Step(p) ==
  \/ Open(p) \/ Flock(p) \/ WouldBlock(p) \/ Compare(p)
  \/ Unlink(p) \/ Release(p)

Next == \E p \in Procs : Step(p) \/ Call(p) \/ Promote(p) \/ CloseOnly(p) \/ Kill(p)

\* A call goes on; who holds a lock may keep it, and nobody has to call
Spec == Init /\ [][Next]_vars /\ \A p \in Procs : WF_vars(Step(p))

-----------------------------------------------------------------------------
(* Correctness *)

Places == {"idle", "open", "flock", "compare", "held", "unlink", "release"}

TypeOK ==
  /\ path \in Inodes \cup {NoFile}
  /\ pc \in [Procs -> Places]
  /\ way \in [Procs -> Ways]
  /\ file \in [Procs -> Inodes \cup {NoFile}]
  /\ lock \in [Procs -> {"none", "shared", "exclusive"}]
  /\ kills \in Nat

Held(p) == pc[p] = "held"

\* What lockfile() returned to two processes, on one file or on a file that was
\* deleted and created anew in between, does not conflict.
Exclusion ==
  \A p, q \in Procs : p # q /\ Held(p) /\ Held(q) => way[p].shared /\ way[q].shared

\* unlockfile() unlinks by name, yet it never takes a file away that another
\* process has or will get the lock of.
UnlinksOwnFile == \A p \in Procs : pc[p] = "unlink" => path = file[p]

\* Who has the file at the path open and is not past deleting it
Users == {p \in Procs : file[p] = path /\ pc[p] # "release"}

\* "We should clean up after ourselves": however shared holders, callers that give
\* up and callers that come too late leave one file, the last of them takes it
\* away.  Only a process that was killed or merely closed the file leaves it.
LastOneDeletes ==
  [][Users # {} /\ Users' = {} /\ path' # NoFile
       => \E p \in Procs : Kill(p) \/ CloseOnly(p)]_vars

\* Callers that wait are not all starved by locks on deleted files: when one that
\* retries is in lockfile(), and no more are killed, somebody gets the lock.
SomebodyGetsIt ==
  (kills = Kills /\ \E p \in Procs : pc[p] = "open" /\ way[p].retry)
    ~> (\E q \in Procs : Held(q))
=============================================================================
