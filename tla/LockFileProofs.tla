--------------------------- MODULE LockFileProofs ---------------------------
(* lockfile() excludes, and unlockfile() deletes nobody else's file, for any *)
(* number of processes, inodes and kills and any way of calling it.          *)
EXTENDS LockFile, TLAPS

-----------------------------------------------------------------------------
(* The inductive invariant *)

\* flock() lets no exclusive lock beside another on one inode
LockTable ==
  \A p, q \in Procs :
    p # q /\ lock[p] = "exclusive" /\ lock[q] # "none" => file[p] # file[q]

\* What a process has at each place
Possessions ==
  \A p \in Procs :
    /\ pc[p] \in {"idle", "open"} => file[p] = NoFile
    /\ pc[p] \in {"idle", "open", "flock"} => lock[p] = "none"
    /\ pc[p] \in {"compare", "held"} => lock[p] = Kind(p)
    /\ pc[p] = "unlink" => lock[p] = "exclusive"
    /\ pc[p] \notin {"idle", "open"} => file[p] \in Inodes

\* A lock that was found to be that of the path stays that
Current == \A p \in Procs : pc[p] \in {"held", "unlink"} => path = file[p]

\* Who still has a lock after unlockfile() unlinked has it on a deleted file
Deleted == \A p \in Procs : pc[p] = "release" /\ lock[p] # "none" => path # file[p]

IInv == TypeOK /\ LockTable /\ Possessions /\ Current /\ Deleted

LEMMA ExclusionFollows == IInv => Exclusion /\ UnlinksOwnFile
<1> SUFFICES ASSUME IInv PROVE Exclusion /\ UnlinksOwnFile
  OBVIOUS
<1>1. ASSUME NEW p \in Procs, NEW q \in Procs, p # q, Held(p), Held(q)
      PROVE  way[p].shared
  <2>1. file[p] = file[q] /\ lock[p] = Kind(p) /\ lock[q] = Kind(q)
    BY <1>1 DEF IInv, Current, Possessions, Held
  <2>2. lock[q] # "none"
    BY <2>1 DEF Kind
  <2>3. lock[p] # "exclusive"
    BY <1>1, <2>1, <2>2 DEF IInv, LockTable
  <2> QED  BY <2>1, <2>3 DEF Kind
<1>2. Exclusion
  BY <1>1 DEF Exclusion
<1> QED  BY <1>2 DEF IInv, Current, UnlinksOwnFile

LEMMA InitInvariant == Init => IInv
<1> SUFFICES ASSUME Init PROVE IInv
  OBVIOUS
<1>1. (CHOOSE w \in Ways : TRUE) \in Ways
  BY WaysAssumption
<1> QED  BY <1>1 DEF Init, IInv, TypeOK, Places, LockTable, Possessions, Current, Deleted

-----------------------------------------------------------------------------
(* One lemma per kind of step *)

\* Nobody loses a file or a lock by a step of another
LEMMA OthersKeep ==
  ASSUME IInv, NEW p \in Procs, Close(p), NEW l \in {"idle", "open"}, Goto(p, l),
         UNCHANGED <<path, way>>, kills' \in Nat
  PROVE  IInv'
<1>1. TypeOK'
  BY DEF IInv, TypeOK, Places, Close, Goto
<1>2. \A q \in Procs : /\ q = p => file'[q] = NoFile /\ lock'[q] = "none" /\ pc'[q] = l
                       /\ q # p => file'[q] = file[q] /\ lock'[q] = lock[q] /\ pc'[q] = pc[q]
  BY DEF IInv, TypeOK, Close, Goto
<1>3. LockTable'
  BY <1>2 DEF IInv, LockTable
<1>4. Possessions'
  BY <1>2 DEF IInv, Possessions, Kind
<1>5. Current'
  BY <1>2 DEF IInv, Current
<1>6. Deleted'
  BY <1>2 DEF IInv, Deleted
<1> QED  BY <1>1, <1>3, <1>4, <1>5, <1>6 DEF IInv

LEMMA OpenKeeps == ASSUME IInv, NEW p \in Procs, Open(p) PROVE IInv'
<1>1. path' \in Inodes /\ (path # NoFile => path' = path)
  BY DEF Open, IInv, TypeOK
<1>2. TypeOK'
  BY <1>1 DEF Open, IInv, TypeOK, Places, Goto
<1>3. \A q \in Procs : /\ q = p => file'[q] \in Inodes /\ pc'[q] = "flock"
                       /\ q # p => file'[q] = file[q] /\ pc'[q] = pc[q]
                       /\ lock'[q] = lock[q]
  BY <1>1 DEF Open, IInv, TypeOK, Goto
<1>4. lock[p] = "none"
  BY DEF Open, IInv, Possessions
<1>5. LockTable'
  BY <1>3, <1>4 DEF IInv, LockTable
<1>6. Possessions'
  BY <1>3, <1>4 DEF IInv, Possessions, Open, Kind
<1>7. Current'
  <2> SUFFICES ASSUME NEW q \in Procs, pc'[q] \in {"held", "unlink"}
               PROVE  path' = file'[q]
    BY DEF Current
  <2>1. q # p /\ path = file[q] /\ file[q] \in Inodes
    BY <1>3 DEF IInv, Current, Possessions, Kind
  <2> QED  BY <1>1, <1>3, <2>1, NoFileAssumption
<1>8. Deleted'
  <2> SUFFICES ASSUME NEW q \in Procs, pc'[q] = "release", lock'[q] # "none"
               PROVE  path' # file'[q]
    BY DEF Deleted
  <2>1. q # p /\ path # file[q] /\ file'[q] = file[q]
    BY <1>3 DEF IInv, Deleted
  <2> QED  BY <2>1 DEF Open
<1> QED  BY <1>2, <1>5, <1>6, <1>7, <1>8 DEF IInv

\* p's lock becomes what flock() granted
LEMMA GrantKeeps ==
  ASSUME IInv, NEW p \in Procs, NEW kind \in {"shared", "exclusive"}, Grantable(p, kind),
         lock' = [lock EXCEPT ![p] = kind], file' = file, pc[p] \in {"flock", "held"}
  PROVE  LockTable'
<1> SUFFICES ASSUME NEW q \in Procs, NEW r \in Procs, q # r,
                    lock'[q] = "exclusive", lock'[r] # "none"
             PROVE  file[q] # file[r]
  BY DEF LockTable
<1>1. CASE q = p
  BY <1>1 DEF Grantable, IInv, TypeOK
<1>2. CASE r = p
  BY <1>2 DEF Grantable, IInv, TypeOK
<1>3. CASE q # p /\ r # p
  BY <1>3 DEF IInv, TypeOK, LockTable
<1> QED  BY <1>1, <1>2, <1>3

LEMMA FlockKeeps == ASSUME IInv, NEW p \in Procs, Flock(p) PROVE IInv'
<1>1. Kind(p) \in {"shared", "exclusive"} /\ file[p] \in Inodes \cup {NoFile}
  BY DEF Kind, IInv, TypeOK
<1>2. TypeOK'
  BY <1>1 DEF Flock, IInv, TypeOK, Places, Goto
<1>3. LockTable'
  BY <1>1, GrantKeeps DEF Flock
<1>4. \A q \in Procs : /\ q = p => lock'[q] = Kind(p) /\ pc'[q] = "compare"
                       /\ q # p => lock'[q] = lock[q] /\ pc'[q] = pc[q]
                       /\ file'[q] = file[q]
  BY DEF Flock, IInv, TypeOK, Goto
<1>5. Possessions'
  BY <1>4 DEF IInv, Possessions, Flock, Kind
<1>6. Current'
  BY <1>4 DEF IInv, Current, Flock
<1>7. Deleted'
  BY <1>4 DEF IInv, Deleted, Flock
<1> QED  BY <1>2, <1>3, <1>5, <1>6, <1>7 DEF IInv

LEMMA CompareKeeps == ASSUME IInv, NEW p \in Procs, Compare(p) PROVE IInv'
<1>1. CASE path # file[p]
  <2>1. kills' \in Nat
    BY DEF Compare, IInv, TypeOK
  <2> QED  BY <1>1, <2>1, OthersKeep DEF Compare
<1>2. CASE path = file[p]
  <2>1. TypeOK'
    BY <1>2 DEF Compare, IInv, TypeOK, Places, Goto
  <2>2. \A q \in Procs : pc'[q] = IF q = p THEN "held" ELSE pc[q]
    BY <1>2 DEF Compare, IInv, TypeOK, Goto
  <2>3. LockTable'
    BY <1>2 DEF Compare, IInv, LockTable
  <2>4. Possessions'
    BY <1>2, <2>2 DEF Compare, IInv, Possessions, Kind
  <2>5. Current'
    BY <1>2, <2>2 DEF Compare, IInv, Current
  <2>6. Deleted'
    BY <1>2, <2>2 DEF Compare, IInv, Deleted
  <2> QED  BY <2>1, <2>3, <2>4, <2>5, <2>6 DEF IInv
<1> QED  BY <1>1, <1>2

LEMMA PromoteKeeps == ASSUME IInv, NEW p \in Procs, Promote(p) PROVE IInv'
<1>1. CASE Grantable(p, "exclusive")
  <2>1. TypeOK'
    BY <1>1 DEF Promote, IInv, TypeOK, Places, Goto
  <2>2. LockTable'
    BY <1>1, GrantKeeps DEF Promote
  <2>3. \A q \in Procs : /\ q = p => lock'[q] = "exclusive" /\ pc'[q] = "unlink"
                         /\ q # p => lock'[q] = lock[q] /\ pc'[q] = pc[q]
                         /\ file'[q] = file[q] /\ way'[q] = way[q]
    BY <1>1 DEF Promote, IInv, TypeOK, Goto
  <2>4. Possessions'
    BY <2>3 DEF IInv, Possessions, Promote, Kind
  <2>5. Current'
    BY <2>3 DEF IInv, Current, Promote
  <2>6. Deleted'
    BY <2>3 DEF IInv, Deleted, Promote
  <2> QED  BY <2>1, <2>2, <2>4, <2>5, <2>6 DEF IInv
<1>2. CASE ~Grantable(p, "exclusive")
  <2>1. TypeOK'
    BY <1>2 DEF Promote, IInv, TypeOK, Places, Goto
  <2>2. \A q \in Procs : /\ q = p => lock'[q] = "none" /\ pc'[q] = "release"
                         /\ q # p => lock'[q] = lock[q] /\ pc'[q] = pc[q]
                         /\ file'[q] = file[q] /\ way'[q] = way[q]
    BY <1>2 DEF Promote, IInv, TypeOK, Goto
  <2>3. LockTable'
    BY <2>2 DEF IInv, LockTable
  <2>4. Possessions'
    BY <2>2 DEF IInv, Possessions, Promote, Kind
  <2>5. Current'
    BY <2>2 DEF IInv, Current, Promote
  <2>6. Deleted'
    BY <2>2 DEF IInv, Deleted, Promote
  <2> QED  BY <2>1, <2>3, <2>4, <2>5, <2>6 DEF IInv
<1> QED  BY <1>1, <1>2

\* Who unlinks has the exclusive lock of the file at the path, so nobody has
\* that file from lockfile(), nor is about to unlink.
LEMMA UnlinkKeeps == ASSUME IInv, NEW p \in Procs, Unlink(p) PROVE IInv'
<1>1. TypeOK'
  BY DEF Unlink, IInv, TypeOK, Places, Goto
<1>2. \A q \in Procs : pc'[q] = IF q = p THEN "release" ELSE pc[q]
  BY DEF Unlink, IInv, TypeOK, Goto
<1>3. LockTable'
  BY DEF Unlink, IInv, LockTable
<1>4. Possessions'
  BY <1>2 DEF Unlink, IInv, Possessions, Kind
<1>5. \A q \in Procs \ {p} : pc[q] \notin {"held", "unlink"}
  <2> SUFFICES ASSUME NEW q \in Procs \ {p}, pc[q] \in {"held", "unlink"} PROVE FALSE
    OBVIOUS
  <2>1. file[q] = path /\ file[p] = path /\ lock[p] = "exclusive"
    BY DEF Unlink, IInv, Current, Possessions
  <2>2. lock[q] # "none"
    BY DEF IInv, Possessions, Kind
  <2> QED  BY <2>1, <2>2 DEF IInv, LockTable
<1>6. Current'
  BY <1>2, <1>5 DEF Current
<1>7. \A q \in Procs : pc'[q] = "release" => file'[q] \in Inodes
  BY <1>2, <1>4 DEF Possessions
<1>8. Deleted'
  BY <1>7, NoFileAssumption DEF Unlink, Deleted
<1> QED  BY <1>1, <1>3, <1>4, <1>6, <1>8 DEF IInv

LEMMA CallKeeps == ASSUME IInv, NEW p \in Procs, Call(p) PROVE IInv'
<1>1. TypeOK'
  BY DEF Call, IInv, TypeOK, Places, Goto
<1>2. \A q \in Procs : /\ pc'[q] = IF q = p THEN "open" ELSE pc[q]
                       /\ q # p => way'[q] = way[q]
  BY DEF Call, IInv, TypeOK, Goto
<1>3. LockTable'
  BY DEF Call, IInv, LockTable
<1>4. Possessions'
  BY <1>2 DEF Call, IInv, Possessions, Kind
<1>5. Current'
  BY <1>2 DEF Call, IInv, Current
<1>6. Deleted'
  BY <1>2 DEF Call, IInv, Deleted
<1> QED  BY <1>1, <1>3, <1>4, <1>5, <1>6 DEF IInv

-----------------------------------------------------------------------------
(* Theorems *)

LEMMA NextInvariant == IInv /\ [Next]_vars => IInv'
<1> SUFFICES ASSUME IInv, [Next]_vars PROVE IInv'
  OBVIOUS
<1>0. kills \in Nat /\ kills + 1 \in Nat
  BY DEF IInv, TypeOK
<1>1. ASSUME NEW p \in Procs, Open(p) PROVE IInv'  BY <1>1, OpenKeeps
<1>2. ASSUME NEW p \in Procs, Flock(p) PROVE IInv'  BY <1>2, FlockKeeps
<1>3. ASSUME NEW p \in Procs, WouldBlock(p) PROVE IInv'
  BY <1>0, <1>3, OthersKeep DEF WouldBlock
<1>4. ASSUME NEW p \in Procs, Compare(p) PROVE IInv'  BY <1>4, CompareKeeps
<1>5. ASSUME NEW p \in Procs, Unlink(p) PROVE IInv'  BY <1>5, UnlinkKeeps
<1>6. ASSUME NEW p \in Procs, Release(p) PROVE IInv'
  BY <1>0, <1>6, OthersKeep DEF Release
<1>7. ASSUME NEW p \in Procs, Call(p) PROVE IInv'  BY <1>7, CallKeeps
<1>8. ASSUME NEW p \in Procs, Promote(p) PROVE IInv'  BY <1>8, PromoteKeeps
<1>9. ASSUME NEW p \in Procs, CloseOnly(p) PROVE IInv'
  BY <1>0, <1>9, OthersKeep DEF CloseOnly
<1>10. ASSUME NEW p \in Procs, Kill(p) PROVE IInv'
  BY <1>0, <1>10, OthersKeep DEF Kill
<1>11. CASE UNCHANGED vars
  BY <1>11 DEF vars, IInv, TypeOK, LockTable, Possessions, Current, Deleted, Kind
<1> QED
  BY <1>1, <1>2, <1>3, <1>4, <1>5, <1>6, <1>7, <1>8, <1>9, <1>10, <1>11 DEF Next, Step

LEMMA Invariant == Spec => []IInv
<1>1. Init => IInv  BY InitInvariant
<1>2. IInv /\ [Next]_vars => IInv'  BY NextInvariant
<1> QED  BY <1>1, <1>2, PTL DEF Spec

\* No two processes have conflicting locks from lockfile(), however the file was
\* deleted, created and deleted again under them.
THEOREM ExclusionAlways == Spec => []Exclusion
<1>1. IInv => Exclusion  BY ExclusionFollows
<1> QED  BY <1>1, Invariant, PTL

\* unlockfile() only deletes the file it has the exclusive lock of
THEOREM UnlinksOwnFileAlways == Spec => []UnlinksOwnFile
<1>1. IInv => UnlinksOwnFile  BY ExclusionFollows
<1> QED  BY <1>1, Invariant, PTL

-----------------------------------------------------------------------------
(* The last one deletes *)

\* Whoever has a lock on the file at the path uses it
LEMMA LockersUse ==
  ASSUME IInv, path # NoFile, NEW p \in Procs, file[p] = path, lock[p] # "none"
  PROVE  p \in Users
BY DEF IInv, Deleted, Users

\* A step by which the file at the path loses its last user while it stays there
\* is that of a process that was killed or only closes the file.
LEMMA LastUser ==
  ASSUME IInv, Next, Users # {}, Users' = {}, path' # NoFile
  PROVE  \E p \in Procs : Kill(p) \/ CloseOnly(p)
<1> SUFFICES ASSUME NEW p \in Procs,
                    \/ Open(p) \/ Flock(p) \/ WouldBlock(p) \/ Compare(p)
                    \/ Unlink(p) \/ Release(p) \/ Call(p) \/ Promote(p)
             PROVE  FALSE
  BY DEF Next, Step
<1>1. \A q \in Procs : file'[q] = path' => pc'[q] = "release"
  BY DEF Users
<1>t. /\ pc \in [Procs -> Places] /\ file \in [Procs -> Inodes \cup {NoFile}]
      /\ lock \in [Procs -> {"none", "shared", "exclusive"}]
  BY DEF IInv, TypeOK
<1>2. CASE Open(p)
  BY <1>1, <1>2, <1>t DEF Open, Goto
<1>3. CASE Unlink(p)
  BY <1>3 DEF Unlink
<1>4. path' = path
  BY <1>2, <1>3 DEF Flock, WouldBlock, Compare, Release, Call, Promote
<1>5. PICK u \in Procs : file[u] = path /\ pc[u] # "release"
  BY DEF Users
<1>6. u = p
  BY <1>1, <1>2, <1>3, <1>4, <1>5, <1>t
  DEF Flock, WouldBlock, Compare, Release, Call, Promote, Close, Goto
\* p is refused the lock or the promotion because another one has a lock
<1>7. ASSUME NEW kind, ~Grantable(p, kind), \A q \in Procs \ {p} : pc'[q] = pc[q] /\ file'[q] = file[q]
      PROVE  FALSE
  <2>1. PICK q \in Procs \ {p} : file[q] = file[p] /\ lock[q] # "none"
    BY <1>7 DEF Grantable
  <2>2. q \in Users
    BY <1>4, <1>5, <1>6, <2>1, LockersUse
  <2> QED  BY <1>1, <1>4, <1>7, <2>2 DEF Users
<1>8. CASE WouldBlock(p)
  BY <1>7, <1>8, <1>t DEF WouldBlock, Close, Goto
<1>9. CASE Promote(p)
  BY <1>1, <1>4, <1>5, <1>6, <1>7, <1>9, <1>t DEF Promote, Goto
<1>10. CASE Flock(p) \/ Compare(p) \/ Release(p) \/ Call(p)
  BY <1>1, <1>4, <1>5, <1>6, <1>10, <1>t DEF Flock, Compare, Release, Call, Goto
<1> QED  BY <1>2, <1>3, <1>8, <1>9, <1>10

\* However many share, wait, give up and come too late, the last user of the lock
\* file deletes it, unless it was killed or closed the file by itself.
THEOREM LastOneDeletesAlways == Spec => LastOneDeletes
<1>1. IInv /\ [Next]_vars =>
        [Users # {} /\ Users' = {} /\ path' # NoFile
           => \E p \in Procs : Kill(p) \/ CloseOnly(p)]_vars
  BY LastUser DEF Users
<1> QED  BY <1>1, Invariant, PTL DEF Spec, LastOneDeletes
=============================================================================
