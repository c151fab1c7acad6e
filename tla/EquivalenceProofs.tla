------------------------- MODULE EquivalenceProofs -------------------------
(***************************************************************************)
(* A hash equivalence server without upstream implements Equivalence: the  *)
(* step simulation, on top of the inductive invariant of HashServProofs.   *)
(***************************************************************************)
EXTENDS HashServProofs

-----------------------------------------------------------------------------
(* What a server without upstream does to its table *)

AddsEquiv(m) ==
  /\ ~KeyTaken(db, NoOut, m.taskhash)
  /\ db' = db \cup {NewRow(NoOut, m.taskhash, m.unihash)}

AddsReport(m) ==
  /\ ~KeyTaken(db, m.outhash, m.taskhash)
  /\ \E u \in StoredUnihash(m, OuthashQuery(db, m.outhash, m.taskhash)) :
       db' = db \cup {NewRow(m.outhash, m.taskhash, u)}

LEMMA StandaloneStep ==
  ASSUME ~HasUpstream, TypeOK, Holding, [Next]_vars
  PROVE  db' = db \/ \E m \in Requests \cup UpRequests : AddsEquiv(m) \/ AddsReport(m)
<1>s. /\ \A k \in Conns : conn[k].pc \in {"free", "start", "join", "replied"}
      /\ \A k \in Conns : conn[k].msg \in Requests
      /\ worker.pc \in {"idle", "stopped"}
  BY DEF Holding, NoUpstreamWait, TypeOK, HandlerState
<1>1. ASSUME NEW k \in Conns, EquivReport(k)
      PROVE  db' = db \/ \E m \in Requests : AddsEquiv(m)
  <2> DEFINE m == conn[k].msg
  <2>1. db' = db \/ AddsEquiv(m)
    BY <1>1 DEF EquivReport, AddsEquiv
  <2>2. QED
    BY <1>s, <2>1
<1>2. ASSUME NEW k \in Conns, ReportLocal(k)
      PROVE  db' = db \/ \E m \in Requests : AddsReport(m)
  <2> DEFINE m == conn[k].msg
  <2>1. FinishReport(k, db, OuthashQuery(db, m.outhash, m.taskhash))
    BY <1>2 DEF ReportLocal
  <2>2. db' = db \/ AddsReport(m)
    BY <2>1 DEF FinishReport, AddsReport
  <2>3. QED
    BY <1>s, <2>2
<1>3. ASSUME NEW k \in Conns, Handler(k)
      PROVE  db' = db \/ \E m \in Requests \cup UpRequests : AddsEquiv(m) \/ AddsReport(m)
  <2>1. ~ReportResume(k) /\ ~GetResume(k)
    BY <1>s DEF ReportResume, GetResume
  <2>2. QED
    BY <1>1, <1>2, <1>3, <2>1
    DEF Handler, GetLocal, GetOuthash, StreamLocal, Unrecognized, ReportAsk, ReportAnswer,
        GetAsk, GetAnswer, StreamAsk, StreamAnswer, StreamReply, StreamPut, BackfillWait
<1>4. ASSUME Worker \/ WorkerUpstreamFails
      PROVE  db' = db
  BY <1>4, <1>s DEF Worker, WorkerGet, WorkerAnswer, WorkerStore, WorkerDies, WorkerUpstreamFails
<1>5. ASSUME NEW c \in Clients, \/ Client(c) \/ Timeout(c) \/ Disconnect(c)
                                \/ \E m \in Requests : Call(c, m)
      PROVE  db' = db
  BY <1>5 DEF Client, Accept, ConnectFails, Deliver, Timeout, Disconnect, GiveUp, Call
<1>6. ASSUME \/ Kill \/ Stop \/ Drain \/ Drained \/ Start
             \/ \E m \in UpRequests : UpReport(m) \/ UpEquivReport(m)
             \/ \E k \in Conns : UpstreamFails(k)
      PROVE  db' = db
  BY <1>6 DEF Kill, Stop, Drain, Drained, Start, Gone, UpReport, UpEquivReport, UpstreamFails
<1>7. CASE UNCHANGED vars
  BY <1>7 DEF vars
<1>9. ASSUME NEW m \in UpRequests, OwnerReport(m) \/ OwnerEquivReport(m)
      PROVE  AddsEquiv(m) \/ AddsReport(m)
  BY <1>9 DEF OwnerReport, OwnerEquivReport, AddsEquiv, AddsReport
<1>8. QED
  BY <1>3, <1>4, <1>5, <1>6, <1>7, <1>9 DEF Next

-----------------------------------------------------------------------------
(* The invariant of the table *)

KeysUnique == \A r, q \in db : r.outhash = q.outhash /\ r.taskhash = q.taskhash => r = q

\* Every group of rows a query orders by time has a first one
OldestExists ==
  /\ \A r \in db : Fetch({q \in db : q.taskhash = r.taskhash}) # {}
  /\ \A r \in db : Fetch({q \in db : q.outhash = r.outhash}) # {}

TableOK == KeysUnique /\ OldestExists /\ SameOutputSameUnihash

\* The outhash query finds nothing only if there is nothing, and what it finds
\* carries the unihash of everything with this outhash
LEMMA OuthashQueryComplete ==
  ASSUME TypeOK, TableOK, NEW o, NEW t
  PROVE  /\ OuthashQuery(db, o, t) = {} => \A r \in db : r.outhash # o
         /\ \A r \in OuthashQuery(db, o, t) : r \in db /\ r.outhash = o
<1> DEFINE same == {r \in db : r.outhash = o}
           exact == {r \in same : r.taskhash = t}
<1>1. ASSUME exact # {} PROVE Fetch(exact) # {}
  <2>1. PICK r \in exact : TRUE
    BY <1>1
  <2>2. \A q \in exact : q = r
    BY <2>1 DEF TableOK, KeysUnique
  <2>3. r.created <= r.created
    BY <2>1 DEF TypeOK, Row
  <2>4. r \in Fetch(exact)
    BY <2>1, <2>2, <2>3 DEF Fetch
  <2>5. QED
    BY <2>4
<1>2. ASSUME same # {} PROVE Fetch(same) # {}
  BY <1>2 DEF TableOK, OldestExists
<1>3. OuthashQuery(db, o, t) = {} => same = {}
  BY <1>1, <1>2 DEF OuthashQuery
<1>4. QED
  BY <1>3, QueryRows

\* Adding a row that is younger than every other one
LEMMA AddRow ==
  ASSUME TypeOK, Stamps, NEW o, NEW t, NEW u, db' = db \cup {NewRow(o, t, u)},
         NEW P, P \subseteq db, NEW Q, Q = P \/ Q = P \cup {NewRow(o, t, u)}
  PROVE  /\ Fetch(P) # {} => Fetch(Q) = Fetch(P)
         /\ P = {} /\ Q # {} => Fetch(Q) = {NewRow(o, t, u)}
<1> DEFINE new == NewRow(o, t, u)
<1>1. new.created = now /\ now \in Nat
  BY NewRowStamp DEF TypeOK
<1>2. \A r \in P : r.created \in Nat /\ r.created < now
  BY DEF Stamps, TypeOK, Row
<1> HIDE DEF new
<1>3. ASSUME NEW r \in Fetch(P) PROVE Fetch(Q) = Fetch(P)
  <2>1. \A q \in Q : r.created <= q.created
    BY <1>1, <1>2, <1>3 DEF Fetch, new
  <2>2. new \notin Fetch(Q)
    BY <1>1, <1>2, <1>3 DEF Fetch, new
  <2>3. \A p \in P : p \in Fetch(Q) <=> p \in Fetch(P)
    BY <1>1, <1>2, <1>3, <2>1 DEF Fetch, new
  <2>4. QED
    BY <2>2, <2>3 DEF Fetch, new
<1>4. ASSUME P = {}, Q # {} PROVE Fetch(Q) = {new}
  BY <1>1, <1>4 DEF Fetch, new
<1>5. QED
  BY <1>3, <1>4 DEF new

LEMMA AddedRowTableOK ==
  ASSUME TypeOK, Stamps, TableOK, NEW o, NEW t, NEW u,
         ~KeyTaken(db, o, t), db' = db \cup {NewRow(o, t, u)},
         o = NoOut \/ \A r \in db : r.outhash = o => r.unihash = u
  PROVE  TableOK'
<1> DEFINE new == NewRow(o, t, u)
<1>1. new.outhash = o /\ new.taskhash = t /\ new.unihash = u
  BY DEF NewRow
<1>2. KeysUnique'
  <2> HIDE DEF new
  <2>1. db' = db \cup {new}
    BY DEF new
  <2>2. QED
    BY <1>1, <2>1 DEF TableOK, KeysUnique, KeyTaken
<1>3. ASSUME NEW r \in db' PROVE Fetch({q \in db' : q.taskhash = r.taskhash}) # {}
  <2> DEFINE P == {q \in db : q.taskhash = r.taskhash}
             Q == {q \in db' : q.taskhash = r.taskhash}
  <2>1. Q = P \/ Q = P \cup {new}
    OBVIOUS
  <2>2. P = {} \/ Fetch(P) # {}
    <3>1. CASE P = {}
      BY <3>1
    <3>2. CASE P # {}
      <4>1. PICK p \in db : p.taskhash = r.taskhash
        BY <3>2
      <4>2. Fetch({q \in db : q.taskhash = p.taskhash}) # {}
        BY DEF TableOK, OldestExists
      <4>3. QED
        BY <4>1, <4>2
    <3>3. QED
      BY <3>1, <3>2
  <2>3. Q # {} /\ P \subseteq db
    OBVIOUS
  <2> HIDE DEF P, Q, new
  <2>4. Q = P \/ Q = P \cup {NewRow(o, t, u)}
    BY <2>1 DEF new
  <2>5. /\ Fetch(P) # {} => Fetch(Q) = Fetch(P)
        /\ P = {} /\ Q # {} => Fetch(Q) = {NewRow(o, t, u)}
    BY <2>3, <2>4, AddRow
  <2>6. Fetch(Q) # {}
    BY <2>2, <2>3, <2>5
  <2>7. QED
    BY <2>6 DEF Q
<1>4. ASSUME NEW r \in db' PROVE Fetch({q \in db' : q.outhash = r.outhash}) # {}
  <2> DEFINE P == {q \in db : q.outhash = r.outhash}
             Q == {q \in db' : q.outhash = r.outhash}
  <2>1. Q = P \/ Q = P \cup {new}
    OBVIOUS
  <2>2. P = {} \/ Fetch(P) # {}
    <3>1. CASE P = {}
      BY <3>1
    <3>2. CASE P # {}
      <4>1. PICK p \in db : p.outhash = r.outhash
        BY <3>2
      <4>2. Fetch({q \in db : q.outhash = p.outhash}) # {}
        BY DEF TableOK, OldestExists
      <4>3. QED
        BY <4>1, <4>2
    <3>3. QED
      BY <3>1, <3>2
  <2>3. Q # {} /\ P \subseteq db
    OBVIOUS
  <2> HIDE DEF P, Q, new
  <2>4. Q = P \/ Q = P \cup {NewRow(o, t, u)}
    BY <2>1 DEF new
  <2>5. /\ Fetch(P) # {} => Fetch(Q) = Fetch(P)
        /\ P = {} /\ Q # {} => Fetch(Q) = {NewRow(o, t, u)}
    BY <2>3, <2>4, AddRow
  <2>6. Fetch(Q) # {}
    BY <2>2, <2>3, <2>5
  <2>7. QED
    BY <2>6 DEF Q
<1>5. SameOutputSameUnihash'
  <2> HIDE DEF new
  <2>1. db' = db \cup {new}
    BY DEF new
  <2>2. QED
    BY <1>1, <2>1 DEF TableOK, SameOutputSameUnihash
<1>6. QED
  BY <1>2, <1>3, <1>4, <1>5 DEF TableOK, OldestExists

LEMMA TableStepOK ==
  ASSUME ~HasUpstream, TypeOK, Stamps, Holding, TableOK, [Next]_vars
  PROVE  TableOK'
<1>1. CASE db' = db
  BY <1>1 DEF TableOK, KeysUnique, OldestExists, SameOutputSameUnihash
<1>2. ASSUME NEW m \in Requests \cup UpRequests, AddsEquiv(m) PROVE TableOK'
  BY <1>2, AddedRowTableOK DEF AddsEquiv
<1>3. ASSUME NEW m \in Requests \cup UpRequests, AddsReport(m) PROVE TableOK'
  <2> DEFINE found == OuthashQuery(db, m.outhash, m.taskhash)
  <2>1. PICK u \in StoredUnihash(m, found) : db' = db \cup {NewRow(m.outhash, m.taskhash, u)}
    BY <1>3 DEF AddsReport
  <2>2. m.outhash \in OutHashes
    BY RequestFields
  <2>3. \A r \in db : r.outhash = m.outhash => r.unihash = u
    BY <2>1, <2>2, OuthashQueryComplete, NoneAssumption
    DEF StoredUnihash, TableOK, SameOutputSameUnihash
  <2>4. QED
    BY <1>3, <2>1, <2>3, AddedRowTableOK DEF AddsReport
<1>4. QED
  BY <1>1, <1>2, <1>3, StandaloneStep

LEMMA TableInvariant ==
  ASSUME ~HasUpstream
  PROVE  Spec => []TableOK
<1>1. Init => TableOK
  BY DEF Init, TableOK, KeysUnique, OldestExists, SameOutputSameUnihash
<1>2. TypeOK /\ JoinCount /\ Stamps /\ Holding /\ TableOK /\ [Next]_vars => TableOK'
  BY TableStepOK
<1>3. QED
  BY <1>1, <1>2, InductiveInvariant, PTL DEF Spec

\* Tasks reported with the same outhash share a unihash, however their reports,
\* repeated or not, are interleaved: on a server without upstream.
THEOREM SameOutputSameUnihashAlways ==
  ASSUME ~HasUpstream
  PROVE  Spec => []SameOutputSameUnihash
<1>1. TableOK => SameOutputSameUnihash
  BY DEF TableOK
<1>2. QED
  BY <1>1, TableInvariant, PTL
-----------------------------------------------------------------------------
(* The refinement *)

\* What a new row does to the answers: only its own taskhash, and only if that
\* had none; only its own outhash
LEMMA AddedRowAnswers ==
  ASSUME TypeOK, Stamps, TableOK, NEW o, NEW t \in TaskHashes, NEW u,
         ~KeyTaken(db, o, t), db' = db \cup {NewRow(o, t, u)},
         o = NoOut \/ \A r \in db : r.outhash = o => r.unihash = u
  PROVE  /\ UnihashOf' = [UnihashOf EXCEPT ![t] = IF @ = {} THEN {u} ELSE @]
         /\ OutputOf' = IF o \in OutHashes THEN [OutputOf EXCEPT ![o] = {u}] ELSE OutputOf
<1> DEFINE new == NewRow(o, t, u)
<1>1. new.outhash = o /\ new.taskhash = t /\ new.unihash = u
  BY DEF NewRow
<1>2. ASSUME NEW x \in TaskHashes, x # t
      PROVE  TaskQuery(db', x) = TaskQuery(db, x)
  <2> HIDE DEF new
  <2>1. db' = db \cup {new}
    BY DEF new
  <2>2. {r \in db' : r.taskhash = x} = {r \in db : r.taskhash = x}
    BY <1>1, <1>2, <2>1
  <2>3. QED
    BY <2>2 DEF TaskQuery
<1>3. /\ TaskQuery(db, t) # {} => TaskQuery(db', t) = TaskQuery(db, t)
      /\ TaskQuery(db, t) = {} => TaskQuery(db', t) = {new}
  <2> DEFINE P == {r \in db : r.taskhash = t}
             Q == {r \in db' : r.taskhash = t}
  <2>1. Q = P \cup {new} /\ P \subseteq db
    BY <1>1
  <2>2. Fetch(P) = {} => P = {}
    <3> SUFFICES ASSUME NEW p \in db, p.taskhash = t PROVE Fetch(P) # {}
      OBVIOUS
    <3>1. Fetch({q \in db : q.taskhash = p.taskhash}) # {}
      BY DEF TableOK, OldestExists
    <3>2. QED
      BY <3>1
  <2>3. TaskQuery(db, t) = Fetch(P) /\ TaskQuery(db', t) = Fetch(Q)
    BY DEF TaskQuery
  <2> HIDE DEF P, Q
  <2>4. /\ Fetch(P) # {} => Fetch(Q) = Fetch(P)
        /\ P = {} /\ Q # {} => Fetch(Q) = {NewRow(o, t, u)}
    BY <2>1, AddRow
  <2>5. QED
    BY <2>1, <2>2, <2>3, <2>4
<1> HIDE DEF new
<1>n. db' = db \cup {new}
  BY DEF new
<1>4. ASSUME NEW x \in TaskHashes
      PROVE  UnihashOf'[x] = [UnihashOf EXCEPT ![t] = IF @ = {} THEN {u} ELSE @][x]
  <2>1. UnihashOf'[x] = {r.unihash : r \in TaskQuery(db', x)}
        /\ UnihashOf[x] = {r.unihash : r \in TaskQuery(db, x)}
    BY DEF UnihashOf
  <2>2. CASE x # t
    BY <1>2, <2>1, <2>2 DEF UnihashOf
  <2>3. CASE x = t /\ TaskQuery(db, t) # {}
    <3>1. UnihashOf[t] # {} /\ UnihashOf'[t] = UnihashOf[t]
      <4>1. TaskQuery(db', t) = TaskQuery(db, t)
        BY <1>3, <2>3
      <4>2. UnihashOf'[t] = UnihashOf[t]
        BY <2>1, <2>3, <4>1
      <4>3. PICK r \in TaskQuery(db, t) : TRUE
        BY <2>3
      <4>4. r.unihash \in UnihashOf[t]
        BY <2>1, <2>3, <4>3
      <4>5. QED
        BY <4>2, <4>4
    <3>2. QED
      BY <2>3, <3>1 DEF UnihashOf
  <2>4. CASE x = t /\ TaskQuery(db, t) = {}
    <3>1. UnihashOf[t] = {} /\ UnihashOf'[t] = {u}
      BY <1>1, <1>3, <2>1, <2>4
    <3>2. QED
      BY <2>4, <3>1 DEF UnihashOf
  <2>5. QED
    BY <2>2, <2>3, <2>4
<1>5. UnihashOf' = [UnihashOf EXCEPT ![t] = IF @ = {} THEN {u} ELSE @]
  BY <1>4 DEF UnihashOf
<1>6. ASSUME NEW x \in OutHashes
      PROVE  OutputOf'[x] = IF x = o THEN {u} ELSE OutputOf[x]
  <2>1. OutputOf'[x] = {r.unihash : r \in {q \in db' : q.outhash = x}}
        /\ OutputOf[x] = {r.unihash : r \in {q \in db : q.outhash = x}}
    BY DEF OutputOf
  <2>2. CASE x # o
    <3>1. {q \in db' : q.outhash = x} = {q \in db : q.outhash = x}
      BY <1>1, <1>n, <2>2
    <3>2. QED
      BY <2>1, <2>2, <3>1
  <2>3. CASE x = o
    <3>1. \A r \in {q \in db' : q.outhash = x} : r.unihash = u
      BY <1>1, <1>n, <2>3, NoneAssumption
    <3>2. new \in {q \in db' : q.outhash = x} /\ new.unihash = u
      BY <1>1, <1>n, <2>3
    <3>3. QED
      BY <2>1, <2>3, <3>1, <3>2
  <2>4. QED
    BY <2>2, <2>3
<1>7. OutputOf' = IF o \in OutHashes THEN [OutputOf EXCEPT ![o] = {u}] ELSE OutputOf
  BY <1>6 DEF OutputOf
<1>8. QED
  BY <1>5, <1>7

LEMMA EquivSimulates ==
  ASSUME TypeOK, Stamps, TableOK, NEW m \in Requests \cup UpRequests, AddsEquiv(m)
  PROVE  Abstract!ANext
<1>1. m.taskhash \in TaskHashes /\ m.unihash \in UniHashes
  BY RequestFields
<1>2. /\ UnihashOf' = [UnihashOf EXCEPT ![m.taskhash] = IF @ = {} THEN {m.unihash} ELSE @]
      /\ OutputOf' = OutputOf
  BY <1>1, AddedRowAnswers, NoneAssumption DEF AddsEquiv
<1>3. Abstract!AEquiv(m.taskhash, m.unihash)
  BY <1>2 DEF Abstract!AEquiv, Abstract!FirstOf
<1>4. QED
  BY <1>1, <1>3 DEF Abstract!ANext

LEMMA ReportSimulates ==
  ASSUME TypeOK, Stamps, TableOK, NEW m \in Requests \cup UpRequests, AddsReport(m)
  PROVE  Abstract!ANext
<1> DEFINE o == m.outhash
           t == m.taskhash
           found == OuthashQuery(db, o, t)
<1>1. t \in TaskHashes /\ o \in OutHashes /\ m.unihash \in UniHashes
  BY RequestFields
<1>2. PICK u \in StoredUnihash(m, found) : db' = db \cup {NewRow(o, t, u)}
  BY DEF AddsReport
<1>3. \A r \in db : r.outhash = o => r.unihash = u
  BY <1>1, <1>2, OuthashQueryComplete, NoneAssumption
  DEF StoredUnihash, TableOK, SameOutputSameUnihash
<1>4. {u} = IF OutputOf[o] = {} THEN {m.unihash} ELSE OutputOf[o]
  <2>1. OutputOf[o] = {r.unihash : r \in {q \in db : q.outhash = o}}
    BY <1>1 DEF OutputOf
  <2>2. CASE found = {}
    <3>1. u = m.unihash /\ {q \in db : q.outhash = o} = {}
      BY <1>2, <2>2, OuthashQueryComplete DEF StoredUnihash
    <3>2. QED
      BY <2>1, <3>1
  <2>3. CASE found # {}
    <3>1. PICK r \in found : r \in db /\ r.outhash = o
      BY <2>3, OuthashQueryComplete
    <3>2. OutputOf[o] = {u}
      BY <1>3, <2>1, <3>1
    <3>3. QED
      BY <3>2
  <2>4. QED
    BY <2>2, <2>3
<1>5. /\ UnihashOf' = [UnihashOf EXCEPT ![t] = IF @ = {} THEN {u} ELSE @]
      /\ OutputOf' = [OutputOf EXCEPT ![o] = {u}]
  <2>1. ~KeyTaken(db, o, t)
    BY DEF AddsReport
  <2>2. QED
    BY <1>1, <1>2, <1>3, <2>1, AddedRowAnswers
<1> HIDE DEF o, t
<1>6. Abstract!AReport(t, o, m.unihash)
  BY <1>4, <1>5 DEF Abstract!AReport, Abstract!FirstOf
<1>7. QED
  BY <1>1, <1>6 DEF Abstract!ANext

\* A server without upstream gives every taskhash and every output one unihash,
\* chosen by the first report: clients' retries, concurrent connections, kills
\* and restarts only repeat or delay the steps of Equivalence.
THEOREM StandaloneImplementsEquivalence ==
  ASSUME ~HasUpstream
  PROVE  Spec => ImplementsEquivalence
<1>1. Init => Abstract!AInit
  <2> SUFFICES ASSUME Init PROVE Abstract!AInit
    OBVIOUS
  <2>1. \A t \in TaskHashes : TaskQuery(db, t) = {}
    BY DEF Init, TaskQuery, Fetch
  <2>2. QED
    BY <2>1 DEF Init, Abstract!AInit, UnihashOf, OutputOf
<1>2. ASSUME TypeOK, Stamps, Holding, TableOK, [Next]_vars
      PROVE  [Abstract!ANext]_(Abstract!avars)
  <2>1. CASE db' = db
    BY <2>1 DEF Abstract!avars, UnihashOf, OutputOf
  <2>2. CASE \E m \in Requests \cup UpRequests : AddsEquiv(m) \/ AddsReport(m)
    BY <1>2, <2>2, EquivSimulates, ReportSimulates
  <2>3. QED
    BY <1>2, <2>1, <2>2, StandaloneStep
<1>3. TypeOK /\ JoinCount /\ Stamps /\ Holding /\ TableOK /\ [Next]_vars
        => [Abstract!ANext]_(Abstract!avars)
  BY <1>2
<1>4. QED
  BY <1>1, <1>3, InductiveInvariant, TableInvariant, PTL
  DEF Spec, ImplementsEquivalence, Abstract!ASpec
=============================================================================
