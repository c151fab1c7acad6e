---------------------------- MODULE Equivalence ----------------------------
(***************************************************************************)
(* What a hash equivalence server without upstream promises: a taskhash    *)
(* and an outhash are each given a unihash once and keep it.  The first    *)
(* report of an outhash chooses the unihash of everything that produces    *)
(* this output; a taskhash that has no unihash yet takes the one of the    *)
(* output it is reported with.  An equivalence report binds a taskhash     *)
(* directly, if it is still unbound.                                       *)
(***************************************************************************)
CONSTANTS TaskHashes, OutHashes, UniHashes

VARIABLES unihashOf,  \* taskhash -> its unihash, as a set: {} until it is known
          outputOf    \* outhash -> the unihash its tasks share, likewise

avars == <<unihashOf, outputOf>>

AInit ==
  /\ unihashOf = [t \in TaskHashes |-> {}]
  /\ outputOf = [o \in OutHashes |-> {}]

FirstOf(known, new) == IF known = {} THEN new ELSE known

AReport(t, o, u) ==
  /\ outputOf' = [outputOf EXCEPT ![o] = FirstOf(@, {u})]
  /\ unihashOf' = [unihashOf EXCEPT ![t] = FirstOf(@, FirstOf(outputOf[o], {u}))]

AEquiv(t, u) ==
  /\ unihashOf' = [unihashOf EXCEPT ![t] = FirstOf(@, {u})]
  /\ UNCHANGED outputOf

ANext == \E t \in TaskHashes, u \in UniHashes :
           AEquiv(t, u) \/ \E o \in OutHashes : AReport(t, o, u)

ASpec == AInit /\ [][ANext]_avars
=============================================================================
