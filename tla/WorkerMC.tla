------------------------------ MODULE WorkerMC ------------------------------
(* Small instances of Worker. *)
EXTENDS Worker

\* One task fires more than its pipe holds
TwoAndOne == [t \in Tasks |-> IF t = "t1" THEN 2 ELSE 1]
=============================================================================
