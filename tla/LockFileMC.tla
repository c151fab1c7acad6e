----------------------------- MODULE LockFileMC -----------------------------
(* LockFile for TLC: as the task locks, the recipe cache and the server call it. *)
EXTENDS LockFile

SomeWays ==
  {[shared |-> s, retry |-> TRUE, block |-> FALSE] : s \in BOOLEAN}
    \cup {[shared |-> FALSE, retry |-> FALSE, block |-> FALSE]}
=============================================================================
