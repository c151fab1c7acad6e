------------------------------ MODULE PRServMC ------------------------------
(* PRServ for TLC: two daemons that can write, on two ports and one file, and *)
(* a read-only one that shares the port of the first.                         *)
EXTENDS PRServ

TwoPorts == [d \in Daemons |-> IF d = "d2" THEN "p2" ELSE "p1"]
SomeRequests ==
  {[op |-> "get-pr", checksum |-> c, value |-> 0] : c \in Checksums}
    \cup {[op |-> "import-one", checksum |-> "c2", value |-> 1],
          [op |-> "export", checksum |-> "c1", value |-> 0]}
=============================================================================
