--------------------------- MODULE CookerServerMC ---------------------------
(* CookerServer for TLC *)
EXTENDS CookerServer

TwoAndOne == [c \in Clients |-> IF c \in Killers THEN 1 ELSE 2]
Once == [c \in Clients |-> 1]
=============================================================================
