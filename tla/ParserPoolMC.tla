---------------------------- MODULE ParserPoolMC ----------------------------
(* ParserPool for TLC *)
EXTENDS ParserPool

CONSTANTS p1, p2, r1, r2, r3

\* Two processes with work, one with work, everything cached
Dealt ==
  {[p \in Processes |-> IF p = p1 THEN {r1, r2} ELSE {r3}],
   [p \in Processes |-> IF p = p1 THEN {r1} ELSE {}],
   [p \in Processes |-> {}]}
=============================================================================
