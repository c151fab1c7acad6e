SPECIFICATION Spec
CONSTANTS
  Checksums = {"c1", "c2"}
  Ports = {"p1", "p2"}
  Daemons = {"d1", "d2", "r"}
  Port <- TwoPorts
  ReadOnly = {"r"}
  Requests <- SomeRequests
  MaxValue = 2
  Kills = 2
  None = None
CHECK_DEADLOCK FALSE
INVARIANTS TypeOK NeverDecreases ValuesDistinct OneAnswerAtRisk
