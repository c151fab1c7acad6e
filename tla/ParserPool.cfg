SPECIFICATION Spec
CONSTANTS
  p1 = p1
  p2 = p2
  r1 = r1
  r2 = r2
  r3 = r3
  Processes = {p1, p2}
  Recipes = {r1, r2, r3}
  Chunks <- Dealt
  Capacity = 1
  Sessions = 2
  None = None
CHECK_DEADLOCK FALSE
INVARIANTS TypeOK CompleteMeansAll NoneLeft
PROPERTIES CommandEnds
