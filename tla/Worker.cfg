SPECIFICATION FairSpec
CONSTANTS
  Tasks = {"t1", "t2"}
  Events <- TwoAndOne
  Hashes = 1
  TaskRoom = 1
  Room = 3
  Answers = 1
  Faults = {"server", "worker", "term"}
  None = None
CHECK_DEADLOCK FALSE
INVARIANTS TypeOK EventsFirst
PROPERTIES HashesInOrder WaitsEnd
