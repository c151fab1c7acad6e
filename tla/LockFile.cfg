SPECIFICATION Spec
CONSTANTS
  Procs = {p1, p2, p3}
  Inodes = {i1, i2, i3, i4}
  Ways <- SomeWays
  Kills = 1
  NoFile = NoFile
INVARIANTS Exclusion UnlinksOwnFile
PROPERTIES LastOneDeletes SomebodyGetsIt
