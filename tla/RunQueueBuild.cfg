SPECIFICATION FairSpec
CONSTANTS
  Tasks <- GraphTasks
  Setscene <- GraphSetscene
  Depends <- GraphDepends
  File <- GraphFile
  Targets = {"image"}
  HardDeps <- PackageNeedsSysroot
  NoExec = {"image"}
  Twin <- NoTwins
  InitialStamps <- SomeStamps
  Aborts = {TRUE, FALSE}
  EnforcedSets = {{}}
  Threads = {1, 2}
  Reporters = {"a_sysroot", "a_package", "b_package"}
  Interrupts = {}
INVARIANTS TypeOK InOrder InputsExist OneVariant SetsceneSound Counted CompleteIsBuilt
PROPERTIES BuildEnds NotRepeated
