SPECIFICATION FairSpec
CONSTANTS
  Tasks <- TwinTasks
  Setscene <- TwinSetscene
  Depends <- TwinDepends
  File <- TwinFile
  Targets = {"x_image","y_image"}
  HardDeps <- TwinHardDeps
  NoExec = {}
  Twin <- SecondAfterFirst
  InitialStamps <- TwinStamps
  Aborts = {TRUE, FALSE}
  EnforcedSets = {{}, {"y_compile"}}
  Threads = {2}
  Reporters = {"x_package", "y_package"}
  Interrupts = {"finish", "finishnow"}
INVARIANT NoInternalError
PROPERTY BuildEnds
