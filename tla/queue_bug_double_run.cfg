SPECIFICATION Spec
CONSTANTS
  w1 = w1
  w2 = w2
  w3 = w3
  j1 = j1
  j2 = j2
  j3 = j3
  NoWorker = NoWorker
  SingleWorker = FALSE
  Workers = {w1, w2, w3}
  Jobs = {j1}
  Training = {}
  MaxAttempts = 1
  MaxParallel = 1
  Checkpoints = 3
  Cancellable = {}
  Deletable = {}
  Mortal = {"worker"}
  MaxCrashes = 1
  SilentAge = 0
  LocksAge = FALSE
CHECK_DEADLOCK FALSE
INVARIANT ExclusiveRun
