SPECIFICATION Spec
CONSTANTS
  w1 = w1
  w2 = w2
  w3 = w3
  j1 = j1
  j2 = j2
  j3 = j3
  NoWorker = NoWorker
  SingleWorker = TRUE
  Workers = {w1, w2}
  Jobs = {j1, j2, j3}
  Training = {j2}
  MaxAttempts = 2
  MaxParallel = 2
  Checkpoints = 1
  Cancellable = {}
  Deletable = {}
  Mortal = {"worker"}
  MaxCrashes = 1
  SilentAge = 0
  LocksAge = TRUE
CHECK_DEADLOCK FALSE
INVARIANTS ParallelLimit RunningIsOwned
PROPERTIES LawfulTransitions AttemptsCounted Implements
