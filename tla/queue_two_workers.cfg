SPECIFICATION Spec
CONSTANTS
  w1 = w1
  w2 = w2
  w3 = w3
  j1 = j1
  j2 = j2
  j3 = j3
  NoWorker = NoWorker
  SingleWorker = FALSE
  Workers = {w1, w2, w3}
  Jobs = {j1, j2}
  Training = {j2}
  MaxAttempts = 2
  MaxParallel = 2
  Checkpoints = 2
  Cancellable = {}
  Deletable = {}
  Mortal = {}
  MaxCrashes = 0
  SilentAge = 1
  LocksAge = FALSE
CHECK_DEADLOCK FALSE
SYMMETRY WorkerSymmetry
INVARIANTS TypeOK LockGuards ExclusiveRun NeverRobbed TrainingExclusive LockNotLeaked
