SPECIFICATION Spec
CONSTANTS
  w1 = w1
  w2 = w2
  w3 = w3
  j1 = j1
  j2 = j2
  j3 = j3
  NoWorker = NoWorker
  SingleWorker = TRUE
  Workers = {w1}
  Jobs = {j1}
  Training = {}
  MaxAttempts = 1
  MaxParallel = 1
  Checkpoints = 3
  Cancellable = {j1}
  Deletable = {}
  Mortal = {}
  MaxCrashes = 0
  SilentAge = 0
  LocksAge = FALSE
CHECK_DEADLOCK FALSE
PROPERTY CancelStopsRun
