SPECIFICATION FairSpec
CONSTANTS
  w1 = w1
  w2 = w2
  w3 = w3
  j1 = j1
  j2 = j2
  j3 = j3
  NoWorker = NoWorker
  SingleWorker = TRUE
  Workers = {w1, w2}
  Jobs = {j1, j2}
  Training = {j2}
  MaxAttempts = 2
  MaxParallel = 1
  Checkpoints = 1
  Cancellable = {j1}
  Deletable = {j1}
  Mortal = {"worker", "child"}
  MaxCrashes = 1
  SilentAge = 0
  LocksAge = FALSE
CHECK_DEADLOCK FALSE
PROPERTIES EverySettles
