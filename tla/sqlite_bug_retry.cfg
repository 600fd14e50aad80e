SPECIFICATION FairSpec
CONSTANTS
  w1 = w1
  w2 = w2
  w3 = w3
  j1 = j1
  j2 = j2
  Web = Web
  NoWorker = NoWorker
  SingleWorker = TRUE
  Workers = {w1}
  Jobs = {j1}
  MaxAttempts = 2
  MaxParallel = 1
  Cancellable = {}
  MaxCrashes = 0
  JsonInterval = 15000
  TornSaves = {}
CHECK_DEADLOCK FALSE
PROPERTIES EverySettles
