SPECIFICATION Spec
CONSTANTS
  w1 = w1
  w2 = w2
  w3 = w3
  j1 = j1
  j2 = j2
  Web = Web
  NoWorker = NoWorker
  SingleWorker = TRUE
  Workers = {w1, w2, w3}
  Jobs = {j1, j2}
  MaxAttempts = 2
  MaxParallel = 1
  Cancellable = {j1}
  MaxCrashes = 2
  JsonInterval = 0
  TornSaves = {j1}
CHECK_DEADLOCK FALSE
INVARIANTS QueuedIsNewest
PROPERTIES AttemptsCounted
