SPECIFICATION FairSpec
CONSTANTS
  w1 = w1
  w2 = w2
  w3 = w3
  j1 = j1
  j2 = j2
  Web = Web
  NoWorker = NoWorker
  SingleWorker = FALSE
  Workers = {w1, w2}
  Jobs = {j1, j2}
  MaxAttempts = 1
  MaxParallel = 1
  Cancellable = {}
  MaxCrashes = 1
  JsonInterval = 15000
  TornSaves = {}
CHECK_DEADLOCK FALSE
INVARIANTS TypeOK RunningIsRecoverable TerminalIsReadable
PROPERTIES EverySettles
