SPECIFICATION Spec
CONSTANTS
  Writers = {w1, w2}
  Old = Old
  Torn = Torn
  Retries = 1
  PoolTasks = 4
  PoolWorkers = 2
  CacheJobs = {j1, j2, j3}
  CacheAttempts = 2
  ToolCommands = 2
  ToolAttempts = 2
  Runs = {r1, r2}
  MaxPosts = 3
  MaxGets = 1
  TrainingAttempts = 2
  Listed = {j1, j2}
  maxQueuedJobs = 1
  MaxOps = 2
  MaxPutBacks = 1
  LiveJobs = {j1, j2}
  Outcomes = {"succeeded", "failed", "gone"}
  Streams = 2
  Backlog = 1
  ListPages = {1, 2}
  WbJobs = {j1, j2}
  Modes = {"WS", "OS"}
  Slots = 2
  MaxChanges = 3
  Packages <- MCPackages
  Uploads <- MCUploads
  RunTimes <- MCRunTimes
  Runners = {"shapes", "plan"}
  MaxAsks = 3
  StoredJobs <- MCStored
  MaxStored = 4
  MaxStoreOps = 2
  Limit = 2
  QueuedFloor = 1
  TerminalRoom = 1
  MaxOpens = 2
  NamesRead = 3
  CleanAge = 1
CHECK_DEADLOCK FALSE
INVARIANTS
  ServicesTypeOK WorkersSound FilesSound ModelsSound ViewsSound
PROPERTIES
  AtomicWrites WorkEnds ViewsCatchUp
