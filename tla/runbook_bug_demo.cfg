SPECIFICATION Spec
CONSTANTS
  TileCount = 4
  maxKeep = 2
  poolKeep = 3
  heatmapMax = 2
  ShapeCount = 2
  SampleJobs = 2
  MaxMeasured = 2
  MaxFiles = 3
  JobSetups <- MCSetups
  MaxSamples = 2
  MinSamples = 2
  SuiteSamples = {1, 2, 3, 4, 5, 6, 7}
  workloadOf <- MCWorkloads
  arrayOf <- MCArrays
  flowOf <- MCFlows
  sampleSize <- MCSizes
  regimeOf <- MCRegimes
  unmeasured = {7}
  MaxKinds = 2
  MinClean = 5
  TrainRows = 2
  TestRows = 1
  maxSplitTrain = 4
  maxFinalTrain = 5
  AdaptiveRows = 3
  AdaptiveBucket = 2
  CalibrationRows = 2
  CalibrationBucket = 2
  MaxWinners = 2
  MaxAxis = 3
  MaxTiles = 3
  MaxPlanRows = 9
  JobEstimates <- MCEstimates
  DemoEstimate <- MCDemo
  RunOptions <- MCOptions
  MaxRiskOps = 1
  Errors = {10, 30, 50}
  Regrets = {100, 112}
  MaxRewrites = 1
  SweepFactors <- MCFactors
  BaseRequest <- MCBase
  NeededSram = 20
  CycleCounts = {40, 100}
  Reaches = {100, 400}
  SeedLimit = 7
  PlanTarget = 14
  Radius = 1
  Targets <- MCTargets
  Gemms <- MCGemms
  GridValues = {3}
  InputGrid <- MCInputGrid
  TileScores <- MCTileScores
  UnitCycles <- MCUnitCycles
  Commands = 2
  OracleTopK = 2
  MaxElements = 9
  MaxFaults = 2
  Designs <- MCDesigns
  Layers <- MCLayers
  TileSizes = {1, 4}
  KiB = 4
  OpNames <- MCOpNames
  LayerCycles = {0, 10, 11, 23}
  MaxOps = 2
  TimeLimits = {0, 10, 45, 2000}
  CellTexts <- MCTexts
  MaxPredicted = 7
  MinTrain = 5
  Recommended = 9
  ProfileCycles = {0, 3, 8}
  Stacks <- MCStacks
  Fallbacks <- MCFallbacks
  Ticks = 3
  FewRows = 2
  AnchorRows = 3
  Residuals <- MCResiduals
  Ridges = {2, 4}
  NearestOf = 2
  FarAway = 2
  Geometries <- MCGeometries
  Trainings <- MCTrainings
  FeatureRange = {1, 2, 3}
  Spread <- MCSpread
  Fractions = {0, 5, 20, 50, 80}
  ErrorRows <- MCErrorRows
  Targeted <- MCTargeted
  TargetRows = 2
  LayerSamples <- MCGeometries
  RowCounts <- MCRowCounts
CHECK_DEADLOCK FALSE
INVARIANT InputsAreOwn
