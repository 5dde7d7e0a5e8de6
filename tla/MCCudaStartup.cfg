CONSTANTS
  Starts <- MCStarts
  LayerNames <- MCLayerNames
  StagingBytes = 24
  CublasBytes = 32
  QueuedMax = 1
  Layers = 2
  Modes <- MCModes
  ForwardsMax = 2
  Alignment = 8
  SizeMax = 8191
  ExtentMax = 45
  DimensionMax = 4095
SPECIFICATION FairSpec
INVARIANTS MemoryIsSafe NothingLeaks LoadedIsExact RowsStayInFile RegionsAreDisjoint ConfigIsSound ForwardIsExact StatusIsExact OperandsAreAccepted
PROPERTIES StartupEnds
