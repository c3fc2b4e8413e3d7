CONSTANTS
  None = None
  Position <- MCPosition
  Landscapes <- MCLandscapes
  Worlds <- MCWorlds
  Strategies = {"wavefront", "coarse", "rigid"}
  StartPoint = 12
  ShellWidth = 10
  NNeighbours = 2
  CoarseStride = 2
  Spacing = 10
  ProcessLimits = {0, 2, 3}
  Rigid = 0
  DispMax = 16
  ObjTol = 1
  Step = 8
  MaxIterations = 3
  BasinSteps = 1
  Threshold = TRUE
  ChunkSize = 3
  MaxFaults = 1
  MaxSamples = 1000000
  MaxIterationCount = 255
  Jobs <- MCJobs
  JobWorlds <- MCJobWorlds
SPECIFICATION Spec
CHECK_DEADLOCK FALSE
INVARIANTS
  AsAlone
  GoodMeans
  SeedOrigin
  Processed
  DispMeansDone
  FailedKeeps
  SettingsKept
PROPERTIES
  Ends
