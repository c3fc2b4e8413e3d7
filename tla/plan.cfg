CONSTANTS
  None = None
  Roi <- MCRoi
  Length = 32
  CellSize = 8
  BinSize = 4
  TileSizes = {8, 12, 16}
  Fields <- MCFields
  Rigid = 2
  Extent = 5
  DispMax = 3
  Depth = 2
  Usable = 52
  Batch = 2
  NodeCounts = {1, 2}
  MaxJobs = 2
SPECIFICATION Spec
CHECK_DEADLOCK FALSE
INVARIANTS
  StoredOnce
  BricksCover
  SharesPartition
  SolvedOnce
  Reported
