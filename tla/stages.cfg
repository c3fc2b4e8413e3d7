SPECIFICATION FairSpec
CONSTANTS
  None = None
  Settings <- ThreeSettings
  Tiles = {t1, t2}
  MaxFaults = 2  MaxEdits = 2  MaxRoiEdits = 1  MaxRemovals = 1
INVARIANTS Unmixed CoarseSeeded
PROPERTIES Recovers
CHECK_DEADLOCK FALSE
