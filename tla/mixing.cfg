SPECIFICATION Spec
CONSTANTS
  None = None
  Settings <- OneSetting
  Tiles = {t1, t2}
  MaxFaults = 0  MaxEdits = 0  MaxRoiEdits = 1  MaxRemovals = 0
INVARIANTS DocNeverMixes
CHECK_DEADLOCK FALSE
