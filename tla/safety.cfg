SPECIFICATION Spec
CONSTANTS
  t1 = t1  t2 = t2  t3 = t3  t4 = t4  t5 = t5  t6 = t6  t7 = t7
  None = None  End = End
  Workers = {w1, w2}
  Share <- TwoTiles
  Resumed <- Anything
  Depth = 1  Retries = 1  MaxKills = 1  LogMayFail = TRUE
SYMMETRY Symmetry
INVARIANTS TypeOK OneHolder Accounted GivenUpOnce
CHECK_DEADLOCK FALSE
