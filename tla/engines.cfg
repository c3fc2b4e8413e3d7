CONSTANTS
  Q = 2
  PadBytes = 16
  Poison = 100
  D = 64
  Work <- MCWork
  Lanes = 4
  Outcomes <- MCOutcomes
  NPoints = 2
  MaxIterations = 3
  ObjTol = 1
  DispTol = 1
  DispMax = 3
  NaN = NaN
  Infinity = 1000
SPECIFICATION Spec
INVARIANTS
  SumsAgree
  OneInterpolant
  Derivatives
  SolveAgrees
