CONSTANTS
  None = None
  Converters = {"c1", "c2"}
  Overwriting = {"c1"}
  Source <- MCSource
  First <- MCFirst
  DeviceReads = {"c1", "c2", "first", "raw"}
  Machines = {"none", "compat", "gds"}
  Size <- MCSize
  Chunk = 2
  Shard = 3
  Header = 2
  SlabVoxels = 6
  ExportSlab = 2
  NonFinite <- MCNonFinite
  Boxes <- MCBoxes
  Margin = 1
  FilterSlab = 2
  MaxStarts = 3
  MaxKills = 1
  MaxFaults = 1
  MaxOpens = 1
SPECIFICATION Spec
CHECK_DEADLOCK FALSE
INVARIANTS
  DstWhole
  BrickRight
PROPERTIES
  Kept
