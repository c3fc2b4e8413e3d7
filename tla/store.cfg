SPECIFICATION Spec
CONSTANTS
  c1 = c1  c2 = c2  c3 = c3  None = None  Deferred = Deferred
  Tiles <- TwoTiles
  Workers = {w1, w2}
  Values = {a, b}
  MaxRuns = 3  MaxKills = 1
SYMMETRY Symmetry
INVARIANTS OneRunPerTile NothingHidden FullExport
PROPERTIES DoneTilesKept
