CONSTANTS
  None = None  Torn = Torn
  Places <- MCPlaces
  Host <- MCHost
  Bias <- MCBias
  References <- MCReferences
  Default = "five"
  Node = "n"
  Visible = 8
  Revisions <- MCRevisions
  Setups <- MCSetups
  Submissions <- MCSubmissions
  MaxKills = 1
  MaxAlters = 1
SPECIFICATION Spec
CHECK_DEADLOCK FALSE
INVARIANTS
  PassMeans
  Trusted
PROPERTIES
  Completes
