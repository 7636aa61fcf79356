SPECIFICATION FairSpec
CONSTANTS
  Editors = {e1, e2}
  Contents <- MCContents
  Valid <- MCValid
  Calculable <- MCCalculable
  MaxCatalogs = 2
  Cleared <- MCCleared
  FlushAttempts = 2
  MaxMoves = 4
PROPERTY StaleIsToldStale
CHECK_DEADLOCK FALSE
