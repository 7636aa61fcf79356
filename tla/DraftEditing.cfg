SPECIFICATION FairSpec
CONSTANTS
  Editors = {e1, e2}
  Contents <- MCContents
  Valid <- MCValid
  Calculable <- MCCalculable
  MaxCatalogs = 2
  Cleared <- MCCleared
  FlushAttempts = 2
  MaxMoves = 4
INVARIANTS SavedIsStored ConflictIsReal ResultShownIsCurrent
PROPERTIES CalculationNeverGoesBack EditsAreSettled
CHECK_DEADLOCK FALSE
