SPECIFICATION Spec
CONSTANTS
  Drafts <- TwoValues
  Catalogs <- OneCatalog
  DirectInputs = {}
  Earlier = {"gone"}
  EditorPages = {}
  MaxEdits = 0
  MaxCalculated = 0
  Uuids <- MCUuids
  RouteCodes = {}
  Lengths = {}
  Counts = {}
  Substrates = {}
  JoinKinds = {}
INVARIANT FirstRouteNeverWins
CHECK_DEADLOCK FALSE
