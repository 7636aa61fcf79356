SPECIFICATION Spec
CONSTANTS
  Drafts <- MCDrafts
  Catalogs <- MCCatalogs
  DirectInputs <- MCInputs
  Earlier = {"gone"}
  EditorPages <- MCPages
  MaxEdits = 2
  MaxCalculated = 1
  Uuids <- MCUuids
  RouteCodes = {"R1", "R3"}
  Lengths <- MCLengths
  Counts = {3}
  Substrates = {"concrete", "steel"}
  JoinKinds <- MCJoins
INVARIANTS ReadyLeavesNothingOut LinesAccountForDemand SuppressionIsExact PreflightIsEnough ResultFollowsDraft DraftsAreSound
CHECK_DEADLOCK FALSE
