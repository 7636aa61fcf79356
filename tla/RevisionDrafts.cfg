SPECIFICATION FairSpec
CONSTANTS
  owner = owner
  reviewer = reviewer
  Requests = {r1, r2}
  Actors = {owner}
  Owner = owner
  InitialRole <- OwnerReviews
  Administered = {}
  AssignableRoles = {}
  Keys = {k1}
  NoHolder = NoHolder
  MaxDraft = 2
  MaxRuns = 2
  MaxRevisions = 1
INVARIANT SavedFromOneDraft
PROPERTIES RetryIsReplayed EveryRequestAnswered
