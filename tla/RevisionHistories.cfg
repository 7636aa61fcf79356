SPECIFICATION Spec
CONSTANTS
  owner = owner
  reviewer = reviewer
  Requests = {r1, r2}
  Actors = {owner}
  Owner = owner
  InitialRole <- OwnerReviews
  Administered = {}
  AssignableRoles = {}
  Keys = {k1, k2}
  NoHolder = NoHolder
  MaxDraft = 1
  MaxRuns = 1
  MaxRevisions = 2
SYMMETRY SymmetricRequestsAndKeys
CONSTRAINT AtMostOneTombstone
INVARIANTS TypeOK OneRevisionPerKey EventsAreReplayable RejectionAlreadyKept
PROPERTIES WritesMeetConstraints RejectedStaysRejected HistoryIsKept
