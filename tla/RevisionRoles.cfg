SPECIFICATION Spec
CONSTANTS
  owner = owner
  reviewer = reviewer
  Requests = {r1, r2}
  Actors = {owner, reviewer}
  Owner = owner
  InitialRole <- OwnerDesigns
  Administered = {reviewer}
  AssignableRoles = {"reviewer", "designer", "viewer"}
  Keys = {k1}
  NoHolder = NoHolder
  MaxDraft = 1
  MaxRuns = 1
  MaxRevisions = 1
SYMMETRY SymmetricRequests
PROPERTY ActorCurrentAtCommit
