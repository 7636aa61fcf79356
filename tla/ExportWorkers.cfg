SPECIFICATION Spec
CONSTANTS
  oldBackend = oldBackend
  newBackend = newBackend
  oldTemplate = oldTemplate
  newTemplate = newTemplate
  Requests = {r1}
  Actors = {a1}
  Keys = {k1, k2}
  Backends = {oldBackend, newBackend}
  Templates = {newTemplate}
  Template <- OneTemplate
  MaxAttempts = 2
  PassLimit = 2
  SweepLimit = 1
  MaxArtifacts = 2
  MaxInterruptions = 1
SYMMETRY SymmetricBackends
INVARIANTS TypeOK ReadyFromLastAttempt FailedOnlyExhausted
PROPERTIES LiveClaimIsExclusive
