SPECIFICATION Spec
CONSTANTS
  oldBackend = oldBackend
  newBackend = newBackend
  oldTemplate = oldTemplate
  newTemplate = newTemplate
  Requests = {r1, r2}
  Actors = {a1, a2}
  Keys = {k1}
  Backends = {oldBackend, newBackend}
  Templates = {oldTemplate, newTemplate}
  Template <- MixedTemplates
  MaxAttempts = 1
  PassLimit = 1
  SweepLimit = 1
  MaxArtifacts = 2
  MaxInterruptions = 0
SYMMETRY SymmetricRequests
INVARIANTS KeyExportsOnce
PROPERTIES PromisesAreCurrent ExportsAreKept
