SPECIFICATION Spec
CONSTANTS
  Requests = {r1, r2}
  Actors = {a1}
  Catalogue <- MCCatalogue
  UploadSets <- MCUploadSets
SYMMETRY SymmetricRequests
INVARIANTS PublishedIsApproved ValidIsStored
PROPERTIES PublishedStays
