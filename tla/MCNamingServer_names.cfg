CONSTANTS
  r1 = r1
  r2 = r2
  Uris = {u1, u2}
  Authors = {a1, a2}
  Publishers = {}
  Reviewers = {}
  Timestamps = {0, 1, 2, 3}
  Deadlines = {}
  ReviewerLists = {}
  MaxReviewers = 2
  MaxDrift = 1
  MaxTime = 2
  StrictReviews = TRUE
  SaveMayFail = TRUE
  FileMayBeLost = FALSE
  None = None
  Nobody = Nobody
SPECIFICATION Spec
SYMMETRY MCSymmetry
INVARIANTS
  MemoryHoldsTheFile
  AckedIsKept
PROPERTY DurableRegistry
