CONSTANTS
  me = me
  Uris = {u1}
  Authors = {}
  Publishers = {p1}
  Reviewers = {me}
  Timestamps = {0, 1, 2}
  Deadlines = {1}
  ReviewerLists <- MCLists
  MaxReviewers = 2
  MaxDrift = 1
  MaxTime = 2
  StrictReviews = TRUE
  SaveMayFail = TRUE
  FileMayBeLost = FALSE
  None = None
  Nobody = Nobody
SPECIFICATION DaemonSpec
INVARIANTS
  NothingIsWrittenOff
  VerdictsAreKept
PROPERTIES
  SavedIsNotRepeated
  
  ReviewerRejoins
