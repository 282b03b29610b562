CONSTANTS
  r1 = r1
  r2 = r2
  Uris = {u1}
  Authors = {a1, a2}
  Publishers = {p1, p2}
  Reviewers = {r1, r2}
  Timestamps = {1, 2}
  Deadlines = {0, 1}
  ReviewerLists <- MCLists
  MaxReviewers = 2
  MaxDrift = 1
  MaxTime = 3
  StrictReviews = TRUE
  SaveMayFail = FALSE
  FileMayBeLost = FALSE
  None = None
  Nobody = Nobody
SPECIFICATION Spec
SYMMETRY MCSymmetry
INVARIANTS
  ReviewsRestOnAssignments
  InboxIsThePublishers
  NothingFromTheFuture
PROPERTIES
  ResolversNeverSeeRegress
  ReviewFilesAdvance
  LateVerdictsAreBounded
