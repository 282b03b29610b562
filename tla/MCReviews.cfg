SPECIFICATION Spec
CONSTANTS
  None = None
  MaxHalvings = 2
  Keys = {1, 2, 3}
  Reviewing = {1, 2}
  Stranger = 9
  Categories = {"tech"}
  Content = {"news"}
  Rank <- MCRank
  review_count = 2
  Freshness = 0
  PageSize = 1
  max_pages = 3
  MaxReviewers = 2
  Verdicts = {"warn", "reject"}
  Policy <- MCPolicy
  Peers <- MCPeers
  MaxTime = 2
  MaxOptIns = 3
  MaxReviews = 2
  MaxPage = 1
  MaxAnswer = 2
INVARIANTS NobodyIsMissed AssignmentsAreAccepted OnlyWillingAreAsked NoAmplification
PROPERTY PublicationGoesOn
CHECK_DEADLOCK FALSE
