SPECIFICATION Spec
CONSTANTS
  None = None
  Main = m
  m = m
  g1 = g1
  s1 = s1
  s2 = s2
  s3 = s3
  blog = blog
  wiki = wiki
  news = news
  Guests <- MCGuests
  Seeders <- MCSeeders
  Tasks <- MCTasks
  Things <- MCThings
  Honest = {s1}
  Uri = blog
  Stored = {news, wiki}
  MaxParallel = 2
  Capacity = 2
  Listeners = 2
  MaxCalls = 1
  MaxRounds = 2
INVARIANTS RepliesMatch NoCallIsForgotten AnnouncedWithAddresses
PROPERTIES  ProgramGoesOn
CHECK_DEADLOCK FALSE
