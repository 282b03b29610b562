SPECIFICATION Spec
CONSTANTS
  None = None
  Uris = {"blog", "wiki"}
  Active = {"blog"}
  Pages = {"p"}
  MaxEdition = 2
  MaxDrift = 1
  MaxTime = 1
  MaxTries = 2
INVARIANTS SuccessIsFetchable KeptFresh
PROPERTIES SeededIsFound
CHECK_DEADLOCK FALSE
