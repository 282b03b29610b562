CONSTANTS
  Seeders = {h, s1, s2, s3, s4}
  Honest = {h}
  MaxParallel = 2
  None = None
SPECIFICATION Spec
INVARIANTS
  
  OneWinner
  HonestSeederIsEnough
PROPERTY DownloadEnds
CHECK_DEADLOCK FALSE
