CONSTANTS
  u1 = u1
  u2 = u2
  ann = ann
  bob = bob
  cal = cal
  x = x
  y = y
  Clients = {c1, c2, c3}
  RustClients = {c3}
  OneAtATime = FALSE
  Uris = {u1, u2}
  Authors = {ann, bob, cal}
  Contents = {x, y}
  Records <- TwoAuthors
  MayDieInSwap = FALSE
  MaxDrift = 0
  Nobody = Nobody
  None = None
SPECIFICATION MixedSpec
SYMMETRY MCSymmetry
INVARIANTS
  
  CopiesSurviveSwaps
  PinnedKeysAreSigned
