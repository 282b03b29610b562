CONSTANTS
  u1 = u1
  u2 = u2
  ann = ann
  bob = bob
  cal = cal
  x = x
  y = y
  Clients = {c1, c2}
  RustClients = {}
  OneAtATime = FALSE
  Uris = {u1, u2}
  Authors = {ann, bob}
  Contents = {x, y}
  Records <- TwoNames
  MayDieInSwap = FALSE
  MaxDrift = 0
  Nobody = Nobody
  None = None
SPECIFICATION Spec
SYMMETRY MCSymmetry
PROPERTY MarksOnlyRise
