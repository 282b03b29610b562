CONSTANTS
  u1 = u1
  u2 = u2
  ann = ann
  bob = bob
  cal = cal
  x = x
  y = y
  Clients = {c1, c2}
  RustClients = {c2}
  OneAtATime = TRUE
  Uris = {u1, u2}
  Authors = {ann, bob}
  Contents = {x, y}
  Records <- AllVersions
  MayDieInSwap = TRUE
  MaxDrift = 0
  Nobody = Nobody
  None = None
SPECIFICATION MixedSpec
INVARIANT CopyIsNotOlder
PROPERTIES VisitsOnlyAdvance AtomicVisits
