SPECIFICATION FairSpec
CONSTANTS
  c1 = c1
  c2 = c2
  p1 = p1
  p2 = p2
  Clients = {c1, c2}
  Taps = {p1}
  Owner <- OneOwner
  Fingerprinted = TRUE
  MaxSent = 1
  MaxResets = 1
  MaxCrashes = 1
  MaxEvictions = 1
INVARIANTS SavedPointsAreLogged
PROPERTIES ScreensCatchUp
