SPECIFICATION TapsSpec
CONSTANTS
  c1 = c1
  c2 = c2
  p1 = p1
  p2 = p2
  Clients = {c1, c2}
  Taps = {p1, p2}
  Owner <- TwoOwners
  None = None
  Buttons <- ThreeButtons
  DoubleTap = 2
  LongPress = 3
  Fingers = {"f1", "f2"}
  AllSettings <- ThreeHands
  BoardStates <- TwoStates
  MaxPresses = 3
  MaxOthers = 1
  Fingerprinted = TRUE
  MaxSent = 2
  MaxResets = 0
  MaxCrashes = 1
  MaxEvictions = 0
INVARIANTS AtMostOnce RevisionNamesOneBoard RestartNeverFallsBehind PredictionsSettle TapsAreAccounted
PROPERTIES MutationsLandWhereAimed
VIEW Seen
