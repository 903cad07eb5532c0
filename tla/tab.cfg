SPECIFICATION TabsSpec
CONSTANTS
  b1 = b1
  b2 = b2
  s1 = s1
  s2 = s2
  s3 = s3
  None = None
  Boards = {b1, b2}
  LastSet = 2
  Starts <- OneAhead
  MaxEvents = 4
  Sockets = {s1, s2, s3}
  ClientOf <- TabOf
  Cap = 2
  MaxFaults = 1
  MaxPayloads = 1
INVARIANTS ScreenIsOfTheBoard RecapYieldsToPlay EditsAreNotLost ConnectionsAgree
PROPERTIES RecapsAreBetweenSets
SYMMETRY Symmetric
CHECK_DEADLOCK FALSE
