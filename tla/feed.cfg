SPECIFICATION FairFeed
CONSTANTS
  Boards = {b1, b2}
  Limit = 2
  MaxWrites = 4
  MaxBreaks = 2
INVARIANTS CopyIsOfItsVersion
PROPERTIES FeedCatchesUp
CHECK_DEADLOCK FALSE
