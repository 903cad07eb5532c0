SPECIFICATION FairSpec
CONSTANTS
  Sources = {s1, s2, s3}
  Writers = {w1, w2}
  Cap = 2
  Punctual = TRUE
  MaxChanges = 2
  MaxTimeouts = 1
  MaxCuts = 1
  MaxRestarts = 1
INVARIANTS QuietScreensAgree OnlyTimeoutsDrop
PROPERTIES NothingGoesBack ScreensCatchUp
CHECK_DEADLOCK FALSE
