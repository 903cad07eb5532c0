SPECIFICATION Spec
CONSTANTS
  ConfSets = 3
  Requests = {"add_point", "undo_one", "reset", "set_score", "set_sets", "set_rules"}
  RuleSets <- BestOf1And3
  InitialRules <- BestOf1
  ScoreValues = {0}
  SetsValues = {0, 1}
  NoTag = none
  Tags = {none}
  RapidTaps = TRUE
  AppendOutcomes = {TRUE, FALSE}
  ClearOutcomes = {TRUE}
  RotationDrops = {0, 1}
  MaxLog = 2
  MaxPoints = 1
INVARIANTS UndoNeverHidden PairsNameLatest CurrentSetTracksSets
PROPERTIES StampFollowsTheBoard
CHECK_DEADLOCK FALSE
