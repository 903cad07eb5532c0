SPECIFICATION Spec
CONSTANTS
  ConfSets = 3
  Requests = {"add_point", "add_set", "add_timeout", "undo_last", "change_serve", "init", "start_match", "reset"}
  RuleSets <- OnlyBestOf3
  InitialRules <- BestOf3
  ScoreValues = {0}
  SetsValues = {0}
  NoTag = none
  Tags = {none}
  RapidTaps = FALSE
  AppendOutcomes = {TRUE}
  ClearOutcomes = {TRUE}
  RotationDrops = {0}
  MaxLog = 5
  MaxPoints = 3
INVARIANT CountMatchesLog
PROPERTIES UndoRestoresTheTally TimeoutsStayInTheirSet
CHECK_DEADLOCK FALSE
