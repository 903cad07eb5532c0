CONSTANTS
  ConfSets = 3
  rules <- ToFour
  Values = {4}
  MaxRecords = 5
  Classified = {1}
  MaxTagged = 1
  MaxOthers = 1
  MaxUndos = 1
SPECIFICATION Spec
INVARIANT FiguresAgree
CHECK_DEADLOCK FALSE
