SPECIFICATION FairSpec
CONSTANTS
  b1 = b1
  b2 = b2
  m1 = m1
  m2 = m2
  o1 = o1
  l1 = l1
  d2 = d2
  a1 = a1
  Boards = {b1, b2}
  Mutators = {m1, m2}
  Owners = {}
  Failing = {}
  Links = {}
  Deleters = {d2}
  Admins = {a1}
  BoardOf <- Apart
  Workers = 1
  Capacity = 2
PROPERTIES EveryoneReturns
CHECK_DEADLOCK FALSE
