SPECIFICATION FairSpec
CONSTANTS
  b1 = b1
  b2 = b2
  m1 = m1
  m2 = m2
  o1 = o1
  l1 = l1
  d2 = d2
  a1 = a1
  Boards = {b1, b2}
  Mutators = {m1}
  Owners = {o1}
  Failing = {o1}
  Links = {l1}
  Deleters = {d2}
  Admins = {a1}
  BoardOf <- Together
  Workers = 1
  Capacity = 2
INVARIANTS NoRuntimeWithoutOverlay DeletionIsExclusive
PROPERTIES EveryoneReturns
CHECK_DEADLOCK FALSE
