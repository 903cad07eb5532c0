SPECIFICATION PagesSpec
CONSTANTS
  SetsToWin = 2
  MaxPoints = 1
  MaxPushes = 3
  FoldTime = 3
  RollTime = 4
  ShowTime = 8
  HideTime = 5
  ShrinkTime = 5
  None = None
  b1 = b1
  b2 = b2
  Courts = {b1, b2}
  Kinds = {"indoor", "beach"}
  Dates = {"mon", "tue"}
  Played = {1, 2, 3, 4}
  Facts <- About
  Opened = b1
  ReportRows = 2
  Batch = 1
  Streams = {1, 2, 3}
  Notes = {t1}
  Running = {1, 2}
  ListRows = 1
  Tools = 2
  k1 = k1
  k2 = k2
  x1 = x1
  National = {e1}
  Amateur = {c1, c2}
  Leagues = {s1}
  Circles = {g1, g2}
  Enrolled = {e1}
  Founded = {c1}
  Joined = {g1}
  TeamNames = {1, 2}
  Registered = {1, 2}
  Announced = {g1}
  Filters = 1
  s1 = s1
  Squads = {k1, k2}
  Images = {1, 2, 3}
  Links = {x1}
  Stocked = {1}
  Worn <- Dressed
  Space = 2
  me = me
  People = {me, ann, zoe}
  Staff = {me, ann}
  Members = {}
  p1 = p1
  p2 = p2
  Enlisted = {bob}
  guest = guest
  Windows = {ta, tb}
  Holders = {ada, bob}
  Items = {key}
  Steps = 4
  FewSteps = 3
  Mishaps = 1
INVARIANTS PageAgrees PagesAgree ChoicesAreCurrent RecordsHold
PROPERTIES NoStepMisleads
CHECK_DEADLOCK FALSE
