SPECIFICATION PoolsSpec
CONSTANTS
  i1 = i1
  i2 = i2
  i3 = i3
  i4 = i4
  k1 = k1
  k2 = k2
  o1 = o1
  o2 = o2
  t1 = t1
  t2 = t2
  Items = {i1, i2, i3, i4}
  Keys = {k1, k2}
  KeyOf <- TwoKeys
  OnLoop = {i4}
  Workers = 2
  MaxQueue = 1
  Names = {"set_end", "match_end", "set-end"}
  Known = {"set_end", "match_end"}
  Occurrences = {o1, o2}
  EventOf <- TwoEvents
  Targets = {t1, t2}
  Wanted <- TwoWishes
  Configs <- TwoConfigs
  Threads = 1
  Retries = 1
  Cap = 2
  Replays = {1}
  MaxStops = 1
INVARIANTS BooksBalance DeliveriesAreAccounted
PROPERTIES ImplementsPromise EveryoneIsAnswered DeliveriesEnd
CHECK_DEADLOCK FALSE
