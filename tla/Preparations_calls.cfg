CONSTANTS
  Ids = {s1, s2}
  Callers = {c1, c2, c3}
  Preparers = {c1, c2}
  Loaders = {c1}
  Inspectors = {c2}
  Appenders = {c3}
  Home = s1
  NoOne = NoOne
  Capacity = 1
  MaxForeign = 1
SPECIFICATION FairSpec
CHECK_DEADLOCK FALSE
INVARIANTS ReservedIsCurrent NeverRefused OneHolder AppendContinues NoOrphanWaiter PoolBounded
PROPERTIES CallsSettle
