SPECIFICATION FairSpec
CONSTANTS
  s1 = s1  s2 = s2
  Server = {s1, s2}
  MaxSize = 2
  Ceiling = 12
  MaxFaults = 1
INVARIANTS TypeOK ServingHasSchema TablesComplete
PROPERTIES EventuallyServing WritesFinish
CHECK_DEADLOCK FALSE
