SPECIFICATION FairSpec
CONSTANTS
  Producers = {p1, p2}
  Posts = 4
  Items = {i1, i2, i3}
  NULL = NULL
  HEAD = HEAD
  WritesAfterDelete = TRUE
INVARIANTS
  TypeOK
  ListIsWhole
  SleepsOnlyUnsignalled
PROPERTIES
  FifoUntilRace
  PostedTasksRun
  NextSignalDrains
CHECK_DEADLOCK FALSE
