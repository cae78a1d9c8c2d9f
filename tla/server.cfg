SPECIFICATION FairSpec
CONSTANTS
  Sessions = 2
  Requests = 4
  Pipelining = TRUE
  Unknown <- SomeUnknown
  Damaged <- SomeDamaged
INVARIANTS TypeOK FirstSessionMatches FirstSessionWhole ExecutedInOrder
PROPERTIES Served
CHECK_DEADLOCK FALSE
