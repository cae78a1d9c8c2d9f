SPECIFICATION FairSpec
CONSTANTS
  MaxFiles = 2
  HookEvery = 3
INVARIANTS  StoryTold
PROPERTIES AbortEnds JoinEnds
CHECK_DEADLOCK FALSE
