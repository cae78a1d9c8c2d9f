SPECIFICATION FairSpec
CONSTANTS
  Client = {c1}
  MaxCalls = 3
  MaxFaults = 1
INVARIANTS TypeOK HomedMeansHeld MovingIsWatched HomingSupervised MotionOrHoming
PROPERTIES AlarmedMotionDropsAll ElbowHomesFirst MotionRetired HomingEnds
