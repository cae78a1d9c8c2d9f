SPECIFICATION FairSpec
CONSTANTS
  Low <- LowCell
  High = 3
  Origin = 0
  ForwardLimit = 2
  Rigs <- Arm
  Targets = {0, 1}
  FaultInGap = FALSE
INVARIANTS TypeOK HomedAligned SpeedRestored NoOriginNoHome
PROPERTIES CompletesAtOrigin KeepsContract HomingTerminates
