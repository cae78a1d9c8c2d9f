SPECIFICATION Spec
CONSTANTS
  Motor = {"elbow"}
  Client = {"script", "network"}
  Points = 2
  Taught = {"there"}
  MaxCrashes = 1
  MaxFaults = 1
  MaxCalls = 2
  ServoMin = 76
  ServoMax = 78
  Step = 50
  Openings = {0, 30, 100}
  Entries <- TypedEntries
INVARIANTS TypeOK StoppedAtExit ReadBack
PROPERTIES TableKept
