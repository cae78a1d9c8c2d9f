SPECIFICATION FairSpec
CONSTANTS
  Client = {c1, c2}
  MaxCalls = 3
  MaxFaults = 0
PROPERTIES CallsReturn
