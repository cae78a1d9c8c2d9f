SPECIFICATION Spec
CONSTANTS
  Client = {c1}
  MaxCalls = 2
  MaxFaults = 0
INVARIANT HomingOnlyOnRequest
