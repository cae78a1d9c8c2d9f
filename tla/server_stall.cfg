SPECIFICATION FairSpec
CONSTANTS
  Sessions = 1
  Requests = 3
  Pipelining = FALSE
  Unknown <- NoRequest
  Damaged <- NoRequest
PROPERTIES Answered
CHECK_DEADLOCK FALSE
