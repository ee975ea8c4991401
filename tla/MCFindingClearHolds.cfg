CONSTANTS
  MaxMsgs = 1
  MaxClears = 2
  AllowEOF = FALSE
  AllowError = FALSE
SPECIFICATION FairSpec
PROPERTIES
  EveryMessageSettles
\* A session ends, and until then it waits for its user.
CHECK_DEADLOCK FALSE
