CONSTANTS
  MaxMsgs = 3
  MaxClears = 2
  AllowEOF = TRUE
  AllowError = TRUE
SPECIFICATION FairSpec
INVARIANTS
  FreshEpoch
  InOrder
  NotSwallowed
  NoMessageLost
  ClosedMeansServed
PROPERTIES
  MessageSettles
  ClearTakesEffect
  ImplementsConversations
\* A session ends, and until then it waits for its user.
CHECK_DEADLOCK FALSE
