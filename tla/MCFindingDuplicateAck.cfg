CONSTANTS
  NoID = NoID
  NoOne = NoOne
  Senders = {p1, p2}
  Enders = {}
  MsgIDs = {x}
  SentIDs = {x, NoID}
  MaxRuns = 1
  PipeSize = 1
  MaxExpiries = 0
  OwnExits = {1}
SPECIFICATION FairSpec
PROPERTIES
  DuplicateMeansDelivered
\* After its last run a session is not started again.
CHECK_DEADLOCK FALSE
