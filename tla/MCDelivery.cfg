CONSTANTS
  NoID = NoID
  NoOne = NoOne
  Senders = {p1, p2}
  Enders = {e1}
  MsgIDs = {x}
  SentIDs = {x}
  MaxRuns = 2
  PipeSize = 1
  MaxExpiries = 1
  OwnExits = {1}
SPECIFICATION ReadingSpec
INVARIANTS
  OneLiveWriter
  AtMostOnce
PROPERTIES
  LiveDuplicateMeansDelivered
  EndGetsThrough
  EndStopsItsRun
\* After its last run a session is not started again.
CHECK_DEADLOCK FALSE
