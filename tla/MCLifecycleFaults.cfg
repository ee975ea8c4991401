CONSTANTS
  s1 = s1
  s2 = s2
  a = a
  b = b
  c = c
  e1 = e1
  NoRun = NoRun
  Sessions = {s1}
  Runs = {a, b}
  Ends = {e1}
  SessionOf <- OnlyTwo
  NameOf <- OwnNames
  MaxConcurrent = 1
  Serial = FALSE
  Faults = {"createLost", "remove", "kill", "rmdir", "drainBound", "crash"}
SPECIFICATION FairSpec
INVARIANTS
  NothingLeaks
  DeadKeyHasNoReason
PROPERTIES
  ImplementsSlots
  SlotReleased
