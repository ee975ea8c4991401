CONSTANTS
  s1 = s1
  s2 = s2
  a = a
  b = b
  c = c
  e1 = e1
  NoRun = NoRun
  Sessions = {s1, s2}
  Runs = {a, b, c}
  Ends = {e1}
  SessionOf <- TwoAndOne
  NameOf <- OwnNames
  MaxConcurrent = 1
  Serial = TRUE
  Faults = {"crash", "shutdown", "createLost"}
SPECIFICATION FairPumpSpec
INVARIANTS
  LiveSessionIntact
  RunningIsTracked
PROPERTIES
  BridgedMasked
  CapacityMeansFull
  EndReleasesSession
