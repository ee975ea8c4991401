CONSTANTS
  s1 = s1
  s2 = s2
  a = a
  b = b
  c = c
  e1 = e1
  NoRun = NoRun
  Sessions = {s1}
  Runs = {a, b}
  Ends = {}
  SessionOf <- OnlyTwo
  NameOf <- OwnNames
  MaxConcurrent = 2
  Serial = FALSE
  Faults = {}
SPECIFICATION Spec
INVARIANTS
  LiveSessionIntact
