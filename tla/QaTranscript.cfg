SPECIFICATION FairSpec
CONSTANTS
  Callers = {c1, c2}
  WindowSize = 2
  Limits = {1, 3}
  NoWindow = NoWindow
  MaxMessages = 3
  MaxFaults = 1
INVARIANTS
  PagesAreExact
PROPERTIES
  CallersCatchUp
CHECK_DEADLOCK FALSE
