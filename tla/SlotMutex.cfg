SPECIFICATION FairSpec
CONSTANTS
  Client = {c1, c2, c3}
  MaxTickets = 6
INVARIANTS
  MutualExclusion
PROPERTIES
  ImplementsLine
  EveryCallerIsServed

