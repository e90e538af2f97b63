SPECIFICATION FairSpec
CONSTANTS
  Drafts = {d1, d2}
  Workspaces = {w,v}
  Texts = {x}
  Shells = {s}
  NoDraft = NoDraft
  NoShell = NoShell
  NotLoaded = NotLoaded
  Limit = 1
  MaxCalls = 4
  MaxQueue = 2
  MaxFaults = 2
  MaxRestarts = 1
INVARIANTS
  RevisionNamesContent
  ShownIsDurable
  DeletedIsGone
  LimitHolds
PROPERTIES
  ImplementsRegister
  CallsSettle
CHECK_DEADLOCK FALSE
