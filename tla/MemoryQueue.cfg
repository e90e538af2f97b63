SPECIFICATION Spec
CONSTANTS
  MaxMessages = 1
  MaxRetries = 1
  ReplayLimit = 1
  Commit = Commit
  Drainer = Drainer
  Starter = Starter
  Others = {o}
  MaxEvents = 1
INVARIANTS
  QueuedIsKept
  OneSender
PROPERTIES
  OutageEnds
CHECK_DEADLOCK FALSE
