SPECIFICATION OpenStreamSpec
CONSTANTS
  Sessions = {s, t}
  Models = {m}
  RuntimeKeys = {k}
  NoSession = NoSession
  Auxiliary = Auxiliary
  NoModel = NoModel
  NoKey = NoKey
  Triggers = {"switch", "idle", "shutdown"}
  RestoreEnabled = TRUE
  Verify = TRUE
  Strict = FALSE
  MaxFailures = 2
  Calls = {"request"}
  Faults = {"abort"}
  MaxCalls = 3
  MaxLine = 2
  MaxFaults = 0
  MaxRestarts = 0
PROPERTIES
  UnsavedIsSaved
CHECK_DEADLOCK FALSE
