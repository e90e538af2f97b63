SPECIFICATION Spec
CONSTANTS
  Sessions = {s, t}
  Models = {m, n}
  RuntimeKeys = {k}
  NoSession = NoSession
  Auxiliary = Auxiliary
  NoModel = NoModel
  NoKey = NoKey
  Triggers = {"switch", "idle", "session-flush", "shutdown"}
  RestoreEnabled = TRUE
  Verify = TRUE
  Strict = FALSE
  MaxFailures = 2
  Calls = {"request"}
  Faults = {"abort"}
  MaxCalls = 5
  MaxLine = 2
  MaxFaults = 0
  MaxRestarts = 0
SYMMETRY SessionSymmetry
PROPERTIES
  RestoresOwnRuntime
CHECK_DEADLOCK FALSE
