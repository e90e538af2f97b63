SPECIFICATION Spec
CONSTANTS
  Sessions = {s, t}
  Models = {m}
  RuntimeKeys = {k1, k2}
  NoSession = NoSession
  Auxiliary = Auxiliary
  NoModel = NoModel
  NoKey = NoKey
  Triggers = {"switch", "idle", "session-flush", "shutdown"}
  RestoreEnabled = TRUE
  Verify = FALSE
  Strict = FALSE
  MaxFailures = 2
  Calls = {"request", "auxiliary", "checkpoint", "disposed", "flush", "restoreNow", "saveNow", "purge", "dispose"}
  Faults = {"abort"}
  MaxCalls = 4
  MaxLine = 3
  MaxFaults = 0
  MaxRestarts = 2
SYMMETRY SessionSymmetry
INVARIANTS
  SlotIsAsBelieved
  PersistedIsCovered
  SnapshotsHoldOwnSession
PROPERTIES
  SettledIsSaved
  ImplementsLine
  RestoresOwnRuntime
CHECK_DEADLOCK FALSE
