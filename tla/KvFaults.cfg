SPECIFICATION OpenStreamSpec
CONSTANTS
  Sessions = {s, t}
  Models = {m}
  RuntimeKeys = {k}
  NoSession = NoSession
  Auxiliary = Auxiliary
  NoModel = NoModel
  NoKey = NoKey
  Triggers = {"switch", "idle", "turn-end", "shutdown"}
  RestoreEnabled = TRUE
  Verify = TRUE
  Strict = TRUE
  MaxFailures = 1
  Calls = {"request", "auxiliary", "checkpoint", "disposed", "restoreNow", "saveNow", "invalidate", "purge", "dispose"}
  Faults = {"backend", "late", "metadata", "abort", "serverRestart"}
  MaxCalls = 3
  MaxLine = 3
  MaxFaults = 1
  MaxRestarts = 1
INVARIANTS
  SaveCoversOwner
  ReadyHasFile
PROPERTIES
  SaveBeforeEvict
  RequestsAreServed
  LineMoves
  DisposeReturns
  DirtySlotIsSaved
CHECK_DEADLOCK FALSE
