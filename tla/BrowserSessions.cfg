SPECIFICATION Spec
CONSTANTS
  Sessions = {s}
  MaxContexts = 2
  Tabs = {t1}
  Agents = {a}
  Panels = {p}
  Agent = Agent
  NoContext = NoContext
  NoTab = NoTab
  MaxTabs = 1
INVARIANTS
  AgentYields
  QueuesHoldTheirCalls
  NothingIsLeftBehind
PROPERTIES
  DisposeReturns
CHECK_DEADLOCK FALSE
