SPECIFICATION FairSpec
CONSTANTS
  Asks = {a, b}
  NoAsk = NoAsk
  MaxConcurrent = 2
  MaxFaults = 1
INVARIANTS
  AnswersOwn
PROPERTIES
  StopsOnlyAbandoned
  SlotsComeBack
  AbandonedTurnEnds
CHECK_DEADLOCK FALSE
