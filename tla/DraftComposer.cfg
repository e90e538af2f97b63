SPECIFICATION FairSpec
CONSTANTS
    Drafts = {a, b}
    NoText = NoText
    NoDraft = NoDraft
    MaxEdits = 2
    MaxTrips = 3
    MaxOthers = 1
    MaxLosses = 1
INVARIANTS
    NoTextCrosses
    UnsavedIsOnItsWay
PROPERTIES
    LeavesNothingUnsaved
    NavigationsEnd
    EditsSettle
CHECK_DEADLOCK FALSE
