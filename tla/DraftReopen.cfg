SPECIFICATION Spec
CONSTANTS
    Drafts = {a, b}
    NoText = NoText
    NoDraft = NoDraft
    MaxEdits = 1
    MaxTrips = 3
    MaxOthers = 0
    MaxLosses = 0
PROPERTIES
    RestoresAccepted
CHECK_DEADLOCK FALSE
