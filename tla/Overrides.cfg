CONSTANTS
    a = a
    b = b
    NameOrder <- MCNameOrder
    Selections <- MCSelections
    Tries = 3
    TickEvery = 2
    LeaseFor = 6
    MaxDepth = 1

SPECIFICATION Spec
INVARIANTS
    BoxesAgree
    NoHiddenPin
    NoEmptyBox
PROPERTIES
    RefreshIsInTime
    EverythingIsLetGo
CHECK_DEADLOCK FALSE
