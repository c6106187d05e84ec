SPECIFICATION Spec
CONSTANTS
    Units <- MCUnits
    Documents <- MCDocuments
    MaxDepth = 2
INVARIANTS
    TransfersFollowOneAnother
    ProtectedGoesWhereConfirmed
    NothingProvedIsRefused
    MonitorIsNotLeftBehind
CHECK_DEADLOCK FALSE
PROPERTY
    WindowComesBack
