SPECIFICATION Spec
CONSTANTS
    Units <- MCUnits
    Documents <- MCDocuments
    MaxDepth = 2
INVARIANTS
    ProtectedIsAlwaysConfirmed
CHECK_DEADLOCK FALSE
