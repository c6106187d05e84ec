\* The user may stop updating.
CHECK_DEADLOCK FALSE
CONSTANTS
    Chunks = 2
    MaxPresses = 2
    MaxCuts = 3
    MaxStarts = 3

SPECIFICATION Spec
INVARIANTS
    TypeOK
    BrokenUploadNeverInstalls
    InstalledIsHonest
PROPERTIES
    KeepsPromise
    RestoreFillsAnEmptyUnit
    EveryUpdateEnds
