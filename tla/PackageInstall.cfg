\* The user may stop installing.
CHECK_DEADLOCK FALSE
CONSTANTS
    Packages <- MCPackages
    Key <- MCKey
    MaxInstalls = 2
    MaxRestarts = 2

SPECIFICATION Spec
INVARIANTS
    SuccessIsHonest
    OthersAreKept
    OldUnitIsUntouched
PROPERTIES
    CommitsTogether
    EveryInstallEnds
