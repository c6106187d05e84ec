CONSTANT
    Units <- MCUnits

SPECIFICATION Spec
INVARIANTS
    RecordsInPlace
    NothingIsMissingUnsaid
    ProjectIsWholeOrNone
    BackupKnowsItsGaps
    ToldIsSo
PROPERTY
    AlwaysReports
