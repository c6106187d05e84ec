CONSTANT
    Units <- MCUnits

SPECIFICATION Spec
INVARIANT
    BackupIsComplete
