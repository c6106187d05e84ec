CONSTANTS
    Sends <- MCSends
    Mishaps = 1

SPECIFICATION Spec
INVARIANTS
    TypeOK
    CommitIsWhole
    VerifiedCommitIsExact
    SuccessIsHonest
    HeaderSealsTheProject
PROPERTY
    AlwaysReports
