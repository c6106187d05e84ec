CONSTANTS
    Attempts = 1
    ChallengeRetries = 1
    AnswerRetries = 1
    Echoes = {TRUE}
    MaxCalls = 2
    MaxRestarts = 0

SPECIFICATION Spec
INVARIANT
    LockedMeansWrongSecret
CHECK_DEADLOCK FALSE
