CONSTANTS
    Attempts = 2
    ChallengeRetries = 2
    AnswerRetries = 0
    Echoes = {TRUE, FALSE}
    MaxCalls = 2
    MaxRestarts = 1

SPECIFICATION Spec
INVARIANTS
    WrongIsNeverAccepted
    RightIsRarelyCalledWrong
CHECK_DEADLOCK FALSE
