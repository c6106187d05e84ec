CONSTANTS
    write1 = write1
    write2 = write2
    read1 = read1
    read2 = read2
    new = new
    old = old
    MaxReq = 4
    Frame <- MCFrame
    FrameOf <- MCFrameOf
    Budget <- MCBudget
    CmdOf <- MCCmdOf
    Writes = {"write"}
    RangeReads = {"read"}
    Unit <- MCUnit
    EchoUnits <- MCEchoUnits

SPECIFICATION Spec
INVARIANT
    CloseFailsEverything
