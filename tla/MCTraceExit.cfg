SPECIFICATION Spec
CONSTANTS
    Dict = 8
    MinMatch = 2
    MaxMatch = 3
    LongMatch = 3
    CodeBuf = 3
    LongBlock = 4
    AdlerBase = 13
    SizeBuffer = 5
    FileChunk = {3, 40}
    OutChunk = 3
    DelayMod = 2
    ModeArgs = {"0", "2"}
    Targets = {"riscv64", "riscv32"}
    LowAddrs = {0, 1}
    HighAddrs = {0}
    Uncacheable = {1}
    Values = {0, 2}
    Sizes = {0}
    Insns = {3}
    MaxAccesses = 2
    Greedy = {TRUE, FALSE}
PROPERTY ExitClosesStream
CHECK_DEADLOCK FALSE
