SPECIFICATION Spec
CONSTANTS
    Dict = 8
    MinMatch = 3
    MaxMatch = 4
    LongMatch = 4
    CodeBuf = 4
    LongBlock = 4
    AdlerBase = 13
    SizeBuffer = 6
    FileChunk = {8}
    OutChunk = 3
    DelayMod = 2
    ModeArgs = {"0"}
    Targets = {"riscv64", "riscv32"}
    LowAddrs = {0, 1}
    HighAddrs = {0}
    Uncacheable = {1}
    Values = {0}
    Sizes = {0, 4}
    Insns = {2}
    MaxAccesses = 2
    Greedy = {TRUE, FALSE}
INVARIANTS ReplayFaithful DictionaryHolds
PROPERTIES ReplayEnds
CHECK_DEADLOCK FALSE
