SPECIFICATION FairSpec
CONSTANTS
    Lines = {x, y}
    Ways = {0}
    Beats = 2
    Vals = {0}
    NoLine = NoLine
    Tids = {t1, t2}
    Ops = {"LOAD", "STORE", "AMO", "PREFETCH"}
    Hints = {"WB"}
    WaysOf <- OneSet
    Far = NoLine
    Policy = "PLRU"
    MshrEntries = 1
    CbufEntries = 1
    RtabEntries = 2
    FlushEntries = 1
    RefillDepth = 1
    MemErrors = FALSE
    V0 = 0
    None = None
PROPERTIES
    EveryRequestAnswered
