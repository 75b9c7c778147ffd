SPECIFICATION Spec
CONSTANTS
    Lines = {x, y, z}
    Ways = {0, 1}
    Beats = 1
    Vals = {0, 1}
    NoLine = NoLine
    Tids = {t1, t2}
    Ops = {"LOAD", "STORE"}
    Hints = {"WB"}
    WaysOf <- OneSet
    Far = NoLine
    Policy = "RANDOM"
    MshrEntries = 2
    CbufEntries = 1
    RtabEntries = 2
    FlushEntries = 1
    RefillDepth = 1
    MemErrors = FALSE
    V0 = 0
    None = None
SYMMETRY Symmetry
PROPERTIES
    DirtyVictimCaptured
