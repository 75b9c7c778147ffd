SPECIFICATION Spec
CONSTANTS
    Units = {"huffman", "rle", "match", "amo", "fault", "fill", "irq",
             "archive", "iter", "locate"}
    MaxLen = 4
    Fast = 2
    Extra18 = 2
    SizeBits = 2
    W = 4
    Symbols = 5
    Freqs = {0, 1, 2, 5}
    Limits = {3, 4}
    RunLens = {1, 2, 3, 4, 6, 7, 10, 11, 14, 15}
    RunSizes = {0, 1, 2}
    MaxRuns = 3
    Lengths <- AllLengths
    Distances <- AllDistances
    AccessWords = 2
    LineWords = 4
    MemWidths = {64}
    Irqs = {31, 11, 3, 7}
    Reserved = {0}
    Rows = 1
    MaxBombs = 1
    CoreFaults = {"order", "mask", "mie"}
    ZipCases <- ZipSmall
    ScanReach = 14
    MaxCalls = 3
    MaxAdds = 2
    MaxFaults = 1
    IterDict = 4
    IoBuf = 2
    ReadSizes = {1, 2, 5}
    Names <- ZipNames
    MaxNames = 5
INVARIANTS HuffmanOptimal SentIsReceived AmoUnitsAgree
           FaultPlaced FillComplete IrqVerdict ArchiveSound PiecesJoin NamesFound
PROPERTIES IrqTestEnds
CHECK_DEADLOCK FALSE
