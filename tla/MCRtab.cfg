SPECIFICATION Spec
CONSTANTS
    N = 3
    Lines = {x, y}
    Tids = {t1, t2, t3, t4}
    SingleEntry = FALSE
    None = None
SYMMETRY Symmetry
INVARIANTS
    TypeOK
    NoOrphan
    AssertionsHold
    ListsWellFormed
    FenceAlone
PROPERTIES
    ImplementsQueues
