CONSTANTS
    NR_THREADS = 3
    c_nBlockSize = 2
    Null = Null
    MaxBlocks = 3
    Setups <- Who
SPECIFICATION Spec
INVARIANT Shape
PROPERTIES IsBag
