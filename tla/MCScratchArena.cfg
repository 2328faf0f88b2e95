SPECIFICATION Spec
CONSTANTS
    b1 = b1
    b2 = b2
    b3 = b3
    Blocks = {b1, b2, b3}
    BlockSize = 4
    MaxBlock = 6
    MaxBlocks = 3
    Alignment = 2
    SizeMod = 8
    Values = {0, 9}
    Zero = 0
    Junk = 9
    Poisons = TRUE
    Sizes = {1, 5, 7}
    Counts = {0, 3}
    MaxLive = 3
    MaxDepth = 2
INVARIANTS
    TypeOK
    StatsAreExact
PROPERTIES
    RewindRestores
    ImplementsScratch
