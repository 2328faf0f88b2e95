SPECIFICATION Spec
CONSTANTS
    b1 = b1
    b2 = b2
    Blocks = {b1, b2}
    BlockSize = 12
    MaxBlock = 12
    MaxBlocks = 2
    Alignment = 1
    SizeMod = 16
    Values = {0, 1, 2, 8, 9}
    Zero = 0
    Junk = 9
    Poisons = FALSE
    Labels = {1, 2}
    FirstCapacity = 1
    Scratch = 8
    ScratchSizes = {1, 2}
INVARIANTS
    LabelsAreKept
