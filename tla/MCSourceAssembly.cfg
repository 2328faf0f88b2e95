SPECIFICATION Spec
CONSTANTS
    Length = 4
    MaxPasses = 8
    NoSize = NoSize
    Sections = {1, 2}
    Sources <- SmallSources
    Equates <- SmallEquates
    BaseNames <- SmallBaseNames
    Holds <- SmallHolds
    Bases <- SmallBases
INVARIANTS
    EmittedAsLaidOut
    ReadAsWritten
    LinkedAsWritten
