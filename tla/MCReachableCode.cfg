SPECIFICATION Spec
CONSTANTS
    Size = 11
    Window = 5
    VariantLimit = 1
    ReplayLimit = 8
    WrapperLength = 3
    Cases <- TheCases
INVARIANTS
    TypeOK
    OverlapsNeedAThird
    BytesFollowStarts
    FixedPointIsClosed
    ConflictsAreDemoted
    EntriesAreAnswered
    SeedingIsComplete
    QueueIsBounded
PROPERTIES
    EveryStepAdvances
