SPECIFICATION Spec
CONSTANTS
    Size = 7
    Window = 5
    VariantLimit = 1
    ReplayLimit = 8
    WrapperLength = 3
    Cases <- FlowCases
INVARIANTS
    AcceptedDoNotOverlap
