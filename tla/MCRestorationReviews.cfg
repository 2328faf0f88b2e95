CONSTANTS
    c1 = c1
    c2 = c2
    t1 = t1
    t2 = t2
    f1 = f1
    ToolFacts = {f1}
    NoPrev = NoPrev
    Nothing = Nothing
    Nobody = Nobody
    NoneText = NoneText
    Restorers = {c1, c2}
    Tools = {}
    CascadeTools = {}
    ToolVerdicts = {"accept"}
    GivenIds = {}
    MaxBatch = 2
    MaxManual = 2
    MaxJournal = 4
    MaxReceipts = 1
    MaxAnalysis = 0
    MaxSource = 0
    MaxVersions = 1
    MaxChanges = 0
SPECIFICATION FairSpec
INVARIANTS
    TypeOK
    OneDecisionPerAction
PROPERTIES
    WritesAreCurrent
    DecisionsOnActiveActions
    DecidedStaysDecided
    LockReturned
