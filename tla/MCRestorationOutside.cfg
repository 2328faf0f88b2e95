CONSTANTS
    c1 = c1
    c2 = c2
    t1 = t1
    t2 = t2
    f1 = f1
    ToolFacts = {f1}
    NoPrev = NoPrev
    Nothing = Nothing
    Nobody = Nobody
    NoneText = NoneText
    Restorers = {c1}
    Tools = {t1, t2}
    CascadeTools = {t2}
    ToolVerdicts = {"accept"}
    GivenIds = {}
    MaxBatch = 1
    MaxManual = 1
    MaxJournal = 2
    MaxReceipts = 1
    MaxAnalysis = 1
    MaxSource = 1
    MaxVersions = 1
    MaxChanges = 2
SPECIFICATION Spec
INVARIANTS
    CurrentMeansRebuilt
    JournalToolRejection
    PreparedIsValid
PROPERTIES
    ImplementsPromise
