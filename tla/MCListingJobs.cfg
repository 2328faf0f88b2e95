CONSTANTS
    c1 = c1
    c2 = c2
    Clients <- MCClients
    Nobody = Nobody
    None = None
    Invalidated = Invalidated
    Changes = {"command", "presentation", "failure", "rollback", "outside", "corrections"}
    MaxJobs = 2
    MaxKey = 1
    MaxChanges = 2
SPECIFICATION Spec
INVARIANTS
    TypeOK
    OneBuildPerKey
    ExactReadsAreCurrent
    NoReadAfterClose
    ReadyMeansAsAsked
CHECK_DEADLOCK FALSE
SYMMETRY ClientsAlike
