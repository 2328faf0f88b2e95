CONSTANTS
    c1 = c1
    c2 = c2
    Clients <- MCClients
    Nobody = Nobody
    None = None
    Invalidated = Invalidated
    Changes = {"presentation"}
    MaxJobs = 1
    MaxKey = 1
    MaxChanges = 1
SPECIFICATION FairSpec
PROPERTIES
    JobsEnd
CHECK_DEADLOCK FALSE
