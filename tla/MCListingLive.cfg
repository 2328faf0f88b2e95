CONSTANTS
    c1 = c1
    c2 = c2
    Clients <- MCClients
    Nobody = Nobody
    None = None
    Invalidated = Invalidated
    Changes = {"command"}
    MaxJobs = 2
    MaxKey = 1
    MaxChanges = 2
SPECIFICATION FairSpec
PROPERTIES
    JobsEnd
    SubscribersAreTold
CHECK_DEADLOCK FALSE
