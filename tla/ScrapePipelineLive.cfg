SPECIFICATION FairSpec
CONSTANTS
    u1 = u1
    d1 = d1
    m1 = m1
    m2 = m2
    v1 = v1
    v2 = v2
    Urls = {u1}
    Domains = {d1}
    Merchants = {m1}
    DomainOf <- OneDomain
    Trackers <- AllTrackIt
    Values = {v1}
    MaxAttempts = 2
    MaxStalls = 0
    HTTP_FAIL_LIMIT = 2
    NewlyAdded = {u1}
    Excludable = {}
    Expiring = {"class"}
    MaxSlots = 0
    MaxJobs = 3
PROPERTIES ScrapesEnd
CHECK_DEADLOCK FALSE
