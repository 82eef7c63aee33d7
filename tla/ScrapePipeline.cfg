SPECIFICATION Spec
CONSTANTS
    u1 = u1
    d1 = d1
    m1 = m1
    m2 = m2
    v1 = v1
    v2 = v2
    Urls = {u1}
    Domains = {d1}
    Merchants = {m1}
    DomainOf <- OneDomain
    Trackers <- AllTrackIt
    Values = {v1, v2}
    MaxAttempts = 1
    MaxStalls = 1
    HTTP_FAIL_LIMIT = 1
    NewlyAdded = {}
    Excludable = {d1}
    Expiring = {"expected", "done", "fired"}
    MaxSlots = 2
    MaxJobs = 2
SYMMETRY Symmetry
INVARIANTS TypeOK UnlandedSlotsExplained RowsHaveLanded
PROPERTIES FiresWhenLanded
CHECK_DEADLOCK FALSE
