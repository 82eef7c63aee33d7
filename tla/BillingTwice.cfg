SPECIFICATION Spec
CONSTANTS
    q1 = q1
    q2 = q2
    k1 = k1
    Requests = {q1, q2}
    SelfServe = {1, 2}
    Kinds = {}
    AllowedOn <- NoKinds
    MAX_ADDONS = 1
    TotalCount = 2
    Faults = FALSE
    MaxSubs = 2
    MaxCharges = 1
    MaxAsks = 2
INVARIANT BilledOnce
CHECK_DEADLOCK FALSE
