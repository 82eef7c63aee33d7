SPECIFICATION Spec
CONSTANTS
    q1 = q1
    q2 = q2
    k1 = k1
    Requests = {q1, q2}
    SelfServe = {1, 2}
    Kinds = {k1}
    AllowedOn <- OneKind
    MAX_ADDONS = 1
    TotalCount = 1
    Faults = TRUE
    MaxSubs = 2
    MaxCharges = 1
    MaxAsks = 2
SYMMETRY Symmetry
INVARIANTS TypeOK PlanWasPaid RecordedWasApplied OrphansExplained
CHECK_DEADLOCK FALSE
