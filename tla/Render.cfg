SPECIFICATION Spec
CONSTANTS
    Slots = {s1, s2}
    Browsers = {b1, b2, b3, b4}
    NoBrowser = NoBrowser
    RefreshEvery = 2
    Mode = "local"
    Jobs = {j1, j2}
    Solves = {v1, v2, v3}
    RetryDelay = 3
    PendingTtl = 4
    TokenTtl = 6
    Validity = 6
    PollTime = 3
    LockDuration = 4
    Backoff <- MCBackoff
    JobAttempts = 2
    SolveAttempts = 2
    MaxLate = 1
    MaxFaults = 2
INVARIANTS OneBrowser RefreshBound
PROPERTIES PaidSpaced Rendezvous
