SPECIFICATION Spec
CONSTANTS
    Handlers = {h1, h2}
    Window = 3
    Limits = {2, 3}
    Delay = 3
    ConfigTtl = 4
    MaxLag = 1
    MaxTime = 7
    Pods = {"p1", "p2"}
    HandlersOf <- MCHandlersOf
    TierOf <- MCTierOf
    Datacenter <- MCDatacenter
    Residential <- MCResidential
    CooldownMs = 1
    StickyMs = 1
    NoProxy = "none"
    c1 = c1
    k1 = k1
    Cycles = {c1, c2}
    Skus = {k1, h1, h2}
    SkusOf <- MCSkusOf
    Verdicts = {LOWER}
    BATCH_SIZE = 2
SYMMETRY Symmetry
INVARIANTS
    NodeTypeOK
    RateBound
    RetryIsExact
    BanSticks
    BanEnds
    NoneForgotten
    SignalsPerHour
PROPERTY CrawlSpaced
