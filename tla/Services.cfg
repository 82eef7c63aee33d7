\* Two products that track one URL, two API processes that insert four rows, one
\* or two at a time; two merchants whose plans and trackings change under the purge
\* of two snapshots, in batches of one; two overlapping cycles over a SKU with two
\* competitors; two tabs and two tools with three scenarios; and every form over the
\* bounds of the fee tables. The parts never meet, so they share their model values,
\* and one group of permutations serves them all.
SPECIFICATION Spec
CONSTANTS
    Trackings = {a1, a2}
    Ingests = {b1, b2}
    MaxRows = 4
    BatchSizes = {1, 2}
    Merchants = {a1, a2}
    Snapshots = {b1, b2}
    SHORT = 1
    LONG = 3
    GRACE = 2
    BATCH = 1
    Cycles = {b1, b2}
    MaxCompetitors = 2
    MarketPrices = {1000, 2500}
    OwnPrices = {1300}
    ImportedPrice = 1300
    Floors = {1210}
    Ceilings = {1020}
    NoBound = NoBound
    Tools = {a1, a2}
    NoTool = NoTool
    MaxSaves = 3
    Tabs = {b1, b2}
    MAX_SCENARIOS = 2
    Lengths = {3, 16, 32, 40, 60, 61, 72, 73, 236, 240}
    Ounces = {4, 12, 16, 60, 320, 800, 1120, 2500}
SYMMETRY Symmetry
INVARIANTS ServicesTypeOK OutageAlerted RestockMailedOnce NothingLost AdviceHolds RepricingSettles
PROPERTIES WatchesOutages HistoryKept GraceKept
CHECK_DEADLOCK FALSE
