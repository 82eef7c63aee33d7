\* One process, which inserts three rows of one cycle, one after the other.
SPECIFICATION Spec
CONSTANTS
    Trackings = {t1}
    Ingests = {i1}
    MaxRows = 3
    BatchSizes = {1}
INVARIANT FlapAlertedOnce
CHECK_DEADLOCK FALSE
