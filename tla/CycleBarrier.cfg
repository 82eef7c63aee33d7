\* Up to three dispatched scrapes of one cycle and one landing that is
\* repeated, two dispatcher pods, two API threads and the sweep, any of the
\* pods and threads dying between two commands.
SPECIFICATION Spec
CONSTANTS
    d1 = d1
    d2 = d2
    p1 = p1
    p2 = p2
    Dispatchers = {d1, d2}
    Recorders = {p1, p2}
    Cycles = {0}
    Interval = 2
    Grace = 1
    MaxLag = 1
    MaxCall = 1
    Extra = 1
    MaxTime = 7
    MaxOpen = 3
SYMMETRY Symmetry
INVARIANTS NoLostFire NoDanglingCounter
PROPERTIES FiresSpaced ImplementsSchedule
CHECK_DEADLOCK FALSE
