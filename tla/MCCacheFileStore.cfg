CONSTANTS
    k1 = k1
    k2 = k2
    t = t
    None = None
    Keys = {k1, k2}
    Tags = {t}
    Sizes = {1, 2}
    Values <- MCValues
    CounterSizes = {2}
    MaxEntries = 2
    MaxMemorySize = 3
    MaxWrites = 3
    MaxCalls = 4
    MaxBusy = 1
    MaxClock = 2
SPECIFICATION Spec
INVARIANTS NoStaleRead NothingLost Bookkeeping
CHECK_DEADLOCK FALSE

SYMMETRY KeySymmetry
