CONSTANTS
    r1 = r1
    w1 = w1
    None = None
    Rules = {r1}
    Workers = {w1}
    Duration = 1
    Cooldown = 1
    MaxBatch = 2
    MaxLines = 1
    MaxLogBuffer = 2
    Budget = 2
    Bad = {1}
    MaxItems = 3
    MaxRequests = 2
    MaxSetbacks = 1
SPECIFICATION FairSpec
INVARIANTS Accounted AlertsAgree
PROPERTIES NothingStuck
CHECK_DEADLOCK FALSE
