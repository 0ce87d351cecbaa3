CONSTANTS
    Cli = {c1, c2}
    Nobody = Nobody
    Absent = Absent
    Leftovers <- Remains
    MaxAgain = 1
    MaxSetbacks = 2
SPECIFICATION FairSpec
INVARIANTS Exclusive Reachable
PROPERTY DaemonComesUp
CHECK_DEADLOCK FALSE
