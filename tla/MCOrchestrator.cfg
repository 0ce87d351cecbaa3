CONSTANTS
    a = a
    b = b
    Names = {a, b}
    Started <- MCStarted
    Clustered = {a}
    Scheduled = {b}
    MaxIds = 3
    MaxCalls = 2
    MaxSetbacks = 1
SPECIFICATION FairSpec
INVARIANTS MapsAgree NoOrphan JobsFollow
CHECK_DEADLOCK FALSE
PROPERTIES RequestsEnd
