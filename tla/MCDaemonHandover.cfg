CONSTANTS
    a = a
    c1 = c1
    c2 = c2
    None = None
    Names = {a}
    Opts <- MCOpts
    Clients = {c1, c2}
    MaxDaemons = 3
    MaxAsks = 1
    MaxSetbacks = 1
SPECIFICATION Spec
INVARIANTS KilledIsGone FilesSound
PROPERTIES Handover
SYMMETRY Symmetry
CHECK_DEADLOCK FALSE
