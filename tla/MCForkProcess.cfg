SPECIFICATION FairSpec
CONSTANTS
  MaxRestarts = 1
  MaxCommands = 2
  MaxMemoryRestarts = 1
INVARIANT Supervised
PROPERTIES CallsReturn Recovers
CHECK_DEADLOCK FALSE
