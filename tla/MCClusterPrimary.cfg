SPECIFICATION FairPrimarySpec
CONSTANTS
  WorkerCount = 2
  Retries = 1
  HasParent = FALSE
  MaxReloads = 1
  MaxMemoryRestarts = 1
  MaxCommands = 2
  MaxCrashes = 1
  MaxSetbacks = 1
  MayStop = TRUE
INVARIANTS SlotsAccounted SlotsCovered OneEach
PROPERTIES NoDowntime ReloadEnds ShutdownEnds
CHECK_DEADLOCK FALSE
