SPECIFICATION Spec
CONSTANTS
  Absent = Absent
  WorkerCount = 1
  Retries = 0
  HasParent = TRUE
  MaxReloads = 2
  MaxMemoryRestarts = 2
  MaxCommands = 2
  MaxCrashes = 1
  MaxSetbacks = 1
  MayStop = TRUE
INVARIANTS NoFalseCrash MirrorAccurate ReloadAnswered
CONSTRAINT OneOrCalm
CHECK_DEADLOCK FALSE
