SPECIFICATION LifeSpec
CONSTANTS
  Fields <- MCFields
  Worlds <- MCWorlds
  auto_register = TRUE
  NewAgent = 2
  MaxFaults = 2
  MaxLost = 1
  MaxCrashes = 1
  MaxReorgs = 1
  MaxReplacements = 1
  MaxReverts = 1
  MaxForeign = 1
  MaxCommands = 1
  MaxBlocks = 1
  MaxTroubles = 2
  None = None
CONSTRAINT LifeBound
INVARIANTS RegisteredOnce PeriodsAccount LifeReloads JudgmentsSound
PROPERTIES ReplacedByItself
CHECK_DEADLOCK FALSE
