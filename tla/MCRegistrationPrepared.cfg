SPECIFICATION RegistrationSpec
CONSTANTS
  Fields <- MCFields
  Worlds <- MCWorlds
  auto_register = TRUE
  NewAgent = 2
  MaxFaults = 2
  MaxLost = 1
  MaxCrashes = 1
  MaxReorgs = 1
  MaxReplacements = 1
  MaxReverts = 0
  MaxForeign = 0
  MaxCommands = 0
  MaxBlocks = 0
  MaxTroubles = 1
  None = None
PROPERTY PreparedIsResolved
CHECK_DEADLOCK FALSE
