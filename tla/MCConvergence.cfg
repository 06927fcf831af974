SPECIFICATION PartsSpec
CONSTANTS
  Deadlines = {"grace", "expired"}
  Proposals = {"spawn"}
  HasRelative = TRUE
  HasExecutor = TRUE
  Kind = {}
  Inbox = {}
  MaxCrashes = 1
  MaxTransfers = 0
  None = None
PROPERTIES DeathArrives ResumesWhenFunded Converges
CHECK_DEADLOCK FALSE
