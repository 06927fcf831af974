SPECIFICATION Spec
CONSTANTS
    Deadlines = {"grace", "expired"}
    Proposals = {"reward", "spawn"}
    HasRelative = TRUE
    HasExecutor = TRUE
    Kind = {}
    Inbox = {}
    MaxCrashes = 0
    MaxTransfers = 0
    None = None
INVARIANT AbsorptionIsTried
CHECK_DEADLOCK FALSE
