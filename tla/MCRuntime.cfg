SPECIFICATION RuntimeSpec
CONSTANTS
  Deadlines = {"grace", "expired"}
  Proposals = {"reward", "spawn"}
  HasRelative = TRUE
  HasExecutor = TRUE
  Kind = {"update"}
  Inbox = {"i", "j"}
  MaxCrashes = 1
  MaxTransfers = 1
  None = None
  Principal = {"a", "b"}
  Task = {"t"}
  MAX_PENDING_TASKS = 2
  MaxMessages = 4
  MaxGeneration = 2
  MaxRestarts = 1
  Absent = Absent
  Change = {"a", "b"}
  Path = {"p", "q"}
  PathOf <- OwnPath
  Main = "main"
  Topic = "topic"
  MaxMeddles = 1
  Missing = Missing
CONSTRAINT RuntimeBound
INVARIANTS PrivacyKept TasksOnce Savable LocalFallbackKept
PROPERTIES ReceiptedAfterTheTransport NoChildAfterDeath MarkedAfterDelivery PublishedAsValidated
CHECK_DEADLOCK FALSE
