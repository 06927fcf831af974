SPECIFICATION ServicesSpec
CONSTANTS
  Saver = {1, 2, 3}
  Torn = Torn
  MaxSaves = 4
  NoTentacle = 0
  TentacleId = {"t1", "t2", "t3"}
  CthulhuId = {"c1", "c2"}
  XmtpInbox = {"i1", "i2"}
  Submitted <- Records
  Legacy <- Documents
  MAX_AGENTS = 2
  MAX_ENDPOINTS = 2
  Publisher = {"p1", "p2"}
  Subscriber = {"c1"}
  CouncilId = {"x", "y"}
  Follows <- MCFollows
  Sender = {"a", "b"}
  Envelope <- MCEnvelope
  max_retained = 4
  max_senders = 2
  SENDER_RATE_WINDOW_SECONDS = 2
  MAX_MESSAGES_PER_SENDER_PER_WINDOW = 1
  MAX_FUTURE_CLOCK_SKEW_SECONDS = 0
  MAX_ENVELOPE_LIFETIME_SECONDS = 3
  MAX_SUBSCRIPTION_BATCH = 2
  MaxTime = 2
  Names = {"n1", "n2", "n3", "n4"}
  Values = {"v1", "v2"}
  Owners = {"w1", "w2"}
  Absent = "absent"
  MAX_TRAITS = 3
  Holder = {"a"}
  Balance = {1, 3}
  observation_interval = 2
  MIN_FAILURE_BACKOFF = 1
  MAX_FAILURE_BACKOFF = 3
  whale_basis_points = 5000
  elder_basis_points = 10000
  acolyte_minimum = 2
  MaxSeconds = 2
  MaxReads = 2
  Endpoint = {"e", "f", "g"}
  Key = {"k", "m"}
  Sound = {"e", "f", "m"}
  Fallback = "mainnet"
  MaxCommands = 4
  MaxRestarts = 1
  File = {"f"}
  Helper = "h"
  LOG = "l"
  Text = {2}
  MaxRelease = 2
  MAX_LOG = 2
  MaxWrites = 1
  MaxGits = 1
  MaxCrashes = 1
  Nothing = Nothing
  NotPublishing = NotPublishing
  NoRate = NoRate
  NoRecord = NoRecord
  NoMigration = NoMigration
  None = None
INVARIANTS DurableState SelectionSound DeliveredOnce RegistrySound JournalKeepsUp ChainIsVouched
PROPERTIES ImplementsMap OperatorsWorkStays
CHECK_DEADLOCK FALSE
