SPECIFICATION EconomySpec
CONSTANTS
  w1 = w1
  w2 = w2
  a1 = a1
  g1 = g1
  g2 = g2
  InitialRegistry <- MCRegistry
  RegistryMoves <- MCMoves
  NoOne = NoOne
  Nobody = Nobody
  Unreadable = Unreadable
  Addresses = {w1, w2, a1}
  Acolytes = {a1}
  Controllers = {w1, w2}
  Agents = {g1, g2}
  Consents <- MCConsents
  Prices = {100, 11000, 20000}
  Deadlines = {2, 4}
  Funds <- MCFunds
  WEEK = 2
  UPKEEP_BPS = 10
  REFERRAL_BPS = 1000
  BPS_DENOMINATOR = 10000
  MaxTimestamp = 1000
  MaxTime = 4
  MaxTransfers = 1
  Address = {"a", "b", "c", "o", "m"}
  minter = "m"
  Inbox = {"i1", "i2", "i3", "io"}
  ContactUses <- MCContactUses
  OperatorUses <- MCOperatorUses
  Reward = {1}
  MAX_RECORDS = 2
  MaxCrashes = 1
  MaxFailedSaves = 0
  OperatorsAnswer = TRUE
  None = None
CONSTRAINT OffersBound
INVARIANTS PricePaidFor BountyAsPinned SnapshotSavable ConsentIsBinding
PROPERTY OwnerCompensated
CHECK_DEADLOCK FALSE
