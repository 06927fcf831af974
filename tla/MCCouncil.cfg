SPECIFICATION PartsSpec
CONSTANTS
    LeaseId = {1, 2, 3, 4}
    SessionId = {1, 2, 3}
    TentacleId = {1, 2}
    Incarnation <- MCIncarnation
    RequestExpiry = {2}
    Term <- MCTerm
    MAX_LEASES = 3
    MAX_SESSIONS = 2
    MAX_LEASE_LIFETIME_SECONDS = 2
    MaxTime = 2
    NoLease = NoLease
    NoLeaseId = NoLeaseId
    NoTentacle = NoTentacle
CONSTRAINT IdentifiersInOrder
INVARIANTS Fencing TablesSound
PROPERTIES EndedForGood CouncilInOrder
