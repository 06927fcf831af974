SPECIFICATION LeasesAlone
CONSTANTS
    LeaseId = {1}
    SessionId = {1}
    TentacleId = {1}
    Incarnation <- MCIncarnation
    RequestExpiry = {2}
    Term <- MCRenewalTerm
    MAX_LEASES = 1
    MAX_SESSIONS = 1
    MAX_LEASE_LIFETIME_SECONDS = 2
    MaxTime = 2
    NoLease = NoLease
    NoLeaseId = NoLeaseId
    NoTentacle = NoTentacle
INVARIANT ValidateLoadedState
