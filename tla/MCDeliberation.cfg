SPECIFICATION PartsSpec
CONSTANTS
    CthulhuId = {m1, m2}
    ProposalId = {1, 2}
    Genesis = {{m1, m2}, {m1}}
    Document <- Documents
    NoHash = "none"
    quorum_bps = 6000
    approval_bps = 5001
    constitution_approval_bps = 6667
    max_proposal_lifetime_seconds = 1
    MAX_MEMBERS = 2
    MAX_MEMBERSHIP_SNAPSHOTS = 2
    MAX_OPEN_PROPOSALS = 2
    MAX_PROPOSALS = 2
    MAX_ARGUMENTS = 1
    MAX_AMENDMENTS = 1
    MaxEdits = 1
    MaxTime = 1
    NoProposal = NoProposal
    NoVote = NoVote
    NoHead = NoHead
    root = root
    p1 = p1
    p2 = p2
    i1 = i1
    i2 = i2
    k1 = k1
    k2 = k2
    o1 = o1
    o2 = o2
    None = None
CONSTRAINTS IdentifiersInOrder DiscussionBound
INVARIANTS HeadsReload DecisionExact BranchesReload
PROPERTIES DecisionsStand CampaignBounded
CHECK_DEADLOCK FALSE
