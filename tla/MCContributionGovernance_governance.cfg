CONSTANTS
    v1 = v1
    v2 = v2
    f = f
    p1 = p1
    p2 = p2
    Voters = {v1, v2, f}
    Foundation = {f}
    Proposals = {p1, p2}
    Kind <- MCKind
    Blocks = {0}
    Locks <- MCLocks
    InitialStakes <- MCInitialStakes
    MaxStakes = 1
    MaxSnapshots = 2
    MaxVotes = 2
    MaxTime = 3
    Cooldown = 1
    VotingPeriod = 1
    EmergencyPeriod = 1
    Timelock = 1
    ExpireAfter = 2
    PageSize = 1
    CapPercent = 50
    QuorumPercent = 50
    MinProposerWeight = 1
    Threshold <- MCThreshold
    MinSupport <- MCMinSupport
SPECIFICATION Spec
CHECK_DEADLOCK FALSE
INVARIANTS
    TypeOK
    TallyIsVotes
    InForceIsApproved
    BondFollowsStatus
