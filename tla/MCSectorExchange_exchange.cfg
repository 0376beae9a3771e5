CONSTANTS
    Address = {a1, a2}
    MaxHeight = 2
    MaxSupply = 2
    Reward <- MCReward
    Moves = 1
    Exchange = {e1, e2}
    MaxWitness = 2
    Crashes = 1
SPECIFICATION Spec
CHECK_DEADLOCK FALSE
INVARIANTS
    TypeOK
    LogExplains
    LocksAccounted
PROPERTIES
    BurnedAreWitnessed
    PendingEnds
