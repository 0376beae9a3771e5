CONSTANTS
    Task = {t1}
    Miner = {m1, m2}
    None = None
    Nodes <- MCNodes
    Backed <- MCBacked
    Wide = FALSE
    MaxTries = 1
    MaxFails = 1
    Calls = 3
    Silences = 1
    Decays = 0
    Failures = 1
    Answer = {a, b}
SPECIFICATION Spec
CHECK_DEADLOCK FALSE
INVARIANTS
    TypeOK
    CompletedPassedTraps
    EarnedBySettlements
SYMMETRY MCSymmetry
