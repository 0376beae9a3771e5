CONSTANTS
    Task = {t1}
    Miner = {m1, m2}
    None = None
    Nodes <- MCNodes
    Backed <- MCBacked
    Wide = TRUE
    MaxTries = 1
    MaxFails = 1
    Calls = 2
    Silences = 1
    Decays = 1
    Failures = 1
    Answer = {a}
SPECIFICATION Spec
CHECK_DEADLOCK FALSE
PROPERTY OverdueIsHandled
