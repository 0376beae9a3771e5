CONSTANTS
    h1 = h1
    h2 = h2
    Hash = {h1, h2}
    NoHash = NoHash
    Order = {o1}
    Miner = {m1}
    Distributed = {}
    Tee = {}
    Wide = FALSE
    Lapses = TRUE
    Failures = 0
    Rejoins = 1
    Retries = 0
    Cap = 2
    Alloc <- MCAlloc
    GpuCount <- MCGpuCount
SPECIFICATION Spec
CHECK_DEADLOCK FALSE
PROPERTY DeadOrdersFail
