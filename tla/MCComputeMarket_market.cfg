CONSTANTS
    h1 = h1
    h2 = h2
    Hash = {h1, h2}
    NoHash = NoHash
    Order = {o1}
    Miner = {m1}
    Distributed = {}
    Tee = {o1}
    Wide = FALSE
    Lapses = TRUE
    Failures = 1
    Rejoins = 1
    Retries = 1
    Cap = 2
    Alloc <- MCAlloc
    GpuCount <- MCGpuCount
SPECIFICATION Spec
CHECK_DEADLOCK FALSE
INVARIANTS
    TypeOK
    FinishedIsPaid
    PaidOnce
    PromiseKept
PROPERTY PendingIsRetried
