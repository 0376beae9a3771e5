CONSTANTS
    l1 = l1
    o1 = o1
    f1 = f1
    f2 = f2
    f3 = f3
    F2Form = "coinbase"
    c1 = c1
    c2 = c2
    Loop = {l1}
    Own = {o1}
    Foreign = {f1, f2}
    Coin = {c1, c2}
    InputOf <- MCInputOf
    NonceOf <- MCNonceOf
    FormOf <- MCFormOf
    NoTx = NoTx
    MaxBlocks = 3
    MaxNonce = 1
    MaxTxs = 1
    Peers = TRUE
    Sync = TRUE
    Commands = 1
    MaxFaults = 1
SPECIFICATION Spec
CHECK_DEADLOCK FALSE
INVARIANTS
    TypeOK
    InFlightAtFront
    MempoolOrdered
    NoncesFollowChain
    CreditedOnChain
    ForksAreRaces
    DiskFollowsChain
