CONSTANTS
    l1 = l1
    o1 = o1
    f1 = f1
    f2 = f2
    f3 = f3
    F2Form = "number"
    c1 = c1
    c2 = c2
    Loop = {}
    Own = {o1}
    Foreign = {f1, f2, f3}
    Coin = {c1, c2}
    InputOf <- MCInputOf
    NonceOf <- MCNonceOf
    FormOf <- MCFormOf
    NoTx = NoTx
    MaxBlocks = 4
    MaxNonce = 1
    MaxTxs = 2
    Peers = TRUE
    Sync = FALSE
    Commands = 0
    MaxFaults = 0
SPECIFICATION Spec
CHECK_DEADLOCK FALSE
PROPERTY EventuallyAccounted
