CONSTANTS
    alice = alice
    bob = bob
    t1 = t1
    t2 = t2
    Address <- MCAddress
    Transfer <- MCTransfer
    MaxHeight = 1
    MaxInputs = 2
    MaxAmount = 2
    Reward = 2
    Fee = 1
    NoTx = NoTx
    Mint = Mint
    ReplayRaces = TRUE
    HonestBlocks = FALSE
SYMMETRY Symmetry
SPECIFICATION Spec
INVARIANTS
    NoDoubleSpend
    Traceable
    Conservation
