CONSTANTS
    alice = alice
    bob = bob
    t1 = t1
    t2 = t2
    Address <- MCAddress
    Transfer <- MCTransfer
    MaxHeight = 2
    MaxInputs = 2
    MaxAmount = 4
    Reward = 2
    Fee = 1
    NoTx = NoTx
    Mint = Mint
    ReplayRaces = FALSE
    HonestBlocks = TRUE
SYMMETRY Symmetry
SPECIFICATION Spec
INVARIANT TypeOK
PROPERTY ImplementsLedger
