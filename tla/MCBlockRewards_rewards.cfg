CONSTANTS
    Wallet = wallet
    Stranger = stranger
    Treasury = treasury
    NoTx = NoTx
    Mint = Mint
    MinerShare = 2
    TreasuryShare = 1
    Base = 2
    HalvingInterval = 3
    MaxSupply = 3
    MaxHeight = 3
    MaxCrashes = 2
    MaxFaults = 1
SPECIFICATION Spec
CHECK_DEADLOCK FALSE
INVARIANTS
    TypeOK
    SupplyCapped
    LossIsBounded
    CommittedIsWhole
    JournalCurrent
