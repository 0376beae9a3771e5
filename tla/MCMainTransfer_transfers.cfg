CONSTANTS
    t1 = t1
    t2 = t2
    TransferId = {t1, t2}
    Sector = {s1, s2, s3}
    None = None
    Need <- MCNeed
    EngineNeed <- MCEngineNeed
    Pool = 2
    Caller = {c1}
    Funds = 2
    Failures = 1
SPECIFICATION TransferSpec
CHECK_DEADLOCK FALSE
INVARIANTS
    TransferTypeOK
    PaidIsWitnessed
    OncePerFailure
    ConfirmedIsPaid
SYMMETRY MCSymmetry
