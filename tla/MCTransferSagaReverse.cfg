\* Two administrators reverse one transfer.
SPECIFICATION Spec
CONSTANTS
    a1 = a1
    a2 = a2
    t1 = t1
    t2 = t2
    v1 = v1
    v2 = v2
    Account = {a1, a2}
    NoAccount = NoAccount
    Clearing = Clearing
    FeeAccount = FeeAccount
    Transaction = {t1}
    Reverser = {v1, v2}
    Offered <- OneTransfer
    OpeningBalance <- MCOpening
    SingleLimit = 1000000
    DailyLimit = 1500000
    MaxAttempts = 1
PROPERTY OnlyCompletedAreReversed
