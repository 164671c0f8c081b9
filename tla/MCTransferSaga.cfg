\* A transaction of any type, two administrators, and one retry.
SPECIFICATION FairSpec
CONSTANTS
    a1 = a1
    a2 = a2
    t1 = t1
    t2 = t2
    v1 = v1
    v2 = v2
    Account = {a1, a2}
    NoAccount = NoAccount
    Clearing = Clearing
    FeeAccount = FeeAccount
    Transaction = {t1}
    Reverser = {v1, v2}
    Offered <- AllTypes
    OpeningBalance <- MCOpening
    SingleLimit = 1000000
    DailyLimit = 1500000
    MaxAttempts = 2
INVARIANTS
    TypeOK
    StatusTellsMoves
    OnceAtFirstAttempt
PROPERTIES
    ImplementsLifecycle
    RowsResolve
