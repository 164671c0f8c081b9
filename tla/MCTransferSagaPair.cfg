\* Two transactions at a time and a reversal, without retries.
SPECIFICATION Spec
CONSTANTS
    a1 = a1
    a2 = a2
    t1 = t1
    t2 = t2
    v1 = v1
    v2 = v2
    Account = {a1, a2}
    NoAccount = NoAccount
    Clearing = Clearing
    FeeAccount = FeeAccount
    Transaction = {t1, t2}
    Reverser = {v1}
    Offered <- PairOffered
    OpeningBalance <- RichOpening
    SingleLimit = 1000000
    DailyLimit = 1500000
    MaxAttempts = 1
SYMMETRY TransactionSymmetry
INVARIANTS
    QuietBooksAgree
    DailyLimitKeptInTurn
