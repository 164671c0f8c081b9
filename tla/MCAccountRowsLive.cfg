\* Lock waits, deadlocks and the OTP wait end.
SPECIFICATION FairSpec
CONSTANTS
    a1 = a1
    a2 = a2
    r1 = r1
    r2 = r2
    r3 = r3
    Account = {a1, a2}
    Request = {r1, r2, r3}
    NoAccount = NoAccount
    NoRequest = NoRequest
    Offered <- LiveOffered
    OpeningBalance <- MCOpening
    MaxBalance = 3
PROPERTY RequestsFinish
