\* scenes "rows" and "tokens": two requests, three tokens, two passwords, locked
\* for a period after two failures, one period passes.
\* scene "codes": two codes, two verifications. scene "guard": two requests, two
\* records, entries that live for two ticks, calls that take up to one.
\* scene "breaker": two calls, opened by two failures for two ticks, calls that
\* take up to one.
\* scene "desk": two payees, two handlers that wait.
SPECIFICATION Spec
CONSTANTS
    p1 = p1
    p2 = p2
    Request = {r1, r2}
    NoRequest = NoRequest
    Token = {k1, k2, k3}
    NoToken = NoToken
    Password = {p1, p2}
    OpeningPassword = p1
    AuthOffered <- MCAuthOffered
    MaxFailed = 2
    TokenLife = 1
    MaxDay = 1
    Code = {k1, k2}
    Verification = {r1, r2}
    NoCode = NoCode
    Check = {r1, r2}
    Record = {u1, u2}
    FirstRecord = u1
    Ttl = 2
    MaxCall = 1
    MaxTime = 4
    Caller = {r1, r2}
    Threshold = 2
    Cooldown = 2
    MaxExchange = 1
    MaxClock = 6
    Payee = {k1, k2}
    NoPayee = NoPayee
    Handler = {r1, r2}
    NoHandler = NoHandler
SYMMETRY Symmetry
INVARIANTS
    TypeOK
    OneSessionPerRequestAtOnce
    SessionAgreesInTurn
    DeadCodesRefused
    LatestCodeAcceptedInTurn
    DestinationIsShown
    FailureMeansUnpaid
PROPERTIES
    LockLiftedOnlyByStaleSave
    PasswordChangedOnlyByResetOrStaleSave
    RecordsAtMostStale
    RefusalsBounded
