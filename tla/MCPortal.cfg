\* scene "page": two requests of the tab, two users, three pairs of tokens.
\* scene "kyc": three documents, a history of two, two reports under way.
\* scene "approvals": two requests, two accounts, two calls under way.
SPECIFICATION Spec
CONSTANTS
    Fetch = {f1, f2}
    User = {u1, u2}
    NoUser = NoUser
    MaxPair = 3
    MaxDocs = 3
    HistoryLimit = 2
    Report = {p1, p2}
    Ask = {q1, q2}
    NoAsk = NoAsk
    Account = {a1, a2}
    NoAccount = NoAccount
    Call = {c1, c2}
INVARIANTS
    TypeOK
    TokensOfUserShown
    QueueAwaitsRefresh
    ApprovedOnHeldEvidence
    AccountFollowsReview
    ApprovedIsCarriedOut
    OneAccountPerRequestInTurn
PROPERTIES
    RefreshTokenSentOnce
