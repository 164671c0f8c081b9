----------------------------- MODULE OneTimeCodes -----------------------------
(***************************************************************************)
(* One-time codes of one user for one purpose.  auth-service keeps a code  *)
(* in the otp_codes table and in Redis, and asks for both; payment-service *)
(* keeps the code of a transfer in Redis only.  Codes are issued and       *)
(* verified by concurrent requests.                                        *)
(*                                                                         *)
(* Each code is drawn at random from 900000: the model takes the codes of  *)
(* different requests to be different.                                     *)
(***************************************************************************)
EXTENDS Integers, FiniteSets

CONSTANTS
    Code,         \* requests that issue a code, and their codes; a bound
    Verification, \* requests that verify a code, at work at once
    NoCode        \* no code, or one that was never issued

ASSUME CodesAssumption == NoCode \notin Code /\ IsFiniteSet(Code)

VARIABLES
    inTable,  \* whether codes are kept in the table too: auth-service
    issuing,  \* where the issuing of each code stands
    born,     \* rows of the table: when each was inserted, 0 for none
    usedUp,   \* rows with used = true
    expired,  \* rows past their expires_at
    key,      \* the code in Redis
    mailed,   \* codes the user has been sent
    verifying, \* where each verification stands
    tried,    \* the code it is given
    pending,  \* the statements it waits for
    foundRow, foundKey, \* what it has read
    \* History variables: read by properties only.
    dead,     \* codes consumed or replaced
    deadThen, \* those of them that were so when each verification began
    earlier,  \* codes whose issuing was over when that of each began
    unsettled \* requests have overlapped, one has failed, or a code has expired

codeVars == <<inTable, issuing, born, usedUp, expired, key, mailed, verifying,
              tried, pending, foundRow, foundKey, dead, deadThen, earlier, unsettled>>

Stores == IF inTable THEN {"row", "key"} ELSE {"key"}

CodesInit ==
    /\ inTable \in BOOLEAN
    /\ issuing = [c \in Code |-> "new"]
    /\ born = [c \in Code |-> 0]
    /\ usedUp = {} /\ expired = {} /\ mailed = {}
    /\ key = NoCode
    /\ verifying = [v \in Verification |-> "idle"]
    /\ tried = [v \in Verification |-> NoCode]
    /\ pending = [v \in Verification |-> {}]
    /\ foundRow = [v \in Verification |-> NoCode]
    /\ foundKey = [v \in Verification |-> NoCode]
    /\ dead = {}
    /\ deadThen = [v \in Verification |-> {}]
    /\ earlier = [c \in Code |-> {}]
    /\ unsettled = FALSE

AtRest ==
    /\ \A c \in Code : issuing[c] \in {"new", "issued", "failed"}
    /\ \A v \in Verification : verifying[v] = "idle"

ActiveRows == {c \in Code : born[c] > 0 /\ c \notin usedUp \union expired}

-----------------------------------------------------------------------------
(* Issuing: auth-service inserts the row, sets the key, and sends the mail; *)
(* payment-service sends the mail and then sets the key.                   *)

verifyVars == <<verifying, tried, pending, foundRow, foundKey, deadThen>>

StepIssue(c, from, to) == issuing[c] = from /\ issuing' = [issuing EXCEPT ![c] = to]

Issue(c) ==
    /\ StepIssue(c, "new", IF inTable THEN "row" ELSE "mail")
    /\ earlier' = [earlier EXCEPT ![c] = {d \in Code : issuing[d] = "issued"}]
    /\ unsettled' = (unsettled \/ ~AtRest)
    /\ UNCHANGED <<inTable, born, usedUp, expired, key, mailed, dead, verifyVars>>

CreateOtp(c) ==
    /\ StepIssue(c, "row", "key")
    /\ born' = [born EXCEPT ![c] = 1 + Cardinality({d \in Code : born[d] > 0})]
    /\ UNCHANGED <<inTable, usedUp, expired, key, mailed, dead, earlier, unsettled, verifyVars>>

\* A code that is fully issued replaces those fully issued before it.
Replaces(c, to) ==
    IF to = "issued"
    THEN dead' = dead \union earlier[c] /\ earlier' = [earlier EXCEPT ![c] = {}]
    ELSE UNCHANGED <<dead, earlier>>

SetOtp(c) ==
    LET to == IF inTable THEN "mail" ELSE "issued"
    IN  /\ StepIssue(c, "key", to)
        /\ key' = c
        /\ Replaces(c, to)
        /\ UNCHANGED <<inTable, born, usedUp, expired, mailed, unsettled, verifyVars>>

SendOtp(c) ==
    LET to == IF inTable THEN "issued" ELSE "key"
    IN  /\ StepIssue(c, "mail", to)
        /\ mailed' = mailed \union {c}
        /\ Replaces(c, to)
        /\ UNCHANGED <<inTable, born, usedUp, expired, key, unsettled, verifyVars>>

IssueFails(c) ==
    /\ issuing[c] \in {"row", "key", "mail"}
    /\ issuing' = [issuing EXCEPT ![c] = "failed"]
    /\ earlier' = [earlier EXCEPT ![c] = {}]
    /\ unsettled' = TRUE
    /\ UNCHANGED <<inTable, born, usedUp, expired, key, mailed, dead, verifyVars>>

\* Rows expire in the order they were written, which matters of those that are
\* not used; Redis drops the key by itself.
RowExpires(c) ==
    /\ c \in ActiveRows
    /\ \A d \in ActiveRows : born[c] <= born[d]
    /\ expired' = expired \union {c}
    /\ unsettled' = TRUE
    /\ UNCHANGED <<inTable, issuing, born, usedUp, key, mailed, dead, earlier, verifyVars>>

KeyExpires ==
    /\ key # NoCode
    /\ key' = NoCode
    /\ unsettled' = TRUE
    /\ UNCHANGED <<inTable, issuing, born, usedUp, expired, mailed, dead, earlier, verifyVars>>

-----------------------------------------------------------------------------
(* Verifying: both stores are read at once, both have to match, and both   *)
(* are cleared at once.                                                    *)

issueVars == <<inTable, issuing, mailed, earlier>>

StepVerify(v, from, to) ==
    verifying[v] = from /\ verifying' = [verifying EXCEPT ![v] = to]

\* The user types a code from a mail, or a wrong one.
Verify(v) ==
    \E c \in mailed \union {NoCode} :
        /\ StepVerify(v, "idle", "reading")
        /\ tried' = [tried EXCEPT ![v] = c]
        /\ pending' = [pending EXCEPT ![v] = Stores]
        /\ deadThen' = [deadThen EXCEPT ![v] = dead]
        /\ unsettled' = (unsettled \/ ~AtRest)
        /\ UNCHANGED <<born, usedUp, expired, key, foundRow, foundKey, dead, issueVars>>

Awaits(v, stage, store) ==
    /\ verifying[v] = stage /\ store \in pending[v]
    /\ pending' = [pending EXCEPT ![v] = pending[v] \ {store}]

\* Mutant: the oldest active row is taken.
OldestRow ==
    IF ActiveRows = {} THEN NoCode
    ELSE CHOOSE c \in ActiveRows : \A d \in ActiveRows : born[c] <= born[d]

LatestRow ==
    IF ActiveRows = {} THEN NoCode
    ELSE CHOOSE c \in ActiveRows : \A d \in ActiveRows : born[d] <= born[c]

\* findActiveOtp.
ReadRow(v) ==
    /\ Awaits(v, "reading", "row")
    /\ foundRow' = [foundRow EXCEPT ![v] = LatestRow]
    /\ UNCHANGED <<born, usedUp, expired, key, verifying, tried, foundKey, dead,
                   deadThen, unsettled, issueVars>>

ReadKey(v) ==
    /\ Awaits(v, "reading", "key")
    /\ foundKey' = [foundKey EXCEPT ![v] = key]
    /\ UNCHANGED <<born, usedUp, expired, key, verifying, tried, foundRow, dead,
                   deadThen, unsettled, issueVars>>

Matches(v) ==
    /\ tried[v] # NoCode
    /\ foundKey[v] = tried[v]
    /\ inTable => foundRow[v] = tried[v]

Compare(v) ==
    /\ pending[v] = {}
    /\ IF Matches(v)
       THEN /\ StepVerify(v, "reading", "clearing")
            /\ pending' = [pending EXCEPT ![v] = Stores]
       ELSE /\ StepVerify(v, "reading", "refused")
            /\ UNCHANGED pending
    /\ UNCHANGED <<born, usedUp, expired, key, tried, foundRow, foundKey, dead,
                   deadThen, unsettled, issueVars>>

MarkOtpUsed(v) ==
    /\ Awaits(v, "clearing", "row")
    /\ usedUp' = usedUp \union {foundRow[v]}
    /\ UNCHANGED <<born, expired, key, verifying, tried, foundRow, foundKey,
                   dead, deadThen, unsettled, issueVars>>

\* Mutant: the key is left to expire.
DeleteNothing(v) ==
    /\ Awaits(v, "clearing", "key")
    /\ UNCHANGED <<born, usedUp, expired, key, verifying, tried, foundRow,
                   foundKey, dead, deadThen, unsettled, issueVars>>

\* Whatever code the key holds by now.
DeleteOtp(v) ==
    /\ Awaits(v, "clearing", "key")
    /\ key' = NoCode
    /\ UNCHANGED <<born, usedUp, expired, verifying, tried, foundRow, foundKey,
                   dead, deadThen, unsettled, issueVars>>

Accept(v) ==
    /\ pending[v] = {}
    /\ StepVerify(v, "clearing", "accepted")
    /\ UNCHANGED <<born, usedUp, expired, key, tried, pending, foundRow, foundKey,
                   dead, deadThen, unsettled, issueVars>>

\* One of the statements fails. The other, sent with it, may still be carried out.
VerifyFails(v) ==
    /\ verifying[v] \in {"reading", "clearing"}
    /\ \E store \in pending[v] :
           /\ verifying' = [verifying EXCEPT ![v] =
                                IF @ = "clearing" /\ pending[v] # {store}
                                THEN "failing" ELSE "refused"]
           /\ pending' = [pending EXCEPT ![v] =
                              IF verifying[v] = "clearing" THEN @ \ {store} ELSE {}]
    /\ unsettled' = TRUE
    /\ UNCHANGED <<born, usedUp, expired, key, tried, foundRow, foundKey, dead,
                   deadThen, issueVars>>

LateStatement(v) ==
    /\ StepVerify(v, "failing", "refused")
    /\ \/ UNCHANGED <<usedUp, key>>
       \/ "row" \in pending[v] /\ usedUp' = usedUp \union {foundRow[v]} /\ UNCHANGED key
       \/ "key" \in pending[v] /\ key' = NoCode /\ UNCHANGED usedUp
    /\ pending' = [pending EXCEPT ![v] = {}]
    /\ UNCHANGED <<born, expired, tried, foundRow, foundKey, dead, deadThen,
                   unsettled, issueVars>>

AnswerVerify(v) ==
    /\ verifying[v] \in {"accepted", "refused"}
    /\ verifying' = [verifying EXCEPT ![v] = "idle"]
    /\ dead' = IF verifying[v] = "accepted" THEN dead \union {tried[v]} ELSE dead
    /\ tried' = [tried EXCEPT ![v] = NoCode]
    /\ foundRow' = [foundRow EXCEPT ![v] = NoCode]
    /\ foundKey' = [foundKey EXCEPT ![v] = NoCode]
    /\ deadThen' = [deadThen EXCEPT ![v] = {}]
    /\ UNCHANGED <<born, usedUp, expired, key, pending, unsettled, issueVars>>

-----------------------------------------------------------------------------
CodesNext ==
    \/ \E c \in Code :
           \/ Issue(c) \/ CreateOtp(c) \/ SetOtp(c) \/ SendOtp(c)
           \/ IssueFails(c) \/ RowExpires(c)
    \/ KeyExpires
    \/ \E v \in Verification :
           \/ Verify(v) \/ ReadRow(v) \/ ReadKey(v) \/ Compare(v)
           \/ MarkOtpUsed(v) \/ DeleteOtp(v) \/ Accept(v)
           \/ VerifyFails(v) \/ LateStatement(v) \/ AnswerVerify(v)

CodesSpec == CodesInit /\ [][CodesNext]_codeVars

-----------------------------------------------------------------------------
(* Properties.                                                             *)

CodesTypeOK ==
    /\ inTable \in BOOLEAN
    /\ issuing \in [Code -> {"new", "row", "key", "mail", "issued", "failed"}]
    /\ born \in [Code -> 0..Cardinality(Code)]
    /\ usedUp \subseteq Code /\ expired \subseteq Code /\ mailed \subseteq Code
    /\ key \in Code \union {NoCode}
    /\ verifying \in [Verification -> {"idle", "reading", "clearing", "failing",
                                       "accepted", "refused"}]
    /\ tried \in [Verification -> Code \union {NoCode}]
    /\ pending \in [Verification -> SUBSET {"row", "key"}]
    /\ foundRow \in [Verification -> Code \union {NoCode}]
    /\ foundKey \in [Verification -> Code \union {NoCode}]
    /\ dead \subseteq Code
    /\ deadThen \in [Verification -> SUBSET Code]
    /\ earlier \in [Code -> SUBSET Code]
    /\ unsettled \in BOOLEAN

\* A verification never accepts a code that was over when it began: one that
\* another verification had been answered for, or one in whose place a newer
\* code had been issued from beginning to end. Statements that fail, keys and
\* rows that expire and codes issued at once make no difference. Verifications
\* that overlap may all accept one code.
DeadCodesRefused ==
    \A v \in Verification : verifying[v] = "accepted" => tried[v] \notin deadThen[v]

\* As long as requests do not overlap, none fails and nothing expires, a code
\* the user was sent is refused only when it is over.
LatestCodeAcceptedInTurn ==
    \A v \in Verification :
        verifying[v] = "refused" /\ ~unsettled /\ tried[v] # NoCode
            => tried[v] \in deadThen[v]
=============================================================================
