----------------------------- MODULE AuthSessions -----------------------------
(***************************************************************************)
(* auth-service: one user's row, refresh tokens and Redis session record   *)
(* under concurrent requests.  Every database or Redis statement of a      *)
(* handler is a step of its own, and any of them may fail.                 *)
(*                                                                         *)
(* repository.save reads the row again, computes the columns in which the  *)
(* entity in memory differs from it, and updates those: whatever others    *)
(* have written to the row since the entity was loaded is undone.          *)
(*                                                                         *)
(* A token's row says when it expires, and the session record expires on   *)
(* its own: written again, it lives as long as a token that is new then.   *)
(*                                                                         *)
(* The id of a revoked token that nothing refers to any more is used       *)
(* again: its row answers every query as a missing one does.               *)
(***************************************************************************)
EXTENDS Integers, FiniteSets

CONSTANTS
    Request,         \* the requests about this user that are at work at once
    Token,           \* ids of refresh tokens
    NoToken, NoRequest,
    Password,
    AuthOffered,     \* the requests that may arrive
    OpeningPassword,
    MaxFailed,       \* maxFailedLoginAttempts (3)
    TokenLife,       \* of a refresh token and of the session record (7 lock periods)
    MaxDay           \* bound: lock periods (24 hours) that pass

\* "edit" stands for verifyEmail and updateProfile: what they change in the
\* entity is not among the columns that matter here.
AuthJob ==
    [op : {"login", "reset"}, password : Password]
        \union [op : {"refresh", "logout", "edit", "verifyAdmin"}]

ASSUME AuthAssumption ==
    /\ AuthOffered \subseteq AuthJob
    /\ OpeningPassword \in Password
    /\ NoToken \notin Token /\ NoRequest \notin Request
    /\ MaxFailed \in Nat \ {0}
    /\ TokenLife \in Nat \ {0}
    /\ MaxDay \in Nat

VARIABLES
    multiSession, \* ALLOW_MULTI_SESSION = 'true', set once
    row,      \* the columns of the users table that matter here
    live,     \* the tokens of the refresh_tokens table that are not revoked
    expires,  \* the day from which each of them is refused; 0 for the others
    session,  \* the tokens listed in session:<user>; {} when there is no such key
    sessionEnds, \* the day on which Redis drops that key
    day,      \* the clock, in lock periods
    task,     \* what each request asks for
    at,       \* where each handler stands
    next,     \* where it goes on when its save is done
    copy,     \* the entity it has loaded
    changed,  \* the columns its save found changed
    mine,     \* the token a refresh presents, then the one a request mints
    held,     \* the session record it has read
    \* History variables: read by properties only.
    minter,     \* the request that inserted each live token
    stale,      \* requests whose row another has written since they loaded it
    disturbed   \* two requests were at work at once, or one failed half-way

authVars == <<multiSession, row, live, expires, session, sessionEnds, day, task, at, next,
              copy, changed, mine, held, minter, stale, disturbed>>
tokenVars == <<live, expires, session, sessionEnds>>

Column == {"password", "attempts", "lockedUntil"}
UserRow == [password : Password, attempts : 0..MaxFailed, lockedUntil : 0..(MaxDay + 1)]
NewRow == [password |-> OpeningPassword, attempts |-> 0, lockedUntil |-> 0]
NoTask == [op |-> "logout"]

AuthStep ==
    {"idle", "load", "compare", "admit", "otp", "select", "update", "find",
     "revoke", "readDrop", "writeDrop", "revokeAll", "dropSession", "insert",
     "readSession", "writeSession"}

AuthInit ==
    /\ multiSession \in BOOLEAN
    /\ row = NewRow
    /\ live = {} /\ expires = [t \in Token |-> 0]
    /\ session = {} /\ sessionEnds = 0
    /\ day = 0
    /\ task = [r \in Request |-> NoTask]
    /\ at = [r \in Request |-> "idle"]
    /\ next = [r \in Request |-> "idle"]
    /\ copy = [r \in Request |-> NewRow]
    /\ changed = [r \in Request |-> {}]
    /\ mine = [r \in Request |-> NoToken]
    /\ held = [r \in Request |-> {}]
    /\ minter = [t \in Token |-> NoRequest]
    /\ stale = {}
    /\ disturbed = FALSE

-----------------------------------------------------------------------------
(* Requests come and go; the clock moves.                                  *)

Goes(r, from, to) == at[r] = from /\ at' = [at EXCEPT ![r] = to]

Busy == {r \in Request : at[r] # "idle"}

FirstStep(op) ==
    CASE op = "logout" -> "revokeAll"
      [] op = "refresh" -> "find"
      [] OTHER -> "load"

Arrive(r) ==
    \E j \in AuthOffered :
        /\ Goes(r, "idle", FirstStep(j.op))
        /\ task' = [task EXCEPT ![r] = j]
        /\ disturbed' = (disturbed \/ Busy # {})
        /\ UNCHANGED <<row, tokenVars, day, next, copy, changed, mine, held, minter, stale>>

\* Nothing of the request stays in memory.
Forgets(r) ==
    /\ task' = [task EXCEPT ![r] = NoTask]
    /\ next' = [next EXCEPT ![r] = "idle"]
    /\ copy' = [copy EXCEPT ![r] = NewRow]
    /\ changed' = [changed EXCEPT ![r] = {}]
    /\ mine' = [mine EXCEPT ![r] = NoToken]
    /\ held' = [held EXCEPT ![r] = {}]
    /\ stale' = stale \ {r}

Answers(r, from) == Goes(r, from, "idle") /\ Forgets(r)

\* A statement fails, the OTP is wrong, or the process stops.
Fails(r) ==
    /\ at[r] # "idle"
    /\ at' = [at EXCEPT ![r] = "idle"]
    /\ Forgets(r)
    /\ disturbed' = TRUE
    /\ UNCHANGED <<row, tokenVars, day, minter>>

\* Redis drops a record whose time is up; the rows of expired tokens stay.
NextDay ==
    /\ day < MaxDay
    /\ day' = day + 1
    /\ IF sessionEnds <= day' THEN session' = {} /\ sessionEnds' = 0
       ELSE UNCHANGED <<session, sessionEnds>>
    /\ UNCHANGED <<row, live, expires, task, at, next, copy, changed, mine,
                   held, minter, stale, disturbed>>

-----------------------------------------------------------------------------
(* Handlers that load the user, and those that save it.                    *)

\* No handler step of this section touches these.
KeepsSessions == UNCHANGED <<tokenVars, day, mine, held, minter, disturbed>>

Saves(r, from, entity, after) ==
    /\ Goes(r, from, "select")
    /\ copy' = [copy EXCEPT ![r] = entity]
    /\ next' = [next EXCEPT ![r] = after]
    /\ UNCHANGED <<row, task, changed>> /\ KeepsSessions

\* On to a step that no longer needs the entity.
GoesWithout(r, from, to) ==
    /\ Goes(r, from, to)
    /\ copy' = [copy EXCEPT ![r] = NewRow]
    /\ stale' = stale \ {r}
    /\ UNCHANGED <<row, task, next, changed>> /\ KeepsSessions

Refused(r, from) ==
    /\ Answers(r, from)
    /\ UNCHANGED <<row, tokenVars, day, minter, disturbed>>

Cleared(u) == [u EXCEPT !.attempts = 0, !.lockedUntil = 0]

\* The code counts on past the limit; whatever is at or above it acts alike.
Missed(u) ==
    IF u.attempts + 1 >= MaxFailed
    THEN [u EXCEPT !.attempts = MaxFailed, !.lockedUntil = day + 1]
    ELSE [u EXCEPT !.attempts = u.attempts + 1]

Locked(u) == u.lockedUntil > day

ChecksLock(r) == task[r].op \in {"login", "verifyAdmin"}

\* Mutant: the flag of the environment is read the wrong way round.
MintStepSwapped == IF multiSession THEN "revokeAll" ELSE "insert"

\* createTokenPair first signs out the user's other sessions.
MintStep == IF multiSession THEN "insert" ELSE "revokeAll"

Loaded(r) == IF task[r].op = "login" THEN "compare" ELSE "otp"

Load(r) ==
    /\ task[r].op # "refresh"
    /\ ~(ChecksLock(r) /\ row.lockedUntil # 0)
    /\ Goes(r, "load", Loaded(r))
    /\ copy' = [copy EXCEPT ![r] = row]
    /\ UNCHANGED <<row, task, next, changed, stale>> /\ KeepsSessions

\* A refresh wants the user's id and roles only.
LoadToMint(r) ==
    /\ task[r].op = "refresh"
    /\ GoesWithout(r, "load", MintStep)

\* assertLoginNotLocked.
LoadLocked(r) ==
    /\ ChecksLock(r) /\ Locked(row)
    /\ Refused(r, "load")

\* Mutant: the lock is cleared before its time.
LoadLockedAnyway(r) ==
    /\ ChecksLock(r) /\ row.lockedUntil # 0
    /\ Saves(r, "load", Cleared(row), Loaded(r))
    /\ UNCHANGED stale

\* clearExpiredLoginLock.
LoadExpired(r) ==
    /\ ChecksLock(r) /\ row.lockedUntil # 0 /\ ~Locked(row)
    /\ Saves(r, "load", Cleared(row), Loaded(r))
    /\ UNCHANGED stale

\* bcrypt.compare against the hash in the entity.
Compares(r, match) ==
    at[r] = "compare" /\ (task[r].password = copy[r].password) = match

\* The limit of failures per address answers before the counter is touched.
RateLimited(r) == Compares(r, FALSE) /\ Refused(r, "compare")

\* recordFailedLogin.
WrongPassword(r) ==
    /\ Compares(r, FALSE)
    /\ Saves(r, "compare", Missed(copy[r]), "idle")
    /\ UNCHANGED stale

\* clearFailedLoginState saves only when there is something to clear.
RightPassword(r) ==
    /\ Compares(r, TRUE)
    /\ copy[r] # Cleared(copy[r])
    /\ Saves(r, "compare", Cleared(copy[r]), "admit")
    /\ UNCHANGED stale

RightPasswordAgain(r) ==
    /\ Compares(r, TRUE)
    /\ copy[r] = Cleared(copy[r])
    /\ GoesWithout(r, "compare", "admit")

\* An administrator gets a challenge and an OTP; an unverified user an OTP and
\* a refusal; a user without the role that was asked for a refusal.
AdmitWithoutTokens(r) == Refused(r, "admit")

Admit(r) == GoesWithout(r, "admit", MintStep)

\* verifyOtp has accepted the code (OneTimeCodes).
ResetPassword(r) ==
    /\ task[r].op = "reset"
    /\ Saves(r, "otp", [copy[r] EXCEPT !.password = task[r].password], "revokeAll")
    /\ UNCHANGED stale

\* Mutant: the entity is built anew with the password of the registration.
EditAnew(r) ==
    /\ task[r].op = "edit"
    /\ Saves(r, "otp", [copy[r] EXCEPT !.password = OpeningPassword], "idle")
    /\ UNCHANGED stale

Edit(r) ==
    /\ task[r].op = "edit"
    /\ Saves(r, "otp", copy[r], "idle")
    /\ UNCHANGED stale

VerifyAdmin(r) ==
    /\ task[r].op = "verifyAdmin"
    /\ GoesWithout(r, "otp", MintStep)

\* repository.save, first statement.
SaveSelect(r) ==
    /\ Goes(r, "select", "update")
    /\ changed' = [changed EXCEPT ![r] = {c \in Column : copy[r][c] # row[c]}]
    /\ UNCHANGED <<row, task, next, copy, stale>> /\ KeepsSessions

Updated(r) == [c \in Column |-> IF c \in changed[r] THEN copy[r][c] ELSE row[c]]

\* The requests whose entity another's write makes stale.
Holders == {q \in Request : at[q] \in {"compare", "otp", "select", "update"}}

\* repository.save, second statement.
SaveUpdate(r) ==
    LET needed == next[r] \in {"compare", "otp"}
        outdated == IF row' = row THEN stale ELSE stale \union (Holders \ {r})
    IN  /\ Goes(r, "update", next[r])
        /\ row' = Updated(r)
        /\ stale' = IF needed THEN outdated ELSE outdated \ {r}
        /\ task' = IF next[r] = "idle" THEN [task EXCEPT ![r] = NoTask] ELSE task
        /\ copy' = IF needed THEN copy ELSE [copy EXCEPT ![r] = NewRow]
        /\ changed' = [changed EXCEPT ![r] = {}]
        /\ next' = [next EXCEPT ![r] = "idle"]
        /\ KeepsSessions

-----------------------------------------------------------------------------
(* Refresh tokens and the session record.                                  *)

\* No handler step of this section touches these.
KeepsUser == UNCHANGED <<row, day, task, next, copy, changed, stale, disturbed>>

\* What assertRefreshToken accepts, of the tokens a client may present.
Accepted == {t \in live : expires[t] > day}

\* findRefreshToken and assertRefreshToken.
FindToken(r) ==
    \E t \in Accepted :
        /\ Goes(r, "find", "revoke")
        /\ mine' = [mine EXCEPT ![r] = t]
        /\ UNCHANGED <<tokenVars, held, minter>> /\ KeepsUser

TokenRefused(r) == Refused(r, "find")

RevokePresented(r) ==
    /\ Goes(r, "revoke", "readDrop")
    /\ live' = live \ {mine[r]}
    /\ expires' = [expires EXCEPT ![mine[r]] = 0]
    /\ minter' = [minter EXCEPT ![mine[r]] = NoRequest]
    /\ UNCHANGED <<session, sessionEnds, mine, held>> /\ KeepsUser

ReadSession(r) ==
    /\ \/ Goes(r, "readDrop", "writeDrop")
       \/ Goes(r, "readSession", "writeSession")
    /\ held' = [held EXCEPT ![r] = session]
    /\ UNCHANGED <<tokenVars, mine, minter>> /\ KeepsUser

\* setSession gives the record its time anew; without a token there is no record.
SetSession(tokens) ==
    /\ session' = tokens
    /\ sessionEnds' = IF tokens = {} THEN 0 ELSE day + TokenLife

\* Mutant: a record of one token is not deleted.
DropFromLongSession(r) ==
    /\ Goes(r, "writeDrop", "load")
    /\ IF held[r] \ {mine[r]} = {} THEN UNCHANGED <<session, sessionEnds>>
       ELSE SetSession(held[r] \ {mine[r]})
    /\ mine' = [mine EXCEPT ![r] = NoToken]
    /\ held' = [held EXCEPT ![r] = {}]
    /\ UNCHANGED <<live, expires, minter>> /\ KeepsUser

\* removeSessionToken: a record with no token left is deleted, a missing one
\* stays missing.
DropFromSession(r) ==
    /\ Goes(r, "writeDrop", "load")
    /\ IF held[r] = {} THEN UNCHANGED <<session, sessionEnds>>
       ELSE SetSession(held[r] \ {mine[r]})
    /\ mine' = [mine EXCEPT ![r] = NoToken]
    /\ held' = [held EXCEPT ![r] = {}]
    /\ UNCHANGED <<live, expires, minter>> /\ KeepsUser

\* logout, resetPassword, and createTokenPair unless multiSession.
RevokeAll(r) ==
    /\ Goes(r, "revokeAll", "dropSession")
    /\ live' = {} /\ expires' = [t \in Token |-> 0]
    /\ minter' = [t \in Token |-> NoRequest]
    /\ UNCHANGED <<session, sessionEnds, mine, held>> /\ KeepsUser

Mints(r) == task[r].op \notin {"logout", "reset"}

DropSession(r) ==
    /\ SetSession({})
    /\ IF Mints(r)
       THEN /\ Goes(r, "dropSession", "insert")
            /\ UNCHANGED <<mine, held>> /\ KeepsUser
       ELSE Answers(r, "dropSession") /\ UNCHANGED <<row, day, disturbed>>
    /\ UNCHANGED <<live, expires, minter>>

\* An id that nothing refers to.
Unused(t) ==
    /\ t \notin live \union session
    /\ \A q \in Request : mine[q] # t /\ t \notin held[q]

InsertToken(r) ==
    \E t \in Token :
        /\ Unused(t)
        /\ Goes(r, "insert", "readSession")
        /\ live' = live \union {t}
        /\ expires' = [expires EXCEPT ![t] = day + TokenLife]
        /\ mine' = [mine EXCEPT ![r] = t]
        /\ minter' = [minter EXCEPT ![t] = r]
        /\ UNCHANGED <<session, sessionEnds, held>> /\ KeepsUser

\* The pair is sent to the client.
WriteSession(r) ==
    /\ SetSession(held[r] \union {mine[r]})
    /\ Answers(r, "writeSession")
    /\ UNCHANGED <<row, live, expires, day, minter, disturbed>>

-----------------------------------------------------------------------------
AuthHandler(r) ==
    \/ Load(r) \/ LoadToMint(r) \/ LoadLocked(r) \/ LoadExpired(r)
    \/ RateLimited(r) \/ WrongPassword(r)
    \/ RightPassword(r) \/ RightPasswordAgain(r)
    \/ AdmitWithoutTokens(r) \/ Admit(r)
    \/ ResetPassword(r) \/ Edit(r) \/ VerifyAdmin(r)
    \/ SaveSelect(r) \/ SaveUpdate(r)
    \/ FindToken(r) \/ TokenRefused(r) \/ RevokePresented(r)
    \/ ReadSession(r) \/ DropFromSession(r)
    \/ RevokeAll(r) \/ DropSession(r) \/ InsertToken(r) \/ WriteSession(r)

AuthNext ==
    /\ UNCHANGED multiSession
    /\ \/ NextDay
       \/ \E r \in Request : Arrive(r) \/ AuthHandler(r) \/ Fails(r)

AuthSpec == AuthInit /\ [][AuthNext]_authVars

-----------------------------------------------------------------------------
(* Properties.                                                             *)

AuthTypeOK ==
    /\ multiSession \in BOOLEAN
    /\ row \in UserRow
    /\ live \subseteq Token
    /\ expires \in [Token -> 0..(MaxDay + TokenLife)]
    /\ session \subseteq Token
    /\ sessionEnds \in 0..(MaxDay + TokenLife)
    /\ day \in 0..MaxDay
    /\ task \in [Request -> AuthJob]
    /\ at \in [Request -> AuthStep]
    /\ next \in [Request -> {"idle", "compare", "admit", "otp", "revokeAll"}]
    /\ copy \in [Request -> UserRow]
    /\ changed \in [Request -> SUBSET Column]
    /\ mine \in [Request -> Token \union {NoToken}]
    /\ held \in [Request -> SUBSET Token]
    /\ minter \in [Token -> Request \union {NoRequest}]
    /\ stale \subseteq Request
    /\ disturbed \in BOOLEAN

\* Without ALLOW_MULTI_SESSION a user is signed in once for each request at
\* work at once, and no more: every request that inserts a refresh token has
\* revoked all of those before it, those of its own past among them. Served one
\* at a time, the user has one session.
OneSessionPerRequestAtOnce ==
    ~multiSession => \A t, u \in live : minter[t] = minter[u] => t = u

\* The record in Redis is read, changed in memory and written back, and expires
\* on its own, as the tokens do.  As long as no two requests have overlapped and
\* none has failed, whenever the user's requests are at rest it lists every token
\* that a refresh would accept, and none that has been revoked.  It may still list
\* one that has expired, when a later token has renewed it.
SessionAgreesInTurn ==
    ~disturbed /\ Busy = {} => Accepted \subseteq session /\ session \subseteq live

\* An account that failed logins have locked is opened before its time by
\* one kind of request only: one that saves an entity it loaded before another
\* request wrote the row.
LockLiftedOnlyByStaleSave ==
    [][Locked(row) /\ row'.lockedUntil <= day' =>
           \/ day' # day
           \/ \E r \in stale : at[r] = "update" /\ at'[r] # "update"]_authVars

\* A password is replaced by a reset, with the password it was given, or by a
\* request that saves an entity it loaded before another request wrote the row.
PasswordChangedOnlyByResetOrStaleSave ==
    [][row'.password # row.password =>
           \E r \in Request :
               /\ at[r] = "update" /\ at'[r] # "update"
               /\ \/ r \in stale
                  \/ task[r].op = "reset" /\ row'.password = task[r].password]_authVars
=============================================================================
