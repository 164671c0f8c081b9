--------------------------- MODULE AuthSessionsProofs ---------------------------
(***************************************************************************)
(* Proofs about AuthSessions, for any number of requests at work at once,  *)
(* refresh tokens, passwords and days.                                     *)
(***************************************************************************)
EXTENDS AuthSessions, TLAPS

USE DEF tokenVars

-----------------------------------------------------------------------------
(* What holds of each request.                                             *)

\* The token that goes into the session record is there by then.
HasToken(r) == at[r] \in {"readSession", "writeSession"} => mine[r] \in Token

\* Only a save knows where to go on, and only a login compares passwords.
JobOf(r) ==
    /\ at[r] \notin {"select", "update"} => next[r] = "idle"
    /\ at[r] = "compare" \/ next[r] = "compare" => task[r].op = "login"

\* The entity a request holds differs from a row nobody else has written by what
\* the request itself has changed, which is never the lock of a locked account.
EntityKept(r) ==
    r \notin stale =>
        /\ at[r] \in {"compare", "otp"} =>
               copy[r] = row /\ (ChecksLock(r) => ~Locked(row))
        /\ at[r] \in {"select", "update"} =>
               /\ \/ copy[r].password = row.password
                  \/ task[r].op = "reset" /\ copy[r].password = task[r].password
               /\ Locked(row) => copy[r].lockedUntil = row.lockedUntil
               /\ next[r] \in {"compare", "otp"} => copy[r].lockedUntil = 0
        /\ at[r] = "update" => changed[r] = {c \in Column : copy[r][c] # row[c]}

\* Without ALLOW_MULTI_SESSION, whoever is about to insert a token has none.
NoneMinted(r) ==
    ~multiSession /\ (at[r] = "insert" \/ (at[r] = "dropSession" /\ Mints(r))) =>
        \A t \in live : minter[t] # r

RequestInv(r) == HasToken(r) /\ JobOf(r) /\ EntityKept(r) /\ NoneMinted(r)

\* The inductive invariant.
AuthInv ==
    /\ AuthTypeOK
    /\ OneSessionPerRequestAtOnce
    /\ \A r \in Request : RequestInv(r)

-----------------------------------------------------------------------------
(* Rows of the users table.                                                *)

\* What the handlers do to an entity gives an entity.
LEMMA EntityTypes ==
    ASSUME NEW u \in UserRow, day \in 0..MaxDay
    PROVE  /\ Cleared(u) \in UserRow /\ Missed(u) \in UserRow
           /\ \A p \in Password : [u EXCEPT !.password = p] \in UserRow
<1>1. /\ 0 \in 0..MaxFailed /\ MaxFailed \in 0..MaxFailed /\ 0 \in 0..(MaxDay + 1)
      /\ day + 1 \in 0..(MaxDay + 1)
      /\ ~(u.attempts + 1 >= MaxFailed) => u.attempts + 1 \in 0..MaxFailed
  BY AuthAssumption DEF AuthAssumption, UserRow
<1>2. Missed(u) \in UserRow
  <2>1. CASE u.attempts + 1 >= MaxFailed
    BY <1>1, <2>1 DEF Missed, UserRow
  <2>2. CASE ~(u.attempts + 1 >= MaxFailed)
    BY <1>1, <2>2 DEF Missed, UserRow
  <2>. QED
    BY <2>1, <2>2
<1>. QED
  BY <1>1, <1>2 DEF Cleared, UserRow

\* What they leave alone.
LEMMA EntityColumns ==
    ASSUME NEW u \in UserRow
    PROVE  /\ Cleared(u).password = u.password /\ Cleared(u).lockedUntil = 0
           /\ Missed(u).password = u.password
           /\ \A p : /\ [u EXCEPT !.password = p].password = p
                     /\ [u EXCEPT !.password = p].lockedUntil = u.lockedUntil
<1>1. Missed(u).password = u.password
  <2>1. CASE u.attempts + 1 >= MaxFailed
    BY <2>1 DEF Missed, UserRow
  <2>2. CASE ~(u.attempts + 1 >= MaxFailed)
    BY <2>2 DEF Missed, UserRow
  <2>. QED
    BY <2>1, <2>2
<1>. QED
  BY <1>1 DEF Cleared, UserRow

\* Rows that agree in every column are the same.
LEMMA SameRow ==
    ASSUME NEW u \in UserRow, NEW v \in UserRow, \A c \in Column : u[c] = v[c]
    PROVE  u = v
  BY DEF UserRow, Column

\* The row that the second statement of a save writes.
LEMMA UpdatedRow ==
    ASSUME NEW r, copy[r] \in UserRow, row \in UserRow
    PROVE  /\ Updated(r) \in UserRow
           /\ \A c \in Column : Updated(r)[c] = IF c \in changed[r] THEN copy[r][c] ELSE row[c]
           /\ changed[r] = {c \in Column : copy[r][c] # row[c]} => Updated(r) = copy[r]
<1>1. Updated(r) \in UserRow
  BY DEF Updated, UserRow, Column
<1>2. \A c \in Column : Updated(r)[c] = IF c \in changed[r] THEN copy[r][c] ELSE row[c]
  BY DEF Updated
<1>3. ASSUME changed[r] = {c \in Column : copy[r][c] # row[c]}
      PROVE  Updated(r) = copy[r]
  <2>1. \A c \in Column : Updated(r)[c] = copy[r][c]
    BY <1>2, <1>3
  <2>. QED
    BY <1>1, <2>1, SameRow
<1>. QED
  BY <1>1, <1>2, <1>3

-----------------------------------------------------------------------------
(* Types.                                                                  *)

\* When a token or a session record of today expires.
LEMMA ExpiryTypes ==
    ASSUME AuthTypeOK
    PROVE  /\ 0 \in 0..(MaxDay + TokenLife) /\ day + TokenLife \in 0..(MaxDay + TokenLife)
           /\ \A s \in SUBSET Token : SetSession(s) =>
                  session' = s /\ sessionEnds' \in 0..(MaxDay + TokenLife)
<1>1. 0 \in 0..(MaxDay + TokenLife) /\ day + TokenLife \in 0..(MaxDay + TokenLife)
  BY AuthAssumption DEF AuthAssumption, AuthTypeOK
<1>. QED
  BY <1>1 DEF SetSession

LEMMA TypeInit == AuthInit => AuthTypeOK
<1> SUFFICES ASSUME AuthInit PROVE AuthTypeOK
  OBVIOUS
<1>1. NewRow \in UserRow
  BY AuthAssumption DEF AuthAssumption, NewRow, UserRow
<1>2. NoTask \in AuthJob /\ "idle" \in AuthStep /\ 0 \in 0..MaxDay
      /\ 0 \in 0..(MaxDay + TokenLife)
  BY AuthAssumption DEF AuthAssumption, NoTask, AuthJob, AuthStep
<1>. QED
  BY <1>1, <1>2 DEF AuthInit, AuthTypeOK

\* A handler's step leaves the other requests' program counters alone.
LEMMA TypeGoes ==
    ASSUME AuthTypeOK, NEW r \in Request, NEW from, NEW to \in AuthStep, Goes(r, from, to)
    PROVE  /\ at' \in [Request -> AuthStep]
           /\ at[r] = from /\ at'[r] = to
           /\ \A q \in Request \ {r} : at'[q] = at[q]
  BY DEF AuthTypeOK, Goes

LEMMA TypeForgets ==
    ASSUME AuthTypeOK, NEW r \in Request, Forgets(r)
    PROVE  /\ task' \in [Request -> AuthJob]
           /\ next' \in [Request -> {"idle", "compare", "admit", "otp", "revokeAll"}]
           /\ copy' \in [Request -> UserRow]
           /\ changed' \in [Request -> SUBSET Column]
           /\ mine' \in [Request -> Token \union {NoToken}]
           /\ held' \in [Request -> SUBSET Token]
           /\ stale' \subseteq Request
<1>1. NewRow \in UserRow
  BY AuthAssumption DEF AuthAssumption, NewRow, UserRow
<1>2. NoTask \in AuthJob
  BY DEF NoTask, AuthJob
<1>. QED
  BY <1>1, <1>2 DEF AuthTypeOK, Forgets

\* A save begins.
LEMMA TypeSaves ==
    ASSUME AuthTypeOK, UNCHANGED multiSession, NEW r \in Request, NEW from,
           NEW u \in UserRow,
           NEW after \in {"idle", "compare", "admit", "otp", "revokeAll"},
           Saves(r, from, u, after), UNCHANGED stale
    PROVE  AuthTypeOK'
<1>1. at' \in [Request -> AuthStep]
  BY TypeGoes DEF Saves, AuthStep
<1>. QED
  BY <1>1 DEF AuthTypeOK, Saves, KeepsSessions

LEMMA TypeGoesWithout ==
    ASSUME AuthTypeOK, UNCHANGED multiSession, NEW r \in Request, NEW from,
           NEW to \in AuthStep, GoesWithout(r, from, to)
    PROVE  AuthTypeOK'
<1>1. at' \in [Request -> AuthStep]
  BY TypeGoes DEF GoesWithout
<1>2. NewRow \in UserRow
  BY AuthAssumption DEF AuthAssumption, NewRow, UserRow
<1>. QED
  BY <1>1, <1>2 DEF AuthTypeOK, GoesWithout, KeepsSessions

LEMMA TypeRefused ==
    ASSUME AuthTypeOK, UNCHANGED multiSession, NEW r \in Request, NEW from,
           Refused(r, from)
    PROVE  AuthTypeOK'
<1>1. at' \in [Request -> AuthStep]
  BY TypeGoes DEF Refused, Answers, AuthStep
<1>. QED
  BY <1>1, TypeForgets DEF AuthTypeOK, Refused, Answers

\* The steps that load the user or save it.
LEMMA TypeUser ==
    ASSUME AuthTypeOK, UNCHANGED multiSession, NEW r \in Request,
           \/ Load(r) \/ LoadToMint(r) \/ LoadLocked(r) \/ LoadExpired(r)
           \/ RateLimited(r) \/ WrongPassword(r)
           \/ RightPassword(r) \/ RightPasswordAgain(r)
           \/ AdmitWithoutTokens(r) \/ Admit(r)
           \/ ResetPassword(r) \/ Edit(r) \/ VerifyAdmin(r)
           \/ SaveSelect(r) \/ SaveUpdate(r)
    PROVE  AuthTypeOK'
<1>1. /\ row \in UserRow /\ copy[r] \in UserRow /\ day \in 0..MaxDay
      /\ task[r] \in AuthJob
      /\ next[r] \in {"idle", "compare", "admit", "otp", "revokeAll"}
  BY DEF AuthTypeOK
<1>2. MintStep \in AuthStep /\ Loaded(r) \in {"compare", "otp"}
  BY DEF MintStep, Loaded, AuthStep
<1>3. CASE Load(r)
  <2>1. at' \in [Request -> AuthStep]
    BY <1>2, <1>3, TypeGoes DEF Load, AuthStep
  <2>. QED
    BY <1>1, <1>3, <2>1 DEF Load, AuthTypeOK, KeepsSessions
<1>4. CASE LoadToMint(r) \/ RightPasswordAgain(r) \/ Admit(r) \/ VerifyAdmin(r)
  BY <1>2, <1>4, TypeGoesWithout
     DEF LoadToMint, RightPasswordAgain, Admit, VerifyAdmin, AuthStep
<1>5. CASE LoadLocked(r) \/ RateLimited(r) \/ AdmitWithoutTokens(r)
  BY <1>5, TypeRefused DEF LoadLocked, RateLimited, AdmitWithoutTokens
<1>6. CASE LoadExpired(r)
  BY <1>1, <1>2, <1>6, EntityTypes, TypeSaves DEF LoadExpired
<1>7. CASE WrongPassword(r)
  BY <1>1, <1>7, EntityTypes, TypeSaves DEF WrongPassword
<1>8. CASE RightPassword(r)
  BY <1>1, <1>8, EntityTypes, TypeSaves DEF RightPassword
<1>9. CASE ResetPassword(r)
  <2>1. task[r].password \in Password
    BY <1>1, <1>9 DEF ResetPassword, AuthJob
  <2>2. [copy[r] EXCEPT !.password = task[r].password] \in UserRow
    BY <1>1, <2>1, EntityTypes
  <2>. QED
    BY <1>9, <2>2, TypeSaves DEF ResetPassword
<1>10. CASE Edit(r)
  BY <1>1, <1>10, TypeSaves DEF Edit
<1>11. CASE SaveSelect(r)
  <2>1. at' \in [Request -> AuthStep]
    BY <1>11, TypeGoes DEF SaveSelect, AuthStep
  <2>. QED
    BY <1>11, <2>1 DEF SaveSelect, AuthTypeOK, KeepsSessions
<1>12. CASE SaveUpdate(r)
  <2>1. at' \in [Request -> AuthStep]
    BY <1>1, <1>12, TypeGoes DEF SaveUpdate, AuthStep
  <2>2. row' \in UserRow
    BY <1>1, <1>12, UpdatedRow DEF SaveUpdate
  <2>3. NewRow \in UserRow /\ NoTask \in AuthJob
    BY AuthAssumption DEF AuthAssumption, NewRow, UserRow, NoTask, AuthJob
  <2>4. stale' \subseteq Request
    BY <1>12 DEF SaveUpdate, AuthTypeOK, Holders
  <2>5. task' \in [Request -> AuthJob] /\ copy' \in [Request -> UserRow]
    BY <1>12, <2>3 DEF SaveUpdate, AuthTypeOK
  <2>6. /\ next' \in [Request -> {"idle", "compare", "admit", "otp", "revokeAll"}]
        /\ changed' \in [Request -> SUBSET Column]
    BY <1>12 DEF SaveUpdate, AuthTypeOK
  <2>. QED
    BY <1>12, <2>1, <2>2, <2>4, <2>5, <2>6 DEF SaveUpdate, AuthTypeOK, KeepsSessions
<1>. QED
  BY <1>3, <1>4, <1>5, <1>6, <1>7, <1>8, <1>9, <1>10, <1>11, <1>12

\* The steps on refresh tokens and the session record.
LEMMA TypeTokens ==
    ASSUME AuthTypeOK, UNCHANGED multiSession, NEW r \in Request, HasToken(r),
           \/ FindToken(r) \/ TokenRefused(r) \/ RevokePresented(r)
           \/ ReadSession(r) \/ DropFromSession(r)
           \/ RevokeAll(r) \/ DropSession(r) \/ InsertToken(r) \/ WriteSession(r)
    PROVE  AuthTypeOK'
<1>1. /\ mine[r] \in Token \union {NoToken} /\ held[r] \subseteq Token
      /\ session \subseteq Token /\ live \subseteq Token
      /\ expires \in [Token -> 0..(MaxDay + TokenLife)]
  BY DEF AuthTypeOK
<1>2. CASE FindToken(r)
  <2>1. at' \in [Request -> AuthStep]
    BY <1>2, TypeGoes DEF FindToken, AuthStep
  <2>2. PICK t \in Token : mine' = [mine EXCEPT ![r] = t]
    BY <1>1, <1>2 DEF FindToken, Accepted
  <2>. QED
    BY <1>1, <1>2, <2>1, <2>2 DEF FindToken, AuthTypeOK, KeepsUser
<1>3. CASE TokenRefused(r)
  BY <1>3, TypeRefused DEF TokenRefused
<1>4. CASE RevokePresented(r)
  <2>1. at' \in [Request -> AuthStep]
    BY <1>4, TypeGoes DEF RevokePresented, AuthStep
  <2>. QED
    BY <1>1, <1>4, <2>1, ExpiryTypes DEF RevokePresented, AuthTypeOK, KeepsUser
<1>5. CASE ReadSession(r)
  <2>1. at' \in [Request -> AuthStep]
    BY <1>5, TypeGoes DEF ReadSession, AuthStep
  <2>. QED
    BY <1>1, <1>5, <2>1 DEF ReadSession, AuthTypeOK, KeepsUser
<1>6. CASE DropFromSession(r)
  <2>1. at' \in [Request -> AuthStep]
    BY <1>6, TypeGoes DEF DropFromSession, AuthStep
  <2>2. session' \subseteq Token /\ sessionEnds' \in 0..(MaxDay + TokenLife)
    BY <1>1, <1>6, ExpiryTypes DEF DropFromSession, AuthTypeOK
  <2>. QED
    BY <1>1, <1>6, <2>1, <2>2 DEF DropFromSession, AuthTypeOK, KeepsUser
<1>7. CASE RevokeAll(r)
  <2>1. at' \in [Request -> AuthStep]
    BY <1>7, TypeGoes DEF RevokeAll, AuthStep
  <2>. QED
    BY <1>7, <2>1, ExpiryTypes DEF RevokeAll, AuthTypeOK, KeepsUser
<1>8. CASE DropSession(r)
  <2>0. session' \subseteq Token /\ sessionEnds' \in 0..(MaxDay + TokenLife)
    BY <1>8, ExpiryTypes DEF DropSession
  <2>1. CASE Mints(r)
    <3>1. at' \in [Request -> AuthStep]
      BY <1>8, <2>1, TypeGoes DEF DropSession, AuthStep
    <3>. QED
      BY <1>8, <2>0, <2>1, <3>1 DEF DropSession, AuthTypeOK, KeepsUser
  <2>2. CASE ~Mints(r)
    <3>1. at' \in [Request -> AuthStep]
      BY <1>8, <2>2, TypeGoes DEF DropSession, Answers, AuthStep
    <3>. QED
      BY <1>8, <2>0, <2>2, <3>1, TypeForgets DEF DropSession, Answers, AuthTypeOK
  <2>. QED
    BY <2>1, <2>2
<1>9. CASE InsertToken(r)
  <2>1. at' \in [Request -> AuthStep]
    BY <1>9, TypeGoes DEF InsertToken, AuthStep
  <2>2. PICK t \in Token :
            /\ live' = live \union {t}
            /\ expires' = [expires EXCEPT ![t] = day + TokenLife]
            /\ mine' = [mine EXCEPT ![r] = t]
            /\ minter' = [minter EXCEPT ![t] = r]
    BY <1>9 DEF InsertToken
  <2>3. UNCHANGED <<session, sessionEnds, held>> /\ KeepsUser
    BY <1>9 DEF InsertToken
  <2>. QED
    BY <1>1, <2>1, <2>2, <2>3, ExpiryTypes DEF AuthTypeOK, KeepsUser
<1>10. CASE WriteSession(r)
  <2>1. /\ at' \in [Request -> AuthStep]
        /\ UNCHANGED <<row, live, expires, day, minter, disturbed>>
        /\ SetSession(held[r] \union {mine[r]})
    BY <1>10, TypeGoes DEF WriteSession, Answers, AuthStep
  <2>2. mine[r] \in Token
    BY <1>10 DEF WriteSession, Answers, Goes, HasToken
  <2>3. session' \subseteq Token /\ sessionEnds' \in 0..(MaxDay + TokenLife)
    BY <1>1, <2>1, <2>2, ExpiryTypes
  <2>. QED
    BY <1>1, <1>10, <2>1, <2>3, TypeForgets DEF WriteSession, Answers, AuthTypeOK
<1>. QED
  BY <1>2, <1>3, <1>4, <1>5, <1>6, <1>7, <1>8, <1>9, <1>10

\* Requests come and go, and time passes.
LEMMA TypeRequests ==
    ASSUME AuthTypeOK, UNCHANGED multiSession,
           NextDay \/ \E r \in Request : Arrive(r) \/ Fails(r)
    PROVE  AuthTypeOK'
<1>1. CASE NextDay
  <2>1. day' \in 0..MaxDay
    BY <1>1, AuthAssumption DEF NextDay, AuthTypeOK, AuthAssumption
  <2>2. session' \subseteq Token /\ sessionEnds' \in 0..(MaxDay + TokenLife)
    BY <1>1, ExpiryTypes DEF NextDay, AuthTypeOK
  <2>. QED
    BY <1>1, <2>1, <2>2 DEF NextDay, AuthTypeOK
<1>2. ASSUME NEW r \in Request, Arrive(r) PROVE AuthTypeOK'
  <2>1. PICK j \in AuthOffered :
            Goes(r, "idle", FirstStep(j.op)) /\ task' = [task EXCEPT ![r] = j]
    BY <1>2 DEF Arrive
  <2>2. FirstStep(j.op) \in AuthStep /\ j \in AuthJob
    BY AuthAssumption DEF FirstStep, AuthStep, AuthAssumption
  <2>3. at' \in [Request -> AuthStep]
    BY <2>1, <2>2, TypeGoes
  <2>4. task' \in [Request -> AuthJob]
    BY <2>1, <2>2 DEF AuthTypeOK
  <2>5. disturbed' \in BOOLEAN
    BY <1>2 DEF Arrive, AuthTypeOK
  <2>. QED
    BY <1>2, <2>3, <2>4, <2>5 DEF Arrive, AuthTypeOK
<1>3. ASSUME NEW r \in Request, Fails(r) PROVE AuthTypeOK'
  <2>1. at' \in [Request -> AuthStep]
    BY <1>3 DEF Fails, AuthTypeOK, AuthStep
  <2>2. Forgets(r) /\ disturbed' = TRUE /\ UNCHANGED <<row, tokenVars, day, minter>>
    BY <1>3 DEF Fails
  <2>. QED
    BY <2>1, <2>2, TypeForgets DEF AuthTypeOK
<1>. QED
  BY <1>1, <1>2, <1>3

-----------------------------------------------------------------------------
(* The requests that a step is not about.                                  *)

\* What a step of r leaves of another request.
OthersSame(r) ==
    \A q \in Request \ {r} :
        /\ at'[q] = at[q] /\ next'[q] = next[q] /\ task'[q] = task[q]
        /\ copy'[q] = copy[q] /\ changed'[q] = changed[q] /\ mine'[q] = mine[q]

StaleSame(r) == \A q \in Request \ {r} : q \in stale' <=> q \in stale

LEMMA ForgetsOthers ==
    ASSUME AuthTypeOK, NEW r \in Request, Forgets(r)
    PROVE  /\ \A q \in Request \ {r} :
                  /\ next'[q] = next[q] /\ task'[q] = task[q]
                  /\ copy'[q] = copy[q] /\ changed'[q] = changed[q] /\ mine'[q] = mine[q]
           /\ next'[r] = "idle"
           /\ StaleSame(r)
  BY DEF AuthTypeOK, Forgets, StaleSame

\* The other requests keep what holds of them.
LEMMA OthersKept ==
    ASSUME NEW r \in Request, \A q \in Request : RequestInv(q),
           OthersSame(r), StaleSame(r), UNCHANGED <<multiSession, row, day>>,
           \A q \in Request \ {r}, t \in live' : minter'[t] = q => t \in live /\ minter[t] = q
    PROVE  \A q \in Request \ {r} : RequestInv(q)'
<1> SUFFICES ASSUME NEW q \in Request \ {r} PROVE RequestInv(q)'
  OBVIOUS
<1>1. RequestInv(q)
  OBVIOUS
<1>2. /\ at'[q] = at[q] /\ next'[q] = next[q] /\ task'[q] = task[q]
      /\ copy'[q] = copy[q] /\ changed'[q] = changed[q] /\ mine'[q] = mine[q]
      /\ q \in stale' <=> q \in stale
      /\ multiSession' = multiSession /\ row' = row /\ day' = day
      /\ \A t \in live' : minter'[t] = q => t \in live /\ minter[t] = q
  BY DEF OthersSame, StaleSame
<1>3. HasToken(q)' /\ JobOf(q)'
  BY <1>1, <1>2 DEF RequestInv, HasToken, JobOf
<1>4. EntityKept(q)'
  BY <1>1, <1>2 DEF RequestInv, EntityKept, ChecksLock, Locked
<1>5. NoneMinted(q)'
  BY <1>1, <1>2 DEF RequestInv, NoneMinted, Mints
<1>. QED
  BY <1>3, <1>4, <1>5 DEF RequestInv

\* Nothing is asked of a request that neither holds the row nor a new token.
LEMMA AtEase ==
    ASSUME NEW r \in Request, next'[r] = "idle",
           at'[r] \in {"idle", "load", "admit", "find", "revoke", "readDrop",
                       "writeDrop", "revokeAll"}
    PROVE  RequestInv(r)'
<1>1. HasToken(r)' /\ JobOf(r)' /\ EntityKept(r)' /\ NoneMinted(r)'
  BY DEF HasToken, JobOf, EntityKept, NoneMinted
<1>. QED
  BY <1>1 DEF RequestInv

\* A step that touches no token, and makes nobody's entity stale.
LEMMA KeepsInv ==
    ASSUME AuthInv, AuthTypeOK', NEW r \in Request, OthersSame(r), StaleSame(r),
           UNCHANGED <<multiSession, row, day, live, minter>>, RequestInv(r)'
    PROVE  AuthInv'
<1>1. \A q \in Request \ {r} : RequestInv(q)'
  BY OthersKept DEF AuthInv
<1>2. OneSessionPerRequestAtOnce'
  BY DEF AuthInv, OneSessionPerRequestAtOnce
<1>. QED
  BY <1>1, <1>2 DEF AuthInv

-----------------------------------------------------------------------------
(* Steps that load the user or begin to save it.                           *)

LEMMA InvAnswers ==
    ASSUME AuthInv, AuthTypeOK', NEW r \in Request, NEW from, Answers(r, from),
           UNCHANGED <<multiSession, row, day, live, minter>>
    PROVE  AuthInv'
<1>1. AuthTypeOK
  BY DEF AuthInv
<1>2. /\ at'[r] = "idle" /\ \A q \in Request \ {r} : at'[q] = at[q]
  BY <1>1, TypeGoes DEF Answers, AuthStep
<1>3. OthersSame(r) /\ StaleSame(r) /\ next'[r] = "idle"
  BY <1>1, <1>2, ForgetsOthers DEF Answers, OthersSame
<1>. QED
  BY <1>2, <1>3, AtEase, KeepsInv

LEMMA InvGoesWithout ==
    ASSUME AuthInv, AuthTypeOK', UNCHANGED multiSession, NEW r \in Request,
           NEW from \in {"load", "compare", "admit", "otp"},
           NEW to \in {"admit", MintStep}, GoesWithout(r, from, to)
    PROVE  AuthInv'
<1>1. AuthTypeOK /\ RequestInv(r)
  BY DEF AuthInv
<1>2. /\ at[r] = from /\ at'[r] = to /\ \A q \in Request \ {r} : at'[q] = at[q]
  BY <1>1, TypeGoes DEF GoesWithout, AuthStep, MintStep
<1>3. OthersSame(r) /\ StaleSame(r)
  BY <1>1, <1>2 DEF GoesWithout, KeepsSessions, OthersSame, StaleSame, AuthTypeOK
<1>4. next'[r] = "idle"
  BY <1>1, <1>2 DEF GoesWithout, RequestInv, JobOf
<1>5. RequestInv(r)'
  <2>1. CASE to = "insert"
    <3>1. multiSession'
      BY <2>1 DEF MintStep
    <3>. QED
      BY <1>2, <1>4, <2>1, <3>1 DEF RequestInv, HasToken, JobOf, EntityKept, NoneMinted
  <2>2. CASE to # "insert"
    BY <1>2, <1>4, <2>2, AtEase DEF MintStep
  <2>. QED
    BY <2>1, <2>2
<1>. QED
  BY <1>3, <1>5, KeepsInv DEF GoesWithout, KeepsSessions

\* A save begins with an entity that differs from the row in its password at
\* most, and only for a reset, or does not lift a lock that stands.
LEMMA InvSaves ==
    ASSUME AuthInv, AuthTypeOK', UNCHANGED <<multiSession, stale>>, NEW r \in Request,
           NEW from, NEW u,
           NEW after \in {"idle", "compare", "admit", "otp", "revokeAll"},
           Saves(r, from, u, after),
           after = "compare" => task[r].op = "login",
           r \notin stale =>
               /\ \/ u.password = row.password
                  \/ task[r].op = "reset" /\ u.password = task[r].password
               /\ Locked(row) => u.lockedUntil = row.lockedUntil
               /\ after \in {"compare", "otp"} => u.lockedUntil = 0
    PROVE  AuthInv'
<1>1. AuthTypeOK
  BY DEF AuthInv
<1>2. /\ at'[r] = "select" /\ \A q \in Request \ {r} : at'[q] = at[q]
  BY <1>1, TypeGoes DEF Saves, AuthStep
<1>3. OthersSame(r) /\ StaleSame(r)
  BY <1>1, <1>2 DEF Saves, KeepsSessions, OthersSame, StaleSame, AuthTypeOK
<1>4. /\ copy'[r] = u /\ next'[r] = after /\ task' = task
      /\ UNCHANGED <<row, day, live, minter>>
  BY <1>1 DEF Saves, KeepsSessions, AuthTypeOK
<1>5. HasToken(r)' /\ JobOf(r)' /\ NoneMinted(r)'
  BY <1>2, <1>4 DEF HasToken, JobOf, NoneMinted
<1>6. EntityKept(r)'
  BY <1>2, <1>4 DEF EntityKept, Locked
<1>. QED
  BY <1>3, <1>4, <1>5, <1>6, KeepsInv DEF RequestInv

\* What compare and later steps know of the request's job and entity.
LEMMA InvUser ==
    ASSUME AuthInv, AuthTypeOK', UNCHANGED multiSession, NEW r \in Request,
           \/ Load(r) \/ LoadToMint(r) \/ LoadLocked(r) \/ LoadExpired(r)
           \/ RateLimited(r) \/ WrongPassword(r)
           \/ RightPassword(r) \/ RightPasswordAgain(r)
           \/ AdmitWithoutTokens(r) \/ Admit(r)
           \/ ResetPassword(r) \/ Edit(r) \/ VerifyAdmin(r)
    PROVE  AuthInv'
<1>1. AuthTypeOK /\ RequestInv(r)
  BY DEF AuthInv
<1>2. /\ row \in UserRow /\ copy[r] \in UserRow /\ day \in Nat /\ task[r] \in AuthJob
  BY <1>1, AuthAssumption DEF AuthTypeOK, AuthAssumption
<1>3. CASE Load(r)
  <2>1. /\ at[r] = "load" /\ at'[r] = Loaded(r)
        /\ \A q \in Request \ {r} : at'[q] = at[q]
    BY <1>1, <1>3, TypeGoes DEF Load, Loaded, AuthStep
  <2>2. OthersSame(r) /\ StaleSame(r)
    BY <1>1, <1>3, <2>1 DEF Load, KeepsSessions, OthersSame, StaleSame, AuthTypeOK
  <2>3. copy'[r] = row /\ UNCHANGED <<row, day, live, minter, task, next>>
    BY <1>1, <1>3 DEF Load, KeepsSessions, AuthTypeOK
  <2>4. next[r] = "idle"
    BY <1>1, <2>1 DEF RequestInv, JobOf
  <2>5. ChecksLock(r) => ~Locked(row)
    BY <1>2, <1>3 DEF Load, Locked
  <2>6. HasToken(r)' /\ JobOf(r)' /\ NoneMinted(r)'
    BY <2>1, <2>3, <2>4 DEF HasToken, JobOf, NoneMinted, Loaded
  <2>7. EntityKept(r)'
    BY <2>1, <2>3, <2>5 DEF EntityKept, Loaded, Locked, ChecksLock
  <2>. QED
    BY <2>2, <2>3, <2>6, <2>7, KeepsInv DEF RequestInv
<1>4. CASE LoadToMint(r) \/ RightPasswordAgain(r) \/ Admit(r) \/ VerifyAdmin(r)
  <2>1. \E from \in {"load", "compare", "admit", "otp"}, to \in {"admit", MintStep} :
            GoesWithout(r, from, to)
    BY <1>4 DEF LoadToMint, RightPasswordAgain, Admit, VerifyAdmin
  <2>. QED
    BY <2>1, InvGoesWithout
<1>5. CASE LoadLocked(r) \/ RateLimited(r) \/ AdmitWithoutTokens(r)
  <2>1. \E from : Refused(r, from)
    BY <1>5 DEF LoadLocked, RateLimited, AdmitWithoutTokens
  <2>. QED
    BY <2>1, InvAnswers DEF Refused
<1>6. CASE LoadExpired(r)
  <2>1. Cleared(row).password = row.password /\ Cleared(row).lockedUntil = 0
    BY <1>2, EntityColumns
  <2>2. Loaded(r) \in {"compare", "otp"} /\ (Loaded(r) = "compare" => task[r].op = "login")
    BY DEF Loaded
  <2>3. /\ Saves(r, "load", Cleared(row), Loaded(r)) /\ UNCHANGED stale
        /\ ~Locked(row)
    BY <1>6 DEF LoadExpired
  <2>. QED
    BY <2>1, <2>2, <2>3, InvSaves
<1>7. CASE WrongPassword(r) \/ RightPassword(r)
  <2>1. at[r] = "compare"
    BY <1>7 DEF WrongPassword, RightPassword, Compares
  <2>2. ChecksLock(r)
    BY <1>1, <2>1 DEF RequestInv, JobOf, ChecksLock
  <2>3. r \notin stale => copy[r] = row /\ ~Locked(row)
    BY <1>1, <2>1, <2>2 DEF RequestInv, EntityKept
  <2>4. Cleared(copy[r]).password = copy[r].password /\ Missed(copy[r]).password = copy[r].password
    BY <1>2, EntityColumns
  <2>5. /\ UNCHANGED stale
        /\ \/ Saves(r, "compare", Missed(copy[r]), "idle")
           \/ Saves(r, "compare", Cleared(copy[r]), "admit")
    BY <1>7 DEF WrongPassword, RightPassword
  <2>. QED
    BY <2>3, <2>4, <2>5, InvSaves
<1>8. CASE ResetPassword(r)
  <2>1. /\ at[r] = "otp" /\ task[r].op = "reset" /\ UNCHANGED stale
        /\ Saves(r, "otp", [copy[r] EXCEPT !.password = task[r].password], "revokeAll")
    BY <1>8 DEF ResetPassword, Saves, Goes
  <2>2. /\ [copy[r] EXCEPT !.password = task[r].password].password = task[r].password
        /\ [copy[r] EXCEPT !.password = task[r].password].lockedUntil = copy[r].lockedUntil
    BY <1>2, EntityColumns
  <2>3. r \notin stale => copy[r] = row
    BY <1>1, <2>1 DEF RequestInv, EntityKept
  <2>. QED
    BY <2>1, <2>2, <2>3, InvSaves
<1>9. CASE Edit(r)
  <2>1. at[r] = "otp" /\ UNCHANGED stale /\ Saves(r, "otp", copy[r], "idle")
    BY <1>9 DEF Edit, Saves, Goes
  <2>2. r \notin stale => copy[r] = row
    BY <1>1, <2>1 DEF RequestInv, EntityKept
  <2>. QED
    BY <2>1, <2>2, InvSaves
<1>. QED
  BY <1>3, <1>4, <1>5, <1>6, <1>7, <1>8, <1>9

-----------------------------------------------------------------------------
(* The two statements of a save.                                           *)

LEMMA InvSaveSelect ==
    ASSUME AuthInv, AuthTypeOK', UNCHANGED multiSession, NEW r \in Request, SaveSelect(r)
    PROVE  AuthInv'
<1>1. AuthTypeOK /\ RequestInv(r)
  BY DEF AuthInv
<1>2. /\ at[r] = "select" /\ at'[r] = "update"
      /\ \A q \in Request \ {r} : at'[q] = at[q]
  BY <1>1, TypeGoes DEF SaveSelect, AuthStep
<1>3. OthersSame(r) /\ StaleSame(r)
  BY <1>1, <1>2 DEF SaveSelect, KeepsSessions, OthersSame, StaleSame, AuthTypeOK
<1>4. /\ changed'[r] = {c \in Column : copy[r][c] # row[c]}
      /\ UNCHANGED <<row, task, next, copy, stale, day, live, minter>>
  BY <1>1 DEF SaveSelect, KeepsSessions, AuthTypeOK
<1>5. HasToken(r)' /\ JobOf(r)' /\ NoneMinted(r)'
  BY <1>1, <1>2, <1>4 DEF RequestInv, HasToken, JobOf, NoneMinted
<1>6. EntityKept(r)'
  BY <1>1, <1>2, <1>4 DEF RequestInv, EntityKept, Locked
<1>. QED
  BY <1>3, <1>4, <1>5, <1>6, KeepsInv DEF RequestInv

\* The second statement makes the row what the request holds, unless another has
\* written the row since.
LEMMA FreshUpdate ==
    ASSUME AuthInv, NEW r \in Request, SaveUpdate(r), r \notin stale
    PROVE  /\ row' = copy[r]
           /\ \/ row'.password = row.password
              \/ task[r].op = "reset" /\ row'.password = task[r].password
           /\ Locked(row) => row'.lockedUntil = row.lockedUntil
           /\ next[r] \in {"compare", "otp"} => row'.lockedUntil = 0
<1>1. at[r] = "update" /\ row' = Updated(r)
  BY DEF SaveUpdate, Goes
<1>2. /\ copy[r] \in UserRow /\ row \in UserRow /\ EntityKept(r)
  BY DEF AuthInv, AuthTypeOK, RequestInv
<1>3. row' = copy[r]
  BY <1>1, <1>2, UpdatedRow DEF EntityKept
<1>. QED
  BY <1>1, <1>2, <1>3 DEF EntityKept

LEMMA InvSaveUpdate ==
    ASSUME AuthInv, AuthTypeOK', UNCHANGED multiSession, NEW r \in Request, SaveUpdate(r)
    PROVE  AuthInv'
<1>1. AuthTypeOK /\ RequestInv(r) /\ \A q \in Request : RequestInv(q)
  BY DEF AuthInv
<1>2. /\ at[r] = "update" /\ at'[r] = next[r]
      /\ next[r] \in {"idle", "compare", "admit", "otp", "revokeAll"}
      /\ \A q \in Request \ {r} : at'[q] = at[q]
  <2>1. next[r] \in {"idle", "compare", "admit", "otp", "revokeAll"}
    BY <1>1 DEF AuthTypeOK
  <2>. QED
    BY <1>1, <2>1, TypeGoes DEF SaveUpdate, AuthStep
<1>3. OthersSame(r)
  BY <1>1, <1>2 DEF SaveUpdate, KeepsSessions, OthersSame, AuthTypeOK
<1>4. /\ next'[r] = "idle" /\ UNCHANGED <<day, live, minter>>
  BY <1>1 DEF SaveUpdate, KeepsSessions, AuthTypeOK
<1>5. RequestInv(r)'
  <2>1. CASE next[r] \notin {"compare", "otp"}
    BY <1>2, <1>4, <2>1, AtEase
  <2>2. CASE next[r] \in {"compare", "otp"}
    <3>1. /\ task'[r] = task[r] /\ copy'[r] = copy[r] /\ (r \in stale => r \in stale')
      BY <1>1, <2>2 DEF SaveUpdate, AuthTypeOK
    <3>2. HasToken(r)' /\ JobOf(r)' /\ NoneMinted(r)'
      BY <1>1, <1>2, <1>4, <2>2, <3>1 DEF RequestInv, HasToken, JobOf, NoneMinted
    <3>3. r \notin stale => row' = copy[r] /\ row'.lockedUntil = 0
      BY <2>2, FreshUpdate
    <3>4. r \notin stale => ~Locked(row)'
      BY <1>1, <1>4, <3>3, AuthAssumption DEF Locked, AuthTypeOK, AuthAssumption
    <3>5. EntityKept(r)'
      BY <1>2, <2>2, <3>1, <3>3, <3>4 DEF EntityKept
    <3>. QED
      BY <3>2, <3>5 DEF RequestInv
  <2>. QED
    BY <2>1, <2>2
<1>6. ASSUME NEW q \in Request \ {r} PROVE RequestInv(q)'
  <2>1. RequestInv(q)
    BY <1>1
  <2>2. /\ at'[q] = at[q] /\ next'[q] = next[q] /\ task'[q] = task[q]
        /\ copy'[q] = copy[q] /\ changed'[q] = changed[q] /\ mine'[q] = mine[q]
    BY <1>3 DEF OthersSame
  <2>3. HasToken(q)' /\ JobOf(q)' /\ NoneMinted(q)'
    BY <1>4, <2>1, <2>2 DEF RequestInv, HasToken, JobOf, NoneMinted, Mints
  <2>4. CASE row' = row
    <3>1. q \in stale' <=> q \in stale
      BY <2>4 DEF SaveUpdate
    <3>2. EntityKept(q)'
      BY <1>4, <2>1, <2>2, <2>4, <3>1 DEF RequestInv, EntityKept, ChecksLock, Locked
    <3>. QED
      BY <2>3, <3>2 DEF RequestInv
  <2>5. CASE row' # row
    <3>1. at[q] \in {"compare", "otp", "select", "update"} => q \in stale'
      BY <2>5 DEF SaveUpdate, Holders
    <3>2. EntityKept(q)'
      BY <2>2, <3>1 DEF EntityKept
    <3>. QED
      BY <2>3, <3>2 DEF RequestInv
  <2>. QED
    BY <2>4, <2>5
<1>7. OneSessionPerRequestAtOnce'
  BY <1>4 DEF AuthInv, OneSessionPerRequestAtOnce
<1>. QED
  BY <1>5, <1>6, <1>7 DEF AuthInv

-----------------------------------------------------------------------------
(* Refresh tokens and the session record.                                  *)

\* A step that neither inserts nor revokes a token.
LEMMA InvTokenless ==
    ASSUME AuthInv, AuthTypeOK', UNCHANGED multiSession, NEW r \in Request,
           \/ FindToken(r) \/ TokenRefused(r) \/ ReadSession(r) \/ DropFromSession(r)
           \/ DropSession(r) \/ WriteSession(r)
    PROVE  AuthInv'
<1>1. AuthTypeOK /\ RequestInv(r)
  BY DEF AuthInv
<1>2. CASE TokenRefused(r)
  BY <1>2, InvAnswers DEF TokenRefused, Refused
<1>3. CASE WriteSession(r)
  <2>1. Answers(r, "writeSession") /\ UNCHANGED <<row, live, day, minter>>
    BY <1>3 DEF WriteSession
  <2>. QED
    BY <2>1, InvAnswers
<1>4. CASE DropSession(r) /\ ~Mints(r)
  <2>1. Answers(r, "dropSession") /\ UNCHANGED <<row, live, day, minter>>
    BY <1>4 DEF DropSession
  <2>. QED
    BY <2>1, InvAnswers
<1>5. CASE FindToken(r) \/ ReadSession(r) \/ DropFromSession(r) \/ (DropSession(r) /\ Mints(r))
  <2>1. /\ UNCHANGED <<live, minter>> /\ KeepsUser
        /\ \A q \in Request \ {r} : mine'[q] = mine[q]
    BY <1>1, <1>5 DEF FindToken, ReadSession, DropFromSession, DropSession, AuthTypeOK
  <2>2. \/ at[r] = "find" /\ at'[r] = "revoke"
        \/ at[r] = "readDrop" /\ at'[r] = "writeDrop"
        \/ at[r] = "readSession" /\ at'[r] = "writeSession" /\ mine'[r] = mine[r]
        \/ at[r] = "writeDrop" /\ at'[r] = "load"
        \/ at[r] = "dropSession" /\ at'[r] = "insert" /\ Mints(r)
    BY <1>1, <1>5
       DEF FindToken, ReadSession, DropFromSession, DropSession, Goes, AuthTypeOK
  <2>3. \A q \in Request \ {r} : at'[q] = at[q]
    BY <1>1, <1>5
       DEF FindToken, ReadSession, DropFromSession, DropSession, Goes, AuthTypeOK
  <2>4. OthersSame(r) /\ StaleSame(r) /\ UNCHANGED <<row, day, task, next>>
    BY <2>1, <2>3 DEF KeepsUser, OthersSame, StaleSame
  <2>5. next[r] = "idle"
    BY <1>1, <2>2 DEF RequestInv, JobOf
  <2>6. HasToken(r)' /\ JobOf(r)' /\ EntityKept(r)' /\ NoneMinted(r)'
    BY <1>1, <2>1, <2>2, <2>4, <2>5
       DEF RequestInv, HasToken, JobOf, EntityKept, NoneMinted, Mints
  <2>. QED
    BY <2>1, <2>4, <2>6, KeepsInv DEF RequestInv
<1>. QED
  BY <1>2, <1>3, <1>4, <1>5

\* A step that changes which tokens are live gives tokens to its request only.
LEMMA InvTokens ==
    ASSUME AuthInv, AuthTypeOK', UNCHANGED multiSession, NEW r \in Request,
           RevokePresented(r) \/ RevokeAll(r) \/ InsertToken(r)
    PROVE  AuthInv'
<1>1. /\ AuthTypeOK /\ RequestInv(r) /\ OneSessionPerRequestAtOnce
      /\ \A q \in Request : RequestInv(q)
  BY DEF AuthInv
<1>2. KeepsUser /\ UNCHANGED held
  BY DEF RevokePresented, RevokeAll, InsertToken
<1>3. /\ \/ at[r] = "revoke" /\ at'[r] = "readDrop"
         \/ at[r] = "revokeAll" /\ at'[r] = "dropSession"
         \/ at[r] = "insert" /\ at'[r] = "readSession"
      /\ \A q \in Request \ {r} : at'[q] = at[q]
  BY <1>1 DEF RevokePresented, RevokeAll, InsertToken, Goes, AuthTypeOK
<1>4. \A q \in Request \ {r} : mine'[q] = mine[q]
  BY <1>1 DEF RevokePresented, RevokeAll, InsertToken, AuthTypeOK
<1>5. OthersSame(r) /\ StaleSame(r) /\ UNCHANGED <<row, day, task, next>>
  BY <1>2, <1>3, <1>4 DEF KeepsUser, OthersSame, StaleSame
<1>6. next[r] = "idle"
  BY <1>1, <1>3 DEF RequestInv, JobOf
<1>7. CASE RevokePresented(r)
  <2>1. /\ live' = live \ {mine[r]}
        /\ \A t \in live' : minter'[t] = minter[t]
    BY <1>1, <1>7 DEF RevokePresented, AuthTypeOK
  <2>2. \A q \in Request \ {r} : RequestInv(q)'
    BY <1>1, <1>5, <2>1, OthersKept
  <2>3. at'[r] = "readDrop"
    BY <1>1, <1>7, TypeGoes DEF RevokePresented, AuthStep
  <2>4. RequestInv(r)'
    BY <1>5, <1>6, <2>3, AtEase
  <2>5. OneSessionPerRequestAtOnce'
    BY <1>1, <2>1 DEF OneSessionPerRequestAtOnce
  <2>. QED
    BY <2>2, <2>4, <2>5 DEF AuthInv
<1>8. CASE RevokeAll(r)
  <2>1. live' = {} /\ at'[r] = "dropSession"
    BY <1>1, <1>8, TypeGoes DEF RevokeAll, AuthStep
  <2>2. \A q \in Request \ {r} : RequestInv(q)'
    BY <1>1, <1>5, <2>1, OthersKept
  <2>3. HasToken(r)' /\ JobOf(r)' /\ EntityKept(r)' /\ NoneMinted(r)'
    BY <1>5, <1>6, <2>1 DEF HasToken, JobOf, EntityKept, NoneMinted
  <2>4. OneSessionPerRequestAtOnce'
    BY <2>1 DEF OneSessionPerRequestAtOnce
  <2>. QED
    BY <2>2, <2>3, <2>4 DEF AuthInv, RequestInv
<1>9. CASE InsertToken(r)
  <2>1. PICK t \in Token : /\ t \notin live /\ live' = live \union {t}
                          /\ mine' = [mine EXCEPT ![r] = t]
                          /\ minter' = [minter EXCEPT ![t] = r]
    BY <1>9 DEF InsertToken, Unused
  <2>2. /\ mine'[r] = t /\ minter'[t] = r
        /\ \A u \in live : u # t /\ minter'[u] = minter[u]
    BY <1>1, <2>1 DEF AuthTypeOK
  <2>3. at[r] = "insert" /\ at'[r] = "readSession"
    BY <1>1, <1>9, TypeGoes DEF InsertToken, AuthStep
  <2>4. \A q \in Request \ {r}, u \in live' : minter'[u] = q => u \in live /\ minter[u] = q
    BY <2>1, <2>2
  <2>5. \A q \in Request \ {r} : RequestInv(q)'
    BY <1>1, <1>5, <2>4, OthersKept
  <2>6. HasToken(r)' /\ JobOf(r)' /\ EntityKept(r)' /\ NoneMinted(r)'
    BY <1>5, <1>6, <2>1, <2>2, <2>3 DEF HasToken, JobOf, EntityKept, NoneMinted
  <2>7. OneSessionPerRequestAtOnce'
    <3>1. ~multiSession => \A u \in live : minter[u] # r
      BY <1>1, <2>3 DEF RequestInv, NoneMinted
    <3>. QED
      BY <1>1, <2>1, <2>2, <3>1 DEF OneSessionPerRequestAtOnce
  <2>. QED
    BY <2>5, <2>6, <2>7 DEF AuthInv, RequestInv
<1>. QED
  BY <1>7, <1>8, <1>9

-----------------------------------------------------------------------------
(* Requests come and go, and time passes.                                  *)

LEMMA InvRequests ==
    ASSUME AuthInv, AuthTypeOK', UNCHANGED multiSession,
           NextDay \/ \E r \in Request : Arrive(r) \/ Fails(r)
    PROVE  AuthInv'
<1>1. AuthTypeOK /\ \A q \in Request : RequestInv(q)
  BY DEF AuthInv
<1>2. CASE NextDay
  <2>1. /\ UNCHANGED <<row, live, task, at, next, copy, changed, mine, minter, stale>>
        /\ day' = day + 1
    BY <1>2 DEF NextDay
  <2>2. Locked(row)' => Locked(row)
    BY <1>1, <2>1, AuthAssumption DEF Locked, AuthTypeOK, UserRow, AuthAssumption
  <2>3. ASSUME NEW q \in Request PROVE RequestInv(q)'
    <3>1. HasToken(q)' /\ JobOf(q)' /\ NoneMinted(q)'
      BY <1>1, <2>1 DEF RequestInv, HasToken, JobOf, NoneMinted, Mints
    <3>2. EntityKept(q)'
      BY <1>1, <2>1, <2>2 DEF RequestInv, EntityKept, ChecksLock
    <3>. QED
      BY <3>1, <3>2 DEF RequestInv
  <2>. QED
    BY <2>1, <2>3 DEF AuthInv, OneSessionPerRequestAtOnce
<1>3. ASSUME NEW r \in Request, Arrive(r) PROVE AuthInv'
  <2>1. PICK j \in AuthOffered :
            Goes(r, "idle", FirstStep(j.op)) /\ task' = [task EXCEPT ![r] = j]
    BY <1>3 DEF Arrive
  <2>2. FirstStep(j.op) \in {"revokeAll", "find", "load"}
    BY DEF FirstStep
  <2>3. /\ at[r] = "idle" /\ at'[r] = FirstStep(j.op)
        /\ \A q \in Request \ {r} : at'[q] = at[q]
    BY <1>1, <2>1, <2>2, TypeGoes DEF AuthStep
  <2>4. UNCHANGED <<row, live, day, next, copy, changed, mine, minter, stale>>
    BY <1>3 DEF Arrive
  <2>5. OthersSame(r) /\ StaleSame(r)
    BY <1>1, <2>1, <2>3, <2>4 DEF OthersSame, StaleSame, AuthTypeOK
  <2>6. next'[r] = "idle"
    BY <1>1, <2>3, <2>4 DEF RequestInv, JobOf
  <2>7. RequestInv(r)'
    BY <2>2, <2>3, <2>6, AtEase
  <2>. QED
    BY <2>4, <2>5, <2>7, KeepsInv
<1>4. ASSUME NEW r \in Request, Fails(r) PROVE AuthInv'
  <2>1. Answers(r, at[r]) /\ UNCHANGED <<row, live, day, minter>>
    BY <1>4 DEF Fails, Answers, Goes
  <2>. QED
    BY <2>1, InvAnswers
<1>. QED
  BY <1>2, <1>3, <1>4

-----------------------------------------------------------------------------
LEMMA AuthInvInit == AuthInit => AuthInv
<1> SUFFICES ASSUME AuthInit PROVE AuthInv
  OBVIOUS
<1>1. \A r \in Request : at[r] = "idle" /\ next[r] = "idle"
  BY DEF AuthInit
<1>2. \A r \in Request : RequestInv(r)
  BY <1>1 DEF RequestInv, HasToken, JobOf, EntityKept, NoneMinted
<1>3. OneSessionPerRequestAtOnce
  BY DEF AuthInit, OneSessionPerRequestAtOnce
<1>. QED
  BY <1>2, <1>3, TypeInit DEF AuthInv

LEMMA AuthInvNext == AuthInv /\ [AuthNext]_authVars => AuthInv'
<1> SUFFICES ASSUME AuthInv, [AuthNext]_authVars PROVE AuthInv'
  OBVIOUS
<1>0. AuthTypeOK /\ \A r \in Request : HasToken(r)
  BY DEF AuthInv, RequestInv
<1>1. CASE AuthNext /\ (NextDay \/ \E r \in Request : Arrive(r) \/ Fails(r))
  <2>1. UNCHANGED multiSession
    BY <1>1 DEF AuthNext
  <2>. QED
    BY <1>0, <1>1, <2>1, TypeRequests, InvRequests
<1>2. ASSUME NEW r \in Request, AuthHandler(r), UNCHANGED multiSession PROVE AuthInv'
  <2>1. CASE \/ Load(r) \/ LoadToMint(r) \/ LoadLocked(r) \/ LoadExpired(r)
             \/ RateLimited(r) \/ WrongPassword(r)
             \/ RightPassword(r) \/ RightPasswordAgain(r)
             \/ AdmitWithoutTokens(r) \/ Admit(r)
             \/ ResetPassword(r) \/ Edit(r) \/ VerifyAdmin(r)
    <3>1. AuthTypeOK'
      BY <1>0, <1>2, <2>1, TypeUser
    <3>. QED
      BY <1>2, <2>1, <3>1, InvUser
  <2>2. CASE SaveSelect(r)
    BY <1>0, <1>2, <2>2, TypeUser, InvSaveSelect
  <2>3. CASE SaveUpdate(r)
    BY <1>0, <1>2, <2>3, TypeUser, InvSaveUpdate
  <2>4. CASE \/ FindToken(r) \/ TokenRefused(r) \/ ReadSession(r) \/ DropFromSession(r)
             \/ DropSession(r) \/ WriteSession(r)
    <3>1. AuthTypeOK'
      BY <1>0, <1>2, <2>4, TypeTokens
    <3>. QED
      BY <1>2, <2>4, <3>1, InvTokenless
  <2>5. CASE RevokePresented(r) \/ RevokeAll(r) \/ InsertToken(r)
    <3>1. AuthTypeOK'
      BY <1>0, <1>2, <2>5, TypeTokens
    <3>. QED
      BY <1>2, <2>5, <3>1, InvTokens
  <2>. QED
    BY <1>2, <2>1, <2>2, <2>3, <2>4, <2>5 DEF AuthHandler
<1>3. CASE UNCHANGED authVars
  <2>1. UNCHANGED <<multiSession, row, tokenVars, day, task, at, next, copy,
                    changed, mine, held, minter, stale, disturbed>>
    BY <1>3 DEF authVars
  <2>2. AuthTypeOK' /\ OneSessionPerRequestAtOnce'
    BY <2>1 DEF AuthInv, AuthTypeOK, OneSessionPerRequestAtOnce
  <2>3. ASSUME NEW q \in Request PROVE RequestInv(q)'
    <3>1. HasToken(q)' /\ JobOf(q)' /\ EntityKept(q)' /\ NoneMinted(q)'
      BY <2>1 DEF AuthInv, RequestInv, HasToken, JobOf, EntityKept, NoneMinted,
                  Mints, ChecksLock, Locked
    <3>. QED
      BY <3>1 DEF RequestInv
  <2>. QED
    BY <2>2, <2>3 DEF AuthInv
<1>. QED
  BY <1>1, <1>2, <1>3 DEF AuthNext

LEMMA AuthInvariant == AuthSpec => []AuthInv
  BY AuthInvInit, AuthInvNext, PTL DEF AuthSpec

-----------------------------------------------------------------------------
\* Every reachable state has the types that the entities and records declare.
THEOREM AuthTypeCorrect == AuthSpec => []AuthTypeOK
<1>1. AuthInv => AuthTypeOK
  BY DEF AuthInv
<1>. QED
  BY <1>1, AuthInvariant, PTL

\* Without ALLOW_MULTI_SESSION no request leaves two live refresh tokens, however
\* many requests overlap or fail half-way.
THEOREM OneSessionEach == AuthSpec => []OneSessionPerRequestAtOnce
<1>1. AuthInv => OneSessionPerRequestAtOnce
  BY DEF AuthInv
<1>. QED
  BY <1>1, AuthInvariant, PTL

\* Only the second statement of a save writes the row.
LEMMA RowChangedBySave ==
    ASSUME [AuthNext]_authVars, row' # row
    PROVE  \E r \in Request : SaveUpdate(r)
<1>1. AuthNext
  BY DEF authVars
<1>2. ~NextDay /\ \A r \in Request : ~Arrive(r) /\ ~Fails(r)
  BY DEF NextDay, Arrive, Fails
<1>3. PICK r \in Request : AuthHandler(r)
  BY <1>1, <1>2 DEF AuthNext
<1>4. ~(\/ Load(r) \/ LoadToMint(r) \/ LoadLocked(r) \/ LoadExpired(r)
        \/ RateLimited(r) \/ WrongPassword(r)
        \/ RightPassword(r) \/ RightPasswordAgain(r)
        \/ AdmitWithoutTokens(r) \/ Admit(r)
        \/ ResetPassword(r) \/ Edit(r) \/ VerifyAdmin(r) \/ SaveSelect(r))
  BY DEF Load, LoadToMint, LoadLocked, LoadExpired, RateLimited, WrongPassword,
         RightPassword, RightPasswordAgain, AdmitWithoutTokens, Admit, ResetPassword,
         Edit, VerifyAdmin, SaveSelect, Saves, GoesWithout, Refused
<1>5. ~(\/ FindToken(r) \/ TokenRefused(r) \/ RevokePresented(r)
        \/ ReadSession(r) \/ DropFromSession(r)
        \/ RevokeAll(r) \/ DropSession(r) \/ InsertToken(r) \/ WriteSession(r))
  BY DEF FindToken, TokenRefused, RevokePresented, ReadSession, DropFromSession,
         RevokeAll, DropSession, InsertToken, WriteSession, Refused, KeepsUser
<1>. QED
  BY <1>3, <1>4, <1>5 DEF AuthHandler

\* What the save of a row does to its step and to the clock.
LEMMA SaveEnds ==
    ASSUME AuthInv, NEW r \in Request, SaveUpdate(r)
    PROVE  at[r] = "update" /\ at'[r] # "update" /\ day' = day
<1>1. AuthTypeOK /\ next[r] \in {"idle", "compare", "admit", "otp", "revokeAll"}
  BY DEF AuthInv, AuthTypeOK
<1>. QED
  BY <1>1, TypeGoes DEF SaveUpdate, KeepsSessions, AuthStep

\* A lock that stands falls only to the save of an outdated entity: no login,
\* reset or edit that sees its own row lifts it, in any order of their statements.
THEOREM LockStands == AuthSpec => LockLiftedOnlyByStaleSave
<1> DEFINE Lifted == Locked(row) /\ row'.lockedUntil <= day' =>
               \/ day' # day
               \/ \E r \in stale : at[r] = "update" /\ at'[r] # "update"
<1>1. AuthInv /\ [AuthNext]_authVars => Lifted
  <2> SUFFICES ASSUME AuthInv, [AuthNext]_authVars, Locked(row),
                      row'.lockedUntil <= day', day' = day
               PROVE  \E r \in stale : at[r] = "update" /\ at'[r] # "update"
    OBVIOUS
  <2>1. row' # row
    BY DEF Locked, AuthInv, AuthTypeOK, UserRow
  <2>2. PICK r \in Request : SaveUpdate(r)
    BY <2>1, RowChangedBySave
  <2>3. CASE r \notin stale
    <3>1. row'.lockedUntil = row.lockedUntil
      BY <2>2, <2>3, FreshUpdate
    <3>. QED
      BY <3>1 DEF Locked, AuthInv, AuthTypeOK, UserRow
  <2>. QED
    BY <2>2, <2>3, SaveEnds
<1>. QED
  BY <1>1, AuthInvariant, PTL DEF AuthSpec, LockLiftedOnlyByStaleSave

\* A password changes only to what a reset was given, or under the save of an
\* outdated entity.
THEOREM PasswordStands == AuthSpec => PasswordChangedOnlyByResetOrStaleSave
<1> DEFINE Changed == row'.password # row.password =>
               \E r \in Request :
                   /\ at[r] = "update" /\ at'[r] # "update"
                   /\ \/ r \in stale
                      \/ task[r].op = "reset" /\ row'.password = task[r].password
<1>1. AuthInv /\ [AuthNext]_authVars => Changed
  <2> SUFFICES ASSUME AuthInv, [AuthNext]_authVars, row'.password # row.password
               PROVE  \E r \in Request :
                          /\ at[r] = "update" /\ at'[r] # "update"
                          /\ \/ r \in stale
                             \/ task[r].op = "reset" /\ row'.password = task[r].password
    OBVIOUS
  <2>1. PICK r \in Request : SaveUpdate(r)
    BY RowChangedBySave
  <2>. QED
    BY <2>1, FreshUpdate, SaveEnds
<1>. QED
  BY <1>1, AuthInvariant, PTL DEF AuthSpec, PasswordChangedOnlyByResetOrStaleSave
-----------------------------------------------------------------------------
(* Requests that do not overlap: the session record.                       *)

\* Where a request has nothing left to do to the record.
Quiet ==
    {"idle", "load", "compare", "admit", "otp", "select", "update", "find", "revoke",
     "revokeAll", "insert"}

\* A list of every token that a refresh would accept, and of none that is revoked.
Lists(tokens) == Accepted \subseteq tokens /\ tokens \subseteq live

\* What the record lacks elsewhere, a request knows that is alone at work.
SessionFollows(r) ==
    /\ at[r] \in Quiet => Lists(session)
    /\ at[r] = "readDrop" => Lists(session \ {mine[r]})
    /\ at[r] = "writeDrop" => Lists(held[r] \ {mine[r]}) /\ session \subseteq held[r]
    /\ at[r] = "dropSession" => live = {}
    /\ at[r] = "readSession" => Lists(session \union {mine[r]})
    /\ at[r] = "writeSession" => Lists(held[r] \union {mine[r]})

\* The record is there for as long as a refresh would accept a token it lists.
RecordOutlives ==
    /\ \A t \in Token : expires[t] <= day + TokenLife
    /\ \A t \in session : expires[t] <= sessionEnds

\* The inductive invariant, beside the first.
SessionInTurn ==
    /\ RecordOutlives
    /\ ~disturbed =>
           /\ \A q, r \in Busy : q = r
           /\ Busy = {} => Lists(session)
           /\ \A r \in Busy : SessionFollows(r)

\* The days that tokens and record expire.
LEMMA Expiries ==
    ASSUME AuthTypeOK
    PROVE  /\ day \in Nat /\ TokenLife \in Nat \ {0} /\ sessionEnds \in Nat
           /\ \A t \in Token : expires[t] \in Nat
           /\ session \subseteq Token /\ live \subseteq Token
<1>1. MaxDay \in Nat /\ TokenLife \in Nat \ {0}
  BY AuthAssumption DEF AuthAssumption
<1>. QED
  BY <1>1 DEF AuthTypeOK

\* A record that is written is given the longest time a token has.
LEMMA OutlivesSet ==
    ASSUME AuthTypeOK, RecordOutlives, UNCHANGED <<day, expires>>,
           NEW s \in SUBSET Token, SetSession(s)
    PROVE  RecordOutlives'
<1>1. CASE s = {}
  BY <1>1 DEF SetSession, RecordOutlives
<1>2. CASE s # {}
  BY <1>2 DEF SetSession, RecordOutlives
<1>. QED
  BY <1>1, <1>2

\* Other steps leave the record and the clock alone, or shorten them.
LEMMA OutlivesSame ==
    ASSUME RecordOutlives, UNCHANGED <<day, session, sessionEnds, expires>>
    PROVE  RecordOutlives'
  BY DEF RecordOutlives

\* A step of the request at work.
LEMMA TurnTaken ==
    ASSUME SessionInTurn, RecordOutlives', NEW r \in Request, at[r] # "idle",
           UNCHANGED disturbed,
           \A q \in Request \ {r} : at'[q] = at[q],
           ~disturbed /\ SessionFollows(r) => SessionFollows(r)'
    PROVE  SessionInTurn'
<1> SUFFICES ASSUME ~disturbed PROVE SessionInTurn'
  BY DEF SessionInTurn
<1>1. Busy = {r} /\ SessionFollows(r)
  BY DEF SessionInTurn, Busy
<1>2. Busy' \subseteq {r}
  BY <1>1 DEF Busy
<1>3. SessionFollows(r)'
  BY <1>1
<1>4. Busy' = {} => Lists(session)'
  BY <1>3 DEF Busy, SessionFollows, Quiet
<1>. QED
  BY <1>2, <1>3, <1>4 DEF SessionInTurn

\* The steps that leave the tokens and the record alone.
LEMMA QuietSteps ==
    ASSUME AuthInv, NEW r \in Request,
           \/ Load(r) \/ LoadToMint(r) \/ LoadLocked(r) \/ LoadExpired(r)
           \/ RateLimited(r) \/ WrongPassword(r)
           \/ RightPassword(r) \/ RightPasswordAgain(r)
           \/ AdmitWithoutTokens(r) \/ Admit(r)
           \/ ResetPassword(r) \/ Edit(r) \/ VerifyAdmin(r)
           \/ SaveSelect(r) \/ SaveUpdate(r) \/ FindToken(r) \/ TokenRefused(r)
    PROVE  /\ UNCHANGED <<tokenVars, day, disturbed>>
           /\ at[r] \in Quiet \ {"idle"} /\ at'[r] \in Quiet
           /\ \A q \in Request \ {r} : at'[q] = at[q]
<1>0. AuthTypeOK /\ next[r] \in {"idle", "compare", "admit", "otp", "revokeAll"}
  BY DEF AuthInv, AuthTypeOK
<1>1. MintStep \in {"insert", "revokeAll"} /\ Loaded(r) \in {"compare", "otp"}
  BY DEF MintStep, Loaded
<1>2. UNCHANGED <<tokenVars, day, disturbed>>
  <2>1. CASE \/ Load(r) \/ LoadToMint(r) \/ LoadExpired(r) \/ WrongPassword(r)
             \/ RightPassword(r) \/ RightPasswordAgain(r) \/ Admit(r)
             \/ ResetPassword(r) \/ Edit(r) \/ VerifyAdmin(r)
             \/ SaveSelect(r) \/ SaveUpdate(r)
    BY <2>1
    DEF Load, LoadToMint, LoadExpired, WrongPassword, RightPassword, RightPasswordAgain,
        Admit, ResetPassword, Edit, VerifyAdmin, SaveSelect, SaveUpdate, Saves, GoesWithout,
        KeepsSessions
  <2>2. CASE LoadLocked(r) \/ RateLimited(r) \/ AdmitWithoutTokens(r) \/ TokenRefused(r)
    BY <2>2 DEF LoadLocked, RateLimited, AdmitWithoutTokens, TokenRefused, Refused
  <2>3. CASE FindToken(r)
    BY <2>3 DEF FindToken, KeepsUser
  <2>. QED
    BY <2>1, <2>2, <2>3
<1>3. PICK from \in {"load", "compare", "admit", "otp", "select", "update", "find"} :
      \E to \in Quiet : Goes(r, from, to)
  <2>1. CASE Load(r) \/ LoadExpired(r) \/ LoadToMint(r) \/ LoadLocked(r)
    BY <1>1, <2>1
    DEF Load, LoadExpired, LoadToMint, LoadLocked, Saves, GoesWithout, Refused, Answers, Quiet
  <2>2. CASE \/ RateLimited(r) \/ WrongPassword(r) \/ RightPassword(r)
             \/ RightPasswordAgain(r)
    BY <2>2
    DEF RateLimited, WrongPassword, RightPassword, RightPasswordAgain, Saves, GoesWithout,
        Refused, Answers, Quiet
  <2>3. CASE \/ AdmitWithoutTokens(r) \/ Admit(r) \/ ResetPassword(r) \/ Edit(r)
             \/ VerifyAdmin(r)
    BY <1>1, <2>3
    DEF AdmitWithoutTokens, Admit, ResetPassword, Edit, VerifyAdmin, Saves, GoesWithout,
        Refused, Answers, Quiet
  <2>4. CASE SaveSelect(r)
    BY <2>4 DEF SaveSelect, Quiet
  <2>5. CASE SaveUpdate(r)
    BY <1>0, <2>5 DEF SaveUpdate, Quiet
  <2>6. CASE FindToken(r) \/ TokenRefused(r)
    BY <2>6 DEF FindToken, TokenRefused, Refused, Answers, Quiet
  <2>. QED
    BY <2>1, <2>2, <2>3, <2>4, <2>5, <2>6
<1>4. PICK to \in Quiet : Goes(r, from, to)
  BY <1>3
<1>5. at[r] = from /\ at'[r] = to /\ \A q \in Request \ {r} : at'[q] = at[q]
  BY <1>0, <1>4, TypeGoes DEF Quiet, AuthStep
<1>. QED
  BY <1>2, <1>5 DEF Quiet

\* Each step on the tokens and the record brings them together, or knows what is
\* missing.
LEMMA TurnTokens ==
    ASSUME AuthInv, SessionInTurn, NEW r \in Request,
           \/ RevokePresented(r) \/ ReadSession(r) \/ DropFromSession(r)
           \/ RevokeAll(r) \/ DropSession(r) \/ InsertToken(r) \/ WriteSession(r)
    PROVE  SessionInTurn'
<1>0. /\ AuthTypeOK
      /\ at \in [Request -> AuthStep] /\ mine \in [Request -> Token \union {NoToken}]
      /\ held \in [Request -> SUBSET Token]
  BY DEF AuthInv, AuthTypeOK
<1>. RecordOutlives
  BY DEF SessionInTurn
<1>1. CASE RevokePresented(r)
  <2>1. /\ at[r] = "revoke" /\ at'[r] = "readDrop"
        /\ \A q \in Request \ {r} : at'[q] = at[q]
        /\ live' = live \ {mine[r]} /\ expires' = [expires EXCEPT ![mine[r]] = 0]
        /\ UNCHANGED <<session, sessionEnds, day, mine, held, disturbed>>
    BY <1>0, <1>1, TypeGoes DEF RevokePresented, KeepsUser, AuthStep
  <2>2. \A t \in Token : expires'[t] = IF t = mine[r] THEN 0 ELSE expires[t]
    BY <1>0, <2>1 DEF AuthTypeOK
  <2>3. SessionFollows(r) => SessionFollows(r)'
    BY <1>0, <2>1, <2>2, Expiries DEF SessionFollows, Quiet, Lists, Accepted
  <2>4. RecordOutlives'
    BY <1>0, <2>1, <2>2, Expiries DEF RecordOutlives
  <2>. QED
    BY <2>1, <2>3, <2>4, TurnTaken
<1>2. CASE ReadSession(r)
  <2>1. /\ \/ at[r] = "readDrop" /\ at'[r] = "writeDrop"
           \/ at[r] = "readSession" /\ at'[r] = "writeSession"
        /\ \A q \in Request \ {r} : at'[q] = at[q]
        /\ held'[r] = session /\ UNCHANGED <<tokenVars, day, mine, disturbed>>
    BY <1>0, <1>2, TypeGoes DEF ReadSession, KeepsUser, AuthStep
  <2>2. SessionFollows(r) => SessionFollows(r)'
    BY <2>1 DEF SessionFollows, Quiet, Lists, Accepted
  <2>. QED
    BY <2>1, <2>2, OutlivesSame, TurnTaken
<1>3. CASE DropFromSession(r)
  <2>1. /\ at[r] = "writeDrop" /\ at'[r] = "load"
        /\ \A q \in Request \ {r} : at'[q] = at[q]
        /\ IF held[r] = {} THEN UNCHANGED <<session, sessionEnds>>
           ELSE SetSession(held[r] \ {mine[r]})
        /\ UNCHANGED <<live, expires, day, disturbed>>
    BY <1>0, <1>3, TypeGoes DEF DropFromSession, KeepsUser, AuthStep
  <2>2. session' = IF held[r] = {} THEN session ELSE held[r] \ {mine[r]}
    BY <2>1 DEF SetSession
  <2>3. SessionFollows(r) => SessionFollows(r)'
    BY <2>1, <2>2 DEF SessionFollows, Quiet, Lists, Accepted
  <2>4. RecordOutlives'
    <3>1. held[r] \ {mine[r]} \in SUBSET Token
      BY <1>0
    <3>. QED
      BY <1>0, <2>1, <3>1, OutlivesSame, OutlivesSet
  <2>. QED
    BY <2>1, <2>3, <2>4, TurnTaken
<1>4. CASE RevokeAll(r)
  <2>1. /\ at[r] = "revokeAll" /\ at'[r] = "dropSession"
        /\ \A q \in Request \ {r} : at'[q] = at[q]
        /\ live' = {} /\ expires' = [t \in Token |-> 0]
        /\ UNCHANGED <<session, sessionEnds, day, disturbed>>
    BY <1>0, <1>4, TypeGoes DEF RevokeAll, KeepsUser, AuthStep
  <2>2. SessionFollows(r)'
    BY <2>1 DEF SessionFollows, Quiet
  <2>3. RecordOutlives'
    BY <1>0, <2>1, Expiries DEF RecordOutlives
  <2>. QED
    BY <2>1, <2>2, <2>3, TurnTaken
<1>5. CASE DropSession(r)
  <2>1. /\ at[r] = "dropSession" /\ at'[r] \in {"insert", "idle"}
        /\ \A q \in Request \ {r} : at'[q] = at[q]
        /\ SetSession({}) /\ UNCHANGED <<live, expires, day, disturbed>>
    BY <1>0, <1>5, TypeGoes DEF DropSession, Answers, KeepsUser, AuthStep
  <2>2. session' = {}
    BY <2>1 DEF SetSession
  <2>3. SessionFollows(r) => SessionFollows(r)'
    BY <2>1, <2>2 DEF SessionFollows, Quiet, Lists, Accepted
  <2>4. RecordOutlives'
    BY <1>0, <2>1, OutlivesSet
  <2>. QED
    BY <2>1, <2>3, <2>4, TurnTaken
<1>6. CASE InsertToken(r)
  <2>1. PICK t \in Token : /\ live' = live \union {t}
                          /\ expires' = [expires EXCEPT ![t] = day + TokenLife]
                          /\ mine' = [mine EXCEPT ![r] = t]
                          /\ Goes(r, "insert", "readSession")
                          /\ t \notin session
                          /\ UNCHANGED <<session, sessionEnds, held>> /\ KeepsUser
    BY <1>6 DEF InsertToken, Unused
  <2>2. /\ at[r] = "insert" /\ at'[r] = "readSession" /\ mine'[r] = t
        /\ \A q \in Request \ {r} : at'[q] = at[q]
        /\ UNCHANGED <<session, sessionEnds, day, disturbed>>
    BY <1>0, <2>1, TypeGoes DEF KeepsUser, AuthStep
  <2>3. \A u \in Token : expires'[u] = IF u = t THEN day + TokenLife ELSE expires[u]
    BY <1>0, <2>1 DEF AuthTypeOK
  <2>4. SessionFollows(r) => SessionFollows(r)'
    BY <1>0, <2>1, <2>2, <2>3, Expiries DEF SessionFollows, Quiet, Lists, Accepted
  <2>5. RecordOutlives'
    BY <1>0, <2>1, <2>2, <2>3, Expiries DEF RecordOutlives
  <2>. QED
    BY <2>2, <2>4, <2>5, TurnTaken
<1>7. CASE WriteSession(r)
  <2>1. /\ at[r] = "writeSession" /\ at'[r] = "idle"
        /\ \A q \in Request \ {r} : at'[q] = at[q]
        /\ SetSession(held[r] \union {mine[r]})
        /\ UNCHANGED <<live, expires, day, disturbed>>
    BY <1>0, <1>7, TypeGoes DEF WriteSession, Answers, AuthStep
  <2>2. session' = held[r] \union {mine[r]}
    BY <2>1 DEF SetSession
  <2>3. SessionFollows(r) => SessionFollows(r)'
    BY <2>1, <2>2 DEF SessionFollows, Quiet, Lists, Accepted
  <2>4. RecordOutlives'
    <3>1. mine[r] \in Token
      BY <2>1 DEF AuthInv, RequestInv, HasToken
    <3>. QED
      BY <1>0, <2>1, <3>1, OutlivesSet
  <2>. QED
    BY <2>1, <2>3, <2>4, TurnTaken
<1>. QED
  BY <1>1, <1>2, <1>3, <1>4, <1>5, <1>6, <1>7

\* Time passes: tokens are no longer accepted, and the record goes when none that
\* it lists is.
LEMMA TurnDay ==
    ASSUME AuthInv, SessionInTurn, NextDay
    PROVE  SessionInTurn'
<1>0. AuthTypeOK /\ RecordOutlives
  BY DEF AuthInv, SessionInTurn
<1>1. /\ day' = day + 1
      /\ IF sessionEnds <= day' THEN session' = {} /\ sessionEnds' = 0
         ELSE UNCHANGED <<session, sessionEnds>>
      /\ UNCHANGED <<live, expires, at, mine, held, disturbed>>
  BY DEF NextDay
<1>2. Accepted' = {t \in Accepted : expires[t] > day'}
  BY <1>0, <1>1, Expiries DEF Accepted
<1>3. \A t \in Accepted' : t \in session => t \in session'
  BY <1>0, <1>1, <1>2, Expiries DEF Accepted, RecordOutlives
<1>4. session' \subseteq session
  BY <1>1
<1>5. RecordOutlives'
  BY <1>0, <1>1, Expiries DEF RecordOutlives
<1>6. Lists(session) => Lists(session)'
  BY <1>1, <1>2, <1>3, <1>4 DEF Lists
<1>7. ASSUME NEW r \in Request, SessionFollows(r) PROVE SessionFollows(r)'
  BY <1>1, <1>2, <1>3, <1>4, <1>6, <1>7 DEF SessionFollows, Lists
<1>. QED
  BY <1>1, <1>5, <1>6, <1>7 DEF SessionInTurn, Busy

LEMMA SessionInTurnInit == AuthInit => SessionInTurn
<1> SUFFICES ASSUME AuthInit PROVE SessionInTurn
  OBVIOUS
<1>1. RecordOutlives
  BY AuthAssumption DEF AuthInit, AuthAssumption, RecordOutlives
<1>. QED
  BY <1>1 DEF AuthInit, SessionInTurn, Busy, Lists, Accepted

LEMMA SessionInTurnNext ==
    ASSUME AuthInv, SessionInTurn, [AuthNext]_authVars
    PROVE  SessionInTurn'
<1>0. AuthTypeOK /\ RecordOutlives
  BY DEF AuthInv, SessionInTurn
<1>1. CASE UNCHANGED authVars
  BY <1>1 DEF SessionInTurn, RecordOutlives, SessionFollows, Lists, Accepted, Busy, authVars
<1>2. CASE NextDay
  BY <1>2, TurnDay
<1>3. ASSUME NEW r \in Request, Arrive(r) PROVE SessionInTurn'
  <2>1. PICK j \in AuthOffered : Goes(r, "idle", FirstStep(j.op))
    BY <1>3 DEF Arrive
  <2>2. FirstStep(j.op) \in {"revokeAll", "find", "load"}
    BY DEF FirstStep
  <2>3. at'[r] \in Quiet /\ \A q \in Request \ {r} : at'[q] = at[q]
    BY <1>0, <2>1, <2>2, TypeGoes DEF Quiet, AuthStep
  <2>4. disturbed' = (disturbed \/ Busy # {}) /\ UNCHANGED <<tokenVars, day>>
    BY <1>3 DEF Arrive
  <2>5. RecordOutlives'
    BY <1>0, <2>4, OutlivesSame
  <2> SUFFICES ASSUME ~disturbed' PROVE SessionInTurn'
    BY <2>5 DEF SessionInTurn
  <2>6. ~disturbed /\ Busy = {}
    BY <2>4
  <2>7. Lists(session)' /\ Busy' \subseteq {r}
    BY <2>3, <2>4, <2>6 DEF SessionInTurn, Busy, Lists, Accepted
  <2>8. SessionFollows(r)'
    BY <2>3, <2>7 DEF SessionFollows, Quiet
  <2>. QED
    BY <2>5, <2>7, <2>8 DEF SessionInTurn
<1>4. ASSUME NEW r \in Request, Fails(r) PROVE SessionInTurn'
  <2>1. disturbed' /\ UNCHANGED <<tokenVars, day>>
    BY <1>4 DEF Fails
  <2>. QED
    BY <1>0, <2>1, OutlivesSame DEF SessionInTurn
<1>5. ASSUME NEW r \in Request,
             \/ Load(r) \/ LoadToMint(r) \/ LoadLocked(r) \/ LoadExpired(r)
             \/ RateLimited(r) \/ WrongPassword(r)
             \/ RightPassword(r) \/ RightPasswordAgain(r)
             \/ AdmitWithoutTokens(r) \/ Admit(r)
             \/ ResetPassword(r) \/ Edit(r) \/ VerifyAdmin(r)
             \/ SaveSelect(r) \/ SaveUpdate(r) \/ FindToken(r) \/ TokenRefused(r)
      PROVE  SessionInTurn'
  <2>1. /\ UNCHANGED <<tokenVars, day, disturbed>>
        /\ at[r] \in Quiet \ {"idle"} /\ at'[r] \in Quiet
        /\ \A q \in Request \ {r} : at'[q] = at[q]
    BY <1>5, QuietSteps
  <2>2. SessionFollows(r) => SessionFollows(r)'
    BY <2>1 DEF SessionFollows, Quiet, Lists, Accepted
  <2>. QED
    BY <1>0, <2>1, <2>2, OutlivesSame, TurnTaken
<1>6. ASSUME NEW r \in Request,
             \/ RevokePresented(r) \/ ReadSession(r) \/ DropFromSession(r)
             \/ RevokeAll(r) \/ DropSession(r) \/ InsertToken(r) \/ WriteSession(r)
      PROVE  SessionInTurn'
  BY <1>6, TurnTokens
<1>. QED
  BY <1>1, <1>2, <1>3, <1>4, <1>5, <1>6 DEF AuthNext, AuthHandler

\* As long as no two requests of a user have overlapped and none has failed, the
\* session record lists whenever none is at work every token that a refresh would
\* accept, and none that is revoked, whatever has expired meanwhile.
THEOREM SessionAgrees == AuthSpec => []SessionAgreesInTurn
<1>1. SessionInTurn => SessionAgreesInTurn
  BY DEF SessionInTurn, SessionAgreesInTurn, Lists
<1>. QED
  BY <1>1, AuthInvariant, SessionInTurnInit, SessionInTurnNext, PTL DEF AuthSpec
=============================================================================
