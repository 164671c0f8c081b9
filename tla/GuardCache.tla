------------------------------ MODULE GuardCache ------------------------------
(***************************************************************************)
(* RemoteAuthGuard, which the three services behind auth-service share:    *)
(* the record of a token's user is kept in Redis for a while, and asked of *)
(* auth-service when it is not there.  Meanwhile the user's roles are      *)
(* assigned and the profile is edited.  One access token of one user.      *)
(***************************************************************************)
EXTENDS Integers

CONSTANTS
    Check,      \* requests that pass the guard at once
    Record,     \* what auth-service may answer of the user: roles, email, phone
    FirstRecord,
    Ttl,        \* life of a cache entry (30 seconds), in ticks of the clock
    MaxCall,    \* bound: ticks a check may take from its cache miss to its store
    MaxTime     \* bound: the clock

ASSUME GuardAssumption ==
    /\ FirstRecord \in Record
    /\ Ttl \in Nat /\ MaxCall \in Nat /\ MaxTime \in Nat

VARIABLES
    now,
    record,     \* the user as auth-service's tables have it
    entry,      \* token_valid:<hash> in Redis: a record, when it goes, and whether it is there
    editing,    \* PATCH /me has saved the user and not yet dropped the entry
    checking,   \* where each check stands
    since,      \* when it missed the cache
    user,       \* the record it attaches to its request
    \* History variable: read by properties only.
    had         \* the records the user had at each time

guardVars == <<now, record, entry, editing, checking, since, user, had>>

Entry == [set : BOOLEAN, user : Record, until : 0..(MaxTime + Ttl)]
NoEntry == [set |-> FALSE, user |-> FirstRecord, until |-> 0]

GuardInit ==
    /\ now = 0
    /\ record = FirstRecord
    /\ entry = NoEntry
    /\ editing = FALSE
    /\ checking = [c \in Check |-> "idle"]
    /\ since = [c \in Check |-> 0]
    /\ user = [c \in Check |-> FirstRecord]
    /\ had = [t \in 0..MaxTime |-> IF t = 0 THEN {FirstRecord} ELSE {}]

-----------------------------------------------------------------------------
\* Redis drops the entry when its time has come.
Tick ==
    /\ now < MaxTime
    /\ \A c \in Check : checking[c] \in {"asking", "storing"} => now - since[c] < MaxCall
    /\ now' = now + 1
    /\ had' = [had EXCEPT ![now + 1] = {record}]
    /\ entry' = IF entry.until <= now + 1 THEN NoEntry ELSE entry
    /\ UNCHANGED <<record, editing, checking, since, user>>

Changes ==
    \E new \in Record \ {record} :
        /\ record' = new
        /\ had' = [had EXCEPT ![now] = @ \union {new}]

\* POST /auth/assign-role tells no one.
AssignRole ==
    /\ Changes
    /\ UNCHANGED <<now, entry, editing, checking, since, user>>

\* PATCH /auth/me, with the same token.
UpdateMe ==
    /\ ~editing
    /\ Changes
    /\ editing' = TRUE
    /\ UNCHANGED <<now, entry, checking, since, user>>

\* invalidateTokenValidationCache; the request may end without it.
Invalidate ==
    /\ editing
    /\ editing' = FALSE
    /\ entry' \in {entry, NoEntry}
    /\ UNCHANGED <<now, record, checking, since, user, had>>

StepCheck(c, from, to) == checking[c] = from /\ checking' = [checking EXCEPT ![c] = to]

\* Mutant: using an entry renews it.
RenewingHit(c) ==
    /\ entry.set
    /\ StepCheck(c, "idle", "passed")
    /\ user' = [user EXCEPT ![c] = entry.user]
    /\ entry' = [entry EXCEPT !.until = now + Ttl]
    /\ UNCHANGED <<now, record, editing, since, had>>

Hit(c) ==
    /\ entry.set
    /\ StepCheck(c, "idle", "passed")
    /\ user' = [user EXCEPT ![c] = entry.user]
    /\ UNCHANGED <<now, record, entry, editing, since, had>>

Miss(c) ==
    /\ ~entry.set
    /\ StepCheck(c, "idle", "asking")
    /\ since' = [since EXCEPT ![c] = now]
    /\ UNCHANGED <<now, record, entry, editing, user, had>>

\* GET /auth/validate reads the user.
Validate(c) ==
    /\ StepCheck(c, "asking", "storing")
    /\ user' = [user EXCEPT ![c] = record]
    /\ UNCHANGED <<now, record, entry, editing, since, had>>

\* Mutant: an entry lives longer than the cache says.
SetCacheLonger(c) ==
    /\ StepCheck(c, "storing", "passed")
    /\ entry' = [set |-> Ttl > 0, user |-> user[c], until |-> now + Ttl + 1]
    /\ UNCHANGED <<now, record, editing, since, user, had>>

SetCache(c) ==
    /\ StepCheck(c, "storing", "passed")
    /\ entry' = [set |-> Ttl > 0, user |-> user[c], until |-> now + Ttl]
    /\ UNCHANGED <<now, record, editing, since, user, had>>

\* The request is served, or refused since a call failed or the token is over.
Ends(c) ==
    /\ checking[c] # "idle"
    /\ checking' = [checking EXCEPT ![c] = "idle"]
    /\ user' = [user EXCEPT ![c] = FirstRecord]
    /\ since' = [since EXCEPT ![c] = 0]
    /\ UNCHANGED <<now, record, entry, editing, had>>

GuardNext ==
    \/ Tick \/ AssignRole \/ UpdateMe \/ Invalidate
    \/ \E c \in Check : Hit(c) \/ Miss(c) \/ Validate(c) \/ SetCache(c) \/ Ends(c)

GuardSpec == GuardInit /\ [][GuardNext]_guardVars

-----------------------------------------------------------------------------
(* Properties.                                                             *)

GuardTypeOK ==
    /\ now \in 0..MaxTime
    /\ record \in Record
    /\ entry \in Entry
    /\ editing \in BOOLEAN
    /\ checking \in [Check -> {"idle", "asking", "storing", "passed"}]
    /\ since \in [Check -> 0..MaxTime]
    /\ user \in [Check -> Record]
    /\ had \in [0..MaxTime -> SUBSET Record]

RecentRecords == UNION {had[t] : t \in {u \in 0..now : now - u <= Ttl + MaxCall}}

\* A request passes the guard with roles and contact data that the user had at
\* most one life of a cache entry and one validation call ago, however role
\* changes, profile edits, validations and stores fall. A validation made before
\* an edit and stored after its invalidation brings the old record back, for
\* that long.
RecordsAtMostStale ==
    [][\A c \in Check :
           checking'[c] = "passed" /\ checking[c] # "passed" =>
               user'[c] \in RecentRecords]_guardVars
=============================================================================
