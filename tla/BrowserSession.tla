---------------------------- MODULE BrowserSession ----------------------------
(***************************************************************************)
(* One tab of the frontend: the stored session and the axios interceptor   *)
(* that answers 401 by rotating the refresh token once and sending the     *)
(* requests again.  Requests, logins, logouts and page loads interleave.   *)
(*                                                                         *)
(* A request that waited in the queue of a refresh carries no _retry flag:  *)
(* refused again, it may be queued by every later refresh.  Nor has the    *)
(* call of a refresh a timeout.  So nothing is claimed about when a        *)
(* request ends, only that there is always somebody to end its wait.       *)
(*                                                                         *)
(* The two tokens are always written together and so are one value here.   *)
(* The backend may answer anything: a service that cannot reach            *)
(* auth-service says 401 to a valid token.                                 *)
(***************************************************************************)
EXTENDS Integers

CONSTANTS
    Fetch,    \* requests of the page at work at once
    User, NoUser,
    MaxPair   \* bound: token pairs handed out

ASSUME BrowserAssumption == NoUser \notin User /\ MaxPair \in Nat

Pair == 1..MaxPair
NoPair == 0

\* "get" stands for every call whose answer leaves the stored session alone,
\* "me" for those that store the user they return: the query of the signed-in
\* user and the edit of the profile. "boot" is the query of SessionBootstrap.
Kind == {"get", "me", "boot", "logout"}

VARIABLES
    shown,      \* the user in the store
    pair,       \* the tokens in the store
    owner,      \* whose each pair is; the pairs handed out are 1..handedOut
    handedOut,
    kind,
    fetch,      \* where each request stands
    bearer,     \* the tokens it was sent with
    retried,    \* its _retry flag
    isRefreshing,
    presented,  \* the tokens whose refresh is under way
    \* History variables: read by properties only.
    sent,       \* refresh tokens presented since the page was loaded
    crossed     \* a sign-in overtook an answer that would write the session

pageVars == <<shown, pair, owner, handedOut, kind, fetch, bearer, retried,
              isRefreshing, presented, sent, crossed>>

PageInit ==
    /\ shown = NoUser /\ pair = NoPair
    /\ owner = [p \in Pair |-> NoUser]
    /\ handedOut = 0
    /\ kind = [r \in Fetch |-> "get"]
    /\ fetch = [r \in Fetch |-> "idle"]
    /\ bearer = [r \in Fetch |-> NoPair]
    /\ retried = [r \in Fetch |-> FALSE]
    /\ isRefreshing = FALSE /\ presented = NoPair
    /\ sent = {} /\ crossed = FALSE

IsAuthenticated == shown # NoUser /\ pair # NoPair

Queue == {r \in Fetch : fetch[r] = "queued"}

\* Answers that will write the stored session: of which, whoever it is about.
Writing == {r \in Fetch : fetch[r] = "sent" /\ kind[r] \in {"me", "boot"}}

HandsOut(u) ==
    /\ handedOut < MaxPair
    /\ handedOut' = handedOut + 1
    /\ owner' = [owner EXCEPT ![handedOut + 1] = u]

-----------------------------------------------------------------------------
(* The user signs in and loads the page again.                             *)

\* Mutant: tokens that are there are kept, as the selected account is.
SignInWithOldTokens ==
    \E u \in User :
        /\ ~IsAuthenticated
        /\ HandsOut(u)
        /\ shown' = u /\ pair' = IF pair # NoPair THEN pair ELSE handedOut + 1
        /\ crossed' = (crossed \/ isRefreshing \/ Writing # {})
        /\ UNCHANGED <<kind, fetch, bearer, retried, isRefreshing, presented, sent>>

\* setAuth.
SignIn ==
    \E u \in User :
        /\ ~IsAuthenticated
        /\ HandsOut(u)
        /\ shown' = u /\ pair' = handedOut + 1
        /\ crossed' = (crossed \/ isRefreshing \/ Writing # {})
        /\ UNCHANGED <<kind, fetch, bearer, retried, isRefreshing, presented, sent>>

\* What the page held in memory is gone; the store is in sessionStorage.
PageGone ==
    /\ kind' = [r \in Fetch |-> "get"]
    /\ fetch' = [r \in Fetch |-> "idle"]
    /\ bearer' = [r \in Fetch |-> NoPair]
    /\ retried' = [r \in Fetch |-> FALSE]
    /\ isRefreshing' = FALSE /\ presented' = NoPair
    /\ sent' = {}

Reload ==
    /\ PageGone
    /\ UNCHANGED <<shown, pair, owner, handedOut, crossed>>

-----------------------------------------------------------------------------
(* Requests.                                                               *)

\* The request interceptor adds the access token of the moment.
Send(r) ==
    \E k \in Kind :
        /\ fetch[r] = "idle"
        /\ k = "boot" => pair # NoPair /\ shown = NoUser
        /\ k # "boot" => pair # NoPair
        /\ kind' = [kind EXCEPT ![r] = k]
        /\ fetch' = [fetch EXCEPT ![r] = "sent"]
        /\ bearer' = [bearer EXCEPT ![r] = pair]
        /\ UNCHANGED <<shown, pair, owner, handedOut, retried, isRefreshing,
                       presented, sent, crossed>>

\* The requests rs are over.
Settled(rs) ==
    /\ fetch' = [r \in Fetch |-> IF r \in rs THEN "idle" ELSE fetch[r]]
    /\ kind' = [r \in Fetch |-> IF r \in rs THEN "get" ELSE kind[r]]
    /\ bearer' = [r \in Fetch |-> IF r \in rs THEN NoPair ELSE bearer[r]]
    /\ retried' = [r \in Fetch |-> IF r \in rs THEN FALSE ELSE retried[r]]

ClearAuth == shown' = NoUser /\ pair' = NoPair

KeepsPage == UNCHANGED <<owner, handedOut, isRefreshing, presented, sent, crossed>>

Succeeds(r) ==
    /\ fetch[r] = "sent"
    /\ Settled({r})
    /\ CASE kind[r] = "get" -> UNCHANGED <<shown, pair>>
         [] kind[r] = "logout" -> ClearAuth
         [] OTHER -> shown' = owner[bearer[r]] /\ UNCHANGED pair
    /\ KeepsPage

\* An answer other than 401, a network error, or 15 seconds without an answer.
Fails(r) ==
    /\ fetch[r] = "sent"
    /\ Settled({r})
    /\ IF kind[r] = "logout" THEN ClearAuth ELSE UNCHANGED <<shown, pair>>
    /\ KeepsPage

ShouldRefresh(r) == pair # NoPair /\ ~retried[r]

\* The second 401 of a request, or one after the session was cleared.
Unauthorized(r) ==
    /\ fetch[r] = "sent" /\ ~ShouldRefresh(r)
    /\ Settled({r})
    /\ IF kind[r] \in {"boot", "logout"} THEN ClearAuth ELSE UNCHANGED <<shown, pair>>
    /\ KeepsPage

Enqueue(r) ==
    /\ fetch[r] = "sent" /\ ShouldRefresh(r) /\ isRefreshing
    /\ fetch' = [fetch EXCEPT ![r] = "queued"]
    /\ UNCHANGED <<shown, pair, owner, handedOut, kind, bearer, retried,
                   isRefreshing, presented, sent, crossed>>

\* Mutant: a refresh starts whether or not one is under way.
RefreshAnyway(r) ==
    /\ fetch[r] = "sent" /\ ShouldRefresh(r)
    /\ fetch' = [fetch EXCEPT ![r] = "refreshing"]
    /\ retried' = [retried EXCEPT ![r] = TRUE]
    /\ isRefreshing' = TRUE
    /\ presented' = pair
    /\ sent' = sent \union {pair}
    /\ UNCHANGED <<shown, pair, owner, handedOut, kind, bearer, crossed>>

\* requestRefreshToken, which has no timeout.
Refresh(r) ==
    /\ fetch[r] = "sent" /\ ShouldRefresh(r) /\ ~isRefreshing
    /\ fetch' = [fetch EXCEPT ![r] = "refreshing"]
    /\ retried' = [retried EXCEPT ![r] = TRUE]
    /\ isRefreshing' = TRUE
    /\ presented' = pair
    /\ sent' = sent \union {pair}
    /\ UNCHANGED <<shown, pair, owner, handedOut, kind, bearer, crossed>>

\* setTokens and processQueue: everyone sends again, with what is in the store now.
Rotated(r) ==
    LET again == Queue \union {r} IN
    /\ fetch[r] = "refreshing"
    /\ HandsOut(owner[presented])
    /\ pair' = handedOut + 1
    /\ fetch' = [q \in Fetch |-> IF q \in again THEN "sent" ELSE fetch[q]]
    /\ bearer' = [q \in Fetch |-> IF q \in again THEN handedOut + 1 ELSE bearer[q]]
    /\ isRefreshing' = FALSE /\ presented' = NoPair
    /\ UNCHANGED <<shown, kind, retried, sent, crossed>>

\* Mutant: a failed refresh forgets the queue.
QueueForgotten(r) ==
    /\ fetch[r] = "refreshing"
    /\ ClearAuth
    /\ UNCHANGED <<owner, handedOut, crossed>>
    /\ isRefreshing' = FALSE /\ presented' = NoPair
    /\ Settled({r})
    /\ UNCHANGED sent

\* processQueue(error), clearAuth, and redirectToLogin, which loads another
\* page unless the login page is the one that is shown.
NotRotated(r) ==
    /\ fetch[r] = "refreshing"
    /\ ClearAuth
    /\ UNCHANGED <<owner, handedOut, crossed>>
    /\ \/ PageGone
       \/ /\ isRefreshing' = FALSE /\ presented' = NoPair
          /\ Settled(Queue \union {r})
          /\ UNCHANGED sent

-----------------------------------------------------------------------------
Answered(r) == Succeeds(r) \/ Fails(r) \/ Unauthorized(r) \/ Enqueue(r) \/ Refresh(r)

RefreshEnds(r) == Rotated(r) \/ NotRotated(r)

PageNext ==
    \/ SignIn \/ Reload
    \/ \E r \in Fetch : Send(r) \/ Answered(r) \/ RefreshEnds(r)

PageSpec == PageInit /\ [][PageNext]_pageVars

-----------------------------------------------------------------------------
(* Properties.                                                             *)

PageTypeOK ==
    /\ shown \in User \union {NoUser}
    /\ pair \in Pair \union {NoPair}
    /\ owner \in [Pair -> User \union {NoUser}]
    /\ handedOut \in 0..MaxPair
    /\ kind \in [Fetch -> Kind]
    /\ fetch \in [Fetch -> {"idle", "sent", "queued", "refreshing"}]
    /\ bearer \in [Fetch -> Pair \union {NoPair}]
    /\ retried \in [Fetch -> BOOLEAN]
    /\ isRefreshing \in BOOLEAN
    /\ presented \in Pair \union {NoPair}
    /\ sent \subseteq Pair
    /\ crossed \in BOOLEAN

\* auth-service accepts a refresh token once and clears the session of a tab
\* that presents it again. Between two page loads a tab never does: not with
\* many requests refused at once, nor with logins, logouts and failed refreshes
\* between a refusal and its refresh.
RefreshTokenSentOnce ==
    [][\A r \in Fetch :
           fetch[r] = "sent" /\ fetch'[r] = "refreshing" => pair \notin sent]_pageVars

\* The tokens in the store are those of the user it shows. A sign-out that
\* overtakes a refresh is undone by its late answer, and does not break this;
\* only a sign-in that overtakes an answer about the former user does.
TokensOfUserShown ==
    ~crossed /\ IsAuthenticated => owner[pair] = shown

\* Whoever waits in the queue waits for a refresh that is under way and will send
\* or reject the whole queue when it ends: no request is left behind by one, nor
\* joins the queue of one that is over because the flag was not put back.
QueueAwaitsRefresh ==
    /\ Queue # {} => isRefreshing
    /\ isRefreshing => \E r \in Fetch : fetch[r] = "refreshing"
=============================================================================
