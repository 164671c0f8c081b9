----------------------------- MODULE PortalProofs -----------------------------
(***************************************************************************)
(* Proofs about BrowserSession, for any requests, users and number of      *)
(* token pairs; about AccountApprovals, for any number of requests,        *)
(* accounts and calls under way; and about the composition of MCPortal,    *)
(* with KycReviewProofs.                                                   *)
(***************************************************************************)
EXTENDS MCPortal, KycReviewProofs, FiniteSetTheorems, TLAPS

-----------------------------------------------------------------------------
(* The browser session.                                                    *)

\* Whatever the tab holds was handed out before, and a request at work was
\* sent with tokens.
PairsHandedOut ==
    /\ pair \in 0..handedOut
    /\ presented \in 0..handedOut
    /\ sent \subseteq 1..handedOut
    /\ \A r \in Fetch : bearer[r] \in 0..handedOut
    /\ \A r \in Fetch : fetch[r] # "idle" => bearer[r] # NoPair

\* One request at most waits for a refresh, while isRefreshing is set, and the
\* tokens of the store are presented by no other.
OneRefresh ==
    /\ \A q, r \in Fetch : fetch[q] = "refreshing" /\ fetch[r] = "refreshing" => q = r
    /\ \A r \in Fetch : fetch[r] = "refreshing" => isRefreshing
    /\ isRefreshing <=> presented # NoPair
    /\ pair \in sent => isRefreshing

\* Everyone the session is about, or will be when the answers are in.
About ==
    {owner[bearer[r]] : r \in Writing}
        \union {owner[p] : p \in {pair, presented} \ {NoPair}}
        \union ({shown} \ {NoUser})

OneUser == ~crossed => \A u, v \in About : u = v

\* The inductive invariant.
PageInv == PageTypeOK /\ PairsHandedOut /\ OneRefresh /\ OneUser

-----------------------------------------------------------------------------
LEMMA PageInvInit == PageInit => PageInv
<1> SUFFICES ASSUME PageInit PROVE PageInv
  OBVIOUS
<1> USE BrowserAssumption DEF PageInit, Pair, NoPair, Kind
<1>1. PageTypeOK
  <2>1. /\ handedOut \in 0..MaxPair
        /\ fetch \in [Fetch -> {"idle", "sent", "queued", "refreshing"}]
        /\ kind \in [Fetch -> Kind]
    OBVIOUS
  <2>. QED
    BY <2>1 DEF PageTypeOK
<1>2. PairsHandedOut /\ OneRefresh
  BY DEF PairsHandedOut, OneRefresh
<1>3. OneUser
  BY DEF OneUser, About, Writing
<1>. QED
  BY <1>1, <1>2, <1>3 DEF PageInv

\* Whom the old pairs belong to does not change when a new one is handed out.
LEMMA HandedOut ==
    ASSUME PageTypeOK, NEW u \in User \union {NoUser}, HandsOut(u)
    PROVE  /\ handedOut + 1 \in Pair /\ handedOut \in Nat
           /\ handedOut' = handedOut + 1
           /\ owner' \in [Pair -> User \union {NoUser}]
           /\ owner'[handedOut + 1] = u
           /\ \A p \in 1..handedOut : owner'[p] = owner[p]
  BY BrowserAssumption DEF PageTypeOK, HandsOut, Pair

LEMMA InvSignIn == PageInv /\ SignIn => PageInv'
<1> SUFFICES ASSUME PageInv, NEW u \in User,
                    ~IsAuthenticated, HandsOut(u),
                    shown' = u, pair' = handedOut + 1,
                    crossed' = (crossed \/ isRefreshing \/ Writing # {}),
                    UNCHANGED <<kind, fetch, bearer, retried, isRefreshing, presented, sent>>
             PROVE  PageInv'
  BY DEF SignIn
<1>0. /\ handedOut + 1 \in Pair /\ handedOut \in Nat
      /\ handedOut' = handedOut + 1
      /\ owner' \in [Pair -> User \union {NoUser}]
      /\ owner'[handedOut + 1] = u
  BY HandedOut DEF PageInv
<1>1. PageTypeOK'
  BY <1>0, BrowserAssumption DEF PageInv, PageTypeOK, Pair
<1>2. PairsHandedOut'
  BY <1>0 DEF PageInv, PairsHandedOut, NoPair
<1>3. OneRefresh'
  BY <1>0 DEF PageInv, PairsHandedOut, OneRefresh
<1>4. ASSUME ~crossed' PROVE \A x \in About' : x = u
  <2>1. ~isRefreshing /\ Writing = {}
    BY <1>4
  <2>2. Writing' = {}
    BY <2>1 DEF Writing
  <2>. QED
    BY <1>0, <2>1, <2>2 DEF About, PageInv, OneRefresh, NoPair
<1>. QED
  BY <1>1, <1>2, <1>3, <1>4 DEF PageInv, OneUser

LEMMA InvReload == PageInv /\ Reload => PageInv'
<1> SUFFICES ASSUME PageInv, Reload PROVE PageInv'
  OBVIOUS
<1> USE DEF Reload, PageGone, PageInv
<1>1. PageTypeOK'
  BY DEF PageTypeOK, Kind, NoPair
<1>2. PairsHandedOut' /\ OneRefresh'
  BY DEF PageTypeOK, PairsHandedOut, OneRefresh, NoPair
<1>3. Writing' = {}
  BY DEF Writing
<1>4. About' \subseteq About
  BY <1>3 DEF About, NoPair
<1>. QED
  BY <1>1, <1>2, <1>4 DEF OneUser

\* A user outside About stays outside as long as nobody signs in.
LEMMA OneUserKept ==
    ASSUME OneUser, About' \subseteq About, crossed' = crossed
    PROVE  OneUser'
  BY DEF OneUser

-----------------------------------------------------------------------------
(* Requests.                                                               *)

LEMMA InvSend == ASSUME PageInv, NEW r \in Fetch, Send(r) PROVE PageInv'
<1> PICK k \in Kind :
        /\ fetch[r] = "idle" /\ pair # NoPair
        /\ kind' = [kind EXCEPT ![r] = k]
        /\ fetch' = [fetch EXCEPT ![r] = "sent"]
        /\ bearer' = [bearer EXCEPT ![r] = pair]
        /\ UNCHANGED <<shown, pair, owner, handedOut, retried, isRefreshing,
                       presented, sent, crossed>>
  BY DEF Send
<1>1. PageTypeOK'
  BY DEF PageInv, PageTypeOK
<1>2. PairsHandedOut'
  BY DEF PageInv, PageTypeOK, PairsHandedOut
<1>3. OneRefresh'
  BY DEF PageInv, PageTypeOK, OneRefresh
<1>4. About' \subseteq About
  BY DEF PageInv, PageTypeOK, About, Writing
<1>. QED
  BY <1>1, <1>2, <1>3, <1>4, OneUserKept DEF PageInv

\* Requests that are over, while nothing else but the store changes.
LEMMA InvSettled ==
    ASSUME PageInv, NEW rs \in SUBSET Fetch, Settled(rs), KeepsPage,
           \A r \in rs : fetch[r] = "sent",
           \/ UNCHANGED <<shown, pair>>
           \/ ClearAuth
           \/ pair' = pair /\ \E r \in rs \intersect Writing : shown' = owner[bearer[r]]
    PROVE  PageInv'
<1> USE DEF PageInv, Settled, KeepsPage, ClearAuth
<1>1. PageTypeOK'
  <2>1. shown' \in User \union {NoUser} /\ pair' \in Pair \union {NoPair}
    BY DEF PageTypeOK, PairsHandedOut, Writing
  <2>2. /\ fetch' \in [Fetch -> {"idle", "sent", "queued", "refreshing"}]
        /\ kind' \in [Fetch -> Kind]
        /\ bearer' \in [Fetch -> Pair \union {NoPair}]
        /\ retried' \in [Fetch -> BOOLEAN]
    BY DEF PageTypeOK, Kind
  <2>. QED
    BY <2>1, <2>2 DEF PageTypeOK
<1>2. PairsHandedOut' /\ OneRefresh'
  BY DEF PageTypeOK, PairsHandedOut, OneRefresh, NoPair
<1>3. Writing' \subseteq Writing /\ \A r \in Writing' : bearer'[r] = bearer[r]
  BY DEF Writing
<1>4. About' \subseteq About
  BY <1>3 DEF About, NoPair
<1>. QED
  BY <1>1, <1>2, <1>4, OneUserKept

LEMMA InvAnswered ==
    ASSUME PageInv, NEW r \in Fetch, Succeeds(r) \/ Fails(r) \/ Unauthorized(r)
    PROVE  PageInv'
<1>1. fetch[r] = "sent" /\ Settled({r}) /\ KeepsPage
  BY DEF Succeeds, Fails, Unauthorized
<1>2. \/ UNCHANGED <<shown, pair>>
      \/ ClearAuth
      \/ pair' = pair /\ r \in Writing /\ shown' = owner[bearer[r]]
  <2>1. kind[r] \in {"get", "me", "boot", "logout"}
    BY DEF PageInv, PageTypeOK, Kind
  <2>. QED
    BY <1>1, <2>1 DEF Succeeds, Fails, Unauthorized, Writing
<1>. QED
  BY <1>1, <1>2, InvSettled

LEMMA InvEnqueue == ASSUME PageInv, NEW r \in Fetch, Enqueue(r) PROVE PageInv'
<1> USE DEF PageInv, Enqueue
<1>1. PageTypeOK' /\ PairsHandedOut' /\ OneRefresh'
  BY DEF PageTypeOK, PairsHandedOut, OneRefresh
<1>2. About' \subseteq About
  BY DEF About, Writing, PageTypeOK
<1>. QED
  BY <1>1, <1>2, OneUserKept

-----------------------------------------------------------------------------
(* The refresh.                                                            *)

LEMMA InvRefresh == ASSUME PageInv, NEW r \in Fetch, Refresh(r) PROVE PageInv'
<1> USE DEF PageInv, Refresh, ShouldRefresh
<1>1. PageTypeOK'
  BY DEF PageTypeOK
<1>2. PairsHandedOut'
  BY DEF PageTypeOK, PairsHandedOut, NoPair
<1>3. OneRefresh'
  BY DEF PageTypeOK, OneRefresh
<1>4. About' \subseteq About
  BY DEF About, Writing, PageTypeOK
<1>. QED
  BY <1>1, <1>2, <1>3, <1>4, OneUserKept

LEMMA InvRotated == ASSUME PageInv, NEW r \in Fetch, Rotated(r) PROVE PageInv'
<1> DEFINE again == Queue \union {r}
<1> USE DEF PageInv
<1>1. /\ fetch[r] = "refreshing" /\ HandsOut(owner[presented])
      /\ pair' = handedOut + 1
      /\ fetch' = [q \in Fetch |-> IF q \in again THEN "sent" ELSE fetch[q]]
      /\ bearer' = [q \in Fetch |-> IF q \in again THEN handedOut + 1 ELSE bearer[q]]
      /\ isRefreshing' = FALSE /\ presented' = NoPair
      /\ UNCHANGED <<shown, kind, retried, sent, crossed>>
  BY DEF Rotated
<1>2. presented \in 1..handedOut /\ owner[presented] \in User \union {NoUser}
  BY <1>1 DEF OneRefresh, PairsHandedOut, PageTypeOK, NoPair
<1>3. /\ handedOut + 1 \in Pair /\ handedOut \in Nat
      /\ handedOut' = handedOut + 1
      /\ owner' \in [Pair -> User \union {NoUser}]
      /\ owner'[handedOut + 1] = owner[presented]
      /\ \A p \in 1..handedOut : owner'[p] = owner[p]
  BY <1>1, <1>2, HandedOut
<1>4. PageTypeOK'
  <2>1. /\ fetch' \in [Fetch -> {"idle", "sent", "queued", "refreshing"}]
        /\ bearer' \in [Fetch -> Pair \union {NoPair}]
    BY <1>1, <1>3 DEF PageTypeOK
  <2>2. handedOut' \in 0..MaxPair /\ pair' \in Pair
    BY <1>1, <1>3, BrowserAssumption DEF Pair
  <2>. QED
    BY <1>1, <1>3, <2>1, <2>2 DEF PageTypeOK
<1>5. PairsHandedOut'
  BY <1>1, <1>3 DEF PairsHandedOut, NoPair, Queue
<1>6. OneRefresh'
  BY <1>1, <1>3 DEF PairsHandedOut, OneRefresh
<1>7. About' \subseteq About
  <2>1. owner[presented] \in About
    BY <1>2 DEF About, NoPair
  <2>2. ASSUME NEW q \in Writing' PROVE owner'[bearer'[q]] \in About
    <3>1. CASE q \in again
      BY <1>1, <1>3, <2>1, <2>2, <3>1 DEF Writing
    <3>2. CASE q \notin again
      <4>1. q \in Writing /\ bearer'[q] = bearer[q] /\ bearer[q] \in 1..handedOut
        BY <1>1, <2>2, <3>2 DEF Writing, PairsHandedOut, NoPair
      <4>. QED
        BY <1>3, <4>1 DEF About
    <3>. QED
      BY <3>1, <3>2
  <2>3. owner'[pair'] \in About
    BY <1>1, <1>3, <2>1
  <2>. QED
    BY <1>1, <2>2, <2>3 DEF About
<1>. QED
  BY <1>1, <1>4, <1>5, <1>6, <1>7, OneUserKept

\* The requests that are over when the session is given up.
LEMMA SessionGivenUp ==
    ASSUME PageTypeOK, NEW r \in Fetch, NotRotated(r)
    PROVE  /\ kind' \in [Fetch -> Kind] /\ retried' \in [Fetch -> BOOLEAN]
           /\ bearer' \in [Fetch -> {NoPair} \union Pair]
           /\ fetch' \in [Fetch -> {"idle", "sent", "queued", "refreshing"}]
           /\ \A q \in Fetch : \/ fetch'[q] = "idle" /\ bearer'[q] = NoPair
                              \/ /\ fetch'[q] = fetch[q] /\ bearer'[q] = bearer[q]
                                 /\ kind'[q] = kind[q] /\ q # r
           /\ sent' \in {sent, {}}
<1>1. CASE PageGone
  BY <1>1 DEF PageGone, PageTypeOK, Kind
<1>2. CASE Settled(Queue \union {r}) /\ UNCHANGED sent
  BY <1>2 DEF Settled, PageTypeOK, Kind
<1>. QED
  BY <1>1, <1>2 DEF NotRotated

LEMMA InvNotRotated == ASSUME PageInv, NEW r \in Fetch, NotRotated(r) PROVE PageInv'
<1>0. /\ fetch[r] = "refreshing" /\ shown' = NoUser /\ pair' = NoPair
      /\ UNCHANGED <<owner, handedOut, crossed>>
      /\ isRefreshing' = FALSE /\ presented' = NoPair
  BY DEF NotRotated, ClearAuth, PageGone
<1> USE <1>0, SessionGivenUp DEF PageInv
<1>1. PageTypeOK'
  BY DEF PageTypeOK
<1>2. PairsHandedOut'
  <2>1. /\ handedOut \in Nat /\ handedOut' = handedOut
        /\ sent' \subseteq 1..handedOut
    <3>1. handedOut \in Nat /\ handedOut' = handedOut /\ sent \subseteq 1..handedOut
      BY BrowserAssumption DEF PageTypeOK, PairsHandedOut
    <3>2. sent' = sent \/ sent' = {}
      OBVIOUS
    <3>. QED
      BY ONLY <3>1, <3>2
  <2>2. ASSUME NEW q \in Fetch
        PROVE  /\ bearer'[q] \in 0..handedOut
               /\ fetch'[q] # "idle" => bearer'[q] # NoPair
    BY <2>1, <2>2 DEF PairsHandedOut, NoPair
  <2>. QED
    BY <2>1, <2>2 DEF PairsHandedOut, NoPair
<1>3. OneRefresh'
  BY DEF PageTypeOK, PairsHandedOut, OneRefresh, NoPair
<1>4. Writing' \subseteq Writing /\ \A q \in Writing' : bearer'[q] = bearer[q]
  <2>1. \A q \in Fetch : fetch'[q] = "sent" =>
            /\ fetch[q] = "sent" /\ bearer'[q] = bearer[q] /\ kind'[q] = kind[q]
    BY ONLY PageInv, NotRotated(r), SessionGivenUp DEF PageInv
  <2>. QED
    BY ONLY <2>1 DEF Writing
<1>5. About' \subseteq About
  BY <1>4 DEF About, NoPair
<1>. QED
  BY <1>1, <1>2, <1>3, <1>5, OneUserKept

-----------------------------------------------------------------------------
LEMMA PageInvNext == PageInv /\ [PageNext]_pageVars => PageInv'
<1> SUFFICES ASSUME PageInv, [PageNext]_pageVars PROVE PageInv'
  OBVIOUS
<1>1. CASE SignIn \/ Reload
  BY <1>1, InvSignIn, InvReload
<1>2. ASSUME NEW r \in Fetch, Send(r) \/ Answered(r) PROVE PageInv'
  BY <1>2, InvSend, InvAnswered, InvEnqueue, InvRefresh DEF Answered
<1>3. ASSUME NEW r \in Fetch, RefreshEnds(r) PROVE PageInv'
  BY <1>3, InvRotated, InvNotRotated DEF RefreshEnds
<1>4. CASE UNCHANGED pageVars
  BY <1>4 DEF pageVars, PageInv, PageTypeOK, PairsHandedOut, OneRefresh, OneUser,
              About, Writing
<1>. QED
  BY <1>1, <1>2, <1>3, <1>4 DEF PageNext

\* Every variable of a tab keeps to its values.
THEOREM PageTypeCorrect == PageSpec => []PageTypeOK
<1>1. PageInv => PageTypeOK
  BY DEF PageInv
<1>. QED
  BY <1>1, PageInvInit, PageInvNext, PTL DEF PageSpec

\* The tokens in the store are those of the user it shows, as long as no
\* sign-in overtakes an answer about the former user: all that is under way is
\* then about one user.
THEOREM TokensOfUser == PageSpec => []TokensOfUserShown
<1>1. PageInv => TokensOfUserShown
  BY DEF PageInv, OneUser, About, TokensOfUserShown, IsAuthenticated
<1>. QED
  BY <1>1, PageInvInit, PageInvNext, PTL DEF PageSpec

\* Between two page loads a tab presents no refresh token twice: the tokens of
\* the store were presented only while their refresh is still under way.
THEOREM TokensSentOnce == PageSpec => RefreshTokenSentOnce
<1>1. ASSUME PageInv, PageNext, NEW r \in Fetch,
             fetch[r] = "sent", fetch'[r] = "refreshing"
      PROVE  pair \notin sent
  <2>1. ~isRefreshing
    <3> USE DEF PageInv, PageTypeOK
    <3>1. CASE SignIn \/ Reload
      BY <1>1, <3>1 DEF SignIn, Reload, PageGone
    <3>2. ASSUME NEW q \in Fetch, Refresh(q) PROVE ~isRefreshing
      BY <3>2 DEF Refresh
    <3>3. ASSUME NEW q \in Fetch, Send(q) PROVE FALSE
      BY <1>1, <3>3 DEF Send
    <3>4. ASSUME NEW q \in Fetch, Succeeds(q) \/ Fails(q) \/ Unauthorized(q) PROVE FALSE
      BY <1>1, <3>4 DEF Succeeds, Fails, Unauthorized, Settled
    <3>5. ASSUME NEW q \in Fetch, Enqueue(q) PROVE FALSE
      BY <1>1, <3>5 DEF Enqueue
    <3>6. ASSUME NEW q \in Fetch, RefreshEnds(q) PROVE FALSE
      BY <1>1, <3>6 DEF RefreshEnds, Rotated, NotRotated, PageGone, Settled
    <3>. QED
      BY <1>1, <3>1, <3>2, <3>3, <3>4, <3>5, <3>6 DEF PageNext, Answered
  <2>. QED
    BY <1>1, <2>1 DEF PageInv, OneRefresh
<1>2. PageInv /\ [PageNext]_pageVars =>
          [\A r \in Fetch : fetch[r] = "sent" /\ fetch'[r] = "refreshing"
                             => pair \notin sent]_pageVars
  BY <1>1
<1>. QED
  BY <1>2, PageInvInit, PageInvNext, PTL DEF PageSpec, RefreshTokenSentOnce

LEMMA QueueNext ==
    ASSUME PageInv, QueueAwaitsRefresh, [PageNext]_pageVars
    PROVE  QueueAwaitsRefresh'
<1> USE DEF Queue
<1>0. fetch \in [Fetch -> {"idle", "sent", "queued", "refreshing"}]
  BY DEF PageInv, PageTypeOK
<1>1. CASE SignIn \/ UNCHANGED pageVars
  BY <1>1 DEF SignIn, pageVars, QueueAwaitsRefresh
<1>2. CASE Reload
  BY <1>2 DEF Reload, PageGone, QueueAwaitsRefresh
<1>3. ASSUME NEW r \in Fetch, Send(r) PROVE QueueAwaitsRefresh'
  BY <1>0, <1>3 DEF Send, QueueAwaitsRefresh
<1>4. ASSUME NEW r \in Fetch, Succeeds(r) \/ Fails(r) \/ Unauthorized(r)
      PROVE  QueueAwaitsRefresh'
  <2>1. /\ fetch[r] = "sent" /\ UNCHANGED isRefreshing
        /\ fetch' = [q \in Fetch |-> IF q \in {r} THEN "idle" ELSE fetch[q]]
    BY <1>4 DEF Succeeds, Fails, Unauthorized, Settled, KeepsPage
  <2>. QED
    BY <1>0, <2>1 DEF QueueAwaitsRefresh
<1>5. ASSUME NEW r \in Fetch, Enqueue(r) \/ Refresh(r) PROVE QueueAwaitsRefresh'
  BY <1>0, <1>5 DEF Enqueue, Refresh, QueueAwaitsRefresh
<1>6. ASSUME NEW r \in Fetch, RefreshEnds(r) PROVE QueueAwaitsRefresh'
  <2>1. ~isRefreshing' /\ Queue' = {}
    BY <1>0, <1>6 DEF RefreshEnds, Rotated, NotRotated, PageGone, Settled
  <2>. QED
    BY <2>1 DEF QueueAwaitsRefresh
<1>. QED
  BY <1>1, <1>2, <1>3, <1>4, <1>5, <1>6 DEF PageNext, Answered

\* A request waits in the queue only while a refresh is under way that will end
\* its wait, however sign-ins, sign-outs, failed refreshes and page loads come
\* between.
THEOREM QueueAwaits == PageSpec => []QueueAwaitsRefresh
<1>1. PageInit => QueueAwaitsRefresh
  BY DEF PageInit, QueueAwaitsRefresh, Queue
<1>. QED
  BY <1>1, PageInvInit, PageInvNext, QueueNext, PTL DEF PageSpec

-----------------------------------------------------------------------------
(* Approvals: what their calls know.                                       *)

\* What a call knows while its handler works: the request it decides has left
\* "new" for good, and the account it carries is the one of the request.
CallAgrees(c) ==
    LET q == call[c].ask
        a == call[c].account
        stage == call[c].stage
    IN  /\ stage = "idle" => call[c] = NoCall
        /\ stage # "idle" => q \in Ask /\ asked[q].status # "new"
        /\ stage # "idle" /\ ~call[c].awaited => q \in unsure
        /\ stage \in {"create", "limits"} => asked[q].action = "open"
        /\ stage = "close" => asked[q].action = "delete"
        /\ stage = "limits" => a \in Account /\ openedFor[a] = q
        /\ stage \in {"close", "answer"} /\ asked[q].action = "delete" =>
               a = asked[q].account
        /\ stage = "answer" =>
               /\ call[c].awaited
               /\ asked[q].action = "open" => a \in limited /\ openedFor[a] = q
               /\ asked[q].action = "delete" => a \in unclosed \/ standing[a] = "closed"

\* A request to delete names its account, and is not new.
DeleteNamesAccount ==
    \A q \in Ask : asked[q].action = "delete" =>
        asked[q].account \in Account /\ asked[q].status # "new"

\* An account opened for a request is in the table, and the request is one to open.
OpenedForAsk ==
    \A a \in Account : openedFor[a] # NoAsk =>
        /\ standing[a] # "none"
        /\ asked[openedFor[a]].action = "open" /\ asked[openedFor[a]].status # "new"

Opened(q) == {a \in Account : openedFor[a] = q}

\* Unless something has gone wrong with it, a request is decided once at a time,
\* and has the account that its decision, under way or over, has opened.
InTurn(q) ==
    q \notin unsure =>
        /\ \A c, d \in Deciding(q) : c = d
        /\ Deciding(q) # {} => asked[q].status = "pending"
        /\ Deciding(q) = {} =>
               Opened(q) = IF asked[q].action = "open" /\ asked[q].status = "approved"
                           THEN {asked[q].account} ELSE {}
        /\ \A c \in Deciding(q) :
               Opened(q) = IF /\ asked[q].action = "open"
                              /\ call[c].stage \in {"limits", "answer"}
                           THEN {call[c].account} ELSE {}

\* The inductive invariant.
ApprovalInv ==
    /\ ApprovalTypeOK
    /\ ApprovedIsCarriedOut
    /\ DeleteNamesAccount
    /\ OpenedForAsk
    /\ \A c \in Call : CallAgrees(c)
    /\ \A q \in Ask : InTurn(q)

-----------------------------------------------------------------------------
(* Types.                                                                  *)

Status == {"new", "pending", "approved", "rejected"}
Stage == {"idle", "create", "limits", "close", "answer"}

LEMMA TypeMarked ==
    ASSUME ApprovalTypeOK, NEW q \in Ask, NEW status \in Status,
           NEW a \in Account \union {NoAccount}, Marked(q, status, a)
    PROVE  /\ asked' \in [Ask -> Request]
           /\ asked'[q].status = status /\ asked'[q].account = a
           /\ asked'[q].action = asked[q].action
           /\ \A p \in Ask \ {q} : asked'[p] = asked[p]
  BY DEF ApprovalTypeOK, Marked, Request, Status

LEMMA TypeParts ==
    ASSUME ApprovalTypeOK
    PROVE  /\ \A q \in Ask : asked[q].account \in Account \union {NoAccount}
           /\ \A c \in Call : /\ call[c] \in CallState
                              /\ call[c].account \in Account \union {NoAccount}
                              /\ call[c].ask \in Ask \union {NoAsk}
                              /\ call[c].stage \in Stage
                              /\ call[c].awaited \in BOOLEAN
           /\ NoCall \in CallState
  BY DEF ApprovalTypeOK, Request, CallState, Stage, NoCall

\* A decision adds its request, or nothing, to those that nothing is said of.
LEMMA CrossingAsk ==
    ASSUME NEW q \in Ask
    PROVE  /\ Crossing(q) \subseteq Ask
           /\ \A p \in Ask : p \in Crossing(q) =>  p = q
           /\ q \notin Crossing(q) => Deciding(q) = {} /\ asked[q].status = "pending"
  BY DEF Crossing

-----------------------------------------------------------------------------
LEMMA ApprovalInvInit == ApprovalInit => ApprovalInv
<1> SUFFICES ASSUME ApprovalInit PROVE ApprovalInv
  OBVIOUS
<1>1. /\ \A q \in Ask : asked[q] = NotAsked
      /\ \A c \in Call : call[c] = NoCall
      /\ \A a \in Account : openedFor[a] = NoAsk
  BY DEF ApprovalInit
<1>2. ApprovalTypeOK
  BY DEF ApprovalInit, ApprovalTypeOK, Request, NotAsked, CallState, NoCall
<1>3. ApprovedIsCarriedOut /\ DeleteNamesAccount /\ OpenedForAsk
  BY <1>1 DEF ApprovedIsCarriedOut, DeleteNamesAccount, OpenedForAsk, NotAsked
<1>4. ASSUME NEW c \in Call PROVE CallAgrees(c)
  <2>1. call[c] = NoCall
    BY <1>1
  <2>2. call[c].stage = "idle"
    BY <2>1 DEF NoCall
  <2>. QED
    BY <2>1, <2>2 DEF CallAgrees
<1>5. \A q \in Ask : Deciding(q) = {} /\ Opened(q) = {}
  BY <1>1, ApprovalAssumption DEF Deciding, Opened, NoCall, ApprovalAssumption
<1>6. \A q \in Ask : InTurn(q)
  BY <1>1, <1>5 DEF InTurn, NotAsked
<1>. QED
  BY <1>2, <1>3, <1>4, <1>6 DEF ApprovalInv

-----------------------------------------------------------------------------
(* The customer's requests.                                                *)

LEMMA InvOpenRequest ==
    ASSUME ApprovalInv, NEW q \in Ask, CreateAccountOpenRequest(q)
    PROVE  ApprovalInv'
<1>1. /\ ApprovalTypeOK /\ asked[q].status = "new"
      /\ UNCHANGED <<standing, limited, call, openedFor, unsure, unclosed>>
  BY DEF ApprovalInv, CreateAccountOpenRequest, KeepsServer
<1>2. /\ asked' \in [Ask -> Request]
      /\ asked'[q].status = "pending" /\ asked'[q].account = asked[q].account
      /\ asked'[q].action = asked[q].action
      /\ \A p \in Ask \ {q} : asked'[p] = asked[p]
  BY <1>1 DEF CreateAccountOpenRequest, ApprovalTypeOK, Request
<1>3. ApprovalTypeOK'
  BY <1>1, <1>2 DEF ApprovalTypeOK
<1>4. ApprovedIsCarriedOut'
  BY <1>1, <1>2 DEF ApprovalInv, ApprovedIsCarriedOut
<1>5. DeleteNamesAccount' /\ OpenedForAsk'
  <2>1. \A a \in Account : openedFor[a] \in Ask \union {NoAsk}
    BY <1>1 DEF ApprovalTypeOK
  <2>. QED
    BY <1>1, <1>2, <2>1 DEF ApprovalInv, DeleteNamesAccount, OpenedForAsk
<1>6. ASSUME NEW c \in Call PROVE CallAgrees(c)'
  <2>1. CallAgrees(c) /\ call'[c] = call[c]
    BY <1>1 DEF ApprovalInv
  <2>2. call[c].stage # "idle" => call[c].ask \in Ask \ {q}
    BY <1>1, <2>1 DEF CallAgrees
  <2>. QED
    BY <1>1, <1>2, <2>1, <2>2 DEF CallAgrees
<1>7. ASSUME NEW p \in Ask PROVE InTurn(p)'
  <2>1. InTurn(p) /\ Deciding(p)' = Deciding(p) /\ Opened(p)' = Opened(p)
    BY <1>1 DEF ApprovalInv, Deciding, Opened
  <2>. QED
    BY <1>1, <1>2, <2>1 DEF InTurn
<1>. QED
  BY <1>3, <1>4, <1>5, <1>6, <1>7 DEF ApprovalInv

-----------------------------------------------------------------------------
(* Steps that leave the calls, or the requests, alone.                     *)

\* The request is marked by something else than the answer of its call.
LEMMA InvMarked ==
    ASSUME ApprovalInv, NEW q \in Ask, NEW status \in Status \ {"new", "pending"},
           asked[q].status # "new", Marked(q, status, asked[q].account),
           unsure' = unsure \union Crossing(q),
           unclosed \subseteq unclosed', unclosed' \subseteq Account,
           status = "approved" =>
               asked[q].action = "delete" /\ asked[q].account \in unclosed',
           UNCHANGED <<standing, limited, call, openedFor>>
    PROVE  ApprovalInv'
<1>1. ApprovalTypeOK
  BY DEF ApprovalInv
<1>2. /\ asked' \in [Ask -> Request]
      /\ asked'[q].status = status /\ asked'[q].account = asked[q].account
      /\ asked'[q].action = asked[q].action
      /\ \A p \in Ask \ {q} : asked'[p] = asked[p]
  BY <1>1, TypeParts, TypeMarked DEF Status
<1>3. ApprovalTypeOK'
  BY <1>1, <1>2, CrossingAsk DEF ApprovalTypeOK
<1>4. ApprovedIsCarriedOut'
  BY <1>2 DEF ApprovalInv, ApprovedIsCarriedOut
<1>5. DeleteNamesAccount' /\ OpenedForAsk'
  <2>1. \A a \in Account : openedFor[a] \in Ask \union {NoAsk}
    BY <1>1 DEF ApprovalTypeOK
  <2>. QED
    BY <1>2, <2>1 DEF ApprovalInv, DeleteNamesAccount, OpenedForAsk
<1>6. ASSUME NEW c \in Call PROVE CallAgrees(c)'
  <2>1. CallAgrees(c) /\ call'[c] = call[c]
    BY DEF ApprovalInv
  <2>2. call[c].stage # "idle" =>
            /\ call[c].ask \in Ask /\ asked'[call[c].ask].status # "new"
            /\ asked'[call[c].ask].action = asked[call[c].ask].action
            /\ asked'[call[c].ask].account = asked[call[c].ask].account
    BY <1>2, <2>1 DEF CallAgrees
  <2>. QED
    BY <2>1, <2>2 DEF CallAgrees
<1>7. ASSUME NEW p \in Ask PROVE InTurn(p)'
  <2>1. InTurn(p) /\ Deciding(p)' = Deciding(p) /\ Opened(p)' = Opened(p)
    BY DEF ApprovalInv, Deciding, Opened
  <2>2. CASE p # q
    BY <1>2, <2>1, <2>2 DEF InTurn
  <2>3. CASE p = q
    <3>1. q \notin unsure' =>
              q \notin unsure /\ Deciding(q) = {} /\ asked[q].status = "pending"
      BY CrossingAsk
    <3>. QED
      BY <1>2, <2>1, <2>3, <3>1 DEF InTurn
  <2>. QED
    BY <2>2, <2>3
<1>. QED
  BY <1>3, <1>4, <1>5, <1>6, <1>7 DEF ApprovalInv

LEMMA InvReject ==
    ASSUME ApprovalInv, NEW q \in Ask, Reject(q)
    PROVE  ApprovalInv'
  BY InvMarked DEF ApprovalInv, ApprovalTypeOK, Reject, KeepsServer, Status

LEMMA InvUnlisted ==
    ASSUME ApprovalInv, NEW q \in Ask, ApproveUnlistedDelete(q)
    PROVE  ApprovalInv'
<1>1. asked[q].account \in Account /\ unclosed \subseteq Account
  BY DEF ApprovalInv, ApprovalTypeOK, DeleteNamesAccount, ApproveUnlistedDelete
<1>. QED
  BY <1>1, InvMarked DEF ApproveUnlistedDelete, Status

LEMMA InvDeleteRequest ==
    ASSUME ApprovalInv, NEW q \in Ask, CreateAccountDeleteRequest(q)
    PROVE  ApprovalInv'
<1>1. /\ ApprovalTypeOK /\ asked[q].status = "new"
      /\ UNCHANGED <<standing, limited, call, openedFor, unsure, unclosed>>
  BY DEF ApprovalInv, CreateAccountDeleteRequest, KeepsServer
<1>2. PICK a \in Account : asked' = [asked EXCEPT ![q] =
          [action |-> "delete", status |-> "pending", account |-> a]]
  BY DEF CreateAccountDeleteRequest
<1>3. /\ asked' \in [Ask -> Request]
      /\ asked'[q].status = "pending" /\ asked'[q].account = a
      /\ asked'[q].action = "delete"
      /\ \A p \in Ask \ {q} : asked'[p] = asked[p]
  BY <1>1, <1>2 DEF ApprovalTypeOK, Request
<1>4. ApprovalTypeOK'
  BY <1>1, <1>3 DEF ApprovalTypeOK
<1>5. ApprovedIsCarriedOut'
  BY <1>1, <1>3 DEF ApprovalInv, ApprovedIsCarriedOut
<1>6. DeleteNamesAccount' /\ OpenedForAsk'
  <2>1. \A b \in Account : openedFor[b] \in (Ask \ {q}) \union {NoAsk}
    BY <1>1 DEF ApprovalInv, ApprovalTypeOK, OpenedForAsk
  <2>. QED
    BY <1>1, <1>3, <2>1 DEF ApprovalInv, DeleteNamesAccount, OpenedForAsk
<1>7. ASSUME NEW c \in Call PROVE CallAgrees(c)'
  <2>1. CallAgrees(c) /\ call'[c] = call[c]
    BY <1>1 DEF ApprovalInv
  <2>2. call[c].stage # "idle" => call[c].ask \in Ask \ {q}
    BY <1>1, <2>1 DEF CallAgrees
  <2>. QED
    BY <1>1, <1>3, <2>1, <2>2 DEF CallAgrees
<1>8. ASSUME NEW p \in Ask PROVE InTurn(p)'
  <2>1. InTurn(p) /\ Deciding(p)' = Deciding(p) /\ Opened(p)' = Opened(p)
    BY <1>1 DEF ApprovalInv, Deciding, Opened
  <2>. QED
    BY <1>1, <1>3, <2>1 DEF InTurn
<1>. QED
  BY <1>4, <1>5, <1>6, <1>7, <1>8 DEF ApprovalInv

\* Freezing and unfreezing never bring an account back to "none".
LEMMA InvSetStatus ==
    ASSUME ApprovalInv, NEW a \in Account, SetStatus(a)
    PROVE  ApprovalInv'
<1>1. /\ ApprovalTypeOK
      /\ UNCHANGED <<asked, limited, call, openedFor, unsure>>
      /\ unclosed' = unclosed \union {a}
  BY DEF ApprovalInv, SetStatus
<1>2. /\ standing' \in [Account -> {"none", "open", "closed"}]
      /\ standing'[a] = "open" /\ \A b \in Account \ {a} : standing'[b] = standing[b]
  BY <1>1 DEF SetStatus, ApprovalTypeOK
<1>3. ApprovalTypeOK'
  BY <1>1, <1>2 DEF ApprovalTypeOK
<1>4. ApprovedIsCarriedOut'
  <2>1. \A q \in Ask : asked[q].action \in {"open", "delete"}
    BY <1>1 DEF ApprovalTypeOK, Request
  <2>. QED
    BY <1>1, <1>2, <2>1 DEF ApprovalInv, ApprovedIsCarriedOut, DeleteNamesAccount
<1>5. DeleteNamesAccount' /\ OpenedForAsk'
  BY <1>1, <1>2 DEF ApprovalInv, DeleteNamesAccount, OpenedForAsk
<1>6. ASSUME NEW c \in Call PROVE CallAgrees(c)'
  BY <1>1, <1>2 DEF ApprovalInv, CallAgrees, DeleteNamesAccount
<1>7. ASSUME NEW p \in Ask PROVE InTurn(p)'
  <2>1. InTurn(p) /\ Deciding(p)' = Deciding(p) /\ Opened(p)' = Opened(p)
    BY <1>1 DEF ApprovalInv, Deciding, Opened
  <2>. QED
    BY <1>1, <2>1 DEF InTurn
<1>. QED
  BY <1>3, <1>4, <1>5, <1>6, <1>7 DEF ApprovalInv

-----------------------------------------------------------------------------
(* Steps of one call.                                                      *)

CallsSame(c) == \A d \in Call \ {c} : call'[d] = call[d]

LEMMA DecidingAfter ==
    ASSUME NEW c \in Call, CallsSame(c)
    PROVE  \A p : Deciding(p)' =
               (Deciding(p) \ {c}) \union (IF call'[c].ask = p THEN {c} ELSE {})
  BY DEF Deciding, CallsSame

\* A request that the call is not about.
LEMMA InTurnKept ==
    ASSUME ApprovalInv, NEW c \in Call, CallsSame(c), NEW p \in Ask,
           call[c].ask # p, call'[c].ask # p, asked'[p] = asked[p],
           Opened(p)' = Opened(p), unsure \subseteq unsure'
    PROVE  InTurn(p)'
<1>1. Deciding(p)' = Deciding(p)
  BY DecidingAfter DEF Deciding
<1>2. \A d \in Deciding(p) : call'[d] = call[d]
  BY DEF Deciding, CallsSame
<1>. QED
  BY <1>1, <1>2 DEF ApprovalInv, InTurn

\* A call begins.
LEMMA InvStarts ==
    ASSUME ApprovalInv, NEW c \in Call, NEW q \in Ask, NEW stage,
           asked[q].status # "new",
           \/ stage = "create" /\ asked[q].action = "open"
           \/ stage = "close" /\ asked[q].action = "delete",
           Starts(c, q, stage), unsure' = unsure \union Crossing(q),
           UNCHANGED <<asked, standing, limited, openedFor, unclosed>>
    PROVE  ApprovalInv'
<1>1. ApprovalTypeOK /\ asked[q].account \in Account \union {NoAccount}
  BY TypeParts DEF ApprovalInv
<1>2. call[c] = NoCall
  BY DEF Starts
<1>3. call[c].ask = NoAsk
  BY <1>2 DEF NoCall
<1>4. /\ call'[c] = [ask |-> q, stage |-> stage, account |-> asked[q].account,
                     awaited |-> TRUE]
      /\ CallsSame(c)
  BY <1>1 DEF Starts, ApprovalTypeOK, CallsSame
<1>5. /\ call'[c].ask = q /\ call'[c].stage = stage /\ call'[c].awaited = TRUE
      /\ call'[c].account = asked[q].account
  BY <1>4
<1>6. ApprovalTypeOK'
  <2>1. call'[c] \in CallState
    BY <1>1, <1>4 DEF CallState
  <2>2. call' \in [Call -> CallState]
    BY <1>1, <2>1 DEF Starts, ApprovalTypeOK
  <2>. QED
    BY <1>1, <2>2, CrossingAsk DEF ApprovalTypeOK
<1>7. ApprovedIsCarriedOut' /\ DeleteNamesAccount' /\ OpenedForAsk'
  BY DEF ApprovalInv, ApprovedIsCarriedOut, DeleteNamesAccount, OpenedForAsk
<1>8. ASSUME NEW d \in Call PROVE CallAgrees(d)'
  <2>1. CASE d = c
    BY <1>5, <2>1 DEF CallAgrees
  <2>2. CASE d # c
    BY <1>4, <2>2 DEF ApprovalInv, CallAgrees, CallsSame
  <2>. QED
    BY <2>1, <2>2
<1>9. ASSUME NEW p \in Ask PROVE InTurn(p)'
  <2>1. Opened(p)' = Opened(p)
    BY DEF Opened
  <2>2. CASE p # q
    BY <1>3, <1>4, <1>5, <2>1, <2>2, InTurnKept, ApprovalAssumption DEF ApprovalAssumption
  <2>3. CASE p = q
    <3>1. q \notin unsure' =>
              q \notin unsure /\ Deciding(q) = {} /\ asked[q].status = "pending"
      BY CrossingAsk
    <3>2. Deciding(q) = {} => Deciding(q)' = {c}
      BY <1>4, <1>5, DecidingAfter
    <3>3. InTurn(q)
      BY DEF ApprovalInv
    <3>. QED
      BY <1>5, <2>1, <2>3, <3>1, <3>2, <3>3 DEF InTurn
  <2>. QED
    BY <2>2, <2>3
<1>. QED
  BY <1>6, <1>7, <1>8, <1>9 DEF ApprovalInv

\* A call that works for a request of its own.
LEMMA Working ==
    ASSUME ApprovalInv, NEW c \in Call, call[c].stage # "idle"
    PROVE  /\ ApprovalTypeOK /\ CallAgrees(c) /\ call[c] \in CallState
           /\ call[c].ask \in Ask /\ c \in Deciding(call[c].ask)
           /\ InTurn(call[c].ask)
           /\ call[c].ask \notin unsure => Deciding(call[c].ask) = {c}
<1>1. CallAgrees(c) /\ ApprovalTypeOK
  BY DEF ApprovalInv
<1>2. call[c].ask \in Ask
  BY <1>1 DEF CallAgrees
<1>3. c \in Deciding(call[c].ask) /\ InTurn(call[c].ask)
  BY <1>2 DEF Deciding, ApprovalInv
<1>. QED
  BY <1>1, <1>2, <1>3, TypeParts DEF InTurn

\* A call is over without an answer.
LEMMA InvEnds ==
    ASSUME ApprovalInv, NEW c \in Call, call[c].stage # "idle",
           call' = [call EXCEPT ![c] = NoCall],
           unsure \subseteq unsure', unsure' \subseteq Ask,
           \/ call[c].ask \in unsure'
           \/ call[c].stage \in {"create", "close"} /\ call[c].ask \notin unsure,
           UNCHANGED <<asked, standing, limited, openedFor, unclosed>>
    PROVE  ApprovalInv'
<1> DEFINE q == call[c].ask
<1>1. /\ ApprovalTypeOK /\ q \in Ask /\ InTurn(q) /\ CallAgrees(c)
      /\ q \notin unsure => Deciding(q) = {c}
  BY Working
<1>2. /\ call'[c] = NoCall /\ CallsSame(c) /\ call' \in [Call -> CallState]
  BY <1>1, TypeParts DEF ApprovalTypeOK, CallsSame
<1>3. call'[c].ask = NoAsk /\ call'[c].stage = "idle"
  BY <1>2 DEF NoCall
<1>4. ApprovalTypeOK'
  BY <1>1, <1>2 DEF ApprovalTypeOK
<1>5. ApprovedIsCarriedOut' /\ DeleteNamesAccount' /\ OpenedForAsk'
  BY DEF ApprovalInv, ApprovedIsCarriedOut, DeleteNamesAccount, OpenedForAsk
<1>6. ASSUME NEW d \in Call PROVE CallAgrees(d)'
  <2>1. CASE d = c
    <3>1. NoCall' = NoCall
      BY DEF NoCall
    <3>. QED
      BY <1>2, <1>3, <2>1, <3>1 DEF CallAgrees
  <2>2. CASE d # c
    BY <1>2, <2>2 DEF ApprovalInv, CallAgrees, CallsSame
  <2>. QED
    BY <2>1, <2>2
<1>7. ASSUME NEW p \in Ask PROVE InTurn(p)'
  <2>1. Opened(p)' = Opened(p)
    BY DEF Opened
  <2>2. CASE p # q
    BY <1>2, <1>3, <2>1, <2>2, InTurnKept, ApprovalAssumption DEF ApprovalAssumption
  <2>3. CASE p = q
    <3>1. /\ InTurn(p)
          /\ p \notin unsure => Deciding(p) = {c}
          /\ p \notin unsure' => p \notin unsure /\ call[c].stage \in {"create", "close"}
      BY <1>1, <2>3
    <3>2. Deciding(p) = {c} => Deciding(p)' = {}
      BY <1>2, <1>3, DecidingAfter, ApprovalAssumption DEF ApprovalAssumption
    <3>3. p \notin unsure' =>
              /\ Deciding(p)' = {} /\ Opened(p) = {} /\ asked[p].status = "pending"
      BY <3>1, <3>2 DEF InTurn
    <3>. QED
      BY <2>1, <3>3 DEF InTurn
  <2>. QED
    BY <2>2, <2>3
<1>. QED
  BY <1>4, <1>5, <1>6, <1>7 DEF ApprovalInv

LEMMA InvCallFails ==
    ASSUME ApprovalInv, NEW c \in Call, CallFails(c)
    PROVE  ApprovalInv'
<1>1. call[c].stage \in {"create", "limits", "close"}
  BY DEF CallFails
<1>2. call[c].ask \in Ask /\ ApprovalTypeOK
  BY <1>1, Working
<1>3. CASE call[c].stage = "limits"
  BY <1>1, <1>2, <1>3, InvEnds DEF CallFails, ApprovalTypeOK
<1>4. CASE call[c].stage # "limits"
  BY <1>1, <1>2, <1>4, InvEnds DEF CallFails, ApprovalTypeOK
<1>. QED
  BY <1>3, <1>4

\* A tab gives up: nothing is said of its request any more.
LEMMA InvGivesUp ==
    ASSUME ApprovalInv, NEW c \in Call, GivesUp(c)
    PROVE  ApprovalInv'
<1>1. /\ call[c].awaited /\ unsure' = unsure \union {call[c].ask}
      /\ UNCHANGED <<asked, standing, limited, openedFor, unclosed>>
  BY DEF GivesUp
<1>2. call[c].stage # "idle"
  <2>1. call[c] # NoCall
    BY <1>1 DEF NoCall
  <2>. QED
    BY <2>1 DEF ApprovalInv, CallAgrees
<1>3. /\ ApprovalTypeOK /\ CallAgrees(c) /\ call[c] \in CallState
      /\ call[c].ask \in Ask /\ unsure' \subseteq Ask
  BY <1>1, <1>2, Working DEF ApprovalTypeOK
<1>4. CASE call[c].stage = "answer"
  <2>1. call' = [call EXCEPT ![c] = NoCall]
    BY <1>4 DEF GivesUp
  <2>. QED
    BY <1>1, <1>2, <1>3, <2>1, InvEnds
<1>5. CASE call[c].stage # "answer"
  <2>1. /\ call'[c] = [call[c] EXCEPT !.awaited = FALSE] /\ CallsSame(c)
        /\ call' \in [Call -> CallState]
    BY <1>3, <1>5 DEF GivesUp, ApprovalTypeOK, CallsSame, CallState
  <2>2. /\ call'[c].ask = call[c].ask /\ call'[c].stage = call[c].stage
        /\ call'[c].account = call[c].account
    BY <1>3, <2>1 DEF CallState
  <2>3. ApprovalTypeOK'
    BY <1>1, <1>3, <2>1 DEF ApprovalTypeOK
  <2>4. ApprovedIsCarriedOut' /\ DeleteNamesAccount' /\ OpenedForAsk'
    BY <1>1 DEF ApprovalInv, ApprovedIsCarriedOut, DeleteNamesAccount, OpenedForAsk
  <2>5. ASSUME NEW d \in Call PROVE CallAgrees(d)'
    <3>1. CASE d = c
      BY <1>1, <1>2, <1>3, <1>5, <2>2, <3>1 DEF CallAgrees
    <3>2. CASE d # c
      BY <1>1, <2>1, <3>2 DEF ApprovalInv, CallAgrees, CallsSame
    <3>. QED
      BY <3>1, <3>2
  <2>6. ASSUME NEW p \in Ask PROVE InTurn(p)'
    <3>1. Opened(p)' = Opened(p)
      BY <1>1 DEF Opened
    <3>2. CASE p # call[c].ask
      BY <1>1, <2>1, <2>2, <3>1, <3>2, InTurnKept
    <3>3. CASE p = call[c].ask
      BY <1>1, <3>3 DEF InTurn
    <3>. QED
      BY <3>2, <3>3
  <2>. QED
    BY <2>3, <2>4, <2>5, <2>6 DEF ApprovalInv
<1>. QED
  BY <1>4, <1>5

\* The handler goes on to its next stage, or answers a tab that still waits.
LEMMA InTurnStage ==
    ASSUME ApprovalInv, NEW c \in Call, call[c].stage # "idle", CallsSame(c),
           NEW q \in Ask, call[c].ask = q, call'[c].ask = q, asked' = asked,
           unsure' = unsure,
           Opened(q)' = IF /\ asked[q].action = "open"
                           /\ call'[c].stage \in {"limits", "answer"}
                        THEN {call'[c].account} ELSE {}
    PROVE  InTurn(q)'
<1>1. InTurn(q) /\ (q \notin unsure => Deciding(q) = {c})
  BY Working
<1>2. Deciding(q) = {c} => Deciding(q)' = {c}
  BY DecidingAfter
<1>. QED
  BY <1>1, <1>2 DEF InTurn

LEMMA InvCreateAccount ==
    ASSUME ApprovalInv, NEW c \in Call, CreateAccount(c)
    PROVE  ApprovalInv'
<1>1. PICK a \in Account :
          /\ call[c].stage = "create" /\ standing[a] = "none"
          /\ standing' = [standing EXCEPT ![a] = "open"]
          /\ openedFor' = [openedFor EXCEPT ![a] = call[c].ask]
          /\ call' = [call EXCEPT ![c].stage = "limits", ![c].account = a]
  BY DEF CreateAccount
<1>2. PICK q \in Ask : call[c].ask = q
  BY <1>1, Working
<1>3. /\ ApprovalTypeOK /\ CallAgrees(c) /\ call[c] \in CallState /\ InTurn(q)
      /\ q \notin unsure => Deciding(q) = {c}
      /\ asked[q].action = "open" /\ asked[q].status # "new"
  BY <1>1, <1>2, Working DEF CallAgrees
<1>4. UNCHANGED <<asked, limited, unsure, unclosed>>
  BY DEF CreateAccount
<1>5. /\ call' \in [Call -> CallState] /\ CallsSame(c)
      /\ call'[c].ask = q /\ call'[c].stage = "limits" /\ call'[c].account = a
      /\ call'[c].awaited = call[c].awaited
  BY <1>1, <1>2, <1>3 DEF ApprovalTypeOK, CallState, CallsSame
<1>6. /\ openedFor' \in [Account -> Ask \union {NoAsk}]
      /\ openedFor'[a] = q /\ \A b \in Account \ {a} : openedFor'[b] = openedFor[b]
      /\ standing' \in [Account -> {"none", "open", "closed"}]
      /\ standing'[a] = "open" /\ \A b \in Account \ {a} : standing'[b] = standing[b]
  BY <1>1, <1>2, <1>3 DEF ApprovalTypeOK
<1>7. openedFor[a] = NoAsk /\ NoAsk \notin Ask
  BY <1>1, ApprovalAssumption DEF ApprovalInv, OpenedForAsk, ApprovalAssumption
<1>8. ApprovalTypeOK'
  BY <1>3, <1>4, <1>5, <1>6 DEF ApprovalTypeOK
<1>9. ApprovedIsCarriedOut'
  <2>1. limited \subseteq Account
    BY <1>3 DEF ApprovalTypeOK
  <2>2. \A p \in Ask : asked[p].action # "open" => asked[p].account \in Account
    BY <1>3 DEF ApprovalInv, DeleteNamesAccount, ApprovalTypeOK, Request
  <2>. QED
    BY <1>1, <1>4, <1>6, <1>7, <2>1, <2>2 DEF ApprovalInv, ApprovedIsCarriedOut
<1>10. DeleteNamesAccount' /\ OpenedForAsk'
  BY <1>3, <1>4, <1>6 DEF ApprovalInv, DeleteNamesAccount, OpenedForAsk
<1>11. ASSUME NEW d \in Call PROVE CallAgrees(d)'
  <2>1. CASE d = c
    BY <1>1, <1>2, <1>3, <1>4, <1>5, <1>6, <2>1 DEF CallAgrees
  <2>2. CASE d # c
    <3>1. CallAgrees(d) /\ call'[d] = call[d] /\ limited \subseteq Account
      BY <1>3, <1>5, <2>2 DEF ApprovalInv, CallsSame, ApprovalTypeOK
    <3>2. call[d].stage # "idle" => call[d].ask \in Ask
      BY <3>1 DEF CallAgrees
    <3>3. /\ call[d].stage = "limits" => openedFor'[call[d].account] = call[d].ask
          /\ call[d].stage = "answer" /\ asked[call[d].ask].action = "open" =>
                 openedFor'[call[d].account] = call[d].ask
      BY <1>6, <1>7, <3>1, <3>2 DEF CallAgrees
    <3>4. call[d].stage = "answer" /\ asked[call[d].ask].action = "delete" =>
              call[d].account \in unclosed' \/ standing'[call[d].account] = "closed"
      <4>1. ASSUME call[d].stage = "answer", asked[call[d].ask].action = "delete"
            PROVE  call[d].account \in Account
        BY <3>1, <3>2, <4>1 DEF CallAgrees, ApprovalInv, DeleteNamesAccount
      <4>. QED
        BY <1>1, <1>4, <1>6, <3>1, <4>1 DEF CallAgrees
    <3>. QED
      BY <1>4, <3>1, <3>2, <3>3, <3>4 DEF CallAgrees
  <2>. QED
    BY <2>1, <2>2
<1>12. ASSUME NEW p \in Ask PROVE InTurn(p)'
  <2>1. CASE p # q
    <3>1. Opened(p)' = Opened(p)
      BY <1>6, <1>7, <2>1 DEF Opened
    <3>. QED
      BY <1>2, <1>4, <1>5, <2>1, <3>1, InTurnKept
  <2>2. CASE p = q
    <3>1. q \notin unsure => Opened(q) = {}
      BY <1>1, <1>3 DEF InTurn
    <3>2. Opened(q)' = Opened(q) \union {a}
      BY <1>6 DEF Opened
    <3>3. CASE q \notin unsure
      BY <1>1, <1>2, <1>3, <1>4, <1>5, <2>2, <3>1, <3>2, <3>3, InTurnStage
    <3>4. CASE q \in unsure
      BY <1>4, <2>2, <3>4 DEF InTurn
    <3>. QED
      BY <3>3, <3>4
  <2>. QED
    BY <2>1, <2>2
<1>. QED
  BY <1>8, <1>9, <1>10, <1>11, <1>12 DEF ApprovalInv

\* The handler has carried out its last statement, and answers whoever waits.
LEMMA ProceedsTo ==
    ASSUME ApprovalInv, NEW c \in Call, call[c].stage \in {"limits", "close"},
           Proceeds(c), UNCHANGED <<asked, openedFor, unsure>>
    PROVE  /\ call' \in [Call -> CallState] /\ CallsSame(c)
           /\ \/ call'[c] = NoCall /\ call'[c].stage = "idle"
              \/ /\ call'[c].ask = call[c].ask /\ call'[c].stage = "answer"
                 /\ call'[c].account = call[c].account /\ call'[c].awaited
           /\ \A p \in Ask : InTurn(p)'
<1>1. PICK q \in Ask : call[c].ask = q
  BY Working
<1>2. /\ ApprovalTypeOK /\ CallAgrees(c) /\ call[c] \in CallState /\ InTurn(q)
      /\ q \notin unsure => Deciding(q) = {c}
  BY <1>1, Working
<1>3. \A p \in Ask : Opened(p)' = Opened(p)
  BY DEF Opened
<1>4. CASE call[c].awaited
  <2>1. /\ call' \in [Call -> CallState] /\ CallsSame(c)
        /\ call'[c].ask = q /\ call'[c].stage = "answer"
        /\ call'[c].account = call[c].account /\ call'[c].awaited
    BY <1>1, <1>2, <1>4 DEF Proceeds, ApprovalTypeOK, CallState, CallsSame
  <2>2. ASSUME NEW p \in Ask PROVE InTurn(p)'
    <3>1. CASE p # q
      BY <1>1, <1>3, <2>1, <3>1, InTurnKept
    <3>2. CASE p = q /\ q \notin unsure
      <4>1. Opened(q) = IF asked[q].action = "open" THEN {call[c].account} ELSE {}
        BY <1>1, <1>2, <3>2 DEF InTurn, CallAgrees
      <4>. QED
        BY <1>1, <1>2, <1>3, <2>1, <3>2, <4>1, InTurnStage
    <3>3. CASE p = q /\ q \in unsure
      BY <3>3 DEF InTurn
    <3>. QED
      BY <3>1, <3>2, <3>3
  <2>. QED
    BY <1>1, <2>1, <2>2
<1>5. CASE ~call[c].awaited
  <2>1. /\ call' \in [Call -> CallState] /\ CallsSame(c) /\ call'[c] = NoCall
    BY <1>2, <1>5, TypeParts DEF Proceeds, ApprovalTypeOK, CallsSame
  <2>2. call'[c].ask = NoAsk /\ call'[c].stage = "idle"
    BY <2>1 DEF NoCall
  <2>3. q \in unsure
    BY <1>1, <1>2, <1>5 DEF CallAgrees
  <2>4. ASSUME NEW p \in Ask PROVE InTurn(p)'
    <3>1. CASE p # q
      BY <1>1, <1>3, <2>1, <2>2, <3>1, InTurnKept, ApprovalAssumption
         DEF ApprovalAssumption
    <3>2. CASE p = q
      BY <2>3, <3>2 DEF InTurn
    <3>. QED
      BY <3>1, <3>2
  <2>. QED
    BY <2>1, <2>2, <2>4
<1>. QED
  BY <1>4, <1>5

LEMMA InvSaveLimits ==
    ASSUME ApprovalInv, NEW c \in Call, SaveLimits(c)
    PROVE  ApprovalInv'
<1>1. /\ call[c].stage = "limits" /\ Proceeds(c)
      /\ limited' = limited \union {call[c].account}
      /\ UNCHANGED <<asked, standing, openedFor, unsure, unclosed>>
  BY DEF SaveLimits
<1>2. ApprovalTypeOK /\ CallAgrees(c) /\ call[c].ask \in Ask
  BY <1>1, Working
<1>3. /\ call' \in [Call -> CallState] /\ CallsSame(c)
      /\ \/ call'[c] = NoCall /\ call'[c].stage = "idle"
         \/ /\ call'[c].ask = call[c].ask /\ call'[c].stage = "answer"
            /\ call'[c].account = call[c].account /\ call'[c].awaited
      /\ \A p \in Ask : InTurn(p)'
  BY <1>1, ProceedsTo
<1>4. ApprovalTypeOK'
  BY <1>1, <1>2, <1>3 DEF ApprovalTypeOK, CallAgrees
<1>5. ApprovedIsCarriedOut' /\ DeleteNamesAccount' /\ OpenedForAsk'
  BY <1>1 DEF ApprovalInv, ApprovedIsCarriedOut, DeleteNamesAccount, OpenedForAsk
<1>6. ASSUME NEW d \in Call PROVE CallAgrees(d)'
  <2>1. CASE d = c /\ call'[c] = NoCall /\ call'[c].stage = "idle"
    <3>1. NoCall' = NoCall
      BY DEF NoCall
    <3>. QED
      BY <2>1, <3>1 DEF CallAgrees
  <2>2. CASE d = c /\ call'[c].stage = "answer"
    BY <1>1, <1>2, <1>3, <2>2 DEF CallAgrees
  <2>3. CASE d # c
    BY <1>1, <1>3, <2>3 DEF ApprovalInv, CallAgrees, CallsSame
  <2>. QED
    BY <1>3, <2>1, <2>2, <2>3
<1>. QED
  BY <1>3, <1>4, <1>5, <1>6 DEF ApprovalInv

LEMMA InvCloseAccount ==
    ASSUME ApprovalInv, NEW c \in Call, CloseAccount(c)
    PROVE  ApprovalInv'
<1>1. /\ call[c].stage = "close" /\ Proceeds(c)
      /\ standing' = [standing EXCEPT ![call[c].account] = "closed"]
      /\ UNCHANGED <<asked, limited, openedFor, unsure, unclosed>>
  BY DEF CloseAccount
<1>2. /\ ApprovalTypeOK /\ CallAgrees(c) /\ call[c].ask \in Ask
      /\ call[c].account \in Account
  BY <1>1, Working DEF CallAgrees, ApprovalInv, DeleteNamesAccount
<1>3. /\ call' \in [Call -> CallState] /\ CallsSame(c)
      /\ \/ call'[c] = NoCall /\ call'[c].stage = "idle"
         \/ /\ call'[c].ask = call[c].ask /\ call'[c].stage = "answer"
            /\ call'[c].account = call[c].account /\ call'[c].awaited
      /\ \A p \in Ask : InTurn(p)'
  BY <1>1, ProceedsTo
<1>4. /\ standing' \in [Account -> {"none", "open", "closed"}]
      /\ standing'[call[c].account] = "closed"
      /\ \A b \in Account : standing'[b] = standing[b] \/ standing'[b] = "closed"
  BY <1>1, <1>2 DEF ApprovalTypeOK
<1>5. ApprovalTypeOK'
  BY <1>1, <1>2, <1>3, <1>4 DEF ApprovalTypeOK
<1>6. ApprovedIsCarriedOut' /\ DeleteNamesAccount' /\ OpenedForAsk'
  <2>1. \A q \in Ask : asked[q].action # "open" => asked[q].account \in Account
    BY <1>2 DEF ApprovalInv, DeleteNamesAccount, ApprovalTypeOK, Request
  <2>. QED
    BY <1>1, <1>4, <2>1
       DEF ApprovalInv, ApprovedIsCarriedOut, DeleteNamesAccount, OpenedForAsk
<1>7. ASSUME NEW d \in Call PROVE CallAgrees(d)'
  <2>1. CASE d = c /\ call'[c] = NoCall /\ call'[c].stage = "idle"
    <3>1. NoCall' = NoCall
      BY DEF NoCall
    <3>. QED
      BY <2>1, <3>1 DEF CallAgrees
  <2>2. CASE d = c /\ call'[c].stage = "answer"
    BY <1>1, <1>2, <1>3, <1>4, <2>2 DEF CallAgrees
  <2>3. CASE d # c
    <3>1. CallAgrees(d) /\ call'[d] = call[d]
      BY <1>3, <2>3 DEF ApprovalInv, CallsSame
    <3>2. call[d].stage = "answer" /\ asked[call[d].ask].action = "delete" =>
              call[d].account \in Account
      BY <3>1 DEF CallAgrees, ApprovalInv, DeleteNamesAccount
    <3>. QED
      BY <1>1, <1>4, <3>1, <3>2 DEF CallAgrees
  <2>. QED
    BY <1>3, <2>1, <2>2, <2>3
<1>. QED
  BY <1>3, <1>5, <1>6, <1>7 DEF ApprovalInv

\* The answer marks the request as approved, whatever it was marked by then.
LEMMA InvHears ==
    ASSUME ApprovalInv, NEW c \in Call, Hears(c)
    PROVE  ApprovalInv'
<1>1. PICK q \in Ask : call[c].ask = q
  BY Working DEF Hears
<1>2. /\ call[c].stage = "answer" /\ Marked(q, "approved", call[c].account)
      /\ call' = [call EXCEPT ![c] = NoCall]
      /\ UNCHANGED <<standing, limited, openedFor, unsure, unclosed>>
  BY <1>1 DEF Hears
<1>3. /\ ApprovalTypeOK /\ CallAgrees(c) /\ InTurn(q)
      /\ q \notin unsure => Deciding(q) = {c}
      /\ call[c].account \in Account \union {NoAccount}
      /\ asked[q].action \in {"open", "delete"}
  BY <1>1, <1>2, Working, TypeParts DEF ApprovalTypeOK, Request
<1>4. /\ asked' \in [Ask -> Request]
      /\ asked'[q].status = "approved" /\ asked'[q].account = call[c].account
      /\ asked'[q].action = asked[q].action
      /\ \A p \in Ask \ {q} : asked'[p] = asked[p]
      /\ asked[q].action = "delete" => asked[q].account = call[c].account
  BY <1>1, <1>2, <1>3, TypeMarked DEF Status, CallAgrees
<1>5. /\ call' \in [Call -> CallState] /\ CallsSame(c) /\ call'[c] = NoCall
  BY <1>2, <1>3, TypeParts DEF ApprovalTypeOK, CallsSame
<1>6. call'[c].ask = NoAsk /\ call'[c].stage = "idle" /\ NoAsk \notin Ask
  BY <1>5, ApprovalAssumption DEF NoCall, ApprovalAssumption
<1>7. ApprovalTypeOK'
  BY <1>2, <1>3, <1>4, <1>5 DEF ApprovalTypeOK
<1>8. ApprovedIsCarriedOut'
  BY <1>1, <1>2, <1>3, <1>4 DEF ApprovalInv, ApprovedIsCarriedOut, CallAgrees
<1>9. DeleteNamesAccount' /\ OpenedForAsk'
  <2>1. \A a \in Account : openedFor[a] \in Ask \union {NoAsk}
    BY <1>3 DEF ApprovalTypeOK
  <2>. QED
    BY <1>2, <1>4, <2>1 DEF ApprovalInv, DeleteNamesAccount, OpenedForAsk
<1>10. ASSUME NEW d \in Call PROVE CallAgrees(d)'
  <2>1. CASE d = c
    <3>1. NoCall' = NoCall
      BY DEF NoCall
    <3>. QED
      BY <1>5, <1>6, <2>1, <3>1 DEF CallAgrees
  <2>2. CASE d # c
    <3>1. CallAgrees(d) /\ call'[d] = call[d]
      BY <1>5, <2>2 DEF ApprovalInv, CallsSame
    <3>2. call[d].stage # "idle" =>
              /\ call[d].ask \in Ask /\ asked'[call[d].ask].status # "new"
              /\ asked'[call[d].ask].action = asked[call[d].ask].action
              /\ asked[call[d].ask].action = "delete" =>
                     asked'[call[d].ask].account = asked[call[d].ask].account
      BY <1>4, <3>1 DEF CallAgrees
    <3>. QED
      BY <1>2, <3>1, <3>2 DEF CallAgrees
  <2>. QED
    BY <2>1, <2>2
<1>11. ASSUME NEW p \in Ask PROVE InTurn(p)'
  <2>1. Opened(p)' = Opened(p)
    BY <1>2 DEF Opened
  <2>2. CASE p # q
    BY <1>1, <1>2, <1>4, <1>5, <1>6, <2>1, <2>2, InTurnKept
  <2>3. CASE p = q /\ q \notin unsure
    <3>1. Deciding(q) = {c} => Deciding(q)' = {}
      BY <1>5, <1>6, DecidingAfter
    <3>2. Opened(q) = IF asked[q].action = "open" THEN {call[c].account} ELSE {}
      BY <1>2, <1>3, <2>3 DEF InTurn
    <3>. QED
      BY <1>3, <1>4, <2>1, <2>3, <3>1, <3>2 DEF InTurn
  <2>4. CASE p = q /\ q \in unsure
    BY <1>2, <2>4 DEF InTurn
  <2>. QED
    BY <2>2, <2>3, <2>4
<1>. QED
  BY <1>7, <1>8, <1>9, <1>10, <1>11 DEF ApprovalInv

-----------------------------------------------------------------------------
LEMMA ApprovalInvNext == ApprovalInv /\ [ApprovalNext]_approvalVars => ApprovalInv'
<1> SUFFICES ASSUME ApprovalInv, [ApprovalNext]_approvalVars PROVE ApprovalInv'
  OBVIOUS
<1>1. ASSUME NEW q \in Ask,
             \/ CreateAccountOpenRequest(q) \/ CreateAccountDeleteRequest(q)
             \/ Reject(q) \/ ApproveUnlistedDelete(q)
      PROVE  ApprovalInv'
  BY <1>1, InvOpenRequest, InvDeleteRequest, InvReject, InvUnlisted
<1>2. ASSUME NEW q \in Ask, NEW c \in Call,
             ApproveOpen(c, q) \/ ApproveListedDelete(c, q)
      PROVE  ApprovalInv'
  BY <1>2, InvStarts DEF ApproveOpen, ApproveListedDelete
<1>3. ASSUME NEW c \in Call,
             \/ Hears(c) \/ GivesUp(c)
             \/ CreateAccount(c) \/ SaveLimits(c) \/ CloseAccount(c) \/ CallFails(c)
      PROVE  ApprovalInv'
  BY <1>3, InvHears, InvGivesUp, InvCreateAccount, InvSaveLimits, InvCloseAccount,
     InvCallFails
<1>4. ASSUME NEW a \in Account, SetStatus(a) PROVE ApprovalInv'
  BY <1>4, InvSetStatus
<1>5. CASE UNCHANGED approvalVars
  <2>1. UNCHANGED <<asked, standing, limited, call, openedFor, unsure, unclosed>>
    BY <1>5 DEF approvalVars
  <2>2. NoCall' = NoCall
    BY DEF NoCall
  <2>3. \A c \in Call : CallAgrees(c)'
    BY <2>1, <2>2 DEF ApprovalInv, CallAgrees
  <2>4. ASSUME NEW q \in Ask PROVE InTurn(q)'
    <3>1. Deciding(q)' = Deciding(q) /\ Opened(q)' = Opened(q)
      BY <2>1 DEF Deciding, Opened
    <3>. QED
      BY <2>1, <3>1 DEF ApprovalInv, InTurn
  <2>. QED
    BY <2>1, <2>3, <2>4 DEF ApprovalInv, ApprovalTypeOK, ApprovedIsCarriedOut,
                            DeleteNamesAccount, OpenedForAsk
<1>. QED
  BY <1>1, <1>2, <1>3, <1>4, <1>5 DEF ApprovalNext

LEMMA ApprovalInvariant == ApprovalSpec => []ApprovalInv
  BY ApprovalInvInit, ApprovalInvNext, PTL DEF ApprovalSpec

-----------------------------------------------------------------------------
\* Every reachable state has the types that the store and the tables declare.
THEOREM ApprovalTypeCorrect == ApprovalSpec => []ApprovalTypeOK
<1>1. ApprovalInv => ApprovalTypeOK
  BY DEF ApprovalInv
<1>. QED
  BY <1>1, ApprovalInvariant, PTL

\* Whatever decisions cross and calls break off, an approved request to open has
\* its account with limits, and one to delete its account closed, or not listed.
THEOREM ApprovedCarriedOut == ApprovalSpec => []ApprovedIsCarriedOut
<1>1. ApprovalInv => ApprovedIsCarriedOut
  BY DEF ApprovalInv
<1>. QED
  BY <1>1, ApprovalInvariant, PTL

\* A request decided once at a time, whose call comes back, opens one account if
\* it is approved and none if it is not.
THEOREM OneAccountPerRequest == ApprovalSpec => []OneAccountPerRequestInTurn
<1>1. ApprovalInv => OneAccountPerRequestInTurn
  <2> SUFFICES ASSUME ApprovalInv, NEW q \in Ask, q \notin unsure, Deciding(q) = {}
               PROVE  Cardinality(Opened(q)) =
                          IF asked[q].action = "open" /\ asked[q].status = "approved"
                          THEN 1 ELSE 0
    BY DEF OneAccountPerRequestInTurn, Opened
  <2>1. Opened(q) = IF asked[q].action = "open" /\ asked[q].status = "approved"
                    THEN {asked[q].account} ELSE {}
    BY DEF ApprovalInv, InTurn
  <2>. QED
    BY <2>1, FS_EmptySet, FS_Singleton
<1>. QED
  BY <1>1, ApprovalInvariant, PTL

-----------------------------------------------------------------------------
(* The composition: every behaviour is one of each part.                   *)

LEMMA PortalSteps ==
    ASSUME [Next]_portalVars
    PROVE  [PageNext]_pageVars /\ [KycNext]_kycVars /\ [ApprovalNext]_approvalVars
BY DEF Next, Page, Kyc, Approvals, portalVars

LEMMA PortalSpecs == Spec => PageSpec /\ KycSpec /\ ApprovalSpec
<1>1. Init => PageInit /\ KycInit /\ ApprovalInit
  BY DEF Init
<1>. QED
  BY <1>1, PortalSteps, PTL DEF Spec, PageSpec, KycSpec, ApprovalSpec

\* Every variable of the tab, of the review and of the approvals has values of its
\* type.
THEOREM PortalTypeCorrect == Spec => []TypeOK
<1>1. PageTypeOK /\ KycTypeOK /\ ApprovalTypeOK => TypeOK
  BY DEF TypeOK
<1>. QED
  BY <1>1, PortalSpecs, PageTypeCorrect, KycTypeCorrect, ApprovalTypeCorrect, PTL
=============================================================================
