----------------------------- MODULE TransferSaga -----------------------------
(***************************************************************************)
(* transaction-service: the handlers of POST /transfer, /deposit and       *)
(* /withdrawal, which record a transaction and move its balances with      *)
(* calls to account-service, and the administrators' POST /:id/reverse.    *)
(*                                                                         *)
(* account-service reads a balance, checks it and saves the new one in     *)
(* separate statements, so that the balance an update starts from may be   *)
(* an old one; a reversal locks the rows it moves.  What else writes those *)
(* rows meanwhile is in AccountRows.  A database write that reports an     *)
(* error has written nothing.                                              *)
(***************************************************************************)
EXTENDS LedgerFees, FiniteSetsExt

CONSTANTS
    Transaction,    \* POST requests, and the rows they create
    Reverser,       \* reverse requests by administrators
    Offered,        \* the transactions customers may ask for
    OpeningBalance,
    SingleLimit, DailyLimit, \* the same for every account
    MaxAttempts     \* 1 + retries (3)

ASSUME SagaAssumption ==
    /\ Offered \subseteq Job
    /\ OpeningBalance \in [Account -> Nat]
    /\ SingleLimit \in Nat /\ DailyLimit \in Nat
    /\ MaxAttempts \in Nat \ {0}

\* A day has finitely many requests.
ASSUME FiniteAssumption == IsFiniteSet(Transaction) /\ IsFiniteSet(Reverser)

LegCall == Transaction \X Leg
Call == LegCall \union Reverser

ASSUME CallsAssumption ==
    /\ LegCall \intersect Reverser = {}
    /\ Transaction \intersect Reverser = {}

VARIABLES
    job,      \* what each POST asks for
    pc,       \* where each handler stands
    seen,     \* the payer's balance as validateAccount reported it
    status,   \* the rows of the transactions table
    ledger,   \* the transactions whose ledger entries are committed
    target,   \* the transaction each administrator reverses
    balance,  \* account-service's balances
    found,    \* the balances that updateBalance may have read for each call
    \* History variables: read by properties only.
    overlapped, \* a handler passed the limits while another of the same payer was at work
    crossed,    \* two calls that move one balance were under way at once
    \* The HTTP calls.
    phase, attempts, late, served

INSTANCE RemoteCalls

callVars == <<phase, attempts, late, served>>
sagaVars == <<job, pc, seen, status, ledger, target, overlapped>>
trackVars == <<found, crossed>>
vars == <<job, pc, seen, status, ledger, target, overlapped, balance,
          phase, attempts, late, served, found, crossed>>

TransactionStatus ==
    {"none", "pending", "processing", "completed", "failed", "reversed"}

HandlerStep ==
    {"validate", "limits", "create", "process", "post", "send", "calling",
     "fail", "read", "reversing", "done", "abandoned"}

Handler == Transaction \union Reverser

Init ==
    /\ job \in [Transaction -> Offered]
    /\ target \in [Reverser -> Transaction]
    /\ pc = [h \in Handler |-> IF h \in Transaction THEN "validate" ELSE "read"]
    /\ seen = [t \in Transaction |-> 0]
    /\ status = [t \in Transaction |-> "none"]
    /\ ledger = {}
    /\ balance = OpeningBalance
    /\ found = [c \in LegCall |-> {}]
    /\ overlapped = FALSE /\ crossed = FALSE
    /\ CallsInit

-----------------------------------------------------------------------------
(* The POST handlers.                                                      *)

Goto(h, from, to) == pc[h] = from /\ pc' = [pc EXCEPT ![h] = to]

SetStatus(t, s) == status' = [status EXCEPT ![t] = s]

\* validateAccount, ownership, status, KYC and currency checks.
Validate(t) ==
    /\ Goto(t, "validate", "limits")
    /\ seen' = [seen EXCEPT ![t] = IF job[t].from \in Account
                                    THEN balance[job[t].from] ELSE 0]
    /\ UNCHANGED <<job, status, ledger, target, overlapped, balance, callVars>>

\* One of them fails, or account-service does not answer.
Invalid(t) ==
    /\ Goto(t, "validate", "done")
    /\ UNCHANGED <<job, seen, status, ledger, target, overlapped, balance, callVars>>

\* Transactions of account a that count for today's limit.
Outgoing(a) == {t \in Transaction : job[t].from = a /\ status[t] = "completed"}

DailyOutgoing(a) == MapThenSumSet(LAMBDA t : job[t].amount, Outgoing(a))

\* Mutant: the daily total leaves out the amount at hand.
WithinLimitsWithoutAmount(t) ==
    job[t].type # "deposit" =>
        /\ seen[t] >= Total(job[t])
        /\ job[t].amount <= SingleLimit
        /\ DailyOutgoing(job[t].from) <= DailyLimit

\* assertTransferLimits, which deposits do not go through.
WithinLimits(t) ==
    job[t].type # "deposit" =>
        /\ seen[t] >= Total(job[t])
        /\ job[t].amount <= SingleLimit
        /\ DailyOutgoing(job[t].from) + job[t].amount <= DailyLimit

\* Past the limits and not yet counted by them.
AtWork(t) == pc[t] \in {"create", "process", "post", "send", "calling"}

Overlaps(t) ==
    \E u \in Transaction \ {t} :
        AtWork(u) /\ job[u].from = job[t].from /\ job[t].from \in Account

CheckLimits(t) ==
    /\ Goto(t, "limits", "create")
    /\ WithinLimits(t)
    /\ overlapped' = (overlapped \/ Overlaps(t))
    /\ UNCHANGED <<job, seen, status, ledger, target, balance, callVars>>

LimitRefused(t) ==
    /\ Goto(t, "limits", "done")
    /\ ~WithinLimits(t)
    /\ UNCHANGED <<job, seen, status, ledger, target, overlapped, balance, callVars>>

CreatePending(t) ==
    /\ Goto(t, "create", "process")
    /\ SetStatus(t, "pending")
    /\ UNCHANGED <<job, seen, ledger, target, overlapped, balance, callVars>>

\* No row yet: the handler has nothing to mark as failed.
CreateFails(t) ==
    /\ Goto(t, "create", "done")
    /\ UNCHANGED <<job, seen, status, ledger, target, overlapped, balance, callVars>>

StartProcessing(t) ==
    /\ Goto(t, "process", "post")
    /\ SetStatus(t, "processing")
    /\ UNCHANGED <<job, seen, ledger, target, overlapped, balance, callVars>>

\* createEntries, one database transaction.
PostLedger(t) ==
    /\ Goto(t, "post", "send")
    /\ Balanced(Entries(job[t]))
    /\ ledger' = ledger \union {t}
    /\ UNCHANGED <<job, seen, status, target, overlapped, balance, callVars>>

LegCalls(t) == {<<t, l>> : l \in Legs(job[t])}

\* Both updateBalance calls start at once (Promise.all).
SendLegs(t) ==
    /\ Goto(t, "send", "calling")
    /\ Start(LegCalls(t))
    /\ UNCHANGED <<job, seen, status, ledger, target, overlapped, balance>>

\* Mutant: one completed call is enough (Promise.race).
CompleteOnFirst(t) ==
    /\ Goto(t, "calling", "done")
    /\ \E c \in LegCalls(t) : phase[c] = "ok"
    /\ SetStatus(t, "completed")
    /\ UNCHANGED <<job, seen, ledger, target, overlapped, balance, callVars>>

Complete(t) ==
    /\ Goto(t, "calling", "done")
    /\ \A c \in LegCalls(t) : phase[c] = "ok"
    /\ SetStatus(t, "completed")
    /\ UNCHANGED <<job, seen, ledger, target, overlapped, balance, callVars>>

\* Mutant: the handler waits for every call to fail.
LegFailedOnlyIfAllFail(t) ==
    /\ Goto(t, "calling", "fail")
    /\ \A c \in LegCalls(t) : phase[c] = "error"
    /\ UNCHANGED <<job, seen, status, ledger, target, overlapped, balance, callVars>>

\* Promise.all rejects with the first error; the other call goes on.
LegFailed(t) ==
    /\ Goto(t, "calling", "fail")
    /\ \E c \in LegCalls(t) : phase[c] = "error"
    /\ UNCHANGED <<job, seen, status, ledger, target, overlapped, balance, callVars>>

\* A write of the handler fails: the status, the ledger, or COMPLETED after
\* every balance has moved.
WriteFails(t) ==
    /\ \/ Goto(t, "process", "fail")
       \/ Goto(t, "post", "fail")
       \/ Goto(t, "calling", "fail") /\ \A c \in LegCalls(t) : phase[c] = "ok"
    /\ UNCHANGED <<job, seen, status, ledger, target, overlapped, balance, callVars>>

\* failTransaction.
MarkFailed(t) ==
    /\ Goto(t, "fail", "done")
    /\ SetStatus(t, "failed")
    /\ UNCHANGED <<job, seen, ledger, target, overlapped, balance, callVars>>

\* failTransaction cannot write either: the row stays as it is.
MarkFailedFails(t) ==
    /\ Goto(t, "fail", "abandoned")
    /\ UNCHANGED <<job, seen, status, ledger, target, overlapped, balance, callVars>>

Handle(t) ==
    \/ Validate(t) \/ Invalid(t) \/ CheckLimits(t) \/ LimitRefused(t)
    \/ CreatePending(t) \/ CreateFails(t) \/ StartProcessing(t) \/ PostLedger(t)
    \/ SendLegs(t) \/ Complete(t) \/ LegFailed(t) \/ WriteFails(t)
    \/ MarkFailed(t) \/ MarkFailedFails(t)

-----------------------------------------------------------------------------
(* POST /:id/reverse.                                                      *)

\* Mutant: a transaction that is still processing can be reversed.
ReadStarted(v) ==
    /\ Goto(v, "read", "reversing")
    /\ status[target[v]] \in {"processing", "completed"}
    /\ Start({v})
    /\ UNCHANGED <<job, seen, status, ledger, target, overlapped, balance>>

ReadCompleted(v) ==
    /\ Goto(v, "read", "reversing")
    /\ status[target[v]] = "completed"
    /\ Start({v})
    /\ UNCHANGED <<job, seen, status, ledger, target, overlapped, balance>>

ReadOther(v) ==
    /\ Goto(v, "read", "done")
    /\ status[target[v]] # "completed"
    /\ UNCHANGED <<job, seen, status, ledger, target, overlapped, balance, callVars>>

MarkReversed(v) ==
    /\ Goto(v, "reversing", "done")
    /\ phase[v] = "ok"
    /\ SetStatus(target[v], "reversed")
    /\ UNCHANGED <<job, seen, ledger, target, overlapped, balance, callVars>>

\* The balance reversal failed, or the write of REVERSED does.
ReverseFails(v) ==
    /\ Goto(v, "reversing", "done")
    /\ phase[v] \in {"ok", "error"}
    /\ UNCHANGED <<job, seen, status, ledger, target, overlapped, balance, callVars>>

Reverse(v) == ReadCompleted(v) \/ ReadOther(v) \/ MarkReversed(v) \/ ReverseFails(v)

-----------------------------------------------------------------------------
(* account-service and the network.                                        *)

\* What a call adds to the balance of a.
Effect(c, a) ==
    IF c \in Reverser THEN ReversalEffect(job[target[c]], a)
    ELSE LegEffect(job[c[1]], c[2], a)

\* Mutant: account-service does not look at the balance.
CoveredAlways(c, before) == TRUE

\* updateBalance and reverse-balance take money only from a balance that
\* covers it.
Covered(c, before) ==
    \A a \in Account : Effect(c, a) < 0 => before[a] + Effect(c, a) >= 0

\* The account whose balance a call of updateBalance moves.
LegAccount(c) == IF c[2] = "debit" THEN job[c[1]].from ELSE job[c[1]].to

\* The balances a call starts from: updateBalance has read its account's at some
\* time since it was sent, reverse-balance reads both rows under their locks.
Before(c) ==
    IF c \in Reverser THEN {balance}
    ELSE {[balance EXCEPT ![LegAccount(c)] = b] : b \in found[c]}

CarryOut(c) ==
    \E before \in Before(c) :
        /\ Covered(c, before)
        /\ Accept(c) \/ AcceptLate(c)
        /\ balance' = [a \in Account |->
                          IF Effect(c, a) = 0 THEN balance[a] ELSE before[a] + Effect(c, a)]
        /\ UNCHANGED sagaVars

\* A refusal is a matter of the account: too little money, or deleted.
Network(c) ==
    /\ Refuse(c) \/ DropLate(c) \/ Receive(c) \/ NetworkError(c) \/ TimeOut(c)
    /\ UNCHANGED <<sagaVars, balance>>

CallsOf(h) == IF h \in Transaction THEN LegCalls(h) ELSE {h}

\* The instance that runs the handler crashes.
Crash(h) ==
    /\ pc[h] \notin {"done", "abandoned"}
    /\ pc' = [pc EXCEPT ![h] = "abandoned"]
    /\ Abandon(CallsOf(h))
    /\ UNCHANGED <<job, seen, status, ledger, target, overlapped, balance>>

\* A copy of the request may be at work in account-service.
UnderWay(c) == phase[c] = "sent" \/ late[c] > 0

Crossing ==
    \E c, d \in Call :
        /\ c # d /\ UnderWay(c) /\ UnderWay(d)
        /\ \E a \in Account : Effect(c, a) # 0 /\ Effect(d, a) # 0

\* A new request is the only copy of its call when no earlier one is left; the
\* copies there are of a call are not told apart.
SentAnew(c) == attempts'[c] # attempts[c] /\ late'[c] = 0

\* updateBalance reads the row at any time while a copy is under way.
Track ==
    /\ found' = [c \in LegCall |->
           IF ~UnderWay(c)' THEN {}
           ELSE (IF SentAnew(c) THEN {} ELSE found[c]) \union {balance[LegAccount(c)]'}]
    /\ crossed' = (crossed \/ Crossing')

Over == (\A h \in Handler : pc[h] \in {"done", "abandoned"})
            /\ (\A c \in Call : ~Waiting(c) /\ late[c] = 0)

SagaStep ==
    \/ \E t \in Transaction : Handle(t)
    \/ \E v \in Reverser : Reverse(v)
    \/ \E c \in Call : CarryOut(c) \/ Network(c)
    \/ \E h \in Handler : Crash(h)

Next ==
    \/ SagaStep /\ Track
    \/ Over /\ UNCHANGED vars

Spec == Init /\ [][Next]_vars

\* The event loop runs every handler on; a call is served, answered or timed
\* out (5 s), and its attempts are bounded. Nothing makes a crash happen.
Fairness ==
    /\ \A t \in Transaction : WF_vars(Handle(t) /\ Track)
    /\ \A v \in Reverser : WF_vars(Reverse(v) /\ Track)
    /\ \A c \in Call : WF_vars((CarryOut(c) \/ Network(c)) /\ Track)

FairSpec == Spec /\ Fairness

-----------------------------------------------------------------------------
(* Properties.                                                             *)

SagaTypeOK ==
    /\ job \in [Transaction -> Offered]
    /\ target \in [Reverser -> Transaction]
    /\ pc \in [Handler -> HandlerStep]
    /\ seen \in [Transaction -> Nat]
    /\ status \in [Transaction -> TransactionStatus]
    /\ ledger \in SUBSET Transaction
    /\ balance \in [Account -> Nat]
    /\ overlapped \in BOOLEAN
    /\ phase \in [Call -> Phase]
    /\ attempts \in [Call -> 0..MaxAttempts]
    /\ late \in [Call -> Nat]
    /\ served \in [Call -> Nat]

TypeOK ==
    /\ SagaTypeOK
    /\ found \in [LegCall -> SUBSET Nat]
    /\ crossed \in BOOLEAN

\* The transactions whose balances account-service has moved back.
Undone == {target[v] : v \in {w \in Reverser : served[w] > 0}}

\* A status is never ahead of the money: COMPLETED and REVERSED mean that the
\* ledger has the transaction and that every balance update was carried out at
\* least once, REVERSED also that a balance reversal was, whatever was lost,
\* repeated or timed out on the way.
StatusTellsMoves ==
    \A t \in Transaction :
        /\ status[t] \in {"completed", "reversed"} =>
               t \in ledger /\ \A c \in LegCalls(t) : served[c] > 0
        /\ status[t] = "reversed" => t \in Undone

\* Retries make a call at-least-once: only a call that was answered at its
\* first attempt is known to have been carried out exactly once, and no call
\* is carried out more often than it was sent.
OnceAtFirstAttempt ==
    \A c \in Call :
        /\ served[c] + late[c] <= attempts[c]
        /\ phase[c] = "ok" /\ attempts[c] = 1 => served[c] = 1

\* A day without retries, failures and second reversals.
Quiet ==
    /\ \A h \in Handler : pc[h] = "done"
    /\ \A c \in Call : phase[c] \in {"idle", "ok"} /\ attempts[c] <= 1
    /\ \A t \in Transaction : status[t] \in {"none", "completed", "reversed"}
    /\ \A v \in Reverser : phase[v] = "ok" =>
          /\ status[target[v]] = "reversed"
          /\ \A w \in Reverser \ {v} : target[w] = target[v] => phase[w] = "idle"

\* On such a day account-service's balances, the ledger's entries and the
\* reversals, computed in three places of the code, agree on every account, as
\* long as no two calls that move one balance were under way at once: of two
\* updates of one account that overlap account-service may lose one. (So it may
\* with another save of the account, which is not in this module.)
QuietBooksAgree ==
    Quiet /\ ~crossed => \A a \in Account :
        balance[a] - OpeningBalance[a] =
            MapThenSumSet(LAMBDA t : Posted(Entries(job[t]), a),
                          {t \in Transaction : status[t] = "completed"})

\* 'Daily transfer limit exceeded': what an account has sent today stays within
\* its limit.
DailyLimitKept == \A a \in Account : DailyOutgoing(a) <= DailyLimit

\* It does as long as no two handlers of one payer overlap between the query
\* of the daily total and the end of their work.
DailyLimitKeptInTurn == ~overlapped => DailyLimitKept

\* 'Only completed transactions can be reversed': when account-service moves
\* the money of a reversal, the transaction is COMPLETED.
OnlyCompletedAreReversed ==
    [][\A v \in Reverser :
          served'[v] > served[v] => status[target[v]] = "completed"]_vars

\* Rows, ledger and balance moves implement TransactionLifecycle.
Life == INSTANCE TransactionLifecycle WITH
    legs   <- [t \in Transaction |-> Legs(job[t])],
    posted <- ledger,
    moved  <- [t \in Transaction |->
                  {l \in Legs(job[t]) : served[<<t, l>>] > 0}],
    undone <- Undone

ImplementsLifecycle == Life!LifeSpec

\* A transaction does not stay PENDING or PROCESSING, unless its instance
\* crashed or the write of FAILED itself failed.
RowsResolve ==
    \A t \in Transaction :
        status[t] \in {"pending", "processing"} ~>
            \/ status[t] \in {"completed", "failed", "reversed"}
            \/ pc[t] = "abandoned"
=============================================================================
