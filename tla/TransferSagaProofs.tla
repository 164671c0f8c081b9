-------------------------- MODULE TransferSagaProofs --------------------------
(***************************************************************************)
(* Proofs about LedgerFees, for every transaction the handlers accept, and *)
(* about TransferSaga, for any transactions, administrators, amounts,      *)
(* limits and number of attempts.                                          *)
(***************************************************************************)
EXTENDS TransferSaga, FiniteSums

-----------------------------------------------------------------------------
(* Fees, ledger entries, balance updates and reversals.                    *)

\* Clamping keeps the order.
LEMMA Clamp ==
    ASSUME NEW x \in Int, NEW y \in Int, NEW low \in Int, NEW high \in Int,
           x <= y, low <= high
    PROVE  /\ AtMost(AtLeast(x, low), high) \in Int
           /\ low <= AtMost(AtLeast(x, low), high)
           /\ AtMost(AtLeast(x, low), high) <= high
           /\ AtMost(AtLeast(x, low), high) <= AtMost(AtLeast(y, low), high)
  BY DEF AtLeast, AtMost

\* FeeService.calculate: a fee is never negative, a transfer costs between
\* 0.1000 and 25.0000 and a larger transfer never costs less.
THEOREM FeeBounds ==
    ASSUME NEW amount \in Nat, NEW more \in Nat, amount <= more
    PROVE  /\ Fee("deposit", amount) = 0
           /\ Fee("withdrawal", amount) = 15000
           /\ Fee("transfer", amount) \in Int
           /\ 1000 <= Fee("transfer", amount)
           /\ Fee("transfer", amount) <= 250000
           /\ Fee("transfer", amount) <= Fee("transfer", more)
<1> DEFINE x == (amount + 500) \div 1000
           y == (more + 500) \div 1000
<1>1. x \in Int /\ y \in Int /\ x <= y
  BY SMT
<1>2. /\ Fee("deposit", amount) = 0
      /\ Fee("withdrawal", amount) = 15000
      /\ Fee("transfer", amount) = AtMost(AtLeast(x, 1000), 250000)
      /\ Fee("transfer", more) = AtMost(AtLeast(y, 1000), 250000)
  BY SMT DEF Fee
<1> HIDE DEF x, y
<1>3. /\ AtMost(AtLeast(x, 1000), 250000) \in Int
      /\ 1000 <= AtMost(AtLeast(x, 1000), 250000)
      /\ AtMost(AtLeast(x, 1000), 250000) <= 250000
      /\ AtMost(AtLeast(x, 1000), 250000) <= AtMost(AtLeast(y, 1000), 250000)
  BY <1>1, Clamp, SMT
<1>. QED
  BY <1>2, <1>3, SMT

\* Fees and totals are amounts again.
LEMMA JobAmounts ==
    ASSUME NEW j \in Job
    PROVE  /\ j.type \in TransactionType
           /\ j.from \in Account \union {NoAccount}
           /\ j.to \in Account \union {NoAccount}
           /\ j.amount \in Nat /\ j.amount > 0
           /\ FeeOf(j) \in Nat
           /\ Total(j) \in Nat
<1>1. /\ j.type \in TransactionType /\ j.amount \in Nat /\ j.amount > 0
      /\ j.from \in Account \union {NoAccount}
      /\ j.to \in Account \union {NoAccount}
  BY DEF Job
<1>2. FeeOf(j) \in Nat
  <2>1. /\ Fee("deposit", j.amount) \in Nat
        /\ Fee("withdrawal", j.amount) \in Nat
        /\ Fee("transfer", j.amount) \in Nat
    <3>1. j.amount <= j.amount
      BY <1>1
    <3>2. Fee("deposit", j.amount) = 0 /\ Fee("withdrawal", j.amount) = 15000
      BY SMT DEF Fee
    <3>3. Fee("transfer", j.amount) \in Int /\ 1000 <= Fee("transfer", j.amount)
      BY <1>1, <3>1, FeeBounds, SMT
    <3>. QED
      BY <3>2, <3>3, SMT
  <2>. QED
    BY <1>1, <2>1, SMT DEF FeeOf, TransactionType
<1>. QED
  BY <1>1, <1>2 DEF Total

\* assertBalanced never refuses what buildEntries builds: a transaction cannot
\* fail between its row and its balance updates for unbalanced entries.
THEOREM EntriesAreBalanced ==
    ASSUME NEW j \in Job
    PROVE  Balanced(Entries(j))
<1>1. j.amount \in Nat /\ FeeOf(j) \in Nat
  BY JobAmounts
<1>2. CASE j.type = "deposit"
  BY <1>1, <1>2 DEF Balanced, Entries
<1>3. CASE j.type # "deposit"
  BY <1>1, <1>3 DEF Balanced, Entries, Total
<1>. QED
  BY <1>2, <1>3

\* What ledger.service posts on a customer's account is what the handler's
\* balance updates do to it, whatever the type and the amount.
THEOREM LedgerAgreesWithLegs ==
    ASSUME NEW j \in Job, NEW a \in Account
    PROVE  Posted(Entries(j), a) =
               (IF "debit" \in Legs(j) THEN LegEffect(j, "debit", a) ELSE 0)
                   + (IF "credit" \in Legs(j) THEN LegEffect(j, "credit", a) ELSE 0)
<1>1. /\ j.amount \in Nat /\ Total(j) \in Nat
      /\ j.type \in TransactionType
  BY JobAmounts
<1>2. a # Clearing /\ a # NoAccount
  BY AccountsAssumption
<1>3. CASE j.type = "deposit"
  BY <1>1, <1>2, <1>3 DEF Posted, Entries, Legs, Leg, LegEffect
<1>4. CASE j.type = "withdrawal"
  BY <1>1, <1>2, <1>4 DEF Posted, Entries, Legs, Leg, LegEffect
<1>5. CASE j.type = "transfer"
  BY <1>1, <1>2, <1>5 DEF Posted, Entries, Legs, Leg, LegEffect
<1>. QED
  BY <1>1, <1>3, <1>4, <1>5 DEF TransactionType

\* applyBalanceReversal takes back exactly what the transaction did, fee
\* included, on every account.
THEOREM ReversalUndoesTransaction ==
    ASSUME NEW j \in Job, NEW a \in Account
    PROVE  Posted(Entries(j), a) + ReversalEffect(j, a) = 0
<1>1. /\ j.amount \in Nat /\ Total(j) \in Nat
      /\ j.type \in TransactionType
  BY JobAmounts
<1>2. a # Clearing /\ a # NoAccount
  BY AccountsAssumption
<1>3. CASE j.type = "deposit"
  BY <1>1, <1>2, <1>3 DEF Posted, Entries, ReversalEffect
<1>4. CASE j.type = "withdrawal"
  BY <1>1, <1>2, <1>4 DEF Posted, Entries, ReversalEffect
<1>5. CASE j.type = "transfer"
  BY <1>1, <1>2, <1>5 DEF Posted, Entries, ReversalEffect
<1>. QED
  BY <1>1, <1>3, <1>4, <1>5 DEF TransactionType

-----------------------------------------------------------------------------
(* The saga.                                                               *)

\* A call is carried out at most once per attempt, and an accepted one was.
CallsSound ==
    \A c \in Call :
        /\ served[c] + late[c] + (IF phase[c] = "sent" THEN 1 ELSE 0) <= attempts[c]
        /\ phase[c] \in {"accepted", "ok"} => served[c] > 0
        /\ phase[c] = "idle" => attempts[c] = 0

\* Before its handler sends them, the calls are idle.
NotStarted ==
    /\ \A t \in Transaction :
          pc[t] \in {"validate", "limits", "create", "process", "post", "send"} =>
              \A l \in Leg : phase[<<t, l>>] = "idle"
    /\ \A v \in Reverser : pc[v] = "read" => phase[v] = "idle"

\* The row is where its handler has brought it.
RowAtStep ==
    \A t \in Transaction :
        /\ pc[t] \in {"validate", "limits", "create"} => status[t] = "none"
        /\ pc[t] = "process" => status[t] = "pending"
        /\ pc[t] \in {"post", "send", "calling"} => status[t] = "processing"
        /\ pc[t] = "fail" => status[t] \in {"pending", "processing"}

\* Balances move only for posted transactions, and back only for completed
\* ones.
CallsFollowRows ==
    /\ \A t \in Transaction :
          /\ pc[t] \in {"send", "calling"} => t \in ledger
          /\ \A l \in Leg :
                phase[<<t, l>>] # "idle" => t \in ledger /\ l \in Legs(job[t])
    /\ \A v \in Reverser :
          phase[v] # "idle" => status[target[v]] \in {"completed", "reversed"}

\* The inductive invariant.
IInv ==
    /\ SagaTypeOK
    /\ CallsSound
    /\ NotStarted
    /\ RowAtStep
    /\ CallsFollowRows
    /\ StatusTellsMoves

\* The variables that follow every step.
Tracked ==
    /\ found \in [LegCall -> SUBSET Nat]
    /\ crossed \in BOOLEAN

-----------------------------------------------------------------------------
(* Calls and their effects.                                                *)

LEMMA CallFacts ==
    /\ \A t \in Transaction, l \in Leg : <<t, l>> \in Call
    /\ \A t \in Transaction : LegCalls(t) \subseteq LegCall
    /\ LegCall \subseteq Call /\ Reverser \subseteq Call
    /\ Transaction \subseteq Handler /\ Reverser \subseteq Handler
    /\ \A t \in Transaction : t \notin Reverser
    /\ \A c \in LegCall : c \notin Reverser
  BY CallsAssumption DEF Call, LegCall, LegCalls, Legs, Handler

LEMMA LegCallsAre ==
    ASSUME NEW t \in Transaction, NEW c
    PROVE  c \in LegCalls(t) <=> \E l \in Legs(job[t]) : c = <<t, l>>
  BY DEF LegCalls

LEMMA EffectInt ==
    ASSUME SagaTypeOK, NEW c \in Call, NEW a \in Account
    PROVE  Effect(c, a) \in Int
<1>1. CASE c \in Reverser
  <2>1. job[target[c]] \in Job
    BY <1>1, SagaAssumption DEF SagaTypeOK
  <2>2. ReversalEffect(job[target[c]], a) \in Int
    BY <2>1, JobAmounts DEF ReversalEffect
  <2>. QED
    BY <1>1, <2>2 DEF Effect
<1>2. CASE c \notin Reverser
  <2>1. c[1] \in Transaction
    BY <1>2 DEF Call, LegCall
  <2>2. job[c[1]] \in Job
    BY <2>1, SagaAssumption DEF SagaTypeOK
  <2>3. LegEffect(job[c[1]], c[2], a) \in Int
    BY <2>2, JobAmounts DEF LegEffect
  <2>. QED
    BY <1>2, <2>3 DEF Effect
<1>. QED
  BY <1>1, <1>2

\* No account-service request leaves a negative balance.
LEMMA CarriedBalances ==
    ASSUME SagaTypeOK, Tracked, NEW c \in Call, CarryOut(c)
    PROVE  balance' \in [Account -> Nat]
<1>1. PICK before \in Before(c) :
         /\ Covered(c, before)
         /\ balance' = [a \in Account |->
                           IF Effect(c, a) = 0 THEN balance[a] ELSE before[a] + Effect(c, a)]
  BY DEF CarryOut
<1>2. before \in [Account -> Nat]
  <2>1. CASE c \in Reverser
    BY <2>1 DEF Before, SagaTypeOK
  <2>2. CASE c \notin Reverser
    <3>1. c \in LegCall
      BY <2>2 DEF Call
    <3>2. PICK b \in found[c] : before = [balance EXCEPT ![LegAccount(c)] = b]
      BY <2>2 DEF Before
    <3>3. b \in Nat
      BY <3>1 DEF Tracked
    <3>. QED
      BY <3>2, <3>3 DEF SagaTypeOK
  <2>. QED
    BY <2>1, <2>2
<1> SUFFICES ASSUME NEW a \in Account PROVE balance'[a] \in Nat
  BY <1>1
<1>3. balance[a] \in Nat /\ before[a] \in Nat /\ Effect(c, a) \in Int
  BY <1>2, EffectInt DEF SagaTypeOK
<1>4. balance'[a] = IF Effect(c, a) = 0 THEN balance[a] ELSE before[a] + Effect(c, a)
  BY <1>1
<1>5. Effect(c, a) < 0 => before[a] + Effect(c, a) >= 0
  BY <1>1 DEF Covered
<1>. QED
  BY <1>3, <1>4, <1>5
-----------------------------------------------------------------------------
LEMMA InvInit == Init => IInv
<1> SUFFICES ASSUME Init PROVE IInv
  OBVIOUS
<1>1. SagaTypeOK
  <2>1. /\ job \in [Transaction -> Offered] /\ target \in [Reverser -> Transaction]
        /\ seen \in [Transaction -> Nat] /\ balance \in [Account -> Nat]
        /\ status \in [Transaction -> TransactionStatus]
        /\ ledger \in SUBSET Transaction /\ overlapped \in BOOLEAN
    BY SagaAssumption DEF Init, TransactionStatus
  <2>2. pc \in [Handler -> HandlerStep]
    BY DEF Init, HandlerStep
  <2>3. /\ phase \in [Call -> Phase] /\ attempts \in [Call -> 0..MaxAttempts]
        /\ late \in [Call -> Nat] /\ served \in [Call -> Nat]
    BY SagaAssumption DEF Init, CallsInit, Phase
  <2>. QED
    BY <2>1, <2>2, <2>3 DEF SagaTypeOK
<1>2. CallsSound
  BY DEF Init, CallsInit, CallsSound
<1>3. NotStarted /\ CallsFollowRows
  BY CallFacts DEF Init, CallsInit, NotStarted, CallsFollowRows, Handler
<1>4. RowAtStep /\ StatusTellsMoves
  BY CallFacts DEF Init, RowAtStep, StatusTellsMoves, Handler
<1>. QED
  BY <1>1, <1>2, <1>3, <1>4 DEF IInv

\* A handler that ends, or turns to failTransaction, changes nothing else.
LEMMA InvEnd ==
    ASSUME IInv, NEW h \in Handler, NEW to \in {"done", "abandoned", "fail"},
           pc' = [pc EXCEPT ![h] = to],
           to = "fail" /\ h \in Transaction =>
               status[h] \in {"pending", "processing"},
           UNCHANGED <<job, seen, status, ledger, target, overlapped, balance, callVars>>
    PROVE  IInv'
<1> USE DEF IInv, callVars
<1>1. SagaTypeOK'
  BY DEF SagaTypeOK, HandlerStep
<1>2. CallsSound'
  BY DEF CallsSound
<1>3. NotStarted'
  BY CallFacts DEF SagaTypeOK, NotStarted
<1>4. RowAtStep'
  BY CallFacts DEF SagaTypeOK, RowAtStep
<1>5. CallsFollowRows'
  BY CallFacts DEF SagaTypeOK, CallsFollowRows
<1>6. StatusTellsMoves'
  BY DEF StatusTellsMoves, LegCalls, Undone
<1>. QED
  BY <1>1, <1>2, <1>3, <1>4, <1>5, <1>6

LEMMA InvValidate ==
    ASSUME IInv, NEW t \in Transaction, Validate(t)
    PROVE  IInv'
<1> USE DEF IInv, callVars, Goto, Validate
<1>1. SagaTypeOK'
  BY CallFacts DEF SagaTypeOK, HandlerStep
<1>2. CallsSound' /\ StatusTellsMoves'
  BY DEF CallsSound, StatusTellsMoves, LegCalls, Undone
<1>3. NotStarted'
  BY CallFacts DEF SagaTypeOK, NotStarted
<1>4. RowAtStep'
  BY CallFacts DEF SagaTypeOK, RowAtStep
<1>5. CallsFollowRows'
  BY CallFacts DEF SagaTypeOK, CallsFollowRows
<1>. QED
  BY <1>1, <1>2, <1>3, <1>4, <1>5

LEMMA InvCheckLimits ==
    ASSUME IInv, NEW t \in Transaction, CheckLimits(t)
    PROVE  IInv'
<1> USE DEF IInv, callVars, Goto, CheckLimits
<1>1. SagaTypeOK'
  <2>1. overlapped' \in BOOLEAN
    BY Zenon DEF SagaTypeOK, Overlaps
  <2>. QED
    BY <2>1, CallFacts DEF SagaTypeOK, HandlerStep
<1>2. CallsSound' /\ StatusTellsMoves'
  BY DEF CallsSound, StatusTellsMoves, LegCalls, Undone
<1>3. NotStarted'
  BY CallFacts DEF SagaTypeOK, NotStarted
<1>4. RowAtStep'
  BY CallFacts DEF SagaTypeOK, RowAtStep
<1>5. CallsFollowRows'
  BY CallFacts DEF SagaTypeOK, CallsFollowRows
<1>. QED
  BY <1>1, <1>2, <1>3, <1>4, <1>5

\* The writes of a status before the balances move, and of FAILED.
LEMMA InvStatus ==
    ASSUME IInv, NEW t \in Transaction,
           CreatePending(t) \/ StartProcessing(t) \/ MarkFailed(t)
    PROVE  IInv'
<1> USE DEF IInv, callVars, Goto, SetStatus, CreatePending, StartProcessing, MarkFailed
<1>1. SagaTypeOK'
  BY CallFacts DEF SagaTypeOK, HandlerStep, TransactionStatus
<1>2. CallsSound'
  BY DEF CallsSound
<1>3. NotStarted'
  BY CallFacts DEF SagaTypeOK, NotStarted
<1>4. RowAtStep'
  BY CallFacts DEF SagaTypeOK, RowAtStep
<1>5. status[t] \notin {"completed", "reversed"}
  BY DEF RowAtStep
<1>6. CallsFollowRows'
  BY <1>5, CallFacts DEF SagaTypeOK, CallsFollowRows
<1>7. StatusTellsMoves'
  BY <1>5 DEF SagaTypeOK, StatusTellsMoves, LegCalls, Undone
<1>. QED
  BY <1>1, <1>2, <1>3, <1>4, <1>6, <1>7

LEMMA InvPostLedger ==
    ASSUME IInv, NEW t \in Transaction, PostLedger(t)
    PROVE  IInv'
<1> USE DEF IInv, callVars, Goto, PostLedger
<1>1. SagaTypeOK'
  BY CallFacts DEF SagaTypeOK, HandlerStep
<1>2. CallsSound' /\ StatusTellsMoves'
  BY DEF CallsSound, StatusTellsMoves, LegCalls, Undone
<1>3. NotStarted'
  BY CallFacts DEF SagaTypeOK, NotStarted
<1>4. RowAtStep'
  BY CallFacts DEF SagaTypeOK, RowAtStep
<1>5. CallsFollowRows'
  BY CallFacts DEF SagaTypeOK, CallsFollowRows
<1>. QED
  BY <1>1, <1>2, <1>3, <1>4, <1>5

\* Starting calls that are idle.
LEMMA StartSound ==
    ASSUME IInv, NEW calls \in SUBSET Call, Start(calls),
           \A c \in calls : phase[c] = "idle"
    PROVE  /\ phase' \in [Call -> Phase]
           /\ attempts' \in [Call -> 0..MaxAttempts]
           /\ UNCHANGED <<late, served>>
           /\ \A c \in Call \ calls : phase'[c] = phase[c]
           /\ CallsSound'
<1>1. PICK let \in SUBSET calls :
        /\ phase' = [c \in Call |->
                        IF c \in let THEN "sent"
                        ELSE IF c \in calls THEN "error" ELSE phase[c]]
        /\ attempts' = [c \in Call |-> IF c \in let THEN 1 ELSE attempts[c]]
        /\ UNCHANGED <<late, served>>
  BY DEF Start
<1>2. /\ phase \in [Call -> Phase] /\ attempts \in [Call -> 0..MaxAttempts]
      /\ late \in [Call -> Nat] /\ served \in [Call -> Nat]
  BY DEF IInv, SagaTypeOK
<1>3. phase' \in [Call -> Phase]
  BY <1>1, <1>2 DEF Phase
<1>4. attempts' \in [Call -> 0..MaxAttempts]
  BY <1>1, <1>2, SagaAssumption
<1>5. CallsSound'
  BY <1>1, <1>2 DEF IInv, CallsSound
<1>. QED
  BY <1>1, <1>3, <1>4, <1>5

LEMMA InvSendLegs ==
    ASSUME IInv, NEW t \in Transaction, SendLegs(t)
    PROVE  IInv'
<1> USE DEF IInv, Goto, SendLegs
<1>1. LegCalls(t) \in SUBSET Call /\ \A c \in LegCalls(t) : phase[c] = "idle"
  BY CallFacts, LegCallsAre DEF NotStarted, Legs
<1>2. /\ phase' \in [Call -> Phase]
      /\ attempts' \in [Call -> 0..MaxAttempts]
      /\ UNCHANGED <<late, served>>
      /\ \A c \in Call \ LegCalls(t) : phase'[c] = phase[c]
      /\ CallsSound'
  BY <1>1, StartSound
<1>3. SagaTypeOK'
  BY <1>2, CallFacts DEF SagaTypeOK, HandlerStep
<1>4. \A u \in Transaction, l \in Leg :
         phase'[<<u, l>>] = phase[<<u, l>>] \/ (u = t /\ l \in Legs(job[t]))
  BY <1>2, CallFacts, LegCallsAre
<1>5. \A v \in Reverser : phase'[v] = phase[v]
  BY <1>2, CallFacts
<1>6. NotStarted'
  BY <1>4, <1>5, CallFacts DEF SagaTypeOK, NotStarted
<1>7. RowAtStep'
  BY CallFacts DEF SagaTypeOK, RowAtStep
<1>8. CallsFollowRows'
  BY <1>4, <1>5, CallFacts DEF SagaTypeOK, CallsFollowRows
<1>9. StatusTellsMoves'
  BY <1>2 DEF StatusTellsMoves, LegCalls, Undone
<1>. QED
  BY <1>2, <1>3, <1>6, <1>7, <1>8, <1>9

\* COMPLETED is written when every call was answered, so was carried out.
LEMMA InvComplete ==
    ASSUME IInv, NEW t \in Transaction, Complete(t)
    PROVE  IInv'
<1> USE DEF IInv, callVars, Goto, SetStatus, Complete
<1>1. SagaTypeOK'
  BY CallFacts DEF SagaTypeOK, HandlerStep, TransactionStatus
<1>2. CallsSound'
  BY DEF CallsSound
<1>3. NotStarted'
  BY CallFacts DEF SagaTypeOK, NotStarted
<1>4. RowAtStep'
  BY CallFacts DEF SagaTypeOK, RowAtStep
<1>5. CallsFollowRows'
  BY CallFacts DEF SagaTypeOK, CallsFollowRows
<1>6. t \in ledger /\ \A c \in LegCalls(t) : served[c] > 0
  BY CallFacts DEF CallsFollowRows, CallsSound
<1>7. StatusTellsMoves'
  BY <1>6 DEF SagaTypeOK, StatusTellsMoves, LegCalls, Undone
<1>. QED
  BY <1>1, <1>2, <1>3, <1>4, <1>5, <1>7

LEMMA InvReadCompleted ==
    ASSUME IInv, NEW v \in Reverser, ReadCompleted(v)
    PROVE  IInv'
<1> USE DEF IInv, Goto, ReadCompleted
<1>1. {v} \in SUBSET Call /\ \A c \in {v} : phase[c] = "idle"
  BY CallFacts DEF NotStarted
<1>2. /\ phase' \in [Call -> Phase]
      /\ attempts' \in [Call -> 0..MaxAttempts]
      /\ UNCHANGED <<late, served>>
      /\ \A c \in Call \ {v} : phase'[c] = phase[c]
      /\ CallsSound'
  BY <1>1, StartSound
<1>3. SagaTypeOK'
  BY <1>2, CallFacts DEF SagaTypeOK, HandlerStep
<1>4. \A u \in Transaction, l \in Leg : phase'[<<u, l>>] = phase[<<u, l>>]
  BY <1>2, CallFacts DEF LegCall
<1>5. \A w \in Reverser \ {v} : phase'[w] = phase[w]
  BY <1>2, CallFacts
<1>6. NotStarted'
  BY <1>4, <1>5, CallFacts DEF SagaTypeOK, NotStarted
<1>7. RowAtStep'
  BY CallFacts DEF SagaTypeOK, RowAtStep
<1>8. CallsFollowRows'
  BY <1>4, <1>5, CallFacts DEF SagaTypeOK, CallsFollowRows
<1>9. StatusTellsMoves'
  BY <1>2 DEF StatusTellsMoves, LegCalls, Undone
<1>. QED
  BY <1>2, <1>3, <1>6, <1>7, <1>8, <1>9

LEMMA InvMarkReversed ==
    ASSUME IInv, NEW v \in Reverser, MarkReversed(v)
    PROVE  IInv'
<1> USE DEF IInv, callVars, Goto, SetStatus, MarkReversed
<1>1. target[v] \in Transaction /\ status[target[v]] \in {"completed", "reversed"}
  BY DEF SagaTypeOK, CallsFollowRows
<1>2. SagaTypeOK'
  BY <1>1, CallFacts DEF SagaTypeOK, HandlerStep, TransactionStatus
<1>3. CallsSound'
  BY DEF CallsSound
<1>4. NotStarted'
  BY CallFacts DEF SagaTypeOK, NotStarted
<1>5. RowAtStep'
  BY <1>1, CallFacts DEF SagaTypeOK, RowAtStep
<1>6. CallsFollowRows'
  BY <1>1, CallFacts DEF SagaTypeOK, CallsFollowRows
<1>7. served[v] > 0
  BY CallFacts DEF CallsSound
<1>8. StatusTellsMoves'
  BY <1>1, <1>7 DEF SagaTypeOK, StatusTellsMoves, LegCalls, Undone
<1>. QED
  BY <1>2, <1>3, <1>4, <1>5, <1>6, <1>8

-----------------------------------------------------------------------------
(* The steps of a call.                                                    *)

\* A step of a call that was started, which takes back nothing.
LEMMA InvCall ==
    ASSUME IInv, NEW c \in Call, UNCHANGED sagaVars,
           balance' \in [Account -> Nat],
           phase' \in [Call -> Phase], attempts' \in [Call -> 0..MaxAttempts],
           late' \in [Call -> Nat], served' \in [Call -> Nat],
           \A d \in Call : phase[d] = "idle" <=> phase'[d] = "idle",
           \A d \in Call : served'[d] >= served[d],
           CallsSound'
    PROVE  IInv'
<1> USE DEF IInv, sagaVars
<1>1. SagaTypeOK'
  BY DEF SagaTypeOK
<1>2. NotStarted'
  BY CallFacts DEF NotStarted
<1>3. RowAtStep'
  BY DEF RowAtStep
<1>4. CallsFollowRows'
  BY CallFacts DEF CallsFollowRows
<1>5. StatusTellsMoves'
  BY CallFacts DEF SagaTypeOK, StatusTellsMoves, LegCalls, Undone
<1>. QED
  BY <1>1, <1>2, <1>3, <1>4, <1>5

LEMMA InvCarryOut ==
    ASSUME IInv, Tracked, NEW c \in Call, CarryOut(c)
    PROVE  IInv'
<1>1. balance' \in [Account -> Nat] /\ UNCHANGED sagaVars
  BY CarriedBalances DEF IInv, CarryOut
<1>2. Accept(c) \/ AcceptLate(c)
  BY DEF CarryOut
<1>3. /\ phase' \in [Call -> Phase] /\ attempts' \in [Call -> 0..MaxAttempts]
      /\ late' \in [Call -> Nat] /\ served' \in [Call -> Nat]
      /\ \A d \in Call : phase[d] = "idle" <=> phase'[d] = "idle"
      /\ \A d \in Call : served'[d] >= served[d]
  BY <1>2 DEF IInv, SagaTypeOK, Accept, AcceptLate, Moves, Phase
<1>4. CallsSound'
  BY <1>2 DEF IInv, SagaTypeOK, CallsSound, Accept, AcceptLate, Moves
<1>. QED
  BY <1>1, <1>3, <1>4, InvCall

LEMMA InvNetwork ==
    ASSUME IInv, NEW c \in Call, Network(c)
    PROVE  IInv'
<1>1. balance' \in [Account -> Nat] /\ UNCHANGED sagaVars
  BY DEF IInv, SagaTypeOK, Network
<1> DEFINE Step == Refuse(c) \/ DropLate(c) \/ Receive(c) \/ NetworkError(c) \/ TimeOut(c)
<1>2. Step
  BY DEF Network
<1>3. /\ phase' \in [Call -> Phase]
      /\ \A d \in Call : phase[d] = "idle" <=> phase'[d] = "idle"
      /\ UNCHANGED served /\ served' \in [Call -> Nat]
  BY <1>2
  DEF IInv, SagaTypeOK, Refuse, DropLate, Receive, NetworkError, TimeOut, Waiting, Moves, Phase
<1>4. late' \in [Call -> Nat]
  BY <1>2
  DEF IInv, SagaTypeOK, Refuse, DropLate, Receive, NetworkError, TimeOut, LeaveBehind
<1>5. attempts' \in [Call -> 0..MaxAttempts]
  BY <1>2, SagaAssumption
  DEF IInv, SagaTypeOK, Refuse, DropLate, Receive, NetworkError, TimeOut
<1>6. CallsSound'
  <2>1. CASE Refuse(c) \/ DropLate(c) \/ Receive(c)
    BY <2>1 DEF IInv, SagaTypeOK, CallsSound, Refuse, DropLate, Receive, Moves
  <2>2. CASE NetworkError(c)
    BY <2>2 DEF IInv, SagaTypeOK, CallsSound, NetworkError, Waiting, Moves, LeaveBehind
  <2>3. CASE TimeOut(c)
    BY <2>3 DEF IInv, SagaTypeOK, CallsSound, TimeOut, Waiting, Moves, LeaveBehind
  <2>. QED
    BY <1>2, <2>1, <2>2, <2>3
<1>7. \A d \in Call : served'[d] >= served[d]
  BY <1>3
<1>. QED
  BY <1>1, <1>3, <1>4, <1>5, <1>6, <1>7, InvCall

\* A crash leaves the requests of its handler to the network.
LEMMA InvCrash ==
    ASSUME IInv, NEW h \in Handler, Crash(h)
    PROVE  IInv'
<1> DEFINE calls == CallsOf(h)
<1>1. PICK left \in SUBSET {c \in calls : phase[c] = "sent"} :
         late' = [c \in Call |-> IF c \in left THEN late[c] + 1 ELSE late[c]]
  BY DEF Crash, Abandon
<1>2. /\ phase' = [c \in Call |->
                       IF c \in calls /\ Waiting(c) THEN "error" ELSE phase[c]]
      /\ UNCHANGED <<attempts, served>>
      /\ pc' = [pc EXCEPT ![h] = "abandoned"]
      /\ UNCHANGED <<job, seen, status, ledger, target, overlapped, balance>>
  BY DEF Crash, Abandon
<1> HIDE DEF calls
<1>3. SagaTypeOK'
  BY <1>1, <1>2 DEF IInv, SagaTypeOK, HandlerStep, Phase
<1>4. \A c \in Call : phase[c] = "idle" <=> phase'[c] = "idle"
  BY <1>2 DEF Waiting
<1>5. CallsSound'
  BY <1>1, <1>2 DEF IInv, SagaTypeOK, CallsSound, Waiting
<1>6. NotStarted'
  BY <1>2, <1>4, CallFacts DEF IInv, SagaTypeOK, NotStarted
<1>7. RowAtStep'
  BY <1>2, CallFacts DEF IInv, SagaTypeOK, RowAtStep
<1>8. CallsFollowRows'
  BY <1>2, <1>4, CallFacts DEF IInv, SagaTypeOK, CallsFollowRows
<1>9. StatusTellsMoves'
  BY <1>2 DEF IInv, StatusTellsMoves, LegCalls, Undone
<1>. QED
  BY <1>3, <1>5, <1>6, <1>7, <1>8, <1>9 DEF IInv

-----------------------------------------------------------------------------
LEMMA InvHandle ==
    ASSUME IInv, NEW t \in Transaction, Handle(t)
    PROVE  IInv'
<1>1. CASE Validate(t)
  BY <1>1, InvValidate
<1>2. CASE Invalid(t) \/ LimitRefused(t) \/ CreateFails(t)
  <2>1. /\ pc' = [pc EXCEPT ![t] = "done"]
        /\ UNCHANGED <<job, seen, status, ledger, target, overlapped, balance, callVars>>
    BY <1>2 DEF Invalid, LimitRefused, CreateFails, Goto
  <2>. QED
    BY <2>1, InvEnd, CallFacts
<1>3. CASE CheckLimits(t)
  BY <1>3, InvCheckLimits
<1>4. CASE CreatePending(t) \/ StartProcessing(t) \/ MarkFailed(t)
  BY <1>4, InvStatus
<1>5. CASE PostLedger(t)
  BY <1>5, InvPostLedger
<1>6. CASE SendLegs(t)
  BY <1>6, InvSendLegs
<1>7. CASE Complete(t)
  BY <1>7, InvComplete
<1>8. CASE LegFailed(t) \/ WriteFails(t)
  <2>1. /\ pc' = [pc EXCEPT ![t] = "fail"]
        /\ UNCHANGED <<job, seen, status, ledger, target, overlapped, balance, callVars>>
        /\ status[t] \in {"pending", "processing"}
    BY <1>8 DEF LegFailed, WriteFails, Goto, IInv, RowAtStep
  <2>. QED
    BY <2>1, InvEnd, CallFacts
<1>9. CASE MarkFailedFails(t)
  <2>1. /\ pc' = [pc EXCEPT ![t] = "abandoned"]
        /\ UNCHANGED <<job, seen, status, ledger, target, overlapped, balance, callVars>>
    BY <1>9 DEF MarkFailedFails, Goto
  <2>. QED
    BY <2>1, InvEnd, CallFacts
<1>. QED
  BY <1>1, <1>2, <1>3, <1>4, <1>5, <1>6, <1>7, <1>8, <1>9 DEF Handle

LEMMA InvReverse ==
    ASSUME IInv, NEW v \in Reverser, Reverse(v)
    PROVE  IInv'
<1>1. CASE ReadCompleted(v)
  BY <1>1, InvReadCompleted
<1>2. CASE MarkReversed(v)
  BY <1>2, InvMarkReversed
<1>3. CASE ReadOther(v) \/ ReverseFails(v)
  <2>1. /\ pc' = [pc EXCEPT ![v] = "done"]
        /\ UNCHANGED <<job, seen, status, ledger, target, overlapped, balance, callVars>>
    BY <1>3 DEF ReadOther, ReverseFails, Goto
  <2>. QED
    BY <2>1, InvEnd, CallFacts
<1>. QED
  BY <1>1, <1>2, <1>3 DEF Reverse

LEMMA InvNext ==
    ASSUME IInv, Tracked, [Next]_vars
    PROVE  IInv'
<1>1. CASE \E t \in Transaction : Handle(t)
  BY <1>1, InvHandle
<1>2. CASE \E v \in Reverser : Reverse(v)
  BY <1>2, InvReverse
<1>3. CASE \E c \in Call : CarryOut(c) \/ Network(c)
  BY <1>3, InvCarryOut, InvNetwork
<1>4. CASE \E h \in Handler : Crash(h)
  BY <1>4, InvCrash
<1>5. CASE UNCHANGED vars
  BY <1>5
  DEF vars, IInv, SagaTypeOK, CallsSound, NotStarted, RowAtStep, CallsFollowRows,
      StatusTellsMoves, LegCalls, Undone
<1>. QED
  BY <1>1, <1>2, <1>3, <1>4, <1>5 DEF Next, SagaStep

\* A call that is under way is one of the legs of its transaction.
LEMMA UnderWayLeg ==
    ASSUME IInv, NEW c \in LegCall, UnderWay(c)
    PROVE  /\ c[1] \in Transaction /\ c[2] \in Legs(job[c[1]])
           /\ LegAccount(c) \in Account
           /\ Effect(c, LegAccount(c)) # 0
<1>1. PICK t \in Transaction, l \in Leg : c = <<t, l>>
  BY DEF LegCall
<1>2. c \in Call /\ c \notin Reverser
  BY CallFacts
<1>3. phase[c] # "idle"
  BY <1>2 DEF UnderWay, IInv, SagaTypeOK, CallsSound
<1>4. l \in Legs(job[t])
  BY <1>1, <1>3 DEF IInv, CallsFollowRows
<1>5. job[t] \in Job
  BY SagaAssumption DEF IInv, SagaTypeOK
<1>6. LegAccount(c) \in Account
  BY <1>1, <1>4, <1>5 DEF LegAccount, Legs, Job, Leg
<1>7. job[t].amount \in Nat \ {0} /\ Total(job[t]) \in Nat \ {0}
  <2>1. job[t].amount \in Nat \ {0} /\ FeeOf(job[t]) \in Nat
    BY <1>5, JobAmounts DEF Job
  <2>. QED
    BY <2>1 DEF Total
<1>8. Effect(c, LegAccount(c)) = LegEffect(job[t], l, LegAccount(c))
  BY <1>1, <1>2 DEF Effect
<1>9. Effect(c, LegAccount(c)) # 0
  BY <1>1, <1>4, <1>7, <1>8 DEF LegAccount, LegEffect, Legs, Leg
<1>. QED
  BY <1>1, <1>4, <1>6, <1>9

LEMMA UnderWayAccounts ==
    IInv => \A c \in LegCall : UnderWay(c) => balance[LegAccount(c)] \in Nat
  BY UnderWayLeg DEF IInv, SagaTypeOK

LEMMA UnderWayAccountsNext ==
    IInv' => (\A c \in LegCall : UnderWay(c) => balance[LegAccount(c)] \in Nat)'
  BY UnderWayAccounts, PTL

\* What the requests are about is settled from the start.
LEMMA RequestsStand == [Next]_vars => job' = job /\ target' = target
<1> SUFFICES ASSUME [Next]_vars PROVE job' = job /\ target' = target
  OBVIOUS
<1>1. ASSUME NEW t \in Transaction, Handle(t) PROVE job' = job /\ target' = target
  BY <1>1 DEF Handle, Validate, Invalid, CheckLimits, LimitRefused, CreatePending, CreateFails,
              StartProcessing, PostLedger, SendLegs, Complete, LegFailed, WriteFails,
              MarkFailed, MarkFailedFails
<1>2. ASSUME NEW v \in Reverser, Reverse(v) PROVE job' = job /\ target' = target
  BY <1>2 DEF Reverse, ReadCompleted, ReadOther, MarkReversed, ReverseFails
<1>3. ASSUME NEW c \in Call, CarryOut(c) \/ Network(c) PROVE job' = job /\ target' = target
  BY <1>3 DEF CarryOut, Network, sagaVars
<1>4. ASSUME NEW h \in Handler, Crash(h) PROVE job' = job /\ target' = target
  BY <1>4 DEF Crash
<1>5. CASE UNCHANGED vars
  BY <1>5 DEF vars
<1>. QED
  BY <1>1, <1>2, <1>3, <1>4, <1>5 DEF Next, SagaStep

LEMMA TrackedNext ==
    ASSUME Tracked, IInv', [Next]_vars
    PROVE  Tracked'
<1>1. CASE UNCHANGED vars
  BY <1>1 DEF vars, Tracked
<1>2. CASE Track
  <2>1. \A c \in LegCall : UnderWay(c)' => balance[LegAccount(c)]' \in Nat
    BY UnderWayAccountsNext
  <2>2. found' \in [LegCall -> SUBSET Nat]
    BY <1>2, <2>1 DEF Track, Tracked
  <2>3. crossed' \in BOOLEAN
    BY <1>2 DEF Track, Tracked
  <2>. QED
    BY <2>2, <2>3 DEF Tracked
<1>. QED
  BY <1>1, <1>2 DEF Next

THEOREM Invariance == Spec => [](IInv /\ Tracked)
<1>1. Init => Tracked
  BY DEF Init, Tracked
<1>2. IInv /\ Tracked /\ [Next]_vars => (IInv /\ Tracked)'
  BY InvNext, TrackedNext
<1>. QED
  BY InvInit, <1>1, <1>2, PTL DEF Spec

\* Every variable keeps its type; in particular no balance that account-service
\* guards becomes negative, however often calls are repeated.
THEOREM TypeCorrect == Spec => []TypeOK
<1>1. IInv /\ Tracked => TypeOK
  BY DEF IInv, Tracked, TypeOK
<1>. QED
  BY Invariance, <1>1, PTL

\* COMPLETED and REVERSED are never ahead of the money, for any number of
\* transactions, administrators and attempts.
THEOREM StatusNeverAhead == Spec => []StatusTellsMoves
<1>1. IInv => StatusTellsMoves
  BY DEF IInv
<1>. QED
  BY Invariance, <1>1, PTL

\* A retried call is at-least-once; only an answer to the first attempt means
\* exactly once.
THEOREM OnceWithoutRetry == Spec => []OnceAtFirstAttempt
<1>1. IInv => OnceAtFirstAttempt
  <2> SUFFICES ASSUME IInv, NEW c \in Call
               PROVE  /\ served[c] + late[c] <= attempts[c]
                      /\ phase[c] = "ok" /\ attempts[c] = 1 => served[c] = 1
    BY DEF OnceAtFirstAttempt
  <2>1. served[c] \in Nat /\ late[c] \in Nat /\ attempts[c] \in Nat
    BY DEF IInv, SagaTypeOK
  <2>2. served[c] + late[c] <= attempts[c]
    BY <2>1 DEF IInv, CallsSound
  <2>3. phase[c] = "ok" => served[c] > 0
    BY DEF IInv, CallsSound
  <2>. QED
    BY <2>1, <2>2, <2>3
<1>. QED
  BY Invariance, <1>1, PTL

-----------------------------------------------------------------------------
(* The sums of TransferSaga.                                               *)

\* MapThenSumSet as TransferSaga uses it.
AmountOf(j, S) == MapThenSumSet(LAMBDA t : j[t].amount, S)
PostedOf(j, a, S) == MapThenSumSet(LAMBDA t : Posted(Entries(j[t]), a), S)

LEMMA AmountOfIs ==
    ASSUME NEW j, NEW S \in SUBSET Transaction
    PROVE  AmountOf(j, S) = SumOf([t \in Transaction |-> j[t].amount], S)
<1> DEFINE f == [t \in Transaction |-> j[t].amount]
           Step(g) == [s \in SUBSET S |->
                          IF s = {} THEN 0 ELSE j[First(s)].amount + g[s \ {First(s)}]]
           h == CHOOSE g : g = Step(g)
           k == CHOOSE g : Sums(f, S, g)
<1>1. IsFiniteSet(S)
  BY FiniteAssumption, FS_Subset
<1>2. AmountOf(j, S) = h[S]
  BY DEF AmountOf, MapThenSumSet, MapThenFoldSet, First
<1>3. Sums(f, S, k) /\ SumOf(f, S) = k[S]
  BY <1>1, SumsExist, SumIs
<1>4. ASSUME NEW g PROVE Sums(f, S, g) <=> g = Step(g)
  <2>1. \A s \in SUBSET S : s # {} => f[First(s)] = j[First(s)].amount
    BY FirstIn
  <2>2. Step(g) = [s \in SUBSET S |-> IF s = {} THEN 0 ELSE f[First(s)] + g[s \ {First(s)}]]
    <3>. HIDE DEF f
    <3>. QED
      BY <2>1
  <2>. HIDE DEF f, Step
  <2>. QED
    BY <2>2 DEF Sums
<1>5. h = Step(h)
  <2>. HIDE DEF f, Step, k
  <2>1. k = Step(k)
    BY <1>3, <1>4
  <2>. QED
    BY <2>1, Zenon
<1>. HIDE DEF f, Step, h, k
<1>6. h[S] = k[S]
  BY <1>1, <1>3, <1>4, <1>5, SumsAgree
<1>. QED
  BY <1>2, <1>3, <1>6 DEF f

LEMMA PostedOfIs ==
    ASSUME NEW j, NEW a, NEW S \in SUBSET Transaction
    PROVE  PostedOf(j, a, S) = SumOf([t \in Transaction |-> Posted(Entries(j[t]), a)], S)
<1> DEFINE P(t) == Posted(Entries(j[t]), a)
           f == [t \in Transaction |-> P(t)]
           Step(g) == [s \in SUBSET S |->
                          IF s = {} THEN 0 ELSE P(First(s)) + g[s \ {First(s)}]]
           h == CHOOSE g : g = Step(g)
           k == CHOOSE g : Sums(f, S, g)
<1>1. IsFiniteSet(S)
  BY FiniteAssumption, FS_Subset
<1>2. PostedOf(j, a, S) = h[S]
  BY DEF PostedOf, MapThenSumSet, MapThenFoldSet, First
<1>3. Sums(f, S, k) /\ SumOf(f, S) = k[S]
  BY <1>1, SumsExist, SumIs
<1>4. ASSUME NEW g PROVE Sums(f, S, g) <=> g = Step(g)
  <2>1. \A s \in SUBSET S : s # {} => f[First(s)] = P(First(s))
    BY FirstIn
  <2>2. Step(g) = [s \in SUBSET S |-> IF s = {} THEN 0 ELSE f[First(s)] + g[s \ {First(s)}]]
    <3>. HIDE DEF f, P
    <3>. QED
      BY <2>1
  <2>. HIDE DEF f, Step
  <2>. QED
    BY <2>2 DEF Sums
<1>5. h = Step(h)
  <2>. HIDE DEF f, Step, k
  <2>1. k = Step(k)
    BY <1>3, <1>4
  <2>. QED
    BY <2>1, Zenon
<1>. HIDE DEF f, Step, h, k
<1>6. h[S] = k[S]
  BY <1>1, <1>3, <1>4, <1>5, SumsAgree
<1>. QED
  BY <1>2, <1>3, <1>6 DEF f

-----------------------------------------------------------------------------
(* The daily limit.                                                        *)

\* Of the handlers of one payer at most one is at work, and the limit has room
\* for what it pays.
LimitInv ==
    ~overlapped =>
        \A a \in Account :
            /\ DailyOutgoing(a) <= DailyLimit
            /\ \A t \in Transaction : AtWork(t) /\ job[t].from = a =>
                  /\ DailyOutgoing(a) + job[t].amount <= DailyLimit
                  /\ \A u \in Transaction : AtWork(u) /\ job[u].from = a => u = t

LEMMA DailyIs ==
    ASSUME SagaTypeOK, NEW a
    PROVE  /\ DailyOutgoing(a) = AmountOf(job, Outgoing(a))
           /\ Outgoing(a) \in SUBSET Transaction
           /\ DailyOutgoing(a) \in Nat
<1> DEFINE f == [t \in Transaction |-> job[t].amount]
<1>1. DailyOutgoing(a) = AmountOf(job, Outgoing(a))
  BY DEF DailyOutgoing, AmountOf
<1>2. Outgoing(a) \in SUBSET Transaction
  BY DEF Outgoing
<1>3. \A t \in Transaction : job[t] \in Job
  BY SagaAssumption DEF SagaTypeOK
<1>4. \A t \in Transaction : f[t] \in Nat
  BY <1>3, JobAmounts
<1>5. SumOf(f, Outgoing(a)) \in Nat
  <2>. HIDE DEF f
  <2>. QED
    BY <1>2, <1>4, FiniteAssumption, FS_Subset, SumOfNat
<1>. QED
  BY <1>1, <1>2, <1>5, AmountOfIs

\* What the day's total becomes when a transaction is completed, and when none
\* is.
LEMMA DailyGrows ==
    ASSUME SagaTypeOK, job' = job, NEW a
    PROVE  /\ DailyOutgoing(a)' \in Nat
           /\ Outgoing(a)' \subseteq Outgoing(a) => DailyOutgoing(a)' <= DailyOutgoing(a)
           /\ \A t \in Transaction \ Outgoing(a) :
                 Outgoing(a)' = Outgoing(a) \union {t} =>
                     DailyOutgoing(a)' = DailyOutgoing(a) + job[t].amount
<1> DEFINE f == [t \in Transaction |-> job[t].amount]
           old == Outgoing(a)
           new == Outgoing(a)'
<1>1. /\ DailyOutgoing(a) = AmountOf(job, old) /\ DailyOutgoing(a)' = AmountOf(job', new)
      /\ old \in SUBSET Transaction /\ new \in SUBSET Transaction
  <2>1. DailyOutgoing(a) = AmountOf(job, old) /\ old \in SUBSET Transaction
    BY DailyIs
  <2>2. DailyOutgoing(a)' = AmountOf(job', new)
    BY DEF DailyOutgoing, AmountOf, MapThenSumSet, MapThenFoldSet
  <2>3. new \in SUBSET Transaction
    BY DEF Outgoing
  <2>. QED
    BY <2>1, <2>2, <2>3
<1>2. DailyOutgoing(a) = SumOf(f, old) /\ DailyOutgoing(a)' = SumOf(f, new)
  <2>. HIDE DEF old, new
  <2>1. AmountOf(job', new) = AmountOf(job, new)
    OBVIOUS
  <2>. QED
    BY <1>1, <2>1, AmountOfIs
<1>3. \A t \in Transaction : f[t] \in Nat /\ f[t] = job[t].amount
  <2>1. \A t \in Transaction : job[t] \in Job
    BY SagaAssumption DEF SagaTypeOK
  <2>. QED
    BY <2>1, JobAmounts
<1>. HIDE DEF f, old, new
<1>4. IsFiniteSet(old) /\ IsFiniteSet(new)
  BY <1>1, FiniteAssumption, FS_Subset
<1>5. SumOf(f, old) \in Nat /\ SumOf(f, new) \in Nat
  BY <1>1, <1>3, <1>4, SumOfNat
<1>6. ASSUME new \subseteq old PROVE SumOf(f, new) <= SumOf(f, old)
  <2>1. SumOf(f, old) = SumOf(f, new) + SumOf(f, old \ new)
    <3>1. \A t \in old : f[t] \in Int
      BY <1>1, <1>3
    <3>. QED
      BY <1>4, <1>6, <3>1, SumOfParts
  <2>2. SumOf(f, old \ new) \in Nat
    <3>1. IsFiniteSet(old \ new)
      BY <1>4, FS_Subset
    <3>2. \A t \in old \ new : f[t] \in Nat
      BY <1>1, <1>3
    <3>. QED
      BY <3>1, <3>2, SumOfNat
  <2>. QED
    BY <1>5, <2>1, <2>2
<1>7. ASSUME NEW t \in Transaction \ old, new = old \union {t}
      PROVE  SumOf(f, new) = SumOf(f, old) + job[t].amount
  <2>1. SumOf(f, new) = f[t] + SumOf(f, new \ {t})
    <3>1. \A u \in new : f[u] \in Int
      BY <1>1, <1>3
    <3>. QED
      BY <1>4, <1>7, <3>1, SumOfSplit
  <2>2. new \ {t} = old
    BY <1>7
  <2>3. SumOf(f, new) = f[t] + SumOf(f, old)
    BY <2>1, <2>2
  <2>4. f[t] \in Nat /\ f[t] = job[t].amount
    BY <1>3
  <2>. QED
    BY <1>5, <2>3, <2>4
<1>. QED
  BY <1>2, <1>5, <1>6, <1>7 DEF old, new

LEMMA LimitInvInit == Init => LimitInv
<1> SUFFICES ASSUME Init PROVE LimitInv
  OBVIOUS
<1>1. \A t \in Transaction : ~AtWork(t)
  BY CallFacts DEF Init, AtWork
<1>2. ASSUME NEW a \in Account PROVE DailyOutgoing(a) <= DailyLimit
  <2>1. Outgoing(a) = {}
    BY DEF Init, Outgoing
  <2>2. SagaTypeOK
    BY InvInit DEF IInv
  <2>3. DailyOutgoing(a) = SumOf([t \in Transaction |-> job[t].amount], {})
    BY <2>1, <2>2, DailyIs, AmountOfIs
  <2>. QED
    BY <2>3, SumOfEmpty, SagaAssumption
<1>. QED
  BY <1>1, <1>2 DEF LimitInv, DailyLimitKept

\* Steps after which no more handlers are at work and no more transactions are
\* completed.
LEMMA LimitKept ==
    ASSUME IInv, LimitInv, job' = job, overlapped' = overlapped,
           \A t \in Transaction : AtWork(t)' => AtWork(t),
           \A t \in Transaction : status'[t] = "completed" => status[t] = "completed"
    PROVE  LimitInv'
<1>1. ASSUME NEW a
      PROVE  /\ DailyOutgoing(a)' <= DailyOutgoing(a)
             /\ DailyOutgoing(a)' \in Nat /\ DailyOutgoing(a) \in Nat
  <2>1. Outgoing(a)' \subseteq Outgoing(a)
    BY DEF Outgoing
  <2>. QED
    BY <2>1, DailyGrows, DailyIs DEF IInv
<1>2. \A t \in Transaction : job[t].amount \in Nat
  <2>1. \A t \in Transaction : job[t] \in Job
    BY SagaAssumption DEF IInv, SagaTypeOK
  <2>. QED
    BY <2>1, JobAmounts
<1>3. DailyLimit \in Nat
  BY SagaAssumption
<1> SUFFICES ASSUME ~overlapped, NEW a \in Account
             PROVE  /\ DailyOutgoing(a)' <= DailyLimit
                    /\ \A t \in Transaction : AtWork(t)' /\ job[t].from = a =>
                          /\ DailyOutgoing(a)' + job[t].amount <= DailyLimit
                          /\ \A u \in Transaction : AtWork(u)' /\ job[u].from = a => u = t
  BY DEF LimitInv
<1>4. /\ DailyOutgoing(a) <= DailyLimit
      /\ \A t \in Transaction : AtWork(t) /\ job[t].from = a =>
            /\ DailyOutgoing(a) + job[t].amount <= DailyLimit
            /\ \A u \in Transaction : AtWork(u) /\ job[u].from = a => u = t
  BY DEF LimitInv
<1>. QED
  BY <1>1, <1>2, <1>3, <1>4

LEMMA LimitChecked ==
    ASSUME IInv, LimitInv, NEW t \in Transaction, CheckLimits(t)
    PROVE  LimitInv'
<1> USE CallFacts DEF CheckLimits, Goto
<1>1. /\ pc \in [Handler -> HandlerStep] /\ job' = job /\ status' = status
      /\ job[t] \in Job
  BY SagaAssumption DEF IInv, SagaTypeOK
<1>2. /\ AtWork(t)'
      /\ \A u \in Transaction : u # t => (AtWork(u)' <=> AtWork(u))
  BY <1>1 DEF AtWork
<1>3. ASSUME NEW a
      PROVE  DailyOutgoing(a)' <= DailyOutgoing(a) /\ DailyOutgoing(a)' \in Nat
             /\ DailyOutgoing(a) \in Nat
  <2>1. Outgoing(a)' = Outgoing(a)
    BY <1>1 DEF Outgoing
  <2>. QED
    BY <1>1, <2>1, DailyGrows, DailyIs DEF IInv
<1>4. \A u \in Transaction : job[u].amount \in Nat
  <2>1. \A u \in Transaction : job[u] \in Job
    BY SagaAssumption DEF IInv, SagaTypeOK
  <2>. QED
    BY <2>1, JobAmounts
<1>5. DailyLimit \in Nat
  BY SagaAssumption
<1> SUFFICES ASSUME ~overlapped', NEW a \in Account
             PROVE  /\ DailyOutgoing(a)' <= DailyLimit
                    /\ \A u \in Transaction : AtWork(u)' /\ job[u].from = a =>
                          /\ DailyOutgoing(a)' + job[u].amount <= DailyLimit
                          /\ \A w \in Transaction : AtWork(w)' /\ job[w].from = a => w = u
  BY <1>1 DEF LimitInv
<1>6. ~overlapped /\ ~Overlaps(t)
  OBVIOUS
<1>7. /\ DailyOutgoing(a) <= DailyLimit
      /\ \A u \in Transaction : AtWork(u) /\ job[u].from = a =>
            /\ DailyOutgoing(a) + job[u].amount <= DailyLimit
            /\ \A w \in Transaction : AtWork(w) /\ job[w].from = a => w = u
  BY <1>6 DEF LimitInv
<1>8. CASE job[t].from # a
  BY <1>2, <1>3, <1>4, <1>5, <1>7, <1>8
<1>9. CASE job[t].from = a
  <2>1. job[t].type # "deposit"
    BY <1>1, <1>9, AccountsAssumption DEF Job
  <2>2. DailyOutgoing(a) + job[t].amount <= DailyLimit
    BY <1>9, <2>1 DEF WithinLimits
  <2>3. \A u \in Transaction : AtWork(u)' /\ job[u].from = a => u = t
    BY <1>2, <1>6, <1>9 DEF Overlaps
  <2>. QED
    BY <1>3, <1>4, <1>5, <1>7, <2>2, <2>3
<1>. QED
  BY <1>8, <1>9

LEMMA LimitCompleted ==
    ASSUME IInv, LimitInv, NEW t \in Transaction, Complete(t)
    PROVE  LimitInv'
<1> USE CallFacts DEF Complete, Goto
<1>1. /\ pc \in [Handler -> HandlerStep] /\ job' = job /\ overlapped' = overlapped
      /\ status \in [Transaction -> TransactionStatus] /\ status' = [status EXCEPT ![t] = "completed"]
  BY DEF IInv, SagaTypeOK, SetStatus
<1>2. /\ AtWork(t) /\ ~AtWork(t)'
      /\ \A u \in Transaction : u # t => (AtWork(u)' <=> AtWork(u))
  BY <1>1 DEF AtWork
<1>3. status[t] # "completed"
  BY DEF IInv, RowAtStep
<1>4. /\ job[t].amount \in Nat
      /\ \A u \in Transaction : job[u].amount \in Nat
  <2>1. \A u \in Transaction : job[u] \in Job
    BY SagaAssumption DEF IInv, SagaTypeOK
  <2>. QED
    BY <2>1, JobAmounts
<1>5. DailyLimit \in Nat
  BY SagaAssumption
<1> SUFFICES ASSUME ~overlapped, NEW a \in Account
             PROVE  /\ DailyOutgoing(a)' <= DailyLimit
                    /\ \A u \in Transaction : AtWork(u)' /\ job[u].from = a =>
                          /\ DailyOutgoing(a)' + job[u].amount <= DailyLimit
                          /\ \A w \in Transaction : AtWork(w)' /\ job[w].from = a => w = u
  BY <1>1 DEF LimitInv
<1>6. /\ DailyOutgoing(a) <= DailyLimit
      /\ \A u \in Transaction : AtWork(u) /\ job[u].from = a =>
            /\ DailyOutgoing(a) + job[u].amount <= DailyLimit
            /\ \A w \in Transaction : AtWork(w) /\ job[w].from = a => w = u
  BY DEF LimitInv
<1>7. CASE job[t].from # a
  <2>1. Outgoing(a)' = Outgoing(a)
    BY <1>1, <1>7 DEF Outgoing
  <2>2. DailyOutgoing(a)' <= DailyOutgoing(a) /\ DailyOutgoing(a)' \in Nat
        /\ DailyOutgoing(a) \in Nat
    BY <1>1, <2>1, DailyGrows, DailyIs DEF IInv
  <2>. QED
    BY <1>2, <1>4, <1>5, <1>6, <1>7, <2>2
<1>8. CASE job[t].from = a
  <2>1. Outgoing(a)' = Outgoing(a) \union {t} /\ t \notin Outgoing(a)
    BY <1>1, <1>3, <1>8 DEF Outgoing
  <2>2. DailyOutgoing(a)' = DailyOutgoing(a) + job[t].amount
    BY <1>1, <2>1, DailyGrows DEF IInv
  <2>3. \A u \in Transaction : ~(AtWork(u)' /\ job[u].from = a)
    BY <1>2, <1>6, <1>8
  <2>. QED
    BY <1>2, <1>6, <1>8, <2>2, <2>3
<1>. QED
  BY <1>7, <1>8

LEMMA LimitHandle ==
    ASSUME IInv, LimitInv, NEW t \in Transaction, Handle(t)
    PROVE  LimitInv'
<1> USE CallFacts DEF Goto
<1>1. pc \in [Handler -> HandlerStep] /\ status \in [Transaction -> TransactionStatus]
  BY DEF IInv, SagaTypeOK
<1>2. CASE CheckLimits(t)
  BY <1>2, LimitChecked
<1>3. CASE Complete(t)
  BY <1>3, LimitCompleted
<1>4. CASE \/ CreatePending(t) \/ StartProcessing(t) \/ MarkFailed(t)
  <2>1. job' = job /\ overlapped' = overlapped
    BY <1>4 DEF CreatePending, StartProcessing, MarkFailed
  <2>2. /\ \A u \in Transaction : AtWork(u)' => AtWork(u)
        /\ \A u \in Transaction : status'[u] = "completed" => status[u] = "completed"
    BY <1>1, <1>4 DEF CreatePending, StartProcessing, MarkFailed, SetStatus, AtWork
  <2>. QED
    BY <2>1, <2>2, LimitKept
<1>5. CASE \/ Validate(t) \/ Invalid(t) \/ LimitRefused(t) \/ CreateFails(t)
           \/ PostLedger(t) \/ SendLegs(t) \/ LegFailed(t) \/ WriteFails(t)
           \/ MarkFailedFails(t)
  <2>1. job' = job /\ overlapped' = overlapped /\ status' = status
    BY <1>5 DEF Validate, Invalid, LimitRefused, CreateFails, PostLedger, SendLegs,
                LegFailed, WriteFails, MarkFailedFails
  <2>2. \A u \in Transaction : AtWork(u)' => AtWork(u)
    BY <1>1, <1>5 DEF Validate, Invalid, LimitRefused, CreateFails, PostLedger, SendLegs,
                LegFailed, WriteFails, MarkFailedFails, AtWork
  <2>. QED
    BY <2>1, <2>2, LimitKept
<1>. QED
  BY <1>2, <1>3, <1>4, <1>5 DEF Handle

LEMMA LimitInvNext == IInv /\ LimitInv /\ [Next]_vars => LimitInv'
<1> SUFFICES ASSUME IInv, LimitInv, [Next]_vars PROVE LimitInv'
  OBVIOUS
<1> USE CallFacts
<1>1. pc \in [Handler -> HandlerStep] /\ status \in [Transaction -> TransactionStatus]
      /\ target \in [Reverser -> Transaction]
  BY DEF IInv, SagaTypeOK
<1>2. ASSUME NEW t \in Transaction, Handle(t) PROVE LimitInv'
  BY <1>2, LimitHandle
<1>3. ASSUME NEW v \in Reverser, Reverse(v) PROVE LimitInv'
  <2>1. job' = job /\ overlapped' = overlapped
    BY <1>3 DEF Reverse, ReadCompleted, ReadOther, MarkReversed, ReverseFails
  <2>2. \A u \in Transaction : AtWork(u)' => AtWork(u)
    BY <1>1, <1>3 DEF Reverse, ReadCompleted, ReadOther, MarkReversed, ReverseFails, Goto,
                      AtWork
  <2>3. \A u \in Transaction : status'[u] = "completed" => status[u] = "completed"
    BY <1>1, <1>3 DEF Reverse, ReadCompleted, ReadOther, MarkReversed, ReverseFails,
                      SetStatus
  <2>. QED
    BY <2>1, <2>2, <2>3, LimitKept
<1>4. ASSUME NEW c \in Call, CarryOut(c) \/ Network(c) PROVE LimitInv'
  <2>1. job' = job /\ overlapped' = overlapped /\ status' = status /\ pc' = pc
    BY <1>4 DEF CarryOut, Network, sagaVars
  <2>. QED
    BY <2>1, LimitKept DEF AtWork
<1>5. ASSUME NEW h \in Handler, Crash(h) PROVE LimitInv'
  <2>1. job' = job /\ overlapped' = overlapped /\ status' = status
    BY <1>5 DEF Crash
  <2>2. \A u \in Transaction : AtWork(u)' => AtWork(u)
    BY <1>1, <1>5 DEF Crash, AtWork
  <2>. QED
    BY <2>1, <2>2, LimitKept
<1>6. CASE UNCHANGED vars
  <2>1. job' = job /\ overlapped' = overlapped /\ status' = status /\ pc' = pc
    BY <1>6 DEF vars
  <2>. QED
    BY <2>1, LimitKept DEF AtWork
<1>. QED
  BY <1>2, <1>3, <1>4, <1>5, <1>6 DEF Next, SagaStep

\* What an account sends in a day stays within its limit as long as no two
\* handlers of one payer overlap between the query of the daily total and the
\* end of their work (assertTransferLimits).
THEOREM LimitInTurn == Spec => []DailyLimitKeptInTurn
<1>1. Init => LimitInv
  BY LimitInvInit
<1>2. IInv /\ LimitInv /\ [Next]_vars => LimitInv'
  BY LimitInvNext
<1>3. LimitInv => DailyLimitKeptInTurn
  BY DEF LimitInv, DailyLimitKeptInTurn, DailyLimitKept
<1>. QED
  BY <1>1, <1>2, <1>3, Invariance, PTL DEF Spec

-----------------------------------------------------------------------------
(* The books of a quiet day.                                               *)

\* What the calls of a transaction, and of a reversal, have done to account a.
MovedBy(t, a) ==
    served[<<t, "debit">>] * LegEffect(job[t], "debit", a)
        + served[<<t, "credit">>] * LegEffect(job[t], "credit", a)

MovedBackBy(v, a) == served[v] * ReversalEffect(job[target[v]], a)

MovedAll(a) == SumOf([t \in Transaction |-> MovedBy(t, a)], Transaction)
MovedBackAll(a) == SumOf([v \in Reverser |-> MovedBackBy(v, a)], Reverser)

\* No call was sent twice.
Single == \A c \in Call : attempts[c] <= 1

\* While no calls have crossed and none was sent twice, updateBalance can have read no
\* other balance than the one that is there still.
FoundInv ==
    /\ ~crossed => ~Crossing
    /\ \A c \in LegCall :
          /\ ~UnderWay(c) => found[c] = {}
          /\ ~crossed /\ Single => found[c] \subseteq {balance[LegAccount(c)]}

\* Until then a balance is what the calls that were served have made of it; and only a
\* transaction with a row is posted.
BooksInv ==
    /\ ~crossed /\ Single =>
          \A a \in Account :
              balance[a] = OpeningBalance[a] + MovedAll(a) + MovedBackAll(a)
    /\ \A t \in ledger : status[t] # "none"

LEMMA Times ==
    /\ \A e \in Int : 0 * e = 0 /\ 1 * e = e
    /\ \A n, e \in Int : n * e \in Int /\ (n + 1) * e = n * e + e
  OBVIOUS

LEMMA EffectsInt ==
    ASSUME NEW j \in Job, NEW a
    PROVE  /\ \A l \in Leg : LegEffect(j, l, a) \in Int
           /\ ReversalEffect(j, a) \in Int
           /\ Posted(Entries(j), a) \in Int
<1>1. j.amount \in Int /\ Total(j) \in Int /\ FeeOf(j) \in Int
  BY JobAmounts
<1>. QED
  BY <1>1 DEF LegEffect, ReversalEffect, Posted, Entries

LEMMA MovedInt ==
    ASSUME SagaTypeOK, NEW a
    PROVE  /\ \A t \in Transaction : MovedBy(t, a) \in Int
           /\ \A v \in Reverser : MovedBackBy(v, a) \in Int
           /\ MovedAll(a) \in Int /\ MovedBackAll(a) \in Int
<1>1. \A t \in Transaction : job[t] \in Job
  BY SagaAssumption DEF SagaTypeOK
<1>2. \A c \in Call : served[c] \in Int
  BY DEF SagaTypeOK
<1>3. ASSUME NEW t \in Transaction PROVE MovedBy(t, a) \in Int
  <2>1. /\ LegEffect(job[t], "debit", a) \in Int /\ LegEffect(job[t], "credit", a) \in Int
        /\ served[<<t, "debit">>] \in Int /\ served[<<t, "credit">>] \in Int
    BY <1>1, <1>2, EffectsInt, CallFacts DEF Leg
  <2>2. /\ served[<<t, "debit">>] * LegEffect(job[t], "debit", a) \in Int
        /\ served[<<t, "credit">>] * LegEffect(job[t], "credit", a) \in Int
    BY <2>1, Times
  <2>. QED
    BY <2>2 DEF MovedBy
<1>4. ASSUME NEW v \in Reverser PROVE MovedBackBy(v, a) \in Int
  <2>1. ReversalEffect(job[target[v]], a) \in Int /\ served[v] \in Int
    BY <1>1, <1>2, EffectsInt, CallFacts DEF SagaTypeOK
  <2>. QED
    BY <2>1, Times DEF MovedBackBy
<1>5. MovedAll(a) \in Int
  BY <1>3, FiniteAssumption, SumOfSplit DEF MovedAll
<1>6. MovedBackAll(a) \in Int
  BY <1>4, FiniteAssumption, SumOfSplit DEF MovedBackAll
<1>. QED
  BY <1>3, <1>4, <1>5, <1>6

LEMMA BooksInvInit == Init => BooksInv
<1> SUFFICES ASSUME Init PROVE BooksInv
  OBVIOUS
<1>1. SagaTypeOK
  BY InvInit DEF IInv
<1>2. \A c \in Call : served[c] = 0
  BY DEF Init, CallsInit
<1>3. \A t \in Transaction : job[t] \in Job
  BY <1>1, SagaAssumption DEF SagaTypeOK
<1>4. ASSUME NEW a \in Account
      PROVE  MovedAll(a) = 0 /\ MovedBackAll(a) = 0
  <2>1. ASSUME NEW t \in Transaction PROVE MovedBy(t, a) = 0
    <3>1. LegEffect(job[t], "debit", a) \in Int /\ LegEffect(job[t], "credit", a) \in Int
      BY <1>3, EffectsInt DEF Leg
    <3>2. served[<<t, "debit">>] = 0 /\ served[<<t, "credit">>] = 0
      BY <1>2, CallFacts DEF Leg
    <3>. QED
      BY <3>1, <3>2, Times DEF MovedBy
  <2>2. ASSUME NEW v \in Reverser PROVE MovedBackBy(v, a) = 0
    <3>1. ReversalEffect(job[target[v]], a) \in Int /\ served[v] = 0
      BY <1>1, <1>2, <1>3, EffectsInt, CallFacts DEF SagaTypeOK
    <3>. QED
      BY <3>1, Times DEF MovedBackBy
  <2>. QED
    BY <2>1, <2>2, FiniteAssumption, SumOfZeros DEF MovedAll, MovedBackAll
<1>5. \A a \in Account : OpeningBalance[a] \in Int /\ balance[a] = OpeningBalance[a]
  BY SagaAssumption DEF Init
<1>. QED
  BY <1>4, <1>5 DEF BooksInv, Init

\* Then an update starts from the balance as it is.
LEMMA CarriedFromBalance ==
    ASSUME IInv, FoundInv, ~crossed, Single, NEW c \in Call, CarryOut(c), NEW a \in Account
    PROVE  balance'[a] = balance[a] + Effect(c, a)
<1>1. PICK before \in Before(c) :
         balance' = [b \in Account |->
                        IF Effect(c, b) = 0 THEN balance[b] ELSE before[b] + Effect(c, b)]
  BY DEF CarryOut
<1>2. before = balance
  <2>1. CASE c \in Reverser
    BY <2>1 DEF Before
  <2>2. CASE c \notin Reverser
    <3>1. c \in LegCall
      BY <2>2 DEF Call
    <3>2. PICK b \in found[c] : before = [balance EXCEPT ![LegAccount(c)] = b]
      BY <2>2 DEF Before
    <3>3. b = balance[LegAccount(c)]
      BY <3>1 DEF FoundInv
    <3>. QED
      BY <3>2, <3>3 DEF IInv, SagaTypeOK
  <2>. QED
    BY <2>1, <2>2
<1>3. balance[a] \in Int /\ Effect(c, a) \in Int
  BY EffectInt DEF IInv, SagaTypeOK
<1>. QED
  BY <1>1, <1>2, <1>3

LEMMA FoundInvInit == Init => FoundInv
  BY DEF Init, CallsInit, FoundInv, Crossing, UnderWay, LegCall, Call

\* Attempts only grow, and only CarryOut moves a balance.
LEMMA WhoMovesBalances ==
    ASSUME IInv, SagaStep
    PROVE  /\ Single' => Single
           /\ \/ balance' = balance
              \/ \E c \in Call : CarryOut(c)
<1>1. attempts \in [Call -> 0..MaxAttempts] /\ MaxAttempts \in Nat
  BY SagaAssumption DEF IInv, SagaTypeOK
<1>2. ASSUME NEW t \in Transaction, Handle(t)
      PROVE  balance' = balance /\ \A c \in Call : attempts'[c] <= 1 => attempts[c] <= 1
  <2>1. CASE SendLegs(t)
    <3>1. \A c \in LegCalls(t) : attempts[c] = 0
      BY <2>1, CallFacts, LegCallsAre DEF SendLegs, Goto, IInv, NotStarted, CallsSound, Legs
    <3>. QED
      BY <1>1, <2>1, <3>1 DEF SendLegs, Start
  <2>2. CASE ~SendLegs(t)
    BY <1>1, <1>2, <2>2
    DEF Handle, Validate, Invalid, CheckLimits, LimitRefused, CreatePending, CreateFails,
        StartProcessing, PostLedger, Complete, LegFailed, WriteFails,
        MarkFailed, MarkFailedFails, callVars
  <2>. QED
    BY <2>1, <2>2
<1>3. ASSUME NEW v \in Reverser, Reverse(v)
      PROVE  balance' = balance /\ \A c \in Call : attempts'[c] <= 1 => attempts[c] <= 1
  <2>1. CASE ReadCompleted(v)
    <3>1. attempts[v] = 0
      BY <2>1, CallFacts DEF ReadCompleted, Goto, IInv, NotStarted, CallsSound
    <3>. QED
      BY <1>1, <2>1, <3>1 DEF ReadCompleted, Start
  <2>2. CASE ~ReadCompleted(v)
    BY <1>1, <1>3, <2>2 DEF Reverse, ReadOther, MarkReversed, ReverseFails, callVars
  <2>. QED
    BY <2>1, <2>2
<1>4. ASSUME NEW c \in Call, CarryOut(c)
      PROVE  \A d \in Call : attempts'[d] <= 1 => attempts[d] <= 1
  BY <1>1, <1>4 DEF CarryOut, Accept, AcceptLate
<1>5. ASSUME NEW c \in Call, Network(c)
      PROVE  balance' = balance /\ \A d \in Call : attempts'[d] <= 1 => attempts[d] <= 1
  BY <1>1, <1>5 DEF Network, Refuse, DropLate, Receive, NetworkError, TimeOut
<1>6. ASSUME NEW h \in Handler, Crash(h)
      PROVE  balance' = balance /\ \A d \in Call : attempts'[d] <= 1 => attempts[d] <= 1
  BY <1>1, <1>6 DEF Crash, Abandon
<1>. QED
  BY <1>2, <1>3, <1>4, <1>5, <1>6 DEF SagaStep, Single

LEMMA FoundInvNext == IInv /\ IInv' /\ FoundInv /\ [Next]_vars => FoundInv'
<1> SUFFICES ASSUME IInv, IInv', FoundInv, [Next]_vars PROVE FoundInv'
  OBVIOUS
<1>1. CASE UNCHANGED vars
  BY <1>1 DEF vars, FoundInv, Crossing, UnderWay, Effect, LegAccount, Single
<1>2. CASE SagaStep /\ Track
  <2>1. job' = job /\ target' = target
    BY RequestsStand
  <2>2. ~crossed' => ~crossed /\ ~Crossing'
    BY <1>2 DEF Track
  <2>3. Single' => Single
    BY <1>2, WhoMovesBalances
  <2>4. ASSUME NEW c \in LegCall
        PROVE  found'[c] = IF ~UnderWay(c)' THEN {}
                           ELSE (IF SentAnew(c) THEN {} ELSE found[c])
                                    \union {balance[LegAccount(c)]'}
    BY <1>2 DEF Track
  <2>5. ASSUME NEW c \in LegCall, ~crossed', Single'
        PROVE  found'[c] \subseteq {balance[LegAccount(c)]'}
    <3> SUFFICES ASSUME NEW b \in found'[c], b # balance[LegAccount(c)]' PROVE FALSE
      OBVIOUS
    <3>1. UnderWay(c)' /\ b \in found[c]
      BY <2>4
    <3>2. UnderWay(c) /\ b = balance[LegAccount(c)] /\ ~Crossing
      BY <2>2, <2>3, <2>5, <3>1 DEF FoundInv
    <3>3. balance[LegAccount(c)]' = balance'[LegAccount(c)]
      BY <2>1 DEF LegAccount
    <3>4. PICK d \in Call : CarryOut(d)
      <4>1. balance' # balance
        BY <3>2, <3>3
      <4>. QED
        BY <1>2, <4>1, WhoMovesBalances
    <3>5. LegAccount(c) \in Account /\ Effect(c, LegAccount(c)) # 0
      BY <3>2, UnderWayLeg
    <3>6. Effect(d, LegAccount(c)) # 0
      BY <3>2, <3>4, <3>5, <3>3 DEF CarryOut
    <3>7. UnderWay(d)
      BY <3>4 DEF CarryOut, Accept, AcceptLate, UnderWay
    <3>8. CASE d # c
      BY <3>2, <3>5, <3>6, <3>7, <3>8, CallFacts DEF Crossing
    <3>9. CASE d = c
      <4>1. c \in Call /\ served[c] \in Nat /\ served'[c] \in Nat /\ late'[c] \in Nat
            /\ attempts'[c] \in Nat /\ served \in [Call -> Nat]
        BY CallFacts, SagaAssumption DEF IInv, SagaTypeOK
      <4>2. served'[c] = served[c] + 1
        BY <3>4, <3>9, <4>1 DEF CarryOut, Accept, AcceptLate
      <4>3. served'[c] + late'[c] + (IF phase'[c] = "sent" THEN 1 ELSE 0) <= attempts'[c]
        BY <4>1 DEF IInv, CallsSound
      <4>4. attempts'[c] <= 1
        BY <2>5, <4>1 DEF Single
      <4>5. late'[c] > 0 \/ phase'[c] = "sent"
        BY <3>1 DEF UnderWay
      <4>. QED
        BY <4>1, <4>2, <4>3, <4>4, <4>5
    <3>. QED
      BY <3>8, <3>9
  <2>6. \A c \in LegCall : LegAccount(c)' = LegAccount(c)
    BY <2>1 DEF LegAccount
  <2>. QED
    BY <2>2, <2>4, <2>5, <2>6 DEF FoundInv
<1>. QED
  BY <1>1, <1>2 DEF Next

\* A call that is served moves the balance and adds one to its term of the sum.
LEMMA BooksCarried ==
    ASSUME IInv, FoundInv, BooksInv, NEW c \in Call, CarryOut(c), Track
    PROVE  BooksInv'
<1>1. /\ UNCHANGED <<job, target, status, ledger, attempts>>
      /\ served' = [served EXCEPT ![c] = @ + 1]
  BY DEF CarryOut, sagaVars, Accept, AcceptLate
<1>7. \A t \in ledger' : status'[t] # "none"
  BY <1>1 DEF BooksInv
<1> SUFFICES ASSUME ~crossed', Single'
             PROVE  \A a \in Account :
                        balance'[a] = OpeningBalance[a] + MovedAll(a)' + MovedBackAll(a)'
  BY <1>7 DEF BooksInv
<1>8. ~crossed /\ Single
  BY <1>1 DEF Track, Single
<1>2. SagaTypeOK /\ served \in [Call -> Nat] /\ OpeningBalance \in [Account -> Nat]
  BY SagaAssumption DEF IInv, SagaTypeOK
<1>3. \A d \in Call : served'[d] = IF d = c THEN served[d] + 1 ELSE served[d]
  BY <1>1, <1>2
<1>4. \A t \in Transaction : job[t] \in Job
  BY <1>2, SagaAssumption DEF SagaTypeOK
<1>5. ASSUME NEW a \in Account
      PROVE  /\ MovedAll(a)' \in Int /\ MovedBackAll(a)' \in Int
             /\ MovedAll(a)' + MovedBackAll(a)' = MovedAll(a) + MovedBackAll(a) + Effect(c, a)
  <2> DEFINE f == [t \in Transaction |-> MovedBy(t, a)]
             e == [t \in Transaction |-> MovedBy(t, a)']
             g == [v \in Reverser |-> MovedBackBy(v, a)]
             h == [v \in Reverser |-> MovedBackBy(v, a)']
  <2>1. /\ MovedAll(a) = SumOf(f, Transaction) /\ MovedAll(a)' = SumOf(e, Transaction)
        /\ MovedBackAll(a) = SumOf(g, Reverser) /\ MovedBackAll(a)' = SumOf(h, Reverser)
    BY DEF MovedAll, MovedBackAll
  <2>2. /\ \A t \in Transaction : MovedBy(t, a) \in Int
        /\ \A v \in Reverser : MovedBackBy(v, a) \in Int
        /\ MovedAll(a) \in Int /\ MovedBackAll(a) \in Int
    BY <1>2, MovedInt
  <2>3. CASE c \in Reverser
    <3>1. ASSUME NEW t \in Transaction PROVE MovedBy(t, a)' = MovedBy(t, a)
      BY <1>1, <1>3, <2>3, CallFacts DEF MovedBy, Leg, LegCall
    <3>2. ASSUME NEW v \in Reverser
          PROVE  MovedBackBy(v, a)' =
                     IF v = c THEN MovedBackBy(v, a) + Effect(c, a) ELSE MovedBackBy(v, a)
      <4>1. ReversalEffect(job[target[v]], a) \in Int /\ served[v] \in Int /\ v \in Call
        BY <1>2, <1>4, EffectsInt, CallFacts DEF SagaTypeOK
      <4>2. MovedBackBy(v, a)' = served'[v] * ReversalEffect(job[target[v]], a)
        BY <1>1 DEF MovedBackBy
      <4>3. CASE v = c
        <5> DEFINE r == ReversalEffect(job[target[v]], a)
        <5>1. served'[v] = served[v] + 1 /\ Effect(c, a) = r /\ MovedBackBy(v, a) = served[v] * r
          BY <1>3, <2>3, <4>3 DEF MovedBackBy, Effect
        <5>2. r \in Int /\ MovedBackBy(v, a)' = served'[v] * r
          BY <4>1, <4>2
        <5>. HIDE DEF r
        <5>3. (served[v] + 1) * r = served[v] * r + r
          BY <4>1, <5>2, Times
        <5>. QED
          BY <4>3, <5>1, <5>2, <5>3
      <4>4. CASE v # c
        BY <1>3, <4>1, <4>2, <4>4 DEF MovedBackBy
      <4>. QED
        BY <4>3, <4>4
    <3>3. MovedAll(a)' = MovedAll(a)
      <4>1. e = f
        BY <3>1
      <4>. QED
        BY <2>1, <4>1
    <3>4. MovedBackAll(a)' = MovedBackAll(a) + (h[c] - g[c])
      <4>1. /\ \A v \in Reverser : g[v] \in Int /\ h[v] \in Int
            /\ \A v \in Reverser \ {c} : h[v] = g[v]
        <5>1. Effect(c, a) \in Int
          BY <1>2, EffectInt
        <5>. QED
          BY <2>2, <3>2, <5>1
      <4>. HIDE DEF g, h
      <4>2. SumOf(h, Reverser) = SumOf(g, Reverser) + (h[c] - g[c])
        BY <2>3, <4>1, FiniteAssumption, SumOfChange
      <4>. QED
        BY <2>1, <4>2
    <3>5. h[c] - g[c] = Effect(c, a) /\ Effect(c, a) \in Int
      <4>1. Effect(c, a) \in Int
        BY <1>2, EffectInt
      <4>. QED
        BY <2>2, <2>3, <3>2, <4>1
    <3>. HIDE DEF f, e, g, h
    <3>. QED
      BY <2>2, <3>3, <3>4, <3>5
  <2>4. CASE c \notin Reverser
    <3>1. PICK t \in Transaction, l \in Leg : c = <<t, l>>
      BY <2>4 DEF Call, LegCall
    <3>2. ASSUME NEW v \in Reverser PROVE MovedBackBy(v, a)' = MovedBackBy(v, a)
      BY <1>1, <1>3, <2>4, CallFacts DEF MovedBackBy
    <3>3. Effect(c, a) = LegEffect(job[t], l, a)
      BY <2>4, <3>1 DEF Effect
    <3>4. ASSUME NEW u \in Transaction
          PROVE  MovedBy(u, a)' =
                     IF u = t THEN MovedBy(u, a) + Effect(c, a) ELSE MovedBy(u, a)
      <4> DEFINE d == LegEffect(job[u], "debit", a)
                 k == LegEffect(job[u], "credit", a)
                 m == served[<<u, "debit">>]
                 n == served[<<u, "credit">>]
                 mm == served'[<<u, "debit">>]
                 nn == served'[<<u, "credit">>]
      <4>1. d \in Int /\ k \in Int /\ m \in Int /\ n \in Int
        BY <1>2, <1>4, EffectsInt, CallFacts DEF Leg
      <4>2. MovedBy(u, a)' = mm * d + nn * k /\ MovedBy(u, a) = m * d + n * k
        BY <1>1 DEF MovedBy
      <4>3. m * d \in Int /\ n * k \in Int /\ (m + 1) * d = m * d + d /\ (n + 1) * k = n * k + k
        <5>. HIDE DEF d, k, m, n
        <5>. QED
          BY <4>1, Times
      <4>4. CASE u # t
        <5>1. mm = m /\ nn = n
          BY <1>3, <3>1, <4>4, CallFacts DEF Leg
        <5>. HIDE DEF d, k, m, n, mm, nn
        <5>. QED
          BY <4>2, <4>4, <5>1
      <4>5. CASE u = t /\ l = "debit"
        <5>1. mm = m + 1 /\ nn = n /\ Effect(c, a) = d
          BY <1>3, <3>1, <3>3, <4>5, CallFacts DEF Leg
        <5>. HIDE DEF d, k, m, n, mm, nn
        <5>. QED
          BY <4>1, <4>2, <4>3, <4>5, <5>1
      <4>6. CASE u = t /\ l = "credit"
        <5>1. mm = m /\ nn = n + 1 /\ Effect(c, a) = k
          BY <1>3, <3>1, <3>3, <4>6, CallFacts DEF Leg
        <5>. HIDE DEF d, k, m, n, mm, nn
        <5>. QED
          BY <4>1, <4>2, <4>3, <4>6, <5>1
      <4>. QED
        BY <3>1, <4>4, <4>5, <4>6 DEF Leg
    <3>5. MovedBackAll(a)' = MovedBackAll(a)
      <4>1. h = g
        BY <3>2
      <4>. QED
        BY <2>1, <4>1
    <3>6. Effect(c, a) \in Int
      BY <1>2, EffectInt
    <3>7. MovedAll(a)' = MovedAll(a) + (e[t] - f[t])
      <4>1. /\ \A u \in Transaction : f[u] \in Int /\ e[u] \in Int
            /\ \A u \in Transaction \ {t} : e[u] = f[u]
        BY <2>2, <3>4, <3>6
      <4>. HIDE DEF f, e
      <4>2. SumOf(e, Transaction) = SumOf(f, Transaction) + (e[t] - f[t])
        BY <4>1, FiniteAssumption, SumOfChange
      <4>. QED
        BY <2>1, <4>2
    <3>8. e[t] - f[t] = Effect(c, a)
      BY <2>2, <3>4, <3>6
    <3>. HIDE DEF f, e, g, h
    <3>. QED
      BY <2>2, <3>5, <3>6, <3>7, <3>8
  <2>. QED
    BY <2>3, <2>4
<1>6. ASSUME NEW a \in Account
      PROVE  balance'[a] = OpeningBalance[a] + MovedAll(a)' + MovedBackAll(a)'
  <2>1. /\ Effect(c, a) \in Int /\ MovedAll(a) \in Int /\ MovedBackAll(a) \in Int
        /\ MovedAll(a)' \in Int /\ MovedBackAll(a)' \in Int /\ OpeningBalance[a] \in Int
    BY <1>2, <1>5, EffectInt, MovedInt
  <2>2. balance[a] = OpeningBalance[a] + MovedAll(a) + MovedBackAll(a)
    BY <1>8 DEF BooksInv
  <2>3. balance'[a] = balance[a] + Effect(c, a)
    BY <1>8, <2>1, CarriedFromBalance
  <2>. QED
    BY <1>5, <2>1, <2>2, <2>3
<1>. QED
  BY <1>6

\* Steps in which nothing is served.
LEMMA BooksKept ==
    ASSUME IInv, BooksInv, UNCHANGED <<job, target, balance, served>>,
           ~crossed' /\ Single' => ~crossed /\ Single,
           \A t \in ledger' :
               \/ t \in ledger /\ status'[t] = status[t]
               \/ status'[t] # "none"
    PROVE  BooksInv'
<1>1. ASSUME NEW a \in Account
      PROVE  MovedAll(a)' = MovedAll(a) /\ MovedBackAll(a)' = MovedBackAll(a)
  BY DEF MovedAll, MovedBackAll, MovedBy, MovedBackBy
<1>2. \A t \in ledger' : status'[t] # "none"
  BY DEF BooksInv
<1>. QED
  BY <1>1, <1>2 DEF BooksInv

LEMMA BooksInvNext == IInv /\ FoundInv /\ BooksInv /\ [Next]_vars => BooksInv'
<1> SUFFICES ASSUME IInv, FoundInv, BooksInv, [Next]_vars PROVE BooksInv'
  OBVIOUS
<1>8. ~crossed' /\ Single' => ~crossed /\ Single
  <2>1. CASE SagaStep /\ Track
    BY <2>1, WhoMovesBalances DEF Track
  <2>2. CASE UNCHANGED vars
    BY <2>2 DEF vars, Single
  <2>. QED
    BY <2>1, <2>2 DEF Next
<1>1. /\ status \in [Transaction -> TransactionStatus] /\ ledger \in SUBSET Transaction
      /\ target \in [Reverser -> Transaction]
  BY DEF IInv, SagaTypeOK
<1>2. ASSUME NEW t \in Transaction, Handle(t) PROVE BooksInv'
  <2>1. CASE PostLedger(t)
    <3>1. /\ UNCHANGED <<job, target, balance, served, status>> /\ ledger' = ledger \union {t}
          /\ status[t] = "processing"
      BY <2>1 DEF PostLedger, callVars, Goto, IInv, RowAtStep
    <3>. QED
      BY <1>8, <3>1, BooksKept
  <2>2. CASE CreatePending(t) \/ StartProcessing(t) \/ MarkFailed(t) \/ Complete(t)
    <3>1. /\ UNCHANGED <<job, target, balance, served, ledger>>
          /\ \E s \in TransactionStatus \ {"none"} : status' = [status EXCEPT ![t] = s]
      BY <2>2 DEF CreatePending, StartProcessing, MarkFailed, Complete, SetStatus, callVars,
                  TransactionStatus
    <3>2. \A u \in Transaction : status'[u] = status[u] \/ status'[u] # "none"
      BY <1>1, <3>1
    <3>. QED
      BY <1>1, <1>8, <3>1, <3>2, BooksKept
  <2>3. CASE \/ Validate(t) \/ Invalid(t) \/ CheckLimits(t) \/ LimitRefused(t)
             \/ CreateFails(t) \/ SendLegs(t) \/ LegFailed(t) \/ WriteFails(t)
             \/ MarkFailedFails(t)
    <3>1. UNCHANGED <<job, target, balance, served, ledger, status>>
      BY <2>3 DEF Validate, Invalid, CheckLimits, LimitRefused, CreateFails, SendLegs,
                  LegFailed, WriteFails, MarkFailedFails, callVars, Start
    <3>. QED
      BY <1>8, <3>1, BooksKept
  <2>. QED
    BY <1>2, <2>1, <2>2, <2>3 DEF Handle
<1>3. ASSUME NEW v \in Reverser, Reverse(v) PROVE BooksInv'
  <2>1. /\ UNCHANGED <<job, target, balance, served, ledger>>
        /\ \/ status' = status
           \/ status' = [status EXCEPT ![target[v]] = "reversed"]
    BY <1>3 DEF Reverse, ReadCompleted, ReadOther, MarkReversed, ReverseFails, SetStatus,
                callVars, Start
  <2>2. \A u \in Transaction : status'[u] = status[u] \/ status'[u] # "none"
    BY <1>1, <2>1
  <2>. QED
    BY <1>1, <1>8, <2>1, <2>2, BooksKept
<1>4. ASSUME NEW c \in Call, CarryOut(c), Track PROVE BooksInv'
  BY <1>4, BooksCarried
<1>5. ASSUME NEW c \in Call, Network(c) PROVE BooksInv'
  <2>1. UNCHANGED <<job, target, balance, served, ledger, status>>
    BY <1>5 DEF Network, sagaVars, Refuse, DropLate, Receive, NetworkError, TimeOut
  <2>. QED
    BY <1>8, <2>1, BooksKept
<1>6. ASSUME NEW h \in Handler, Crash(h) PROVE BooksInv'
  <2>1. UNCHANGED <<job, target, balance, served, ledger, status>>
    BY <1>6 DEF Crash, Abandon
  <2>. QED
    BY <1>8, <2>1, BooksKept
<1>7. CASE UNCHANGED vars
  <2>1. UNCHANGED <<job, target, balance, served, ledger, status>>
    BY <1>7 DEF vars
  <2>. QED
    BY <1>8, <2>1, BooksKept
<1>. QED
  BY <1>2, <1>3, <1>4, <1>5, <1>6, <1>7 DEF Next, SagaStep

\* On a quiet day a transaction without a row has moved nothing, one that was
\* completed has moved what its entries say, and one that was reversed has been
\* moved back by exactly one reversal.
LEMMA QuietMoves ==
    ASSUME IInv, BooksInv, Quiet, NEW a \in Account
    PROVE  /\ \A t \in Transaction :
                 MovedBy(t, a) = IF status[t] = "none" THEN 0 ELSE Posted(Entries(job[t]), a)
           /\ \A v \in Reverser :
                 IF phase[v] = "ok" THEN MovedBackBy(v, a) + Posted(Entries(job[target[v]]), a) = 0
                 ELSE MovedBackBy(v, a) = 0
<1> USE CallFacts
<1>1. \A t \in Transaction : job[t] \in Job
  BY SagaAssumption DEF IInv, SagaTypeOK
<1>2. ASSUME NEW c \in Call
      PROVE  served[c] = IF phase[c] = "ok" THEN 1 ELSE 0
  <2>1. /\ served[c] \in Nat /\ late[c] \in Nat /\ attempts[c] \in Nat
        /\ served[c] + late[c] + (IF phase[c] = "sent" THEN 1 ELSE 0) <= attempts[c]
        /\ phase[c] \in {"accepted", "ok"} => served[c] > 0
        /\ phase[c] = "idle" => attempts[c] = 0
    BY DEF IInv, SagaTypeOK, CallsSound
  <2>2. phase[c] \in {"idle", "ok"} /\ attempts[c] <= 1
    BY DEF Quiet
  <2>. QED
    BY <2>1, <2>2
<1>3. ASSUME NEW t \in Transaction
      PROVE  MovedBy(t, a) = IF status[t] = "none" THEN 0 ELSE Posted(Entries(job[t]), a)
  <2> DEFINE d == LegEffect(job[t], "debit", a)
             k == LegEffect(job[t], "credit", a)
  <2>1. d \in Int /\ k \in Int
    BY <1>1, EffectsInt DEF Leg
  <2>2. MovedBy(t, a) = served[<<t, "debit">>] * d + served[<<t, "credit">>] * k
    BY DEF MovedBy
  <2>3. CASE status[t] = "none"
    <3>1. \A l \in Leg : phase[<<t, l>>] = "idle"
      BY <2>3 DEF IInv, CallsFollowRows, BooksInv
    <3>2. served[<<t, "debit">>] = 0 /\ served[<<t, "credit">>] = 0
      BY <1>2, <3>1 DEF Leg
    <3>. HIDE DEF d, k
    <3>. QED
      BY <2>1, <2>2, <2>3, <3>2, Times
  <2>4. CASE status[t] # "none"
    <3>1. \A c \in LegCalls(t) : served[c] > 0
      BY <2>4 DEF Quiet, IInv, StatusTellsMoves
    <3>2. ASSUME NEW l \in Leg
          PROVE  served[<<t, l>>] * LegEffect(job[t], l, a) =
                     IF l \in Legs(job[t]) THEN LegEffect(job[t], l, a) ELSE 0
      <4> DEFINE x == LegEffect(job[t], l, a)
      <4>1. x \in Int
        BY <1>1, EffectsInt
      <4>2. served[<<t, l>>] = IF l \in Legs(job[t]) THEN 1 ELSE 0
        <5>1. CASE l \in Legs(job[t])
          <6>1. served[<<t, l>>] > 0
            BY <3>1, <5>1 DEF LegCalls
          <6>. QED
            BY <1>2, <5>1, <6>1
        <5>2. CASE l \notin Legs(job[t])
          <6>1. phase[<<t, l>>] = "idle"
            BY <5>2 DEF IInv, CallsFollowRows
          <6>. QED
            BY <1>2, <5>2, <6>1
        <5>. QED
          BY <5>1, <5>2
      <4>. HIDE DEF x
      <4>3. served[<<t, l>>] * x = IF l \in Legs(job[t]) THEN x ELSE 0
        BY <4>1, <4>2, Times
      <4>. QED
        BY <4>3 DEF x
    <3>. QED
      BY <2>2, <2>4, <3>2, <1>1, LedgerAgreesWithLegs DEF Leg
  <2>. QED
    BY <2>3, <2>4
<1>4. ASSUME NEW v \in Reverser
      PROVE  IF phase[v] = "ok" THEN MovedBackBy(v, a) + Posted(Entries(job[target[v]]), a) = 0
             ELSE MovedBackBy(v, a) = 0
  <2> DEFINE r == ReversalEffect(job[target[v]], a)
  <2>1. job[target[v]] \in Job
    BY <1>1 DEF IInv, SagaTypeOK
  <2>2. r \in Int
    BY <2>1, EffectsInt
  <2>3. MovedBackBy(v, a) = served[v] * r /\ served[v] = IF phase[v] = "ok" THEN 1 ELSE 0
    BY <1>2 DEF MovedBackBy
  <2>4. Posted(Entries(job[target[v]]), a) + r = 0 /\ Posted(Entries(job[target[v]]), a) \in Int
    BY <2>1, ReversalUndoesTransaction, EffectsInt
  <2>. HIDE DEF r
  <2>. QED
    BY <2>2, <2>3, <2>4, Times
<1>. QED
  BY <1>3, <1>4

LEMMA QuietBooks == IInv /\ BooksInv => QuietBooksAgree
<1> SUFFICES ASSUME IInv, BooksInv, Quiet, ~crossed, NEW a \in Account
             PROVE  balance[a] - OpeningBalance[a] =
                        PostedOf(job, a, {t \in Transaction : status[t] = "completed"})
  BY DEF QuietBooksAgree, PostedOf
<1> DEFINE p == [t \in Transaction |-> Posted(Entries(job[t]), a)]
           f == [t \in Transaction |-> MovedBy(t, a)]
           g == [v \in Reverser |-> MovedBackBy(v, a)]
           Done == {t \in Transaction : status[t] = "completed"}
           Back == {t \in Transaction : status[t] = "reversed"}
           Rows == Done \union Back
           Undoing == {v \in Reverser : phase[v] = "ok"}
<1>1. /\ \A t \in Transaction : f[t] = IF status[t] = "none" THEN 0 ELSE p[t]
      /\ \A v \in Reverser :
            IF phase[v] = "ok" THEN g[v] + p[target[v]] = 0 ELSE g[v] = 0
  BY QuietMoves DEF IInv, SagaTypeOK
<1>2. /\ \A t \in Transaction : status[t] \in {"none", "completed", "reversed"}
      /\ \A t \in Transaction : p[t] \in Int /\ f[t] \in Int
      /\ \A v \in Reverser : g[v] \in Int /\ target[v] \in Transaction
  <2>1. \A t \in Transaction : job[t] \in Job
    BY SagaAssumption DEF IInv, SagaTypeOK
  <2>. QED
    BY <2>1, EffectsInt, MovedInt DEF IInv, SagaTypeOK, Quiet
<1>3. balance[a] = OpeningBalance[a] + SumOf(f, Transaction) + SumOf(g, Reverser)
  <2>1. Single
    BY DEF Quiet, Single
  <2>. QED
    BY <2>1 DEF BooksInv, MovedAll, MovedBackAll
<1>4. /\ IsFiniteSet(Transaction) /\ IsFiniteSet(Reverser)
      /\ \A S \in SUBSET Transaction : IsFiniteSet(S)
      /\ \A S \in SUBSET Reverser : IsFiniteSet(S)
  BY FiniteAssumption, FS_Subset
<1>5. /\ Rows \in SUBSET Transaction /\ Done \in SUBSET Rows /\ Rows \ Done = Back
      /\ Back \in SUBSET Transaction /\ Undoing \in SUBSET Reverser
      /\ \A t \in Transaction \ Rows : status[t] = "none"
      /\ \A t \in Rows : status[t] # "none"
  BY <1>2
<1>6. Back = {target[v] : v \in Undoing}
  <2>1. ASSUME NEW t \in Back PROVE \E v \in Undoing : target[v] = t
    <3>1. PICK v \in Reverser : target[v] = t /\ served[v] > 0
      BY <2>1 DEF IInv, StatusTellsMoves, Undone
    <3>2. phase[v] # "idle"
      <4>1. /\ served[v] \in Nat /\ late[v] \in Nat /\ attempts[v] \in Nat
            /\ served[v] + late[v] + (IF phase[v] = "sent" THEN 1 ELSE 0) <= attempts[v]
            /\ phase[v] = "idle" => attempts[v] = 0
        BY CallFacts DEF IInv, SagaTypeOK, CallsSound
      <4>. QED
        BY <3>1, <4>1
    <3>3. phase[v] = "ok"
      BY <3>2, CallFacts DEF Quiet
    <3>. QED
      BY <3>1, <3>3
  <2>2. \A v \in Undoing : target[v] \in Back
    BY <1>2 DEF Quiet
  <2>. QED
    BY <2>1, <2>2
<1>7. \A v, w \in Undoing : target[v] = target[w] => v = w
  <2> SUFFICES ASSUME NEW v \in Undoing, NEW w \in Undoing, target[v] = target[w], v # w
               PROVE  FALSE
    OBVIOUS
  <2>1. phase[v] = "ok" /\ phase[w] = "ok" /\ v \in Reverser /\ w \in Reverser \ {v}
    OBVIOUS
  <2>2. phase[w] = "idle"
    BY <2>1 DEF Quiet
  <2>. QED
    BY <2>1, <2>2
<1>8. \A v \in Undoing : g[v] + p[target[v]] = 0
  BY <1>1
<1>9. \A v \in Reverser \ Undoing : g[v] = 0
  BY <1>1
<1>. HIDE DEF p, f, g, Done, Back, Rows, Undoing
<1>10. SumOf(f, Transaction) = SumOf(p, Done) + SumOf(p, Back)
  <2>1. SumOf(f, Transaction) = SumOf(f, Rows) + SumOf(f, Transaction \ Rows)
    BY <1>2, <1>4, <1>5, SumOfParts
  <2>2. SumOf(f, Transaction \ Rows) = 0
    BY <1>1, <1>4, <1>5, SumOfZeros
  <2>3. SumOf(f, Rows) = SumOf(p, Rows)
    BY <1>1, <1>4, <1>5, SumOfAgrees
  <2>4. SumOf(p, Rows) = SumOf(p, Done) + SumOf(p, Back)
    <3>1. \A t \in Rows : p[t] \in Int
      BY <1>2, <1>5
    <3>2. SumOf(p, Rows) = SumOf(p, Done) + SumOf(p, Rows \ Done)
      BY <1>4, <1>5, <3>1, SumOfParts
    <3>. QED
      BY <1>5, <3>2
  <2>5. SumOf(p, Rows) \in Int
    BY <1>2, <1>4, <1>5, SumOfSplit
  <2>. QED
    BY <2>1, <2>2, <2>3, <2>4, <2>5
<1>11. SumOf(g, Reverser) = SumOf(g, Undoing)
  <2>1. SumOf(g, Reverser) = SumOf(g, Undoing) + SumOf(g, Reverser \ Undoing)
    BY <1>2, <1>4, <1>5, SumOfParts
  <2>2. SumOf(g, Reverser \ Undoing) = 0
    BY <1>4, <1>9, SumOfZeros
  <2>3. SumOf(g, Undoing) \in Int
    BY <1>2, <1>4, <1>5, SumOfSplit
  <2>. QED
    BY <2>1, <2>2, <2>3
<1>12. SumOf(p, Back) + SumOf(g, Undoing) = 0
  <2> DEFINE h == [v \in Undoing |-> target[v]]
  <2>1. IsFiniteSet(Undoing)
    BY <1>4, <1>5
  <2>2. \A v \in Undoing : g[v] \in Int /\ p[h[v]] \in Int /\ p[h[v]] + g[v] = 0
    BY <1>2, <1>5, <1>8
  <2>3. h \in [Undoing -> Back] /\ \A t \in Back : \E v \in Undoing : t = h[v]
    BY <1>6
  <2>4. \A v, w \in Undoing : h[v] = h[w] => v = w
    BY <1>7
  <2>. HIDE DEF h
  <2>. QED
    BY <2>1, <2>2, <2>3, <2>4, SumOfOpposites
<1>13. /\ SumOf(p, Done) \in Int /\ SumOf(p, Back) \in Int /\ SumOf(g, Undoing) \in Int
       /\ OpeningBalance[a] \in Int
  <2>1. Done \in SUBSET Transaction
    BY <1>5
  <2>2. SumOf(p, Done) \in Int
    BY <1>2, <1>4, <2>1, SumOfSplit
  <2>3. SumOf(p, Back) \in Int
    BY <1>2, <1>4, <1>5, SumOfSplit
  <2>4. SumOf(g, Undoing) \in Int
    BY <1>2, <1>4, <1>5, SumOfSplit
  <2>5. OpeningBalance[a] \in Int
    BY SagaAssumption
  <2>. QED
    BY <2>2, <2>3, <2>4, <2>5
<1>14. PostedOf(job, a, Done) = SumOf(p, Done)
  <2>1. Done \in SUBSET Transaction
    BY <1>5
  <2>. QED
    BY <2>1, PostedOfIs DEF p
<1>15. balance[a] - OpeningBalance[a] = PostedOf(job, a, Done)
  BY <1>3, <1>10, <1>11, <1>12, <1>13, <1>14
<1>. QED
  BY <1>15 DEF Done

\* On a day without retries, failures and second reversals account-service's
\* balances, the ledger's entries and the reversals agree on every account, for
\* any number of transactions, accounts and reversals, unless two calls that move
\* one balance were under way at once.
THEOREM QuietDay == Spec => []QuietBooksAgree
<1>1. Init => FoundInv /\ BooksInv
  BY FoundInvInit, BooksInvInit
<1>2. IInv /\ IInv' /\ FoundInv /\ BooksInv /\ [Next]_vars => FoundInv' /\ BooksInv'
  BY FoundInvNext, BooksInvNext
<1>. QED
  BY <1>1, <1>2, QuietBooks, Invariance, PTL DEF Spec

-----------------------------------------------------------------------------
(* Every step is a step of TransactionLifecycle or leaves it unchanged.    *)

\* Changes of pc, of what was seen, and of calls other than their service do
\* not show.
LEMMA LifeStutter ==
    ASSUME UNCHANGED <<job, status, ledger, target, served>>
    PROVE  UNCHANGED Life!lifeVars
  BY DEF Life!lifeVars, Undone

LEMMA LifeInits == Init => Life!LifeInit
<1> SUFFICES ASSUME Init PROVE Life!LifeInit
  OBVIOUS
<1>1. \A t \in Transaction, l \in Leg : served[<<t, l>>] = 0
  BY CallFacts DEF Init, CallsInit
<1>2. \A v \in Reverser : served[v] = 0
  BY CallFacts DEF Init, CallsInit
<1>3. \A t \in Transaction : {l \in Legs(job[t]) : served[<<t, l>>] > 0} = {}
  BY <1>1 DEF Legs
<1>4. Undone = {}
  BY <1>2 DEF Undone
<1>5. [t \in Transaction |-> Legs(job[t])] \in [Transaction -> SUBSET Leg]
  BY DEF Init, Legs
<1>6. [t \in Transaction |-> {l \in Legs(job[t]) : served[<<t, l>>] > 0}]
        = [t \in Transaction |-> {}]
  BY <1>3
<1>7. status = [t \in Transaction |-> "none"] /\ ledger = {}
  BY DEF Init
<1>. QED
  BY <1>4, <1>5, <1>6, <1>7 DEF Life!LifeInit

\* A status written and nothing else that shows.
LEMMA LifeBecome ==
    ASSUME NEW t \in Transaction, NEW from, NEW to,
           status[t] \in from, SetStatus(t, to),
           UNCHANGED <<job, ledger, target, served>>
    PROVE  Life!Become(t, from, to)
<1>1. UNCHANGED <<[u \in Transaction |-> Legs(job[u])], ledger,
                  [u \in Transaction |->
                      {l \in Legs(job[u]) : served[<<u, l>>] > 0}], Undone>>
  BY DEF Undone
<1>. QED
  BY <1>1 DEF Life!Become, SetStatus

\* Every status the handlers write is one the lifecycle allows.
LEMMA LifeStatus ==
    ASSUME IInv, NEW t \in Transaction,
           CreatePending(t) \/ StartProcessing(t) \/ Complete(t) \/ MarkFailed(t)
    PROVE  Life!LifeNext
<1> USE DEF callVars, Goto
<1>1. CASE CreatePending(t)
  <2>1. Life!Become(t, {"none"}, "pending")
    BY <1>1, LifeBecome DEF IInv, RowAtStep, CreatePending
  <2>. QED
    BY <2>1 DEF Life!LifeNext, Life!Create
<1>2. CASE StartProcessing(t)
  <2>1. Life!Become(t, {"pending"}, "processing")
    BY <1>2, LifeBecome DEF IInv, RowAtStep, StartProcessing
  <2>. QED
    BY <2>1 DEF Life!LifeNext, Life!Process
<1>3. CASE Complete(t)
  <2>1. Life!Become(t, {"processing"}, "completed")
    BY <1>3, LifeBecome DEF IInv, RowAtStep, Complete
  <2>2. t \in ledger
    BY <1>3 DEF IInv, CallsFollowRows, Complete
  <2>3. \A l \in Legs(job[t]) : served[<<t, l>>] > 0
    BY <1>3, CallFacts, LegCallsAre DEF IInv, CallsSound, Complete, Legs
  <2>4. {l \in Legs(job[t]) : served[<<t, l>>] > 0} = Legs(job[t])
    BY <2>3
  <2>. QED
    BY <2>1, <2>2, <2>4 DEF Life!LifeNext, Life!Complete
<1>4. CASE MarkFailed(t)
  <2>1. Life!Become(t, {"pending", "processing"}, "failed")
    BY <1>4, LifeBecome DEF IInv, RowAtStep, MarkFailed
  <2>. QED
    BY <2>1 DEF Life!LifeNext, Life!Fail
<1>. QED
  BY <1>1, <1>2, <1>3, <1>4

LEMMA LifePost ==
    ASSUME IInv, NEW t \in Transaction, PostLedger(t)
    PROVE  Life!Post(t)
<1>1. UNCHANGED <<[u \in Transaction |-> Legs(job[u])], status,
                  [u \in Transaction |->
                      {l \in Legs(job[u]) : served[<<u, l>>] > 0}], Undone>>
  BY DEF PostLedger, Undone, callVars
<1>2. status[t] = "processing" /\ ledger' = ledger \union {t}
  BY DEF PostLedger, Goto, IInv, RowAtStep
<1>. QED
  BY <1>1, <1>2 DEF Life!Post

\* REVERSED is written only over COMPLETED, or again over REVERSED.
LEMMA LifeMarkReversed ==
    ASSUME IInv, NEW v \in Reverser, MarkReversed(v)
    PROVE  [Life!LifeNext]_Life!lifeVars
<1> DEFINE t == target[v]
<1>1. t \in Transaction /\ status[t] \in {"completed", "reversed"}
  BY DEF IInv, SagaTypeOK, CallsFollowRows, MarkReversed
<1>2. SetStatus(t, "reversed") /\ UNCHANGED <<job, ledger, target, served>>
  BY DEF MarkReversed, callVars
<1>3. CASE status[t] = "completed"
  <2>1. served[v] > 0
    BY CallFacts DEF MarkReversed, IInv, CallsSound
  <2>2. t \in Undone
    BY <2>1 DEF Undone
  <2>3. Life!Become(t, {"completed"}, "reversed")
    BY <1>1, <1>2, <1>3, LifeBecome
  <2>. QED
    BY <1>1, <2>2, <2>3 DEF Life!LifeNext, Life!MarkReversed
<1>4. CASE status[t] = "reversed"
  <2>1. status' = status
    BY <1>1, <1>2, <1>4 DEF SetStatus, IInv, SagaTypeOK
  <2>. QED
    BY <1>2, <2>1, LifeStutter
<1>. QED
  BY <1>1, <1>3, <1>4

\* The server serves a leg only of a posted transaction, a reversal only of a
\* completed one.
LEMMA LifeCarryOut ==
    ASSUME IInv, NEW c \in Call, CarryOut(c)
    PROVE  Life!LifeNext
<1>1. /\ served' = [served EXCEPT ![c] = @ + 1]
      /\ UNCHANGED <<job, status, ledger, target>>
  BY DEF CarryOut, Accept, AcceptLate, sagaVars
<1>2. phase[c] # "idle"
  BY DEF CarryOut, Accept, AcceptLate, IInv, SagaTypeOK, CallsSound
<1>3. \A d \in Call : served[d] \in Nat
  BY DEF IInv, SagaTypeOK
<1>4. UNCHANGED [u \in Transaction |-> Legs(job[u])]
  BY <1>1
<1>5. CASE c \in Reverser
  <2> DEFINE t == target[c]
  <2>1. t \in Transaction /\ status[t] \in {"completed", "reversed"}
    BY <1>2, <1>5 DEF IInv, SagaTypeOK, CallsFollowRows
  <2>2. \A u \in Transaction, l \in Leg : served'[<<u, l>>] = served[<<u, l>>]
    <3>1. \A u \in Transaction, l \in Leg : <<u, l>> \in Call /\ <<u, l>> # c
      BY <1>5, CallFacts DEF LegCall
    <3>2. \A d \in Call \ {c} : served'[d] = served[d]
      BY <1>1 DEF IInv, SagaTypeOK
    <3>. QED
      BY <3>1, <3>2
  <2>3. UNCHANGED [u \in Transaction |->
                      {l \in Legs(job[u]) : served[<<u, l>>] > 0}]
    BY <1>1, <2>2 DEF Legs
  <2>4. /\ \A w \in Reverser \ {c} : served'[w] = served[w]
        /\ served'[c] > 0
    BY <1>1, <1>3, <1>5, CallFacts DEF IInv, SagaTypeOK
  <2>5. Undone' = Undone \union {t}
    BY <1>1, <1>5, <2>4 DEF Undone
  <2>6. Life!Undo(t)
    BY <1>1, <1>4, <2>1, <2>3, <2>5 DEF Life!Undo
  <2>. QED
    BY <2>1, <2>6 DEF Life!LifeNext
<1>6. CASE c \in LegCall
  <2>1. PICK t \in Transaction, l \in Leg : c = <<t, l>>
    BY <1>6 DEF LegCall
  <2>2. t \in ledger /\ l \in Legs(job[t])
    BY <1>2, <2>1 DEF IInv, CallsFollowRows
  <2>3. \A w \in Reverser : served'[w] = served[w]
    BY <1>1, <1>6, CallFacts DEF IInv, SagaTypeOK
  <2>4. UNCHANGED Undone
    BY <1>1, <2>3 DEF Undone
  <2>5. \A u \in Transaction, m \in Leg :
            served'[<<u, m>>] > 0 <=> served[<<u, m>>] > 0 \/ (u = t /\ m = l)
    <3> SUFFICES ASSUME NEW u \in Transaction, NEW m \in Leg
                 PROVE  served'[<<u, m>>] > 0
                            <=> served[<<u, m>>] > 0 \/ (u = t /\ m = l)
      OBVIOUS
    <3>1. <<u, m>> \in Call /\ served[<<u, m>>] \in Nat
      BY <1>3, CallFacts
    <3>2. CASE u = t /\ m = l
      <4>1. served'[<<u, m>>] = served[<<u, m>>] + 1
        BY <1>1, <2>1, <3>1, <3>2 DEF IInv, SagaTypeOK
      <4>. QED
        BY <3>1, <3>2, <4>1
    <3>3. CASE ~(u = t /\ m = l)
      <4>1. <<u, m>> # c
        BY <2>1, <3>3
      <4>2. served'[<<u, m>>] = served[<<u, m>>]
        BY <1>1, <3>1, <4>1 DEF IInv, SagaTypeOK
      <4>. QED
        BY <3>3, <4>2
    <3>. QED
      BY <3>2, <3>3
  <2>6. [u \in Transaction |-> {m \in Legs(job[u]) : served[<<u, m>>] > 0}]'
          = [[u \in Transaction |-> {m \in Legs(job[u]) : served[<<u, m>>] > 0}]
                EXCEPT ![t] = @ \union {l}]
    BY <1>1, <2>2, <2>5 DEF Legs
  <2>7. Life!Move(t, l)
    BY <1>1, <1>4, <2>2, <2>4, <2>6 DEF Life!Move
  <2>. QED
    BY <2>7 DEF Life!LifeNext
<1>. QED
  BY <1>5, <1>6 DEF Call

LEMMA LifeStep ==
    ASSUME IInv, [Next]_vars
    PROVE  [Life!LifeNext]_Life!lifeVars
<1>1. ASSUME NEW t \in Transaction, Handle(t)
      PROVE  [Life!LifeNext]_Life!lifeVars
  <2>1. CASE CreatePending(t) \/ StartProcessing(t) \/ Complete(t) \/ MarkFailed(t)
    BY <2>1, LifeStatus
  <2>2. CASE PostLedger(t)
    BY <2>2, LifePost DEF Life!LifeNext
  <2>3. CASE \/ Validate(t) \/ Invalid(t) \/ CheckLimits(t) \/ LimitRefused(t)
             \/ CreateFails(t) \/ SendLegs(t) \/ LegFailed(t) \/ WriteFails(t)
             \/ MarkFailedFails(t)
    <3>1. UNCHANGED <<job, status, ledger, target, served>>
      BY <2>3
      DEF Validate, Invalid, CheckLimits, LimitRefused, CreateFails, SendLegs, Start,
          LegFailed, WriteFails, MarkFailedFails, callVars
    <3>. QED
      BY <3>1, LifeStutter
  <2>. QED
    BY <1>1, <2>1, <2>2, <2>3 DEF Handle
<1>2. ASSUME NEW v \in Reverser, Reverse(v)
      PROVE  [Life!LifeNext]_Life!lifeVars
  <2>1. CASE MarkReversed(v)
    BY <2>1, LifeMarkReversed
  <2>2. CASE ReadCompleted(v) \/ ReadOther(v) \/ ReverseFails(v)
    <3>1. UNCHANGED <<job, status, ledger, target, served>>
      BY <2>2 DEF ReadCompleted, ReadOther, ReverseFails, Start, callVars
    <3>. QED
      BY <3>1, LifeStutter
  <2>. QED
    BY <1>2, <2>1, <2>2 DEF Reverse
<1>3. ASSUME NEW c \in Call, Network(c)
      PROVE  [Life!LifeNext]_Life!lifeVars
  <2>1. UNCHANGED <<job, status, ledger, target, served>>
    BY <1>3
    DEF Network, Refuse, DropLate, Receive, NetworkError, TimeOut, sagaVars
  <2>. QED
    BY <2>1, LifeStutter
<1>4. ASSUME NEW h \in Handler, Crash(h)
      PROVE  [Life!LifeNext]_Life!lifeVars
  <2>1. UNCHANGED <<job, status, ledger, target, served>>
    BY <1>4 DEF Crash, Abandon
  <2>. QED
    BY <2>1, LifeStutter
<1>5. CASE UNCHANGED vars
  BY <1>5, LifeStutter DEF vars
<1>. QED
  BY <1>1, <1>2, <1>3, <1>4, <1>5, LifeCarryOut DEF Next, SagaStep

\* transaction-service keeps the lifecycle's promises whatever happens to its
\* calls, its writes and its instances.
THEOREM Refinement == Spec => ImplementsLifecycle
<1>1. Init => Life!LifeInit
  BY LifeInits
<1>2. IInv /\ [Next]_vars => [Life!LifeNext]_Life!lifeVars
  BY LifeStep
<1>. QED
  BY <1>1, <1>2, Invariance, PTL DEF Spec, ImplementsLifecycle, Life!LifeSpec
=============================================================================
