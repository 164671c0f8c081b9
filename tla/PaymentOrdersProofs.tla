------------------------- MODULE PaymentOrdersProofs --------------------------
(***************************************************************************)
(* Proofs about PaymentOrders, for any orders, refund requests, approvals  *)
(* and number of attempts.                                                 *)
(***************************************************************************)
EXTENDS PaymentOrders, TLAPS

Paid(o) == order[o].status \in {"success", "refunded"}

\* A transfer is made at most once per attempt, and an answer names one of
\* those that were made.
CallsSound ==
    \A o \in Order :
        /\ served[o] + late[o] + (IF phase[o] = "sent" THEN 1 ELSE 0) <= attempts[o]
        /\ phase[o] \in {"accepted", "ok"} => answer[o] \in 1..served[o]
        /\ phase[o] = "idle" => attempts[o] = 0
        /\ pc[o] \in {"new", "otp"} => phase[o] = "idle"

\* An order is where its handler has brought it.
OrderAtStep ==
    \A o \in Order :
        /\ pc[o] = "new" => order[o].status = "none"
        /\ pc[o] \in {"otp", "calling", "fail"} => order[o].status = "initiated"
        /\ pc[o] = "receipt" => Paid(o)

\* Only an order with an outcome names a transfer, one that was made, and a
\* paid order does.
NamesTransfer ==
    \A o \in Order :
        /\ order[o].txn \in 0..served[o]
        /\ order[o].status \in {"none", "initiated"} => order[o].txn = 0
        /\ Paid(o) => order[o].txn # 0
        /\ o \in receipts => Paid(o)

\* The consumer holds only the event of the transfer its order names.
EventOfOrder ==
    \A o \in Order, k \in Transfer :
        /\ event[o][k] \in {"loaded", "receipt"} => order[o].txn = k
        /\ event[o][k] = "receipt" => Paid(o)

\* Refunds belong to paid orders, approvals to refunds that exist.
RefundsOfPaid ==
    /\ \A r \in Refund :
          /\ pc[r] # "new" => Paid(refundOf[r])
          /\ refund[r] # "none" => pc[r] # "new"
    /\ \A a \in Approval : pc[a] # "new" => refund[approvalOf[a]] # "none"

\* The inductive invariant.
IInv ==
    /\ TypeOK
    /\ CallsSound
    /\ OrderAtStep
    /\ NamesTransfer
    /\ EventOfOrder
    /\ RefundsOfPaid

-----------------------------------------------------------------------------
LEMMA HandlerKinds ==
    /\ Order \subseteq Handler /\ Refund \subseteq Handler /\ Approval \subseteq Handler
    /\ \A o \in Order : o \notin Refund /\ o \notin Approval
    /\ \A r \in Refund : r \notin Approval
  BY PaymentAssumption DEF Handler

LEMMA InvInit == Init => IInv
<1> SUFFICES ASSUME Init PROVE IInv
  OBVIOUS
<1> USE HandlerKinds, PaymentAssumption DEF Init, CallsInit
<1>1. TypeOK
  <2>1. /\ order \in [Order -> [status : PaymentStatus, txn : 0..MaxAttempts]]
        /\ receipts \in SUBSET Order
        /\ refund \in [Refund -> RefundStatus]
        /\ refundOf \in [Refund -> Order] /\ approvalOf \in [Approval -> Refund]
    BY DEF PaymentStatus, RefundStatus
  <2>2. pc \in [Handler -> HandlerStep]
    BY DEF HandlerStep
  <2>5. requested \in Seq(Refund)
    OBVIOUS
  <2>3. answer \in [Order -> 0..MaxAttempts]
    OBVIOUS
  <2>6. overlapped \in BOOLEAN
    OBVIOUS
  <2>7. event \in [Order -> [Transfer -> EventState]]
    <3>1. [k \in Transfer |-> "none"] \in [Transfer -> EventState]
      BY DEF EventState
    <3>. QED
      BY <3>1
  <2>4. /\ phase \in [Order -> Phase] /\ attempts \in [Order -> 0..MaxAttempts]
        /\ late \in [Order -> Nat] /\ served \in [Order -> Nat]
    BY DEF Phase
  <2>. QED
    BY <2>1, <2>2, <2>3, <2>4, <2>5, <2>6, <2>7 DEF TypeOK
<1>2. CallsSound /\ OrderAtStep /\ NamesTransfer
  BY DEF CallsSound, OrderAtStep, NamesTransfer, Paid
<1>3. EventOfOrder
  BY DEF EventOfOrder
<1>4. RefundsOfPaid
  BY DEF RefundsOfPaid
<1>. QED
  BY <1>1, <1>2, <1>3, <1>4 DEF IInv

-----------------------------------------------------------------------------
(* POST /payments.                                                         *)

\* A handler of an order that only moves on.
LEMMA InvOrderMoves ==
    ASSUME IInv, NEW o \in Order,
           \/ CreateOrderFails(o) \/ OtpRejected(o) \/ OrderNotPaid(o)
           \/ OrderFailedFails(o) \/ ReceiptFails(o)
    PROVE  IInv'
<1> USE HandlerKinds DEF IInv, refundVars, callVars, Goto, CreateOrderFails,
        OtpRejected, OrderNotPaid, OrderFailedFails, ReceiptFails
<1>1. TypeOK'
  BY DEF TypeOK, HandlerStep
<1>2. CallsSound'
  BY DEF TypeOK, CallsSound
<1>3. OrderAtStep'
  BY DEF TypeOK, OrderAtStep, Paid
<1>4. NamesTransfer' /\ EventOfOrder'
  BY DEF NamesTransfer, EventOfOrder, Paid
<1>5. RefundsOfPaid'
  BY DEF TypeOK, RefundsOfPaid, Paid
<1>. QED
  BY <1>1, <1>2, <1>3, <1>4, <1>5

\* An order row after a save.
LEMMA OrderSaved ==
    ASSUME TypeOK, NEW o \in Order, NEW s \in PaymentStatus, NEW k \in 0..MaxAttempts,
           \/ order' = [order EXCEPT ![o] = [status |-> s, txn |-> k]]
           \/ SetOrder(o, s) /\ k = order[o].txn
    PROVE  /\ order' \in [Order -> [status : PaymentStatus, txn : 0..MaxAttempts]]
           /\ order'[o].status = s /\ order'[o].txn = k
           /\ \A p \in Order \ {o} : order'[p] = order[p]
<1>1. order \in [Order -> [status : PaymentStatus, txn : 0..MaxAttempts]]
  BY DEF TypeOK
<1>2. CASE order' = [order EXCEPT ![o] = [status |-> s, txn |-> k]]
  BY <1>1, <1>2
<1>3. CASE SetOrder(o, s) /\ k = order[o].txn
  BY <1>1, <1>3 DEF SetOrder
<1>. QED
  BY <1>2, <1>3

\* A handler that writes its order: created, paid or failed.
LEMMA InvSave ==
    ASSUME IInv, NEW o \in Order, NEW s \in PaymentStatus, NEW k \in 0..MaxAttempts,
           NEW from, NEW to, Goto(o, from, to),
           \/ from = "new" /\ to = "otp" /\ s = "initiated" /\ k = 0
           \/ from = "calling" /\ to = "receipt" /\ s = "success" /\ k \in 1..served[o]
           \/ from = "fail" /\ to = "done" /\ s = "failed" /\ k \in 0..served[o],
           \/ order' = [order EXCEPT ![o] = [status |-> s, txn |-> k]]
           \/ SetOrder(o, s) /\ k = order[o].txn,
           UNCHANGED <<receipts, refundVars, answer, event, callVars>>
    PROVE  IInv'
<1> USE HandlerKinds DEF IInv, refundVars, callVars, Goto
<1>1. order[o].status \in {"none", "initiated"} /\ order[o].txn = 0
  BY DEF TypeOK, OrderAtStep, NamesTransfer
<1>2. o \notin receipts /\ \A r \in Refund : refundOf[r] = o => pc[r] = "new"
  BY <1>1 DEF NamesTransfer, RefundsOfPaid, Paid
<1>3. \A n \in Transfer : event[o][n] \notin {"loaded", "receipt"}
  BY <1>1, PaymentAssumption DEF EventOfOrder, Transfer
<1>4. /\ order' \in [Order -> [status : PaymentStatus, txn : 0..MaxAttempts]]
      /\ order'[o].status = s /\ order'[o].txn = k
      /\ \A p \in Order \ {o} : order'[p] = order[p]
  BY OrderSaved
<1>5. pc'[o] = to /\ \A h \in Handler \ {o} : pc'[h] = pc[h]
  BY DEF TypeOK
<1>6. TypeOK'
  BY <1>4 DEF TypeOK, HandlerStep
<1>7. CallsSound'
  BY <1>5 DEF CallsSound
<1>8. OrderAtStep'
  BY <1>4, <1>5 DEF OrderAtStep, Paid
<1>9. NamesTransfer'
  <2>1. k \in 0..served[o] /\ (s = "initiated" => k = 0) /\ (s = "success" => k # 0)
    BY DEF TypeOK
  <2>2. s \in {"initiated", "success", "failed"}
    OBVIOUS
  <2>. QED
    BY <1>2, <1>4, <2>1, <2>2 DEF NamesTransfer, Paid
<1>10. EventOfOrder'
  BY <1>3, <1>4 DEF EventOfOrder, Paid
<1>11. RefundsOfPaid'
  <2>1. \A h \in Refund \union Approval : pc'[h] = pc[h]
    BY <1>5
  <2>2. \A r \in Refund : pc[r] # "new" => order'[refundOf[r]] = order[refundOf[r]]
    BY <1>2, <1>4 DEF TypeOK
  <2>. QED
    BY <2>1, <2>2 DEF RefundsOfPaid, Paid
<1>. QED
  BY <1>6, <1>7, <1>8, <1>9, <1>10, <1>11

LEMMA InvOrderSaved ==
    ASSUME IInv, NEW o \in Order, CreateOrder(o) \/ OrderPaid(o) \/ OrderFailed(o)
    PROVE  IInv'
<1>1. CASE CreateOrder(o)
  <2>1. order[o].txn = 0
    BY <1>1 DEF CreateOrder, Goto, IInv, OrderAtStep, NamesTransfer
  <2>. QED
    BY <1>1, <2>1, InvSave, PaymentAssumption DEF CreateOrder, PaymentStatus
<1>2. answer[o] \in 0..MaxAttempts /\ served[o] \in Nat
  BY DEF IInv, TypeOK
<1>3. phase[o] = "ok" => answer[o] \in 1..served[o]
  BY DEF IInv, CallsSound
<1>4. CASE OrderPaid(o)
  BY <1>2, <1>3, <1>4, InvSave DEF OrderPaid, PaymentStatus
<1>5. CASE OrderFailed(o)
  <2> DEFINE k == IF phase[o] = "ok" THEN answer[o] ELSE 0
  <2>1. k \in 0..MaxAttempts /\ k \in 0..served[o]
    BY <1>2, <1>3, PaymentAssumption
  <2>2. order' = [order EXCEPT ![o] = [status |-> "failed", txn |-> k]]
    BY <1>5 DEF OrderFailed
  <2>. QED
    BY <1>5, <2>1, <2>2, InvSave DEF OrderFailed, PaymentStatus
<1>. QED
  BY <1>1, <1>4, <1>5

LEMMA InvOtpVerified ==
    ASSUME IInv, NEW o \in Order, OtpVerified(o)
    PROVE  IInv'
<1> USE HandlerKinds DEF IInv, refundVars, Goto, OtpVerified
<1>1. PICK let \in SUBSET {o} :
        /\ phase' = [c \in Order |->
                        IF c \in let THEN "sent"
                        ELSE IF c \in {o} THEN "error" ELSE phase[c]]
        /\ attempts' = [c \in Order |-> IF c \in let THEN 1 ELSE attempts[c]]
        /\ UNCHANGED <<late, served>>
  BY DEF Start
<1>2. phase[o] = "idle"
  BY DEF CallsSound
<1>3. TypeOK'
  BY <1>1, PaymentAssumption DEF TypeOK, HandlerStep, Phase
<1>4. CallsSound'
  BY <1>1, <1>2 DEF TypeOK, CallsSound
<1>5. OrderAtStep'
  BY DEF TypeOK, OrderAtStep, Paid
<1>6. NamesTransfer' /\ EventOfOrder'
  BY <1>1 DEF NamesTransfer, EventOfOrder, Paid
<1>7. RefundsOfPaid'
  BY DEF TypeOK, RefundsOfPaid, Paid
<1>. QED
  BY <1>3, <1>4, <1>5, <1>6, <1>7

LEMMA InvIssueReceipt ==
    ASSUME IInv, NEW o \in Order, IssueReceipt(o)
    PROVE  IInv'
<1> USE HandlerKinds DEF IInv, refundVars, callVars, Goto, IssueReceipt
<1>1. TypeOK'
  BY DEF TypeOK, HandlerStep
<1>2. CallsSound' /\ OrderAtStep'
  BY DEF TypeOK, CallsSound, OrderAtStep, Paid
<1>3. NamesTransfer' /\ EventOfOrder'
  BY DEF NamesTransfer, EventOfOrder, OrderAtStep, Paid
<1>4. RefundsOfPaid'
  BY DEF TypeOK, RefundsOfPaid, Paid
<1>. QED
  BY <1>1, <1>2, <1>3, <1>4

LEMMA InvCrash ==
    ASSUME IInv, NEW o \in Order, Crash(o)
    PROVE  IInv'
<1> USE HandlerKinds DEF IInv, refundVars, Crash
<1>1. PICK left \in SUBSET {c \in {o} : phase[c] = "sent"} :
        late' = [c \in Order |-> IF c \in left THEN late[c] + 1 ELSE late[c]]
  BY DEF Abandon
<1>2. /\ phase' = [c \in Order |->
                     IF c \in {o} /\ Waiting(c) THEN "error" ELSE phase[c]]
      /\ UNCHANGED <<attempts, served>>
  BY DEF Abandon
<1>3. TypeOK'
  BY <1>1, <1>2 DEF TypeOK, HandlerStep, Phase
<1>4. CallsSound'
  BY <1>1, <1>2 DEF TypeOK, CallsSound, Waiting
<1>5. OrderAtStep'
  BY DEF TypeOK, OrderAtStep, Paid
<1>6. NamesTransfer' /\ EventOfOrder'
  BY <1>2 DEF NamesTransfer, EventOfOrder, Paid
<1>7. RefundsOfPaid'
  BY DEF TypeOK, RefundsOfPaid, Paid
<1>. QED
  BY <1>3, <1>4, <1>5, <1>6, <1>7

-----------------------------------------------------------------------------
(* The calls.                                                              *)

\* An event after it has moved on.
LEMMA EventSet ==
    ASSUME TypeOK, NEW o \in Order, NEW k \in Transfer, NEW e \in EventState,
           event' = [event EXCEPT ![o] = [@ EXCEPT ![k] = e]]
    PROVE  /\ event' \in [Order -> [Transfer -> EventState]]
           /\ event'[o][k] = e
           /\ \A p \in Order, n \in Transfer :
                 ~(p = o /\ n = k) => event'[p][n] = event[p][n]
<1>1. event \in [Order -> [Transfer -> EventState]]
  BY DEF TypeOK
<1>2. event'[o] = [event[o] EXCEPT ![k] = e] /\ \A p \in Order \ {o} : event'[p] = event[p]
  BY <1>1
<1>3. event'[o][k] = e /\ \A n \in Transfer \ {k} : event'[o][n] = event[o][n]
  BY <1>1, <1>2
<1>. QED
  BY <1>1, <1>2, <1>3

\* The transfer made by the n-th serving is the n-th: there are as many
\* numbers as attempts.
LEMMA InvCarryOut ==
    ASSUME IInv, NEW o \in Order, CarryOut(o)
    PROVE  IInv'
<1> USE DEF IInv, refundVars
<1>1. Accept(o) \/ AcceptLate(o)
  BY DEF CarryOut
<1>2. UNCHANGED <<order, receipts, refundVars, pc>>
  BY DEF CarryOut
<1>3. /\ phase \in [Order -> Phase] /\ attempts \in [Order -> 0..MaxAttempts]
      /\ late \in [Order -> Nat] /\ served \in [Order -> Nat]
      /\ answer \in [Order -> 0..MaxAttempts]
  BY DEF TypeOK
<1>4. served'[o] = served[o] + 1 /\ \A p \in Order \ {o} : served'[p] = served[p]
  BY <1>1, <1>3 DEF Accept, AcceptLate
<1>5. served'[o] \in Transfer
  BY <1>1, <1>3, <1>4, PaymentAssumption DEF CallsSound, Accept, AcceptLate, Transfer
<1>6. PICK e \in {"queued", "lost"} :
        event' = [event EXCEPT ![o] = [@ EXCEPT ![served'[o]] = e]]
  BY DEF CarryOut
<1>7. /\ event' \in [Order -> [Transfer -> EventState]]
      /\ \A p \in Order, n \in Transfer :
            event'[p][n] \in {"loaded", "receipt"} => event'[p][n] = event[p][n]
  <2>1. e \in EventState /\ e \notin {"loaded", "receipt"}
    BY DEF EventState
  <2>2. /\ event' \in [Order -> [Transfer -> EventState]]
        /\ event'[o][served'[o]] = e
        /\ \A p \in Order, n \in Transfer :
              ~(p = o /\ n = served'[o]) => event'[p][n] = event[p][n]
    <3>1. TypeOK /\ e \in EventState
      BY <2>1
    <3> HIDE DEF IInv, refundVars
    <3>. QED
      BY <1>5, <1>6, <3>1, EventSet
  <2>. QED
    BY <2>1, <2>2
<1>8. /\ phase' \in [Order -> Phase] /\ attempts' \in [Order -> 0..MaxAttempts]
      /\ late' \in [Order -> Nat] /\ served' \in [Order -> Nat]
  BY <1>1, <1>3 DEF Accept, AcceptLate, Moves, Phase
<1>9. answer' \in [Order -> 0..MaxAttempts]
  BY <1>3, <1>5 DEF CarryOut, Transfer
<1>10. TypeOK'
  BY <1>2, <1>7, <1>8, <1>9 DEF TypeOK
<1>11. CallsSound'
  <2>1. CASE Accept(o) /\ answer' = [answer EXCEPT ![o] = served'[o]]
    BY <1>2, <1>3, <1>4, <2>1 DEF CallsSound, Accept, Moves
  <2>2. CASE AcceptLate(o) /\ UNCHANGED answer
    BY <1>2, <1>3, <1>4, <2>2 DEF CallsSound, AcceptLate
  <2>. QED
    BY <2>1, <2>2 DEF CarryOut
<1>12. OrderAtStep' /\ RefundsOfPaid'
  BY <1>2 DEF OrderAtStep, RefundsOfPaid, Paid
<1>13. NamesTransfer'
  <2>1. \A p \in Order : order[p].txn \in 0..served[p] => order[p].txn \in 0..served'[p]
    BY <1>3, <1>4
  <2>. QED
    BY <1>2, <2>1 DEF NamesTransfer, Paid
<1>14. EventOfOrder'
  BY <1>2, <1>7 DEF EventOfOrder, Paid
<1>. QED
  BY <1>10, <1>11, <1>12, <1>13, <1>14

LEMMA InvNetwork ==
    ASSUME IInv, NEW o \in Order, Network(o)
    PROVE  IInv'
<1> USE DEF IInv, refundVars
<1>1. Refuse(o) \/ DropLate(o) \/ Receive(o) \/ NetworkError(o) \/ TimeOut(o)
  BY DEF Network
<1>2. UNCHANGED <<order, receipts, refundVars, pc, answer, event>>
  BY DEF Network
<1>3. /\ phase \in [Order -> Phase] /\ attempts \in [Order -> 0..MaxAttempts]
      /\ late \in [Order -> Nat] /\ served \in [Order -> Nat]
  BY DEF TypeOK
<1>4. /\ phase' \in [Order -> Phase] /\ UNCHANGED served
  BY <1>1, <1>3
  DEF Refuse, DropLate, Receive, NetworkError, TimeOut, Waiting, Moves, Phase
<1>5. late' \in [Order -> Nat]
  BY <1>1, <1>3 DEF Refuse, DropLate, Receive, NetworkError, TimeOut, LeaveBehind
<1>6. attempts' \in [Order -> 0..MaxAttempts]
  <2>1. CASE NetworkError(o) /\ attempts[o] < MaxAttempts
    BY <1>3, <2>1, PaymentAssumption DEF NetworkError
  <2>2. CASE ~(NetworkError(o) /\ attempts[o] < MaxAttempts)
    BY <1>1, <1>3, <2>2 DEF Refuse, DropLate, Receive, NetworkError, TimeOut
  <2>. QED
    BY <2>1, <2>2
<1>7. TypeOK'
  BY <1>2, <1>3, <1>4, <1>5, <1>6 DEF TypeOK
<1>8. CallsSound'
  <2>1. CASE Refuse(o) \/ DropLate(o) \/ Receive(o)
    BY <1>2, <1>3, <2>1 DEF CallsSound, Refuse, DropLate, Receive, Moves
  <2>2. CASE NetworkError(o)
    BY <1>2, <1>3, <2>2
    DEF CallsSound, NetworkError, Waiting, Moves, LeaveBehind
  <2>3. CASE TimeOut(o)
    BY <1>2, <1>3, <2>3 DEF CallsSound, TimeOut, Waiting, Moves, LeaveBehind
  <2>. QED
    BY <1>1, <2>1, <2>2, <2>3
<1>9. OrderAtStep' /\ RefundsOfPaid'
  BY <1>2 DEF OrderAtStep, RefundsOfPaid, Paid
<1>10. NamesTransfer' /\ EventOfOrder'
  BY <1>2, <1>4 DEF NamesTransfer, EventOfOrder, Paid
<1>. QED
  BY <1>7, <1>8, <1>9, <1>10

-----------------------------------------------------------------------------
(* The consumer.                                                           *)

\* A message that moves on and leaves the tables alone.
LEMMA InvEventMoves ==
    ASSUME IInv, NEW o \in Order, NEW k \in Transfer,
           \/ NoSuchOrder(o, k) \/ AlreadyPaid(o, k) \/ LoadUnpaid(o, k)
           \/ Requeue(o, k)
    PROVE  IInv'
<1> USE DEF IInv, refundVars, callVars
<1> DEFINE Moved(e) == event' = [event EXCEPT ![o] = [@ EXCEPT ![k] = e]]
<1>1. UNCHANGED <<order, receipts, refundVars, pc, answer, callVars>>
  BY DEF NoSuchOrder, AlreadyPaid, LoadUnpaid, Requeue
<1>2. PICK e \in EventState \ {"receipt"} :
        Moved(e) /\ (e = "loaded" => order[o].txn = k)
  <2>1. \/ Moved("dead") \/ Moved("acked") \/ Moved("queued")
        \/ Moved("loaded") /\ order[o].txn = k
    BY Zenon DEF NoSuchOrder, AlreadyPaid, LoadUnpaid, Requeue, Settle
  <2>. QED
    BY <2>1 DEF EventState
<1>3. /\ event' \in [Order -> [Transfer -> EventState]]
      /\ event'[o][k] = e
      /\ \A p \in Order, n \in Transfer :
            ~(p = o /\ n = k) => event'[p][n] = event[p][n]
  <2>1. /\ TypeOK /\ e \in EventState
        /\ event' = [event EXCEPT ![o] = [@ EXCEPT ![k] = e]]
    BY <1>2
  <2> HIDE DEF IInv, refundVars, callVars
  <2>. QED
    BY <2>1, EventSet
<1>4. TypeOK'
  BY <1>1, <1>3 DEF TypeOK
<1>5. CallsSound' /\ OrderAtStep' /\ NamesTransfer' /\ RefundsOfPaid'
  BY <1>1 DEF CallsSound, OrderAtStep, NamesTransfer, RefundsOfPaid, Paid
<1>6. EventOfOrder'
  BY <1>1, <1>2, <1>3 DEF EventOfOrder, Paid
<1>. QED
  BY <1>4, <1>5, <1>6

\* A paid order is saved as paid or as refunded.
LEMMA PaidSaved ==
    ASSUME IInv, NEW o \in Order, Paid(o), NEW s \in {"success", "refunded"},
           SetOrder(o, s), UNCHANGED <<receipts, served>>,
           \A p \in Order : pc'[p] = pc[p]
    PROVE  /\ order' \in [Order -> [status : PaymentStatus, txn : 0..MaxAttempts]]
           /\ \A p \in Order : order'[p].txn = order[p].txn /\ (Paid(p) <=> Paid(p)')
           /\ OrderAtStep' /\ NamesTransfer'
<1>1. order[o].txn \in 0..MaxAttempts /\ s \in PaymentStatus
  BY DEF IInv, TypeOK, PaymentStatus
<1>2. /\ order' \in [Order -> [status : PaymentStatus, txn : 0..MaxAttempts]]
      /\ order'[o].status = s /\ order'[o].txn = order[o].txn
      /\ \A p \in Order \ {o} : order'[p] = order[p]
  BY <1>1, OrderSaved DEF IInv
<1>3. \A p \in Order : order'[p].txn = order[p].txn /\ (Paid(p) <=> Paid(p)')
  BY <1>2 DEF Paid
<1>4. OrderAtStep'
  BY <1>2, <1>3 DEF IInv, OrderAtStep, Paid
<1>5. NamesTransfer'
  BY <1>2, <1>3 DEF IInv, NamesTransfer, Paid
<1>. QED
  BY <1>2, <1>3, <1>4, <1>5

LEMMA InvEventPays ==
    ASSUME IInv, NEW o \in Order, NEW k \in Transfer, EventPays(o, k)
    PROVE  IInv'
<1> USE DEF IInv, refundVars, callVars
<1>1. UNCHANGED <<receipts, refundVars, pc, answer, callVars>> /\ SetOrder(o, "success")
  BY DEF EventPays
<1>2. order[o].txn = k /\ k # 0
  BY DEF EventPays, Settle, EventOfOrder, Transfer
<1>3. /\ event' \in [Order -> [Transfer -> EventState]]
      /\ event'[o][k] = "receipt"
      /\ \A p \in Order, n \in Transfer :
            ~(p = o /\ n = k) => event'[p][n] = event[p][n]
  <2>1. "receipt" \in EventState
    BY DEF EventState
  <2>2. TypeOK /\ event' = [event EXCEPT ![o] = [@ EXCEPT ![k] = "receipt"]]
    BY DEF EventPays, Settle
  <2> HIDE DEF IInv, refundVars, callVars
  <2>. QED
    BY <2>1, <2>2, EventSet
<1>4. order[o].txn \in 0..MaxAttempts /\ "success" \in PaymentStatus
  BY DEF TypeOK, PaymentStatus
<1>5. /\ order' \in [Order -> [status : PaymentStatus, txn : 0..MaxAttempts]]
      /\ order'[o].status = "success" /\ order'[o].txn = order[o].txn
      /\ \A p \in Order \ {o} : order'[p] = order[p]
  BY <1>1, <1>4, OrderSaved
<1>6. \A p \in Order : order'[p].txn = order[p].txn /\ (Paid(p) => Paid(p)')
  BY <1>5 DEF Paid
<1>7. TypeOK'
  BY <1>1, <1>3, <1>5 DEF TypeOK
<1>8. CallsSound'
  BY <1>1 DEF CallsSound
<1>9. OrderAtStep'
  BY <1>1, <1>2, <1>5 DEF OrderAtStep, NamesTransfer, Paid
<1>10. NamesTransfer'
  BY <1>1, <1>2, <1>5, <1>6 DEF NamesTransfer, Paid
<1>11. EventOfOrder'
  <2>1. Paid(o)'
    BY <1>5 DEF Paid
  <2>. QED
    BY <1>2, <1>3, <1>6, <2>1 DEF EventOfOrder
<1>12. RefundsOfPaid'
  BY <1>1, <1>6 DEF TypeOK, RefundsOfPaid
<1>. QED
  BY <1>7, <1>8, <1>9, <1>10, <1>11, <1>12

LEMMA InvEventReceipt ==
    ASSUME IInv, NEW o \in Order, NEW k \in Transfer, EventReceipt(o, k)
    PROVE  IInv'
<1> USE DEF IInv, refundVars, callVars, EventReceipt
<1>1. Paid(o)
  BY DEF Settle, EventOfOrder
<1>2. /\ event' \in [Order -> [Transfer -> EventState]]
      /\ event'[o][k] = "acked"
      /\ \A p \in Order, n \in Transfer :
            ~(p = o /\ n = k) => event'[p][n] = event[p][n]
  <2>1. "acked" \in EventState
    BY DEF EventState
  <2>2. TypeOK /\ event' = [event EXCEPT ![o] = [@ EXCEPT ![k] = "acked"]]
    BY DEF EventReceipt, Settle
  <2> HIDE DEF IInv, refundVars, callVars, EventReceipt
  <2>. QED
    BY <2>1, <2>2, EventSet
<1>3. TypeOK'
  BY <1>2 DEF TypeOK
<1>4. CallsSound' /\ OrderAtStep' /\ RefundsOfPaid'
  BY DEF CallsSound, OrderAtStep, RefundsOfPaid, Paid
<1>5. NamesTransfer'
  BY <1>1 DEF NamesTransfer, Paid
<1>6. EventOfOrder'
  BY <1>2 DEF EventOfOrder, Paid
<1>. QED
  BY <1>3, <1>4, <1>5, <1>6

-----------------------------------------------------------------------------
(* Refunds.                                                                *)

\* A refund request that found its order paid, or looked for a refund.
LEMMA InvRefundLooks ==
    ASSUME IInv, NEW r \in Refund, ReadPaidOrder(r) \/ FindNoRefund(r)
    PROVE  IInv'
<1> USE HandlerKinds DEF IInv, refundVars, callVars, Goto, ReadPaidOrder, FindNoRefund
<1>1. Paid(refundOf[r])
  BY DEF RefundsOfPaid, Paid
<1>2. \A h \in Order \union Approval : pc'[h] = pc[h]
  BY DEF TypeOK
<1>3. TypeOK'
  <2>1. pc' \in [Handler -> HandlerStep]
    BY DEF TypeOK, HandlerStep
  <2>2. requested' \in Seq(Refund)
    <3> HIDE DEF FindNoRefund, ReadPaidOrder
    <3>1. requested \in Seq(Refund)
      BY DEF TypeOK
    <3>2. requested' \in {requested, Append(requested, r)}
      BY Zenon DEF ReadPaidOrder, FindNoRefund
    <3>. QED
      BY <3>1, <3>2
  <2>3. overlapped' \in BOOLEAN
    BY Zenon DEF TypeOK
  <2>. QED
    BY <2>1, <2>2, <2>3 DEF TypeOK
<1>4. CallsSound' /\ OrderAtStep'
  BY <1>2 DEF CallsSound, OrderAtStep, Paid
<1>5. NamesTransfer' /\ EventOfOrder'
  BY DEF NamesTransfer, EventOfOrder, Paid
<1>6. RefundsOfPaid'
  BY <1>1, <1>2 DEF TypeOK, RefundsOfPaid, Paid
<1>. QED
  BY <1>3, <1>4, <1>5, <1>6

\* A refund row that is written, by a request or by an approval.
LEMMA InvRefundSaved ==
    ASSUME IInv, NEW h \in Handler,
           \/ h \in Refund /\ InsertRefund(h)
           \/ h \in Approval /\ (SaveApproved(h) \/ SaveCompleted(h))
    PROVE  IInv'
<1> USE HandlerKinds DEF IInv, refundVars, callVars
<1>1. PICK r \in Refund, s \in RefundStatus \ {"none"}, to \in HandlerStep \ {"new"} :
        /\ refund' = [refund EXCEPT ![r] = s]
        /\ pc' = [pc EXCEPT ![h] = to]
        /\ pc[r] # "new"
  <2>1. CASE h \in Refund /\ InsertRefund(h)
    BY <2>1 DEF InsertRefund, SetRefund, Goto, RefundStatus, HandlerStep
  <2>2. CASE h \in Approval /\ (SaveApproved(h) \/ SaveCompleted(h))
    <3>1. approvalOf[h] \in Refund /\ pc[h] # "new"
      BY <2>2 DEF TypeOK, SaveApproved, SaveCompleted, Goto
    <3>2. pc[approvalOf[h]] # "new"
      BY <2>2, <3>1 DEF RefundsOfPaid
    <3>. QED
      BY <2>2, <3>1, <3>2
      DEF SaveApproved, SaveCompleted, SetRefund, Goto, RefundStatus, HandlerStep
  <2>. QED
    BY <2>1, <2>2
<1>2. h \notin Order /\ pc[h] # "new"
  BY DEF InsertRefund, SaveApproved, SaveCompleted, Goto
<1>3. UNCHANGED <<order, receipts, refundOf, approvalOf, requested, overlapped,
                  answer, event, callVars>>
  BY DEF InsertRefund, SaveApproved, SaveCompleted
<1>4. /\ \A g \in Handler : pc'[g] = "new" <=> pc[g] = "new"
      /\ \A o \in Order : pc'[o] = pc[o]
  BY <1>1, <1>2 DEF TypeOK
<1>5. TypeOK'
  BY <1>1, <1>3 DEF TypeOK
<1>6. CallsSound' /\ OrderAtStep'
  BY <1>3, <1>4 DEF CallsSound, OrderAtStep, Paid
<1>7. NamesTransfer' /\ EventOfOrder'
  BY <1>3 DEF NamesTransfer, EventOfOrder, Paid
<1>8. RefundsOfPaid'
  BY <1>1, <1>3, <1>4 DEF TypeOK, RefundsOfPaid, Paid
<1>. QED
  BY <1>5, <1>6, <1>7, <1>8

LEMMA InvReadRefund ==
    ASSUME IInv, NEW a \in Approval, ReadRefund(a)
    PROVE  IInv'
<1> USE HandlerKinds DEF IInv, refundVars, callVars, Goto, ReadRefund
<1>1. TypeOK'
  BY DEF TypeOK, HandlerStep
<1>2. \A h \in Order \union Refund : pc'[h] = pc[h]
  BY DEF TypeOK
<1>3. CallsSound' /\ OrderAtStep' /\ NamesTransfer' /\ EventOfOrder'
  BY <1>2 DEF CallsSound, OrderAtStep, NamesTransfer, EventOfOrder, Paid
<1>4. RefundsOfPaid'
  BY <1>2 DEF TypeOK, RefundsOfPaid, Paid
<1>. QED
  BY <1>1, <1>3, <1>4

\* Only a paid order is refunded: the refund was found, so was asked for.
LEMMA InvSaveRefunded ==
    ASSUME IInv, NEW a \in Approval, SaveRefunded(a)
    PROVE  IInv'
<1> USE HandlerKinds DEF IInv, refundVars, callVars, Goto, SaveRefunded
<1> DEFINE o == refundOf[approvalOf[a]]
<1>1. o \in Order /\ Paid(o)
  BY DEF TypeOK, RefundsOfPaid
<1>2. \A h \in Order \union Refund : pc'[h] = pc[h]
  BY DEF TypeOK
<1>3. /\ order' \in [Order -> [status : PaymentStatus, txn : 0..MaxAttempts]]
      /\ \A p \in Order : order'[p].txn = order[p].txn /\ (Paid(p) <=> Paid(p)')
      /\ OrderAtStep' /\ NamesTransfer'
  BY <1>1, <1>2, PaidSaved
<1>4. TypeOK'
  BY <1>3 DEF TypeOK, HandlerStep
<1>5. CallsSound'
  BY <1>2 DEF CallsSound
<1>6. EventOfOrder'
  BY <1>3 DEF EventOfOrder
<1>7. RefundsOfPaid'
  BY <1>2, <1>3 DEF TypeOK, RefundsOfPaid
<1>. QED
  BY <1>3, <1>4, <1>5, <1>6, <1>7

-----------------------------------------------------------------------------
LEMMA InvNext == IInv /\ [Next]_vars => IInv'
<1> SUFFICES ASSUME IInv, [Next]_vars PROVE IInv'
  OBVIOUS
<1>1. ASSUME NEW o \in Order, Initiate(o) PROVE IInv'
  BY <1>1, InvOrderMoves, InvOrderSaved, InvOtpVerified, InvIssueReceipt DEF Initiate
<1>2. ASSUME NEW o \in Order, Crash(o) \/ CarryOut(o) \/ Network(o) PROVE IInv'
  BY <1>2, InvCrash, InvCarryOut, InvNetwork
<1>3. ASSUME NEW o \in Order, NEW k \in Transfer, Consume(o, k) \/ Requeue(o, k)
      PROVE  IInv'
  BY <1>3, InvEventMoves, InvEventPays, InvEventReceipt DEF Consume
<1>4. ASSUME NEW r \in Refund, RequestRefund(r) PROVE IInv'
  <2>1. r \in Handler
    BY HandlerKinds
  <2>. QED
    BY <1>4, <2>1, InvRefundLooks, InvRefundSaved DEF RequestRefund
<1>5. ASSUME NEW a \in Approval, Approve(a) PROVE IInv'
  <2>1. a \in Handler
    BY HandlerKinds
  <2>. QED
    BY <1>5, <2>1, InvReadRefund, InvRefundSaved, InvSaveRefunded DEF Approve
<1>6. CASE UNCHANGED vars
  BY <1>6
  DEF vars, IInv, TypeOK, CallsSound, OrderAtStep, NamesTransfer, EventOfOrder,
      RefundsOfPaid, Paid
<1>. QED
  BY <1>1, <1>2, <1>3, <1>4, <1>5, <1>6 DEF Next

\* IInv holds in every reachable state.
THEOREM Invariance == Spec => []IInv
<1>. QED
  BY InvInit, InvNext, PTL DEF Spec

\* The tables, the handlers, the events and the calls keep their types.
THEOREM TypeCorrect == Spec => []TypeOK
<1>1. IInv => TypeOK
  BY DEF IInv
<1>. QED
  BY Invariance, <1>1, PTL

\* What counts as paid names a transfer that was carried out, whichever of
\* the answer, a late event and a refund touched the order last.
THEOREM PaidOrdersWerePaid == Spec => []SuccessMeansPaid
<1>1. IInv => SuccessMeansPaid
  <2> SUFFICES ASSUME IInv, NEW o \in Order
               PROVE  /\ CountsAsPaid(o) => order[o].txn \in 1..served[o]
                      /\ order[o].txn # 0 => order[o].status # "initiated"
    BY DEF SuccessMeansPaid
  <2>1. CountsAsPaid(o) => Paid(o)
    BY DEF IInv, CountsAsPaid, NamesTransfer, RefundsOfPaid, Paid
  <2>2. order[o].txn \in 0..served[o] /\ served[o] \in Nat
    BY DEF IInv, TypeOK, NamesTransfer
  <2>. QED
    BY <2>1, <2>2 DEF IInv, NamesTransfer
<1>. QED
  BY Invariance, <1>1, PTL

-----------------------------------------------------------------------------
(* What a step makes of an order.                                          *)

\* The steps that change a status, and what each starts from.
LEMMA StatusStep ==
    ASSUME IInv, [Next]_vars, NEW o \in Order, order'[o].status # order[o].status
    PROVE  \/ order[o].status = "none" /\ order'[o].status = "initiated"
           \/ order[o].status = "initiated" /\ order'[o].status \in {"success", "failed"}
           \/ /\ order[o].status \in {"failed", "refunded"}
              /\ order'[o].status = "success"
              /\ order[o].txn \in Transfer /\ event[o][order[o].txn] = "loaded"
           \/ order[o].status = "success" /\ order'[o].status = "refunded"
<1> USE DEF IInv
<1>1. order \in [Order -> [status : PaymentStatus, txn : 0..MaxAttempts]]
  BY DEF TypeOK
<1>2. ASSUME NEW p \in Order, NEW s, SetOrder(p, s)
      PROVE  p = o /\ order'[o].status = s
  BY <1>1, <1>2 DEF SetOrder
<1>3. ASSUME NEW p \in Order, NEW s, NEW k,
             order' = [order EXCEPT ![p] = [status |-> s, txn |-> k]]
      PROVE  p = o /\ order'[o].status = s
  BY <1>1, <1>3
<1>4. ASSUME NEW p \in Order, Initiate(p)
      PROVE  \/ order[o].status = "none" /\ order'[o].status = "initiated"
             \/ order[o].status = "initiated" /\ order'[o].status \in {"success", "failed"}
  <2>1. CASE CreateOrder(p)
    BY <1>2, <2>1 DEF CreateOrder, Goto, OrderAtStep
  <2>2. CASE OrderPaid(p)
    BY <1>3, <2>2 DEF OrderPaid, Goto, OrderAtStep
  <2>3. CASE OrderFailed(p)
    BY <1>3, <2>3 DEF OrderFailed, Goto, OrderAtStep
  <2>4. CASE \/ CreateOrderFails(p) \/ OtpRejected(p) \/ OtpVerified(p)
             \/ OrderNotPaid(p) \/ OrderFailedFails(p) \/ IssueReceipt(p)
             \/ ReceiptFails(p)
    BY <2>4
    DEF CreateOrderFails, OtpRejected, OtpVerified, OrderNotPaid, OrderFailedFails,
        IssueReceipt, ReceiptFails
  <2>. QED
    BY <1>4, <2>1, <2>2, <2>3, <2>4 DEF Initiate
<1>5. ASSUME NEW p \in Order, Crash(p) \/ CarryOut(p) \/ Network(p)
      PROVE  FALSE
  BY <1>5 DEF Crash, CarryOut, Network
<1>6. ASSUME NEW p \in Order, NEW k \in Transfer, Consume(p, k) \/ Requeue(p, k)
      PROVE  /\ order[o].status \in {"failed", "refunded"}
             /\ order'[o].status = "success"
             /\ order[o].txn \in Transfer /\ event[o][order[o].txn] = "loaded"
  <2>1. EventPays(p, k)
    BY <1>6
    DEF Consume, NoSuchOrder, AlreadyPaid, LoadUnpaid, EventReceipt, Requeue
  <2>2. p = o /\ order'[o].status = "success" /\ event[o][k] = "loaded"
    BY <1>2, <2>1 DEF EventPays, Settle
  <2>3. order[o].txn = k /\ k # 0
    BY <2>2 DEF EventOfOrder, Transfer
  <2>. QED
    BY <1>1, <2>2, <2>3 DEF NamesTransfer, PaymentStatus
<1>7. ASSUME NEW r \in Refund, RequestRefund(r) PROVE FALSE
  BY <1>7 DEF RequestRefund, ReadPaidOrder, FindNoRefund, InsertRefund
<1>8. ASSUME NEW a \in Approval, Approve(a)
      PROVE  order[o].status = "success" /\ order'[o].status = "refunded"
  <2>1. SaveRefunded(a)
    BY <1>8 DEF Approve, ReadRefund, SaveApproved, SaveCompleted
  <2>2. refundOf[approvalOf[a]] \in Order /\ Paid(refundOf[approvalOf[a]])
    BY <2>1 DEF TypeOK, RefundsOfPaid, SaveRefunded, Goto
  <2>3. refundOf[approvalOf[a]] = o /\ order'[o].status = "refunded"
    BY <1>2, <2>1, <2>2 DEF SaveRefunded
  <2>. QED
    BY <2>2, <2>3 DEF Paid
<1>9. ~ UNCHANGED vars
  BY DEF vars
<1>. QED
  BY <1>4, <1>5, <1>6, <1>7, <1>8, <1>9 DEF Next

\* FAILED is left only for SUCCESS and never refunded, nor is an order paid or
\* refunded before it has an outcome.
THEOREM OrdersMoveOn == Spec => OrderMoves
<1> DEFINE Allowed(o) == order'[o].status # order[o].status =>
              <<order[o].status, order'[o].status>> \in
                  {<<"none", "initiated">>, <<"initiated", "success">>,
                   <<"initiated", "failed">>, <<"failed", "success">>,
                   <<"success", "refunded">>, <<"refunded", "success">>}
<1>1. IInv /\ [Next]_vars => [\A o \in Order : Allowed(o)]_vars
  BY StatusStep
<1>. QED
  BY <1>1, Invariance, PTL DEF Spec, OrderMoves

\* A refunded order stays refunded once its transfer's event is settled.
THEOREM RefundedStays == Spec => RefundedIsFinalOnceSettled
<1> DEFINE Stays(o) == order[o].status = "refunded" /\ Settled(o) =>
                           order'[o].status = "refunded"
<1>1. IInv /\ [Next]_vars => [\A o \in Order : Stays(o)]_vars
  BY StatusStep DEF Settled
<1>. QED
  BY <1>1, Invariance, PTL DEF Spec, RefundedIsFinalOnceSettled
-----------------------------------------------------------------------------
(* One refund in progress.                                                 *)

InTheRunning(r) == pc[r] = "insert" \/ refund[r] \in {"pending", "approved"}

\* Requests are listed once, when they have looked for a refund; a row exists
\* from the end of its request.
RequestsListed ==
    /\ \A i, j \in DOMAIN requested : requested[i] = requested[j] => i = j
    /\ \A r \in Refund :
          /\ pc[r] \in {"insert", "done"} <=> \E i \in DOMAIN requested : requested[i] = r
          /\ refund[r] # "none" <=> pc[r] = "done"

\* Only approvals bring a refund further.
ApprovedBySomeone ==
    \A r \in Refund : refund[r] \in {"approved", "completed"} =>
        \E a \in Approval : approvalOf[a] = r /\ pc[a] # "new"

\* What an approval is about to approve is pending.
ApprovesPending ==
    \A a \in Approval : pc[a] = "approve" => refund[approvalOf[a]] = "pending"

\* A refund in the running is the latest its order has asked for.
RunningIsLatest ==
    \A i, j \in DOMAIN requested :
        InTheRunning(requested[i]) /\ refundOf[requested[j]] = refundOf[requested[i]]
            => j <= i

RefundInv ==
    /\ RequestsListed
    /\ ApprovedBySomeone
    /\ ApprovedOnce => ApprovesPending
    /\ ~overlapped /\ ApprovedOnce => RunningIsLatest

LEMMA RefundInvInit == Init => RefundInv
  BY HandlerKinds
  DEF Init, RefundInv, RequestsListed, ApprovedBySomeone, ApprovesPending, RunningIsLatest

\* Steps that no request, approval or refund takes part in.
LEMMA RefundInvKept ==
    ASSUME IInv, RefundInv, UNCHANGED refundVars,
           \A h \in Refund \union Approval : pc'[h] = pc[h]
    PROVE  RefundInv'
<1> USE DEF refundVars
<1>1. RequestsListed' /\ ApprovedBySomeone'
  BY DEF RefundInv, RequestsListed, ApprovedBySomeone
<1>2. ApprovedOnce' => ApprovedOnce
  BY DEF ApprovedOnce
<1>3. ApprovesPending => ApprovesPending'
  BY DEF ApprovesPending
<1>4. RunningIsLatest => RunningIsLatest'
  <2>1. \A i \in DOMAIN requested : requested[i] \in Refund
    BY DEF IInv, TypeOK
  <2>. QED
    BY <2>1 DEF RunningIsLatest, InTheRunning
<1>. QED
  BY <1>1, <1>2, <1>3, <1>4 DEF RefundInv

LEMMA RefundInvRead ==
    ASSUME IInv, RefundInv, NEW r \in Refund, ReadPaidOrder(r)
    PROVE  RefundInv'
<1> USE HandlerKinds DEF ReadPaidOrder, refundVars, Goto
<1>1. pc \in [Handler -> HandlerStep] /\ (\A i \in DOMAIN requested : requested[i] \in Refund)
  BY DEF IInv, TypeOK
<1>2. \A a \in Approval : pc'[a] = pc[a]
  BY <1>1
<1>3. \A s \in Refund : pc'[s] = pc[s] \/ (pc[s] = "new" /\ pc'[s] = "find")
  BY <1>1
<1>4. RequestsListed'
  BY <1>3 DEF RefundInv, RequestsListed
<1>5. /\ ApprovedBySomeone'
      /\ ApprovedOnce' => ApprovedOnce
      /\ ApprovesPending => ApprovesPending'
  BY <1>2 DEF RefundInv, ApprovedBySomeone, ApprovedOnce, ApprovesPending
<1>6. RunningIsLatest => RunningIsLatest'
  BY <1>1, <1>3 DEF RunningIsLatest, InTheRunning
<1>. QED
  BY <1>4, <1>5, <1>6 DEF RefundInv

\* A request that found no refund in progress becomes the latest, and unless
\* another is about to insert its row nothing else is in the running.
LEMMA RefundInvFind ==
    ASSUME IInv, RefundInv, NEW r \in Refund, FindNoRefund(r)
    PROVE  RefundInv'
<1> USE HandlerKinds DEF FindNoRefund, Goto
<1> DEFINE n == Len(requested) + 1
<1>1. /\ pc \in [Handler -> HandlerStep] /\ requested \in Seq(Refund)
      /\ refundOf \in [Refund -> Order]
      /\ pc[r] = "find" /\ pc' = [pc EXCEPT ![r] = "insert"]
      /\ UNCHANGED <<refund, refundOf, approvalOf>>
  BY DEF IInv, TypeOK
<1>2. /\ requested' = Append(requested, r) /\ DOMAIN requested = 1..Len(requested)
      /\ DOMAIN requested' = 1..n /\ Len(requested) \in Nat
      /\ requested'[n] = r
      /\ \A i \in 1..Len(requested) : requested'[i] = requested[i] /\ requested[i] \in Refund
  BY <1>1
<1>3. \A h \in Refund \union Approval : h # r => pc'[h] = pc[h]
  BY <1>1
<1>4. \A i \in DOMAIN requested : requested[i] # r
  BY <1>1 DEF RefundInv, RequestsListed
<1>5. \A i \in DOMAIN requested' : i \in DOMAIN requested \/ i = n
  BY <1>2
<1>. HIDE DEF FindNoRefund, n
<1>6. RequestsListed'
  <2>1. \A i, j \in DOMAIN requested' : requested'[i] = requested'[j] => i = j
    BY <1>2, <1>4, <1>5 DEF RefundInv, RequestsListed
  <2>2. ASSUME NEW s \in Refund
        PROVE  pc'[s] \in {"insert", "done"} <=> \E i \in DOMAIN requested' : requested'[i] = s
    <3>1. CASE s = r
      <4>1. pc'[r] = "insert" /\ n \in DOMAIN requested'
        BY <1>1, <1>2 DEF n
      <4>. QED
        BY <3>1, <4>1, <1>2
    <3>2. CASE s # r
      BY <3>2, <1>2, <1>3, <1>5 DEF RefundInv, RequestsListed, n
    <3>. QED
      BY <3>1, <3>2
  <2>3. \A s \in Refund : refund'[s] # "none" <=> pc'[s] = "done"
    BY <1>1, <1>3 DEF RefundInv, RequestsListed
  <2>. QED
    BY <2>1, <2>2, <2>3 DEF RequestsListed
<1>7. /\ ApprovedBySomeone'
      /\ ApprovedOnce' => ApprovedOnce
      /\ ApprovesPending => ApprovesPending'
  BY <1>1, <1>3 DEF RefundInv, ApprovedBySomeone, ApprovedOnce, ApprovesPending
<1>8. ASSUME ~overlapped', RunningIsLatest PROVE RunningIsLatest'
  <2> SUFFICES ASSUME NEW i \in DOMAIN requested', NEW j \in DOMAIN requested',
                      InTheRunning(requested[i])',
                      refundOf[requested'[j]] = refundOf[requested'[i]]
               PROVE  j <= i
    BY <1>1 DEF RunningIsLatest, InTheRunning
  <2>1. CASE i = n
    BY <2>1, <1>2 DEF n
  <2>2. CASE i # n /\ j # n
    <3>1. /\ i \in DOMAIN requested /\ j \in DOMAIN requested
          /\ requested'[i] = requested[i] /\ requested'[j] = requested[j]
          /\ requested[i] # r /\ requested[i] \in Refund
      BY <2>2, <1>2, <1>4, <1>5
    <3>2. InTheRunning(requested[i])
      BY <3>1, <1>1, <1>3 DEF InTheRunning
    <3>. QED
      BY <3>1, <3>2, <1>8 DEF RunningIsLatest
  <2>3. CASE i # n /\ j = n
    <3> DEFINE s == requested[i]
    <3>1. /\ i \in DOMAIN requested /\ requested'[i] = s
          /\ s # r /\ s \in Refund /\ refundOf[s] = refundOf[r]
      BY <2>3, <1>2, <1>4, <1>5
    <3>2. pc'[s] = pc[s] /\ refund'[s] = refund[s]
      BY <3>1, <1>1, <1>3
    <3>3. pc[s] # "insert"
      BY <3>1, <1>8 DEF FindNoRefund
    <3>4. refund[s] \in {"pending", "approved"}
      BY <3>1, <3>2, <3>3 DEF InTheRunning
    <3>5. i \in RequestsOf(refundOf[r])
      BY <3>1, <3>4 DEF RequestsOf
    <3>6. \A k \in RequestsOf(refundOf[r]) : k <= i
      BY <3>1, <3>4, <1>8 DEF RequestsOf, RunningIsLatest, InTheRunning
    <3>7. InProgress(refundOf[r])
      BY <3>1, <3>4, <3>5, <3>6 DEF InProgress, LatestRefund
    <3>. QED
      BY <3>7 DEF FindNoRefund
  <2>. QED
    BY <2>1, <2>2, <2>3
<1>9. ~overlapped' => ~overlapped
  BY DEF FindNoRefund
<1>. QED
  BY <1>6, <1>7, <1>8, <1>9 DEF RefundInv

LEMMA RefundInvInsert ==
    ASSUME IInv, RefundInv, NEW r \in Refund, InsertRefund(r)
    PROVE  RefundInv'
<1> USE HandlerKinds DEF InsertRefund, Goto, SetRefund
<1>1. /\ pc \in [Handler -> HandlerStep] /\ refund \in [Refund -> RefundStatus]
      /\ approvalOf \in [Approval -> Refund]
      /\ \A i \in DOMAIN requested : requested[i] \in Refund
  BY DEF IInv, TypeOK
<1>2. /\ pc[r] = "insert" /\ pc'[r] = "done" /\ refund'[r] = "pending"
      /\ \A h \in Refund \union Approval : h # r => pc'[h] = pc[h]
      /\ \A s \in Refund : s # r => refund'[s] = refund[s]
      /\ UNCHANGED <<refundOf, approvalOf, requested, overlapped>>
  BY <1>1
<1>3. RequestsListed'
  BY <1>2 DEF RefundInv, RequestsListed
<1>4. /\ ApprovedBySomeone'
      /\ ApprovedOnce' => ApprovedOnce
      /\ ApprovesPending => ApprovesPending'
  BY <1>1, <1>2 DEF RefundInv, ApprovedBySomeone, ApprovedOnce, ApprovesPending
<1>5. \A s \in Refund : InTheRunning(s)' => InTheRunning(s)
  BY <1>2 DEF InTheRunning
<1>6. RunningIsLatest => RunningIsLatest'
  BY <1>1, <1>2, <1>5 DEF RunningIsLatest
<1>. QED
  BY <1>2, <1>3, <1>4, <1>6 DEF RefundInv

\* Nothing is approved by two requests, so an approval brings its refund from
\* PENDING to APPROVED and to COMPLETED, and never back into the running.
LEMMA RefundInvApprove ==
    ASSUME IInv, RefundInv, NEW a \in Approval, Approve(a)
    PROVE  RefundInv'
<1> USE HandlerKinds DEF Goto
<1> DEFINE r == approvalOf[a]
<1>1. /\ pc \in [Handler -> HandlerStep] /\ refund \in [Refund -> RefundStatus]
      /\ approvalOf \in [Approval -> Refund] /\ r \in Refund
      /\ \A i \in DOMAIN requested : requested[i] \in Refund
  BY DEF IInv, TypeOK
<1>2. /\ UNCHANGED <<refundOf, approvalOf, requested, overlapped>>
      /\ \A h \in Refund \union Approval : h # a => pc'[h] = pc[h]
      /\ pc'[a] # "new"
      /\ \A s \in Refund : s # r => refund'[s] = refund[s]
  BY <1>1 DEF Approve, ReadRefund, SaveApproved, SaveRefunded, SaveCompleted,
              refundVars, SetRefund
<1>3. \/ pc[a] = "new" /\ pc'[a] = "approve" /\ refund' = refund /\ refund[r] # "none"
      \/ pc[a] = "approve" /\ pc'[a] = "refunding" /\ refund'[r] = "approved"
      \/ pc[a] = "refunding" /\ pc'[a] = "complete" /\ refund' = refund
      \/ pc[a] = "complete" /\ pc'[a] = "done" /\ refund'[r] = "completed"
  BY <1>1 DEF Approve, ReadRefund, SaveApproved, SaveRefunded, SaveCompleted,
              refundVars, SetRefund
<1>4. \A s \in Refund : pc'[s] = pc[s]
  BY <1>2
<1>5. pc[a] # "new" => refund[r] # "none"
  BY DEF IInv, RefundsOfPaid
<1>6. \A s \in Refund : refund'[s] # "none" <=> refund[s] # "none"
  BY <1>1, <1>2, <1>3, <1>5
<1>7. RequestsListed'
  BY <1>2, <1>4, <1>6 DEF RefundInv, RequestsListed
<1>8. ApprovedBySomeone'
  <2> SUFFICES ASSUME NEW s \in Refund, refund'[s] \in {"approved", "completed"}
               PROVE  \E b \in Approval : approvalOf'[b] = s /\ pc'[b] # "new"
    BY DEF ApprovedBySomeone
  <2>1. CASE s = r
    BY <2>1, <1>2
  <2>2. CASE s # r
    <3>1. PICK b \in Approval : approvalOf[b] = s /\ pc[b] # "new"
      BY <2>2, <1>2 DEF RefundInv, ApprovedBySomeone
    <3>. QED
      BY <2>2, <3>1, <1>2
  <2>. QED
    BY <2>1, <2>2
<1>9. ApprovedOnce' => ApprovedOnce
  BY <1>2 DEF ApprovedOnce
<1>10. ASSUME ApprovedOnce' PROVE ApprovesPending'
  <2> SUFFICES ASSUME NEW b \in Approval, pc'[b] = "approve"
               PROVE  refund'[approvalOf[b]] = "pending"
    BY <1>2 DEF ApprovesPending
  <2>1. \A c \in Approval : c # b /\ approvalOf[c] = approvalOf[b] => pc'[c] = "new"
    BY <1>2, <1>10 DEF ApprovedOnce
  <2>2. CASE b = a
    <3>1. pc[a] = "new" /\ refund' = refund /\ refund[r] # "none"
      BY <2>2, <1>3
    <3>2. refund[r] \notin {"approved", "completed"}
      BY <2>1, <2>2, <3>1, <1>1, <1>2 DEF RefundInv, ApprovedBySomeone
    <3>. QED
      BY <2>2, <3>1, <3>2, <1>1 DEF RefundStatus
  <2>3. CASE b # a
    <3>1. pc[b] = "approve" /\ approvalOf[b] # r
      BY <2>1, <2>3, <1>2
    <3>2. refund[approvalOf[b]] = "pending"
      BY <3>1, <1>9, <1>10 DEF RefundInv, ApprovesPending
    <3>. QED
      BY <3>1, <3>2, <1>1, <1>2
  <2>. QED
    BY <2>2, <2>3
<1>11. ASSUME ApprovedOnce, RunningIsLatest PROVE RunningIsLatest'
  <2>1. ApprovesPending
    BY <1>11 DEF RefundInv
  <2>2. ASSUME NEW s \in Refund, InTheRunning(s)' PROVE InTheRunning(s)
    <3>1. CASE s # r
      BY <2>2, <3>1, <1>2, <1>4 DEF InTheRunning
    <3>2. CASE s = r /\ refund' = refund
      BY <2>2, <3>2, <1>4 DEF InTheRunning
    <3>3. CASE s = r /\ pc[a] = "approve"
      BY <2>1, <3>3 DEF ApprovesPending, InTheRunning
    <3>4. CASE s = r /\ refund'[r] = "completed"
      BY <2>2, <3>4, <1>4 DEF InTheRunning
    <3>. QED
      BY <3>1, <3>2, <3>3, <3>4, <1>3
  <2>. QED
    BY <2>2, <1>1, <1>2, <1>11 DEF RunningIsLatest
<1>. QED
  BY <1>2, <1>7, <1>8, <1>9, <1>10, <1>11 DEF RefundInv

LEMMA RefundInvNext == IInv /\ RefundInv /\ [Next]_vars => RefundInv'
<1> SUFFICES ASSUME IInv, RefundInv, [Next]_vars PROVE RefundInv'
  OBVIOUS
<1> USE HandlerKinds
<1>1. pc \in [Handler -> HandlerStep]
  BY DEF IInv, TypeOK
<1>2. ASSUME NEW o \in Order, Initiate(o) \/ Crash(o) PROVE RefundInv'
  <2>1. UNCHANGED refundVars
    BY <1>2 DEF Initiate, CreateOrder, CreateOrderFails, OtpRejected, OtpVerified,
       OrderPaid, OrderNotPaid, OrderFailed, OrderFailedFails, IssueReceipt, ReceiptFails,
       Crash, refundVars
  <2>2. \E s \in HandlerStep : pc' = [pc EXCEPT ![o] = s]
    BY <1>2 DEF Initiate, CreateOrder, CreateOrderFails, OtpRejected, OtpVerified,
       OrderPaid, OrderNotPaid, OrderFailed, OrderFailedFails, IssueReceipt, ReceiptFails,
       Crash, Goto, HandlerStep
  <2>3. \A h \in Refund \union Approval : pc'[h] = pc[h]
    BY <2>2, <1>1
  <2>. QED
    BY <2>1, <2>3, RefundInvKept
<1>3. ASSUME NEW o \in Order, CarryOut(o) \/ Network(o) PROVE RefundInv'
  <2>1. UNCHANGED <<refundVars, pc>>
    BY <1>3 DEF CarryOut, Network, refundVars
  <2>. QED
    BY <2>1, RefundInvKept
<1>4. ASSUME NEW o \in Order, NEW k \in Transfer, Consume(o, k) \/ Requeue(o, k)
      PROVE  RefundInv'
  <2>1. UNCHANGED <<refundVars, pc>>
    BY <1>4 DEF Consume, NoSuchOrder, AlreadyPaid, LoadUnpaid, EventPays, EventReceipt,
       Requeue, refundVars
  <2>. QED
    BY <2>1, RefundInvKept
<1>5. ASSUME NEW r \in Refund, RequestRefund(r) PROVE RefundInv'
  BY <1>5, RefundInvRead, RefundInvFind, RefundInvInsert DEF RequestRefund
<1>6. ASSUME NEW a \in Approval, Approve(a) PROVE RefundInv'
  BY <1>6, RefundInvApprove
<1>7. CASE UNCHANGED vars
  BY <1>7, RefundInvKept DEF vars, refundVars
<1>. QED
  BY <1>2, <1>3, <1>4, <1>5, <1>6, <1>7 DEF Next

\* No order has two refunds in progress, as long as no two requests overlap
\* between looking for a refund and inserting one and none is approved twice,
\* however often the order becomes SUCCESS again (RefundService.request).
THEOREM OneRefund == Spec => []OneRefundInTurn
<1>1. Init => RefundInv
  BY RefundInvInit
<1>2. IInv /\ RefundInv /\ [Next]_vars => RefundInv'
  BY RefundInvNext
<1>3. IInv /\ RefundInv => OneRefundInTurn
  <2> SUFFICES ASSUME IInv, RefundInv, ~overlapped, ApprovedOnce,
                      NEW o \in Order, NEW r \in InProgressOf(o), NEW s \in InProgressOf(o)
               PROVE  r = s
    BY DEF OneRefundInTurn, OneRefundInProgress
  <2>1. /\ r \in Refund /\ s \in Refund /\ refundOf[r] = o /\ refundOf[s] = o
        /\ InTheRunning(r) /\ InTheRunning(s) /\ refund[r] # "none" /\ refund[s] # "none"
    BY DEF InProgressOf, InTheRunning
  <2>2. PICK i \in DOMAIN requested, j \in DOMAIN requested :
          requested[i] = r /\ requested[j] = s
    BY <2>1 DEF RefundInv, RequestsListed
  <2>3. i <= j /\ j <= i
    BY <2>1, <2>2 DEF RefundInv, RunningIsLatest
  <2>4. DOMAIN requested \subseteq Int
    BY DEF IInv, TypeOK
  <2>. QED
    BY <2>2, <2>3, <2>4
<1>. QED
  BY <1>1, <1>2, <1>3, Invariance, PTL DEF Spec
=============================================================================
