---------------------------- MODULE PaymentOrders -----------------------------
(***************************************************************************)
(* payment-service: POST /payments, which pays an order with a transfer of *)
(* transaction-service; the consumer of transaction.completed; and the     *)
(* refunds of an order.                                                    *)
(*                                                                         *)
(* transaction-service carries a transfer out at once or refuses it.  A    *)
(* transfer that fails answers with an error, so no order knows its id and *)
(* its transaction.failed event finds none; only completed transfers are   *)
(* kept here, the k-th of an order under the number k.  A database write   *)
(* that reports an error has written nothing.                              *)
(***************************************************************************)
EXTENDS Integers, Sequences

CONSTANTS
    Order,       \* payment orders, each with its POST
    Refund,      \* refund requests, and the rows they create
    Approval,    \* approve requests by administrators
    MaxAttempts  \* 1 + retries of the transfer (3)

ASSUME PaymentAssumption ==
    /\ MaxAttempts \in Nat \ {0}
    /\ Order \intersect Refund = {}
    /\ Order \intersect Approval = {}
    /\ Refund \intersect Approval = {}

VARIABLES
    \* The tables.
    order,       \* payment_orders: status and transactionId (0: null)
    receipts,    \* the orders in payment_receipts
    refund,      \* the status of the refunds rows
    \* The handlers.
    pc,          \* where each handler stands
    refundOf,    \* the order each refund request names
    approvalOf,  \* the refund each approval names
    requested,   \* refund requests in the order of their requestedAt
    answer,      \* the transaction in the answer to the order's transfer
    \* The transfers' transaction.completed events.
    event,
    \* History variable: read by properties only.
    overlapped,  \* two refund requests of an order were past the check at once
    \* The calls to transaction-service, one for each order.
    phase, attempts, late, served

INSTANCE RemoteCalls WITH Call <- Order

callVars == <<phase, attempts, late, served>>
refundVars == <<refund, refundOf, approvalOf, requested, overlapped>>
vars == <<order, receipts, refund, pc, refundOf, approvalOf, requested, answer,
          event, overlapped, phase, attempts, late, served>>

PaymentStatus == {"none", "initiated", "success", "failed", "refunded"}
RefundStatus == {"none", "pending", "approved", "completed"}

\* The transfers made for an order: every attempt may make one.
Transfer == 1..MaxAttempts

Handler == Order \union Refund \union Approval

HandlerStep == {"new", "otp", "calling", "receipt", "fail", "find", "insert",
                "approve", "refunding", "complete", "done", "abandoned"}

EventState == {"none", "lost", "queued", "loaded", "receipt", "acked", "dead"}

Init ==
    /\ order = [o \in Order |-> [status |-> "none", txn |-> 0]]
    /\ receipts = {}
    /\ refund = [r \in Refund |-> "none"]
    /\ pc = [h \in Handler |-> "new"]
    /\ refundOf \in [Refund -> Order]
    /\ approvalOf \in [Approval -> Refund]
    /\ requested = <<>>
    /\ answer = [o \in Order |-> 0]
    /\ event = [o \in Order |-> [k \in Transfer |-> "none"]]
    /\ overlapped = FALSE
    /\ CallsInit

Goto(h, from, to) == pc[h] = from /\ pc' = [pc EXCEPT ![h] = to]

SetOrder(o, s) == order' = [order EXCEPT ![o].status = s]

SetRefund(r, s) == refund' = [refund EXCEPT ![r] = s]

-----------------------------------------------------------------------------
(* POST /payments.                                                         *)

CreateOrder(o) ==
    /\ Goto(o, "new", "otp")
    /\ SetOrder(o, "initiated")
    /\ UNCHANGED <<receipts, refundVars, answer, event, callVars>>

CreateOrderFails(o) ==
    /\ Goto(o, "new", "done")
    /\ UNCHANGED <<order, receipts, refundVars, answer, event, callVars>>

OtpRejected(o) ==
    /\ Goto(o, "otp", "fail")
    /\ UNCHANGED <<order, receipts, refundVars, answer, event, callVars>>

\* initiateTransfer.
OtpVerified(o) ==
    /\ Goto(o, "otp", "calling")
    /\ Start({o})
    /\ UNCHANGED <<order, receipts, refundVars, answer, event>>

\* Mutant: a transfer without an answer counts as paid.
OrderPaidWithoutAnswer(o) ==
    /\ Goto(o, "calling", "receipt")
    /\ phase[o] \in {"ok", "error"}
    /\ order' = [order EXCEPT ![o] = [status |-> "success", txn |-> answer[o]]]
    /\ UNCHANGED <<receipts, refundVars, answer, event, callVars>>

\* The answer's status is COMPLETED: the order is saved as SUCCESS.
OrderPaid(o) ==
    /\ Goto(o, "calling", "receipt")
    /\ phase[o] = "ok"
    /\ order' = [order EXCEPT ![o] = [status |-> "success", txn |-> answer[o]]]
    /\ UNCHANGED <<receipts, refundVars, answer, event, callVars>>

\* Mutant: an error of the transfer is not caught.
OrderNotPaidIfSaveFails(o) ==
    /\ Goto(o, "calling", "fail")
    /\ phase[o] = "ok"
    /\ UNCHANGED <<order, receipts, refundVars, answer, event, callVars>>

\* The transfer failed, or that save did.
OrderNotPaid(o) ==
    /\ Goto(o, "calling", "fail")
    /\ phase[o] \in {"ok", "error"}
    /\ UNCHANGED <<order, receipts, refundVars, answer, event, callVars>>

\* The order in memory has the transactionId of an answer that arrived.
OrderFailed(o) ==
    /\ Goto(o, "fail", "done")
    /\ order' = [order EXCEPT ![o] =
           [status |-> "failed", txn |-> IF phase[o] = "ok" THEN answer[o] ELSE 0]]
    /\ UNCHANGED <<receipts, refundVars, answer, event, callVars>>

OrderFailedFails(o) ==
    /\ Goto(o, "fail", "abandoned")
    /\ UNCHANGED <<order, receipts, refundVars, answer, event, callVars>>

\* payment_receipts has one row for an order.
IssueReceipt(o) ==
    /\ Goto(o, "receipt", "done")
    /\ o \notin receipts
    /\ receipts' = receipts \union {o}
    /\ UNCHANGED <<order, refundVars, answer, event, callVars>>

\* The failure is logged, and the answer is SUCCESS.
ReceiptFails(o) ==
    /\ Goto(o, "receipt", "done")
    /\ UNCHANGED <<order, receipts, refundVars, answer, event, callVars>>

Initiate(o) ==
    \/ CreateOrder(o) \/ CreateOrderFails(o) \/ OtpRejected(o) \/ OtpVerified(o)
    \/ OrderPaid(o) \/ OrderNotPaid(o) \/ OrderFailed(o) \/ OrderFailedFails(o)
    \/ IssueReceipt(o) \/ ReceiptFails(o)

\* The instance that runs the handler crashes.
Crash(o) ==
    /\ pc[o] \in {"otp", "calling", "receipt", "fail"}
    /\ pc' = [pc EXCEPT ![o] = "abandoned"]
    /\ Abandon({o})
    /\ UNCHANGED <<order, receipts, refundVars, answer, event>>

-----------------------------------------------------------------------------
(* transaction-service and the network.                                    *)

\* The transfer is carried out and its event published, or lost: publish
\* only logs an error.
CarryOut(o) ==
    /\ \/ Accept(o) /\ answer' = [answer EXCEPT ![o] = served'[o]]
       \/ AcceptLate(o) /\ UNCHANGED answer
    /\ \E e \in {"queued", "lost"} :
           event' = [event EXCEPT ![o] = [@ EXCEPT ![served'[o]] = e]]
    /\ UNCHANGED <<order, receipts, refundVars, pc>>

Network(o) ==
    /\ Refuse(o) \/ DropLate(o) \/ Receive(o) \/ NetworkError(o) \/ TimeOut(o)
    /\ UNCHANGED <<order, receipts, refundVars, pc, answer, event>>

-----------------------------------------------------------------------------
(* The consumer of payment.queue.                                          *)

Settle(o, k, from, to) ==
    /\ event[o][k] = from
    /\ event' = [event EXCEPT ![o] = [@ EXCEPT ![k] = to]]

\* No order has this transactionId: Nack without requeue.
NoSuchOrder(o, k) ==
    /\ Settle(o, k, "queued", "dead")
    /\ order[o].txn # k
    /\ UNCHANGED <<order, receipts, refundVars, pc, answer, callVars>>

AlreadyPaid(o, k) ==
    /\ Settle(o, k, "queued", "acked")
    /\ order[o].txn = k /\ order[o].status = "success"
    /\ UNCHANGED <<order, receipts, refundVars, pc, answer, callVars>>

LoadUnpaid(o, k) ==
    /\ Settle(o, k, "queued", "loaded")
    /\ order[o].txn = k /\ order[o].status # "success"
    /\ UNCHANGED <<order, receipts, refundVars, pc, answer, callVars>>

\* Mutant: a message that comes again is not compared with the order.
EventPaysAgain(o, k) ==
    /\ Settle(o, k, "loaded", "receipt") \/ Settle(o, k, "acked", "receipt")
    /\ SetOrder(o, "success")
    /\ UNCHANGED <<receipts, refundVars, pc, answer, callVars>>

EventPays(o, k) ==
    /\ Settle(o, k, "loaded", "receipt")
    /\ SetOrder(o, "success")
    /\ UNCHANGED <<receipts, refundVars, pc, answer, callVars>>

EventReceipt(o, k) ==
    /\ Settle(o, k, "receipt", "acked")
    /\ o \notin receipts
    /\ receipts' = receipts \union {o}
    /\ UNCHANGED <<order, refundVars, pc, answer, callVars>>

\* Mutant: a receipt that fails leaves its message unacknowledged.
RequeueUnpaidOnly(o, k) ==
    /\ Settle(o, k, "loaded", "queued")
    /\ UNCHANGED <<order, receipts, refundVars, pc, answer, callVars>>

\* A write fails, a second receipt is refused, or the instance crashes: the
\* message goes back to the queue.
Requeue(o, k) ==
    /\ Settle(o, k, "loaded", "queued") \/ Settle(o, k, "receipt", "queued")
    /\ UNCHANGED <<order, receipts, refundVars, pc, answer, callVars>>

Consume(o, k) ==
    \/ NoSuchOrder(o, k) \/ AlreadyPaid(o, k) \/ LoadUnpaid(o, k)
    \/ EventPays(o, k) \/ EventReceipt(o, k)

-----------------------------------------------------------------------------
(* Refunds.  A request that fails or crashes between two of its steps      *)
(* leaves what it has written, as one that never takes its next step does. *)

\* Mutant: the status of the order is not looked at.
ReadAnyOrder(r) ==
    /\ Goto(r, "new", "find")
    /\ order[refundOf[r]].txn # 0
    /\ UNCHANGED <<order, receipts, refundVars, answer, event, callVars>>

\* payments.get read the order, request looks at its status.
ReadPaidOrder(r) ==
    /\ Goto(r, "new", "find")
    /\ order[refundOf[r]].status = "success"
    /\ UNCHANGED <<order, receipts, refundVars, answer, event, callVars>>

\* The refunds of o, as positions in the order of their requestedAt.
RequestsOf(o) ==
    {i \in DOMAIN requested : refundOf[requested[i]] = o /\ refund[requested[i]] # "none"}

\* findRefundByOrder: the refund with the latest requestedAt.
LatestRefund(o, r) ==
    \E i \in RequestsOf(o) : requested[i] = r /\ \A j \in RequestsOf(o) : j <= i

\* Mutant: an approved refund counts as settled.
PendingOnly(o) ==
    \E r \in Refund : LatestRefund(o, r) /\ refund[r] = "pending"

InProgress(o) ==
    \E r \in Refund : LatestRefund(o, r) /\ refund[r] \in {"pending", "approved"}

FindNoRefund(r) ==
    /\ Goto(r, "find", "insert")
    /\ ~InProgress(refundOf[r])
    /\ requested' = Append(requested, r)
    /\ overlapped' = (overlapped \/ \E s \in Refund \ {r} :
                          refundOf[s] = refundOf[r] /\ pc[s] = "insert")
    /\ UNCHANGED <<order, receipts, refund, refundOf, approvalOf, answer, event, callVars>>

InsertRefund(r) ==
    /\ Goto(r, "insert", "done")
    /\ SetRefund(r, "pending")
    /\ UNCHANGED <<order, receipts, refundOf, approvalOf, requested, overlapped,
                   answer, event, callVars>>

\* payments.get and findRefund; the status of neither is looked at.
ReadRefund(a) ==
    /\ Goto(a, "new", "approve")
    /\ refund[approvalOf[a]] # "none"
    /\ UNCHANGED <<order, receipts, refundVars, answer, event, callVars>>

SaveApproved(a) ==
    /\ Goto(a, "approve", "refunding")
    /\ SetRefund(approvalOf[a], "approved")
    /\ UNCHANGED <<order, receipts, refundOf, approvalOf, requested, overlapped,
                   answer, event, callVars>>

\* callGatewayRefund does nothing. The save fails when TypeORM finds a receipt
\* or refund that the order in memory lacks.
SaveRefunded(a) ==
    /\ Goto(a, "refunding", "complete")
    /\ SetOrder(refundOf[approvalOf[a]], "refunded")
    /\ UNCHANGED <<receipts, refundVars, answer, event, callVars>>

SaveCompleted(a) ==
    /\ Goto(a, "complete", "done")
    /\ SetRefund(approvalOf[a], "completed")
    /\ UNCHANGED <<order, receipts, refundOf, approvalOf, requested, overlapped,
                   answer, event, callVars>>

RequestRefund(r) == ReadPaidOrder(r) \/ FindNoRefund(r) \/ InsertRefund(r)
Approve(a) == ReadRefund(a) \/ SaveApproved(a) \/ SaveRefunded(a) \/ SaveCompleted(a)

-----------------------------------------------------------------------------
Over ==
    /\ \A h \in Handler : pc[h] \in {"done", "abandoned"} \/ h \notin Order
    /\ \A o \in Order : ~Waiting(o) /\ late[o] = 0
    /\ \A o \in Order, k \in Transfer : event[o][k] \notin {"queued", "loaded", "receipt"}

Next ==
    \/ \E o \in Order : Initiate(o) \/ Crash(o) \/ CarryOut(o) \/ Network(o)
    \/ \E o \in Order, k \in Transfer : Consume(o, k) \/ Requeue(o, k)
    \/ \E r \in Refund : RequestRefund(r)
    \/ \E a \in Approval : Approve(a)
    \/ Over /\ UNCHANGED vars

Spec == Init /\ [][Next]_vars

\* The event loop runs every POST on, a call is served, answered or timed out,
\* and the broker delivers what is queued. A write that is tried again and
\* again succeeds now and then. Nothing makes a refund be asked for.
Fairness ==
    /\ \A o \in Order : WF_vars(Initiate(o)) /\ WF_vars(CarryOut(o) \/ Network(o))
    /\ \A o \in Order, k \in Transfer :
          WF_vars(Consume(o, k) \/ Requeue(o, k)) /\ SF_vars(EventPays(o, k))

FairSpec == Spec /\ Fairness

-----------------------------------------------------------------------------
(* Properties.                                                             *)

TypeOK ==
    /\ order \in [Order -> [status : PaymentStatus, txn : 0..MaxAttempts]]
    /\ receipts \in SUBSET Order
    /\ refund \in [Refund -> RefundStatus]
    /\ pc \in [Handler -> HandlerStep]
    /\ refundOf \in [Refund -> Order]
    /\ approvalOf \in [Approval -> Refund]
    /\ requested \in Seq(Refund)
    /\ answer \in [Order -> 0..MaxAttempts]
    /\ event \in [Order -> [Transfer -> EventState]]
    /\ overlapped \in BOOLEAN
    /\ phase \in [Order -> Phase]
    /\ attempts \in [Order -> 0..MaxAttempts]
    /\ late \in [Order -> Nat]
    /\ served \in [Order -> Nat]

\* What only a paid order has: its status, a receipt, a refund.
CountsAsPaid(o) ==
    \/ order[o].status \in {"success", "refunded"}
    \/ o \in receipts
    \/ \E r \in Refund : refundOf[r] = o /\ refund[r] # "none"

\* An order that counts as paid names a transfer that was carried out for it;
\* and no order that names a transfer is still INITIATED, so that
\* syncOrderWithTransaction never has one to ask about.
SuccessMeansPaid ==
    \A o \in Order :
        /\ CountsAsPaid(o) => order[o].txn \in 1..served[o]
        /\ order[o].txn # 0 => order[o].status # "initiated"

\* What a step may make of an order: FAILED is left only for SUCCESS, when a
\* late event shows that the transfer was made, and is never REFUNDED.
OrderMoves ==
    [][\A o \in Order : order'[o].status # order[o].status =>
          <<order[o].status, order'[o].status>> \in
              {<<"none", "initiated">>, <<"initiated", "success">>,
               <<"initiated", "failed">>, <<"failed", "success">>,
               <<"success", "refunded">>, <<"refunded", "success">>}]_vars

Settled(o) ==
    order[o].txn \in Transfer /\ event[o][order[o].txn] \in {"acked", "dead", "lost"}

\* A REFUNDED order becomes SUCCESS again, and refundable once more, only
\* through a late transaction.completed: once that is out of the way REFUNDED
\* is final, whatever approvals and messages come later.
RefundedIsFinalOnceSettled ==
    [][\A o \in Order : order[o].status = "refunded" /\ Settled(o) =>
          order'[o].status = "refunded"]_vars

InProgressOf(o) == {r \in Refund : refundOf[r] = o /\ refund[r] \in {"pending", "approved"}}

\* 'A refund is already in progress': an order has one refund in progress.
OneRefundInProgress ==
    \A o \in Order : \A r, s \in InProgressOf(o) : r = s

\* No refund is approved by two requests.
ApprovedOnce ==
    \A a, b \in Approval :
        a # b /\ approvalOf[a] = approvalOf[b] => "new" \in {pc[a], pc[b]}

\* It has as long as no two requests overlap between looking for a refund and
\* inserting one and no refund is approved twice, also when the order becomes
\* SUCCESS again.
OneRefundInTurn == ~overlapped /\ ApprovedOnce => OneRefundInProgress

\* 'Permanent consumer errors are dead-lettered': the order of a dead-lettered
\* event is one that will never be found.
DeadLettersArePermanent ==
    \A o \in Order, k \in Transfer : event[o][k] = "dead" => order[o].txn # k

\* Every queued event is acknowledged or dead-lettered, however often its
\* writes fail: a refused second receipt does not come back for ever.
EventsSettle ==
    \A o \in Order, k \in Transfer :
        event[o][k] = "queued" ~> event[o][k] \in {"acked", "dead"}

\* No order stays INITIATED, unless its instance crashed or FAILED could not be
\* written.
OrdersSettle ==
    \A o \in Order : order[o].status = "initiated" ~>
        order[o].status # "initiated" \/ pc[o] = "abandoned"
=============================================================================
