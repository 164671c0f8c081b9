\* Refunds, events and retries of one order.
SPECIFICATION FairSpec
CONSTANTS
    Order = {o1}
    Refund = {r1, r2}
    Approval = {a1, a2}
    MaxAttempts = 2
INVARIANTS
    TypeOK
    SuccessMeansPaid
    OneRefundInTurn
PROPERTIES
    OrderMoves
    RefundedIsFinalOnceSettled
    EventsSettle
    OrdersSettle
