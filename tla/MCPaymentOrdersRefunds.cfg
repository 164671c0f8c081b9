\* Two overlapping refund requests of one order.
SPECIFICATION Spec
CONSTANTS
    Order = {o1}
    Refund = {r1, r2}
    Approval = {}
    MaxAttempts = 1
INVARIANT OneRefundInProgress
