\* An event that is delivered before its order knows the transfer.
SPECIFICATION Spec
CONSTANTS
    Order = {o1}
    Refund = {}
    Approval = {}
    MaxAttempts = 1
INVARIANT DeadLettersArePermanent
