SPECIFICATION Spec
CONSTANTS
    Orders = {o1, o2}
    Subs = {o1, o2}
    NoOrder = NoOrder
    Refunds = {f1}
    NoRefund = NoRefund
    Customers = {c1}
    Reviewers = {v1}
INVARIANT CancelledIsRefunded
CHECK_DEADLOCK FALSE
