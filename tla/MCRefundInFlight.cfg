SPECIFICATION Spec
CONSTANTS
    Orders = {o1, o2}
    Subs = {o1}
    NoOrder = NoOrder
    Refunds = {f1, f2}
    NoRefund = NoRefund
    Customers = {c1, c2}
    Reviewers = {v1, v2}
INVARIANT OneRefundInFlight
CHECK_DEADLOCK FALSE
