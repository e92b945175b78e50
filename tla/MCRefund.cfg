SPECIFICATION Spec
CONSTANTS
    Orders = {o1, o2, o3}
    Subs = {o1, o2}
    NoOrder = NoOrder
    Refunds = {f1, f2}
    NoRefund = NoRefund
    Customers = {c1, c2}
    Reviewers = {v1, v2}
SYMMETRY Symmetry
INVARIANTS TypeOK CreditMatchesDecision OneCancelPerRefund
PROPERTY DecisionFinal
CHECK_DEADLOCK FALSE
