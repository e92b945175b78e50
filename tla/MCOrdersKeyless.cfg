SPECIFICATION Spec
CONSTANTS
    Orders = {o1, o2}
    NoOrder = NoOrder
    Keys = {"k"}
    Methods = {"stripe"}
    Handlers = {h1}
    Requests = {r1}
    Workers = {}
    MaxAttempts = 1
    MaxOrphans = 1
    MaxStale = 1
INVARIANT KeylessUnconstrained
CHECK_DEADLOCK FALSE
