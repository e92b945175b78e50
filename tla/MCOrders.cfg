SPECIFICATION FairSpec
CONSTANTS
    Orders = {o1}
    NoOrder = NoOrder
    Keys = {"k"}
    Methods = {"stripe", "worldfirst", "epay"}
    Handlers = {h1}
    Requests = {r1}
    Workers = {w1}
    MaxAttempts = 2
    MaxOrphans = 1
    MaxStale = 1
INVARIANTS NothingForFree CreditedOnce
PROPERTIES OrphanReported AgedOrderEnds
CHECK_DEADLOCK FALSE
