CONSTANTS
    b1 = b1
    None = None
    Free = Free
    Buyers = {b1}
    MaxId = 4
    Aging = {1}
    Forever = {4}
    MaxTries = 2
    MaxFaults = 1
    MaxScans = 2
SPECIFICATION Spec
INVARIANTS TypeOK ChargedOnce PaidForService EntitledWhileLive
CHECK_DEADLOCK FALSE
