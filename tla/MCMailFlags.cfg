CONSTANTS
    first = first
    h1 = h1
    second = second
    None = None
    Mids = {first, second}
    Live = {first}
    NewMail <- Fresh
    RuleActs <- MarkRead
    Handlers = {h1}
    MaxOps = 1
    MaxTold = 1
    MaxFaults = 1
SPECIFICATION Spec
INVARIANTS ListTruth LastWordKept 
CHECK_DEADLOCK FALSE
