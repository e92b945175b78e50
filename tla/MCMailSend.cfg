CONSTANTS
    d1 = d1
    k1 = k1
    w1 = w1
    w2 = w2
    None = None
    Drafts = {d1}
    Direct = {k1}
    Workers = {w1, w2}
    MaxStalls = 1
    MaxFaults = 2
SPECIFICATION Spec
INVARIANTS DraftOutOnce DirectOutPerRun SentShowsOnlySent
PROPERTIES ImplementsPromise SendingEnds QueuedEnds
CHECK_DEADLOCK FALSE
