CONSTANTS
    x = x
    None = None
    Outside = {x}
    MaxId = 4
    MaxEdits = 3
    MaxFaults = 1
SPECIFICATION Spec
INVARIANTS  NoTwin UserEventKept
 
