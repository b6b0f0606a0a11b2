\* c1 and c2 call each other.
CONSTANTS
    c1 = c1
    c2 = c2
    x = x
    None = None
    EmptyId = EmptyId
    Clients = {c1, c2}
    Strangers = {x}
    Callers = {c1, c2}
    Inputs = {c1, c2}
    MayLeave = {}
    MaxEdits = 1
    MaxClicks = 1
    MaxGathered = 0
    MaxStranger = 0
    MaxRestarts = 0
SPECIFICATION Spec
CHECK_DEADLOCK FALSE
INVARIANTS
    StableMeansAgreed
