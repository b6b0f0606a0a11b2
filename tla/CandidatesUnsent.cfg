\* A call from c1 to c2, then one gathered candidate.
CONSTANTS
    c1 = c1
    c2 = c2
    x = x
    None = None
    EmptyId = EmptyId
    Clients = {c1, c2}
    Strangers = {x}
    Callers = {c1}
    Inputs = {c2}
    MayLeave = {}
    MaxEdits = 1
    MaxClicks = 1
    MaxGathered = 1
    MaxStranger = 0
    MaxRestarts = 0
SPECIFICATION Spec
CHECK_DEADLOCK FALSE
PROPERTIES
    CandidatesSent
