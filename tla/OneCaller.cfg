\* One caller, one callee that may leave, a restart, under fairness.
CONSTANTS
    c1 = c1
    c2 = c2
    x = x
    None = None
    EmptyId = EmptyId
    Clients = {c1, c2}
    Strangers = {x}
    Callers = {c1}
    Inputs = {c2, x}
    MayLeave = {c2}
    MaxEdits = 2
    MaxClicks = 2
    MaxGathered = 0
    MaxStranger = 0
    MaxRestarts = 1
SPECIFICATION FairSpec
CHECK_DEADLOCK FALSE
INVARIANTS
    CallAgreed
    CallsSucceed
PROPERTIES
    SDPNotDropped
    ImplementsHandshake
    OffersAnswered
