\* One tab and its environment: offers, answers and candidates of a stranger,
\* gathered candidates, the loss of the socket, a restart of the server,
\* closing; under fairness.
CONSTANTS
    c1 = c1
    c2 = c2
    x = x
    None = None
    EmptyId = EmptyId
    Clients = {c1}
    Strangers = {x}
    Callers = {c1}
    Inputs = {c1, x}
    MayLeave = {c1}
    MaxEdits = 1
    MaxClicks = 1
    MaxGathered = 1
    MaxStranger = 2
    MaxRestarts = 1
SPECIFICATION FairSpec
CHECK_DEADLOCK FALSE
INVARIANTS
    TypeOK
    PeerRefSettles
    FlagNotLeaked
PROPERTIES
    TabsSettle
