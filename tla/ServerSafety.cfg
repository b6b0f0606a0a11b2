\* Two connections, two texts each, one restart.
CONSTANTS
    s1 = s1
    s2 = s2
    unknown = unknown
    Sessions = {s1, s2}
    Addresses <- MCAddresses
    MaxTexts = 2
    MaxRestarts = 1
SPECIFICATION Spec
CHECK_DEADLOCK FALSE
INVARIANTS
    TypeOK
    RegistryTracksSessions
    WelcomeFirst
    DeliveredInOrder
PROPERTY
    ImplementsRelay
