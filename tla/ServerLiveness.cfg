\* Two connections, one text each, one restart, under the executor's fairness.
CONSTANTS
    s1 = s1
    s2 = s2
    unknown = unknown
    Sessions = {s1, s2}
    Addresses <- MCAddresses
    MaxTexts = 1
    MaxRestarts = 1
SPECIFICATION FairSpec
CHECK_DEADLOCK FALSE
PROPERTIES
    DeadSessionsForgotten
    StartedSessionsRegistered
    AcceptedTextsDelivered
