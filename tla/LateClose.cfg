\* isConnected of useSignaling against its comment, without strict mode.
CONSTANT MaxChanges = 1
SPECIFICATION ProductionSpec
INVARIANT ConnectedAccurate
CHECK_DEADLOCK FALSE
