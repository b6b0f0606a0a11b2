\* useMediaStream with three retries, in and out of strict mode.
CONSTANT MaxRetries = 3
SPECIFICATION Spec
INVARIANTS TypeOK CamerasKnown ReadyHasStream OneRequestPerRetry
PROPERTY NewestAdopted
CHECK_DEADLOCK FALSE
