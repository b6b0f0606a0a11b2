\* The cleanup of useMediaStream against its comment.
CONSTANT MaxRetries = 1
SPECIFICATION Spec
INVARIANT CameraReleased
CHECK_DEADLOCK FALSE
