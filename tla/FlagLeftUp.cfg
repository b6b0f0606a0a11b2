\* isNegotiating of useWebRTC against its comment.
CONSTANTS
  None = None
  MaxChanges = 1
  MaxOffers = 1
  MaxReceived = 1
SPECIFICATION Spec
INVARIANT NegotiatingAccurate
CHECK_DEADLOCK FALSE
