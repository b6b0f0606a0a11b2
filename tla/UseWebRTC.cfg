\* useWebRTC with one change of its callbacks.
CONSTANTS
  None = None
  MaxChanges = 1
  MaxOffers = 2
  MaxReceived = 2
SPECIFICATION FairSpec
INVARIANTS TypeOK OffersCompleted FlagReturns
PROPERTY HookSettles
CHECK_DEADLOCK FALSE
