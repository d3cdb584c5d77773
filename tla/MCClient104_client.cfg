\* A master that reconnects.  A client that is done takes no further step.
SPECIFICATION Spec
CONSTANTS
  Waiter <- MCWaiter
  AutoReconnect = TRUE
  TryPublish = TRUE
INVARIANTS PublishedIsCurrent
PROPERTIES HeardCloseEndsClient WaitersReturn
CHECK_DEADLOCK FALSE
