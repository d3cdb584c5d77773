\* A close while the client connects.
SPECIFICATION Spec
CONSTANTS
  Waiter <- MCWaiter
  AutoReconnect = TRUE
  TryPublish = TRUE
PROPERTIES CloseEndsClient
CHECK_DEADLOCK FALSE
