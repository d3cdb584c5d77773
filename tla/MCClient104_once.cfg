\* Automatic reconnection is off.
SPECIFICATION Spec
CONSTANTS
  Waiter <- MCWaiter
  AutoReconnect = FALSE
  TryPublish = TRUE
PROPERTIES NoRedial
CHECK_DEADLOCK FALSE
