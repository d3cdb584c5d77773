\* The master's application awaits each confirmation.
SPECIFICATION Spec
CONSTANTS
  M = 3
  Asdu <- MCAsdu
  MaxRequest = 2
  MaxTestFr = 1
  Patient = TRUE
  Conn <- MCConn
  Role <- MCRole
  K <- MCLiveK
  W <- MCLiveW
  AsduCap <- MCCap
  MaxAsdu <- MCLiveMaxAsdu
INVARIANTS NoProtocolError StoppedIsSettled NoIAfterStopDt
PROPERTIES RequestsAreConfirmed AllDelivered
CHECK_DEADLOCK FALSE
