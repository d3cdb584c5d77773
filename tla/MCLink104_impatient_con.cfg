SPECIFICATION Spec
CONSTANTS
  M = 3
  Asdu <- MCAsdu
  MaxRequest = 3
  MaxTestFr = 0
  Patient = FALSE
  Conn <- MCConn
  Role <- MCRole
  K <- MCLiveK
  W <- MCLiveW
  AsduCap <- MCCap
  MaxAsdu <- MCLiveMaxAsdu
PROPERTIES RequestsAreConfirmed
CHECK_DEADLOCK FALSE
