\* Both ends stream; the master's application does not await confirmations.
SPECIFICATION Spec
CONSTANTS
  M = 3
  Asdu <- MCAsdu
  MaxRequest = 2
  MaxTestFr = 0
  Patient = FALSE
  Conn <- MCConn
  Role <- MCRole
  K <- MCBothK
  W <- MCBothW
  AsduCap <- MCCap
  MaxAsdu <- MCBothMaxAsdu
INVARIANTS NoSequenceError
PROPERTIES IsDataTransfer
CHECK_DEADLOCK FALSE
