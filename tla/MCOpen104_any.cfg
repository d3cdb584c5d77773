\* A station, demoted at any moment, and a master, each against an arbitrary peer.
\* A closed connection takes no further step.
SPECIFICATION OpenSpec
CONSTANTS
  M = 4
  Asdu = {1}
  MaxQueued = 1
  Conn <- MCBoth
  Role <- MCRole
  K <- MCK
  W <- MCW
  AsduCap <- MCCap
CONSTRAINT OneMoves
INVARIANTS OpenTypeOK PendingIsWindow UnackedBelowW HeldStopCon
PROPERTIES LateIAtMostOnce
CHECK_DEADLOCK FALSE
