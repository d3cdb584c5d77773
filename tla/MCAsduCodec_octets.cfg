SPECIFICATION Spec
CONSTANTS
  Calls <- AllCalls
  Foreign <- AllForeign
  Pads = {0, 1}
INVARIANTS
  RoundTrip
  NeverMisread
  Carried
  RequestsAreServed
CHECK_DEADLOCK FALSE
