SPECIFICATION Spec
CONSTANTS
  Backpressure = TRUE
  CheckInterval = 2
  LateAborts = FALSE
  MaxMessages = 2
  MaxStrays = 0
PROPERTIES BroadcastReaches
CHECK_DEADLOCK FALSE
