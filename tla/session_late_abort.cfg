SPECIFICATION Spec
CONSTANTS
  Backpressure = FALSE
  CheckInterval = 1
  LateAborts = TRUE
  MaxMessages = 1
  MaxStrays = 0
INVARIANTS NoHangingPoll
CHECK_DEADLOCK FALSE
