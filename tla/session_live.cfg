SPECIFICATION FairSpec
CONSTANTS
  Backpressure = FALSE
  CheckInterval = 1
  LateAborts = FALSE
  MaxMessages = 2
  MaxStrays = 1
INVARIANTS NoHangingPoll
PROPERTIES ClosingEnds SilentPeerIsClosed ProbeEnds
CHECK_DEADLOCK FALSE
