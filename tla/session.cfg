SPECIFICATION Spec
CONSTANTS
  Backpressure = TRUE
  CheckInterval = 2
  LateAborts = TRUE
  MaxMessages = 3
  MaxStrays = 1
INVARIANTS TypeOK NothingStuck KeepaliveArmed InOrderDelivery GracefulClose ClosingWaits ProbeTimers NoOrphanWebSocket
PROPERTIES ClosedIsFinal OnlyWebSocketLoses OvertakenInUpgrade ImplementsChannel
CHECK_DEADLOCK FALSE
