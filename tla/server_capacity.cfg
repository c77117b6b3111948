SPECIFICATION Spec
CONSTANTS
  Requests = {r1, r2}
  Addresses = {a1}
  Unknown = Unknown
  App = App
  Calls = {k1}
  MaxClients = 1
  DegradeAt = 0
  MaxPerSecond = 0
  MaxPerIp = 0
  AsyncChecks = FALSE
  HandshakeHook = TRUE
INVARIANTS CapacityRespected
CHECK_DEADLOCK FALSE
