SPECIFICATION Spec
CONSTANTS
  Requests = {r1, r2}
  Addresses = {a1}
  Unknown = Unknown
  App = App
  Calls = {k1}
  MaxClients = 0
  DegradeAt = 0
  MaxPerSecond = 0
  MaxPerIp = 0
  AsyncChecks = FALSE
  HandshakeHook = FALSE
INVARIANTS ShutdownForces
CHECK_DEADLOCK FALSE
