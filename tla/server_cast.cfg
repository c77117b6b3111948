SPECIFICATION Spec
CONSTANTS
  Requests = {r1, r2, r3}
  Addresses = {a1}
  Unknown = Unknown
  App = App
  Calls = {k1}
  MaxClients = 0
  DegradeAt = 0
  MaxPerSecond = 0
  MaxPerIp = 0
  AsyncChecks = TRUE
  HandshakeHook = FALSE
INVARIANTS NoCrash
CHECK_DEADLOCK FALSE
