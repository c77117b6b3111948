SPECIFICATION FairSpec
CONSTANTS
  Requests = {r1, r2}
  Addresses = {a1}
  Unknown = Unknown
  App = App
  Calls = {k1, k2}
  MaxClients = 2
  DegradeAt = 1
  MaxPerSecond = 0
  MaxPerIp = 0
  AsyncChecks = TRUE
  HandshakeHook = TRUE
PROPERTIES DrainingIsFinal CallsResolve CallsClose
CHECK_DEADLOCK FALSE
