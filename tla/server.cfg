SPECIFICATION Spec
CONSTANTS
  Requests = {r1, r2, r3}
  Addresses = {a1}
  Unknown = Unknown
  App = App
  Calls = {k1, k2}
  MaxClients = 2
  DegradeAt = 1
  MaxPerSecond = 2
  MaxPerIp = 1
  AsyncChecks = TRUE
  HandshakeHook = FALSE
SYMMETRY Symmetric
INVARIANTS TypeOK Registered CountersMatch DegradedIsCurrent CapacityRespected CallsHeard CloseWaitsForAll
PROPERTIES EndIsHeard
CHECK_DEADLOCK FALSE
