CONSTANTS
  Conns = {1, 2}
  MaxServerFailures = 3
  MaxFailedLogons = 2
  Clients = {"a", "b"}
  Tunnel = TRUE
  MaxRetries = 1
  MaxLoads = 2
  MaxUnloads = 1
SPECIFICATION MCSpec
CHECK_DEADLOCK FALSE
INVARIANTS MCTypeOK LimitOvershoot NothingLeft UnloadHolds TerminalRight
PROPERTIES LimitStops StopReturns SilentDropped LoadAnswered SignalEnds
