CONSTANTS
  Conns = {1, 2, 3}
  MaxServerFailures = 3
  MaxFailedLogons = 2
SPECIFICATION Spec
PROPERTIES NothingAuthenticatesAtLimit
CHECK_DEADLOCK FALSE
