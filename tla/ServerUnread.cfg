CONSTANTS
  Clients = {"a", "b"}
  Tunnel = TRUE
  MaxRetries = 1
SPECIFICATION ServerSpec
CHECK_DEADLOCK FALSE
PROPERTIES SilentDropped
