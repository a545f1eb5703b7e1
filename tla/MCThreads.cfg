CONSTANTS
  Pool = 3
  Streams = {"a", "b", "c"}
  FileAt <- MCFileAt
  FileSize <- MCFileSize
  Lengths = {1, 2}
  MaxPanics = 1
  MaxConns = 2
  MaxUnits = 2
  SOCKET_BUF = 1
  PROXY_HIGH_WATER = 1
  Opens = {"1", "2", "3", "4"}
  NoOpen = "none"
  MIN_CAPACITY = 1
SPECIFICATION MCSpec
CHECK_DEADLOCK FALSE
INVARIANTS  StreamsKept RegistryBounded
PROPERTIES ReadsAnswered PoolEnds SlotReturned
