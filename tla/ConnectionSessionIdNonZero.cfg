CONSTANTS
  MaxSessionId = 2
  MaxNonce = 3
  MaxTreeId = 2
  MaxFileId = 2
  MaxTrees = 2
  MaxFailedLogons = 2
SPECIFICATION Spec
INVARIANTS SessionIdNonZero
