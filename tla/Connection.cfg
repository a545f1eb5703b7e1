CONSTANTS
  MaxSessionId = 1
  MaxNonce = 2
  MaxTreeId = 3
  MaxFileId = 2
  MaxTrees = 2
  MaxFailedLogons = 2
SPECIFICATION Spec
INVARIANTS KeyExactlyIfAuthenticated NothingOpenWithoutLogon NothingDangles
           ChallengeFresh 
PROPERTIES TreeIdsNotReused
