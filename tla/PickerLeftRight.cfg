CONSTANTS
  e1 = e1
  e2 = e2
  e3 = e3
  e4 = e4
  Readers = {r1, r2}
  Entries = {e1, e2, e3, e4}
  Size <- MCSize
  Limit = 2
  EntrySize <- MCEntrySize
  Fixed = 2
  EntryAlign = 2
  Buffers = {1, 5, 8}
  Requests <- MCRequests
  ReadSizes = {0, 2, 8}
  MaxCall = 2
  NoAnswer = NoAnswer
  HeaderLen = 2
  ResponseAlign = 2
  Bodies = {1, 2}
  MAX_COMPOUND_RESPONSE = 7
  Messages <- MCMessages
  Listing <- MCListing
  Dirs = {"top", "d", "h", "u"}
  Top = "top"
  ParentOf <- MCParentOf
  Dotted = {"h", "b"}
  UnreadableDirs = {"u"}
  Filters = {"a", "ab", "/d", "..", "."}
  Cut <- MCCut
  Matching <- MCMatching
  Typed <- MCTyped
  NotPath = "np"
  Heights = {1, 2, 3}
  Lower <- MCLower
  Order <- MCOrder
  Forbidden <- MCForbidden
  Backslash <- MCBackslash
  RawEntries <- MCRawEntries
  MaxEntries = 3
  Extent = 4
  Folder = "f0"
  Fold <- MCFold
  Patterns <- MCPatterns
  Names <- MCNames
  MAX_PATTERN = 3
  REVISITS = 1
  CEILING = 18
  Nodes <- MCNodes
  Volumes <- MCVolumes
  CLUSTER_SIZE = 4096
  U64_MAX = 65535
  Opens <- MCOpens
  OutputLengths = {0, 3, 4, 7, 8, 9, 10, 15, 16, 17, 24, 25, 26, 27, 28, 33, 34, 38, 40, 56,
                   103, 104, 105, 106, 107}
  Callers = {c1, c2}
  Stored <- MCStored
  Offsets = {0, 2}
  ReadLengths = {0, 3}
  Minima = {0, 2}
  MAX_READ_SIZE = 2
SPECIFICATION MCSpec
CHECK_DEADLOCK FALSE
PROPERTIES LeftThenRight
