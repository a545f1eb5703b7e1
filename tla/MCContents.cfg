CONSTANTS
  c1 = c1
  c2 = c2
  h1 = h1
  h2 = h2
  Conns = {c1, c2}
  Handles = {h1, h2}
  None = None
  MaxGen = 3
SPECIFICATION Spec
SYMMETRY Symmetry
INVARIANTS UsableExactlyIfCurrent NoRetainedCache
PROPERTIES ServedFresh ImplementsShare
