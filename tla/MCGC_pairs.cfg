SPECIFICATION Spec
CONSTANTS
  a1 = a1
  a2 = a2
  a3 = a3
  leaf = leaf
  pair = pair
  Addr = {a1, a2, a3}
  NULL = NULL
  Types = {leaf, pair}
  Size <- MCSize
  Fields <- MCPairFields
  MAX_MEM_USE = 4
  MAX_SKIPS = 1
  MaxRoots = 1
SYMMETRY Symmetry
INVARIANT ReachableIsAllocated
INVARIANT CollectionInvariant
\* the process exits when malloc fails
CHECK_DEADLOCK FALSE
