SPECIFICATION FairSpec
CONSTANTS
  a1 = a1
  a2 = a2
  a3 = a3
  leaf = leaf
  pair = pair
  Addr = {a1, a2, a3}
  NULL = NULL
  Types = {leaf, pair}
  Size <- MCSize
  Fields <- MCLinkFields
  MAX_MEM_USE = 4
  MAX_SKIPS = 1
  MaxRoots = 2
INVARIANT ListsHoldTheObjects
INVARIANT CountersAreExact
PROPERTY OverLimitOnlyWithLiveData
PROPERTY HeapSpec
PROPERTY AllocReturns
\* the process exits when malloc fails
CHECK_DEADLOCK FALSE
