SPECIFICATION Spec
CONSTANTS
  k1 = k1
  k2 = k2
  k3 = k3
  k4 = k4
  k5 = k5
  v1 = v1
  v2 = v2
  NULL = NULL
  Key = {k1, k2, k3, k4, k5}
  Value = {v1, v2}
  hash_func <- MCHash
  sizes <- MCSizes
INVARIANT EntriesAreFound
INVARIANT CountIsExact
INVARIANT LoadIsBounded
INVARIANT SizeIsNeeded
INVARIANT CapacityIsExact
PROPERTY DictSpec
\* the process exits when the table is too big, and a destroyed table is gone
CHECK_DEADLOCK FALSE
