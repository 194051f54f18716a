SPECIFICATION MCSpec
CONSTANTS
  ca = ca
  cb = cb
  NUL = NUL
  Char = {ca, cb, NUL}
  CStrings <- MCCStrings
  INCREMENT = 3
  MaxLen = 7
  o1 = o1
  o2 = o2
  o3 = o3
  NULL = NULL
  Object = {o1, o2, o3}
  Precedes <- MCPrecedes
  INITIAL_CAPACITY = 1
  CAPACITY_DELTA = 2
  MaxSize = 4
  pair = pair
  symbol = symbol
  primitive = primitive
  environment = environment
  vm = vm
  NoType = NoType
  Type = {pair, symbol, primitive, environment, vm}
  ARRAYLIST_INITIAL_CAPACITY = 2
  ARRAYLIST_CAPACITY_DELTA = 2
  st1 = st1
  st2 = st2
  v1 = v1
  v2 = v2
  a1 = a1
  a2 = a2
  a3 = a3
  a4 = a4
  mem_mix = mem_mix
  Stack = {st1, st2}
  Void = {v1, v2}
  Address = {a1, a2, a3, a4}
INVARIANT Terminated
INVARIANT IdsLeadHome
INVARIANT ArithmeticIsRight
INVARIANT ConversionsReadBack
PROPERTY TextSpec
PROPERTY ListSpec
PROPERTY StackSpec
