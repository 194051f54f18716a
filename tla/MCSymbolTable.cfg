SPECIFICATION MCSpec
CONSTANTS
  NULL = NULL
  Name = {a, b, c, d}
  Freed = {c, d}
  MaxSymbols = 5
INVARIANT SymbolsInUseAreLive
PROPERTY NamesKeepTheirSymbols
PROPERTY CarefulProgramsIntern
