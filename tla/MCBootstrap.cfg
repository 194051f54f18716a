SPECIFICATION Spec
CONSTANTS
  NULL = NULL
  declarations <- MCDeclarations
  syntax <- MCSyntax
  MaxCalls = 2
INVARIANT NoUseAfterFree
INVARIANT EnvironmentsAreComplete
