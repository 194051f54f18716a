SPECIFICATION MCSpec
CONSTANTS
  NULL = NULL
  true = true
  false = false
  the_empty_list = the_empty_list
  eof = eof
  EOF = EOF
  Letter = {"a", "b", "c", "e", "f", "n", "o", "p", "q", "s", "t", "u", "x"}
  Symbols = {s1, s2, s3, s4, s5, s6, s7, s8, s9, s10, s11, s12, s13, s14, s15, s16, s17, s18, s19, s20, s21}
  symbol <- MCSymbol
  name_of <- MCNameOf
  Inputs <- GrammarInputs
  MaxDepth = 20
INVARIANT NoUseAfterFree
INVARIANT ReadsTheGrammar
INVARIANT WrittenReadsBack
