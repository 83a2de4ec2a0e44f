CONSTANTS
  LexTokens <- MCLexTokens
  MaxTokens = 7
  YYINITDEPTH = 200
SPECIFICATION Spec
INVARIANT TypeOK
INVARIANT StackSpellsShifted
INVARIANT ParseCorrect
PROPERTY ParseTerminates
CHECK_DEADLOCK FALSE
