------------------------------ MODULE MCParser ------------------------------
(***************************************************************************)
(* yyparse on every line of at most MaxTokens tokens drawn from a small    *)
(* vocabulary: SELECT, FROM, WHERE, SHOW, TABLES, HELP, an identifier, an  *)
(* integer, the punctuation '*', '=', ',', ';', '(' and ')', the lexer's   *)
(* error token and a character the grammar does not know ('$').           *)
(***************************************************************************)
EXTENDS SqlParser

MCLexTokens ==
  {292, 269, 288, 259, 260, 303, 319, 321, 42, 61, 44, 59, 40, 41, YYerror, 36}
=============================================================================
