----------------------------- MODULE SqlGrammar -----------------------------
(***************************************************************************)
(* The SQL grammar the parser was generated from, as the rule comments of  *)
(* yyparse's action switch state it (src/src/parser/yacc.tab.cpp; rules   *)
(* with no action are the unit rules the tables reduce by), and the        *)
(* reference definitions of its language: Derives(X, w) for a symbol and   *)
(* a string of terminals, and PrefixOf(X, w) for a prefix of some string   *)
(* X derives.  Symbols are yytname's names.  The rules' semantic actions   *)
(* build the AST and are not modelled, except for the YYACCEPT of the      *)
(* start rules, which the parser module models.                            *)
(***************************************************************************)
EXTENDS Integers, Sequences, FiniteSets, SqlParserTables

\* yytname[]: the symbol names, terminals first, nonterminals from YYNTOKENS.
yytname == CArray(<<
  "\"end of file\"", "error", "\"invalid token\"", "EXPLAIN", "SHOW",
  "TABLES", "CREATE", "TABLE", "DROP", "DESC", "INSERT", "INTO", "VALUES",
  "DELETE", "FROM", "OPEN", "DATABASE", "ON", "ASC", "AS", "ORDER", "GROUP",
  "BY", "SUM", "AVG", "MAX", "MIN", "COUNT", "IN", "STATIC_CHECKPOINT",
  "USING", "NESTED_LOOP_JOIN", "SORT_MERGE_JOIN", "WHERE", "HAVING",
  "UPDATE", "SET", "SELECT", "INT", "CHAR", "FLOAT", "BOOL", "INDEX", "AND",
  "JOIN", "INNER", "OUTER", "EXIT", "HELP", "TXN_BEGIN", "TXN_COMMIT",
  "TXN_ABORT", "TXN_ROLLBACK", "ORDER_BY", "ENABLE_NESTLOOP",
  "ENABLE_SORTMERGE", "STORAGE", "PAX", "NARY", "LIMIT", "LEQ", "NEQ", "GEQ",
  "T_EOF", "IDENTIFIER", "VALUE_STRING", "VALUE_INT", "VALUE_FLOAT",
  "VALUE_BOOL", "';'", "'('", "')'", "'='", "','", "'.'", "'*'", "'<'",
  "'>'", "$accept", "start", "stmt", "txnStmt", "logStmt", "dbStmt",
  "indexStmt", "ddl", "optStorageModel", "dml", "selectStmt", "optLimit",
  "fieldList", "colNameList", "field", "type", "valueList", "value",
  "colListWithoutAlias", "optGroupByClause", "condition", "optWhereClause",
  "optUsingJoinClause", "conditionAgg", "optHavingClause", "havingClause",
  "whereClause", "col", "aggCol", "colList", "optAlias", "op", "expr",
  "setClauses", "setClause", "selector", "table", "tableList",
  "opt_order_clause", "order_clause", "opt_asc_desc", "tbName", "colName">>)

R(lhs, rhs) == [lhs |-> lhs, rhs |-> rhs]
Numbered(first, rs) == [r \in first .. first + Len(rs) - 1 |-> rs[r - first + 1]]

\* $accept (bison's rule 1), start and stmt.
StartRules == Numbered(1, <<
  R("$accept", <<"start", "\"end of file\"">>),
  R("start", <<"stmt", "';'">>),
  R("start", <<"EXPLAIN", "stmt", "';'">>),
  R("start", <<"HELP">>),
  R("start", <<"EXIT">>),
  R("start", <<"T_EOF">>),
  R("stmt", <<"dbStmt">>),
  R("stmt", <<"ddl">>),
  R("stmt", <<"dml">>),
  R("stmt", <<"txnStmt">>),
  R("stmt", <<"indexStmt">>),
  R("stmt", <<"logStmt">>),
  R("stmt", <<>>)>>)

\* Transaction, log, database, index, DDL and DML statements and SELECT.
StatementRules == Numbered(14, <<
  R("txnStmt", <<"TXN_BEGIN">>),
  R("txnStmt", <<"TXN_COMMIT">>),
  R("txnStmt", <<"TXN_ABORT">>),
  R("txnStmt", <<"TXN_ROLLBACK">>),
  R("logStmt", <<"CREATE", "STATIC_CHECKPOINT">>),
  R("dbStmt", <<"SHOW", "TABLES">>),
  R("dbStmt", <<"CREATE", "DATABASE", "IDENTIFIER">>),
  R("dbStmt", <<"OPEN", "DATABASE", "IDENTIFIER">>),
  R("indexStmt", <<"SHOW", "INDEX", "FROM", "tbName">>),
  R("ddl", <<"CREATE", "TABLE", "tbName", "'('", "fieldList", "')'", "optStorageModel">>),
  R("ddl", <<"DROP", "TABLE", "tbName">>),
  R("ddl", <<"DESC", "tbName">>),
  R("ddl", <<"CREATE", "INDEX", "tbName", "'('", "colNameList", "')'">>),
  R("ddl", <<"DROP", "INDEX", "tbName", "'('", "colNameList", "')'">>),
  R("optStorageModel", <<>>),
  R("optStorageModel", <<"STORAGE", "'='", "NARY">>),
  R("optStorageModel", <<"STORAGE", "'='", "PAX">>),
  R("dml", <<"INSERT", "INTO", "tbName", "VALUES", "'('", "valueList", "')'">>),
  R("dml", <<"DELETE", "FROM", "tbName", "optWhereClause">>),
  R("dml", <<"UPDATE", "tbName", "SET", "setClauses", "optWhereClause">>),
  R("dml", <<"selectStmt">>),
  R("selectStmt", <<"SELECT", "selector", "FROM", "tableList", "optWhereClause", "opt_order_clause", "optGroupByClause", "optHavingClause", "optUsingJoinClause", "optLimit">>),
  R("optLimit", <<"LIMIT", "VALUE_INT">>),
  R("optLimit", <<>>),
  R("fieldList", <<"field">>),
  R("fieldList", <<"fieldList", "','", "field">>),
  R("colNameList", <<"colName">>),
  R("colNameList", <<"colNameList", "','", "colName">>),
  R("field", <<"colName", "type">>),
  R("type", <<"INT">>),
  R("type", <<"BOOL">>),
  R("type", <<"CHAR", "'('", "VALUE_INT", "')'">>),
  R("type", <<"FLOAT">>)>>)

\* Values, conditions and the WHERE, GROUP BY, HAVING and USING clauses.
ClauseRules == Numbered(47, <<
  R("valueList", <<"value">>),
  R("valueList", <<"valueList", "','", "value">>),
  R("value", <<"VALUE_INT">>),
  R("value", <<"VALUE_FLOAT">>),
  R("value", <<"VALUE_STRING">>),
  R("value", <<"VALUE_BOOL">>),
  R("value", <<>>),
  R("colListWithoutAlias", <<"col">>),
  R("colListWithoutAlias", <<"colListWithoutAlias", "','", "col">>),
  R("optGroupByClause", <<>>),
  R("optGroupByClause", <<"GROUP", "BY", "colListWithoutAlias">>),
  R("condition", <<"col", "op", "expr">>),
  R("condition", <<"col", "op", "'('", "selectStmt", "')'">>),
  R("condition", <<"col", "IN", "'('", "selectStmt", "')'">>),
  R("condition", <<"col", "IN", "'('", "valueList", "')'">>),
  R("optWhereClause", <<>>),
  R("optWhereClause", <<"WHERE", "whereClause">>),
  R("optUsingJoinClause", <<>>),
  R("optUsingJoinClause", <<"USING", "NESTED_LOOP_JOIN">>),
  R("optUsingJoinClause", <<"USING", "SORT_MERGE_JOIN">>),
  R("conditionAgg", <<"aggCol", "op", "value">>),
  R("optHavingClause", <<>>),
  R("optHavingClause", <<"HAVING", "havingClause">>),
  R("havingClause", <<"condition">>),
  R("havingClause", <<"conditionAgg">>),
  R("havingClause", <<"havingClause", "AND", "condition">>),
  R("havingClause", <<"havingClause", "AND", "conditionAgg">>),
  R("whereClause", <<"condition">>),
  R("whereClause", <<"whereClause", "AND", "condition">>)>>)

\* Columns, aggregates, operators, tables, ORDER BY and names.
ExprRules == Numbered(76, <<
  R("col", <<"tbName", "'.'", "colName">>),
  R("col", <<"colName">>),
  R("aggCol", <<"COUNT", "'('", "col", "')'">>),
  R("aggCol", <<"SUM", "'('", "col", "')'">>),
  R("aggCol", <<"AVG", "'('", "col", "')'">>),
  R("aggCol", <<"MAX", "'('", "col", "')'">>),
  R("aggCol", <<"MIN", "'('", "col", "')'">>),
  R("aggCol", <<"COUNT", "'('", "'*'", "')'">>),
  R("colList", <<"col", "optAlias">>),
  R("colList", <<"aggCol", "optAlias">>),
  R("colList", <<"colList", "','", "col", "optAlias">>),
  R("colList", <<"colList", "','", "aggCol", "optAlias">>),
  R("optAlias", <<"AS", "colName">>),
  R("optAlias", <<>>),
  R("op", <<"'='">>),
  R("op", <<"'<'">>),
  R("op", <<"'>'">>),
  R("op", <<"NEQ">>),
  R("op", <<"LEQ">>),
  R("op", <<"GEQ">>),
  R("expr", <<"value">>),
  R("expr", <<"col">>),
  R("setClauses", <<"setClause">>),
  R("setClauses", <<"setClauses", "','", "setClause">>),
  R("setClause", <<"colName", "'='", "value">>),
  R("selector", <<"'*'">>),
  R("selector", <<"colList">>),
  R("table", <<"tbName">>),
  R("table", <<"'('", "selectStmt", "')'">>),
  R("table", <<"tbName", "JOIN", "tbName">>),
  R("table", <<"tbName", "INNER", "JOIN", "tbName">>),
  R("table", <<"tbName", "OUTER", "JOIN", "tbName">>),
  R("tableList", <<"table">>),
  R("tableList", <<"tableList", "','", "table">>),
  R("opt_order_clause", <<"ORDER", "BY", "order_clause">>),
  R("opt_order_clause", <<>>),
  R("order_clause", <<"opt_asc_desc", "colListWithoutAlias">>),
  R("opt_asc_desc", <<"ASC">>),
  R("opt_asc_desc", <<"DESC">>),
  R("opt_asc_desc", <<>>),
  R("tbName", <<"IDENTIFIER">>),
  R("colName", <<"IDENTIFIER">>)>>)

Rules == [r \in 1 .. 117 |->
            IF r <= 13 THEN StartRules[r] ELSE IF r <= 46 THEN StatementRules[r]
            ELSE IF r <= 75 THEN ClauseRules[r] ELSE ExprRules[r]]

\* The rules are the tables' rules: the same left-hand side and length.
ASSUME \A r \in DOMAIN Rules :
         /\ yytname[yyr1[r]] = Rules[r].lhs
         /\ yyr2[r] = Len(Rules[r].rhs)

NonTerminals == {Rules[r].lhs : r \in DOMAIN Rules}
RulesFor == [X \in NonTerminals |-> {r \in DOMAIN Rules : Rules[r].lhs = X}]
\* A lower bound on the length of what a symbol string derives.
MinLen(a) == Cardinality({i \in DOMAIN a : a[i] \notin NonTerminals})
Drop(w, k) == SubSeq(w, k + 1, Len(w))

\* The string of terminals w is derived from symbol X.
RECURSIVE Derives(_, _), DerivesSeq(_, _)
Derives(X, w) ==
  IF X \notin NonTerminals THEN w = <<X>>
  ELSE \E r \in RulesFor[X] : DerivesSeq(Rules[r].rhs, w)
DerivesSeq(a, w) ==
  CASE a = <<>> -> w = <<>>
    [] Head(a) \notin NonTerminals ->
         w # <<>> /\ Head(w) = Head(a) /\ DerivesSeq(Tail(a), Tail(w))
    [] OTHER ->
         \E k \in 0 .. Len(w) - MinLen(Tail(a)) :
           Derives(Head(a), SubSeq(w, 1, k)) /\ DerivesSeq(Tail(a), Drop(w, k))

\* w is a prefix of some string of terminals that X derives.  In a left-
\* recursive rule X: X ..., a prefix ending inside the leading X is one that
\* X's other rules already give, so that case is not unfolded again.
RECURSIVE PrefixOf(_, _), PrefixOfSeq(_, _, _)
PrefixOf(X, w) ==
  CASE w = <<>> -> TRUE
    [] X \notin NonTerminals -> w = <<X>>
    [] OTHER -> \E r \in RulesFor[X] : PrefixOfSeq(X, Rules[r].rhs, w)
PrefixOfSeq(X, a, w) ==
  CASE w = <<>> -> TRUE
    [] a = <<>> -> FALSE
    [] OTHER ->
         \/ Head(a) # X /\ PrefixOf(Head(a), w)
         \/ \E k \in 0 .. Len(w) - 1 :
              Derives(Head(a), SubSeq(w, 1, k)) /\ PrefixOfSeq("", Tail(a), Drop(w, k))

\* The name of the symbol a token yylex returns stands for.
TokenName(t) == yytname[YYTRANSLATE(t)]
=============================================================================
