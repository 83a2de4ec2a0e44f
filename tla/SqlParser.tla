------------------------------ MODULE SqlParser ------------------------------
(***************************************************************************)
(* yyparse (src/src/parser/yacc.tab.cpp): bison's LALR(1) driver over the  *)
(* tables of SqlParserTables, reading the tokens yylex returns for one     *)
(* input line.  One action per label of the driver (yysetstate, yybackup,  *)
(* yydefault, yyreduce, yyerrlab, yyerrlab1), each running to its next     *)
(* goto.  The value and location stacks and the AST the actions build are  *)
(* not modelled; the state stack, the lookahead and the error state are.   *)
(* yylex is the lexer: any token of LexTokens, or YYEOF when the line      *)
(* ends, which it does after at most MaxTokens tokens.                     *)
(*                                                                         *)
(* YYSTYPE holds shared_ptrs and is not trivially copyable, so this build  *)
(* has no YYSTACK_RELOCATE: the stacks are the YYINITDEPTH-element local   *)
(* arrays, and a parse that needs more is "memory exhausted".              *)
(***************************************************************************)
EXTENDS Integers, Sequences, SqlGrammar

CONSTANTS
  LexTokens,    \* token kinds yylex may return for a word of the line
  MaxTokens,    \* bound: the line has at most this many tokens
  YYINITDEPTH   \* size of yyssa

ASSUME LexTokens \subseteq (0 .. YYMAXUTOK) \ {YYEOF} /\ MaxTokens \in Nat

VARIABLES
  label,        \* where yyparse is: the label its next step starts at
  yystate,      \* the state the next yysetstate pushes
  yyss,         \* the state stack yyss .. yyssp, bottom first
  yychar,       \* the lookahead token, YYEMPTY if none is read
  yyn,          \* the rule yyreduce reduces by
  yyerrstatus,  \* tokens to shift before error messages are enabled again
  yynerrs,      \* syntax errors reported
  yyresult,     \* what yyparse returns: 0 accept, 1 abort, 2 memory exhausted
  lexed,        \* the tokens yylex returned, in order
  shifted       \* ghost: names of the terminals shifted, in order

vars == <<label, yystate, yyss, yychar, yyn, yyerrstatus, yynerrs, yyresult,
          lexed, shifted>>

\* Plausible fault: the YYACCEPT cases numbered one rule off.
AcceptRulesOffByOne == {3, 4, 5, 6, 7}

\* The start rules' actions end in YYACCEPT (cases 2 to 6).
AcceptRules == {2, 3, 4, 5, 6}

\* yylex: a word of the line, or YYEOF once the line has ended.
LexNext == IF Len(lexed) < MaxTokens THEN LexTokens \cup {YYEOF} ELSE {YYEOF}

\* yyacceptlab / yyabortlab / yyexhaustedlab, then yyreturnlab: pop the
\* stack down to its bottom element and return yyresult.
Return(r, ss) ==
  /\ yyresult' = r
  /\ yyss' = <<Head(ss)>>
  /\ label' = "return"

Init ==
  /\ label = "setstate"
  /\ yystate = 0
  /\ yyss = <<>>
  /\ yychar = YYEMPTY
  /\ yyn = 0
  /\ yyerrstatus = 0
  /\ yynerrs = 0
  /\ yyresult = -1
  /\ lexed = <<>>
  /\ shifted = <<>>

\* yynewstate / yysetstate: push yystate; a full stack is YYNOMEM, the
\* final state YYACCEPT, anything else goes on to yybackup.
SetState ==
  LET ss == Append(yyss, yystate) IN
  /\ label = "setstate"
  /\ IF Len(ss) >= YYINITDEPTH THEN Return(2, ss)
     ELSE IF yystate = YYFINAL THEN Return(0, ss)
     ELSE yyss' = ss /\ label' = "backup" /\ UNCHANGED yyresult
  /\ UNCHANGED <<yystate, yychar, yyn, yyerrstatus, yynerrs, lexed, shifted>>

\* yybackup when yypact says the state has only a default action.
BackupDefault ==
  /\ label = "backup"
  /\ yypact[yystate] = YYPACT_NINF
  /\ label' = "default"
  /\ UNCHANGED <<yystate, yyss, yychar, yyn, yyerrstatus, yynerrs, yyresult,
                 lexed, shifted>>

\* The yytable entry at i belongs to the state for symbol tok.
Hit(i, tok) == 0 <= i /\ i <= YYLAST /\ yycheck[i] = tok

\* Plausible fault: yyerrstatus decremented on every shift.
ShiftErrStatusUnguarded(s) == s - 1

\* A shift counts down the tokens left before errors are reported again.
ShiftErrStatus(s) == IF s > 0 THEN s - 1 ELSE 0

\* The rest of yybackup with lookahead c (read by yylex if yychar was
\* YYEMPTY): an error token goes to yyerrlab1; otherwise yytable at
\* yypact[state] + token, if yycheck confirms the entry, says shift or
\* reduce, and a missing entry sends the driver to yydefault.
BackupOn(c) ==
  LET tok == IF c <= YYEOF THEN YYSYMBOL_YYEOF ELSE YYTRANSLATE(c)
      i == yypact[yystate] + tok
      hit == Hit(i, tok)
  IN
  \/ /\ c = YYerror
     /\ yychar' = YYUNDEF
     /\ label' = "errlab1"
     /\ UNCHANGED <<yystate, yyn, yyerrstatus, shifted>>
  \/ /\ c # YYerror
     /\ yychar' = IF c <= YYEOF THEN YYEOF ELSE c
     /\ ~hit
     /\ label' = "default"
     /\ UNCHANGED <<yystate, yyn, yyerrstatus, shifted>>
  \/ /\ c # YYerror /\ hit /\ yytable[i] <= 0
     /\ yychar' = IF c <= YYEOF THEN YYEOF ELSE c
     /\ yyn' = -yytable[i]
     /\ label' = "reduce"
     /\ UNCHANGED <<yystate, yyerrstatus, shifted>>
  \/ /\ c # YYerror /\ hit /\ yytable[i] > 0
     /\ yyerrstatus' = ShiftErrStatus(yyerrstatus)
     /\ yystate' = yytable[i]
     /\ yychar' = YYEMPTY
     /\ shifted' = Append(shifted, yytname[tok])
     /\ label' = "setstate"
     /\ UNCHANGED yyn

Backup ==
  /\ label = "backup"
  /\ yypact[yystate] # YYPACT_NINF
  /\ IF yychar = YYEMPTY
       THEN \E c \in LexNext : lexed' = Append(lexed, c) /\ BackupOn(c)
       ELSE BackupOn(yychar) /\ UNCHANGED lexed
  /\ UNCHANGED <<yyss, yynerrs, yyresult>>

\* Plausible fault: a state with no default rule reads the lookahead again
\* instead of reporting the error.
DefaultRetry ==
  /\ label = "default"
  /\ yyn' = yydefact[yystate]
  /\ label' = IF yydefact[yystate] = 0 THEN "backup" ELSE "reduce"
  /\ UNCHANGED <<yystate, yyss, yychar, yyerrstatus, yynerrs, yyresult,
                 lexed, shifted>>

\* yydefault: reduce by the state's default rule; 0 is a syntax error.
Default ==
  /\ label = "default"
  /\ yyn' = yydefact[yystate]
  /\ label' = IF yydefact[yystate] = 0 THEN "errlab" ELSE "reduce"
  /\ UNCHANGED <<yystate, yyss, yychar, yyerrstatus, yynerrs, yyresult,
                 lexed, shifted>>

\* The state the goto on the rule's left-hand side leads to from the state
\* uncovered by popping: yytable at yypgoto[lhs] + state if yycheck
\* confirms it, else yydefgoto[lhs].
GotoStateDefaultOnly(lhs, top) == yydefgoto[lhs]

GotoState(lhs, top) ==
  LET i == yypgoto[lhs] + top IN
  IF 0 <= i /\ i <= YYLAST /\ yycheck[i] = top THEN yytable[i] ELSE yydefgoto[lhs]

\* yyreduce by rule yyn: a start rule's action accepts; otherwise pop
\* yyr2[yyn] states and go to the goto state of yyr1[yyn].
Reduce ==
  LET ss == SubSeq(yyss, 1, Len(yyss) - yyr2[yyn]) IN
  /\ label = "reduce"
  /\ IF yyn \in AcceptRules THEN Return(0, yyss) /\ UNCHANGED yystate
     ELSE /\ yystate' = GotoState(yyr1[yyn] - YYNTOKENS, ss[Len(ss)])
          /\ yyss' = ss
          /\ label' = "setstate"
          /\ UNCHANGED yyresult
  /\ UNCHANGED <<yychar, yyn, yyerrstatus, yynerrs, lexed, shifted>>

\* yyerrlab: report the error unless recovering (yyerror, yynerrs++); after
\* a failed reuse of the lookahead, abort at YYEOF or discard it.
ErrLab ==
  /\ label = "errlab"
  /\ yynerrs' = IF yyerrstatus = 0 THEN yynerrs + 1 ELSE yynerrs
  /\ IF yyerrstatus = 3 /\ yychar = YYEOF THEN Return(1, yyss) /\ UNCHANGED yychar
     ELSE /\ yychar' = IF yyerrstatus = 3 /\ yychar > YYEOF THEN YYEMPTY ELSE yychar
          /\ label' = "errlab1"
          /\ UNCHANGED <<yyss, yyresult>>
  /\ UNCHANGED <<yystate, yyn, yyerrstatus, lexed, shifted>>

\* The entry of a state that shifts the error token, or 0 if it has none.
ErrorShift(s) ==
  LET i == yypact[s] + YYSYMBOL_YYerror IN
  IF yypact[s] # YYPACT_NINF /\ 0 <= i /\ i <= YYLAST
     /\ yycheck[i] = YYSYMBOL_YYerror /\ yytable[i] > 0
  THEN yytable[i] ELSE 0

\* yyerrlab1: pop states until one shifts the error token, and shift it;
\* abort when the bottom state does not.
ErrLab1 ==
  LET keep == {k \in 1 .. Len(yyss) : ErrorShift(yyss[k]) > 0} IN
  /\ label = "errlab1"
  /\ yyerrstatus' = 3
  /\ IF keep = {} THEN Return(1, yyss) /\ UNCHANGED yystate
     ELSE LET k == CHOOSE m \in keep : \A m2 \in keep : m2 <= m IN
          /\ yyss' = SubSeq(yyss, 1, k)
          /\ yystate' = ErrorShift(yyss[k])
          /\ label' = "setstate"
          /\ UNCHANGED yyresult
  /\ UNCHANGED <<yychar, yyn, yynerrs, lexed, shifted>>

Next ==
  \/ SetState \/ BackupDefault \/ Backup \/ Default \/ Reduce \/ ErrLab \/ ErrLab1

\* yyparse is a single-threaded loop that never blocks (yylex reads from the
\* line already in memory): it keeps taking steps while it can.
Spec == Init /\ [][Next]_vars /\ WF_vars(Next)

-----------------------------------------------------------------------------
TypeOK ==
  /\ label \in {"setstate", "backup", "default", "reduce", "errlab", "errlab1", "return"}
  /\ yystate \in DOMAIN yypact /\ yyss \in Seq(DOMAIN yypact)
  /\ yychar \in {YYEMPTY, YYEOF, YYUNDEF} \cup LexTokens
  /\ yyn \in DOMAIN yyr1 /\ yyerrstatus \in 0 .. 3 /\ yynerrs \in Nat
  /\ yyresult \in {-1, 0, 1, 2} /\ (yyresult = -1 <=> label # "return")
  /\ lexed \in Seq(LexTokens \cup {YYEOF}) /\ Len(lexed) <= MaxTokens + 1

\* The names of the symbols the states on the stack were entered by.
StackSymbols(ss) == [i \in 1 .. Len(ss) - 1 |-> yytname[yystos[ss[i + 1]]]]
\* The names of the symbols of the tokens yylex returned.
Names(w) == [i \in DOMAIN w |-> TokenName(w[i])]

\* The LR invariant of the tables and the driver together: the symbols the
\* stacked states were entered by derive exactly the terminals shifted so
\* far.  A goto out of the packed yytable to the wrong state, a pop of the
\* wrong number of states or a shift of the wrong token all break it, and
\* only a long parse through several reductions shows it.
StackSpellsShifted ==
  label # "return" =>
    LET ss == IF label = "setstate" THEN Append(yyss, yystate) ELSE yyss IN
    DerivesSeq(StackSymbols(ss), shifted)

\* yyparse's result is the grammar's verdict on the tokens it read: 0 only
\* when the terminals shifted, the tokens read but the lookahead, form a
\* statement of the grammar (start rules reduce with no more input); 1 only
\* at the first token that leaves the grammar: the tokens read, the last
\* one included, are no prefix of any statement (no early report), and
\* those before it are one (no late report after a bad token was read).
ParseCorrect ==
  label = "return" =>
    /\ yyresult = 0 => /\ Derives("start", shifted)
                       /\ shifted = SubSeq(Names(lexed), 1, Len(shifted))
    /\ yyresult = 1 => /\ ~PrefixOf("start", Names(lexed))
                       /\ PrefixOf("start", Names(SubSeq(lexed, 1, Len(lexed) - 1)))

\* Every call of yyparse returns: no cycle of reductions, default actions or
\* error recovery keeps the loop going without reading the line's tokens.
ParseTerminates == <>(label = "return")
=============================================================================
