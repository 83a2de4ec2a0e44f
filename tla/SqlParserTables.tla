--------------------------- MODULE SqlParserTables ---------------------------
(***************************************************************************)
(* The LALR(1) automaton bison 3.8.2 generated for the SQL grammar        *)
(* (src/src/parser/yacc.tab.cpp): its constants and tables.  A C array a  *)
(* is the function [i \in 0 .. N-1 |-> a[i]].                            *)
(***************************************************************************)
EXTENDS Integers, Sequences

YYFINAL == 55          \* the termination state
YYLAST == 228          \* last index in yytable
YYNTOKENS == 78        \* terminals; nonterminals follow them
YYMAXUTOK == 323       \* last valid token kind yylex returns
YYPACT_NINF == -142
YYEMPTY == -2          \* no lookahead read
YYEOF == 0             \* what yylex returns at the end of the line
YYerror == 256
YYUNDEF == 257
YYSYMBOL_YYEOF == 0
YYSYMBOL_YYerror == 1
YYSYMBOL_YYUNDEF == 2

CArray(s) == [i \in 0 .. Len(s) - 1 |-> s[i + 1]]

\* yytranslate[] and YYTRANSLATE: the symbol kind of a token yylex returns.
\* Every entry not listed is 2 (YYSYMBOL_YYUNDEF); the characters the
\* grammar uses map to 69 .. 77 and the named tokens 258 .. 323 to 3 .. 68.
CharSymbol == [c \in {40, 41, 42, 44, 46, 59, 60, 61, 62} |->
  CASE c = 59 -> 69 [] c = 40 -> 70 [] c = 41 -> 71 [] c = 61 -> 72 [] c = 44 -> 73
    [] c = 46 -> 74 [] c = 42 -> 75 [] c = 60 -> 76 [] c = 62 -> 77]
YYTRANSLATE(x) ==
  CASE x = 0 -> YYSYMBOL_YYEOF
    [] x \in DOMAIN CharSymbol -> CharSymbol[x]
    [] x = YYerror -> YYSYMBOL_YYerror
    [] x \in 258 .. YYMAXUTOK -> x - 255
    [] OTHER -> YYSYMBOL_YYUNDEF

\* YYPACT[STATE-NUM]: index in yytable of the part for the state;
\* YYPACT_NINF: the state has only its default action.
yypact == CArray(<<
    78,  127,    6,  132,   14,  -50,   13,   22,   39,  -50,   19, -142,
  -142, -142, -142, -142, -142, -142,   70,    3, -142, -142, -142, -142,
  -142, -142, -142,   10, -142,   66,  -50,   11, -142,  -50,  -50,  -50,
  -142, -142,  -50,  -50,   21,   54,   31,   68,   74,   76,   77,   18,
  -142,  130,  130,   85,  136,   92, -142, -142, -142, -142,  -50,   95,
  -142,  110, -142,  111,  172,  152, -142,  122,  123,  123,  123,  123,
   -52,  122, -142, -142,   79,  -42,  122, -142,  122,  122,  122,  118,
   123, -142, -142,  -26, -142,  117,  119,  120,  121,  124,  125,  126,
  -142,  130,  130,  156, -142,  -24,   64, -142,  -21, -142,   -1,   27,
  -142,   43,   89, -142,  151,   35,  122, -142,   89, -142, -142, -142,
  -142, -142, -142, -142, -142,  128,  -42,  178,  -50,  158,  159,  144,
   122, -142,  134, -142, -142, -142, -142,  122, -142, -142, -142, -142,
  -142,   50, -142,  123,  135, -142, -142, -142, -142, -142, -142,  105,
  -142, -142, -142, -142,  184,  186, -142,  -50,  -50,  137, -142, -142,
   142, -142, -142,   89, -142,   52,  156, -142, -142, -142,    7,  188,
   177, -142, -142,  -25,  141, -142,  143,   61,  145, -142, -142, -142,
   123,  123,   79,  183, -142, -142, -142, -142, -142, -142,  146, -142,
   146, -142, -142,  174,   91,   33,  161,  123,   79,   89, -142, -142,
   149, -142, -142, -142, -142, -142, -142>>)

\* YYDEFACT[STATE-NUM]: default reduction of the state; 0: a syntax error.
yydefact == CArray(<<
    13,   13,    0,    0,    0,    0,    0,    0,    0,    0,    0,    5,
     4,   14,   15,   16,   17,    6,    0,    0,   10,   12,    7,   11,
     8,    9,   34,    0,   19,    0,    0,    0,   18,    0,    0,    0,
   116,   25,    0,    0,    0,    0,    0,    0,    0,    0,    0,  117,
   101,   89,   89,  102,    0,    0,   77,    1,    2,    3,    0,    0,
    20,    0,   24,    0,    0,   62,   21,    0,    0,    0,    0,    0,
     0,    0,   84,   85,    0,    0,    0,   22,    0,    0,    0,    0,
     0,   32,  117,   62,   98,    0,    0,    0,    0,    0,    0,    0,
    88,   89,   89,    0,  108,   62,  103,   76,    0,   38,    0,    0,
    40,    0,   53,   74,   63,    0,    0,   33,   53,   79,   80,   81,
    82,   83,   78,   86,   87,    0,    0,  111,    0,    0,    0,   28,
     0,   43,    0,   46,   44,   42,   26,    0,   27,   51,   49,   50,
    52,    0,   47,    0,    0,   94,   93,   95,   90,   91,   92,   53,
    99,  100,  104,  109,    0,   56,  105,    0,    0,    0,   23,   39,
     0,   41,   31,   53,   75,   53,    0,   96,   97,   58,  115,    0,
    68,  106,  107,    0,    0,   48,    0,    0,    0,  114,  113,  110,
     0,    0,    0,   64,   30,   29,   45,   60,   61,   59,  112,   54,
    57,   70,   71,   69,    0,    0,   37,    0,    0,   53,   65,   66,
     0,   35,   55,   72,   73,   67,   36>>)

\* YYPGOTO[NTERM-NUM]: index in yytable of the goto part for the nonterminal.
yypgoto == CArray(<<
  -142, -142,  217, -142, -142, -142, -142, -142, -142, -142,  -96, -142,
  -142,  139,   90, -142,   51, -114,   30, -142, -141,  -74, -142,   15,
  -142, -142, -142,  -10,   -2, -142,  -30,   17, -142, -142,  112, -142,
   102, -142, -142, -142, -142,   -4,  -63>>)

\* YYDEFGOTO[NTERM-NUM]: default goto state for the nonterminal.
yydefgoto == CArray(<<
     0,   18,   19,   20,   21,   22,   23,   24,  166,   25,   26,  217,
   104,  107,  105,  137,  145,  146,  202,  180,  111,   85,  210,  206,
   195,  207,  112,  113,  208,   51,   74,  155,  177,   87,   88,   52,
   100,  101,  161,  191,  192,   53,   54>>)

\* YYTABLE: positive, shift to that state; negative, reduce by that rule.
yytable == CArray(<<
    49,   37,  157,  125,   89,   41,  172,   84,   50,   84,   96,   28,
    47,  115,   36,  103,  189,  106,  108,  108,   75,   34,   36,   94,
    38,  190,   59,  127,   99,   61,   62,   63,  196,  197,   64,   65,
    39,  133,  134,  135,  136,  175,   42,   43,   44,   45,   46,  114,
    29,  126,  131,   89,  132,  205,   79,   40,   35,  185,   90,   91,
    92,   93,   95,  148,  214,  215,   97,  123,  124,  106,   55,  219,
    56,  102,   98,   60,  169,  186,  188,   57,   58,    1,    2,   47,
     3,   66,    4,    5,    6,   10,   67,    7, -116,    8,   48,  149,
   150,  151,  138,  221,  139,   68,   42,   43,   44,   45,   46,  152,
   128,  129,  130,  153,  154,    9,  140,   10,  139,  141,  142,  143,
   144,  170,  102,  171,  162,   11,   12,   13,   14,   15,   16,    2,
   200,    3,  171,    4,    5,    6,   69,   30,    7,   17,    8,   47,
    70,  176,   71,   72,   31,   73,   77,  149,  150,  151,  141,  142,
   143,  144,   76,  181,  182,   32,    9,  152,   10,   80,   78,  153,
   154,   47,  141,  142,  143,  144,   33,  174,   13,   14,   15,   16,
    81,   82,  203,  203,   83,   84,   86,   47,  110,  116,  117,  118,
   119,   10,  147,  120,  121,  122,  160,  158,  165,  218,  163,  164,
   168,  173,  178,  179,  184,  183,  193,  194,  198,  209,  199,  222,
   201,  212,   27,  211,  216,  109,  167,  204,  187,  213,  156,  220,
   159>>)

\* YYCHECK: the symbol (or state) a yytable entry is for.
yycheck == CArray(<<
    10,    5,  116,   99,   67,    9,  147,   33,   10,   33,   73,    5,
    64,   87,   64,   78,    9,   80,   81,   82,   50,    7,   64,   75,
    11,   18,   30,  101,   70,   33,   34,   35,   57,   58,   38,   39,
    14,   38,   39,   40,   41,  155,   23,   24,   25,   26,   27,   73,
    42,   73,   71,  114,   73,  194,   58,   16,   42,  171,   68,   69,
    70,   71,   72,   28,   31,   32,   76,   97,   98,  132,    0,  212,
    69,   77,   76,   64,  139,  173,  174,   69,   14,    3,    4,   64,
     6,   64,    8,    9,   10,   37,   36,   13,   74,   15,   75,   60,
    61,   62,   71,  213,   73,   70,   23,   24,   25,   26,   27,   72,
    44,   45,   46,   76,   77,   35,   71,   37,   73,   65,   66,   67,
    68,   71,  126,   73,  128,   47,   48,   49,   50,   51,   52,    4,
    71,    6,   73,    8,    9,   10,   70,    7,   13,   63,   15,   64,
    70,  155,   70,   70,   16,   19,   14,   60,   61,   62,   65,   66,
    67,   68,   73,  163,  164,   29,   35,   72,   37,   70,   74,   76,
    77,   64,   65,   66,   67,   68,   42,   70,   49,   50,   51,   52,
    70,   70,  192,  193,   12,   33,   64,   64,   70,   72,   71,   71,
    71,   37,   43,   71,   71,   71,   20,   71,   56,  211,   44,   44,
    70,   70,   22,   21,   66,   72,   22,   34,   71,   30,   71,   66,
    71,   43,    1,   73,   59,   82,  132,  193,  173,  208,  114,  212,
   126>>)

\* YYSTOS[STATE-NUM]: the symbol that is shifted or reduced to enter the state.
yystos == CArray(<<
     0,    3,    4,    6,    8,    9,   10,   13,   15,   35,   37,   47,
    48,   49,   50,   51,   52,   63,   79,   80,   81,   82,   83,   84,
    85,   87,   88,   80,    5,   42,    7,   16,   29,   42,    7,   42,
    64,  119,   11,   14,   16,  119,   23,   24,   25,   26,   27,   64,
    75,  105,  106,  107,  113,  119,  120,    0,   69,   69,   14,  119,
    64,  119,  119,  119,  119,  119,   64,   36,   70,   70,   70,   70,
    70,   19,  108,  108,   73,   14,   74,  119,   70,   70,   70,   12,
    33,   99,   64,  111,  112,  120,  105,  105,  105,  105,   75,  105,
   120,  105,  106,   70,  114,  115,  119,  120,   90,   92,  120,   91,
   120,   91,   70,   98,  104,  105,   73,   99,   72,   71,   71,   71,
    71,   71,   71,  108,  108,   88,   73,   99,   44,   45,   46,   71,
    73,   38,   39,   40,   41,   93,   71,   73,   71,   65,   66,   67,
    68,   94,   95,   43,   28,   60,   61,   62,   72,   76,   77,  109,
   112,   95,   71,  114,   20,  116,  119,   44,   44,   56,   86,   92,
    70,  120,   71,   73,   98,   70,   70,   95,  105,  110,   22,   21,
    97,  119,  119,   72,   66,   95,   88,   94,   88,    9,   18,  117,
   118,   22,   34,  102,   57,   58,   71,   71,   71,   71,   96,  105,
    96,   98,  101,  103,  106,   30,  100,   73,   43,  109,   31,   32,
    59,   89,  105,   98,  101,   95,   66>>)

\* YYR1[RULE-NUM]: symbol of the rule's left-hand side.
yyr1 == CArray(<<
     0,   78,   79,   79,   79,   79,   79,   80,   80,   80,   80,   80,
    80,   80,   81,   81,   81,   81,   82,   83,   83,   83,   84,   85,
    85,   85,   85,   85,   86,   86,   86,   87,   87,   87,   87,   88,
    89,   89,   90,   90,   91,   91,   92,   93,   93,   93,   93,   94,
    94,   95,   95,   95,   95,   95,   96,   96,   97,   97,   98,   98,
    98,   98,   99,   99,  100,  100,  100,  101,  102,  102,  103,  103,
   103,  103,  104,  104,  105,  105,  106,  106,  106,  106,  106,  106,
   107,  107,  107,  107,  108,  108,  109,  109,  109,  109,  109,  109,
   110,  110,  111,  111,  112,  113,  113,  114,  114,  114,  114,  114,
   115,  115,  116,  116,  117,  118,  118,  118,  119,  120>>)

\* YYR2[RULE-NUM]: number of symbols on the rule's right-hand side.
yyr2 == CArray(<<
     0,    2,    2,    3,    1,    1,    1,    1,    1,    1,    1,    1,
     1,    0,    1,    1,    1,    1,    2,    2,    3,    3,    4,    7,
     3,    2,    6,    6,    0,    3,    3,    7,    4,    5,    1,   10,
     2,    0,    1,    3,    1,    3,    2,    1,    1,    4,    1,    1,
     3,    1,    1,    1,    1,    0,    1,    3,    0,    3,    3,    5,
     5,    5,    0,    2,    0,    2,    2,    3,    0,    2,    1,    1,
     3,    3,    1,    3,    3,    1,    4,    4,    4,    4,    4,    4,
     2,    2,    4,    4,    2,    0,    1,    1,    1,    1,    1,    1,
     1,    1,    1,    3,    3,    1,    1,    1,    3,    3,    4,    4,
     1,    3,    3,    0,    2,    1,    1,    0,    1,    1>>)
=============================================================================
