------------------------------ MODULE ParsingTable ----------------------------
(***************************************************************************)
(* parser_constants.h: the grammar's productions and the LALR(1) table,    *)
(* every entry of both. The table repeats itself wherever an expression, a *)
(* statement or a definition may begin; here those rows are given by what  *)
(* begins there, and the entries a row has of its own are Edges. States    *)
(* and productions have the numbers of the source.                         *)
(***************************************************************************)
EXTENDS Integers, Sequences

Nonterminals ==
  {"start", "procedures", "procedure", "main", "type", "star", "params",
   "paramlist", "dcls", "dcl", "statements", "statement", "ifs", "forprologue",
   "forepilogue", "expr1", "expr2", "expr3", "expr4", "expr5", "expr6",
   "expr7", "expr8", "expr9", "expr10", "expr11", "expr12", "expr13", "expr14",
   "args", "structdef"}

Terminals ==
  {"MAIN", "READ", "PRINT", "INT", "CHAR", "BOOL", "STRUCT", "VOID", "TRUE",
   "FALSE", "NIL", "NUM", "CHARLIT", "ID", "RETURN", "IF", "ELIF", "ELSE",
   "FOR", "WHILE", "BREAK", "DELETE", "NEW", "COLON", "LPAREN", "RPAREN",
   "SEMI", "LCURLY", "RCURLY", "COMMA", "LBRACK", "RBRACK", "BECOMES", "NOT",
   "OR", "AND", "GEQ", "GT", "LEQ", "LT", "EQUALS", "NEQ", "PLUS", "SUB",
   "MULT", "DIV", "MOD", "LSHIFT", "RSHIFT", "EXP", "BITOR", "BITXOR",
   "BITAND", "BITNOT", "AT", "ADDR", "INCR", "DECR", "ARROW", "DOT", "BoF",
   "EoF", "DOLLAR"}

\* Production p has the symbol and the right-hand side of PRODUCTIONS[p]. They
\* are grouped by symbol: the number of the first and the right-hand sides.
Rules ==
  << <<0, "start", << <<"BoF", "procedures", "EoF">> >> >>,
     <<1, "procedures", << <<"dcl", "SEMI", "procedures">>,
       <<"dcl", "BECOMES", "expr1", "SEMI", "procedures">>,
       <<"structdef", "procedures">>, <<"procedure", "procedures">>,
       <<"main">> >> >>,
     <<6, "procedure", << 
       <<"ID", "COLON", "LPAREN", "params", "RPAREN", "ARROW", "type", "LCURLY", "statements", "RCURLY">>,
       <<"ID", "COLON", "LPAREN", "params", "RPAREN", "ARROW", "VOID", "LCURLY", "statements", "RCURLY">> >> >>,
     <<8, "main", << 
       <<"MAIN", "COLON", "LPAREN", "RPAREN", "ARROW", "INT", "LCURLY", "statements", "RCURLY">> >> >>,
     <<9, "structdef", << <<"STRUCT", "ID", "LCURLY", "dcls", "RCURLY", "SEMI">> >> >>,
     <<10, "params", << <<>>, <<"paramlist">> >> >>,
     <<12, "paramlist", << <<"dcl">>, <<"dcl", "COMMA", "paramlist">> >> >>,
     <<14, "dcls", << <<"dcl", "SEMI">>, <<"dcl", "SEMI", "dcls">> >> >>,
     <<16, "dcl", << <<"type", "ID">> >> >>,
     <<17, "statements", << <<"statements", "statement">>, <<>> >> >>,
     <<19, "statement", << <<"dcl", "SEMI">>, <<"dcl", "BECOMES", "expr1", "SEMI">>,
       <<"expr1", "BECOMES", "expr1", "SEMI">>,
       <<"IF", "LPAREN", "expr1", "RPAREN", "LCURLY", "statements", "RCURLY", "ifs">>,
       <<"WHILE", "LPAREN", "expr1", "RPAREN", "LCURLY", "statements", "RCURLY">>,
       <<"FOR", "LPAREN", "forprologue", "SEMI", "expr1", "SEMI", "forepilogue", "RPAREN", "LCURLY", "statements", "RCURLY">>,
       <<"BREAK", "SEMI">>, <<"expr1", "SEMI">>,
       <<"DELETE", "expr1", "SEMI">>,
       <<"PRINT", "LPAREN", "args", "RPAREN", "SEMI">>,
       <<"RETURN", "expr1", "SEMI">>, <<"RETURN", "SEMI">> >> >>,
     <<31, "ifs", << <<>>,
       <<"ELIF", "LPAREN", "expr1", "RPAREN", "LCURLY", "statements", "RCURLY", "ifs">>,
       <<"ELSE", "LCURLY", "statements", "RCURLY">> >> >>,
     <<34, "forprologue", << <<"dcl", "BECOMES", "expr1">>, <<"expr1", "BECOMES", "expr1">> >> >>,
     <<36, "forepilogue", << <<"expr1", "BECOMES", "expr1">>, <<"expr1">> >> >>,
     <<38, "args", << <<"expr1">>, <<"expr1", "COMMA", "args">> >> >>,
     <<40, "type", << <<"INT", "star">>, <<"CHAR", "star">>, <<"BOOL", "star">>,
       <<"STRUCT", "ID", "star">> >> >>,
     <<44, "star", << <<>>, <<"AT", "star">> >> >>,
     <<46, "expr1", << <<"expr1", "OR", "expr2">>, <<"expr2">> >> >>,
     <<48, "expr2", << <<"expr2", "AND", "expr3">>, <<"expr3">> >> >>,
     <<50, "expr3", << <<"expr3", "BITOR", "expr4">>, <<"expr4">> >> >>,
     <<52, "expr4", << <<"expr4", "BITXOR", "expr5">>, <<"expr5">> >> >>,
     <<54, "expr5", << <<"expr5", "BITAND", "expr6">>, <<"expr6">> >> >>,
     <<56, "expr6", << <<"expr6", "EQUALS", "expr7">>, <<"expr6", "NEQ", "expr7">>,
       <<"expr7">> >> >>,
     <<59, "expr7", << <<"expr7", "LT", "expr8">>, <<"expr7", "LEQ", "expr8">>,
       <<"expr7", "GT", "expr8">>, <<"expr7", "GEQ", "expr8">>, <<"expr8">> >> >>,
     <<64, "expr8", << <<"expr8", "LSHIFT", "expr9">>, <<"expr8", "RSHIFT", "expr9">>,
       <<"expr9">> >> >>,
     <<67, "expr9", << <<"expr9", "PLUS", "expr10">>, <<"expr9", "SUB", "expr10">>,
       <<"expr10">> >> >>,
     <<70, "expr10", << <<"expr10", "MULT", "expr11">>, <<"expr10", "DIV", "expr11">>,
       <<"expr10", "MOD", "expr11">>, <<"expr11">> >> >>,
     <<74, "expr11", << <<"AT", "expr11">>, <<"ADDR", "expr11">>, <<"NOT", "expr11">>,
       <<"BITNOT", "expr11">>, <<"INCR", "expr11">>, <<"DECR", "expr11">>,
       <<"SUB", "expr11">>, <<"PLUS", "expr11">>, <<"expr12">> >> >>,
     <<83, "expr12", << <<"expr13", "EXP", "expr12">>, <<"expr13">> >> >>,
     <<85, "expr13", << <<"expr13", "INCR">>, <<"expr13", "DECR">>,
       <<"expr13", "ARROW", "ID">>, <<"expr13", "DOT", "ID">>, <<"expr14">> >> >>,
     <<90, "expr14", << <<"LPAREN", "expr1", "RPAREN">>, <<"ID">>, <<"TRUE">>, <<"FALSE">>,
       <<"NIL">>, <<"NUM">>, <<"CHARLIT">>, <<"READ", "LPAREN", "RPAREN">>,
       <<"ID", "LPAREN", "args", "RPAREN">>, <<"ID", "LPAREN", "RPAREN">>,
       <<"NEW", "type", "LBRACK", "NUM", "RBRACK">> >> >> >>

PRODUCTIONS ==
  [p \in 0 .. 100 |->
     LET r == CHOOSE r \in 1 .. Len(Rules) :
                /\ Rules[r][1] <= p
                /\ p < Rules[r][1] + Len(Rules[r][3])
     IN  [LHS |-> Rules[r][2], RHS |-> Rules[r][3][p - Rules[r][1] + 1]]]

-------------------------------------------------------------------------------
(* What an expression, a statement, a type and a definition begin with.    *)

Primary ==
  {<<"READ", 58>>, <<"TRUE", 53>>, <<"FALSE", 54>>, <<"NIL", 55>>,
   <<"NUM", 56>>, <<"CHARLIT", 57>>, <<"ID", 52>>, <<"NEW", 59>>,
   <<"LPAREN", 51>>}

Prefix ==
  {<<"NOT", 42>>, <<"PLUS", 47>>, <<"SUB", 46>>, <<"BITNOT", 43>>,
   <<"AT", 40>>, <<"ADDR", 41>>, <<"INCR", 44>>, <<"DECR", 45>>}

\* The state after an operand of each level: expr2 up to expr14.
AfterLevel == <<0, 30, 31, 32, 33, 34, 35, 36, 37, 38, 39, 48, 49, 50>>

Expr == <<"expr1", "expr2", "expr3", "expr4", "expr5", "expr6", "expr7",
          "expr8", "expr9", "expr10", "expr11", "expr12", "expr13", "expr14">>

\* An expression of level k: its own symbol's entry is the row's own.
BeginsExpr(k) ==
  Primary \cup (IF k <= 11 THEN Prefix ELSE {})
    \cup {<<Expr[j], AfterLevel[j]>> : j \in k + 1 .. 14}

BeginsType ==
  {<<"INT", 12>>, <<"CHAR", 13>>, <<"BOOL", 14>>, <<"STRUCT", 101>>,
   <<"type", 8>>}

BeginsStatement ==
  {<<"PRINT", 169>>, <<"RETURN", 170>>, <<"IF", 164>>, <<"FOR", 166>>,
   <<"WHILE", 165>>, <<"BREAK", 167>>, <<"DELETE", 168>>, <<"dcl", 162>>,
   <<"statement", 161>>, <<"expr1", 163>>}

BeginsDefinition ==
  {<<"MAIN", 11>>, <<"INT", 12>>, <<"CHAR", 13>>, <<"BOOL", 14>>,
   <<"STRUCT", 9>>, <<"ID", 10>>, <<"procedure", 6>>, <<"main", 7>>,
   <<"type", 8>>, <<"dcl", 4>>, <<"structdef", 5>>}

\* The states in which they may begin.
ExprStates ==
  << {17, 51, 98, 143, 157, 158, 159, 168, 170, 174, 175, 177, 178, 179, 182,
      199, 200, 201, 209, 210, 211, 220, 221, 226, 227, 232},
     {66},
     {67},
     {68},
     {69},
     {70},
     {71, 72},
     {73, 74, 75, 76},
     {77, 78},
     {79, 80},
     {40, 41, 42, 43, 44, 45, 46, 47, 81, 82, 83},
     {92} >>

StatementStates  == {157, 158, 159, 209, 210, 226, 227, 232}
DefinitionStates == {2, 5, 6, 16, 65}
TypeStates       == {60, 62, 138, 140, 179} \cup StatementStates

\* The other SHIFT and GOTO entries: in that state, on that symbol, to that one.
Edges ==
  {<<0, "BoF", 2>>, <<0, "start", 1>>, <<2, "procedures", 3>>,
   <<3, "EoF", 15>>, <<4, "SEMI", 16>>, <<4, "BECOMES", 17>>,
   <<5, "procedures", 18>>, <<6, "procedures", 19>>, <<8, "ID", 20>>,
   <<9, "ID", 21>>, <<10, "COLON", 22>>, <<11, "COLON", 23>>, <<12, "AT", 25>>,
   <<12, "star", 24>>, <<13, "AT", 25>>, <<13, "star", 26>>, <<14, "AT", 25>>,
   <<14, "star", 27>>, <<16, "procedures", 28>>, <<17, "expr1", 29>>,
   <<21, "LCURLY", 60>>, <<21, "AT", 25>>, <<21, "star", 61>>,
   <<22, "LPAREN", 62>>, <<23, "LPAREN", 63>>, <<25, "AT", 25>>,
   <<25, "star", 64>>, <<29, "SEMI", 65>>, <<29, "OR", 66>>, <<30, "AND", 67>>,
   <<31, "BITOR", 68>>, <<32, "BITXOR", 69>>, <<33, "BITAND", 70>>,
   <<34, "EQUALS", 71>>, <<34, "NEQ", 72>>, <<35, "GEQ", 76>>,
   <<35, "GT", 75>>, <<35, "LEQ", 74>>, <<35, "LT", 73>>, <<36, "LSHIFT", 77>>,
   <<36, "RSHIFT", 78>>, <<37, "PLUS", 79>>, <<37, "SUB", 80>>,
   <<38, "MULT", 81>>, <<38, "DIV", 82>>, <<38, "MOD", 83>>,
   <<40, "expr11", 84>>, <<41, "expr11", 85>>, <<42, "expr11", 86>>,
   <<43, "expr11", 87>>, <<44, "expr11", 88>>, <<45, "expr11", 89>>,
   <<46, "expr11", 90>>, <<47, "expr11", 91>>, <<49, "EXP", 92>>,
   <<49, "INCR", 93>>, <<49, "DECR", 94>>, <<49, "ARROW", 95>>,
   <<49, "DOT", 96>>, <<51, "expr1", 97>>, <<52, "LPAREN", 98>>,
   <<58, "LPAREN", 99>>, <<59, "INT", 12>>, <<59, "CHAR", 13>>,
   <<59, "BOOL", 14>>, <<59, "STRUCT", 101>>, <<59, "type", 100>>,
   <<60, "dcls", 102>>, <<60, "dcl", 103>>, <<62, "params", 104>>,
   <<62, "paramlist", 105>>, <<62, "dcl", 106>>, <<63, "RPAREN", 107>>,
   <<65, "procedures", 108>>, <<66, "expr2", 109>>, <<67, "expr3", 110>>,
   <<68, "expr4", 111>>, <<69, "expr5", 112>>, <<70, "expr6", 113>>,
   <<71, "expr7", 114>>, <<72, "expr7", 115>>, <<73, "expr8", 116>>,
   <<74, "expr8", 117>>, <<75, "expr8", 118>>, <<76, "expr8", 119>>,
   <<77, "expr9", 120>>, <<78, "expr9", 121>>, <<79, "expr10", 122>>,
   <<80, "expr10", 123>>, <<81, "expr11", 124>>, <<82, "expr11", 125>>,
   <<83, "expr11", 126>>, <<92, "expr12", 127>>, <<95, "ID", 128>>,
   <<96, "ID", 129>>, <<97, "RPAREN", 130>>, <<97, "OR", 66>>,
   <<98, "RPAREN", 132>>, <<98, "expr1", 133>>, <<98, "args", 131>>,
   <<99, "RPAREN", 134>>, <<100, "LBRACK", 135>>, <<101, "ID", 136>>,
   <<102, "RCURLY", 137>>, <<103, "SEMI", 138>>, <<104, "RPAREN", 139>>,
   <<106, "COMMA", 140>>, <<107, "ARROW", 141>>, <<109, "AND", 67>>,
   <<110, "BITOR", 68>>, <<111, "BITXOR", 69>>, <<112, "BITAND", 70>>,
   <<113, "EQUALS", 71>>, <<113, "NEQ", 72>>, <<114, "GEQ", 76>>,
   <<114, "GT", 75>>, <<114, "LEQ", 74>>, <<114, "LT", 73>>,
   <<115, "GEQ", 76>>, <<115, "GT", 75>>, <<115, "LEQ", 74>>,
   <<115, "LT", 73>>, <<116, "LSHIFT", 77>>, <<116, "RSHIFT", 78>>,
   <<117, "LSHIFT", 77>>, <<117, "RSHIFT", 78>>, <<118, "LSHIFT", 77>>,
   <<118, "RSHIFT", 78>>, <<119, "LSHIFT", 77>>, <<119, "RSHIFT", 78>>,
   <<120, "PLUS", 79>>, <<120, "SUB", 80>>, <<121, "PLUS", 79>>,
   <<121, "SUB", 80>>, <<122, "MULT", 81>>, <<122, "DIV", 82>>,
   <<122, "MOD", 83>>, <<123, "MULT", 81>>, <<123, "DIV", 82>>,
   <<123, "MOD", 83>>, <<131, "RPAREN", 142>>, <<133, "COMMA", 143>>,
   <<133, "OR", 66>>, <<135, "NUM", 144>>, <<136, "AT", 25>>,
   <<136, "star", 61>>, <<137, "SEMI", 145>>, <<138, "dcls", 146>>,
   <<138, "dcl", 103>>, <<139, "ARROW", 147>>, <<140, "paramlist", 148>>,
   <<140, "dcl", 106>>, <<141, "INT", 149>>, <<143, "expr1", 133>>,
   <<143, "args", 150>>, <<144, "RBRACK", 151>>, <<147, "INT", 12>>,
   <<147, "CHAR", 13>>, <<147, "BOOL", 14>>, <<147, "STRUCT", 101>>,
   <<147, "VOID", 153>>, <<147, "type", 152>>, <<149, "LCURLY", 154>>,
   <<152, "LCURLY", 155>>, <<153, "LCURLY", 156>>, <<154, "statements", 157>>,
   <<155, "statements", 158>>, <<156, "statements", 159>>,
   <<157, "RCURLY", 160>>, <<158, "RCURLY", 171>>, <<159, "RCURLY", 172>>,
   <<162, "SEMI", 173>>, <<162, "BECOMES", 174>>, <<163, "SEMI", 176>>,
   <<163, "BECOMES", 175>>, <<163, "OR", 66>>, <<164, "LPAREN", 177>>,
   <<165, "LPAREN", 178>>, <<166, "LPAREN", 179>>, <<167, "SEMI", 180>>,
   <<168, "expr1", 181>>, <<169, "LPAREN", 182>>, <<170, "SEMI", 184>>,
   <<170, "expr1", 183>>, <<174, "expr1", 185>>, <<175, "expr1", 186>>,
   <<177, "expr1", 187>>, <<178, "expr1", 188>>, <<179, "dcl", 190>>,
   <<179, "forprologue", 189>>, <<179, "expr1", 191>>, <<181, "SEMI", 192>>,
   <<181, "OR", 66>>, <<182, "expr1", 133>>, <<182, "args", 193>>,
   <<183, "SEMI", 194>>, <<183, "OR", 66>>, <<185, "SEMI", 195>>,
   <<185, "OR", 66>>, <<186, "SEMI", 196>>, <<186, "OR", 66>>,
   <<187, "RPAREN", 197>>, <<187, "OR", 66>>, <<188, "RPAREN", 198>>,
   <<188, "OR", 66>>, <<189, "SEMI", 199>>, <<190, "BECOMES", 200>>,
   <<191, "BECOMES", 201>>, <<191, "OR", 66>>, <<193, "RPAREN", 202>>,
   <<197, "LCURLY", 203>>, <<198, "LCURLY", 204>>, <<199, "expr1", 205>>,
   <<200, "expr1", 206>>, <<201, "expr1", 207>>, <<202, "SEMI", 208>>,
   <<203, "statements", 209>>, <<204, "statements", 210>>,
   <<205, "SEMI", 211>>, <<205, "OR", 66>>, <<206, "OR", 66>>,
   <<207, "OR", 66>>, <<209, "RCURLY", 212>>, <<210, "RCURLY", 213>>,
   <<211, "forepilogue", 214>>, <<211, "expr1", 215>>, <<212, "ELIF", 217>>,
   <<212, "ELSE", 218>>, <<212, "ifs", 216>>, <<214, "RPAREN", 219>>,
   <<215, "BECOMES", 220>>, <<215, "OR", 66>>, <<217, "LPAREN", 221>>,
   <<218, "LCURLY", 222>>, <<219, "LCURLY", 223>>, <<220, "expr1", 224>>,
   <<221, "expr1", 225>>, <<222, "statements", 226>>,
   <<223, "statements", 227>>, <<224, "OR", 66>>, <<225, "RPAREN", 228>>,
   <<225, "OR", 66>>, <<226, "RCURLY", 229>>, <<227, "RCURLY", 230>>,
   <<228, "LCURLY", 231>>, <<231, "statements", 232>>, <<232, "RCURLY", 233>>,
   <<233, "ELIF", 217>>, <<233, "ELSE", 218>>, <<233, "ifs", 234>>}

-------------------------------------------------------------------------------
(* What a reduction looks ahead to.                                        *)

\* What may follow an expression of level k, after which fewer operators bind.
OperatorsOf ==
  << {"RPAREN", "SEMI", "COMMA", "BECOMES"}, {"OR"}, {"AND"}, {"BITOR"},
     {"BITXOR"}, {"BITAND"}, {"EQUALS", "NEQ"}, {"GEQ", "GT", "LEQ", "LT"},
     {"LSHIFT", "RSHIFT"}, {"PLUS", "SUB"}, {"MULT", "DIV", "MOD"}, {},
     {"EXP", "INCR", "DECR", "ARROW", "DOT"} >>

AfterExpr(k) == UNION {OperatorsOf[j] : j \in 1 .. k}

StartsOfStatements ==
  {"RCURLY"}
    \cup (Terminals \cap {x[1] : x \in BeginsExpr(1) \cup BeginsType \cup BeginsStatement})

\* The REDUCE entries: the lookaheads, then states with their productions.
Reductions ==
  { <<{"EoF"},
       {<<7, 5>>, <<18, 3>>, <<19, 4>>, <<28, 1>>, <<108, 2>>, <<160, 8>>}>>,
    <<{"ID", "LCURLY", "LBRACK"},
       {<<12, 44>>, <<13, 44>>, <<14, 44>>, <<24, 40>>, <<25, 44>>,
        <<26, 41>>, <<27, 42>>, <<61, 43>>, <<64, 45>>, <<136, 44>>}>>,
    <<{"DOLLAR"},
       {<<15, 0>>}>>,
    <<AfterExpr(1),
       {<<20, 16>>}>>,
    <<{"ID"},
       {<<21, 44>>}>>,
    <<AfterExpr(2),
       {<<30, 47>>, <<109, 46>>}>>,
    <<AfterExpr(3),
       {<<31, 49>>, <<110, 48>>}>>,
    <<AfterExpr(4),
       {<<32, 51>>, <<111, 50>>}>>,
    <<AfterExpr(5),
       {<<33, 53>>, <<112, 52>>}>>,
    <<AfterExpr(6),
       {<<34, 55>>, <<113, 54>>}>>,
    <<AfterExpr(7),
       {<<35, 58>>, <<114, 56>>, <<115, 57>>}>>,
    <<AfterExpr(8),
       {<<36, 63>>, <<116, 59>>, <<117, 60>>, <<118, 61>>, <<119, 62>>}>>,
    <<AfterExpr(9),
       {<<37, 66>>, <<120, 64>>, <<121, 65>>}>>,
    <<AfterExpr(10),
       {<<38, 69>>, <<122, 67>>, <<123, 68>>}>>,
    <<AfterExpr(11),
       {<<39, 73>>, <<48, 82>>, <<49, 84>>, <<84, 74>>, <<85, 75>>,
        <<86, 76>>, <<87, 77>>, <<88, 78>>, <<89, 79>>, <<90, 80>>,
        <<91, 81>>, <<124, 70>>, <<125, 71>>, <<126, 72>>, <<127, 83>>}>>,
    <<AfterExpr(13),
       {<<50, 89>>, <<52, 91>>, <<53, 92>>, <<54, 93>>, <<55, 94>>,
        <<56, 95>>, <<57, 96>>, <<93, 85>>, <<94, 86>>, <<128, 87>>,
        <<129, 88>>, <<130, 90>>, <<132, 99>>, <<134, 97>>, <<142, 98>>,
        <<151, 100>>}>>,
    <<{"RPAREN"},
       {<<62, 10>>, <<105, 11>>, <<106, 12>>, <<133, 38>>, <<148, 13>>,
        <<150, 39>>, <<215, 37>>, <<224, 36>>}>>,
    <<{"RCURLY"},
       {<<138, 14>>, <<146, 15>>}>>,
    <<{"MAIN", "INT", "CHAR", "BOOL", "STRUCT", "ID"},
       {<<145, 9>>, <<171, 6>>, <<172, 7>>}>>,
    <<StartsOfStatements,
       {<<154, 18>>, <<155, 18>>, <<156, 18>>, <<161, 17>>, <<173, 19>>,
        <<176, 26>>, <<180, 25>>, <<184, 30>>, <<192, 27>>, <<194, 29>>,
        <<195, 20>>, <<196, 21>>, <<203, 18>>, <<204, 18>>, <<208, 28>>,
        <<212, 31>>, <<213, 23>>, <<216, 22>>, <<222, 18>>, <<223, 18>>,
        <<229, 33>>, <<230, 24>>, <<231, 18>>, <<233, 31>>, <<234, 32>>}>>,
    <<{"SEMI"},
       {<<206, 34>>, <<207, 35>>}>> }

-------------------------------------------------------------------------------
Entry(act, n) == [act |-> act, n |-> n]

States == 0 .. 234

NextStates(s) ==
  {<<e[2], e[3]>> : e \in {edge \in Edges : edge[1] = s}}
    \cup UNION {BeginsExpr(k) : k \in {j \in 1 .. 12 : s \in ExprStates[j]}}
    \cup (IF s \in TypeStates THEN BeginsType ELSE {})
    \cup (IF s \in StatementStates THEN BeginsStatement ELSE {})
    \cup (IF s \in DefinitionStates THEN BeginsDefinition ELSE {})

ReducesIn(s) == {r \in Reductions : \E x \in r[2] : x[1] = s}

\* PARSING_TABLE[s] without its NIL entries.
PARSING_TABLE ==
  [s \in States |->
     LET next    == NextStates(s)
         reduces == ReducesIn(s)
         moves   == {x[1] : x \in next}
         ahead   == UNION {r[1] : r \in reduces}
     IN  [X \in moves \cup ahead \cup (IF s = 1 THEN {"DOLLAR"} ELSE {}) |->
            IF X \in moves
            THEN Entry(IF X \in Terminals THEN "SHIFT" ELSE "GOTO",
                       (CHOOSE x \in next : x[1] = X)[2])
            ELSE IF X \in ahead
            THEN Entry("REDUCE", (CHOOSE x \in UNION {r[2] : r \in reduces} : x[1] = s)[2])
            ELSE Entry("ACCEPT", 0)]]

===============================================================================
