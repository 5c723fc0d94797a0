---------------------------------- MODULE Lalr --------------------------------
(***************************************************************************)
(* The loop of parse (parser/parser.cpp): it shifts the tokens of the      *)
(* stream and reduces handles as the parsing table says, until it accepts  *)
(* or throws. The table and the productions are parameters; PARSING_TABLE  *)
(* and PRODUCTIONS have the shape they have in ParsingTable. Only what the *)
(* loop does is here: the nodes made by a reduction are Ast's, ExprLower's *)
(* and Program's, and here the number of the production stands for them.   *)
(***************************************************************************)
EXTENDS TokenStream, SequencesExt

CONSTANTS
  Table,        \* PARSING_TABLE
  Prods,        \* PRODUCTIONS
  Items(_)      \* of a state: the productions under way there, and how far

\* The symbols the table has entries for; "" for what state 0 is entered by.
Symbols == (UNION {DOMAIN Table[s] : s \in DOMAIN Table}) \cup {""}

\* The table is one of an LR parser of these productions: a state is reached
\* by what its items have passed, starts what its items are about to meet and
\* reduces what it has passed. The end of the file is never shifted.
ASSUME TableAssumption ==
  /\ 0 \in DOMAIN Table
  /\ \A p \in DOMAIN Prods : Prods[p].RHS \in Seq(Symbols)
  /\ \A s \in DOMAIN Table :
       "DOLLAR" \in DOMAIN Table[s] => Table[s]["DOLLAR"].act # "SHIFT"

ASSUME ItemsAssumption ==
  /\ \A s \in DOMAIN Table : Items(s) \subseteq (DOMAIN Prods) \X Nat
  /\ \A i \in Items(0) : i[2] = 0
  /\ \A s \in DOMAIN Table : \A X \in DOMAIN Table[s] :
       /\ Table[s][X].act \in {"SHIFT", "GOTO"} =>
            /\ Table[s][X].n \in DOMAIN Table
            /\ \A i \in Items(Table[s][X].n) : i[2] > 0 =>
                 /\ <<i[1], i[2] - 1>> \in Items(s)
                 /\ Prods[i[1]].RHS[i[2]] = X
       /\ Table[s][X].act = "REDUCE" =>
            <<Table[s][X].n, Len(Prods[Table[s][X].n].RHS)>> \in Items(s)
  /\ \A s \in DOMAIN Table : \A i \in Items(s) : i[2] = 0 =>
       /\ Prods[i[1]].LHS \in DOMAIN Table[s]
       /\ Table[s][Prods[i[1]].LHS].act = "GOTO"

\* The symbols that are not tokens.
Nodes == {Prods[p].LHS : p \in DOMAIN Prods}

\* What is shifted is a token, and what is accepted is one "start" from the
\* first state on, with nothing behind it. No state goes back to the first.
ASSUME AcceptAssumption ==
  \A s \in DOMAIN Table : \A X \in DOMAIN Table[s] :
    LET e == Table[s][X]
    IN  /\ e.act \in {"SHIFT", "ACCEPT"} => X \notin Nodes
        /\ e.act = "ACCEPT" => X = "DOLLAR" /\ s # 0
        /\ e.act \in {"SHIFT", "GOTO"} =>
             /\ e.n # 0
             /\ \A Y \in DOMAIN Table[e.n] :
                  Table[e.n][Y].act = "ACCEPT" => s = 0 /\ X = "start"

VARIABLES
  stack,        \* the entries: state, and the symbol it was entered by
  token_idx,    \* of the lookahead, from 1
  made,         \* the productions reduced by: root, bottom up
  thrown,       \* what() of the exception that parse ends with, or ""
  reported      \* "Parser Error in Line" has been written

parseVars == <<stack, token_idx, made, thrown, reported>>
laVars == <<phase, stream, parseVars>>

-------------------------------------------------------------------------------
StackEntry(s, X) == [state |-> s, sym |-> X]

Entries == [state : DOMAIN Table, sym : Symbols]

Top(st) == st[Len(st)]

\* PARSING_TABLE[s][X].act, NIL where the table has no entry of its own
ActionOf(s, X) == IF X \in DOMAIN Table[s] THEN Table[s][X].act ELSE "NIL"

lookahead == stream[token_idx]

pte == Table[Top(stack).state][lookahead.type]

Acts(act) ==
  /\ phase = "parse"
  /\ token_idx <= Len(stream)
  /\ ActionOf(Top(stack).state, lookahead.type) = act

\* Mutant: only the walk to the left is thought of.
print_stream_lineLeft(i) ==
  \E l \in 1 .. i : stream[l].line_num # stream[i].line_num

\* print_stream_line walks from the token to the first one of another line on
\* either side, and past the end of the stream when there is none.
print_stream_line(i) ==
  /\ \E l \in 1 .. i : stream[l].line_num # stream[i].line_num
  /\ \E r \in i .. Len(stream) : stream[r].line_num # stream[i].line_num

\* The throws of the try block are caught there; of the report that the catch
\* makes only the line matters, and the throw at the end of parse follows.
\* When printing the line throws, that exception leaves parse in its place.
Throw(caught) ==
  /\ phase' = "parse_threw"
  /\ reported' = (caught /\ print_stream_line(token_idx))
  /\ thrown' = IF caught /\ ~print_stream_line(token_idx) THEN "out_of_range" ELSE "Out"
  /\ UNCHANGED <<stream, token_idx, made>>

Shift ==
  /\ Acts("SHIFT")
  /\ stack' = Append(stack, StackEntry(pte.n, lookahead.type))
  /\ token_idx' = token_idx + 1
  /\ UNCHANGED <<phase, stream, made, thrown, reported>>

\* Mutant: one entry too many stays, but for an empty right-hand side.
PoppedLess(st, p) ==
  SubSeq(st, 1, Len(st) - Len(Prods[p].RHS) + (IF Prods[p].RHS = <<>> THEN 0 ELSE 1))

\* What is left of the stack once the right-hand side is popped.
Popped(st, p) == SubSeq(st, 1, Len(st) - Len(Prods[p].RHS))

\* Mutant: the stack's first entry is thought to be the end.
ReducibleShort(st, p) ==
  /\ Len(st) > Len(Prods[p].RHS) + 1
  /\ ActionOf(Top(Popped(st, p)).state, Prods[p].LHS) = "GOTO"

\* None of the throws of a reduction, 163, 582 and 587: the stack is longer
\* than the right-hand side and the state below it has a GOTO entry.
Reducible(st, p) ==
  /\ Len(st) > Len(Prods[p].RHS)
  /\ ActionOf(Top(Popped(st, p)).state, Prods[p].LHS) = "GOTO"

Reduced(st, p) ==
  LET rest == Popped(st, p)
      LHS  == Prods[p].LHS
  IN  Append(rest, StackEntry(Table[Top(rest).state][LHS].n, LHS))

Reduce ==
  /\ Acts("REDUCE")
  /\ IF Reducible(stack, pte.n)
     THEN /\ stack' = Reduced(stack, pte.n)
          /\ made' = Append(made, pte.n)
          /\ UNCHANGED <<phase, stream, token_idx, thrown, reported>>
     ELSE Throw(TRUE) /\ UNCHANGED stack

Accept ==
  /\ Acts("ACCEPT")
  /\ phase' = "parsed"
  /\ UNCHANGED <<stream, parseVars>>

\* Mutant: a token that nothing is to be done with is skipped.
SyntaxErrorSkips ==
  /\ phase = "parse"
  /\ token_idx <= Len(stream)
  /\ ActionOf(Top(stack).state, lookahead.type) \in {"NIL", "GOTO"}
  /\ token_idx' = token_idx + 1
  /\ UNCHANGED <<phase, stream, stack, made, thrown, reported>>

\* The default of the switch: an error of syntax.
SyntaxError ==
  /\ phase = "parse"
  /\ token_idx <= Len(stream)
  /\ ActionOf(Top(stack).state, lookahead.type) \in {"NIL", "GOTO"}
  /\ Throw(TRUE)
  /\ UNCHANGED stack

LaNext == Shift \/ Reduce \/ Accept \/ SyntaxError

\* parse's locals, when it is called.
LaStart ==
  /\ stack = <<StackEntry(0, "")>>
  /\ token_idx = 1
  /\ made = <<>>
  /\ thrown = ""
  /\ reported = FALSE

\* What main hands over: the file's tokens between the marks, which have no line.
IsStream(str) ==
  /\ str \in Seq([type : Symbols, lexeme : Seq(STRING), line_num : Nat])
  /\ Len(str) >= 3
  /\ str[Len(str)].type = "DOLLAR"
  /\ \A k \in 1 .. Len(str) : str[k].line_num = 0 <=> k \in {1, Len(str) - 1, Len(str)}

\* parse alone, on any such stream.
LaSpec ==
  /\ phase = "parse" /\ IsStream(stream) /\ LaStart
  /\ [][LaNext]_laVars

-------------------------------------------------------------------------------
(* Properties.                                                             *)

LaTypeOK ==
  /\ stack \in Seq(Entries)
  /\ stack # <<>>
  /\ token_idx \in 1 .. Len(stream) + 1
  /\ made \in Seq(DOMAIN Prods)
  /\ thrown \in {"", "Out", "out_of_range"}
  /\ reported \in BOOLEAN

\* The three throws that "theoretically" cannot occur in a reduction (582, 587,
\* and the at of 163) do not: what is reduced is the right-hand side of the
\* production, with more below it, and there is an entry for what it becomes.
ReductionsMatch ==
  Acts("REDUCE") =>
    /\ Reducible(stack, pte.n)
    /\ \A k \in 1 .. Len(Prods[pte.n].RHS) :
         stack[Len(Popped(stack, pte.n)) + k].sym = Prods[pte.n].RHS[k]

\* What production p makes of a form in a step of a rightmost derivation.
Expanded(p, form) ==
  {SubSeq(form, 1, i - 1) \o Prods[p].RHS \o SubSeq(form, i + 1, Len(form)) :
     i \in {j \in 1 .. Len(form) :
             /\ form[j] = Prods[p].LHS
             /\ \A k \in j + 1 .. Len(form) : form[k] \notin Nodes}}

\* The forms after k steps with the reductions' productions, the last one first.
Derived[k \in 0 .. Len(made)] ==
  IF k = 0 THEN {<<"start">>}
  ELSE UNION {Expanded(made[Len(made) + 1 - k], form) : form \in Derived[k - 1]}

\* What is accepted is a sentence of the grammar, all the tokens of it: read
\* backwards, the reductions derive the tokens from the start symbol.
AcceptsOnlySentences ==
  phase = "parsed" =>
    /\ \A k \in 1 .. Len(stream) : stream[k].type \notin Nodes
    /\ \E form \in Derived[Len(made)] :
         form \o <<"DOLLAR">> = [k \in 1 .. Len(stream) |-> stream[k].type]

\* A syntax error is reported with the line of the token it is at. Only for one
\* at the end of the file is there no report (111-116 runs past the end of the
\* stream), and main says what at() says.
ErrorsReported ==
  phase = "parse_threw" =>
    /\ reported <=> lookahead.line_num > 0
    /\ reported <=> thrown = "Out"

===============================================================================
