-------------------------------- MODULE MCDriver ------------------------------
(* The definitions that TLC writes texts and commands from.                *)
EXTENDS Driver, ParsingTable

\* One letter stands for a keyword.
MCKeywords == <<"m">> :> "MAIN" @@ <<"i">> :> "INT" @@ <<"r">> :> "RETURN"
MCLetters  == {"m", "i", "r", "x", "n"}

-------------------------------------------------------------------------------
(* The items of the states, found by walking the table from state 0.       *)

\* The nonterminals a nonterminal may begin with.
RECURSIVE Reached(_)
Reached(S) ==
  LET more == S \cup {X \in Nonterminals : \E p \in DOMAIN PRODUCTIONS :
                        /\ PRODUCTIONS[p].LHS \in S
                        /\ PRODUCTIONS[p].RHS # <<>>
                        /\ PRODUCTIONS[p].RHS[1] = X}
  IN  IF more = S THEN S ELSE Reached(more)

Begins == [X \in Nonterminals |-> Reached({X})]

\* The symbol an item is in front of.
Met(i) ==
  LET RHS == PRODUCTIONS[i[1]].RHS IN IF i[2] < Len(RHS) THEN RHS[i[2] + 1] ELSE ""

AllItems ==
  UNION {{<<p, d>> : d \in 0 .. Len(PRODUCTIONS[p].RHS)} : p \in DOMAIN PRODUCTIONS}

Closure(K) ==
  LET met == UNION {Begins[X] : X \in Nonterminals \cap {Met(i) : i \in K}}
  IN  {i \in AllItems : i \in K \/ (i[2] = 0 /\ PRODUCTIONS[i[1]].LHS \in met)}

Moves(s) == {X \in DOMAIN PARSING_TABLE[s] : PARSING_TABLE[s][X].act \in {"SHIFT", "GOTO"}}

\* The states still to look at, and the items found.
RECURSIVE Walk(_, _)
Walk(todo, found) ==
  IF todo = {} THEN found
  ELSE LET s == CHOOSE s \in todo : TRUE
           to == [X \in Moves(s) |-> PARSING_TABLE[s][X].n]
           new == [t \in {to[X] : X \in Moves(s)} \ DOMAIN found |->
                     Closure({<<i[1], i[2] + 1>> :
                        i \in {j \in found[s] : Met(j) \in Moves(s) /\ to[Met(j)] = t}})]
       IN  Walk((todo \ {s}) \cup DOMAIN new, found @@ new)

ItemSets == Walk({0}, 0 :> Closure({<<0, 0>>}))

MCItems(s) == ItemSets[s]
MCTable    == PARSING_TABLE
MCProds    == PRODUCTIONS

-------------------------------------------------------------------------------
(* Sentences: all that a few tokens make within a bound for each symbol.   *)

SentenceTokens ==
  {"BoF", "EoF", "MAIN", "INT", "RETURN", "ID", "NUM", "CHARLIT", "COLON", "LPAREN",
   "RPAREN", "ARROW", "LCURLY", "RCURLY", "SEMI", "BECOMES", "SUB", "DECR", "OR"}

MaxLength(X) ==
  CASE X \in {"start", "procedures"} -> 14
    [] X = "main" -> 12
    [] X \in {"statement", "statements"} -> 4
    [] X = "procedure" -> 0
    [] OTHER -> 3

RECURSIVE Strings(_, _, _)
Strings(L, RHS, max) ==
  IF RHS = <<>> THEN {<<>>}
  ELSE LET heads == IF Head(RHS) \in Nonterminals THEN L[Head(RHS)] ELSE {<<Head(RHS)>>}
       IN  UNION {{h \o t : t \in Strings(L, Tail(RHS), max - Len(h))} :
                    h \in {x \in heads : Len(x) <= max}}

\* The productions of those tokens.
Usable ==
  {r \in {PRODUCTIONS[p] : p \in DOMAIN PRODUCTIONS} :
     Range(r.RHS) \subseteq SentenceTokens \cup Nonterminals}

RECURSIVE Grow(_, _)
Grow(L, prods) ==
  LET more == [X \in Nonterminals |->
                 UNION {Strings(L, r.RHS, MaxLength(X)) : r \in {q \in prods : q.LHS = X}}]
  IN  IF more = L THEN L ELSE Grow(more, prods)

Sentences == Grow([X \in Nonterminals |-> {}], Usable)["start"]

Viable ==
  UNION {{SubSeq(s, 1, k) : k \in 1 .. Len(s)} : s \in {Append(x, "DOLLAR") : x \in Sentences}}

\* A syntax error is found at the first token that no sentence goes on with: the
\* tokens up to the one reported do not begin a sentence.
RejectsAtFirstBadToken ==
  phase = "parse_threw" =>
    [k \in 1 .. token_idx |-> stream[k].type] \notin Viable

-------------------------------------------------------------------------------
(* Texts: short ones of the scanner's hard characters, and sentences with  *)
(* one character too many or too few. Commands: on a few texts.            *)

Spelling ==
  "BoF" :> <<>> @@ "EoF" :> <<>> @@ "MAIN" :> <<"m">> @@ "INT" :> <<"i", " ">>
    @@ "RETURN" :> <<"r", " ">> @@ "ID" :> <<"x">> @@ "NUM" :> <<"1">>
    @@ "CHARLIT" :> <<"'", "\\", "n", "'">> @@ "COLON" :> <<":">> @@ "LPAREN" :> <<"(">>
    @@ "RPAREN" :> <<")">> @@ "ARROW" :> <<"-", ">">> @@ "LCURLY" :> <<"{">>
    @@ "RCURLY" :> <<"}">> @@ "SEMI" :> <<";">> @@ "BECOMES" :> <<"=">>
    @@ "SUB" :> <<"-">> @@ "DECR" :> <<"-", "-">> @@ "OR" :> <<"|", "|">>

Spelled(s) == FlattenSeq([k \in DOMAIN s |-> Spelling[s[k]]])

Edits == {"x", "0", "-", "'", "#", "\n", " ", "=", ";", "\""}

Edited(t) ==
  {t} \cup {InsertAt(t, k, e) : k \in 1 .. Len(t) + 1, e \in Edits}
      \cup {RemoveAt(t, k) : k \in 1 .. Len(t)}

Edge == {"x", "0", "1", "-", "'", "\\", "n", "#", "\n", " ", "\""}

ShortTexts == UNION {[1 .. k -> Edge] : k \in 0 .. 4}

GoodText == Spelled(<<"MAIN", "COLON", "LPAREN", "RPAREN", "ARROW", "INT", "LCURLY", "RCURLY">>)

Body(s) == <<"LCURLY">> \o s \o <<"RCURLY">>

Returning(head, body) ==
  Spelled(head \o <<"COLON", "LPAREN", "RPAREN", "ARROW", "INT">> \o Body(body))

Call == <<"ID", "LPAREN", "RPAREN", "SEMI">>

\* A call of x without a procedure x, with one, and in one that another replaces.
CallingTexts ==
  {Returning(<<"MAIN">>, Call),
   Returning(<<"ID">>, <<>>) \o Returning(<<"MAIN">>, Call),
   <<"n">> \o Returning(<<>>, Call) \o <<"n">> \o Returning(<<>>, <<>>)
     \o Returning(<<"MAIN">>, <<>>)}

P   == <<"p">>
Xer == <<"p", "xer">>

Commands ==
  {<<>>, << <<"-o">> >>, <<Xer, P>>, <<Xer, <<"-O2">> >>, << <<"-O2">> >>,
   <<Xer, <<"-o">> >>, <<Xer, <<"-o">>, <<"-sc">> >>,
   <<Xer, <<"-o">>, P, <<"-o">>, P>>, << <<"q", "xer">> >>}
    \cup {<<f>> : f \in {P, Xer}}
    \cup {<<f, <<"-o">>, n>> : f \in {P, Xer}, n \in {P, Xer, <<"q">>, <<"p", "o">>, <<"p", "ll">>}}
    \cup {<< <<x>>, Xer>> : x \in FlagNames}
    \cup {<< <<x>>, Xer, <<y>> >> : x \in {"-sc", "-ir"}, y \in {"-co", "-no", "-sc"}}
    \cup {<<P, <<x>>, <<"-o">>, <<"q">> >> : x \in {"-co", "-pa"}}
    \cup {<<Xer, <<"-o">>, <<"p", "o">>, <<"-co">> >>, <<Xer, <<"-ir">>, <<"-o">>, <<"p", "ll">> >>}

Input(command, name, t) == [argv |-> command, source |-> [name |-> name, text |-> t]]

\* README.md's -co on a program, alone and with a flag that is not for output.
MCObjectInputs ==
  {Input(<<Xer>> \o flag, Xer, t) : flag \in {<< <<"-co">> >>, << <<"-no">>, <<"-co">> >>},
                                   t \in {GoodText} \cup CallingTexts}

MCInputs ==
  {Input(command, name, t) : command \in Commands, name \in {P, Xer},
                             t \in {<<>>, GoodText, <<"\"">>, <<"0", "0">>}
                                     \cup CallingTexts}
    \cup {Input(<<Xer>>, Xer, t) :
            t \in ShortTexts \cup {Spelled(s) : s \in Sentences}
                    \cup UNION {Edited(Spelled(s)) : s \in {x \in Sentences : Len(x) <= 13}}}

===============================================================================
