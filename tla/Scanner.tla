-------------------------------- MODULE Scanner -------------------------------
(***************************************************************************)
(* scan (scanner/scanner.cpp): the automaton that cuts the text into       *)
(* tokens, one action per way round its loop. A text is a sequence of      *)
(* characters; keywords are given by the KEYWORDS constant, so that an     *)
(* instance may have shorter ones. Columns are printed and nothing else.   *)
(* The characters are ASCII: a byte of 128 or more is a negative index of  *)
(* the automaton's rows where char is signed, and no text here has one.    *)
(***************************************************************************)
EXTENDS TokenStream, SequencesExt

CONSTANTS
  Letters,    \* a-z, A-Z and '_'
  KEYWORDS,   \* from a lexeme to its token's type
  MaxNum      \* INT32_MAX

VARIABLES
  text,       \* the file's characters
  at,         \* the place in it of the next character to get
  state,      \* ScannerDFAState
  lexeme,
  line_num

scanVars == <<text, at, state, lexeme, line_num>>

Digits == {"0", "1", "2", "3", "4", "5", "6", "7", "8", "9"}

DigitValue ==
  LET digits == <<"0", "1", "2", "3", "4", "5", "6", "7", "8", "9">>
  IN  [d \in Digits |-> (CHOOSE k \in 1 .. 10 : digits[k] = d) - 1]

-------------------------------------------------------------------------------
(* The automaton. A state is named for the token it accepts.               *)

\* The characters that the SMT solver's input cannot have in a string.
Semicolon   == ";"
Comma       == ","
LeftCurly   == "{"
RightCurly  == "}"
Space       == " "
DoubleQuote == "\""

\* Operators and punctuation: from the state, on the character, to the state.
Operators ==
  {<<"START", ":", "COLON">>, <<"START", "(", "LPAREN">>, <<"START", ")", "RPAREN">>,
   <<"START", Semicolon, "SEMI">>,
   <<"START", LeftCurly, "LCURLY">>, <<"START", RightCurly, "RCURLY">>,
   <<"START", Comma, "COMMA">>, <<"START", "[", "LBRACK">>, <<"START", "]", "RBRACK">>,
   <<"START", "=", "BECOMES">>, <<"BECOMES", "=", "EQUALS">>, <<"START", "!", "NOT">>,
   <<"NOT", "=", "NEQ">>, <<"START", "~", "BITNOT">>, <<"START", "|", "BITOR">>,
   <<"BITOR", "|", "OR">>, <<"START", "&", "BITAND">>, <<"BITAND", "&", "AND">>,
   <<"START", ">", "GT">>, <<"GT", "=", "GEQ">>, <<"GT", ">", "RSHIFT">>,
   <<"START", "<", "LT">>, <<"LT", "=", "LEQ">>, <<"LT", "<", "LSHIFT">>,
   <<"START", "+", "PLUS">>, <<"PLUS", "+", "INCR">>, <<"START", "*", "MULT">>,
   <<"START", "@", "AT">>, <<"START", "$", "ADDR">>, <<"START", "/", "DIV">>,
   <<"START", "%", "MOD">>, <<"START", "^", "BITXOR">>, <<"BITXOR", "^", "EXP">>,
   <<"START", ".", "DOT">>, <<"START", "-", "SUB">>, <<"SUB", "-", "DECR">>,
   <<"SUB", ">", "ARROW">>}

\* "VT" stands for a vertical tab.
Blanks == {Space, "\t", "VT", "\r"}

\* "GRAVE" stands for a backquote, which a string here cannot have.
OtherPrintable == {Space, "#", "'", DoubleQuote, "\\", "?", "GRAVE"}

NoLetters == Digits \cup {x[2] : x \in Operators} \cup OtherPrintable

Printable == Letters \cup NoLetters

\* What may stand between two quotes; what a backslash may stand before.
Unquoted == Printable \ {"\\", DoubleQuote, "'", "?"}

Escapes == {"\\", DoubleQuote, "'", "?", "n", "t", "r", "b", "a", "0", "f", "v"}

\* isalpha or '_' takes none of the other characters, and no keyword is a number.
ASSUME LettersAssumption ==
  /\ Letters \cap (NoLetters \cup Blanks \cup {"\n"}) = {}
  /\ Range(KEYWORDS) \cap {"none", "begun", "NUM"} = {}

\* The states a quote leads through to CHARLIT.
Quoted == {"APOS", "APOSLASH", "NOT_CHARLIT"}

\* The state that the operator in state s goes on to with c, if there is one.
Onward(s, c) == {x[3] : x \in {y \in Operators : y[1] = s /\ y[2] = c}}

\* transitions[s][c]
transitions(s, c) ==
  CASE Onward(s, c) # {}                         -> CHOOSE t \in Onward(s, c) : TRUE
    [] s \in {"START", "ID"} /\ c \in Letters    -> "ID"
    [] s = "ID" /\ c \in Digits                  -> "ID"
    [] s \in {"START", "NUM"} /\ c \in Digits    -> "NUM"
    [] s = "START" /\ c = "'"                    -> "APOS"
    [] s = "APOS" /\ c = "\\"                    -> "APOSLASH"
    [] s = "APOS" /\ c \in Unquoted             -> "NOT_CHARLIT"
    [] s = "APOSLASH" /\ c \in Escapes           -> "NOT_CHARLIT"
    [] s = "NOT_CHARLIT" /\ c = "'"              -> "CHARLIT"
    [] OTHER                                     -> "ERROR"

\* static_cast<ParserSymbol>: after the accepting states the two enumerations
\* go on with START, APOS, APOSLASH, NOT_CHARLIT and with BoF, EoF, start,
\* procedures.
SymbolOf(s) ==
  CASE s = "APOS"        -> "EoF"
    [] s = "APOSLASH"    -> "start"
    [] s = "NOT_CHARLIT" -> "procedures"
    [] OTHER             -> s

\* Mutant: the begun literals are taken for tokens at the end as they are before.
is_accepting_stateAlways(s) == s # "START"

is_accepting_state(s) == s \notin Quoted \cup {"START"}

-------------------------------------------------------------------------------
Value(l) == FoldLeft(LAMBDA v, d : 10 * v + DigitValue[d], 0, l)

\* detect_num_error throws
NumError(l) == Value(l) > MaxNum \/ (l[1] = "0" /\ Len(l) > 1)

TokenType(s, l) ==
  IF s = "ID" /\ l \in DOMAIN KEYWORDS THEN KEYWORDS[l] ELSE SymbolOf(s)

Getting == phase = "scan" /\ at <= Len(text)

c == text[at]

Skips == c \in {"#", "\n"}

\* is.ignore: up to the next newline, and it too.
AfterLine(i) ==
  LET newlines == {j \in i .. Len(text) : text[j] = "\n"}
  IN  IF newlines = {} THEN Len(text) + 1
      ELSE 1 + CHOOSE j \in newlines : \A k \in newlines : j <= k

\* Mutant: the newline that a comment takes along is not counted.
SkipLineUncounted ==
  /\ Getting
  /\ Skips
  /\ at' = AfterLine(at)
  /\ line_num' = IF c = "#" THEN line_num ELSE line_num + 1
  /\ UNCHANGED <<phase, stream, text, state, lexeme>>

\* A newline or a comment, whatever token is under way.
SkipLine ==
  /\ Getting
  /\ Skips
  /\ at' = AfterLine(at)
  /\ line_num' = line_num + 1
  /\ UNCHANGED <<phase, stream, text, state, lexeme>>

\* Mutant: a blank is put back as the end of a token is.
SkipBlankPutBack ==
  /\ Getting
  /\ ~Skips
  /\ state = "START"
  /\ c \in Blanks
  /\ UNCHANGED <<phase, stream, scanVars>>

SkipBlank ==
  /\ Getting
  /\ ~Skips
  /\ state = "START"
  /\ c \in Blanks
  /\ at' = at + 1
  /\ UNCHANGED <<phase, stream, text, state, lexeme, line_num>>

\* The catch: the mark that tells main of the error.
LexerError ==
  /\ stream' = Append(stream, Mark("DOLLAR"))
  /\ phase' = "scanned"
  /\ UNCHANGED scanVars

InvalidStart ==
  /\ Getting
  /\ ~Skips
  /\ state = "START"
  /\ transitions(state, c) = "ERROR"
  /\ c \notin Blanks
  /\ LexerError

\* Mutant: the state is left as it was.
NewTokenInState ==
  /\ Getting
  /\ ~Skips
  /\ state # "START"
  /\ transitions(state, c) = "ERROR"
  /\ stream' = Append(stream, Token(TokenType(state, lexeme), lexeme, line_num))
  /\ lexeme' = <<>>
  /\ UNCHANGED <<phase, text, at, state, line_num>>

\* The character ends the token, and is put back.
NewToken ==
  /\ Getting
  /\ ~Skips
  /\ state # "START"
  /\ transitions(state, c) = "ERROR"
  /\ IF state = "NUM" /\ NumError(lexeme)
     THEN LexerError
     ELSE /\ stream' = Append(stream, Token(TokenType(state, lexeme), lexeme, line_num))
          /\ lexeme' = <<>>
          /\ state' = "START"
          /\ UNCHANGED <<phase, text, at, line_num>>

Transition ==
  /\ Getting
  /\ ~Skips
  /\ transitions(state, c) # "ERROR"
  /\ lexeme' = Append(lexeme, c)
  /\ state' = transitions(state, c)
  /\ at' = at + 1
  /\ UNCHANGED <<phase, stream, text, line_num>>

\* The leftovers; no catch is around their detect_num_error.
EndOfText ==
  /\ phase = "scan"
  /\ at > Len(text)
  /\ IF state = "NUM" /\ NumError(lexeme)
     THEN phase' = "scan_threw" /\ UNCHANGED stream
     ELSE /\ phase' = "scanned"
          /\ stream' =
               IF lexeme # <<>> /\ is_accepting_state(state)
               THEN Append(stream, Token(TokenType(state, lexeme), lexeme, line_num))
               ELSE stream
  /\ UNCHANGED scanVars

ScanNext ==
  SkipLine \/ SkipBlank \/ InvalidStart \/ NewToken \/ Transition \/ EndOfText

\* scan's locals, and the stream main gives it.
ScanInit ==
  /\ stream = <<Mark("BoF")>>
  /\ at = 1
  /\ state = "START"
  /\ lexeme = <<>>
  /\ line_num = 1

-------------------------------------------------------------------------------
(* What the tokens should be: the text without newlines and comments, cut  *)
(* over and over at the longest lexeme, whole or begun.                    *)

CharLiterals ==
  {<<"'", x, "'">> : x \in Unquoted}
    \cup {<<"'", "\\", x, "'">> : x \in Escapes}

BegunLiterals == UNION {{SubSeq(q, 1, k) : k \in 1 .. Len(q) - 1} : q \in CharLiterals}

\* The spelling of the operators, of one character and of two.
Spellings ==
  {<< <<x[2]>>, x[3]>> : x \in {y \in Operators : y[1] = "START"}}
    \cup {<< <<x[1][2], x[2][2]>>, x[2][3]>> :
            x \in {y \in Operators \X Operators : y[1][1] = "START" /\ y[1][3] = y[2][1]}}

\* The token that the characters are; "begun" for a part of a literal.
Kind(s) ==
  CASE s[1] \in Digits /\ Range(s) \subseteq Digits -> "NUM"
    [] s[1] \in Letters /\ Range(s) \subseteq Letters \cup Digits ->
         IF s \in DOMAIN KEYWORDS THEN KEYWORDS[s] ELSE "ID"
    [] s \in CharLiterals  -> "CHARLIT"
    [] s \in BegunLiterals -> "begun"
    [] Len(s) <= 2 /\ \E x \in Spellings : x[1] = s ->
         (CHOOSE x \in Spellings : x[1] = s)[2]
    [] OTHER -> "none"

Visible(i) ==
  /\ text[i] # "\n"
  /\ \A j \in 1 .. i : text[j] = "#" => \E k \in j .. i : text[k] = "\n"

\* The places of the visible characters, in their order. \o makes TLC evaluate
\* the function once and not at each use.
Places ==
  LET shown == {i \in 1 .. Len(text) : Visible(i)}
  IN  <<>> \o [k \in 1 .. Cardinality(shown) |->
         CHOOSE i \in shown : Cardinality({j \in shown : j <= i}) = k]

\* The characters from the i-th to the j-th of the places w, the ends of the
\* lexemes that begin with the i-th, and the token up to the j-th.
Chars(w, i, j) == [k \in 1 .. j - i + 1 |-> text[w[i + k - 1]]]

LexemeEnds(w, i) == {j \in i .. Len(w) : Kind(Chars(w, i, j)) # "none"}

Lexeme(w, i, j) == [type |-> Kind(Chars(w, i, j)), lexeme |-> Chars(w, i, j), last |-> w[j]]

NoNumber(t) ==
  t.type = "NUM" /\ (Value(t.lexeme) > MaxNum \/ IsStrictPrefix(<<"0">>, t.lexeme))

NoMore(ends) == [tokens |-> <<>>, ends |-> ends]

Before(t, rest) == [tokens |-> <<t>> \o rest.tokens, ends |-> rest.ends]

\* From each place of w on: the lexemes, each with its last place in the text,
\* and how the scan ends.
Cut(w) ==
  LET n == Len(w)
      From[i \in 1 .. n + 1] ==
        IF i > n THEN NoMore("well")
        ELSE IF text[w[i]] \in Blanks THEN From[i + 1]
        ELSE IF LexemeEnds(w, i) = {} THEN NoMore("error")
        ELSE LET j == Max(LexemeEnds(w, i))
                 t == Lexeme(w, i, j)
             IN  IF NoNumber(t) THEN NoMore(IF j = n THEN "throw" ELSE "error")
                 ELSE IF t.type = "begun" /\ j = n THEN NoMore("well")
                 ELSE Before(t, From[j + 1])
  IN  From

Meant == Cut(Places)[1]

\* The tokens of the text, when the scan has ended.
Scanned ==
  SubSeq(stream, 2, IF Last(stream).type = "DOLLAR" THEN Len(stream) - 1 ELSE Len(stream))

\* The tokens are the text's, up to the first error if it has one, and of a
\* character literal that is not one there is a token that no program has.
\* Only a literal unfinished at the end of the text goes unnoticed (259).
TokensAreTheText ==
  phase \in {"scanned", "scan_threw"} =>
    LET meant == Meant
    IN  /\ [k \in DOMAIN Scanned |-> Scanned[k].lexeme]
             = [k \in DOMAIN meant.tokens |-> meant.tokens[k].lexeme]
        /\ \A k \in DOMAIN Scanned :
             IF meant.tokens[k].type = "begun"
             THEN Scanned[k].type \in {"EoF", "start", "procedures"}
             ELSE Scanned[k].type = meant.tokens[k].type
        /\ (phase = "scan_threw") <=> (meant.ends = "throw")
        /\ (Last(stream).type = "DOLLAR") <=> (meant.ends = "error")

LineOf(i) == 1 + Cardinality({j \in 1 .. i - 1 : text[j] = "\n"})

\* A token's line, which the parser reports errors by, is the line it ends in,
\* except that the last token of a line may be given a later one: it is under
\* way until a character of another line ends it (213, 229).
LinesOfTokens ==
  phase = "scanned" =>
    LET meant == Meant
    IN  \A k \in DOMAIN meant.tokens :
          LET i == meant.tokens[k].last
          IN  \/ Scanned[k].line_num = LineOf(i)
              \/ /\ Scanned[k].line_num > LineOf(i)
                 /\ i < Len(text)
                 /\ text[i + 1] \in {"#", "\n"}
                 /\ \A j \in k + 1 .. Len(meant.tokens) :
                      LineOf(meant.tokens[j].last) > LineOf(i)

===============================================================================
