---------------------------- MODULE ScannerProofs -----------------------------
(***************************************************************************)
(* Whatever the texts and the commands: the tokens that scan makes are the *)
(* lexemes of the text, the longest first, up to the first error; and the  *)
(* line of each is the one it ends in, or one that no later token is in.   *)
(*                                                                         *)
(* The automaton has no look ahead, and the reference cuts at the longest  *)
(* lexeme: they agree because each prefix of a lexeme is one, whole or     *)
(* begun, or leads to one (ReadBefore), and the state tells which (Reads). *)
(* The reference is for the characters that are seen, the text without its *)
(* newlines and comments, and the scan is in the text: Rank says which of  *)
(* those characters it has come to.                                        *)
(***************************************************************************)
EXTENDS DriverProofs, FiniteSetTheorems

-------------------------------------------------------------------------------
(* The automaton, and the lexemes it reads.                                *)

\* The characters with a name are none of the others.
Named == {Semicolon, Comma, LeftCurly, RightCurly, Space, DoubleQuote}

Plainly == {":", "(", ")", "[", "]", "=", "!", "~", "|", "&", ">", "<", "+", "*", "@", "$",
            "/", "%", "^", ".", "-", "#", "'", "\\", "?", "GRAVE", "\t", "VT", "\r", "\n"} \cup Digits

LEMMA NamedApart ==
  /\ \A x \in Named : x \notin Plainly
  /\ Semicolon # Comma /\ Semicolon # LeftCurly /\ Semicolon # RightCurly
  /\ Semicolon # Space /\ Semicolon # DoubleQuote
  /\ Comma # LeftCurly /\ Comma # RightCurly /\ Comma # Space /\ Comma # DoubleQuote
  /\ LeftCurly # RightCurly /\ LeftCurly # Space /\ LeftCurly # DoubleQuote
  /\ RightCurly # Space /\ RightCurly # DoubleQuote /\ Space # DoubleQuote
BY ZenonT(60) DEF Named, Plainly, Digits, Semicolon, Comma, LeftCurly, RightCurly, Space, DoubleQuote

Mids == {"BECOMES", "NOT", "BITOR", "BITAND", "GT", "LT", "PLUS", "BITXOR", "SUB"}

Signs == {Semicolon, Comma, LeftCurly, RightCurly, ":", "(", ")", "[", "]", "=", "!", "~", "|",
          "&", ">", "<", "+", "*", "@", "$", "/", "%", "^", ".", "-"}

Finals == {"COLON", "LPAREN", "RPAREN", "SEMI", "LCURLY", "RCURLY", "COMMA", "LBRACK",
   "RBRACK", "EQUALS", "NEQ", "BITNOT", "OR", "AND", "GEQ", "RSHIFT", "LEQ", "LSHIFT", "INCR",
   "MULT", "AT", "ADDR", "DIV", "MOD", "EXP", "DOT", "DECR", "ARROW"}

Sane(a, b, d) ==
  /\ b \in Signs
  /\ \/ a = "START" /\ d \in Mids \cup Finals
     \/ a \in Mids /\ d \in Finals

LEMMA OperatorsSane == \A x \in Operators : Sane(x[1], x[2], x[3])
<1> DEFINE Good(x) == Sane(x[1], x[2], x[3])
<1>1. \A a, b, d : Sane(a, b, d) => Good(<<a, b, d>>)
  OBVIOUS
<1>2. \A a, b, d : a = "START" /\ b \in Signs /\ d \in Mids \cup Finals => Sane(a, b, d)
  BY DEF Sane
<1>3. \A a, b, d : a \in Mids /\ b \in Signs /\ d \in Finals => Sane(a, b, d)
  BY DEF Sane
<1> HIDE DEF Good
<1>4. \A x \in Operators : Good(x)
  BY <1>1, <1>2, <1>3, ZenonT(100) DEF Operators, Mids, Finals, Signs
<1> QED
  BY <1>4 DEF Good

LEMMA OperatorsFixed ==
  ASSUME NEW a, NEW b, NEW d, NEW e, <<a, b, d>> \in Operators, <<a, b, e>> \in Operators
  PROVE  d = e
BY NamedApart, SMTT(100) DEF Operators, Named, Plainly

LEMMA OperatorsTriples == \A x \in Operators : x = <<x[1], x[2], x[3]>>
<1> DEFINE Triple(x) == x = <<x[1], x[2], x[3]>>
<1>1. \A a, b, d : Triple(<<a, b, d>>)
  OBVIOUS
<1> HIDE DEF Triple
<1>2. \A x \in Operators : Triple(x)
  BY <1>1, ZenonT(60) DEF Operators
<1> QED
  BY <1>2 DEF Triple

\* One step of the automaton with an operator's character.
OpStep(s, ch, t) == <<s, ch, t>> \in Operators

LEMMA OpStepSane ==
  ASSUME NEW s, NEW ch, NEW t, OpStep(s, ch, t)
  PROVE  /\ ch \in Signs /\ ch \in NoLetters
         /\ (s = "START" /\ t \in Mids \cup Finals) \/ (s \in Mids /\ t \in Finals)
<1> DEFINE x == <<s, ch, t>>
<1>1. x \in Operators /\ x[1] = s /\ x[2] = ch /\ x[3] = t
  BY DEF OpStep
<1> HIDE DEF x
<1>2. Sane(s, ch, t)
  BY <1>1, OperatorsSane
<1>3. ch \in NoLetters
  BY <1>1 DEF NoLetters
<1> QED
  BY <1>2, <1>3 DEF Sane

LEMMA OnwardIs ==
  ASSUME NEW s, NEW ch
  PROVE  Onward(s, ch) = {t \in {x[3] : x \in Operators} : OpStep(s, ch, t)}
<1>1. ASSUME NEW t, t \in Onward(s, ch)
      PROVE  t \in {x[3] : x \in Operators} /\ OpStep(s, ch, t)
  <2>1. PICK x \in Operators : x[1] = s /\ x[2] = ch /\ x[3] = t
    BY <1>1 DEF Onward
  <2>2. x = <<x[1], x[2], x[3]>>
    BY OperatorsTriples
  <2> QED
    BY <2>1, <2>2 DEF OpStep
<1>2. ASSUME NEW t, OpStep(s, ch, t)
      PROVE  t \in Onward(s, ch)
  <2> DEFINE x == <<s, ch, t>>
  <2>1. x \in Operators /\ x[1] = s /\ x[2] = ch /\ x[3] = t
    BY <1>2 DEF OpStep
  <2> HIDE DEF x
  <2> QED
    BY <2>1 DEF Onward
<1> QED
  BY <1>1, <1>2

\* The moves that are not an operator's.
LexStep(s, ch, t) ==
  \/ t = "ID" /\ s \in {"START", "ID"} /\ ch \in Letters
  \/ t = "ID" /\ s = "ID" /\ ch \in Digits
  \/ t = "NUM" /\ s \in {"START", "NUM"} /\ ch \in Digits
  \/ t = "APOS" /\ s = "START" /\ ch = "'"
  \/ t = "APOSLASH" /\ s = "APOS" /\ ch = "\\"
  \/ t = "NOT_CHARLIT" /\ s = "APOS" /\ ch \in Unquoted
  \/ t = "NOT_CHARLIT" /\ s = "APOSLASH" /\ ch \in Escapes
  \/ t = "CHARLIT" /\ s = "NOT_CHARLIT" /\ ch = "'"

LEMMA LettersApart ==
  ASSUME NEW ch
  PROVE  /\ ch \in Letters => ch \notin NoLetters
         /\ ch \in Digits \cup OtherPrintable => ch \in NoLetters
         /\ ch \in Signs => ch \notin Digits /\ ch \notin OtherPrintable
         /\ ch \in Digits => ch \notin OtherPrintable
<1>1. Letters \cap NoLetters = {}
  BY LettersAssumption
<1>2. ch \in Signs => ch \notin Digits /\ ch \notin OtherPrintable
  BY NamedApart, SMTT(60) DEF Signs, Digits, OtherPrintable, Named, Plainly
<1>3. ch \in Digits => ch \notin OtherPrintable
  BY NamedApart, SMTT(60) DEF Digits, OtherPrintable, Named, Plainly
<1> QED
  BY <1>1, <1>2, <1>3 DEF NoLetters

LEMMA TransitionIs ==
  ASSUME NEW s, NEW ch
  PROVE  \/ OpStep(s, ch, transitions(s, ch)) /\ transitions(s, ch) # "ERROR"
         \/ LexStep(s, ch, transitions(s, ch)) /\ transitions(s, ch) # "ERROR"
         \/ /\ transitions(s, ch) = "ERROR"
            /\ \A t : ~OpStep(s, ch, t) /\ ~LexStep(s, ch, t)
<1>1. CASE Onward(s, ch) # {}
  <2> DEFINE O == Onward(s, ch)
  <2>5. PICK t \in O : OpStep(s, ch, t)
    BY <1>1, OnwardIs
  <2>6. ch \in Signs /\ ch \in NoLetters /\ s \in Mids \cup {"START"}
    BY <2>5, OpStepSane
  <2>7. ch \notin Letters /\ ch \notin Digits /\ ch # "'"
    <3>1. "'" \in OtherPrintable
      BY DEF OtherPrintable
    <3> QED
      BY <2>6, <3>1, LettersApart
  <2>8. s \notin {"ID", "NUM", "APOS", "APOSLASH", "NOT_CHARLIT"}
    BY <2>6 DEF Mids
  <2> HIDE DEF O
  <2>9. transitions(s, ch) = CHOOSE u \in O : TRUE
    BY <1>1, <2>7, <2>8, SMTT(40) DEF transitions, O
  <2>1. transitions(s, ch) \in Onward(s, ch)
    BY <2>5, <2>9 DEF O
  <2>2. OpStep(s, ch, transitions(s, ch))
    BY <2>1, OnwardIs
  <2>3. transitions(s, ch) \in Mids \cup Finals
    BY <2>2, OpStepSane
  <2>4. "ERROR" \notin Mids \cup Finals
    BY DEF Mids, Finals
  <2> QED
    BY <2>2, <2>3, <2>4
<1>2. CASE Onward(s, ch) = {}
  <2>1. \A t : ~OpStep(s, ch, t)
    <3>1. ASSUME NEW t, OpStep(s, ch, t) PROVE FALSE
      <4> DEFINE x == <<s, ch, t>>
      <4>1. x \in Operators /\ x[1] = s /\ x[2] = ch
        BY <3>1 DEF OpStep
      <4> HIDE DEF x
      <4> QED
        BY <4>1, <1>2 DEF Onward
    <3> QED
      BY <3>1
  <2> DEFINE t == transitions(s, ch)
  <2>2. \/ t = "ID" /\ s \in {"START", "ID"} /\ ch \in Letters
        \/ t = "ID" /\ s = "ID" /\ ch \in Digits
        \/ t = "NUM" /\ s \in {"START", "NUM"} /\ ch \in Digits
        \/ t = "APOS" /\ s = "START" /\ ch = "'"
        \/ t = "APOSLASH" /\ s = "APOS" /\ ch = "\\"
        \/ t = "NOT_CHARLIT" /\ s = "APOS" /\ ch \in Unquoted
        \/ t = "NOT_CHARLIT" /\ s = "APOSLASH" /\ ch \in Escapes
        \/ t = "CHARLIT" /\ s = "NOT_CHARLIT" /\ ch = "'"
        \/ /\ t = "ERROR"
           /\ ~(s \in {"START", "ID"} /\ ch \in Letters)
           /\ ~(s = "ID" /\ ch \in Digits)
           /\ ~(s \in {"START", "NUM"} /\ ch \in Digits)
           /\ ~(s = "START" /\ ch = "'")
           /\ ~(s = "APOS" /\ ch = "\\")
           /\ ~(s = "APOS" /\ ch \in Unquoted)
           /\ ~(s = "APOSLASH" /\ ch \in Escapes)
           /\ ~(s = "NOT_CHARLIT" /\ ch = "'")
    BY <1>2, SMTT(40) DEF transitions
  <2> HIDE DEF t
  <2>3. \/ LexStep(s, ch, t) /\ t # "ERROR"
        \/ t = "ERROR" /\ \A u : ~LexStep(s, ch, u)
    BY <2>2 DEF LexStep
  <2> QED
    BY <2>1, <2>3 DEF t
<1> QED
  BY <1>1, <1>2

-------------------------------------------------------------------------------
(* The lexemes, and the state in which the automaton has read them.        *)

Number(l)  == l # <<>> /\ \A k \in DOMAIN l : l[k] \in Digits
Name(l)    == l # <<>> /\ l[1] \in Letters /\ \A k \in DOMAIN l : l[k] \in Letters \cup Digits
Literal(l) == \/ \E x \in Unquoted : l = <<"'", x, "'">>
              \/ \E x \in Escapes : l = <<"'", "\\", x, "'">>

Begun(s, l) ==
  \/ s = "APOS" /\ l = <<"'">>
  \/ s = "APOSLASH" /\ l = <<"'", "\\">>
  \/ s = "NOT_CHARLIT" /\ \E x \in Unquoted : l = <<"'", x>>
  \/ s = "NOT_CHARLIT" /\ \E x \in Escapes : l = <<"'", "\\", x>>

Operator(s, l) ==
  \/ \E a : l = <<a>> /\ OpStep("START", a, s)
  \/ \E a, b, t : l = <<a, b>> /\ OpStep("START", a, t) /\ OpStep(t, b, s)

Reads(s, l) ==
  \/ s = "START" /\ l = <<>>
  \/ s = "NUM" /\ Number(l)
  \/ s = "ID" /\ Name(l)
  \/ s = "CHARLIT" /\ Literal(l)
  \/ Begun(s, l)
  \/ Operator(s, l)

Characters == STRING

Lexemes == Seq(Characters) \ {<<>>}

LEMMA QuoteApart ==
  /\ "'" \in OtherPrintable /\ "\\" \in OtherPrintable
  /\ "'" \notin Unquoted /\ "\\" \notin Unquoted
  /\ "a" \in Escapes
<1>1. "'" \in OtherPrintable /\ "\\" \in OtherPrintable
  BY DEF OtherPrintable
<1>2. "'" \notin Unquoted /\ "\\" \notin Unquoted
  BY DEF Unquoted
<1> QED
  BY <1>1, <1>2 DEF Escapes

LEMMA FirstCharacter ==
  ASSUME NEW l, NEW s
  PROVE  /\ Number(l) => l[1] \in Digits \/ DOMAIN l = {}
         /\ Name(l) => l[1] \in Letters
         /\ Literal(l) \/ Begun(s, l) => l[1] = "'"
         /\ Operator(s, l) => l[1] \in Signs /\ l[1] \in NoLetters
<1>1. Literal(l) \/ Begun(s, l) => l[1] = "'"
  BY DEF Literal, Begun
<1>2. Operator(s, l) => l[1] \in Signs /\ l[1] \in NoLetters
  BY OpStepSane DEF Operator
<1>3. Name(l) => l[1] \in Letters
  BY DEF Name
<1>4. Number(l) => l[1] \in Digits \/ DOMAIN l = {}
  BY DEF Number
<1> QED
  BY <1>1, <1>2, <1>3, <1>4

LEMMA LexemeFacts ==
  ASSUME NEW l \in Lexemes
  PROVE  Len(l) \in Nat /\ Len(l) >= 1 /\ DOMAIN l = 1 .. Len(l) /\ 1 \in DOMAIN l
BY DEF Lexemes

\* A literal that is not begun only is no part of another.
LEMMA WholeOrBegun ==
  ASSUME NEW l, NEW s, Literal(l), Begun(s, l)
  PROVE  FALSE
<1>1. CASE \E x \in Unquoted : l = <<"'", x, "'">>
  <2>1. PICK x \in Unquoted : l = <<"'", x, "'">>
    BY <1>1
  <2>2. Len(l) = 3 /\ l[2] = x
    BY <2>1
  <2>3. PICK y \in Escapes : l = <<"'", "\\", y>>
    BY <2>2, QuoteApart DEF Begun
  <2> QED
    BY <2>2, <2>3, QuoteApart
<1>2. CASE \E x \in Escapes : l = <<"'", "\\", x, "'">>
  <2>1. Len(l) = 4
    BY <1>2
  <2> QED
    BY <2>1 DEF Begun
<1> QED
  BY <1>1, <1>2 DEF Literal

LEMMA OneReading ==
  ASSUME NEW l \in Lexemes
  PROVE  /\ Number(l) => l[1] \in Digits
         /\ Name(l) => ~Number(l)
         /\ Literal(l) => ~Number(l) /\ ~Name(l)
         /\ \A s : Begun(s, l) => ~Number(l) /\ ~Name(l) /\ ~Literal(l)
         /\ \A s, t : Operator(s, l) => ~Number(l) /\ ~Name(l) /\ ~Literal(l) /\ ~Begun(t, l)
<1>1. 1 \in DOMAIN l
  BY LexemeFacts
<1>2. /\ Number(l) => l[1] \in Digits
      /\ Name(l) => l[1] \in Letters
      /\ Literal(l) => l[1] = "'"
  BY <1>1, FirstCharacter
<1>3. \A s : Begun(s, l) => l[1] = "'"
  BY FirstCharacter
<1>4. \A s : Operator(s, l) => l[1] \in Signs /\ l[1] \in NoLetters
  BY FirstCharacter
<1>5. "'" \in OtherPrintable
  BY QuoteApart
<1>6. \A s : Begun(s, l) => ~Literal(l)
  BY WholeOrBegun
<1> QED
  BY <1>2, <1>3, <1>4, <1>5, <1>6, LettersApart

LEMMA OperatorFixed ==
  ASSUME NEW l, NEW s, NEW t, Operator(s, l), Operator(t, l)
  PROVE  s = t
<1>1. CASE \E a : l = <<a>> /\ OpStep("START", a, s)
  <2>1. PICK a : l = <<a>> /\ OpStep("START", a, s)
    BY <1>1
  <2>2. Len(l) = 1 /\ l[1] = a
    BY <2>1
  <2>3. OpStep("START", a, t)
    BY <2>2 DEF Operator
  <2> QED
    BY <2>1, <2>3, OperatorsFixed DEF OpStep
<1>2. CASE \E a, b, u : l = <<a, b>> /\ OpStep("START", a, u) /\ OpStep(u, b, s)
  <2>1. PICK a, b, u : l = <<a, b>> /\ OpStep("START", a, u) /\ OpStep(u, b, s)
    BY <1>2
  <2>2. Len(l) = 2 /\ l[1] = a /\ l[2] = b
    BY <2>1
  <2>3. PICK v : OpStep("START", a, v) /\ OpStep(v, b, t)
    BY <2>2 DEF Operator
  <2>4. u = v
    BY <2>1, <2>3, OperatorsFixed DEF OpStep
  <2> QED
    BY <2>1, <2>3, <2>4, OperatorsFixed DEF OpStep
<1> QED
  BY <1>1, <1>2 DEF Operator

LEMMA SpellingsAre ==
  /\ \A x \in Spellings : Operator(x[2], x[1])
  /\ \A l, s : Operator(s, l) => \E x \in Spellings : x[1] = l /\ x[2] = s
<1>1. ASSUME NEW x \in Spellings
      PROVE  Operator(x[2], x[1])
  <2>1. CASE x \in {<< <<y[2]>>, y[3]>> : y \in {z \in Operators : z[1] = "START"}}
    <3>1. PICK y \in Operators : y[1] = "START" /\ x = << <<y[2]>>, y[3]>>
      BY <2>1
    <3>2. OpStep("START", y[2], y[3])
      BY <3>1, OperatorsTriples DEF OpStep
    <3>3. x[1] = <<y[2]>> /\ x[2] = y[3]
      BY <3>1
    <3> QED
      BY <3>2, <3>3 DEF Operator
  <2>2. CASE x \in {<< <<y[1][2], y[2][2]>>, y[2][3]>> :
                      y \in {z \in Operators \X Operators : z[1][1] = "START" /\ z[1][3] = z[2][1]}}
    <3>1. PICK y \in Operators \X Operators :
             /\ y[1][1] = "START" /\ y[1][3] = y[2][1]
             /\ x = << <<y[1][2], y[2][2]>>, y[2][3]>>
      BY <2>2
    <3> DEFINE p == y[1]
               q == y[2]
    <3>2. p \in Operators /\ q \in Operators /\ p[1] = "START" /\ p[3] = q[1]
      BY <3>1
    <3>3. x[1] = <<p[2], q[2]>> /\ x[2] = q[3]
      BY <3>1
    <3> HIDE DEF p, q
    <3>4. OpStep("START", p[2], q[1]) /\ OpStep(q[1], q[2], q[3])
      BY <3>2, OperatorsTriples DEF OpStep
    <3> QED
      BY <3>3, <3>4 DEF Operator
  <2> QED
    BY <2>1, <2>2 DEF Spellings
<1>2. ASSUME NEW l, NEW s, Operator(s, l)
      PROVE  \E x \in Spellings : x[1] = l /\ x[2] = s
  <2>1. ASSUME NEW a, l = <<a>>, OpStep("START", a, s)
        PROVE  \E x \in Spellings : x[1] = l /\ x[2] = s
    <3> DEFINE y == <<"START", a, s>>
               x == << <<y[2]>>, y[3]>>
    <3>1. y \in {z \in Operators : z[1] = "START"} /\ y[2] = a /\ y[3] = s
      BY <2>1 DEF OpStep
    <3> HIDE DEF y
    <3>2. x \in Spellings
      BY <3>1 DEF Spellings
    <3>3. x[1] = l /\ x[2] = s
      BY <3>1, <2>1
    <3> QED
      BY <3>2, <3>3
  <2>2. ASSUME NEW a, NEW b, NEW t, l = <<a, b>>, OpStep("START", a, t), OpStep(t, b, s)
        PROVE  \E x \in Spellings : x[1] = l /\ x[2] = s
    <3> DEFINE p == <<"START", a, t>>
               q == <<t, b, s>>
               y == <<p, q>>
               x == << <<y[1][2], y[2][2]>>, y[2][3]>>
    <3>1. p \in Operators /\ p[1] = "START" /\ p[2] = a /\ p[3] = t
      BY <2>2 DEF OpStep
    <3>2. q \in Operators /\ q[1] = t /\ q[2] = b /\ q[3] = s
      BY <2>2 DEF OpStep
    <3> HIDE DEF p, q
    <3>3. y \in Operators \X Operators /\ y[1] = p /\ y[2] = q
      BY <3>1, <3>2
    <3> HIDE DEF y
    <3>4. x \in Spellings
      BY <3>1, <3>2, <3>3 DEF Spellings
    <3>5. x[1] = l /\ x[2] = s
      BY <3>1, <3>2, <3>3, <2>2
    <3> QED
      BY <3>4, <3>5
  <2> QED
    BY <1>2, <2>1, <2>2 DEF Operator
<1> QED
  BY <1>1, <1>2

LEMMA LiteralsAre ==
  ASSUME NEW l
  PROVE  l \in CharLiterals <=> Literal(l)
BY DEF CharLiterals, Literal

LEMMA TupleIs ==
  ASSUME NEW S, NEW r \in Seq(S)
  PROVE  /\ Len(r) = 1 => r = <<r[1]>>
         /\ Len(r) = 2 => r = <<r[1], r[2]>>
         /\ Len(r) = 3 => r = <<r[1], r[2], r[3]>>
         /\ Len(r) = 4 => r = <<r[1], r[2], r[3], r[4]>>
OBVIOUS

LEMMA FirstPart ==
  ASSUME NEW S, NEW q \in Seq(S), NEW k \in 1 .. Len(q)
  PROVE  /\ SubSeq(q, 1, k) \in Seq(S) /\ Len(SubSeq(q, 1, k)) = k
         /\ \A i \in 1 .. k : SubSeq(q, 1, k)[i] = q[i]
OBVIOUS

LEMMA FirstOfThree ==
  ASSUME NEW a, NEW b, NEW d, NEW q, q = <<a, b, d>>
  PROVE  /\ SubSeq(q, 1, 1) = <<a>> /\ SubSeq(q, 1, 2) = <<a, b>> /\ Len(q) = 3
<1> DEFINE S == {a, b, d}
<1>1. q \in Seq(S) /\ Len(q) = 3 /\ q[1] = a /\ q[2] = b
  OBVIOUS
<1> HIDE DEF S
<1>2. 1 \in 1 .. Len(q) /\ 2 \in 1 .. Len(q)
  BY <1>1
<1>3. SubSeq(q, 1, 1) \in Seq(S) /\ Len(SubSeq(q, 1, 1)) = 1 /\ \A i \in 1 .. 1 : SubSeq(q, 1, 1)[i] = q[i]
  BY ONLY <1>1, <1>2, FirstPart
<1>4. SubSeq(q, 1, 2) \in Seq(S) /\ Len(SubSeq(q, 1, 2)) = 2 /\ \A i \in 1 .. 2 : SubSeq(q, 1, 2)[i] = q[i]
  BY ONLY <1>1, <1>2, FirstPart
<1>5. SubSeq(q, 1, 1) = <<SubSeq(q, 1, 1)[1]>>
  BY ONLY <1>3, TupleIs
<1>6. SubSeq(q, 1, 2) = <<SubSeq(q, 1, 2)[1], SubSeq(q, 1, 2)[2]>>
  BY ONLY <1>4, TupleIs
<1>7. SubSeq(q, 1, 1)[1] = a /\ SubSeq(q, 1, 2)[1] = a /\ SubSeq(q, 1, 2)[2] = b
  BY ONLY <1>1, <1>3, <1>4
<1> QED
  BY ONLY <1>1, <1>5, <1>6, <1>7

LEMMA FirstOfFour ==
  ASSUME NEW a, NEW b, NEW d, NEW e, NEW q, q = <<a, b, d, e>>
  PROVE  /\ SubSeq(q, 1, 1) = <<a>> /\ SubSeq(q, 1, 2) = <<a, b>>
         /\ SubSeq(q, 1, 3) = <<a, b, d>> /\ Len(q) = 4
<1> DEFINE S == {a, b, d, e}
<1>1. q \in Seq(S) /\ Len(q) = 4 /\ q[1] = a /\ q[2] = b /\ q[3] = d
  OBVIOUS
<1> HIDE DEF S
<1>2. 1 \in 1 .. Len(q) /\ 2 \in 1 .. Len(q) /\ 3 \in 1 .. Len(q)
  BY <1>1
<1>3. SubSeq(q, 1, 1) \in Seq(S) /\ Len(SubSeq(q, 1, 1)) = 1 /\ \A i \in 1 .. 1 : SubSeq(q, 1, 1)[i] = q[i]
  BY ONLY <1>1, <1>2, FirstPart
<1>4. SubSeq(q, 1, 2) \in Seq(S) /\ Len(SubSeq(q, 1, 2)) = 2 /\ \A i \in 1 .. 2 : SubSeq(q, 1, 2)[i] = q[i]
  BY ONLY <1>1, <1>2, FirstPart
<1>5. SubSeq(q, 1, 3) \in Seq(S) /\ Len(SubSeq(q, 1, 3)) = 3 /\ \A i \in 1 .. 3 : SubSeq(q, 1, 3)[i] = q[i]
  BY ONLY <1>1, <1>2, FirstPart
<1>6. SubSeq(q, 1, 1) = <<SubSeq(q, 1, 1)[1]>>
  BY ONLY <1>3, TupleIs
<1>7. SubSeq(q, 1, 2) = <<SubSeq(q, 1, 2)[1], SubSeq(q, 1, 2)[2]>>
  BY ONLY <1>4, TupleIs
<1>8. SubSeq(q, 1, 3) = <<SubSeq(q, 1, 3)[1], SubSeq(q, 1, 3)[2], SubSeq(q, 1, 3)[3]>>
  BY ONLY <1>5, TupleIs
<1>9. /\ SubSeq(q, 1, 1)[1] = a /\ SubSeq(q, 1, 2)[1] = a /\ SubSeq(q, 1, 2)[2] = b
      /\ SubSeq(q, 1, 3)[1] = a /\ SubSeq(q, 1, 3)[2] = b /\ SubSeq(q, 1, 3)[3] = d
  BY ONLY <1>1, <1>3, <1>4, <1>5
<1> QED
  BY ONLY <1>1, <1>6, <1>7, <1>8, <1>9

\* The parts of a literal.
LEMMA PartsOf ==
  ASSUME NEW q, NEW l, q \in CharLiterals
  PROVE  l \in {SubSeq(q, 1, k) : k \in 1 .. Len(q) - 1} => \E s : Begun(s, l)
<1>1. CASE \E x \in Unquoted : q = <<"'", x, "'">>
  <2>1. PICK x \in Unquoted : q = <<"'", x, "'">>
    BY <1>1
  <2>2. SubSeq(q, 1, 1) = <<"'">> /\ SubSeq(q, 1, 2) = <<"'", x>> /\ Len(q) = 3
    BY <2>1, FirstOfThree
  <2>3. l \in {SubSeq(q, 1, k) : k \in 1 .. Len(q) - 1} => l = <<"'">> \/ l = <<"'", x>>
    <3>1. \A k \in 1 .. Len(q) - 1 : k = 1 \/ k = 2
      BY <2>2
    <3> QED
      BY ONLY <2>2, <3>1, Zenon
  <2>4. Begun("APOS", <<"'">>) /\ Begun("NOT_CHARLIT", <<"'", x>>)
    BY DEF Begun
  <2> QED
    BY <2>3, <2>4
<1>2. CASE \E x \in Escapes : q = <<"'", "\\", x, "'">>
  <2>1. PICK x \in Escapes : q = <<"'", "\\", x, "'">>
    BY <1>2
  <2>2. SubSeq(q, 1, 1) = <<"'">> /\ SubSeq(q, 1, 2) = <<"'", "\\">>
        /\ SubSeq(q, 1, 3) = <<"'", "\\", x>> /\ Len(q) = 4
    BY <2>1, FirstOfFour
  <2>3. l \in {SubSeq(q, 1, k) : k \in 1 .. Len(q) - 1}
          => l = <<"'">> \/ l = <<"'", "\\">> \/ l = <<"'", "\\", x>>
    <3>1. \A k \in 1 .. Len(q) - 1 : k = 1 \/ k = 2 \/ k = 3
      BY <2>2
    <3> QED
      BY ONLY <2>2, <3>1, Zenon
  <2>4. /\ Begun("APOS", <<"'">>) /\ Begun("APOSLASH", <<"'", "\\">>)
        /\ Begun("NOT_CHARLIT", <<"'", "\\", x>>)
    BY DEF Begun
  <2> QED
    BY <2>3, <2>4
<1> QED
  BY <1>1, <1>2, LiteralsAre DEF Literal

LEMMA PartIn ==
  ASSUME NEW q, NEW k, q \in CharLiterals, k \in 1 .. Len(q) - 1
  PROVE  SubSeq(q, 1, k) \in BegunLiterals
BY DEF BegunLiterals

LEMMA BegunAre ==
  ASSUME NEW l
  PROVE  l \in BegunLiterals <=> \E s : Begun(s, l)
<1>1. ASSUME l \in BegunLiterals PROVE \E s : Begun(s, l)
  <2>1. PICK q \in CharLiterals : l \in {SubSeq(q, 1, k) : k \in 1 .. Len(q) - 1}
    BY <1>1 DEF BegunLiterals
  <2> QED
    BY <2>1, PartsOf
<1>2. ASSUME NEW x \in Unquoted
      PROVE  <<"'", x>> \in BegunLiterals
  <2> DEFINE q == <<"'", x, "'">>
  <2>3. q \in CharLiterals
    BY DEF CharLiterals
  <2>4. SubSeq(q, 1, 2) = <<"'", x>> /\ Len(q) = 3
    BY FirstOfThree
  <2>1. q \in CharLiterals /\ 2 \in 1 .. Len(q) - 1 /\ SubSeq(q, 1, 2) = <<"'", x>>
    BY ONLY <2>3, <2>4
  <2> HIDE DEF q
  <2>2. SubSeq(q, 1, 2) \in BegunLiterals
    BY ONLY <2>1, PartIn
  <2> QED
    BY <2>1, <2>2
<1>3. ASSUME NEW x \in Escapes
      PROVE  /\ <<"'">> \in BegunLiterals /\ <<"'", "\\">> \in BegunLiterals
             /\ <<"'", "\\", x>> \in BegunLiterals
  <2> DEFINE q == <<"'", "\\", x, "'">>
  <2>3. q \in CharLiterals
    BY DEF CharLiterals
  <2>4. /\ SubSeq(q, 1, 1) = <<"'">> /\ Len(q) = 4
        /\ SubSeq(q, 1, 2) = <<"'", "\\">> /\ SubSeq(q, 1, 3) = <<"'", "\\", x>>
    BY FirstOfFour
  <2>1. /\ q \in CharLiterals /\ 1 \in 1 .. Len(q) - 1 /\ 2 \in 1 .. Len(q) - 1
        /\ 3 \in 1 .. Len(q) - 1 /\ SubSeq(q, 1, 1) = <<"'">>
        /\ SubSeq(q, 1, 2) = <<"'", "\\">> /\ SubSeq(q, 1, 3) = <<"'", "\\", x>>
    BY ONLY <2>3, <2>4
  <2> HIDE DEF q
  <2>2. /\ SubSeq(q, 1, 1) \in BegunLiterals /\ SubSeq(q, 1, 2) \in BegunLiterals
        /\ SubSeq(q, 1, 3) \in BegunLiterals
    BY ONLY <2>1, PartIn
  <2> QED
    BY <2>1, <2>2
<1> QED
  BY <1>1, <1>2, <1>3, QuoteApart DEF Begun

\* What the reference takes the characters for.
LEMMA KindIs ==
  ASSUME NEW l \in Lexemes
  PROVE  /\ Number(l) => Kind(l) = "NUM"
         /\ Name(l) => Kind(l) = IF l \in DOMAIN KEYWORDS THEN KEYWORDS[l] ELSE "ID"
         /\ Literal(l) => Kind(l) = "CHARLIT"
         /\ \A s : Begun(s, l) => Kind(l) = "begun"
         /\ \A s : Operator(s, l) => Kind(l) = s
         /\ ~Number(l) /\ ~Name(l) /\ ~Literal(l)
              /\ (\A s : ~Begun(s, l) /\ ~Operator(s, l)) => Kind(l) = "none"
<1> DEFINE W == IF l \in DOMAIN KEYWORDS THEN KEYWORDS[l] ELSE "ID"
           O == (CHOOSE x \in Spellings : x[1] = l)[2]
           P1 == l[1] \in Digits /\ Range(l) \subseteq Digits
           P2 == l[1] \in Letters /\ Range(l) \subseteq Letters \cup Digits
           P5 == Len(l) <= 2 /\ \E x \in Spellings : x[1] = l
<1>1. P1 <=> Number(l)
  BY LexemeFacts DEF Number, Range, Lexemes
<1>2. P2 <=> Name(l)
  BY LexemeFacts DEF Name, Range, Lexemes
<1>3. P5 <=> \E s : Operator(s, l)
  <2>1. ASSUME NEW s, Operator(s, l) PROVE Len(l) <= 2
    BY <2>1 DEF Operator
  <2>2. (\E x \in Spellings : x[1] = l) <=> \E s : Operator(s, l)
    BY SpellingsAre
  <2> QED
    BY <2>1, <2>2
<1>4. \A s : Operator(s, l) => O = s
  <2> SUFFICES ASSUME NEW s, Operator(s, l) PROVE O = s
    OBVIOUS
  <2>1. \E x \in Spellings : x[1] = l
    BY SpellingsAre
  <2> DEFINE x == CHOOSE y \in Spellings : y[1] = l
  <2>2. x \in Spellings /\ x[1] = l
    BY <2>1
  <2>3. O = x[2]
    OBVIOUS
  <2> HIDE DEF x, O
  <2>4. Operator(O, l)
    BY <2>2, <2>3, SpellingsAre
  <2> QED
    BY <2>4, OperatorFixed
<1>5. Kind(l) = CASE P1 -> "NUM"
                  [] P2 -> W
                  [] l \in CharLiterals -> "CHARLIT"
                  [] l \in BegunLiterals -> "begun"
                  [] P5 -> O
                  [] OTHER -> "none"
  BY DEF Kind
<1> HIDE DEF W, O, P1, P2, P5
<1>6. Kind(l) = CASE Number(l) -> "NUM"
                  [] Name(l) -> W
                  [] Literal(l) -> "CHARLIT"
                  [] (\E s : Begun(s, l)) -> "begun"
                  [] (\E s : Operator(s, l)) -> O
                  [] OTHER -> "none"
  BY <1>1, <1>2, <1>3, <1>5, LiteralsAre, BegunAre
<1>7. /\ Number(l) => ~Name(l) /\ ~Literal(l) /\ (\A s : ~Begun(s, l) /\ ~Operator(s, l))
      /\ Name(l) => ~Number(l) /\ ~Literal(l) /\ (\A s : ~Begun(s, l) /\ ~Operator(s, l))
      /\ Literal(l) => ~Number(l) /\ ~Name(l) /\ (\A s : ~Begun(s, l) /\ ~Operator(s, l))
      /\ (\E s : Begun(s, l)) => ~Number(l) /\ ~Name(l) /\ ~Literal(l) /\ (\A s : ~Operator(s, l))
      /\ (\E s : Operator(s, l)) => ~Number(l) /\ ~Name(l) /\ ~Literal(l) /\ (\A s : ~Begun(s, l))
  BY OneReading
<1> DEFINE B == \E s : Begun(s, l)
           D == \E s : Operator(s, l)
<1>8. Kind(l) = CASE Number(l) -> "NUM" [] Name(l) -> W [] Literal(l) -> "CHARLIT"
                  [] B -> "begun" [] D -> O [] OTHER -> "none"
  BY <1>6
<1>9. /\ Number(l) => ~Name(l) /\ ~Literal(l) /\ ~B /\ ~D
      /\ Name(l) => ~Number(l) /\ ~Literal(l) /\ ~B /\ ~D
      /\ Literal(l) => ~Number(l) /\ ~Name(l) /\ ~B /\ ~D
      /\ B => ~Number(l) /\ ~Name(l) /\ ~Literal(l) /\ ~D
      /\ D => ~Number(l) /\ ~Name(l) /\ ~Literal(l) /\ ~B
  BY <1>7
<1>10. /\ \A s : Begun(s, l) => B
       /\ \A s : Operator(s, l) => D
       /\ (\A s : ~Begun(s, l) /\ ~Operator(s, l)) => ~B /\ ~D
  OBVIOUS
<1> HIDE DEF B, D
<1>11. /\ Number(l) => Kind(l) = "NUM"
       /\ Name(l) => Kind(l) = W
       /\ Literal(l) => Kind(l) = "CHARLIT"
       /\ B => Kind(l) = "begun"
       /\ D => Kind(l) = O
       /\ ~Number(l) /\ ~Name(l) /\ ~Literal(l) /\ ~B /\ ~D => Kind(l) = "none"
  BY <1>8, <1>9
<1> QED
  BY <1>4, <1>10, <1>11 DEF W

\* The token that NewToken makes is the reference's, but for a literal begun.
LEMMA TokenIs ==
  ASSUME NEW l \in Lexemes, NEW s, Reads(s, l)
  PROVE  /\ Kind(l) # "none" /\ s # "START"
         /\ Kind(l) = "NUM" <=> s = "NUM"
         /\ Kind(l) = "begun" <=> s \in Quoted
         /\ IF s \in Quoted THEN TokenType(s, l) \in {"EoF", "start", "procedures"}
                            ELSE TokenType(s, l) = Kind(l)
<1>1. l # <<>>
  BY DEF Lexemes
<1>2. CASE s = "NUM" /\ Number(l)
  <2>1. Kind(l) = "NUM"
    BY <1>2, KindIs
  <2> QED
    BY <1>2, <2>1 DEF TokenType, SymbolOf, Quoted
<1>3. CASE s = "ID" /\ Name(l)
  <2>1. Kind(l) = IF l \in DOMAIN KEYWORDS THEN KEYWORDS[l] ELSE "ID"
    BY <1>3, KindIs
  <2>2. l \in DOMAIN KEYWORDS => KEYWORDS[l] \notin {"none", "begun", "NUM"}
    BY LettersAssumption DEF Range
  <2> QED
    BY <1>3, <2>1, <2>2 DEF TokenType, SymbolOf, Quoted
<1>4. CASE s = "CHARLIT" /\ Literal(l)
  <2>1. Kind(l) = "CHARLIT"
    BY <1>4, KindIs
  <2> QED
    BY <1>4, <2>1 DEF TokenType, SymbolOf, Quoted
<1>5. CASE Begun(s, l)
  <2>1. Kind(l) = "begun"
    BY <1>5, KindIs
  <2>2. s \in Quoted
    BY <1>5 DEF Begun, Quoted
  <2> QED
    BY <2>1, <2>2 DEF TokenType, SymbolOf, Quoted
<1>6. CASE Operator(s, l)
  <2>1. Kind(l) = s
    BY <1>6, KindIs
  <2>2. s \in Mids \cup Finals
    BY <1>6, OpStepSane DEF Operator
  <2>3. s \notin {"START", "NUM", "ID", "none", "begun"} \cup Quoted
    BY <2>2 DEF Mids, Finals, Quoted
  <2> QED
    BY <2>1, <2>3 DEF TokenType, SymbolOf, Quoted
<1> QED
  BY <1>1, <1>2, <1>3, <1>4, <1>5, <1>6 DEF Reads

LEMMA AppendMore ==
  ASSUME NEW S, NEW l \in Seq(S), NEW ch \in S
  PROVE  /\ Append(l, ch) \in Seq(S) /\ Append(l, ch) # <<>> /\ Len(Append(l, ch)) = Len(l) + 1
         /\ DOMAIN Append(l, ch) = 1 .. Len(l) + 1 /\ DOMAIN l = 1 .. Len(l) /\ Len(l) \in Nat
         /\ Append(l, ch)[Len(l) + 1] = ch
         /\ \A k \in 1 .. Len(l) : Append(l, ch)[k] = l[k]
OBVIOUS

LEMMA AppendIs ==
  ASSUME NEW ch
  PROVE  /\ Append(<<>>, ch) = <<ch>>
         /\ \A a : Append(<<a>>, ch) = <<a, ch>>
         /\ \A a, b : Append(<<a, b>>, ch) = <<a, b, ch>>
         /\ \A a, b, d : Append(<<a, b, d>>, ch) = <<a, b, d, ch>>
<1>1. Append(<<>>, ch) = <<ch>>
  OBVIOUS
<1>2. ASSUME NEW a PROVE Append(<<a>>, ch) = <<a, ch>>
  <2> DEFINE S == {a, ch}
             l == <<a>>
             m == Append(l, ch)
  <2>1. l \in Seq(S) /\ ch \in S
    OBVIOUS
  <2>2. Len(l) = 1 /\ l[1] = a
    OBVIOUS
  <2> HIDE DEF S, l
  <2>3. m \in Seq(S)
    BY ONLY <2>1, AppendMore
  <2>4. Len(m) = Len(l) + 1 /\ m[Len(l) + 1] = ch /\ \A k \in 1 .. Len(l) : m[k] = l[k]
    BY ONLY <2>1, AppendMore
  <2> HIDE DEF m
  <2>5. Len(m) = 2 /\ m[2] = ch /\ m[1] = a
    BY ONLY <2>2, <2>4
  <2>6. m = <<m[1], m[2]>>
    BY ONLY <2>3, <2>5, TupleIs
  <2> QED
    BY ONLY <2>5, <2>6 DEF m, l
<1>3. ASSUME NEW a, NEW b PROVE Append(<<a, b>>, ch) = <<a, b, ch>>
  <2> DEFINE S == {a, b, ch}
             l == <<a, b>>
             m == Append(l, ch)
  <2>1. l \in Seq(S) /\ ch \in S
    OBVIOUS
  <2>2. Len(l) = 2 /\ l[1] = a /\ l[2] = b
    OBVIOUS
  <2> HIDE DEF S, l
  <2>3. m \in Seq(S)
    BY ONLY <2>1, AppendMore
  <2>4. Len(m) = Len(l) + 1 /\ m[Len(l) + 1] = ch /\ \A k \in 1 .. Len(l) : m[k] = l[k]
    BY ONLY <2>1, AppendMore
  <2> HIDE DEF m
  <2>5. Len(m) = 3 /\ m[3] = ch /\ m[1] = a /\ m[2] = b
    BY ONLY <2>2, <2>4
  <2>6. m = <<m[1], m[2], m[3]>>
    BY ONLY <2>3, <2>5, TupleIs
  <2> QED
    BY ONLY <2>5, <2>6 DEF m, l
<1>4. ASSUME NEW a, NEW b, NEW d PROVE Append(<<a, b, d>>, ch) = <<a, b, d, ch>>
  <2> DEFINE S == {a, b, d, ch}
             l == <<a, b, d>>
             m == Append(l, ch)
  <2>1. l \in Seq(S) /\ ch \in S
    OBVIOUS
  <2>2. Len(l) = 3 /\ l[1] = a /\ l[2] = b /\ l[3] = d
    OBVIOUS
  <2> HIDE DEF S, l
  <2>3. m \in Seq(S)
    BY ONLY <2>1, AppendMore
  <2>4. Len(m) = Len(l) + 1 /\ m[Len(l) + 1] = ch /\ \A k \in 1 .. Len(l) : m[k] = l[k]
    BY ONLY <2>1, AppendMore
  <2> HIDE DEF m
  <2>5. Len(m) = 4 /\ m[4] = ch /\ m[1] = a /\ m[2] = b /\ m[3] = d
    BY ONLY <2>2, <2>4
  <2>6. m = <<m[1], m[2], m[3], m[4]>>
    BY ONLY <2>3, <2>5, TupleIs
  <2> QED
    BY ONLY <2>5, <2>6 DEF m, l
<1> QED
  BY <1>1, <1>2, <1>3, <1>4

\* What the automaton has read is a lexeme.
LEMMA ReadsOn ==
  ASSUME NEW l \in Seq(Characters), NEW ch \in Characters, NEW s, Reads(s, l),
         transitions(s, ch) # "ERROR"
  PROVE  Reads(transitions(s, ch), Append(l, ch))
<1> DEFINE t == transitions(s, ch)
           m == Append(l, ch)
<1>1. OpStep(s, ch, t) \/ LexStep(s, ch, t)
  BY TransitionIs
<1>2. /\ m # <<>> /\ Len(l) \in Nat /\ DOMAIN m = 1 .. Len(l) + 1 /\ DOMAIN l = 1 .. Len(l)
      /\ m[Len(l) + 1] = ch /\ \A k \in 1 .. Len(l) : m[k] = l[k]
  BY AppendMore
<1>3. \A k \in DOMAIN m : k \in DOMAIN l \/ k = Len(l) + 1
  BY <1>2
<1>4. l # <<>> => 1 \in DOMAIN l
  BY <1>2
<1>5. ~("START" \in Mids) /\ \A q \in {"NUM", "ID", "CHARLIT"} \cup Quoted : q \notin Mids \cup {"START"}
  BY DEF Mids, Quoted
<1>6. s = "START" => l = <<>>
  <2>1. ~Operator("START", l)
    <3>1. "START" \notin Mids \cup Finals
      BY DEF Mids, Finals
    <3> QED
      BY <3>1, OpStepSane DEF Operator
  <2> QED
    BY <2>1 DEF Reads, Begun
<1> HIDE DEF t, m
<1>7. CASE OpStep(s, ch, t)
  <2>1. CASE s = "START"
    <3>1. m = <<ch>>
      BY <2>1, <1>6, AppendIs DEF m
    <3> QED
      BY <2>1, <3>1, <1>7 DEF Reads, Operator, t, m
  <2>2. CASE s \in Mids
    <3>1. Operator(s, l)
      BY <2>2, <1>5 DEF Reads, Begun, Quoted
    <3>2. PICK a : l = <<a>> /\ OpStep("START", a, s)
      <4>1. \A a, b, u : ~(OpStep("START", a, u) /\ OpStep(u, b, s))
        <5> SUFFICES ASSUME NEW a, NEW b, NEW u, OpStep("START", a, u), OpStep(u, b, s)
                     PROVE  FALSE
          OBVIOUS
        <5>1. u \in Mids \cup Finals
          BY <1>5, OpStepSane
        <5>2. u # "START"
          BY <5>1 DEF Mids, Finals
        <5>3. s \in Finals
          BY <5>2, OpStepSane
        <5> QED
          BY <5>3, <2>2 DEF Mids, Finals
      <4> QED
        BY <3>1, <4>1 DEF Operator
    <3>3. m = <<a, ch>>
      BY <3>2, AppendIs DEF m
    <3> QED
      BY <3>2, <3>3, <1>7 DEF Reads, Operator, t, m
  <2> QED
    BY <1>7, <2>1, <2>2, OpStepSane
<1>8. CASE LexStep(s, ch, t)
  <2>1. CASE t = "ID" /\ s = "START" /\ ch \in Letters
    <3>1. m = <<ch>>
      BY <2>1, <1>6, AppendIs DEF m
    <3>2. Name(m)
      BY <2>1, <3>1 DEF Name
    <3> QED
      BY <2>1, <3>2 DEF Reads, t, m
  <2>2. CASE t = "ID" /\ s = "ID" /\ ch \in Letters \cup Digits
    <3>1. Name(l)
      BY <2>2, <1>5, OpStepSane DEF Reads, Begun, Operator, Finals, Mids
    <3>2. Name(m)
      <4>1. m[1] = l[1]
        BY <1>2, <1>4, <3>1 DEF Name
      <4>2. \A k \in DOMAIN m : m[k] \in Letters \cup Digits
        BY <1>2, <1>3, <2>2, <3>1 DEF Name
      <4> QED
        BY <1>2, <3>1, <4>1, <4>2 DEF Name
    <3> QED
      BY <2>2, <3>2 DEF Reads, t, m
  <2>3. CASE t = "NUM" /\ s = "START" /\ ch \in Digits
    <3>1. m = <<ch>>
      BY <2>3, <1>6, AppendIs DEF m
    <3>2. Number(m)
      BY <2>3, <3>1 DEF Number
    <3> QED
      BY <2>3, <3>2 DEF Reads, t, m
  <2>4. CASE t = "NUM" /\ s = "NUM" /\ ch \in Digits
    <3>1. Number(l)
      BY <2>4, <1>5, OpStepSane DEF Reads, Begun, Operator, Finals, Mids
    <3>2. Number(m)
      BY <1>2, <1>3, <2>4, <3>1 DEF Number
    <3> QED
      BY <2>4, <3>2 DEF Reads, t, m
  <2>5. CASE t = "APOS" /\ s = "START" /\ ch = "'"
    <3>1. m = <<ch>>
      BY <2>5, <1>6, AppendIs DEF m
    <3> QED
      BY <2>5, <3>1 DEF Reads, Begun, t, m
  <2>6. CASE s \in Quoted
    <3>1. Begun(s, l)
      <4>1. s \notin Mids \cup Finals \cup {"START", "NUM", "ID", "CHARLIT"}
        BY <2>6 DEF Mids, Finals, Quoted
      <4>2. ~Operator(s, l)
        BY <4>1, OpStepSane DEF Operator
      <4> QED
        BY <4>1, <4>2 DEF Reads
    <3>2. CASE t = "APOSLASH" /\ s = "APOS" /\ ch = "\\"
      <4>1. l = <<"'">>
        BY <3>1, <3>2 DEF Begun
      <4>2. m = <<"'", "\\">>
        BY <3>2, <4>1, AppendIs DEF m
      <4> QED
        BY <3>2, <4>2 DEF Reads, Begun, t, m
    <3>3. CASE t = "NOT_CHARLIT" /\ s = "APOS" /\ ch \in Unquoted
      <4>1. l = <<"'">>
        BY <3>1, <3>3 DEF Begun
      <4>2. m = <<"'", ch>>
        BY <4>1, AppendIs DEF m
      <4> QED
        BY <3>3, <4>2 DEF Reads, Begun, t, m
    <3>4. CASE t = "NOT_CHARLIT" /\ s = "APOSLASH" /\ ch \in Escapes
      <4>1. l = <<"'", "\\">>
        BY <3>1, <3>4 DEF Begun
      <4>2. m = <<"'", "\\", ch>>
        BY <4>1, AppendIs DEF m
      <4> QED
        BY <3>4, <4>2 DEF Reads, Begun, t, m
    <3>5. CASE t = "CHARLIT" /\ s = "NOT_CHARLIT" /\ ch = "'"
      <4>1. CASE \E x \in Unquoted : l = <<"'", x>>
        <5>1. PICK x \in Unquoted : l = <<"'", x>>
          BY <4>1
        <5>2. m = <<"'", x, "'">>
          BY <5>1, <3>5, AppendIs DEF m
        <5> QED
          BY <3>5, <5>2 DEF Reads, Literal, t, m
      <4>2. CASE \E x \in Escapes : l = <<"'", "\\", x>>
        <5>1. PICK x \in Escapes : l = <<"'", "\\", x>>
          BY <4>2
        <5>2. m = <<"'", "\\", x, "'">>
          BY <5>1, <3>5, AppendIs DEF m
        <5> QED
          BY <3>5, <5>2 DEF Reads, Literal, t, m
      <4> QED
        BY <3>1, <3>5, <4>1, <4>2 DEF Begun
    <3> QED
      BY <1>8, <2>6, <3>2, <3>3, <3>4, <3>5 DEF LexStep, Quoted
  <2> QED
    BY <1>8, <2>1, <2>2, <2>3, <2>4, <2>5, <2>6 DEF LexStep, Quoted
<1> QED
  BY <1>1, <1>7, <1>8

LEMMA OneLess ==
  ASSUME NEW n \in Nat, NEW k, k = n + 1
  PROVE  /\ k = 1 => n = 0
         /\ k = 2 => n = 1
         /\ k = 3 => n = 2
         /\ k = 4 => n = 3
OBVIOUS

LEMMA ShortTuples ==
  ASSUME NEW S, NEW l \in Seq(S), NEW ch \in S
  PROVE  /\ \A a : Append(l, ch) = <<a>> => l = <<>> /\ ch = a
         /\ \A a, b : Append(l, ch) = <<a, b>> => l = <<a>> /\ ch = b
         /\ \A a, b, d : Append(l, ch) = <<a, b, d>> => l = <<a, b>> /\ ch = d
         /\ \A a, b, d, e : Append(l, ch) = <<a, b, d, e>> => l = <<a, b, d>> /\ ch = e
<1> DEFINE m == Append(l, ch)
<1>1. /\ Len(m) = Len(l) + 1 /\ Len(l) \in Nat /\ m[Len(l) + 1] = ch
      /\ \A k \in 1 .. Len(l) : m[k] = l[k]
  BY AppendMore
<1>2. (Len(l) = 0 => l = <<>>) /\ (Len(l) = 1 => l = <<l[1]>>) /\ (Len(l) = 2 => l = <<l[1], l[2]>>)
        /\ (Len(l) = 3 => l = <<l[1], l[2], l[3]>>)
  OBVIOUS
<1> HIDE DEF m
<1>7. Len(m) = Len(l) + 1 /\ Len(l) \in Nat
  BY <1>1
<1>8. /\ Len(m) = 1 => Len(l) = 0
      /\ Len(m) = 2 => Len(l) = 1
      /\ Len(m) = 3 => Len(l) = 2
      /\ Len(m) = 4 => Len(l) = 3
  BY ONLY <1>7, OneLess
<1>3. ASSUME NEW a, m = <<a>> PROVE l = <<>> /\ ch = a
  <2>1. Len(m) = 1 /\ m[1] = a
    BY <1>3
  <2>2. Len(l) = 0
    BY ONLY <1>8, <2>1
  <2> QED
    BY <1>1, <1>2, <2>1, <2>2
<1>4. ASSUME NEW a, NEW b, m = <<a, b>> PROVE l = <<a>> /\ ch = b
  <2>1. Len(m) = 2 /\ m[1] = a /\ m[2] = b
    BY <1>4
  <2>2. Len(l) = 1 /\ 1 \in 1 .. Len(l)
    BY ONLY <1>8, <2>1
  <2>3. l[1] = a /\ ch = b
    BY ONLY <1>1, <2>1, <2>2
  <2> QED
    BY <1>2, <2>2, <2>3
<1>5. ASSUME NEW a, NEW b, NEW d, m = <<a, b, d>> PROVE l = <<a, b>> /\ ch = d
  <2>1. Len(m) = 3 /\ m[1] = a /\ m[2] = b /\ m[3] = d
    BY <1>5
  <2>2. Len(l) = 2 /\ 1 \in 1 .. Len(l) /\ 2 \in 1 .. Len(l)
    BY ONLY <1>8, <2>1
  <2>3. l[1] = a /\ l[2] = b /\ ch = d
    BY ONLY <1>1, <2>1, <2>2
  <2> QED
    BY <1>2, <2>2, <2>3
<1>6. ASSUME NEW a, NEW b, NEW d, NEW e, m = <<a, b, d, e>> PROVE l = <<a, b, d>> /\ ch = e
  <2>1. Len(m) = 4 /\ m[1] = a /\ m[2] = b /\ m[3] = d /\ m[4] = e
    BY <1>6
  <2>2. Len(l) = 3 /\ 1 \in 1 .. Len(l) /\ 2 \in 1 .. Len(l) /\ 3 \in 1 .. Len(l)
    BY ONLY <1>8, <2>1
  <2>3. l[1] = a /\ l[2] = b /\ l[3] = d /\ ch = e
    BY ONLY <1>1, <2>1, <2>2
  <2> QED
    BY <1>2, <2>2, <2>3
<1> QED
  BY <1>3, <1>4, <1>5, <1>6 DEF m

LEMMA IsRead ==
  ASSUME NEW l \in Lexemes, Kind(l) # "none"
  PROVE  \E s : Reads(s, l)
<1>1. \/ Number(l) \/ Name(l) \/ Literal(l) \/ \E s : Begun(s, l) \/ Operator(s, l)
  BY KindIs
<1> QED
  BY <1>1 DEF Reads

LEMMA ReadOnce ==
  ASSUME NEW l \in Seq(Characters), NEW s, NEW t, Reads(s, l), Reads(t, l)
  PROVE  s = t
<1>1. CASE l = <<>>
  <2>1. \A q : Reads(q, <<>>) => q = "START"
    BY DEF Reads, Number, Name, Literal, Begun, Operator
  <2> QED
    BY <1>1, <2>1
<1>2. CASE l # <<>>
  <2>1. l \in Lexemes
    BY <1>2 DEF Lexemes
  <2>2. CASE Number(l)
    BY <2>1, <2>2, <1>2, OneReading DEF Reads
  <2>3. CASE Name(l)
    BY <2>1, <2>3, <1>2, OneReading DEF Reads
  <2>4. CASE Literal(l)
    BY <2>1, <2>4, <1>2, OneReading DEF Reads
  <2>5. CASE Begun(s, l)
    <3>1. Begun(t, l)
      BY <2>1, <2>5, <1>2, OneReading DEF Reads
    <3>2. CASE l = <<"'">>
      BY <3>1, <3>2, <2>5 DEF Begun
    <3>3. CASE l = <<"'", "\\">>
      BY <3>1, <3>3, <2>5, QuoteApart DEF Begun
    <3>4. CASE l # <<"'">> /\ l # <<"'", "\\">>
      BY <3>1, <3>4, <2>5 DEF Begun
    <3> QED
      BY <3>2, <3>3, <3>4
  <2>6. CASE Operator(s, l)
    <3>1. Operator(t, l)
      BY <2>1, <2>6, <1>2, OneReading DEF Reads
    <3> QED
      BY <3>1, <2>6, OperatorFixed
  <2> QED
    BY <1>2, <2>2, <2>3, <2>4, <2>5, <2>6 DEF Reads
<1> QED
  BY <1>1, <1>2

\* A lexeme without its last character has been read before, and led to it.
LEMMA ReadBefore ==
  ASSUME NEW l \in Seq(Characters), NEW ch \in Characters, NEW t, Reads(t, Append(l, ch))
  PROVE  \E s : Reads(s, l) /\ (OpStep(s, ch, t) \/ LexStep(s, ch, t))
<1> DEFINE m == Append(l, ch)
<1>1. /\ m \in Lexemes /\ Len(l) \in Nat /\ DOMAIN m = 1 .. Len(l) + 1 /\ DOMAIN l = 1 .. Len(l)
      /\ m[Len(l) + 1] = ch /\ \A k \in 1 .. Len(l) : m[k] = l[k]
  <2>1. /\ m \in Seq(Characters) /\ m # <<>> /\ Len(m) = Len(l) + 1
        /\ DOMAIN m = 1 .. Len(l) + 1 /\ DOMAIN l = 1 .. Len(l) /\ Len(l) \in Nat
        /\ m[Len(l) + 1] = ch
        /\ \A k \in 1 .. Len(l) : m[k] = l[k]
    BY ONLY l \in Seq(Characters), ch \in Characters, AppendMore DEF m
  <2> QED
    BY ONLY <2>1 DEF Lexemes
<1>2. /\ \A a : m = <<a>> => l = <<>> /\ ch = a
      /\ \A a, b : m = <<a, b>> => l = <<a>> /\ ch = b
      /\ \A a, b, d : m = <<a, b, d>> => l = <<a, b>> /\ ch = d
      /\ \A a, b, d, e : m = <<a, b, d, e>> => l = <<a, b, d>> /\ ch = e
  BY ONLY l \in Seq(Characters), ch \in Characters, ShortTuples
<1>3. Reads("START", <<>>) /\ (l = <<>> => m[1] = ch)
  <2>1. l = <<>> => m[1] = ch
    BY <1>1
  <2> QED
    BY <2>1 DEF Reads
<1>4. l # <<>> => 1 \in DOMAIN l /\ m[1] = l[1]
  <2>1. l # <<>> => Len(l) # 0
    OBVIOUS
  <2> QED
    BY ONLY <1>1, <2>1
<1>5. Len(l) + 1 \in DOMAIN m /\ \A k \in DOMAIN l : k \in DOMAIN m
  BY <1>1
<1> HIDE DEF m
<1>6. CASE t = "NUM" /\ Number(m)
  <2>1. ch \in Digits
    BY <1>1, <1>5, <1>6 DEF Number
  <2>2. l # <<>> => Number(l)
    BY <1>1, <1>5, <1>6 DEF Number
  <2>3. l # <<>> => Reads("NUM", l)
    BY <2>2 DEF Reads
  <2> QED
    BY <1>3, <1>6, <2>1, <2>3 DEF LexStep
<1>7. CASE t = "ID" /\ Name(m)
  <2>1. ch \in Letters \cup Digits /\ (l = <<>> => ch \in Letters)
    BY <1>1, <1>3, <1>5, <1>7 DEF Name
  <2>2. l # <<>> => Name(l)
    BY <1>1, <1>4, <1>5, <1>7 DEF Name
  <2>3. l # <<>> => Reads("ID", l)
    BY <2>2 DEF Reads
  <2> QED
    BY <1>3, <1>7, <2>1, <2>3 DEF LexStep
<1>8. CASE t = "CHARLIT" /\ Literal(m)
  <2>1. ch = "'" /\ Begun("NOT_CHARLIT", l)
    BY <1>2, <1>8 DEF Literal, Begun
  <2>2. Reads("NOT_CHARLIT", l)
    BY <2>1 DEF Reads
  <2> QED
    BY <1>8, <2>1, <2>2 DEF LexStep
<1>9. CASE Begun(t, m)
  <2>1. CASE t = "APOS" /\ m = <<"'">>
    BY <1>2, <1>3, <2>1 DEF LexStep
  <2>2. CASE t = "APOSLASH" /\ m = <<"'", "\\">>
    <3>1. Reads("APOS", l) /\ ch = "\\"
      BY <1>2, <2>2 DEF Reads, Begun
    <3> QED
      BY <3>1, <2>2 DEF LexStep
  <2>3. CASE t = "NOT_CHARLIT" /\ \E x \in Unquoted : m = <<"'", x>>
    <3>1. Reads("APOS", l) /\ ch \in Unquoted
      BY <1>2, <2>3 DEF Reads, Begun
    <3> QED
      BY <3>1, <2>3 DEF LexStep
  <2>4. CASE t = "NOT_CHARLIT" /\ \E x \in Escapes : m = <<"'", "\\", x>>
    <3>1. Reads("APOSLASH", l) /\ ch \in Escapes
      BY <1>2, <2>4 DEF Reads, Begun
    <3> QED
      BY <3>1, <2>4 DEF LexStep
  <2> QED
    BY <1>9, <2>1, <2>2, <2>3, <2>4 DEF Begun
<1>10. CASE Operator(t, m)
  <2>1. CASE \E a : m = <<a>> /\ OpStep("START", a, t)
    BY <1>2, <1>3, <2>1
  <2>2. CASE \E a, b, u : m = <<a, b>> /\ OpStep("START", a, u) /\ OpStep(u, b, t)
    <3>1. PICK a, b, u : m = <<a, b>> /\ OpStep("START", a, u) /\ OpStep(u, b, t)
      BY <2>2
    <3>2. l = <<a>> /\ ch = b
      BY <3>1, <1>2
    <3>3. Reads(u, l)
      BY <3>1, <3>2 DEF Reads, Operator
    <3> QED
      BY <3>1, <3>2, <3>3
  <2> QED
    BY <1>10, <2>1, <2>2 DEF Operator
<1>11. m # <<>>
  BY <1>1 DEF Lexemes
<1>12. Reads(t, m)
  BY DEF m
<1> QED
  BY <1>6, <1>7, <1>8, <1>9, <1>10, <1>11, <1>12 DEF Reads

\* Where the automaton is stuck, there is no lexeme.
LEMMA Stuck ==
  ASSUME NEW l \in Seq(Characters), NEW ch \in Characters, NEW s, Reads(s, l),
         transitions(s, ch) = "ERROR"
  PROVE  \A t : ~Reads(t, Append(l, ch))
<1> SUFFICES ASSUME NEW t, Reads(t, Append(l, ch)) PROVE FALSE
  OBVIOUS
<1>3. PICK r : Reads(r, l) /\ (OpStep(r, ch, t) \/ LexStep(r, ch, t))
  BY ReadBefore
<1>4. r = s
  BY <1>3, ReadOnce
<1> QED
  BY <1>3, <1>4, TransitionIs

-------------------------------------------------------------------------------
(* The longest lexeme that begins at a place.                              *)

IsPlaces(w) == w \in Seq(1 .. Len(text))

LEMMA CharsGrow ==
  ASSUME text \in Seq(Characters), NEW w, IsPlaces(w), NEW i \in 1 .. Len(w) + 1
  PROVE  /\ Chars(w, i, i - 1) = <<>>
         /\ \A j \in i - 1 .. Len(w) :
              Chars(w, i, j) \in Seq(Characters) /\ Len(Chars(w, i, j)) = j - i + 1
         /\ \A j \in i - 1 .. Len(w) - 1 :
              /\ text[w[j + 1]] \in Characters
              /\ Chars(w, i, j + 1) = Append(Chars(w, i, j), text[w[j + 1]])
<1>1. Len(w) \in Nat /\ \A k \in 1 .. Len(w) : w[k] \in 1 .. Len(text)
  BY DEF IsPlaces
<1>2. \A k \in 1 .. Len(text) : text[k] \in Characters
  OBVIOUS
<1>3. \A k \in 1 .. Len(w) : text[w[k]] \in Characters
  BY ONLY <1>1, <1>2
<1>4. ASSUME NEW j \in i - 1 .. Len(w)
      PROVE  Chars(w, i, j) \in Seq(Characters) /\ Len(Chars(w, i, j)) = j - i + 1
  <2>1. j - i + 1 \in Nat /\ \A k \in 1 .. j - i + 1 : i + k - 1 \in 1 .. Len(w)
    BY <1>1
  <2>2. \A k \in 1 .. j - i + 1 : text[w[i + k - 1]] \in Characters
    BY ONLY <1>3, <2>1
  <2> DEFINE n == j - i + 1
             e(k) == text[w[i + k - 1]]
  <2>3. n \in Nat /\ \A k \in 1 .. n : e(k) \in Characters
    BY <2>1, <2>2
  <2>4. Chars(w, i, j) = [k \in 1 .. n |-> e(k)]
    BY DEF Chars
  <2> HIDE DEF n, e
  <2>5. Chars(w, i, j) \in Seq(Characters) /\ Len(Chars(w, i, j)) = n
    BY <2>3, <2>4
  <2> QED
    BY <2>5 DEF n
<1>5. Chars(w, i, i - 1) = <<>>
  <2>1. i - 1 \in i - 1 .. Len(w) /\ (i - 1) - i + 1 = 0
    BY <1>1
  <2>2. Chars(w, i, i - 1) \in Seq(Characters) /\ Len(Chars(w, i, i - 1)) = 0
    BY <2>1, <1>4
  <2> QED
    BY <2>2
<1>6. ASSUME NEW j \in i - 1 .. Len(w) - 1
      PROVE  Chars(w, i, j + 1) = Append(Chars(w, i, j), text[w[j + 1]])
  <2> DEFINE a == Chars(w, i, j)
             b == Chars(w, i, j + 1)
             ch == text[w[j + 1]]
  <2>1. j \in i - 1 .. Len(w) /\ j + 1 \in i - 1 .. Len(w) /\ j + 1 \in 1 .. Len(w) /\ j \in Int /\ i \in Int
    BY <1>1
  <2>2. a \in Seq(Characters) /\ Len(a) = j - i + 1 /\ b \in Seq(Characters) /\ ch \in Characters
    BY <1>3, <1>4, <2>1
  <2>3. Len(b) = j + 1 - i + 1
    BY <1>4, <2>1
  <2>4. \A k \in 1 .. j - i + 1 : b[k] = a[k]
    BY <2>1 DEF Chars
  <2>5. b[j - i + 2] = ch
    <3>1. j - i + 2 \in 1 .. (j + 1) - i + 1 /\ i + (j - i + 2) - 1 = j + 1
      BY <2>1, <1>1
    <3>2. b = [k \in 1 .. (j + 1) - i + 1 |-> text[w[i + k - 1]]]
      BY DEF Chars
    <3> HIDE DEF b
    <3>3. b[j - i + 2] = text[w[i + (j - i + 2) - 1]]
      BY <3>1, <3>2
    <3> QED
      BY <3>1, <3>3
  <2> HIDE DEF a, b, ch
  <2>6. /\ Append(a, ch) \in Seq(Characters) /\ Len(Append(a, ch)) = Len(a) + 1
        /\ Append(a, ch)[Len(a) + 1] = ch
        /\ \A k \in 1 .. Len(a) : Append(a, ch)[k] = a[k]
    BY ONLY <2>2, AppendMore
  <2>7. b = Append(a, ch)
    <3> DEFINE d == Append(a, ch)
               n == j - i + 1
    <3>1. n \in Int /\ Len(a) = n /\ Len(b) = n + 1 /\ j - i + 2 = n + 1
      BY <2>1, <2>2, <2>3
    <3>2. b \in Seq(Characters) /\ d \in Seq(Characters)
      BY <2>2, <2>6
    <3>3. Len(d) = n + 1 /\ d[n + 1] = ch /\ \A k \in 1 .. n : d[k] = a[k]
      BY ONLY <2>6, <3>1
    <3>4. b[n + 1] = ch /\ \A k \in 1 .. n : b[k] = a[k]
      BY ONLY <2>4, <2>5, <3>1
    <3> HIDE DEF d, n
    <3>5. \A k \in 1 .. n + 1 : k = n + 1 \/ k \in 1 .. n
      BY <3>1
    <3>6. \A k \in 1 .. n + 1 : b[k] = d[k]
      BY ONLY <3>3, <3>4, <3>5
    <3>7. Len(b) = Len(d) /\ \A k \in 1 .. Len(b) : b[k] = d[k]
      BY ONLY <3>1, <3>3, <3>6
    <3>8. b = d
      BY ONLY <3>2, <3>7, SeqEqual
    <3> QED
      BY <3>8 DEF d
  <2> QED
    BY <2>7 DEF a, b, ch
<1>7. \A j \in i - 1 .. Len(w) - 1 : text[w[j + 1]] \in Characters
  <2>1. \A j \in i - 1 .. Len(w) - 1 : j + 1 \in 1 .. Len(w)
    BY <1>1
  <2> QED
    BY ONLY <1>3, <2>1
<1> QED
  BY ONLY <1>4, <1>5, <1>6, <1>7

\* Whatever begins a lexeme has been read when the lexeme has.
LEMMA ReadAlong ==
  ASSUME text \in Seq(Characters), NEW w, IsPlaces(w), NEW i \in 1 .. Len(w) + 1,
         NEW j \in i - 1 .. Len(w), NEW t, Reads(t, Chars(w, i, j)), NEW k \in i - 1 .. j
  PROVE  \E s : Reads(s, Chars(w, i, k))
<1> DEFINE Good(d) == \E s : Reads(s, Chars(w, i, j - d))
           Bad == {d \in 0 .. j - k : ~Good(d)}
<1>1. Len(w) \in Nat
  BY DEF IsPlaces
<1>2. j \in Int /\ k \in Int /\ i \in Int /\ j - k \in Nat
  BY <1>1
<1>3. Bad \subseteq Nat
  BY <1>2
<1> SUFFICES ASSUME Bad # {} PROVE FALSE
  <2>1. j - k \in 0 .. j - k /\ j - (j - k) = k
    BY <1>2
  <2> QED
    BY <2>1
<1>4. PICK d \in Bad : \A e \in Bad : d <= e
  BY <1>3, Least
<1>5. d # 0
  <2>1. j - 0 = j
    BY <1>2
  <2>2. Good(0)
    BY <2>1
  <2> QED
    BY <2>2, <1>4
<1>6. d - 1 \in 0 .. j - k /\ d - 1 < d /\ j - (d - 1) = (j - d) + 1 /\ j - d \in i - 1 .. Len(w) - 1
      /\ j - d \in i - 1 .. Len(w)
  BY <1>1, <1>2, <1>4, <1>5
<1>7. Good(d - 1)
  <2>1. ~(d <= d - 1) /\ d - 1 \in 0 .. j - k
    BY <1>2, <1>4, <1>6
  <2> HIDE DEF Good
  <2> QED
    BY <1>4, <2>1
<1> DEFINE l == Chars(w, i, j - d)
           ch == text[w[(j - d) + 1]]
<1>8. l \in Seq(Characters) /\ ch \in Characters /\ Chars(w, i, (j - d) + 1) = Append(l, ch)
  BY <1>6, CharsGrow
<1>9. PICK s : Reads(s, Append(l, ch))
  BY <1>6, <1>7, <1>8
<1> HIDE DEF l, ch
<1>10. \E r : Reads(r, l)
  BY <1>8, <1>9, ReadBefore
<1> QED
  BY <1>4, <1>10 DEF l

\* Where the automaton has to stop is the end of the longest lexeme.
LEMMA LongestEnds ==
  ASSUME text \in Seq(Characters), NEW w, IsPlaces(w), NEW i \in 1 .. Len(w) + 1,
         NEW m \in i - 1 .. Len(w), NEW s, Reads(s, Chars(w, i, m)),
         m < Len(w) => transitions(s, text[w[m + 1]]) = "ERROR"
  PROVE  /\ m < i => LexemeEnds(w, i) = {}
         /\ m >= i => m \in LexemeEnds(w, i) /\ Max(LexemeEnds(w, i)) = m
<1>1. Len(w) \in Nat /\ m \in Int /\ i \in Int
  BY DEF IsPlaces
<1>2. ASSUME NEW j \in i .. Len(w)
      PROVE  Chars(w, i, j) \in Lexemes
  <2>1. Chars(w, i, j) \in Seq(Characters) /\ Len(Chars(w, i, j)) = j - i + 1
    BY <1>1, CharsGrow
  <2>2. Len(Chars(w, i, j)) # 0
    BY <1>1, <2>1
  <2> QED
    BY <2>1, <2>2 DEF Lexemes
<1>3. ASSUME NEW j \in LexemeEnds(w, i), j > m PROVE FALSE
  <2>1. j \in i .. Len(w) /\ Kind(Chars(w, i, j)) # "none"
    BY DEF LexemeEnds
  <2>2. PICK t : Reads(t, Chars(w, i, j))
    BY <1>2, <2>1, IsRead
  <2>3. m + 1 \in i - 1 .. j /\ j \in i - 1 .. Len(w) /\ m \in i - 1 .. Len(w) - 1 /\ m < Len(w)
    BY <1>1, <1>3, <2>1
  <2>4. PICK r : Reads(r, Chars(w, i, m + 1))
    BY <2>2, <2>3, ReadAlong
  <2> DEFINE l == Chars(w, i, m)
             ch == text[w[m + 1]]
  <2>5. l \in Seq(Characters) /\ ch \in Characters /\ Chars(w, i, m + 1) = Append(l, ch)
    BY <2>3, CharsGrow
  <2>6. Reads(s, l) /\ transitions(s, ch) = "ERROR" /\ Reads(r, Append(l, ch))
    BY <2>3, <2>4, <2>5
  <2> HIDE DEF l, ch
  <2> QED
    BY <2>5, <2>6, Stuck
<1>4. LexemeEnds(w, i) \subseteq i .. Len(w)
  BY DEF LexemeEnds
<1>5. \A j \in LexemeEnds(w, i) : j <= m /\ j >= i /\ j \in Int
  BY <1>1, <1>3, <1>4
<1>6. CASE m < i
  BY <1>1, <1>5, <1>6
<1>7. CASE m >= i
  <2>1. m \in i .. Len(w)
    BY <1>1, <1>7
  <2>2. Kind(Chars(w, i, m)) # "none"
    BY <1>2, <2>1, TokenIs
  <2>3. m \in LexemeEnds(w, i)
    BY <2>1, <2>2 DEF LexemeEnds
  <2> DEFINE E == LexemeEnds(w, i)
  <2> HIDE DEF E
  <2>4. m \in E /\ \A j \in E : j <= m /\ j \in Int
    BY <1>5, <2>3 DEF E
  <2>5. Max(E) = m
    <3>1. /\ \A y \in E : m >= y
          /\ \A x \in E : (\A y \in E : x >= y) => x = m
      BY <1>1, <2>4
    <3>2. Max(E) = CHOOSE x \in E : \A y \in E : x >= y
      BY DEF Max
    <3> QED
      BY ONLY <2>4, <3>1, <3>2, Zenon
  <2> QED
    BY <2>3, <2>5, <1>1, <1>7 DEF E
<1> QED
  BY <1>1, <1>6, <1>7

-------------------------------------------------------------------------------
(* The reference is what its definition says.                              *)

LEMMA LongestIs ==
  ASSUME NEW w, IsPlaces(w), NEW i \in 1 .. Len(w) + 1, LexemeEnds(w, i) # {}
  PROVE  Max(LexemeEnds(w, i)) \in LexemeEnds(w, i) /\ Max(LexemeEnds(w, i)) \in i .. Len(w)
<1> DEFINE E == LexemeEnds(w, i)
           S == {Len(w) - j : j \in E}
<1>1. E \subseteq i .. Len(w) /\ Len(w) \in Nat
  BY DEF LexemeEnds, IsPlaces
<1>2. E # {}
  OBVIOUS
<1> HIDE DEF E
<1>3. \A j \in E : j \in Int /\ j >= i /\ Len(w) - j \in Nat /\ Len(w) - (Len(w) - j) = j
  BY <1>1
<1>4. S \subseteq Nat /\ S # {}
  BY <1>2, <1>3
<1>5. PICK d \in S : \A e \in S : d <= e
  BY <1>4, Least
<1>6. PICK m \in E : d = Len(w) - m
  OBVIOUS
<1>7. ASSUME NEW j \in E PROVE m >= j
  <2>1. Len(w) - m <= Len(w) - j
    BY <1>5, <1>6
  <2> QED
    BY <1>1, <1>3, <1>6, <2>1
<1>8. Max(E) \in E
  BY <1>6, <1>7 DEF Max
<1> QED
  BY <1>1, <1>8 DEF E

CutAt(w, f, i) ==
  IF i > Len(w) THEN NoMore("well")
  ELSE IF text[w[i]] \in Blanks THEN f[i + 1]
  ELSE IF LexemeEnds(w, i) = {} THEN NoMore("error")
  ELSE IF NoNumber(Lexeme(w, i, Max(LexemeEnds(w, i))))
  THEN NoMore(IF Max(LexemeEnds(w, i)) = Len(w) THEN "throw" ELSE "error")
  ELSE IF Lexeme(w, i, Max(LexemeEnds(w, i))).type = "begun" /\ Max(LexemeEnds(w, i)) = Len(w)
  THEN NoMore("well")
  ELSE Before(Lexeme(w, i, Max(LexemeEnds(w, i))), f[Max(LexemeEnds(w, i)) + 1])

\* The value at a place rests on those at later places.
LEMMA CutRestsOnLater ==
  ASSUME NEW w, IsPlaces(w), NEW i \in 1 .. Len(w) + 1, NEW f, NEW g,
         \A k \in i + 1 .. Len(w) + 1 : f[k] = g[k]
  PROVE  CutAt(w, f, i) = CutAt(w, g, i)
<1>1. Len(w) \in Nat
  BY DEF IsPlaces
<1>2. ~(i > Len(w)) => f[i + 1] = g[i + 1]
  BY <1>1
<1>3. LexemeEnds(w, i) # {} => f[Max(LexemeEnds(w, i)) + 1] = g[Max(LexemeEnds(w, i)) + 1]
  <2> SUFFICES ASSUME LexemeEnds(w, i) # {}
               PROVE  f[Max(LexemeEnds(w, i)) + 1] = g[Max(LexemeEnds(w, i)) + 1]
    OBVIOUS
  <2> DEFINE j == Max(LexemeEnds(w, i))
  <2>1. j \in i .. Len(w)
    BY LongestIs
  <2> HIDE DEF j
  <2>2. j + 1 \in i + 1 .. Len(w) + 1
    BY <1>1, <2>1
  <2>3. f[j + 1] = g[j + 1]
    BY <2>2
  <2> QED
    BY <2>3 DEF j
<1> QED
  BY <1>2, <1>3 DEF CutAt

LEMMA CutIs ==
  ASSUME NEW w, IsPlaces(w)
  PROVE  \A i \in 1 .. Len(w) + 1 : Cut(w)[i] = CutAt(w, Cut(w), i)
<1> DEFINE n == Len(w)
           Solves(h, k) == \A i \in k .. n + 1 : h[i] = CutAt(w, h, i)
           Bad == {d \in 0 .. n : \A h : ~Solves(h, n + 1 - d)}
<1>1. n \in Nat
  BY DEF IsPlaces
<1> HIDE DEF n
<1>2. \E f : Solves(f, 1)
  <2> SUFFICES ASSUME \A f : ~Solves(f, 1) PROVE FALSE
    OBVIOUS
  <2>1. n + 1 - n = 1 /\ n \in 0 .. n
    BY <1>1
  <2> HIDE DEF Solves
  <2>2. Bad \subseteq Nat /\ Bad # {}
    <3>1. n \in Bad
      BY ONLY <2>1, \A f : ~Solves(f, 1)
    <3> QED
      BY <1>1, <3>1
  <2>3. PICK d \in Bad : \A e \in Bad : d <= e
    BY <2>2, Least
  <2>4. d \in 0 .. n /\ \A h : ~Solves(h, n + 1 - d)
    BY <2>3
  <2>5. d # 0
    <3> DEFINE h == [i \in {n + 1} |-> NoMore("well")]
    <3>1. h[n + 1] = NoMore("well") /\ \A i \in n + 1 .. n + 1 : i = n + 1
      BY <1>1
    <3> HIDE DEF h
    <3>2. CutAt(w, h, n + 1) = NoMore("well")
      BY <1>1 DEF CutAt, n
    <3>3. Solves(h, n + 1)
      BY <3>1, <3>2 DEF Solves
    <3>4. n + 1 - 0 = n + 1
      BY <1>1
    <3> QED
      BY <2>4, <3>3, <3>4
  <2> DEFINE k == n + 1 - d
  <2>6. /\ d - 1 \in 0 .. n /\ ~(d <= d - 1) /\ n + 1 - (d - 1) = k + 1
        /\ k \in 1 .. n + 1 /\ k \in Int /\ ~(k \in k + 1 .. n + 1)
        /\ \A i \in k .. n + 1 : i = k \/ i \in k + 1 .. n + 1
        /\ \A i \in k .. n + 1 : i \in 1 .. n + 1
        /\ \A i \in k .. n + 1 : \A j \in i + 1 .. n + 1 : j \in k .. n + 1 /\ j # k
    BY <1>1, <2>4, <2>5
  <2>7. d - 1 \notin Bad
    BY <2>3, <2>6
  <2> HIDE DEF k
  <2>8. PICK h : Solves(h, k + 1)
    BY <2>6, <2>7
  <2> DEFINE g == [i \in k .. n + 1 |-> IF i = k THEN CutAt(w, h, k) ELSE h[i]]
  <2>10. /\ \A i \in k .. n + 1 : i # k => g[i] = h[i]
         /\ k \in k .. n + 1 => g[k] = CutAt(w, h, k)
    OBVIOUS
  <2> HIDE DEF g
  <2>11. \A i \in k .. n + 1 : CutAt(w, g, i) = CutAt(w, h, i)
    <3> TAKE i \in k .. n + 1
    <3>1. i \in 1 .. Len(w) + 1
      BY <2>6 DEF n
    <3>2. \A j \in i + 1 .. n + 1 : g[j] = h[j]
      BY <2>6, <2>10
    <3>3. \A j \in i + 1 .. Len(w) + 1 : g[j] = h[j]
      BY <3>2 DEF n
    <3> QED
      BY ONLY IsPlaces(w), <3>1, <3>3, CutRestsOnLater
  <2>12. \A i \in k .. n + 1 : g[i] = CutAt(w, g, i)
    <3> TAKE i \in k .. n + 1
    <3>1. CASE i = k
      BY <2>10, <2>11, <3>1
    <3>2. CASE i \in k + 1 .. n + 1
      <4>1. h[i] = CutAt(w, h, i) /\ i # k
        BY <2>6, <2>8, <3>2 DEF Solves
      <4> QED
        BY <2>10, <2>11, <4>1
    <3> QED
      BY <2>6, <3>1, <3>2
  <2>13. Solves(g, k)
    BY <2>12 DEF Solves
  <2> QED
    BY <2>4, <2>13 DEF k
<1>3. PICK f : Solves(f, 1)
  BY <1>2
<1> DEFINE F == [i \in 1 .. n + 1 |-> f[i]]
<1>4. \A i \in 1 .. n + 1 : F[i] = CutAt(w, F, i)
  <2> TAKE i \in 1 .. n + 1
  <2>1. F[i] = f[i] /\ \A j \in i + 1 .. n + 1 : F[j] = f[j]
    BY <1>1
  <2> HIDE DEF F
  <2>2. i \in 1 .. Len(w) + 1 /\ \A j \in i + 1 .. Len(w) + 1 : F[j] = f[j]
    BY <2>1 DEF n
  <2>3. CutAt(w, F, i) = CutAt(w, f, i)
    BY ONLY IsPlaces(w), <2>2, CutRestsOnLater
  <2> QED
    BY <1>3, <2>1, <2>3
<1>5. F = [i \in 1 .. n + 1 |-> F[i]]
  OBVIOUS
<1>6. F = [i \in 1 .. n + 1 |-> CutAt(w, F, i)]
  <2> HIDE DEF F
  <2> QED
    BY <1>4, <1>5
<1> HIDE DEF F
<1>7. Cut(w) = CHOOSE g : g = [i \in 1 .. n + 1 |-> CutAt(w, g, i)]
  BY DEF Cut, CutAt, n
<1>8. Cut(w) = [i \in 1 .. n + 1 |-> CutAt(w, Cut(w), i)]
  BY <1>6, <1>7, Zenon
<1> QED
  BY <1>8 DEF n

LexemesOf(w) == {Lexeme(w, i, j) : i \in 1 .. Len(w), j \in 1 .. Len(w)}

LEMMA CutTyped ==
  ASSUME NEW w, IsPlaces(w)
  PROVE  \A i \in 1 .. Len(w) + 1 : Cut(w)[i].tokens \in Seq(LexemesOf(w))
<1> DEFINE n == Len(w)
           T == LexemesOf(w)
           Good(i) == Cut(w)[i].tokens \in Seq(T)
           Bad == {d \in 0 .. n : ~Good(n + 1 - d)}
<1>1. n \in Nat
  BY DEF IsPlaces
<1> SUFFICES ASSUME NEW i \in 1 .. n + 1, ~Good(i) PROVE FALSE
  OBVIOUS
<1>2. i \in Int /\ n + 1 - i \in 0 .. n /\ n + 1 - (n + 1 - i) = i
  BY <1>1
<1>3. n + 1 - i \in Bad
  <2> HIDE DEF Good
  <2> QED
    BY ONLY <1>2, ~Good(i)
<1> HIDE DEF Good
<1>4. Bad \subseteq Nat /\ Bad # {}
  <2>1. Bad \subseteq Nat
    BY ONLY <1>1
  <2>2. Bad # {}
    BY ONLY <1>3
  <2> QED
    BY ONLY <2>1, <2>2
<1>5. PICK d \in Bad : \A e \in Bad : d <= e
  BY <1>4, Least
<1> DEFINE k == n + 1 - d
<1>6. d \in 0 .. n /\ ~Good(k)
  BY <1>5
<1>7. k \in 1 .. n + 1 /\ \A j \in k + 1 .. n + 1 : n + 1 - j \in 0 .. n /\ ~(d <= n + 1 - j) /\ n + 1 - (n + 1 - j) = j
  BY <1>1, <1>6
<1>8. \A j \in k + 1 .. n + 1 : Good(j)
  <2> SUFFICES ASSUME NEW j \in k + 1 .. n + 1, ~Good(j) PROVE FALSE
    OBVIOUS
  <2>1. n + 1 - j \in 0 .. n /\ ~(d <= n + 1 - j) /\ n + 1 - (n + 1 - j) = j
    BY <1>7
  <2>2. n + 1 - j \in Bad
    BY ONLY <2>1, ~Good(j)
  <2> QED
    BY <1>5, <2>1, <2>2
<1> HIDE DEF k
<1>9. Cut(w)[k] = CutAt(w, Cut(w), k)
  BY <1>7, CutIs
<1>10. \A e : NoMore(e).tokens = <<>> /\ <<>> \in Seq(T)
  BY DEF NoMore
<1>11. CASE k > n
  BY <1>6, <1>9, <1>10, <1>11 DEF CutAt, Good
<1>12. CASE ~(k > n) /\ text[w[k]] \in Blanks
  <2>1. k + 1 \in k + 1 .. n + 1
    BY <1>1, <1>7, <1>12
  <2>2. Cut(w)[k] = Cut(w)[k + 1]
    BY <1>9, <1>12 DEF CutAt
  <2> QED
    BY <1>6, <1>8, <2>1, <2>2 DEF Good
<1>13. CASE ~(k > n) /\ text[w[k]] \notin Blanks /\ LexemeEnds(w, k) = {}
  BY <1>6, <1>9, <1>10, <1>13 DEF CutAt, Good
<1>14. CASE ~(k > n) /\ text[w[k]] \notin Blanks /\ LexemeEnds(w, k) # {}
  <2> DEFINE j == Max(LexemeEnds(w, k))
             t == Lexeme(w, k, j)
  <2>1. j \in k .. n
    BY <1>7, <1>14, LongestIs
  <2>2. (\E e : Cut(w)[k] = NoMore(e)) \/ Cut(w)[k] = Before(t, Cut(w)[j + 1])
    BY <1>9, <1>14 DEF CutAt
  <2> HIDE DEF j
  <2>3. j + 1 \in k + 1 .. n + 1 /\ j \in 1 .. n /\ k \in 1 .. n
    BY <1>1, <1>7, <1>14, <2>1
  <2>4. t \in T
    BY <2>3 DEF LexemesOf
  <2> HIDE DEF t
  <2> DEFINE r == Cut(w)[j + 1].tokens
  <2>5. r \in Seq(T)
    BY <1>8, <2>3 DEF Good
  <2> HIDE DEF T
  <2>6. <<t>> \in Seq(T)
    BY <2>4
  <2>7. Before(t, Cut(w)[j + 1]).tokens = <<t>> \o r
    BY DEF Before
  <2> HIDE DEF r
  <2>8. <<t>> \o r \in Seq(T)
    BY ONLY <2>5, <2>6, ConcatProperties
  <2>9. CASE \E e : Cut(w)[k] = NoMore(e)
    BY <1>6, <1>10, <2>9 DEF Good
  <2>10. CASE Cut(w)[k] = Before(t, Cut(w)[j + 1])
    BY <1>6, <2>7, <2>8, <2>10 DEF Good
  <2> QED
    BY <2>2, <2>9, <2>10
<1> QED
  BY <1>11, <1>12, <1>13, <1>14

-------------------------------------------------------------------------------
(* Where the visible characters are.                                       *)

UpTo(S, i) == {j \in S : j <= i}

LEMMA Counts ==
  ASSUME NEW S, S \subseteq Nat \ {0}
  PROVE  /\ Cardinality(UpTo(S, 0)) = 0
         /\ \A i \in Nat : /\ Cardinality(UpTo(S, i)) \in Nat
                           /\ Cardinality(UpTo(S, i + 1)) =
                                IF i + 1 \in S THEN Cardinality(UpTo(S, i)) + 1
                                ELSE Cardinality(UpTo(S, i))
<1>0. /\ \A j \in S : j \in Nat /\ j >= 1
      /\ \A i, j : j \in UpTo(S, i) <=> j \in S /\ j <= i
  BY DEF UpTo
<1>1. UpTo(S, 0) = {}
  <2>1. \A j : j \notin UpTo(S, 0)
    BY ONLY <1>0
  <2> QED
    BY ONLY <2>1
<1>2. ASSUME NEW i \in Nat
      PROVE  IsFiniteSet(UpTo(S, i))
  <2>1. UpTo(S, i) \in SUBSET (1 .. i)
    <3>1. \A j : j \in UpTo(S, i) => j \in 1 .. i
      BY ONLY <1>0, i \in Nat
    <3> QED
      BY ONLY <3>1
  <2>2. IsFiniteSet(1 .. i)
    BY FS_Interval
  <2> QED
    BY <2>1, <2>2, FS_Subset
<1>3. ASSUME NEW i \in Nat
      PROVE  Cardinality(UpTo(S, i + 1)) = IF i + 1 \in S THEN Cardinality(UpTo(S, i)) + 1
                                           ELSE Cardinality(UpTo(S, i))
  <2>1. \A j : j \in UpTo(S, i + 1) <=> j \in UpTo(S, i) \/ (j = i + 1 /\ j \in S)
    <3>1. \A j \in S : j <= i + 1 <=> j <= i \/ j = i + 1
      BY ONLY <1>0, i \in Nat
    <3> QED
      BY ONLY <1>0, <3>1
  <2>4. IF i + 1 \in S THEN UpTo(S, i + 1) = UpTo(S, i) \cup {i + 1} ELSE UpTo(S, i + 1) = UpTo(S, i)
    BY ONLY <2>1
  <2>2. i + 1 \notin UpTo(S, i)
    BY ONLY <1>0, i \in Nat
  <2>3. Cardinality(UpTo(S, i) \cup {i + 1}) = Cardinality(UpTo(S, i)) + 1
    BY <1>2, <2>2, FS_AddElement
  <2> QED
    BY ONLY <2>3, <2>4
<1>4. \A i \in Nat : Cardinality(UpTo(S, i)) \in Nat
  BY <1>2, FS_CardinalityType
<1>5. Cardinality(UpTo(S, 0)) = 0
  BY <1>1, FS_EmptySet
<1> QED
  BY <1>3, <1>4, <1>5

LEMMA CountsGrow ==
  ASSUME NEW S, S \subseteq Nat \ {0}, NEW i \in Nat, NEW k \in Nat, i <= k
  PROVE  /\ Cardinality(UpTo(S, i)) <= Cardinality(UpTo(S, k))
         /\ (\E j \in S : i < j /\ j <= k) => Cardinality(UpTo(S, i)) < Cardinality(UpTo(S, k))
         /\ (\A j \in S : j <= i \/ j > k) => Cardinality(UpTo(S, i)) = Cardinality(UpTo(S, k))
<1>0. /\ \A j \in S : j \in Nat /\ j >= 1
      /\ \A e, j : j \in UpTo(S, e) <=> j \in S /\ j <= e
  BY DEF UpTo
<1>1. UpTo(S, k) \in SUBSET (1 .. k) /\ UpTo(S, i) \in SUBSET UpTo(S, k)
  <2>1. \A j : j \in UpTo(S, k) => j \in 1 .. k
    BY ONLY <1>0, k \in Nat
  <2>2. \A j : j \in UpTo(S, i) => j \in UpTo(S, k)
    BY ONLY <1>0, k \in Nat, i \in Nat, i <= k
  <2> QED
    BY ONLY <2>1, <2>2
<1>2. IsFiniteSet(1 .. k)
  BY FS_Interval
<1>3. IsFiniteSet(UpTo(S, k))
  BY <1>1, <1>2, FS_Subset
<1>4. /\ Cardinality(UpTo(S, i)) <= Cardinality(UpTo(S, k))
      /\ Cardinality(UpTo(S, k)) = Cardinality(UpTo(S, i)) => UpTo(S, k) = UpTo(S, i)
  BY <1>1, <1>3, FS_Subset
<1>5. (\E j \in S : i < j /\ j <= k) => UpTo(S, k) # UpTo(S, i)
  <2>1. \A j \in S : i < j => ~(j <= i)
    BY ONLY <1>0, i \in Nat
  <2> QED
    BY ONLY <1>0, <2>1
<1>6. (\A j \in S : j <= i \/ j > k) => UpTo(S, k) = UpTo(S, i)
  <2>1. \A j \in S : (j <= i \/ j > k) => (j <= i <=> j <= k)
    BY ONLY <1>0, i \in Nat, k \in Nat, i <= k
  <2>2. (\A j \in S : j <= i \/ j > k) => \A j : j \in UpTo(S, k) <=> j \in UpTo(S, i)
    BY ONLY <1>0, <2>1
  <2> QED
    BY ONLY <2>2
<1>7. Cardinality(UpTo(S, i)) \in Nat /\ Cardinality(UpTo(S, k)) \in Nat
  BY Counts
<1> QED
  BY <1>4, <1>5, <1>6, <1>7


Shown == {i \in 1 .. Len(text) : Visible(i)}

\* How many visible characters there are up to the i-th character.
Rank(i) == Cardinality(UpTo(Shown, i))

LEMMA RankCounts ==
  ASSUME text \in Seq(Characters)
  PROVE  /\ Len(text) \in Nat /\ Shown \subseteq Nat \ {0}
         /\ Rank(0) = 0
         /\ \A i \in Nat : /\ Rank(i) \in Nat
                           /\ Rank(i + 1) = IF i + 1 \in Shown THEN Rank(i) + 1 ELSE Rank(i)
<1>1. Len(text) \in Nat
  OBVIOUS
<1>2. Shown \subseteq Nat \ {0}
  BY <1>1 DEF Shown
<1> QED
  BY <1>1, <1>2, Counts DEF Rank

LEMMA RankGrows ==
  ASSUME text \in Seq(Characters), NEW i \in Nat, NEW k \in Nat, i <= k
  PROVE  /\ Rank(i) <= Rank(k)
         /\ (\E j \in Shown : i < j /\ j <= k) => Rank(i) < Rank(k)
         /\ (\A j \in Shown : j <= i \/ j > k) => Rank(i) = Rank(k)
<1>1. Shown \subseteq Nat \ {0}
  BY RankCounts
<1> QED
  BY <1>1, CountsGrow DEF Rank

LEMMA PlacesAre ==
  ASSUME text \in Seq(Characters)
  PROVE  /\ IsPlaces(Places)
         /\ Len(Places) = Rank(Len(text)) /\ Len(Places) \in Nat
         /\ \A p \in Shown : Rank(p) \in 1 .. Len(Places) /\ Places[Rank(p)] = p
<1> DEFINE N == Rank(Len(text))
           At(k) == CHOOSE i \in Shown : Rank(i) = k
<1>1. /\ Len(text) \in Nat /\ Rank(0) = 0 /\ N \in Nat
      /\ \A i \in Nat : /\ Rank(i) \in Nat
                        /\ Rank(i + 1) = IF i + 1 \in Shown THEN Rank(i) + 1 ELSE Rank(i)
  BY RankCounts
<1>0. Len(text) \in Nat
  BY <1>1
<1>2. \A i \in Shown : i \in 1 .. Len(text)
  BY DEF Shown
<1>3. Places = <<>> \o [k \in 1 .. N |-> At(k)]
  <2>1. Shown = UpTo(Shown, Len(text))
    <3>1. \A i \in Shown : i <= Len(text)
      BY ONLY <1>0, <1>2
    <3> QED
      BY ONLY <3>1 DEF UpTo
  <2>2. Places = <<>> \o [k \in 1 .. Cardinality(Shown) |-> At(k)]
    BY DEF Places, Shown, Rank, UpTo
  <2>3. Cardinality(Shown) = N
    BY <2>1 DEF Rank
  <2> HIDE DEF At
  <2> QED
    BY ONLY <2>2, <2>3
<1>4. ASSUME NEW k \in 1 .. N
      PROVE  \E i \in Shown : Rank(i) = k
  <2> DEFINE S == {i \in 0 .. Len(text) : Rank(i) >= k}
  <2>1. S \subseteq Nat /\ S # {}
    <3>1. Len(text) \in 0 .. Len(text) /\ Rank(Len(text)) >= k
      BY <1>1
    <3>2. S \subseteq Nat
      BY ONLY <1>1
    <3>3. Len(text) \in S
      BY ONLY <3>1
    <3> QED
      BY ONLY <3>2, <3>3
  <2>2. PICK i \in S : \A e \in S : i <= e
    BY <2>1, Least
  <2>3. i \in 0 .. Len(text) /\ Rank(i) >= k
    BY <2>2
  <2>4. i # 0
    BY <1>1, <2>3
  <2>5. i - 1 \in 0 .. Len(text) /\ i - 1 \in Nat /\ ~(i <= i - 1) /\ (i - 1) + 1 = i
    BY <1>1, <2>3, <2>4
  <2>6. ~(Rank(i - 1) >= k)
    BY <2>2, <2>5
  <2>7. Rank(i - 1) \in Nat /\ Rank(i) = IF i \in Shown THEN Rank(i - 1) + 1 ELSE Rank(i - 1)
    BY <1>1, <2>5
  <2> QED
    BY <2>3, <2>6, <2>7
<1> HIDE DEF N
<1>5. ASSUME NEW k \in 1 .. N
      PROVE  At(k) \in Shown /\ Rank(At(k)) = k /\ At(k) \in 1 .. Len(text)
  <2>1. At(k) \in Shown /\ Rank(At(k)) = k
    BY <1>4
  <2> QED
    BY <1>2, <2>1
<1> HIDE DEF At
<1> DEFINE w == [k \in 1 .. N |-> At(k)]
<1>9. N \in Nat
  BY <1>1 DEF N
<1> DEFINE M == 1 .. Len(text)
<1>10. \A k \in 1 .. N : At(k) \in M
  BY <1>5
<1> HIDE DEF M
<1>6. w \in Seq(M) /\ Len(w) = N /\ \A k \in 1 .. N : w[k] = At(k)
  BY ONLY <1>9, <1>10
<1> HIDE DEF w
<1>7. Places = w
  <2>1. Places = <<>> \o w
    BY <1>3 DEF w
  <2>2. <<>> \o w = w
    BY ONLY <1>6, ConcatEmptySeq
  <2> QED
    BY ONLY <2>1, <2>2
<1>8. ASSUME NEW p \in Shown
      PROVE  Rank(p) \in 1 .. N /\ At(Rank(p)) = p
  <2>1. p \in 1 .. Len(text) /\ p \in Nat /\ 0 < p /\ p <= Len(text)
    BY ONLY <1>0, <1>2, p \in Shown
  <2>2. Rank(0) < Rank(p) /\ Rank(p) <= Rank(Len(text))
    BY <1>1, <2>1, RankGrows
  <2>3. Rank(p) \in 1 .. N
    BY <1>1, <2>1, <2>2 DEF N
  <2>4. At(Rank(p)) \in Shown /\ Rank(At(Rank(p))) = Rank(p) /\ At(Rank(p)) \in Nat
    BY ONLY <1>0, <1>5, <2>3
  <2> DEFINE q == At(Rank(p))
  <2> HIDE DEF q
  <2>5. q \in Shown /\ Rank(q) = Rank(p) /\ q \in Nat
    BY <2>4 DEF q
  <2>6. ~(q < p)
    <3> SUFFICES ASSUME q < p PROVE FALSE
      OBVIOUS
    <3>1. Rank(q) < Rank(p)
      BY <2>1, <2>5, RankGrows
    <3> QED
      BY <1>1, <2>1, <2>5, <3>1
  <2>7. ~(p < q)
    <3> SUFFICES ASSUME p < q PROVE FALSE
      OBVIOUS
    <3>1. Rank(p) < Rank(q)
      BY <2>1, <2>5, RankGrows
    <3> QED
      BY <1>1, <2>1, <2>5, <3>1
  <2>8. p = q
    BY <2>1, <2>5, <2>6, <2>7
  <2> QED
    BY <2>3, <2>8 DEF q
<1> QED
  BY <1>1, <1>6, <1>7, <1>8 DEF IsPlaces, N, M

-------------------------------------------------------------------------------
(* One way round the loop, and what is left of the reference.              *)

\* No comment is open where the i-th character begins.
OutOfComment(i) ==
  \A j \in 1 .. i - 1 : text[j] = "#" => \E k \in j .. i - 1 : text[k] = "\n"

LEMMA AfterLineIs ==
  ASSUME text \in Seq(Characters), NEW i \in 1 .. Len(text)
  PROVE  /\ AfterLine(i) \in i + 1 .. Len(text) + 1
         /\ \A j \in i .. AfterLine(i) - 2 : text[j] # "\n"
         /\ \/ text[AfterLine(i) - 1] = "\n"
            \/ AfterLine(i) = Len(text) + 1 /\ \A j \in i .. Len(text) : text[j] # "\n"
<1> DEFINE newlines == {j \in i .. Len(text) : text[j] = "\n"}
           first == CHOOSE j \in newlines : \A k \in newlines : j <= k
<1>1. newlines \subseteq i .. Len(text) /\ Len(text) \in Nat /\ newlines \subseteq Nat
  OBVIOUS
<1>2. AfterLine(i) = IF newlines = {} THEN Len(text) + 1 ELSE 1 + first
  BY DEF AfterLine
<1>3. \A j \in i .. Len(text) : text[j] = "\n" <=> j \in newlines
  OBVIOUS
<1> HIDE DEF newlines
<1>4. CASE newlines = {}
  <2>1. AfterLine(i) = Len(text) + 1
    BY <1>2, <1>4
  <2>2. \A j \in i .. Len(text) : text[j] # "\n"
    BY <1>3, <1>4
  <2>3. Len(text) + 1 \in i + 1 .. Len(text) + 1 /\ \A j \in i .. (Len(text) + 1) - 2 : j \in i .. Len(text)
    BY <1>1
  <2> QED
    BY <2>1, <2>2, <2>3
<1>5. CASE newlines # {}
  <2>1. \E j \in newlines : \A k \in newlines : j <= k
    BY <1>1, <1>5, Least
  <2>2. first \in newlines /\ \A k \in newlines : first <= k
    BY <2>1
  <2>3. AfterLine(i) = 1 + first
    BY <1>2, <1>5
  <2> HIDE DEF first
  <2>4. first \in i .. Len(text)
    BY <1>1, <2>2
  <2>5. 1 + first \in i + 1 .. Len(text) + 1 /\ (1 + first) - 1 = first
        /\ \A j \in i .. (1 + first) - 2 : j \in i .. Len(text) /\ ~(first <= j)
    BY <1>1, <2>4
  <2> QED
    BY <1>3, <2>2, <2>3, <2>4, <2>5
<1> QED
  BY <1>4, <1>5

LEMMA ShownAt ==
  ASSUME text \in Seq(Characters), NEW i \in 1 .. Len(text), OutOfComment(i),
         text[i] \notin {"#", "\n"}
  PROVE  /\ i \in Shown /\ Rank(i) = Rank(i - 1) + 1
         /\ Rank(i) \in 1 .. Len(Places) /\ Places[Rank(i)] = i
         /\ OutOfComment(i + 1)
<1>1. Len(text) \in Nat
  OBVIOUS
<1>2. \A j \in 1 .. i : text[j] = "#" => \E k \in j .. i : text[k] = "\n"
  <2> SUFFICES ASSUME NEW j \in 1 .. i, text[j] = "#" PROVE \E k \in j .. i : text[k] = "\n"
    OBVIOUS
  <2>1. j # i /\ j \in 1 .. i - 1 /\ \A k \in j .. i - 1 : k \in j .. i
    BY <1>1
  <2> QED
    BY <2>1 DEF OutOfComment
<1>3. i \in Shown
  BY <1>2 DEF Shown, Visible
<1>4. i - 1 \in Nat /\ (i - 1) + 1 = i /\ (i + 1) - 1 = i
  BY <1>1
<1>5. Rank(i) = Rank(i - 1) + 1
  BY <1>3, <1>4, RankCounts
<1>6. Rank(i) \in 1 .. Len(Places) /\ Places[Rank(i)] = i
  BY <1>3, PlacesAre
<1>7. OutOfComment(i + 1)
  BY <1>2, <1>4 DEF OutOfComment
<1> QED
  BY <1>3, <1>5, <1>6, <1>7

LEMMA SkippedUnseen ==
  ASSUME text \in Seq(Characters), NEW i \in 1 .. Len(text), text[i] \in {"#", "\n"}
  PROVE  /\ AfterLine(i) \in i + 1 .. Len(text) + 1
         /\ Rank(AfterLine(i) - 1) = Rank(i - 1)
         /\ AfterLine(i) <= Len(text) => OutOfComment(AfterLine(i))
<1> DEFINE b == AfterLine(i)
<1>1. /\ b \in i + 1 .. Len(text) + 1 /\ Len(text) \in Nat
      /\ \A j \in i .. b - 2 : text[j] # "\n"
      /\ text[b - 1] = "\n" \/ (b = Len(text) + 1 /\ \A j \in i .. Len(text) : text[j] # "\n")
  BY AfterLineIs
<1> HIDE DEF b
<1>2. i - 1 \in Nat /\ b - 1 \in Nat /\ i - 1 <= b - 1 /\ i \in Int /\ b \in Int
  BY <1>1
<1>3. ASSUME NEW j \in Shown, ~(j <= i - 1), ~(j > b - 1) PROVE FALSE
  <2>1. j \in 1 .. Len(text) /\ text[j] # "\n" /\ \A e \in 1 .. j : text[e] = "#" => \E k \in e .. j : text[k] = "\n"
    BY DEF Shown, Visible
  <2>2. j \in i .. b - 1 /\ i \in 1 .. j
    BY <1>1, <1>2, <1>3, <2>1
  <2>3. CASE text[i] = "#"
    <3>1. PICK k \in i .. j : text[k] = "\n"
      BY <2>1, <2>2, <2>3
    <3>2. k # j /\ k \in i .. b - 2
      BY <1>2, <2>1, <2>2, <3>1
    <3> QED
      BY <1>1, <3>1, <3>2
  <2>4. CASE text[i] = "\n"
    <3>1. i \notin i .. b - 2
      BY <1>1, <2>4
    <3>2. b - 1 = i /\ j = i
      BY <1>1, <1>2, <2>2, <3>1
    <3> QED
      BY <2>1, <2>4, <3>2
  <2> QED
    BY <2>3, <2>4
<1>4. Rank(i - 1) = Rank(b - 1)
  <2>1. \A j \in Shown : j <= i - 1 \/ j > b - 1
    BY <1>3
  <2> QED
    BY <1>2, <2>1, RankGrows
<1>5. ASSUME b <= Len(text) PROVE OutOfComment(b)
  <2>1. text[b - 1] = "\n"
    BY <1>1, <1>5
  <2>2. \A j \in 1 .. b - 1 : b - 1 \in j .. b - 1
    BY <1>2
  <2> QED
    BY <2>1, <2>2 DEF OutOfComment
<1> QED
  BY <1>1, <1>4, <1>5 DEF b

LEMMA FirstNotBlank ==
  ASSUME NEW l \in Lexemes, NEW s, Reads(s, l)
  PROVE  l[1] \notin Blanks
<1>1. l # <<>> /\ 1 \in DOMAIN l
  BY LexemeFacts DEF Lexemes
<1>2. l[1] \in Letters \cup Digits \cup {"'"} \cup Signs
  BY <1>1, FirstCharacter DEF Reads
<1>3. Letters \cap Blanks = {}
  BY LettersAssumption
<1>4. \A ch \in Digits \cup {"'"} \cup Signs : ch \notin Blanks
  BY NamedApart, SMTT(60) DEF Digits, Signs, Blanks, Named, Plainly
<1> QED
  BY <1>2, <1>3, <1>4

LEMMA FirstOfAll ==
  ASSUME NEW S, NEW q \in Seq(S), Len(q) >= 1
  PROVE  SubSeq(q, 1, 1) = <<q[1]>>
<1>1. 1 \in 1 .. Len(q)
  OBVIOUS
<1>2. /\ SubSeq(q, 1, 1) \in Seq(S) /\ Len(SubSeq(q, 1, 1)) = 1
      /\ \A i \in 1 .. 1 : SubSeq(q, 1, 1)[i] = q[i]
  BY ONLY <1>1, q \in Seq(S), FirstPart
<1>3. SubSeq(q, 1, 1) = <<SubSeq(q, 1, 1)[1]>>
  BY ONLY <1>2, TupleIs
<1> QED
  BY ONLY <1>2, <1>3

LEMMA LeadingZero ==
  ASSUME NEW l \in Lexemes
  PROVE  IsStrictPrefix(<<"0">>, l) <=> l[1] = "0" /\ Len(l) > 1
<1>1. l \in Seq(Characters) /\ Len(l) \in Nat /\ Len(l) >= 1
  BY LexemeFacts DEF Lexemes
<1>2. IsPrefix(<<"0">>, l) <=> l[1] = "0"
  <2> DEFINE z == <<"0">>
             S == {"0"}
  <2>1. z \in Seq(S) /\ Len(z) = 1 /\ z[1] = "0"
    OBVIOUS
  <2> HIDE DEF z, S
  <2>3. SubSeq(z, 1, 1) = <<z[1]>> /\ SubSeq(l, 1, 1) = <<l[1]>>
    <3>1. Len(z) >= 1
      BY <2>1
    <3> QED
      BY ONLY <1>1, <2>1, <3>1, FirstOfAll
  <2>4. IsPrefix(z, l) <=> 1 <= Len(l) /\ SubSeq(z, 1, 1) = SubSeq(l, 1, 1)
    BY <2>1 DEF IsPrefix
  <2>5. \A a, b : <<a>> = <<b>> <=> a = b
    OBVIOUS
  <2>6. IsPrefix(z, l) <=> z[1] = l[1]
    BY ONLY <1>1, <2>3, <2>4, <2>5
  <2> QED
    BY ONLY <2>1, <2>6 DEF z
<1>3. l[1] = "0" => (<<"0">> # l <=> Len(l) > 1)
  <2>1. Len(l) = 1 => l = <<l[1]>>
    BY ONLY <1>1, TupleIs
  <2>2. Len(<<"0">>) = 1
    OBVIOUS
  <2>6. Len(l) \in Nat /\ Len(l) >= 1
    BY ONLY <1>1
  <2>3. Len(l) = 1 <=> ~(Len(l) > 1)
    BY ONLY <2>6
  <2>4. ASSUME l[1] = "0", Len(l) = 1 PROVE l = <<"0">>
    <3>1. \A a : a = "0" => <<a>> = <<"0">>
      OBVIOUS
    <3>2. <<l[1]>> = <<"0">>
      BY ONLY <2>4, <3>1
    <3>3. l = <<l[1]>>
      BY ONLY <2>1, <2>4
    <3> QED
      BY ONLY <3>2, <3>3
  <2>5. <<"0">> = l => Len(l) = 1
    BY ONLY <2>2
  <2> QED
    BY ONLY <2>3, <2>4, <2>5
<1> QED
  BY <1>2, <1>3 DEF IsStrictPrefix

Reference == Cut(Places)

\* The place, among the visible characters, where the lexeme under way begins.
First(a, l) == Rank(a - 1) + 1 - Len(l)

\* The lexeme l has been read up to the a-th character of the text.
Underway(a, s, l) ==
  /\ a \in 1 .. Len(text) + 1
  /\ a <= Len(text) => OutOfComment(a)
  /\ l \in Seq(Characters)
  /\ First(a, l) \in 1 .. Len(Places) + 1
  /\ l = Chars(Places, First(a, l), Rank(a - 1))
  /\ Reads(s, l)

\* The automaton stops there.
Stops(a, s) ==
  a <= Len(text) => text[a] \notin {"#", "\n"} /\ transitions(s, text[a]) = "ERROR"

LEMMA RankAt ==
  ASSUME text \in Seq(Characters), NEW a, NEW s, NEW l, Underway(a, s, l)
  PROVE  /\ Rank(a - 1) \in 0 .. Len(Places) /\ Len(Places) \in Nat
         /\ a > Len(text) => Rank(a - 1) = Len(Places)
         /\ First(a, l) \in Nat /\ Len(l) = Rank(a - 1) + 1 - First(a, l) /\ Len(l) \in Nat
         /\ Rank(a - 1) \in First(a, l) - 1 .. Len(Places)
         /\ Len(text) \in Nat
<1>1. Len(text) \in Nat
  OBVIOUS
<1>2. a \in 1 .. Len(text) + 1 /\ First(a, l) \in 1 .. Len(Places) + 1
  BY DEF Underway
<1>3. Len(l) \in Nat
  BY DEF Underway
<1>4. a - 1 \in Nat /\ a - 1 <= Len(text) /\ (a > Len(text) => a - 1 = Len(text))
  BY ONLY <1>1, <1>2
<1>5. Rank(a - 1) \in Nat /\ Rank(a - 1) <= Rank(Len(text))
  BY <1>1, <1>4, RankCounts, RankGrows
<1>6. Len(Places) = Rank(Len(text)) /\ Len(Places) \in Nat
  BY PlacesAre
<1>7. First(a, l) = Rank(a - 1) + 1 - Len(l)
  BY DEF First
<1>8. a > Len(text) => Rank(a - 1) = Rank(Len(text))
  BY <1>4
<1> QED
  BY ONLY <1>1, <1>2, <1>3, <1>5, <1>6, <1>7, <1>8

LEMMA SkipsOn ==
  ASSUME text \in Seq(Characters), NEW a, NEW s, NEW l, Underway(a, s, l),
         a <= Len(text), text[a] \in {"#", "\n"}
  PROVE  Underway(AfterLine(a), s, l) /\ First(AfterLine(a), l) = First(a, l)
<1>1. a \in 1 .. Len(text)
  BY DEF Underway
<1>2. /\ AfterLine(a) \in a + 1 .. Len(text) + 1
      /\ Rank(AfterLine(a) - 1) = Rank(a - 1)
      /\ AfterLine(a) <= Len(text) => OutOfComment(AfterLine(a))
  BY <1>1, SkippedUnseen
<1>3. AfterLine(a) \in 1 .. Len(text) + 1
  BY <1>1, <1>2
<1>4. First(AfterLine(a), l) = First(a, l)
  BY <1>2 DEF First
<1> QED
  BY <1>2, <1>3, <1>4 DEF Underway

LEMMA BlankOn ==
  ASSUME text \in Seq(Characters), NEW a, NEW s, NEW l, Underway(a, s, l), l = <<>>,
         a <= Len(text), text[a] \in Blanks, text[a] \notin {"#", "\n"}
  PROVE  /\ Underway(a + 1, s, l)
         /\ Reference[First(a + 1, l)] = Reference[First(a, l)]
<1>1. a \in 1 .. Len(text) /\ OutOfComment(a)
  BY DEF Underway
<1>2. /\ Rank(a) = Rank(a - 1) + 1 /\ Rank(a) \in 1 .. Len(Places)
      /\ Places[Rank(a)] = a /\ OutOfComment(a + 1)
  BY <1>1, ShownAt
<1>3. (a + 1) - 1 = a /\ a + 1 \in 1 .. Len(text) + 1 /\ Len(l) = 0
  BY <1>1
<1>4. First(a, l) = Rank(a) /\ First(a + 1, l) = Rank(a) + 1
  <2>1. Rank(a - 1) \in 0 .. Len(Places) /\ Len(Places) \in Nat
    BY RankAt
  <2> QED
    BY <1>2, <1>3, <2>1 DEF First
<1>5. Rank(a) + 1 \in 1 .. Len(Places) + 1 /\ (Rank(a) + 1) - 1 = Rank(a) /\ ~(Rank(a) > Len(Places))
      /\ Rank(a) \in 1 .. Len(Places) + 1
  BY <1>2, PlacesAre
<1>6. Chars(Places, Rank(a) + 1, (Rank(a) + 1) - 1) = <<>>
  BY <1>5, PlacesAre, CharsGrow
<1>7. Underway(a + 1, s, l)
  BY <1>1, <1>2, <1>3, <1>4, <1>5, <1>6 DEF Underway
<1>8. Reference[Rank(a)] = CutAt(Places, Reference, Rank(a))
  BY <1>5, PlacesAre, CutIs DEF Reference
<1>9. CutAt(Places, Reference, Rank(a)) = Reference[Rank(a) + 1]
  BY <1>2, <1>5 DEF CutAt
<1> QED
  BY <1>4, <1>7, <1>8, <1>9

LEMMA ReadsMore ==
  ASSUME text \in Seq(Characters), NEW a, NEW s, NEW l, Underway(a, s, l),
         a <= Len(text), text[a] \notin {"#", "\n"}, transitions(s, text[a]) # "ERROR"
  PROVE  /\ Underway(a + 1, transitions(s, text[a]), Append(l, text[a]))
         /\ First(a + 1, Append(l, text[a])) = First(a, l)
         /\ Places[Rank(a)] = a
<1> DEFINE ch == text[a]
           i == First(a, l)
           m == Rank(a - 1)
<1>1. a \in 1 .. Len(text) /\ OutOfComment(a)
  BY DEF Underway
<1>2. /\ Rank(a) = m + 1 /\ Rank(a) \in 1 .. Len(Places)
      /\ Places[Rank(a)] = a /\ OutOfComment(a + 1)
  BY <1>1, ShownAt
<1>3. (a + 1) - 1 = a /\ a + 1 \in 1 .. Len(text) + 1
  BY <1>1
<1>4. m \in 0 .. Len(Places) /\ Len(Places) \in Nat /\ i \in Nat /\ Len(l) \in Nat
      /\ m \in i - 1 .. Len(Places) /\ Len(l) = m + 1 - i
  BY RankAt
<1>5. l \in Seq(Characters) /\ l = Chars(Places, i, m) /\ Reads(s, l) /\ i \in 1 .. Len(Places) + 1
  BY DEF Underway
<1> HIDE DEF i, m
<1>6. m \in i - 1 .. Len(Places) - 1
  BY ONLY <1>2, <1>4
<1>7. text[Places[m + 1]] \in Characters /\ Chars(Places, i, m + 1) = Append(l, text[Places[m + 1]])
  BY <1>5, <1>6, PlacesAre, CharsGrow
<1>8. ch \in Characters /\ Chars(Places, i, Rank(a)) = Append(l, ch)
  BY <1>2, <1>7
<1> HIDE DEF ch
<1>9. Append(l, ch) \in Seq(Characters) /\ Len(Append(l, ch)) = Len(l) + 1
  BY ONLY <1>5, <1>8, AppendMore
<1>10. First(a + 1, Append(l, ch)) = i
  <2>1. First(a + 1, Append(l, ch)) = Rank(a) + 1 - (Len(l) + 1)
    BY <1>3, <1>9 DEF First
  <2> QED
    BY ONLY <1>2, <1>4, <2>1
<1>11. Reads(transitions(s, ch), Append(l, ch))
  BY <1>5, <1>8, ReadsOn DEF ch
<1>12. Underway(a + 1, transitions(s, ch), Append(l, ch))
  BY <1>2, <1>3, <1>5, <1>8, <1>9, <1>10, <1>11 DEF Underway
<1> QED
  BY <1>2, <1>10, <1>12 DEF ch, i

\* No lexeme begins with the character.
LEMMA NoneBegins ==
  ASSUME text \in Seq(Characters), NEW a, NEW l, Underway(a, "START", l), l = <<>>,
         Stops(a, "START"), a <= Len(text), text[a] \notin Blanks
  PROVE  Reference[First(a, l)] = NoMore("error")
<1> DEFINE i == First(a, l)
           m == Rank(a - 1)
<1>1. a \in 1 .. Len(text) /\ OutOfComment(a)
  BY DEF Underway
<1>2. Rank(a) = m + 1 /\ Rank(a) \in 1 .. Len(Places) /\ Places[Rank(a)] = a
  BY <1>1, ShownAt DEF Stops
<1>3. Len(l) = 0
  OBVIOUS
<1>4. m \in 0 .. Len(Places) /\ Len(Places) \in Nat /\ i \in Nat
      /\ m \in i - 1 .. Len(Places) /\ Len(l) = m + 1 - i
  BY RankAt
<1>5. l = Chars(Places, i, m) /\ Reads("START", l) /\ i \in 1 .. Len(Places) + 1
  BY DEF Underway
<1> HIDE DEF i, m
<1>6. m + 1 = i /\ i = Rank(a) /\ m < i /\ ~(i > Len(Places))
  BY ONLY <1>2, <1>3, <1>4
<1>7. LexemeEnds(Places, i) = {}
  <2>1. m < Len(Places) => transitions("START", text[Places[m + 1]]) = "ERROR"
    BY <1>2, <1>6 DEF Stops
  <2>2. Reads("START", Chars(Places, i, m))
    BY <1>5
  <2> QED
    BY <1>4, <1>5, <1>6, <2>1, <2>2, PlacesAre, LongestEnds
<1>8. Reference[i] = CutAt(Places, Reference, i)
  BY <1>5, PlacesAre, CutIs DEF Reference
<1> QED
  BY <1>2, <1>6, <1>7, <1>8 DEF CutAt, i

\* The lexeme under way is the longest from its beginning on.
LEMMA LexemeOver ==
  ASSUME text \in Seq(Characters), NEW a, NEW s, NEW l, Underway(a, s, l), l # <<>>,
         Stops(a, s)
  PROVE  LET i == First(a, l)
             m == Rank(a - 1)
             t == Lexeme(Places, i, m)
         IN  /\ i \in 1 .. Len(Places) /\ m \in 1 .. Len(Places) /\ t \in LexemesOf(Places)
             /\ t.lexeme = l /\ t.type = Kind(l) /\ t.last = Places[m]
             /\ First(a, <<>>) = m + 1
             /\ IF s = "NUM" /\ NumError(l)
                THEN Reference[i] = NoMore(IF a > Len(text) THEN "throw" ELSE "error")
                ELSE IF s \in Quoted /\ a > Len(text) THEN Reference[i] = NoMore("well")
                ELSE Reference[i] = Before(t, Reference[m + 1])
<1> DEFINE i == First(a, l)
           m == Rank(a - 1)
           t == Lexeme(Places, i, m)
           n == Len(Places)
<1>1. a \in 1 .. Len(text) + 1 /\ (a <= Len(text) => OutOfComment(a)) /\ Len(text) \in Nat
  BY DEF Underway
<1>2. l \in Lexemes /\ Reads(s, l)
  BY DEF Underway, Lexemes
<1>3. m \in 0 .. n /\ n \in Nat /\ i \in Nat
      /\ m \in i - 1 .. n /\ Len(l) = m + 1 - i /\ (a > Len(text) => m = n)
  BY RankAt
<1>4. l = Chars(Places, i, m) /\ i \in 1 .. n + 1
  BY DEF Underway
<1>5. Len(l) \in Nat /\ Len(l) >= 1
  BY <1>2, LexemeFacts
<1>6. i \in 1 .. n /\ m \in 1 .. n /\ m >= i /\ ~(i > n) /\ ~(m < i) /\ m \in Int
  BY ONLY <1>3, <1>4, <1>5
<1>7. ASSUME a <= Len(text)
      PROVE  m < n /\ transitions(s, text[Places[m + 1]]) = "ERROR"
  <2>1. a \in 1 .. Len(text) /\ text[a] \notin {"#", "\n"} /\ transitions(s, text[a]) = "ERROR"
    BY <1>1, <1>7 DEF Stops
  <2>2. Rank(a) = m + 1 /\ Rank(a) \in 1 .. n /\ Places[Rank(a)] = a
    BY <1>1, <1>7, <2>1, ShownAt
  <2>3. m < n
    BY ONLY <1>3, <2>2
  <2> QED
    BY <2>1, <2>2, <2>3
<1>8. m = n <=> a > Len(text)
  <2>1. a <= Len(text) \/ a > Len(text)
    BY ONLY <1>1
  <2>2. a <= Len(text) => m < n
    BY <1>7
  <2>3. ~(a <= Len(text) /\ a > Len(text))
    BY ONLY <1>1
  <2> QED
    BY ONLY <1>3, <2>1, <2>2, <2>3
<1>9. m < n => transitions(s, text[Places[m + 1]]) = "ERROR"
  <2>1. m < n => a <= Len(text)
    BY ONLY <1>1, <1>3, <1>8
  <2> QED
    BY <1>7, <2>1
<1>10. LexemeEnds(Places, i) # {} /\ Max(LexemeEnds(Places, i)) = m
  <2>1. Reads(s, Chars(Places, i, m))
    BY <1>2, <1>4
  <2> QED
    BY <1>3, <1>4, <1>6, <1>9, <2>1, PlacesAre, LongestEnds
<1>11. t.lexeme = l /\ t.type = Kind(l) /\ t.last = Places[m]
  BY <1>4 DEF Lexeme
<1>12. t \in LexemesOf(Places)
  BY <1>6 DEF LexemesOf
<1>13. text[Places[i]] \notin Blanks
  <2>1. l[1] = text[Places[i]]
    <3>1. 1 \in 1 .. m - i + 1 /\ i + 1 - 1 = i
      BY ONLY <1>3, <1>6
    <3>2. l = [k \in 1 .. m - i + 1 |-> text[Places[i + k - 1]]]
      BY <1>4 DEF Chars
    <3> HIDE DEF i, m
    <3>3. l[1] = text[Places[i + 1 - 1]]
      BY ONLY <3>1, <3>2
    <3> QED
      BY ONLY <3>1, <3>3
  <2> QED
    BY <1>2, <2>1, FirstNotBlank
<1>14. (t.type = "NUM" <=> s = "NUM") /\ (t.type = "begun" <=> s \in Quoted)
  BY <1>2, <1>11, TokenIs
<1>15. NoNumber(t) <=> s = "NUM" /\ NumError(l)
  <2>1. IsStrictPrefix(<<"0">>, l) <=> l[1] = "0" /\ Len(l) > 1
    BY <1>2, LeadingZero
  <2> QED
    BY <1>11, <1>14, <2>1 DEF NoNumber, NumError
<1>16. Reference[i] = CutAt(Places, Reference, i)
  BY <1>4, PlacesAre, CutIs DEF Reference
<1>17. First(a, <<>>) = m + 1
  <2>1. Len(<<>>) = 0
    OBVIOUS
  <2>2. First(a, <<>>) = m + 1 - Len(<<>>)
    BY DEF First
  <2> QED
    BY ONLY <1>3, <2>1, <2>2
<1> DEFINE R == Reference
<1>18. R[i] = IF NoNumber(t) THEN NoMore(IF m = n THEN "throw" ELSE "error")
              ELSE IF t.type = "begun" /\ m = n THEN NoMore("well")
              ELSE Before(t, R[m + 1])
  BY <1>6, <1>10, <1>13, <1>16 DEF CutAt
<1> HIDE DEF i, m, t, n, R
<1>19. IF s = "NUM" /\ NumError(l)
       THEN R[i] = NoMore(IF a > Len(text) THEN "throw" ELSE "error")
       ELSE IF s \in Quoted /\ a > Len(text) THEN R[i] = NoMore("well")
       ELSE R[i] = Before(t, R[m + 1])
  BY ONLY <1>8, <1>14, <1>15, <1>18
<1> QED
  BY <1>6, <1>11, <1>12, <1>17, <1>19 DEF i, m, t, n, R

-------------------------------------------------------------------------------
(* The tokens made, and those of the reference.                            *)

Matches(token, t) ==
  /\ token.lexeme = t.lexeme
  /\ IF t.type = "begun" THEN token.type \in {"EoF", "start", "procedures"}
     ELSE token.type = t.type

\* The tokens behind BoF are the ones that D says.
Made(D, st) ==
  /\ D \in Seq(LexemesOf(Places)) /\ st \in Seq(Tokens)
  /\ Len(st) = Len(D) + 1
  /\ \A k \in 1 .. Len(D) : Matches(st[k + 1], D[k])

\* D are the first of the reference's tokens, the others those from the lexeme
\* under way on.
Cutting(D, a, s, l, st) ==
  /\ Underway(a, s, l)
  /\ Made(D, st)
  /\ Meant.tokens = D \o Reference[First(a, l)].tokens
  /\ Meant.ends = Reference[First(a, l)].ends

\* D are all of them.
Ended(D, st, e) ==
  /\ Made(D, st)
  /\ Meant.tokens = D
  /\ Meant.ends = e

LEMMA AppendConcat ==
  ASSUME NEW S, NEW D \in Seq(S), NEW r \in Seq(S), NEW t \in S
  PROVE  D \o (<<t>> \o r) = Append(D, t) \o r
<1>1. <<t>> \in Seq(S)
  OBVIOUS
<1>2. (D \o <<t>>) \o r = D \o (<<t>> \o r)
  BY ONLY <1>1, D \in Seq(S), r \in Seq(S), ConcatAssociative
<1>3. D \o <<t>> = Append(D, t)
  BY ONLY D \in Seq(S), t \in S, AppendIsConcat
<1> QED
  BY ONLY <1>2, <1>3

LEMMA MadeMore ==
  ASSUME NEW D, NEW st, Made(D, st), NEW t \in LexemesOf(Places), NEW token \in Tokens,
         Matches(token, t)
  PROVE  Made(Append(D, t), Append(st, token))
<1> DEFINE E == Append(D, t)
           su == Append(st, token)
           L == LexemesOf(Places)
           n == Len(D)
<1>1. D \in Seq(L) /\ st \in Seq(Tokens) /\ Len(st) = n + 1 /\ n \in Nat
      /\ \A k \in 1 .. n : Matches(st[k + 1], D[k])
  BY DEF Made
<1>2. t \in L
  OBVIOUS
<1> HIDE DEF L
<1>3. E \in Seq(L) /\ Len(E) = n + 1 /\ E[n + 1] = t /\ \A k \in 1 .. n : E[k] = D[k]
  BY ONLY <1>1, <1>2, AppendMore
<1>4. su \in Seq(Tokens) /\ Len(su) = Len(st) + 1 /\ su[Len(st) + 1] = token
      /\ \A k \in 1 .. Len(st) : su[k] = st[k]
  BY ONLY <1>1, token \in Tokens, AppendMore
<1> HIDE DEF E, su, n
<1>6. n \in Nat /\ Len(st) = n + 1
  BY <1>1
<1>5. ASSUME NEW k \in 1 .. n + 1
      PROVE  Matches(su[k + 1], E[k])
  <2>1. CASE k \in 1 .. n
    <3>1. k + 1 \in 1 .. Len(st)
      BY ONLY <1>6, <2>1
    <3>2. su[k + 1] = st[k + 1] /\ E[k] = D[k]
      BY ONLY <1>3, <1>4, <2>1, <3>1
    <3> QED
      BY <1>1, <2>1, <3>2
  <2>2. CASE k = n + 1
    <3>1. su[k + 1] = token /\ E[k] = t
      BY ONLY <1>3, <1>4, <1>6, <2>2
    <3> QED
      BY <3>1
  <2>3. k \in 1 .. n \/ k = n + 1
    BY ONLY <1>6, k \in 1 .. n + 1
  <2> QED
    BY ONLY <2>1, <2>2, <2>3
<1>7. E \in Seq(L) /\ su \in Seq(Tokens)
  BY ONLY <1>3, <1>4
<1>8. Len(E) = n + 1 /\ Len(su) = n + 1 + 1
  BY ONLY <1>3, <1>4, <1>6
<1>9. Made(E, su)
  BY <1>5, <1>7, <1>8 DEF Made, L
<1> QED
  BY <1>9 DEF E, su

LEMMA SkipsOnCutting ==
  ASSUME text \in Seq(Characters), NEW D, NEW a, NEW s, NEW l, NEW st, Cutting(D, a, s, l, st),
         a <= Len(text), text[a] \in {"#", "\n"}
  PROVE  Cutting(D, AfterLine(a), s, l, st)
<1>1. Underway(AfterLine(a), s, l) /\ First(AfterLine(a), l) = First(a, l)
  BY SkipsOn DEF Cutting
<1> QED
  BY <1>1 DEF Cutting

LEMMA BlankOnCutting ==
  ASSUME text \in Seq(Characters), NEW D, NEW a, NEW s, NEW l, NEW st, Cutting(D, a, s, l, st),
         l = <<>>, a <= Len(text), text[a] \in Blanks, text[a] \notin {"#", "\n"}
  PROVE  Cutting(D, a + 1, s, l, st)
<1>1. Underway(a + 1, s, l) /\ Reference[First(a + 1, l)] = Reference[First(a, l)]
  BY BlankOn DEF Cutting
<1> QED
  BY <1>1 DEF Cutting

LEMMA ReadsMoreCutting ==
  ASSUME text \in Seq(Characters), NEW D, NEW a, NEW s, NEW l, NEW st, Cutting(D, a, s, l, st),
         a <= Len(text), text[a] \notin {"#", "\n"}, transitions(s, text[a]) # "ERROR"
  PROVE  Cutting(D, a + 1, transitions(s, text[a]), Append(l, text[a]), st)
<1>1. /\ Underway(a + 1, transitions(s, text[a]), Append(l, text[a]))
      /\ First(a + 1, Append(l, text[a])) = First(a, l)
  BY ReadsMore DEF Cutting
<1> QED
  BY <1>1 DEF Cutting

\* Where the reference ends.
LEMMA NoMoreCutting ==
  ASSUME NEW D, NEW a, NEW s, NEW l, NEW st, Cutting(D, a, s, l, st), NEW e,
         Reference[First(a, l)] = NoMore(e)
  PROVE  Ended(D, st, e)
<1> DEFINE L == LexemesOf(Places)
<1>1. D \in Seq(L)
  BY DEF Cutting, Made
<1> HIDE DEF L
<1>2. D \o <<>> = D
  BY ONLY <1>1, ConcatEmptySeq
<1>3. Meant.tokens = D \o <<>> /\ Meant.ends = e
  BY DEF Cutting, NoMore
<1> QED
  BY <1>2, <1>3 DEF Ended, Cutting

\* The token that ends the lexeme under way.
LEMMA MakesToken ==
  ASSUME text \in Seq(Characters), NEW D, NEW a, NEW s, NEW l, NEW st, Cutting(D, a, s, l, st),
         l # <<>>, Stops(a, s), ~(s = "NUM" /\ NumError(l)), ~(s \in Quoted /\ a > Len(text)),
         NEW ln, NEW token \in Tokens, token = Token(TokenType(s, l), l, ln)
  PROVE  \E t \in LexemesOf(Places) :
            /\ t.last = Places[Rank(a - 1)]
            /\ Made(Append(D, t), Append(st, token))
            /\ Cutting(Append(D, t), a, "START", <<>>, Append(st, token))
<1> DEFINE i == First(a, l)
           m == Rank(a - 1)
           t == Lexeme(Places, i, m)
           r == Reference[m + 1].tokens
           L == LexemesOf(Places)
<1>1. Underway(a, s, l) /\ Made(D, st)
      /\ Meant.tokens = D \o Reference[i].tokens /\ Meant.ends = Reference[i].ends
  BY DEF Cutting
<1>2. /\ i \in 1 .. Len(Places) /\ m \in 1 .. Len(Places) /\ t \in L
      /\ t.lexeme = l /\ t.type = Kind(l) /\ t.last = Places[m]
      /\ First(a, <<>>) = m + 1
      /\ Reference[i] = Before(t, Reference[m + 1])
  BY <1>1, LexemeOver
<1>3. l \in Lexemes /\ Reads(s, l) /\ a \in 1 .. Len(text) + 1 /\ (a <= Len(text) => OutOfComment(a))
  BY <1>1 DEF Underway, Lexemes
<1>4. Matches(token, t)
  <2>1. IF s \in Quoted THEN TokenType(s, l) \in {"EoF", "start", "procedures"}
                        ELSE TokenType(s, l) = Kind(l)
    BY <1>3, TokenIs
  <2>2. Kind(l) = "begun" <=> s \in Quoted
    BY <1>3, TokenIs
  <2>3. token.lexeme = l /\ token.type = TokenType(s, l)
    BY DEF Token
  <2> QED
    BY <1>2, <2>1, <2>2, <2>3 DEF Matches
<1>5. m + 1 \in 1 .. Len(Places) + 1 /\ (m + 1) - 1 = m /\ Len(Places) \in Nat
  BY <1>2, PlacesAre
<1>6. r \in Seq(L)
  BY <1>5, PlacesAre, CutTyped DEF Reference
<1>7. Chars(Places, m + 1, (m + 1) - 1) = <<>>
  BY <1>5, PlacesAre, CharsGrow
<1>8. Underway(a, "START", <<>>)
  <2>1. <<>> \in Seq(Characters) /\ Reads("START", <<>>)
    BY DEF Reads
  <2> QED
    BY <1>2, <1>3, <1>5, <1>7, <2>1 DEF Underway
<1>9. D \in Seq(L)
  BY <1>1 DEF Made
<1>10. Reference[i].tokens = <<t>> \o r /\ Reference[i].ends = Reference[m + 1].ends
  BY <1>2 DEF Before
<1>11. Made(Append(D, t), Append(st, token))
  BY <1>1, <1>2, <1>4, MadeMore
<1>12. t \in L
  BY <1>2
<1> HIDE DEF t, r, L, i, m
<1>13. D \o (<<t>> \o r) = Append(D, t) \o r
  BY ONLY <1>6, <1>9, <1>12, AppendConcat
<1>14. Meant.tokens = Append(D, t) \o Reference[First(a, <<>>)].tokens
       /\ Meant.ends = Reference[First(a, <<>>)].ends
  BY <1>1, <1>2, <1>10, <1>13 DEF r
<1>15. Cutting(Append(D, t), a, "START", <<>>, Append(st, token))
  BY <1>8, <1>11, <1>14 DEF Cutting
<1> QED
  BY <1>2, <1>11, <1>12, <1>15 DEF L, m

LEMMA TextOver ==
  ASSUME text \in Seq(Characters), NEW a, NEW s, NEW l, Underway(a, s, l), l = <<>>,
         a > Len(text)
  PROVE  Reference[First(a, l)] = NoMore("well")
<1>1. Len(l) = 0
  OBVIOUS
<1>2. Rank(a - 1) = Len(Places) /\ Len(Places) \in Nat /\ First(a, l) \in Nat
      /\ Len(l) = Rank(a - 1) + 1 - First(a, l)
  BY RankAt
<1>3. First(a, l) = Len(Places) + 1 /\ First(a, l) > Len(Places)
      /\ First(a, l) \in 1 .. Len(Places) + 1
  BY ONLY <1>1, <1>2
<1>4. Reference[First(a, l)] = CutAt(Places, Reference, First(a, l))
  BY <1>3, PlacesAre, CutIs DEF Reference
<1> QED
  BY <1>3, <1>4 DEF CutAt

-------------------------------------------------------------------------------
(* The tokens' lines.                                                      *)

Newlines == {j \in Nat \ {0} : text[j] = "\n"}

LEMMA LineCounts ==
  ASSUME NEW i \in Nat \ {0}
  PROVE  /\ LineOf(i) \in Nat
         /\ LineOf(i + 1) = IF text[i] = "\n" THEN LineOf(i) + 1 ELSE LineOf(i)
         /\ \A k \in Nat \ {0} : i <= k /\ (\A j \in i .. k - 1 : text[j] # "\n") => LineOf(k) = LineOf(i)
<1>1. Newlines \subseteq Nat \ {0}
  BY DEF Newlines
<1>2. \A k \in Nat \ {0} : LineOf(k) = 1 + Cardinality(UpTo(Newlines, k - 1))
  <2> TAKE k \in Nat \ {0}
  <2>1. \A j : j \in 1 .. k - 1 <=> j \in Nat \ {0} /\ j <= k - 1
    OBVIOUS
  <2>2. {j \in 1 .. k - 1 : text[j] = "\n"} = UpTo(Newlines, k - 1)
    BY <2>1 DEF UpTo, Newlines
  <2> QED
    BY <2>2 DEF LineOf
<1>3. i - 1 \in Nat /\ (i - 1) + 1 = i /\ (i + 1) - 1 = i /\ i + 1 \in Nat \ {0}
  OBVIOUS
<1>4. /\ Cardinality(UpTo(Newlines, i - 1)) \in Nat
      /\ Cardinality(UpTo(Newlines, i)) = IF i \in Newlines THEN Cardinality(UpTo(Newlines, i - 1)) + 1
                                          ELSE Cardinality(UpTo(Newlines, i - 1))
  <2>1. \A e \in Nat : /\ Cardinality(UpTo(Newlines, e)) \in Nat
                       /\ Cardinality(UpTo(Newlines, e + 1)) =
                            IF e + 1 \in Newlines THEN Cardinality(UpTo(Newlines, e)) + 1
                            ELSE Cardinality(UpTo(Newlines, e))
    BY <1>1, Counts
  <2> DEFINE d == i - 1
  <2>2. d \in Nat /\ d + 1 = i
    BY <1>3
  <2> HIDE DEF d
  <2>3. /\ Cardinality(UpTo(Newlines, d)) \in Nat
        /\ Cardinality(UpTo(Newlines, d + 1)) =
             IF d + 1 \in Newlines THEN Cardinality(UpTo(Newlines, d)) + 1
             ELSE Cardinality(UpTo(Newlines, d))
    BY ONLY <2>1, <2>2
  <2> QED
    BY ONLY <2>2, <2>3 DEF d
<1>5. i \in Newlines <=> text[i] = "\n"
  BY DEF Newlines
<1>6. LineOf(i) = 1 + Cardinality(UpTo(Newlines, i - 1)) /\ LineOf(i + 1) = 1 + Cardinality(UpTo(Newlines, i))
  BY <1>2, <1>3
<1>7. ASSUME NEW k \in Nat \ {0}, i <= k, \A j \in i .. k - 1 : text[j] # "\n"
      PROVE  LineOf(k) = LineOf(i)
  <2>1. k - 1 \in Nat /\ i - 1 <= k - 1
    BY <1>7
  <2>2. \A j \in Newlines : j <= i - 1 \/ j > k - 1
    <3> SUFFICES ASSUME NEW j \in Newlines, ~(j <= i - 1), ~(j > k - 1) PROVE FALSE
      OBVIOUS
    <3>1. j \in Nat /\ text[j] = "\n"
      BY DEF Newlines
    <3>2. j \in i .. k - 1
      BY <2>1, <3>1
    <3> QED
      BY <1>7, <3>1, <3>2
  <2>3. Cardinality(UpTo(Newlines, i - 1)) = Cardinality(UpTo(Newlines, k - 1))
    BY <1>1, <1>3, <2>1, <2>2, CountsGrow
  <2> QED
    BY <1>2, <2>3
<1> QED
  BY <1>4, <1>5, <1>6, <1>7

LEMMA AfterLineCounts ==
  ASSUME text \in Seq(Characters), NEW i \in 1 .. Len(text)
  PROVE  \/ LineOf(AfterLine(i)) = LineOf(i) + 1
         \/ AfterLine(i) > Len(text) /\ LineOf(AfterLine(i)) = LineOf(i)
<1> DEFINE b == AfterLine(i)
<1>1. /\ b \in i + 1 .. Len(text) + 1 /\ Len(text) \in Nat
      /\ \A j \in i .. b - 2 : text[j] # "\n"
      /\ text[b - 1] = "\n" \/ (b = Len(text) + 1 /\ \A j \in i .. Len(text) : text[j] # "\n")
  BY AfterLineIs
<1> HIDE DEF b
<1>2. i \in Nat \ {0} /\ b \in Nat \ {0} /\ b - 1 \in Nat \ {0} /\ i <= b - 1 /\ i <= b /\ (b - 1) - 1 = b - 2
      /\ (b - 1) + 1 = b
  BY <1>1
<1>3. CASE text[b - 1] = "\n"
  <2>1. LineOf(b - 1) = LineOf(i)
    BY <1>1, <1>2, LineCounts
  <2>2. LineOf(b) = LineOf(b - 1) + 1
    BY <1>2, <1>3, LineCounts
  <2> QED
    BY <2>1, <2>2 DEF b
<1>4. CASE b = Len(text) + 1 /\ \A j \in i .. Len(text) : text[j] # "\n"
  <2>1. b - 1 = Len(text) /\ b > Len(text)
    BY <1>1, <1>4
  <2>2. LineOf(b) = LineOf(i)
    <3>1. \A j \in i .. b - 1 : text[j] # "\n"
      BY ONLY <1>4, <2>1
    <3> QED
      BY ONLY <1>2, <3>1, LineCounts
  <2> QED
    BY <2>1, <2>2 DEF b
<1> QED
  BY <1>1, <1>3, <1>4

\* ln is the line of what ends at p, or a later one that the next character is
\* not on.
Fits(p, ln) ==
  ln = LineOf(p) \/ (ln > LineOf(p) /\ p < Len(text) /\ text[p + 1] \in {"#", "\n"})

\* p is the last character of the lexeme under way, a the next to get.
Trails(p, a, ln) ==
  /\ p \in 1 .. Len(text)
  /\ \/ a = p + 1 /\ ln = LineOf(p)
     \/ ln >= LineOf(p) /\ p < Len(text) /\ text[p + 1] \in {"#", "\n"}

\* The lines of the tokens for D; a token's is not after the line that the next
\* one ends in.
LinesFit(D, st) ==
  /\ \A k \in 1 .. Len(D) : /\ st[k + 1].line_num \in Nat /\ D[k].last \in 1 .. Len(text)
                            /\ Fits(D[k].last, st[k + 1].line_num)
  /\ \A k, j \in 1 .. Len(D) : k < j => st[k + 1].line_num <= LineOf(D[j].last)

Lines(D, a, l, st, ln) ==
  /\ ln = LineOf(a) \/ (a > Len(text) /\ ln = LineOf(a) + 1)
  /\ LinesFit(D, st)
  /\ \A k \in 1 .. Len(D) : st[k + 1].line_num <= ln
  /\ l # <<>> => /\ Trails(Places[Rank(a - 1)], a, ln)
                 /\ \A k \in 1 .. Len(D) : st[k + 1].line_num <= LineOf(Places[Rank(a - 1)])

LEMMA SkipsOnLines ==
  ASSUME text \in Seq(Characters), NEW D, NEW a \in 1 .. Len(text), NEW l, NEW st, NEW ln,
         Lines(D, a, l, st, ln), text[a] \in {"#", "\n"}
  PROVE  Lines(D, AfterLine(a), l, st, ln + 1)
<1> DEFINE b == AfterLine(a)
           p == Places[Rank(a - 1)]
<1>1. Rank(b - 1) = Rank(a - 1)
  BY SkippedUnseen
<1>2. a \in Nat \ {0} /\ Len(text) \in Nat /\ ~(a > Len(text))
  OBVIOUS
<1>3. LineOf(a) \in Nat
  BY <1>2, LineCounts
<1>4. ln = LineOf(a) /\ ln \in Nat
  BY <1>2, <1>3 DEF Lines
<1>5. LineOf(b) = LineOf(a) + 1 \/ (b > Len(text) /\ LineOf(b) = LineOf(a))
  BY AfterLineCounts
<1>6. ln + 1 = LineOf(b) \/ (b > Len(text) /\ ln + 1 = LineOf(b) + 1)
  BY <1>4, <1>5
<1> HIDE DEF b, p
<1>7. LinesFit(D, st) /\ \A k \in 1 .. Len(D) : st[k + 1].line_num \in Nat /\ st[k + 1].line_num <= ln
  BY DEF Lines, LinesFit
<1>8. \A k \in 1 .. Len(D) : st[k + 1].line_num <= ln + 1
  BY ONLY <1>4, <1>7
<1>9. Trails(p, a, ln) => Trails(p, b, ln + 1)
  <2> SUFFICES ASSUME Trails(p, a, ln) PROVE Trails(p, b, ln + 1)
    OBVIOUS
  <2>1. p \in 1 .. Len(text) /\ p \in Nat \ {0}
    BY DEF Trails
  <2>2. LineOf(p) \in Nat
    BY <2>1, LineCounts
  <2>3. CASE a = p + 1 /\ ln = LineOf(p)
    <3>1. p < Len(text) /\ ln + 1 >= LineOf(p)
      BY <1>2, <1>4, <2>1, <2>2, <2>3
    <3> QED
      BY <2>1, <2>3, <3>1 DEF Trails
  <2>4. CASE ln >= LineOf(p) /\ p < Len(text) /\ text[p + 1] \in {"#", "\n"}
    <3>1. ln + 1 >= LineOf(p)
      BY <1>4, <2>2, <2>4
    <3> QED
      BY <2>1, <2>4, <3>1 DEF Trails
  <2> QED
    BY <2>3, <2>4 DEF Trails
<1>10. l # <<>> => Trails(p, a, ln) /\ \A k \in 1 .. Len(D) : st[k + 1].line_num <= LineOf(p)
  BY DEF Lines, p
<1>11. Places[Rank(b - 1)] = p
  BY <1>1 DEF p
<1> QED
  BY <1>6, <1>7, <1>8, <1>9, <1>10, <1>11 DEF Lines, b

LEMMA BlankOnLines ==
  ASSUME text \in Seq(Characters), NEW D, NEW a \in 1 .. Len(text), NEW l, NEW st, NEW ln,
         Lines(D, a, l, st, ln), l = <<>>, text[a] # "\n"
  PROVE  Lines(D, a + 1, l, st, ln)
<1>1. a \in Nat \ {0} /\ Len(text) \in Nat /\ ~(a > Len(text))
  OBVIOUS
<1>2. LineOf(a + 1) = LineOf(a)
  BY <1>1, LineCounts
<1> QED
  BY <1>1, <1>2 DEF Lines

LEMMA ReadsMoreLines ==
  ASSUME text \in Seq(Characters), NEW D, NEW a \in 1 .. Len(text), NEW l, NEW m, NEW st, NEW ln,
         Lines(D, a, l, st, ln), text[a] # "\n", Places[Rank(a)] = a
  PROVE  Lines(D, a + 1, m, st, ln)
<1>1. a \in Nat \ {0} /\ Len(text) \in Nat /\ ~(a > Len(text)) /\ (a + 1) - 1 = a
  OBVIOUS
<1>2. LineOf(a + 1) = LineOf(a)
  BY <1>1, LineCounts
<1>3. ln = LineOf(a)
  BY <1>1 DEF Lines
<1>4. Trails(a, a + 1, ln)
  BY <1>3 DEF Trails
<1>5. LinesFit(D, st) /\ \A k \in 1 .. Len(D) : st[k + 1].line_num <= ln
  BY DEF Lines
<1>6. Places[Rank((a + 1) - 1)] = a
  BY <1>1
<1> QED
  BY <1>2, <1>3, <1>4, <1>5, <1>6 DEF Lines

LEMMA MakesTokenLines ==
  ASSUME text \in Seq(Characters), NEW D, NEW a \in 1 .. Len(text) + 1, NEW l, NEW st, NEW ln \in Nat,
         Lines(D, a, l, st, ln), l # <<>>, Made(D, st),
         NEW t \in LexemesOf(Places), t.last = Places[Rank(a - 1)],
         NEW token \in Tokens, token.line_num = ln
  PROVE  /\ LinesFit(Append(D, t), Append(st, token))
         /\ Lines(Append(D, t), a, <<>>, Append(st, token), ln)
<1> DEFINE E == Append(D, t)
           su == Append(st, token)
           L == LexemesOf(Places)
           n == Len(D)
           p == Places[Rank(a - 1)]
<1>1. D \in Seq(L) /\ st \in Seq(Tokens) /\ Len(st) = n + 1 /\ n \in Nat
  BY DEF Made
<1>2. t \in L
  OBVIOUS
<1> HIDE DEF L
<1>3. E \in Seq(L) /\ Len(E) = n + 1 /\ E[n + 1] = t /\ \A k \in 1 .. n : E[k] = D[k]
  BY ONLY <1>1, <1>2, AppendMore
<1>4. su \in Seq(Tokens) /\ Len(su) = Len(st) + 1 /\ su[Len(st) + 1] = token
      /\ \A k \in 1 .. Len(st) : su[k] = st[k]
  BY ONLY <1>1, token \in Tokens, AppendMore
<1> HIDE DEF E, su, n
<1>6. n \in Nat /\ Len(st) = n + 1
  BY <1>1
<1>7. \A k \in 1 .. n : su[k + 1] = st[k + 1] /\ E[k] = D[k]
  <2>1. \A k \in 1 .. n : k + 1 \in 1 .. Len(st)
    BY ONLY <1>6
  <2> QED
    BY ONLY <1>3, <1>4, <2>1
<1>8. su[(n + 1) + 1] = token /\ E[n + 1] = t
  BY ONLY <1>3, <1>4, <1>6
<1>9. Trails(p, a, ln)
  BY DEF Lines
<1>10. p \in 1 .. Len(text) /\ LineOf(p) \in Nat
  <2>1. p \in 1 .. Len(text)
    BY <1>9 DEF Trails
  <2> HIDE DEF p
  <2>2. p \in Nat \ {0}
    BY ONLY <2>1
  <2>3. LineOf(p) \in Nat
    BY ONLY <2>2, LineCounts
  <2> QED
    BY ONLY <2>1, <2>3
<1>11. Fits(p, ln)
  BY <1>9, <1>10 DEF Trails, Fits
<1>12. /\ \A k \in 1 .. n : /\ st[k + 1].line_num \in Nat /\ D[k].last \in 1 .. Len(text)
                            /\ Fits(D[k].last, st[k + 1].line_num)
       /\ \A k, j \in 1 .. n : k < j => st[k + 1].line_num <= LineOf(D[j].last)
       /\ \A k \in 1 .. n : st[k + 1].line_num <= ln /\ st[k + 1].line_num <= LineOf(p)
  BY DEF Lines, LinesFit, n
<1> DEFINE Old(k) == k \in 1 .. n
<1>13. /\ \A k \in 1 .. n + 1 : Old(k) \/ k = n + 1
       /\ \A k, j \in 1 .. n + 1 : k < j => Old(k)
  BY ONLY <1>6
<1> HIDE DEF p
<1>14. t.last = p /\ token.line_num = ln
  BY DEF p
<1>15. ASSUME NEW k \in 1 .. n + 1
       PROVE  /\ su[k + 1].line_num \in Nat /\ E[k].last \in 1 .. Len(text)
              /\ Fits(E[k].last, su[k + 1].line_num)
              /\ su[k + 1].line_num <= ln
  <2>1. CASE Old(k)
    BY <1>7, <1>12, <2>1
  <2>2. CASE k = n + 1
    BY <1>8, <1>10, <1>11, <1>14, <2>2
  <2> QED
    BY <1>13, <2>1, <2>2
<1>16. ASSUME NEW k \in 1 .. n + 1, NEW j \in 1 .. n + 1, k < j
       PROVE  su[k + 1].line_num <= LineOf(E[j].last)
  <2>1. Old(k)
    BY <1>13, <1>16
  <2>2. CASE Old(j)
    BY <1>7, <1>12, <1>16, <2>1, <2>2
  <2>3. CASE j = n + 1
    BY <1>7, <1>8, <1>12, <1>14, <2>1, <2>3
  <2> QED
    BY <1>13, <2>2, <2>3
<1>17. Len(E) = n + 1
  BY ONLY <1>3
<1>18. LinesFit(E, su)
  BY <1>15, <1>16, <1>17 DEF LinesFit
<1>19. ln = LineOf(a) \/ (a > Len(text) /\ ln = LineOf(a) + 1)
  BY DEF Lines
<1>20. Lines(E, a, <<>>, su, ln)
  BY <1>15, <1>17, <1>18, <1>19 DEF Lines
<1> QED
  BY <1>18, <1>20 DEF E, su

-------------------------------------------------------------------------------
(* What the next state keeps when the text stays.                          *)

LEMMA TextStays ==
  ASSUME text' = text
  PROVE  /\ Shown' = Shown
         /\ Places' = Places
         /\ Reference' = Reference
         /\ \A i : Rank(i)' = Rank(i)
         /\ \A i : LineOf(i)' = LineOf(i)
         /\ \A i : OutOfComment(i)' = OutOfComment(i)
         /\ \A w, i, j : Chars(w, i, j)' = Chars(w, i, j)
<1>1. Shown' = Shown
  BY DEF Shown, Visible
<1>2. Places' = Places
  BY DEF Places, Visible
<1>3. \A i : Rank(i)' = Rank(i)
  BY DEF Rank, UpTo, Shown, Visible
<1>4. Reference' = Reference
  BY DEF Reference, Cut, Places, Visible, LexemeEnds, Lexeme, Chars
<1>5. \A i : LineOf(i)' = LineOf(i)
  BY DEF LineOf
<1>6. \A i : OutOfComment(i)' = OutOfComment(i)
  BY DEF OutOfComment
<1>7. \A w, i, j : Chars(w, i, j)' = Chars(w, i, j)
  BY DEF Chars
<1> QED
  BY <1>1, <1>2, <1>3, <1>4, <1>5, <1>6, <1>7

LEMMA CuttingThen ==
  ASSUME text' = text, NEW D, NEW a, at' = a, NEW s, state' = s, NEW l, lexeme' = l,
         NEW st, stream' = st
  PROVE  Cutting(D, at, state, lexeme, stream)' <=> Cutting(D, a, s, l, st)
<1>1. Underway(at, state, lexeme)' <=> Underway(a, s, l)
  BY TextStays DEF Underway, First, Places, Visible, OutOfComment, Chars, Rank, UpTo, Shown
<1>2. Made(D, stream)' <=> Made(D, st)
  BY DEF Made, LexemesOf, Lexeme, Chars, Places, Visible
<1>3. (Meant.tokens = D \o Reference[First(at, lexeme)].tokens)'
        <=> Meant.tokens = D \o Reference[First(a, l)].tokens
  BY DEF Meant, Reference, Cut, Places, Visible, LexemeEnds, Lexeme, Chars, First, Rank, UpTo, Shown
<1>4. (Meant.ends = Reference[First(at, lexeme)].ends)'
        <=> Meant.ends = Reference[First(a, l)].ends
  BY DEF Meant, Reference, Cut, Places, Visible, LexemeEnds, Lexeme, Chars, First, Rank, UpTo, Shown
<1> QED
  BY <1>1, <1>2, <1>3, <1>4 DEF Cutting

LEMMA EndedThen ==
  ASSUME text' = text, NEW D, NEW st, NEW e
  PROVE  Ended(D, st, e)' <=> Ended(D, st, e)
<1>1. Made(D, st)' <=> Made(D, st)
  BY DEF Made, LexemesOf, Lexeme, Chars, Places, Visible
<1>2. Meant' = Meant
  BY DEF Meant, Cut, Places, Visible, LexemeEnds, Lexeme, Chars
<1> QED
  BY <1>1, <1>2 DEF Ended

LEMMA LinesThen ==
  ASSUME text' = text, NEW D, NEW a, at' = a, NEW l, lexeme' = l, NEW st, stream' = st,
         NEW ln, line_num' = ln
  PROVE  /\ Lines(D, at, lexeme, stream, line_num)' <=> Lines(D, a, l, st, ln)
         /\ \A su : LinesFit(D, su)' <=> LinesFit(D, su)
<1>1. Lines(D, at, lexeme, stream, line_num)' <=> Lines(D, a, l, st, ln)
  BY DEF Lines, LineOf, LinesFit, Fits, Trails, Places, Visible, Rank, UpTo, Shown
<1>2. \A su : LinesFit(D, su)' <=> LinesFit(D, su)
  BY DEF LineOf, LinesFit, Fits
<1> QED
  BY <1>1, <1>2

-------------------------------------------------------------------------------
(* The invariant of scan: what is left of the reference is what it has yet *)
(* to make; and the end.                                                   *)

HowItEnds(D, st, out, ph) ==
  /\ LinesFit(D, st) /\ Last(st).type # "DOLLAR"
  /\ \/ ph = "scanned" /\ out = st /\ Ended(D, st, "well")
     \/ ph = "scanned" /\ out = Append(st, Mark("DOLLAR")) /\ Ended(D, st, "error")
     \/ ph = "scan_threw" /\ out = st /\ Ended(D, st, "throw")

ScanInv ==
  /\ phase = "arguments" => ScanInit
  /\ phase = "scan" => \E D : /\ Cutting(D, at, state, lexeme, stream)
                              /\ Lines(D, at, lexeme, stream, line_num)
  /\ phase \in {"scanned", "scan_threw"} => \E D, st : HowItEnds(D, st, stream, phase)

LEMMA ScansOn ==
  ASSUME text' = text, phase' = "scan", NEW D, Cutting(D, at', state', lexeme', stream'),
         Lines(D, at', lexeme', stream', line_num')
  PROVE  ScanInv'
<1>1. PICK a, s, l, st, ln : at' = a /\ state' = s /\ lexeme' = l /\ stream' = st /\ line_num' = ln
  OBVIOUS
<1>2. Cutting(D, at, state, lexeme, stream)'
  BY <1>1, CuttingThen
<1>3. Lines(D, at, lexeme, stream, line_num)'
  BY <1>1, LinesThen
<1> QED
  BY <1>2, <1>3 DEF ScanInv

LEMMA ScanEnds ==
  ASSUME text' = text, NEW D, NEW st, HowItEnds(D, st, stream', phase')
  PROVE  ScanInv'
<1>1. PICK out, ph : stream' = out /\ phase' = ph
  OBVIOUS
<1>2. /\ LinesFit(D, st)'
      /\ \A e : Ended(D, st, e) => Ended(D, st, e)'
  BY LinesThen, EndedThen DEF HowItEnds
<1>3. ph \in {"scanned", "scan_threw"}
  BY <1>1 DEF HowItEnds
<1>4. HowItEnds(D, st, stream, phase)'
  BY <1>1, <1>2 DEF HowItEnds
<1> QED
  BY <1>1, <1>3, <1>4 DEF ScanInv

LEMMA ScanBegins ==
  text \in Seq(Characters) =>
    /\ Cutting(<<>>, 1, "START", <<>>, <<Mark("BoF")>>)
    /\ Lines(<<>>, 1, <<>>, <<Mark("BoF")>>, 1)
<1> SUFFICES ASSUME text \in Seq(Characters)
             PROVE  /\ Cutting(<<>>, 1, "START", <<>>, <<Mark("BoF")>>)
                    /\ Lines(<<>>, 1, <<>>, <<Mark("BoF")>>, 1)
  OBVIOUS
<1>1. Len(text) \in Nat /\ 1 - 1 = 0 /\ 1 \in 1 .. Len(text) + 1
  OBVIOUS
<1>2. Rank(0) = 0 /\ First(1, <<>>) = 1
  <2>1. Rank(0) = 0
    BY RankCounts
  <2> QED
    BY <1>1, <2>1 DEF First
<1>3. Len(Places) \in Nat /\ 1 \in 1 .. Len(Places) + 1
  BY PlacesAre
<1>4. Chars(Places, 1, 0) = <<>>
  BY <1>1, <1>3, PlacesAre, CharsGrow
<1>5. OutOfComment(1)
  BY DEF OutOfComment
<1>6. Underway(1, "START", <<>>)
  <2>1. <<>> \in Seq(Characters) /\ Reads("START", <<>>)
    BY DEF Reads
  <2> QED
    BY <1>1, <1>2, <1>3, <1>4, <1>5, <2>1 DEF Underway
<1> DEFINE b == Mark("BoF")
<1>7. b \in Tokens
  BY TypesAssumption DEF Mark, Token, Tokens, TokenTypes
<1> HIDE DEF b
<1>8. Made(<<>>, <<b>>)
  <2>1. <<b>> \in Seq(Tokens) /\ Len(<<b>>) = Len(<<>>) + 1 /\ Len(<<>>) = 0
    BY <1>7
  <2>2. <<>> \in Seq(LexemesOf(Places))
    OBVIOUS
  <2>3. 1 .. 0 = {}
    OBVIOUS
  <2> QED
    BY <2>1, <2>2, <2>3 DEF Made
<1>9. Meant = Reference[1]
  BY DEF Meant, Reference
<1> DEFINE L == LexemesOf(Places)
           r == Reference[1].tokens
<1>10. r \in Seq(L)
  BY <1>3, PlacesAre, CutTyped DEF Reference
<1> HIDE DEF L
<1>11. <<>> \o r = r
  BY ONLY <1>10, ConcatEmptySeq
<1>12. Cutting(<<>>, 1, "START", <<>>, <<b>>)
  BY <1>2, <1>6, <1>8, <1>9, <1>11 DEF Cutting
<1>13. LineOf(1) = 1
  <2>1. {j \in 1 .. 1 - 1 : text[j] = "\n"} = {}
    OBVIOUS
  <2> QED
    BY <2>1, FS_EmptySet DEF LineOf
<1>14. Lines(<<>>, 1, <<>>, <<b>>, 1)
  <2>1. 1 .. Len(<<>>) = {}
    OBVIOUS
  <2> QED
    BY <1>13, <2>1 DEF Lines, LinesFit
<1> QED
  BY <1>12, <1>14 DEF b

\* It is so after the text is read, too.
LEMMA ScanBeginsThen ==
  (text \in Seq(Characters) =>
    /\ Cutting(<<>>, 1, "START", <<>>, <<Mark("BoF")>>)
    /\ Lines(<<>>, 1, <<>>, <<Mark("BoF")>>, 1))'
  BY ScanBegins, PTL

LEMMA OpensScan ==
  ASSUME ScanInv, ScanTypes, Arguments
  PROVE  ScanInv'
<1>1. CASE UNCHANGED <<stream, scanVars>> /\ phase' \in {phase, "exited"} /\ phase = "arguments"
  BY <1>1 DEF ScanInv, ScanInit, scanVars
<1>2. CASE /\ phase' = "scan" /\ phase = "arguments" /\ text' \in {source.text, <<>>}
           /\ UNCHANGED <<stream, at, state, lexeme, line_num>>
  <2>1. stream' = <<Mark("BoF")>> /\ at' = 1 /\ state' = "START" /\ lexeme' = <<>> /\ line_num' = 1
    BY <1>2 DEF ScanInv, ScanInit
  <2>2. text' \in Seq(Characters)
    <3>1. source.text \in Seq(Characters)
      BY DEF ScanTypes, Characters
    <3>2. <<>> \in Seq(Characters)
      OBVIOUS
    <3> QED
      BY ONLY <1>2, <3>1, <3>2, Zenon
  <2>3. /\ Cutting(<<>>, 1, "START", <<>>, <<Mark("BoF")>>)'
        /\ Lines(<<>>, 1, <<>>, <<Mark("BoF")>>, 1)'
    BY <2>2, ScanBeginsThen
  <2>4. (\E D : /\ Cutting(D, at, state, lexeme, stream)
                /\ Lines(D, at, lexeme, stream, line_num))'
    BY <2>1, <2>3
  <2> QED
    BY <1>2, <2>4 DEF ScanInv
<1>3. CASE phase' = "exited"
  BY <1>3 DEF ScanInv
<1> QED
  BY <1>1, <1>2, <1>3, Zenon DEF Arguments, TakeFlag, TakeExecName, TakeFile, OpenFile, Exit, Reading

LEMMA StepsOfScan ==
  ASSUME [Next]_vars
  PROVE  \/ ScanNext
         \/ Arguments
         \/ UNCHANGED <<phase, stream, scanVars>>
         \/ phase' \notin {"arguments", "scan", "scanned", "scan_threw"}
<1>1. CASE ScanThrew \/ AfterScan
  BY <1>1 DEF ScanThrew, AfterScan, OutputOr, Exit
<1>2. CASE Parse
  <2>1. phase' \in {"parse", "parse_threw", "parsed"}
    BY <1>2 DEF Parse, LaNext, Shift, Reduce, Accept, SyntaxError, Acts, Throw
  <2> QED
    BY <2>1
<1>3. CASE ParseThrew \/ AfterParse \/ TypeCheck
  BY <1>3 DEF ParseThrew, AfterParse, TypeCheck, TreeOr, PrintTree, Exit
<1>4. CASE Generate \/ PrintIR \/ EmitObject \/ Link \/ CleanUp
  BY <1>4 DEF Generate, PrintIR, EmitObject, Link, CleanUp, Exit
<1>5. CASE UNCHANGED vars
  BY <1>5 DEF vars, scanVars
<1>6. ~Scan \/ ScanNext
  BY DEF Scan
<1> QED
  BY <1>1, <1>2, <1>3, <1>4, <1>5, <1>6 DEF Next

LEMMA ScanRests ==
  ASSUME ScanInv, UNCHANGED <<phase, stream, scanVars>>
  PROVE  ScanInv'
<1>1. UNCHANGED <<text, at, state, lexeme, line_num>>
  BY DEF scanVars
<1>2. CASE phase = "arguments"
  BY <1>1, <1>2 DEF ScanInv, ScanInit
<1>3. CASE phase = "scan"
  <2>1. PICK D : /\ Cutting(D, at, state, lexeme, stream)
                 /\ Lines(D, at, lexeme, stream, line_num)
    BY <1>3 DEF ScanInv
  <2>2. /\ Cutting(D, at', state', lexeme', stream')
        /\ Lines(D, at', lexeme', stream', line_num')
    BY <1>1, <2>1
  <2> QED
    BY <1>1, <1>3, <2>2, ScansOn
<1>4. CASE phase \in {"scanned", "scan_threw"}
  <2>1. PICK D, st : HowItEnds(D, st, stream, phase)
    BY <1>4 DEF ScanInv
  <2>2. HowItEnds(D, st, stream', phase')
    BY <2>1
  <2> QED
    BY <1>1, <2>2, ScanEnds
<1>5. CASE phase \notin {"arguments", "scan", "scanned", "scan_threw"}
  BY <1>5 DEF ScanInv
<1> QED
  BY <1>2, <1>3, <1>4, <1>5

LEMMA ScanReads ==
  ASSUME ScanInv, ScanTypes, SkipLine \/ SkipBlank \/ Transition
  PROVE  ScanInv'
<1>1. /\ phase = "scan" /\ phase' = "scan" /\ text' = text /\ stream' = stream
      /\ at <= Len(text)
  BY DEF SkipLine, SkipBlank, Transition, Getting
<1>2. PICK D : /\ Cutting(D, at, state, lexeme, stream)
               /\ Lines(D, at, lexeme, stream, line_num)
  BY <1>1 DEF ScanInv
<1>3. text \in Seq(Characters) /\ at \in 1 .. Len(text) /\ ((state = "START") <=> (lexeme = <<>>))
  <2>1. text \in Seq(Characters)
    BY DEF ScanTypes, Characters
  <2>2. at \in 1 .. Len(text) + 1 /\ ((state = "START") <=> (lexeme = <<>>))
    BY DEF ScanTypes
  <2>3. at \in 1 .. Len(text)
    BY <1>1, <2>1, <2>2
  <2> QED
    BY <2>1, <2>2, <2>3
<1>4. CASE SkipLine
  <2>1. /\ text[at] \in {"#", "\n"} /\ at' = AfterLine(at) /\ line_num' = line_num + 1
        /\ UNCHANGED <<state, lexeme>>
    BY <1>4 DEF SkipLine, Skips, c
  <2>2. Cutting(D, AfterLine(at), state, lexeme, stream)
    BY <1>1, <1>2, <1>3, <2>1, SkipsOnCutting
  <2>3. Lines(D, AfterLine(at), lexeme, stream, line_num + 1)
    BY <1>2, <1>3, <2>1, SkipsOnLines
  <2>4. /\ Cutting(D, at', state', lexeme', stream')
        /\ Lines(D, at', lexeme', stream', line_num')
    BY <1>1, <2>1, <2>2, <2>3
  <2> QED
    BY <1>1, <2>4, ScansOn
<1>5. CASE SkipBlank
  <2>1. /\ text[at] \notin {"#", "\n"} /\ text[at] \in Blanks /\ at' = at + 1
        /\ lexeme = <<>> /\ UNCHANGED <<state, lexeme, line_num>>
    BY <1>3, <1>5 DEF SkipBlank, Skips, c
  <2>2. Cutting(D, at + 1, state, lexeme, stream)
    BY <1>1, <1>2, <1>3, <2>1, BlankOnCutting
  <2>3. Lines(D, at + 1, lexeme, stream, line_num)
    BY <1>2, <1>3, <2>1, BlankOnLines
  <2>4. /\ Cutting(D, at', state', lexeme', stream')
        /\ Lines(D, at', lexeme', stream', line_num')
    BY <1>1, <2>1, <2>2, <2>3
  <2> QED
    BY <1>1, <2>4, ScansOn
<1>6. CASE Transition
  <2>1. /\ text[at] \notin {"#", "\n"} /\ transitions(state, text[at]) # "ERROR" /\ at' = at + 1
        /\ state' = transitions(state, text[at]) /\ lexeme' = Append(lexeme, text[at])
        /\ UNCHANGED line_num
    BY <1>6 DEF Transition, Skips, c
  <2>2. Cutting(D, at + 1, transitions(state, text[at]), Append(lexeme, text[at]), stream)
    BY <1>1, <1>2, <1>3, <2>1, ReadsMoreCutting
  <2>3. Places[Rank(at)] = at
    BY <1>1, <1>2, <1>3, <2>1, ReadsMore DEF Cutting
  <2>4. Lines(D, at + 1, Append(lexeme, text[at]), stream, line_num)
    BY <1>2, <1>3, <2>1, <2>3, ReadsMoreLines
  <2>5. /\ Cutting(D, at', state', lexeme', stream')
        /\ Lines(D, at', lexeme', stream', line_num')
    BY <1>1, <2>1, <2>2, <2>4
  <2> QED
    BY <1>1, <2>5, ScansOn
<1> QED
  BY <1>4, <1>5, <1>6

\* A token of the text, or the first error, where the automaton stops.
LEMMA ScanStops ==
  ASSUME ScanInv, ScanTypes, ParseTypes, EndsOnce, line_num \in Nat, InvalidStart \/ NewToken
  PROVE  ScanInv'
<1>1. /\ phase = "scan" /\ text' = text /\ at <= Len(text)
      /\ text[at] \notin {"#", "\n"} /\ transitions(state, text[at]) = "ERROR"
  BY DEF InvalidStart, NewToken, LexerError, Getting, scanVars, Skips, c
<1>2. PICK D : /\ Cutting(D, at, state, lexeme, stream)
               /\ Lines(D, at, lexeme, stream, line_num)
  BY <1>1 DEF ScanInv
<1>3. text \in Seq(Characters)
  BY DEF ScanTypes, Characters
<1>4. ((state = "START") <=> (lexeme = <<>>)) /\ at \in 1 .. Len(text) + 1 /\ Len(text) \in Nat
      /\ ~(at > Len(text)) /\ state \in ScanStates
  <2>1. ((state = "START") <=> (lexeme = <<>>)) /\ at \in 1 .. Len(text) + 1 /\ state \in ScanStates
    BY DEF ScanTypes
  <2>2. Len(text) \in Nat
    BY <1>3
  <2> QED
    BY <1>1, <2>1, <2>2
<1>5. Stops(at, state)
  BY <1>1 DEF Stops
<1>6. Underway(at, state, lexeme) /\ Made(D, stream) /\ LinesFit(D, stream)
  BY <1>2 DEF Cutting, Lines
<1>7. Last(stream).type # "DOLLAR"
  <2>1. stream \in Seq(Tokens) /\ Len(stream) = Len(D) + 1 /\ D \in Seq(LexemesOf(Places))
    BY <1>6 DEF Made
  <2>2. Len(stream) \in 1 .. Len(stream)
    BY <2>1
  <2> QED
    BY <1>1, <2>2 DEF EndsOnce, NoEnd, Last
<1>8. ASSUME LexerError, Reference[First(at, lexeme)] = NoMore("error")
      PROVE  ScanInv'
  <2>1. Ended(D, stream, "error")
    BY <1>2, <1>8, NoMoreCutting
  <2>2. phase' = "scanned" /\ stream' = Append(stream, Mark("DOLLAR"))
    BY <1>8 DEF LexerError
  <2>3. HowItEnds(D, stream, stream', phase')
    BY <1>6, <1>7, <2>1, <2>2 DEF HowItEnds
  <2> QED
    BY <1>1, <2>3, ScanEnds
<1>9. CASE InvalidStart
  <2>1. state = "START" /\ lexeme = <<>> /\ text[at] \notin Blanks /\ LexerError
    BY <1>4, <1>9 DEF InvalidStart, c
  <2>2. Reference[First(at, lexeme)] = NoMore("error")
    BY <1>1, <1>3, <1>5, <1>6, <2>1, NoneBegins
  <2> QED
    BY <1>8, <2>1, <2>2
<1>10. CASE NewToken
  <2>1. state # "START" /\ lexeme # <<>>
    BY <1>4, <1>10 DEF NewToken
  <2>2. CASE state = "NUM" /\ NumError(lexeme)
    <3>1. LexerError
      BY <1>10, <2>2 DEF NewToken
    <3>2. Reference[First(at, lexeme)] = NoMore("error")
      BY <1>3, <1>4, <1>5, <1>6, <2>1, <2>2, LexemeOver
    <3> QED
      BY <1>8, <3>1, <3>2
  <2>3. CASE ~(state = "NUM" /\ NumError(lexeme))
    <3> DEFINE token == Token(TokenType(state, lexeme), lexeme, line_num)
    <3>1. /\ stream' = Append(stream, token) /\ lexeme' = <<>> /\ state' = "START"
          /\ UNCHANGED <<phase, text, at, line_num>>
      BY <1>10, <2>3 DEF NewToken
    <3>2. token \in Tokens /\ token.line_num = line_num
      BY <1>4, <2>1, TypeIsSymbol DEF ScanTypes, Token, Tokens
    <3>3. \E t \in LexemesOf(Places) :
            /\ t.last = Places[Rank(at - 1)]
            /\ Made(Append(D, t), Append(stream, token))
            /\ Cutting(Append(D, t), at, "START", <<>>, Append(stream, token))
      BY <1>2, <1>3, <1>4, <1>5, <2>1, <2>3, <3>2, MakesToken
    <3> HIDE DEF token
    <3>4. PICK t \in LexemesOf(Places) :
            /\ t.last = Places[Rank(at - 1)]
            /\ Cutting(Append(D, t), at, "START", <<>>, Append(stream, token))
      BY <3>3
    <3>5. Lines(Append(D, t), at, <<>>, Append(stream, token), line_num)
      BY <1>2, <1>3, <1>4, <1>6, <2>1, <3>2, <3>4, MakesTokenLines
    <3>6. /\ Cutting(Append(D, t), at', state', lexeme', stream')
          /\ Lines(Append(D, t), at', lexeme', stream', line_num')
      BY <3>1, <3>4, <3>5
    <3> QED
      BY <1>1, <3>1, <3>6, ScansOn
  <2> QED
    BY <2>2, <2>3
<1> QED
  BY <1>9, <1>10

\* The leftovers: a number that is none, a begun literal, or one more token.
LEMMA ScanLeaves ==
  ASSUME ScanInv, ScanTypes, ParseTypes, EndsOnce, line_num \in Nat, EndOfText
  PROVE  ScanInv'
<1>1. phase = "scan" /\ text' = text /\ at > Len(text)
  BY DEF EndOfText, scanVars
<1>2. PICK D : /\ Cutting(D, at, state, lexeme, stream)
               /\ Lines(D, at, lexeme, stream, line_num)
  BY <1>1 DEF ScanInv
<1>3. text \in Seq(Characters)
  BY DEF ScanTypes, Characters
<1>4. ((state = "START") <=> (lexeme = <<>>)) /\ at \in 1 .. Len(text) + 1 /\ Len(text) \in Nat
      /\ ~(at <= Len(text)) /\ state \in ScanStates
  <2>1. ((state = "START") <=> (lexeme = <<>>)) /\ at \in 1 .. Len(text) + 1 /\ state \in ScanStates
    BY DEF ScanTypes
  <2>2. Len(text) \in Nat
    BY <1>3
  <2> QED
    BY <1>1, <2>1, <2>2
<1>5. Stops(at, state)
  BY <1>4 DEF Stops
<1>6. Underway(at, state, lexeme) /\ Made(D, stream) /\ LinesFit(D, stream)
  BY <1>2 DEF Cutting, Lines
<1>7. stream \in Seq(Tokens) /\ Last(stream).type # "DOLLAR"
  <2>1. stream \in Seq(Tokens) /\ Len(stream) = Len(D) + 1 /\ D \in Seq(LexemesOf(Places))
    BY <1>6 DEF Made
  <2>2. Len(stream) \in 1 .. Len(stream)
    BY <2>1
  <2> QED
    BY <1>1, <2>1, <2>2 DEF EndsOnce, NoEnd, Last
<1>8. ASSUME NEW e, Reference[First(at, lexeme)] = NoMore(e), stream' = stream,
             \/ e = "well" /\ phase' = "scanned"
             \/ e = "throw" /\ phase' = "scan_threw"
      PROVE  ScanInv'
  <2>1. Ended(D, stream, e)
    BY <1>2, <1>8, NoMoreCutting
  <2>2. HowItEnds(D, stream, stream', phase')
    BY <1>6, <1>7, <1>8, <2>1 DEF HowItEnds
  <2> QED
    BY <1>1, <2>2, ScanEnds
<1>9. CASE lexeme = <<>>
  <2>1. Reference[First(at, lexeme)] = NoMore("well")
    BY <1>1, <1>3, <1>6, <1>9, TextOver
  <2>2. state # "NUM"
    BY <1>4, <1>9
  <2>3. phase' = "scanned" /\ stream' = stream
    BY <1>9, <2>2 DEF EndOfText
  <2> QED
    BY <1>8, <2>1, <2>3
<1>10. CASE lexeme # <<>> /\ state = "NUM" /\ NumError(lexeme)
  <2>1. Reference[First(at, lexeme)] = NoMore("throw")
    BY <1>1, <1>3, <1>5, <1>6, <1>10, LexemeOver
  <2>2. phase' = "scan_threw" /\ stream' = stream
    BY <1>10 DEF EndOfText
  <2> QED
    BY <1>8, <2>1, <2>2
<1>11. CASE lexeme # <<>> /\ state \in Quoted
  <2>1. ~(state = "NUM" /\ NumError(lexeme))
    BY <1>11 DEF Quoted
  <2>2. Reference[First(at, lexeme)] = NoMore("well")
    BY <1>1, <1>3, <1>5, <1>6, <1>11, <2>1, LexemeOver
  <2>3. phase' = "scanned" /\ stream' = stream
    BY <1>11, <2>1 DEF EndOfText, is_accepting_state
  <2> QED
    BY <1>8, <2>2, <2>3
<1>12. CASE lexeme # <<>> /\ ~(state = "NUM" /\ NumError(lexeme)) /\ state \notin Quoted
  <2> DEFINE token == Token(TokenType(state, lexeme), lexeme, line_num)
  <2>1. state # "START"
    BY <1>4, <1>12
  <2>2. phase' = "scanned" /\ stream' = Append(stream, token)
    BY <1>12, <2>1 DEF EndOfText, is_accepting_state
  <2>3. token \in Tokens /\ token.line_num = line_num
    BY <1>4, <2>1, TypeIsSymbol DEF ScanTypes, Token, Tokens
  <2>4. token.type # "DOLLAR"
    BY <1>4, TypeIsNoEnd DEF Token
  <2>5. \E t \in LexemesOf(Places) :
          /\ t.last = Places[Rank(at - 1)]
          /\ Made(Append(D, t), Append(stream, token))
          /\ Cutting(Append(D, t), at, "START", <<>>, Append(stream, token))
    BY <1>2, <1>3, <1>5, <1>12, <2>3, MakesToken
  <2> HIDE DEF token
  <2>6. PICK t \in LexemesOf(Places) :
          /\ t.last = Places[Rank(at - 1)]
          /\ Cutting(Append(D, t), at, "START", <<>>, Append(stream, token))
    BY <2>5
  <2>7. LinesFit(Append(D, t), Append(stream, token))
    BY <1>2, <1>3, <1>4, <1>6, <1>12, <2>3, <2>6, MakesTokenLines
  <2>8. Reference[First(at, <<>>)] = NoMore("well")
    BY <1>1, <1>3, <2>6, TextOver DEF Cutting
  <2>9. Ended(Append(D, t), Append(stream, token), "well")
    BY <2>6, <2>8, NoMoreCutting
  <2>10. Last(Append(stream, token)).type # "DOLLAR"
    <3>1. Len(Append(stream, token)) = Len(stream) + 1 /\ Append(stream, token)[Len(stream) + 1] = token
      BY ONLY <1>7, <2>3, AppendMore
    <3> QED
      BY <2>4, <3>1 DEF Last
  <2>11. HowItEnds(Append(D, t), Append(stream, token), stream', phase')
    BY <2>2, <2>7, <2>9, <2>10 DEF HowItEnds
  <2> QED
    BY <1>1, <2>11, ScanEnds
<1> QED
  BY <1>9, <1>10, <1>11, <1>12

-------------------------------------------------------------------------------
(* What the invariant says.                                                *)

Scanning == SentenceInv /\ ScanInv

LEMMA ScanningInit ==
  Init => Scanning
<1>1. Init => ScanInv
  BY DEF Init, ScanInv
<1> QED
  BY <1>1, SentenceInit DEF Scanning

LEMMA ScanningStep ==
  Scanning /\ [Next]_vars => Scanning'
<1> SUFFICES ASSUME Scanning, [Next]_vars PROVE Scanning'
  OBVIOUS
<1>1. SentenceInv'
  BY SentenceStep DEF Scanning
<1>2. ScanInv /\ ScanTypes /\ ParseTypes /\ EndsOnce /\ line_num \in Nat
  BY DEF Scanning, SentenceInv, TypesInv, LinesInv
<1>3. ScanInv'
  <2>1. CASE ScanNext
    BY <1>2, <2>1, ScanReads, ScanStops, ScanLeaves DEF ScanNext
  <2>2. CASE Arguments
    BY <1>2, <2>2, OpensScan
  <2>3. CASE UNCHANGED <<phase, stream, scanVars>>
    BY <1>2, <2>3, ScanRests
  <2>4. CASE phase' \notin {"arguments", "scan", "scanned", "scan_threw"}
    BY <2>4 DEF ScanInv
  <2> QED
    BY <2>1, <2>2, <2>3, <2>4, StepsOfScan
<1> QED
  BY <1>1, <1>3 DEF Scanning

\* The tokens behind BoF, without the mark of an error.
LEMMA ScannedIs ==
  ASSUME NEW D, NEW st, HowItEnds(D, st, stream, phase)
  PROVE  /\ Made(D, st) /\ LinesFit(D, st) /\ Meant.tokens = D /\ D \in Seq(LexemesOf(Places))
         /\ DOMAIN Scanned = 1 .. Len(D)
         /\ \A k \in 1 .. Len(D) : Scanned[k] = st[k + 1]
         /\ (Last(stream).type = "DOLLAR") <=> (Meant.ends = "error")
         /\ (phase = "scan_threw") <=> (Meant.ends = "throw")
<1>1. Made(D, st) /\ LinesFit(D, st) /\ Meant.tokens = D
  BY DEF HowItEnds, Ended
<1>2. /\ D \in Seq(LexemesOf(Places)) /\ st \in Seq(Tokens) /\ Len(st) = Len(D) + 1
      /\ Len(D) \in Nat /\ Len(st) \in Nat
  BY <1>1 DEF Made
<1> DEFINE d == Mark("DOLLAR")
<1>3. d \in Tokens /\ d.type = "DOLLAR"
  BY TypesAssumption DEF Mark, Token, Tokens, TokenTypes
<1>4. Last(st).type # "DOLLAR"
  BY DEF HowItEnds
<1>5. \/ stream = st /\ Meant.ends = "well" /\ phase = "scanned"
      \/ stream = Append(st, d) /\ Meant.ends = "error" /\ phase = "scanned"
      \/ stream = st /\ Meant.ends = "throw" /\ phase = "scan_threw"
  BY DEF HowItEnds, Ended
<1> HIDE DEF d
<1> DEFINE n == IF Last(stream).type = "DOLLAR" THEN Len(stream) - 1 ELSE Len(stream)
<1>6. Scanned = SubSeq(stream, 2, n)
  BY DEF Scanned
<1>7. /\ n = Len(st) /\ (Last(stream).type = "DOLLAR" <=> Meant.ends = "error")
      /\ stream \in Seq(Tokens) /\ n \in 0 .. Len(stream)
      /\ \A k \in 1 .. Len(st) : stream[k] = st[k]
  <2>1. CASE stream = st /\ Meant.ends # "error"
    BY <1>2, <1>4, <2>1
  <2>2. CASE stream = Append(st, d) /\ Meant.ends = "error"
    <3>1. /\ stream \in Seq(Tokens) /\ Len(stream) = Len(st) + 1 /\ stream[Len(st) + 1] = d
          /\ \A k \in 1 .. Len(st) : stream[k] = st[k]
      BY ONLY <1>2, <1>3, <2>2, AppendMore
    <3>2. Last(stream) = d
      BY <3>1 DEF Last
    <3>3. n = Len(st) /\ n \in 0 .. Len(stream)
      BY ONLY <1>2, <1>3, <3>1, <3>2
    <3> QED
      BY <1>3, <2>2, <3>1, <3>2, <3>3
  <2> QED
    BY <1>5, <2>1, <2>2
<1> HIDE DEF n
<1>8. /\ DOMAIN SubSeq(stream, 2, n) = 1 .. Len(D)
      /\ \A k \in 1 .. Len(D) : SubSeq(stream, 2, n)[k] = stream[k + 1] /\ k + 1 \in 1 .. Len(st)
  BY ONLY <1>2, <1>7
<1>9. \A k \in 1 .. Len(D) : Scanned[k] = st[k + 1]
  BY ONLY <1>6, <1>7, <1>8
<1>10. (phase = "scan_threw") <=> (Meant.ends = "throw")
  BY <1>5
<1>11. DOMAIN Scanned = 1 .. Len(D)
  BY ONLY <1>6, <1>8
<1> QED
  BY <1>1, <1>2, <1>7, <1>9, <1>10, <1>11

LEMMA ScanSaysTokens ==
  ASSUME ScanInv
  PROVE  TokensAreTheText
<1> SUFFICES ASSUME phase \in {"scanned", "scan_threw"}
             PROVE  /\ [k \in DOMAIN Scanned |-> Scanned[k].lexeme]
                         = [k \in DOMAIN Meant.tokens |-> Meant.tokens[k].lexeme]
                    /\ \A k \in DOMAIN Scanned :
                         IF Meant.tokens[k].type = "begun"
                         THEN Scanned[k].type \in {"EoF", "start", "procedures"}
                         ELSE Scanned[k].type = Meant.tokens[k].type
                    /\ (phase = "scan_threw") <=> (Meant.ends = "throw")
                    /\ (Last(stream).type = "DOLLAR") <=> (Meant.ends = "error")
  BY DEF TokensAreTheText
<1>1. PICK D, st : HowItEnds(D, st, stream, phase)
  BY DEF ScanInv
<1>2. /\ Made(D, st) /\ Meant.tokens = D /\ D \in Seq(LexemesOf(Places))
      /\ DOMAIN Scanned = 1 .. Len(D)
      /\ \A k \in 1 .. Len(D) : Scanned[k] = st[k + 1]
      /\ (Last(stream).type = "DOLLAR") <=> (Meant.ends = "error")
      /\ (phase = "scan_threw") <=> (Meant.ends = "throw")
  BY <1>1, ScannedIs
<1>3. DOMAIN D = 1 .. Len(D)
  BY <1>2
<1>4. \A k \in 1 .. Len(D) : Matches(Scanned[k], D[k])
  BY <1>2 DEF Made
<1>5. [k \in DOMAIN Scanned |-> Scanned[k].lexeme] = [k \in DOMAIN D |-> D[k].lexeme]
  BY <1>2, <1>3, <1>4 DEF Matches
<1> QED
  BY <1>2, <1>4, <1>5 DEF Matches

LEMMA ScanSaysLines ==
  ASSUME ScanInv, text \in Seq(Characters)
  PROVE  LinesOfTokens
<1> SUFFICES ASSUME phase = "scanned", NEW k \in DOMAIN Meant.tokens
             PROVE  LET i == Meant.tokens[k].last
                    IN  \/ Scanned[k].line_num = LineOf(i)
                        \/ /\ Scanned[k].line_num > LineOf(i)
                           /\ i < Len(text)
                           /\ text[i + 1] \in {"#", "\n"}
                           /\ \A j \in k + 1 .. Len(Meant.tokens) :
                                LineOf(Meant.tokens[j].last) > LineOf(i)
  BY DEF LinesOfTokens
<1>1. PICK D, st : HowItEnds(D, st, stream, phase)
  BY DEF ScanInv
<1>2. /\ LinesFit(D, st) /\ Meant.tokens = D /\ D \in Seq(LexemesOf(Places))
      /\ \A e \in 1 .. Len(D) : Scanned[e] = st[e + 1]
  BY <1>1, ScannedIs
<1>3. k \in 1 .. Len(D) /\ Len(D) \in Nat
  BY <1>2
<1> DEFINE i == D[k].last
           ln == st[k + 1].line_num
<1>4. /\ ln \in Nat /\ i \in 1 .. Len(text) /\ Fits(i, ln)
      /\ \A j \in 1 .. Len(D) : /\ D[j].last \in 1 .. Len(text)
                                /\ k < j => ln <= LineOf(D[j].last)
  BY <1>2, <1>3 DEF LinesFit
<1>5. \A p \in 1 .. Len(text) : LineOf(p) \in Nat
  BY LineCounts
<1>6. Scanned[k].line_num = ln
  BY <1>2, <1>3
<1> HIDE DEF i, ln
<1>7. CASE ln = LineOf(i)
  BY <1>2, <1>6, <1>7 DEF i
<1>8. CASE ln > LineOf(i) /\ i < Len(text) /\ text[i + 1] \in {"#", "\n"}
  <2>1. \A j \in k + 1 .. Len(D) : j \in 1 .. Len(D) /\ k < j
    BY ONLY <1>3
  <2>2. \A j \in k + 1 .. Len(D) : LineOf(D[j].last) > LineOf(i)
    <3> TAKE j \in k + 1 .. Len(D)
    <3>1. LineOf(D[j].last) \in Nat /\ LineOf(i) \in Nat /\ ln <= LineOf(D[j].last)
      BY <1>4, <1>5, <2>1
    <3> QED
      BY ONLY <1>4, <1>8, <3>1
  <2> QED
    BY <1>2, <1>6, <1>8, <2>2 DEF i
<1> QED
  BY <1>4, <1>7, <1>8 DEF Fits

\* Whatever the texts: the tokens that scan makes are the text's, cut at the
\* longest lexemes, up to the first error, and it ends as the text does (209-260).
THEOREM TokensAlwaysTheText ==
  Spec => []TokensAreTheText
<1>1. Scanning => TokensAreTheText
  BY ScanSaysTokens DEF Scanning
<1> QED
  BY ScanningInit, ScanningStep, <1>1, PTL DEF Spec

\* Whatever the texts: a token's line is the one it ends in, or a later one that
\* no token behind it ends before, when the line ends with it (213, 229).
THEOREM TokensHaveTheirLines ==
  Spec => []LinesOfTokens
<1>1. Scanning => LinesOfTokens
  <2> SUFFICES ASSUME Scanning PROVE LinesOfTokens
    OBVIOUS
  <2>1. ScanInv /\ text \in Seq(Characters)
    BY DEF Scanning, SentenceInv, TypesInv, ScanTypes, Characters
  <2> QED
    BY <2>1, ScanSaysLines
<1> QED
  BY ScanningInit, ScanningStep, <1>1, PTL DEF Spec

===============================================================================
