------------------------------ MODULE DriverProofs ----------------------------
(***************************************************************************)
(* parse's loop cannot go wrong in a reduction, whatever the tokens, for   *)
(* every table that satisfies the assumptions of Lalr. The invariant is    *)
(* Handles: below a state with an item that is d symbols along lie the     *)
(* states and the symbols of those d. It says so for all the symbols at    *)
(* once, which makes it inductive without an induction over d.             *)
(*                                                                         *)
(* Then the parser where main puts it: what is shown of parse alone holds  *)
(* in the whole process; the error report is written whenever the token    *)
(* has a line, because of how scan and main put the marks around the       *)
(* tokens; and the files that a run leaves are the ones its exit status    *)
(* stands for, for FilesInv knows in every phase what was written, and     *)
(* which names they can share.                                             *)
(*                                                                         *)
(* Last, a text that is accepted is a sentence. The invariant is a         *)
(* derivation read backwards: a sequence of forms from the tokens that     *)
(* parse has read to the symbols on its stack, each with one more node     *)
(* folded. A shift puts a token behind every form, a reduction adds one.   *)
(***************************************************************************)
EXTENDS Driver, SequenceTheorems, WellFoundedInduction, TLAPS

StackType == stack \in Seq(Entries) /\ stack # <<>>

\* The item has its symbols below place k of the stack.
Passed(st, k, i) ==
  \A e \in 0 .. i[2] :
    /\ k - e >= 1
    /\ <<i[1], i[2] - e>> \in Items(st[k - e].state)
    /\ e < i[2] => st[k - e].sym = Prods[i[1]].RHS[i[2] - e]

Handles == \A k \in 1 .. Len(stack) : \A i \in Items(stack[k].state) : Passed(stack, k, i)

StackInv == StackType /\ Handles

-------------------------------------------------------------------------------
(* What the invariant says of a reduction.                                 *)

\* The entry that SHIFT and GOTO push keeps the invariant.
LEMMA PushKeeps ==
  ASSUME NEW st \in Seq(Entries), st # <<>>,
         \A k \in 1 .. Len(st) : \A i \in Items(st[k].state) : Passed(st, k, i),
         NEW X \in DOMAIN Table[Top(st).state],
         Table[Top(st).state][X].act \in {"SHIFT", "GOTO"},
         NEW new, new = Append(st, StackEntry(Table[Top(st).state][X].n, X))
  PROVE  /\ new \in Seq(Entries)
         /\ new # <<>>
         /\ \A k \in 1 .. Len(new) : \A i \in Items(new[k].state) : Passed(new, k, i)
<1> DEFINE m == Len(st)
           s == Top(st).state
           t == Table[s][X].n
<1>1. m \in Nat /\ m >= 1
  OBVIOUS
<1>2. s = st[m].state /\ s \in DOMAIN Table
  <2>1. st[m] \in Entries
    BY <1>1
  <2> QED
    BY <2>1 DEF Top, Entries
<1>3. t \in DOMAIN Table
      /\ \A i \in Items(t) : i[2] > 0 => /\ <<i[1], i[2] - 1>> \in Items(s)
                                        /\ Prods[i[1]].RHS[i[2]] = X
  BY <1>2, ItemsAssumption
<1>4. X \in Symbols
  BY <1>2 DEF Symbols
<1>5. StackEntry(t, X) \in Entries
  BY <1>3, <1>4 DEF StackEntry, Entries
<1>6. /\ new \in Seq(Entries)
      /\ Len(new) = m + 1
      /\ new[m + 1] = StackEntry(t, X)
      /\ \A k \in 1 .. m : new[k] = st[k]
  BY <1>1, <1>5
<1>7. ASSUME NEW k \in 1 .. m, NEW i \in Items(new[k].state)
      PROVE  Passed(new, k, i)
  <2>1. Passed(st, k, i)
    BY <1>1, <1>6
  <2>2. i[2] \in Nat
    <3>1. st[k] \in Entries /\ new[k] = st[k]
      BY <1>1, <1>6
    <3>2. Items(new[k].state) \subseteq (DOMAIN Prods) \X Nat
      BY <3>1, ItemsAssumption DEF Entries
    <3>3. i \in (DOMAIN Prods) \X Nat
      BY <3>2
    <3> QED
      BY <3>3
  <2>3. \A e \in 0 .. i[2] : k - e >= 1 => new[k - e] = st[k - e]
    BY <1>1, <1>6, <2>2
  <2> QED
    BY <2>1, <2>3 DEF Passed
<1>8. ASSUME NEW i \in Items(new[m + 1].state)
      PROVE  Passed(new, m + 1, i)
  <2>1. i \in Items(t) /\ i \in (DOMAIN Prods) \X Nat
    BY <1>3, <1>6, ItemsAssumption DEF StackEntry
  <2>2. i = <<i[1], i[2]>> /\ i[2] \in Nat
    BY <2>1
  <2> SUFFICES ASSUME NEW e \in 0 .. i[2]
               PROVE  /\ m + 1 - e >= 1
                      /\ <<i[1], i[2] - e>> \in Items(new[m + 1 - e].state)
                      /\ e < i[2] => new[m + 1 - e].sym = Prods[i[1]].RHS[i[2] - e]
    BY DEF Passed
  <2>3. CASE e = 0
    <3>1. m + 1 - e = m + 1 /\ i[2] - e = i[2]
      BY <2>2, <2>3, <1>1
    <3>2. /\ new[m + 1].state = t
          /\ new[m + 1].sym = X
      BY <1>6 DEF StackEntry
    <3>3. e < i[2] => X = Prods[i[1]].RHS[i[2]]
      BY <2>1, <2>3, <1>3
    <3> QED
      BY <3>1, <3>2, <3>3, <2>1, <2>2, <1>1, SMTT(40)
  <2>4. CASE e > 0
    <3> DEFINE j == <<i[1], i[2] - 1>>
    <3>1. i[2] > 0 /\ j \in Items(st[m].state)
      BY <2>1, <2>2, <2>4, <1>2, <1>3, SMTT(40)
    <3>2. Passed(st, m, j)
      BY <3>1, <1>1
    <3>3. e - 1 \in 0 .. j[2] /\ j[1] = i[1] /\ j[2] = i[2] - 1
      BY <2>2, <2>4
    <3>4. /\ m - (e - 1) >= 1
          /\ <<i[1], (i[2] - 1) - (e - 1)>> \in Items(st[m - (e - 1)].state)
          /\ e - 1 < i[2] - 1 =>
               st[m - (e - 1)].sym = Prods[i[1]].RHS[(i[2] - 1) - (e - 1)]
      BY <3>2, <3>3 DEF Passed
    <3>5. m - (e - 1) = m + 1 - e /\ (i[2] - 1) - (e - 1) = i[2] - e
      BY <2>2, <1>1
    <3>6. new[m + 1 - e] = st[m + 1 - e]
      BY <3>4, <3>5, <2>4, <1>1, <1>6
    <3>7. m + 1 - e >= 1
      BY <3>4, <3>5
    <3>8. <<i[1], i[2] - e>> \in Items(new[m + 1 - e].state)
      BY <3>4, <3>5, <3>6
    <3>9. e < i[2] => new[m + 1 - e].sym = Prods[i[1]].RHS[i[2] - e]
      <4>1. e < i[2] => e - 1 < i[2] - 1
        BY <2>2
      <4> QED
        BY <4>1, <3>4, <3>5, <3>6
    <3> QED
      BY <3>7, <3>8, <3>9
  <2> QED
    BY <2>2, <2>3, <2>4
<1> QED
  BY <1>1, <1>6, <1>7, <1>8

\* A handle is its right-hand side, and the state below it goes on.
LEMMA HandleMatches ==
  ASSUME StackInv, NEW p,
         <<p, Len(Prods[p].RHS)>> \in Items(Top(stack).state)
  PROVE  /\ p \in DOMAIN Prods
         /\ Len(stack) > Len(Prods[p].RHS)
         /\ Popped(stack, p) \in Seq(Entries)
         /\ Len(Popped(stack, p)) = Len(stack) - Len(Prods[p].RHS)
         /\ \A k \in 1 .. Len(Popped(stack, p)) : Popped(stack, p)[k] = stack[k]
         /\ Reducible(stack, p)
         /\ \A k \in 1 .. Len(Prods[p].RHS) :
              stack[Len(Popped(stack, p)) + k].sym = Prods[p].RHS[k]
<1> DEFINE m == Len(stack)
           n == Len(Prods[p].RHS)
           rest == Popped(stack, p)
<1>1. m \in Nat /\ m >= 1 /\ stack[m].state \in DOMAIN Table /\ Top(stack) = stack[m]
  <2>1. m \in Nat /\ m >= 1 /\ stack[m] \in Entries
    BY DEF StackInv, StackType
  <2> QED
    BY <2>1 DEF Entries, Top
<1>2. p \in DOMAIN Prods /\ n \in Nat
  BY <1>1, ItemsAssumption
<1>3. Passed(stack, m, <<p, n>>)
  BY <1>1 DEF StackInv, Handles
<1>4. /\ m - n >= 1
      /\ <<p, n - n>> \in Items(stack[m - n].state)
  BY <1>2, <1>3, SMTT(40) DEF Passed
<1>5. /\ rest \in Seq(Entries)
      /\ Len(rest) = m - n
      /\ \A k \in 1 .. m - n : rest[k] = stack[k]
  <2>1. /\ 1 \in Int /\ m - n \in Int
        /\ \A k \in 1 .. m - n : stack[k] \in Entries
    BY <1>1, <1>2 DEF StackInv, StackType
  <2>2. rest = SubSeq(stack, 1, m - n)
    BY DEF Popped
  <2>3. /\ rest \in Seq(Entries)
        /\ Len(rest) = IF 1 <= m - n THEN (m - n) - 1 + 1 ELSE 0
        /\ \A k \in 1 .. (m - n) - 1 + 1 : rest[k] = stack[1 + k - 1]
    BY ONLY <2>1, <2>2, SubSeqProperties
  <2>4. 1 <= m - n /\ (m - n) - 1 + 1 = m - n /\ \A k \in 1 .. m - n : 1 + k - 1 = k
    BY <1>1, <1>2, <1>4
  <2> QED
    BY ONLY <2>3, <2>4
<1>6. Top(rest) = stack[m - n] /\ stack[m - n].state \in DOMAIN Table
  <2>1. rest[m - n] \in Entries /\ rest[m - n] = stack[m - n] /\ Top(rest) = rest[m - n]
    BY <1>1, <1>2, <1>4, <1>5 DEF Top
  <2> QED
    BY <2>1 DEF Entries
<1>7. <<p, 0>> \in Items(stack[m - n].state)
  BY <1>2, <1>4
<1>8. /\ Prods[p].LHS \in DOMAIN Table[Top(rest).state]
      /\ Table[Top(rest).state][Prods[p].LHS].act = "GOTO"
  BY <1>6, <1>7, ItemsAssumption
<1>9. Reducible(stack, p)
  BY <1>1, <1>2, <1>4, <1>8 DEF Reducible, ActionOf
<1>10. ASSUME NEW k \in 1 .. n
       PROVE  stack[Len(rest) + k].sym = Prods[p].RHS[k]
  <2>1. n - k \in 0 .. n /\ n - k < n /\ n - (n - k) = k /\ m - (n - k) = Len(rest) + k
    BY <1>1, <1>2, <1>5
  <2> QED
    BY <2>1, <1>2, <1>3 DEF Passed
<1>11. m > n /\ Len(rest) = m - n /\ \A k \in 1 .. Len(rest) : rest[k] = stack[k]
  BY <1>1, <1>2, <1>4, <1>5
<1> QED
  BY <1>2, <1>5, <1>9, <1>10, <1>11

\* What the table's entry is when the loop acts on it.
LEMMA EntryOf ==
  ASSUME StackInv, NEW act \in {"SHIFT", "GOTO", "REDUCE", "ACCEPT"}, Acts(act)
  PROVE  /\ Top(stack).state \in DOMAIN Table
         /\ lookahead.type \in DOMAIN Table[Top(stack).state]
         /\ pte.act = act
<1>1. Len(stack) \in 1 .. Len(stack) /\ stack[Len(stack)] \in Entries
  BY DEF StackInv, StackType
<1>2. Top(stack).state \in DOMAIN Table
  BY <1>1 DEF Entries, Top
<1>3. ActionOf(Top(stack).state, lookahead.type) = act /\ act # "NIL"
  BY DEF Acts
<1>4. lookahead.type \in DOMAIN Table[Top(stack).state]
  BY <1>3 DEF ActionOf
<1> QED
  BY <1>2, <1>3, <1>4 DEF ActionOf, pte

LEMMA ReducesHandle ==
  ASSUME StackInv, Acts("REDUCE")
  PROVE  <<pte.n, Len(Prods[pte.n].RHS)>> \in Items(Top(stack).state)
BY EntryOf, ItemsAssumption DEF pte

\* The invariant says what ReductionsMatch says.
LEMMA StackMatches ==
  StackInv => ReductionsMatch
<1> SUFFICES ASSUME StackInv, Acts("REDUCE")
             PROVE  /\ Reducible(stack, pte.n)
                    /\ \A k \in 1 .. Len(Prods[pte.n].RHS) :
                         stack[Len(Popped(stack, pte.n)) + k].sym = Prods[pte.n].RHS[k]
  BY DEF ReductionsMatch
<1> QED
  BY ReducesHandle, HandleMatches

-------------------------------------------------------------------------------
(* The invariant holds.                                                    *)

LEMMA StackInit ==
  LaStart => StackInv
<1> SUFFICES ASSUME LaStart PROVE StackInv
  OBVIOUS
<1> DEFINE first == StackEntry(0, "")
<1>1. first \in Entries /\ first.state = 0 /\ 0 \in DOMAIN Table
  <2>1. 0 \in DOMAIN Table
    BY TableAssumption
  <2>2. "" \in Symbols
    BY DEF Symbols
  <2> QED
    BY <2>1, <2>2 DEF StackEntry, Entries
<1>2. stack = <<first>>
  BY DEF LaStart
<1> HIDE DEF first
<1>3. stack \in Seq(Entries) /\ stack # <<>> /\ Len(stack) = 1 /\ stack[1] = first
  BY <1>1, <1>2
<1>4. ASSUME NEW k \in 1 .. Len(stack), NEW i \in Items(stack[k].state)
      PROVE  Passed(stack, k, i)
  <2>1. k = 1 /\ stack[k].state = 0
    BY <1>1, <1>3
  <2>2. i[2] = 0
    BY <2>1, ItemsAssumption
  <2>3. i \in (DOMAIN Prods) \X Nat
    BY <1>1, <2>1, ItemsAssumption
  <2>4. i = <<i[1], i[2]>>
    BY <2>3
  <2> SUFFICES ASSUME NEW e \in 0 .. i[2]
               PROVE  /\ k - e >= 1
                      /\ <<i[1], i[2] - e>> \in Items(stack[k - e].state)
                      /\ e < i[2] => stack[k - e].sym = Prods[i[1]].RHS[i[2] - e]
    BY DEF Passed
  <2>5. e = 0 /\ k - e = k /\ i[2] - e = i[2]
    BY <2>1, <2>2
  <2> QED
    BY <2>1, <2>2, <2>4, <2>5
<1> QED
  BY <1>3, <1>4 DEF StackInv, StackType, Handles

LEMMA StackStep ==
  StackInv /\ (LaNext \/ UNCHANGED stack) => StackInv'
<1> SUFFICES ASSUME StackInv, LaNext \/ UNCHANGED stack
             PROVE  StackInv'
  OBVIOUS
<1> DEFINE Good(st) == /\ st \in Seq(Entries)
                       /\ st # <<>>
                       /\ \A k \in 1 .. Len(st) : \A i \in Items(st[k].state) : Passed(st, k, i)
<1>1. Good(stack) /\ (Good(stack') => StackInv')
  BY DEF StackInv, StackType, Handles
<1>2. CASE Shift
  <2>1. Acts("SHIFT")
    BY <1>2 DEF Shift
  <2>2. /\ lookahead.type \in DOMAIN Table[Top(stack).state]
        /\ Table[Top(stack).state][lookahead.type].act \in {"SHIFT", "GOTO"}
    BY <2>1, EntryOf DEF pte
  <2>3. stack' = Append(stack, StackEntry(Table[Top(stack).state][lookahead.type].n, lookahead.type))
    BY <1>2 DEF Shift, pte
  <2>4. Good(stack')
    BY <1>1, <2>2, <2>3, PushKeeps
  <2> QED
    BY <1>1, <2>4
<1>3. CASE Reduce
  <2> DEFINE p == pte.n
             rest == Popped(stack, p)
             LHS == Prods[p].LHS
  <2>1. Acts("REDUCE") /\ <<p, Len(Prods[p].RHS)>> \in Items(Top(stack).state)
    BY <1>3, ReducesHandle DEF Reduce
  <2>2. /\ Len(stack) > Len(Prods[p].RHS) /\ Len(Prods[p].RHS) \in Nat
        /\ rest \in Seq(Entries)
        /\ Len(rest) = Len(stack) - Len(Prods[p].RHS)
        /\ \A k \in 1 .. Len(rest) : rest[k] = stack[k]
        /\ Reducible(stack, p)
    <3>1. p \in DOMAIN Prods
      BY <2>1, HandleMatches
    <3>2. Len(Prods[p].RHS) \in Nat
      BY <3>1, TableAssumption
    <3> QED
      BY <2>1, <3>2, HandleMatches
  <2> HIDE DEF rest
  <2>3. rest # <<>> /\ Len(rest) <= Len(stack) /\ Len(stack) \in Nat /\ Len(rest) \in Nat
    <3>1. Len(stack) \in Nat
      BY <1>1
    <3>2. Len(rest) >= 1 /\ Len(rest) <= Len(stack)
      BY <2>2, <3>1
    <3> QED
      BY <2>2, <3>1, <3>2
  <2>4. ASSUME NEW k \in 1 .. Len(rest), NEW i \in Items(rest[k].state)
        PROVE  Passed(rest, k, i)
    <3>1. k \in 1 .. Len(stack) /\ rest[k] = stack[k] /\ rest[k] \in Entries
      BY <2>2, <2>3
    <3>2. Passed(stack, k, i)
      BY <1>1, <3>1
    <3>3. i[2] \in Nat
      <4>1. i \in (DOMAIN Prods) \X Nat
        BY <3>1, ItemsAssumption DEF Entries
      <4> QED
        BY <4>1
    <3>4. \A e \in 0 .. i[2] : k - e >= 1 => rest[k - e] = stack[k - e]
      BY <2>2, <2>3, <3>3
    <3> QED
      BY <3>2, <3>4 DEF Passed
  <2>5. /\ LHS \in DOMAIN Table[Top(rest).state]
        /\ Table[Top(rest).state][LHS].act \in {"SHIFT", "GOTO"}
    BY <2>2 DEF Reducible, ActionOf, rest
  <2>6. stack' = Append(rest, StackEntry(Table[Top(rest).state][LHS].n, LHS))
    BY <1>3, <2>2, SMTT(40) DEF Reduce, Reduced, rest
  <2>7. Good(stack')
    BY <2>2, <2>3, <2>4, <2>5, <2>6, PushKeeps
  <2> QED
    BY <1>1, <2>7
<1>4. CASE Accept
  BY <1>1, <1>4 DEF Accept, parseVars, StackInv, StackType, Handles
<1>5. CASE SyntaxError
  BY <1>1, <1>5 DEF SyntaxError, StackInv, StackType, Handles
<1>6. CASE UNCHANGED stack
  BY <1>1, <1>6 DEF StackInv, StackType, Handles
<1> QED
  BY <1>2, <1>3, <1>4, <1>5, <1>6 DEF LaNext

\* In parse alone, on any stream: no throw of a reduction, and the right-hand
\* side of the production is what is popped (163, 582, 587).
THEOREM ParseReductionsMatch ==
  LaSpec => []ReductionsMatch
<1>1. LaStart => StackInv
  BY StackInit
<1>2. StackInv /\ [LaNext]_laVars => StackInv'
  BY StackStep DEF laVars, parseVars
<1>3. StackInv => ReductionsMatch
  BY StackMatches
<1> QED
  BY <1>1, <1>2, <1>3, PTL DEF LaSpec

-------------------------------------------------------------------------------
(* The process around the parser.                                          *)

\* Every step of the process is a step of parse or leaves its stack alone.
LEMMA StepsOfStack ==
  ASSUME [Next]_vars
  PROVE  LaNext \/ UNCHANGED stack
<1>1. CASE Parse
  BY <1>1 DEF Parse
<1>2. CASE UNCHANGED vars
  BY <1>2 DEF vars, parseVars
<1>3. CASE Arguments
  BY <1>3 DEF Arguments, parseVars
<1>4. CASE Scan
  BY <1>4 DEF Scan, parseVars
<1>5. CASE ScanThrew \/ AfterScan \/ ParseThrew \/ AfterParse \/ TypeCheck
  BY <1>5 DEF ScanThrew, AfterScan, ParseThrew, AfterParse, TypeCheck, parseVars
<1>6. CASE Generate \/ PrintIR \/ EmitObject \/ Link \/ CleanUp
  BY <1>6 DEF Generate, PrintIR, EmitObject, Link, CleanUp, parseVars
<1> QED
  BY <1>1, <1>2, <1>3, <1>4, <1>5, <1>6 DEF Next

\* Whatever the texts and the commands, the reductions of parse match (163,
\* 582, 587): none of the three throws is ever the reason for exit code 5.
THEOREM ReductionsAlwaysMatch ==
  Spec => []ReductionsMatch
<1>1. Init => StackInv
  BY StackInit DEF Init
<1>2. StackInv /\ [Next]_vars => StackInv'
  BY StepsOfStack, StackStep
<1>3. StackInv => ReductionsMatch
  BY StackMatches
<1> QED
  BY <1>1, <1>2, <1>3, PTL DEF Spec

-------------------------------------------------------------------------------
(* The lines of the stream, phase by phase.                                *)

Listed(s) == s \in Seq(Range(s))

\* All tokens but the first have a line.
Lined(s) == \A k \in 2 .. Len(s) : s[k].line_num \in Nat /\ s[k].line_num > 0

\* All but the first and the last two have.
Marked(s) ==
  /\ Len(s) >= 3
  /\ \A k \in 1 .. Len(s) :
       /\ s[k].line_num \in Nat
       /\ s[k].line_num = 0 <=> k \in {1, Len(s) - 1, Len(s)}

LinesInv ==
  /\ line_num \in Nat /\ line_num > 0
  /\ token_idx \in Nat /\ token_idx > 0
  /\ Listed(stream) /\ stream # <<>> /\ stream[1].line_num = 0
  /\ phase \in {"arguments", "scan"} => Lined(stream)
  /\ phase = "scanned" => Last(stream).type = "DOLLAR" \/ Lined(stream)
  /\ phase \in {"parse", "parse_threw"} => Marked(stream)
  /\ ErrorsReported

LEMMA ListedAnyway ==
  ASSUME NEW S, NEW s \in Seq(S)
  PROVE  Listed(s)
<1>1. Len(s) \in Nat /\ DOMAIN s = 1 .. Len(s) /\ s = [i \in 1 .. Len(s) |-> s[i]]
  OBVIOUS
<1>2. \A i \in 1 .. Len(s) : s[i] \in Range(s)
  BY <1>1 DEF Range
<1> QED
  BY <1>1, <1>2 DEF Listed

\* A token or a mark more.
LEMMA AppendListed ==
  ASSUME NEW s, Listed(s), NEW e
  PROVE  /\ Listed(Append(s, e))
         /\ Len(Append(s, e)) = Len(s) + 1
         /\ Len(s) \in Nat
         /\ Append(s, e)[Len(s) + 1] = e
         /\ \A k \in 1 .. Len(s) : Append(s, e)[k] = s[k]
<1> DEFINE S == Range(s) \cup {e}
<1>1. s \in Seq(Range(s))
  BY DEF Listed
<1>2. s \in Seq(S) /\ e \in S
  BY <1>1
<1> HIDE DEF S
<1>3. /\ Append(s, e) \in Seq(S)
      /\ Len(Append(s, e)) = Len(s) + 1
      /\ Len(s) \in Nat
      /\ Append(s, e)[Len(s) + 1] = e
      /\ \A k \in 1 .. Len(s) : Append(s, e)[k] = s[k]
  BY <1>2
<1>4. Listed(Append(s, e))
  BY <1>3, ListedAnyway
<1> QED
  BY <1>3, <1>4

-------------------------------------------------------------------------------
(* What the invariant says of the report of an error.                      *)

\* Between the marks the walks of print_stream_line end inside the stream; at
\* the marks one of them does not.
LEMMA ReportNeedsLine ==
  ASSUME Marked(stream), NEW i \in 1 .. Len(stream), Len(stream) \in Nat
  PROVE  print_stream_line(i) <=> stream[i].line_num > 0
<1> DEFINE n == Len(stream)
           line(k) == stream[k].line_num
<1>1. n >= 3 /\ \A k \in 1 .. n : line(k) \in Nat /\ (line(k) = 0 <=> k \in {1, n - 1, n})
  BY DEF Marked
<1> HIDE DEF line
<1>2. line(1) = 0 /\ line(n) = 0 /\ line(n - 1) = 0
  BY <1>1
<1>3. print_stream_line(i) <=> /\ \E l \in 1 .. i : line(l) # line(i)
                               /\ \E r \in i .. n : line(r) # line(i)
  BY DEF print_stream_line, line
<1>4. CASE line(i) > 0
  <2>1. /\ 1 \in 1 .. i /\ line(1) # line(i)
        /\ n \in i .. n /\ line(n) # line(i)
    BY <1>1, <1>2, <1>4
  <2>2. print_stream_line(i)
    BY <1>3, <2>1
  <2> QED
    BY <1>4, <2>2 DEF line
<1>5. CASE line(i) = 0
  <2>1. i \in {1, n - 1, n}
    BY <1>1, <1>5
  <2>2. CASE i = 1
    <3>1. \A l \in 1 .. i : line(l) = line(i)
      BY <2>2
    <3> QED
      BY <1>3, <1>5, <3>1 DEF line
  <2>3. CASE i \in {n - 1, n}
    <3>1. \A r \in i .. n : r \in {n - 1, n}
      BY <1>1, <2>3
    <3>2. \A r \in i .. n : line(r) = line(i)
      BY <1>2, <1>5, <3>1
    <3> QED
      BY <1>3, <1>5, <3>2 DEF line
  <2> QED
    BY <2>1, <2>2, <2>3
<1> QED
  BY <1>1, <1>4, <1>5 DEF line

\* A token of the scan keeps what the invariant says of the stream.
LEMMA TokenKeeps ==
  ASSUME Listed(stream), stream # <<>>, stream[1].line_num = 0, Lined(stream),
         NEW t, t.line_num \in Nat, t.line_num > 0,
         stream' = Append(stream, t)
  PROVE  Listed(stream') /\ stream' # <<>> /\ stream'[1].line_num = 0 /\ Lined(stream')
<1>1. Len(stream) \in Nat /\ Len(stream) >= 1
  BY DEF Listed
<1>2. /\ Listed(stream')
      /\ Len(stream') = Len(stream) + 1
      /\ stream'[Len(stream) + 1] = t
      /\ \A k \in 1 .. Len(stream) : stream'[k] = stream[k]
  BY AppendListed
<1>3. ASSUME NEW k \in 2 .. Len(stream')
      PROVE  stream'[k].line_num \in Nat /\ stream'[k].line_num > 0
  <2>1. CASE k = Len(stream) + 1
    BY <1>2, <2>1
  <2>2. CASE k \in 2 .. Len(stream)
    BY <1>1, <1>2, <2>2 DEF Lined
  <2> QED
    BY <1>1, <1>2, <2>1, <2>2
<1>4. stream' # <<>> /\ stream'[1] = stream[1]
  BY <1>1, <1>2 DEF Listed
<1> QED
  BY <1>2, <1>3, <1>4 DEF Lined

\* The mark of a lexer's error, which may have no line.
LEMMA MarkKeeps ==
  ASSUME Listed(stream), stream # <<>>, stream[1].line_num = 0,
         NEW type, stream' = Append(stream, Mark(type))
  PROVE  /\ Listed(stream') /\ stream' # <<>> /\ stream'[1].line_num = 0
         /\ Last(stream').type = type
<1>1. Len(stream) \in Nat /\ Len(stream) >= 1
  BY DEF Listed
<1>2. /\ Listed(stream')
      /\ Len(stream') = Len(stream) + 1
      /\ stream'[Len(stream) + 1] = Mark(type)
      /\ \A k \in 1 .. Len(stream) : stream'[k] = stream[k]
  BY AppendListed
<1>3. Mark(type).type = type
  BY DEF Mark, Token
<1>4. stream' # <<>> /\ stream'[1] = stream[1]
  BY <1>1, <1>2 DEF Listed
<1> QED
  BY <1>2, <1>3, <1>4 DEF Last

-------------------------------------------------------------------------------
(* The invariant holds.                                                    *)

LEMMA LinesInit ==
  Init => LinesInv
<1> SUFFICES ASSUME Init PROVE LinesInv
  OBVIOUS
<1> DEFINE first == Mark("BoF")
<1>1. stream = <<first>>
  BY DEF Init, ScanInit
<1>2. first.line_num = 0
  BY DEF Mark, Token
<1> HIDE DEF first
<1>3. stream \in Seq({first}) /\ Len(stream) = 1 /\ stream # <<>> /\ stream[1] = first
  BY <1>1
<1>4. Listed(stream) /\ Lined(stream)
  BY <1>3, ListedAnyway DEF Lined
<1>5. phase = "arguments" /\ line_num = 1 /\ token_idx = 1
  BY DEF Init, ScanInit, LaStart
<1> QED
  BY <1>2, <1>3, <1>4, <1>5 DEF LinesInv, ErrorsReported

\* What a step may leave alone, and the phases it may lead to without the lines.
LEMMA LinesUntouched ==
  ASSUME LinesInv, UNCHANGED <<stream, line_num, token_idx>>,
         \/ phase' = phase /\ UNCHANGED <<thrown, reported>>
         \/ phase' = "scan" /\ phase = "arguments"
         \/ phase' \notin {"arguments", "scan", "scanned", "parse", "parse_threw"}
  PROVE  LinesInv'
<1>1. CASE phase' = phase /\ UNCHANGED <<thrown, reported>>
  BY <1>1 DEF LinesInv, ErrorsReported, Listed, Lined, Marked, lookahead
<1>2. CASE phase' = "scan" /\ phase = "arguments"
  BY <1>2 DEF LinesInv, ErrorsReported, Listed, Lined
<1>3. CASE phase' \notin {"arguments", "scan", "scanned", "parse", "parse_threw"}
  BY <1>3 DEF LinesInv, ErrorsReported, Listed
<1> QED
  BY <1>1, <1>2, <1>3

LEMMA ScanKeepsLines ==
  ASSUME LinesInv, Scan
  PROVE  LinesInv'
<1> USE DEF parseVars
<1>1. phase = "scan" /\ UNCHANGED token_idx
  BY DEF Scan, ScanNext, SkipLine, SkipBlank, InvalidStart, NewToken, Transition,
         EndOfText, Getting
<1>2. /\ Listed(stream) /\ stream # <<>> /\ stream[1].line_num = 0 /\ Lined(stream)
      /\ line_num \in Nat /\ line_num > 0 /\ token_idx \in Nat /\ token_idx > 0
  BY <1>1 DEF LinesInv
<1> DEFINE t == Token(TokenType(state, lexeme), lexeme, line_num)
<1>3. t.line_num = line_num
  BY DEF Token
<1>4. CASE SkipLine \/ SkipBlank \/ Transition
  <2>1. phase' = "scan" /\ UNCHANGED stream /\ line_num' \in {line_num, line_num + 1}
    BY <1>1, <1>4 DEF SkipLine, SkipBlank, Transition, Getting
  <2> QED
    BY <1>1, <1>2, <2>1 DEF LinesInv, ErrorsReported, Listed, Lined
<1>5. CASE LexerError
  <2>1. phase' = "scanned" /\ stream' = Append(stream, Mark("DOLLAR")) /\ UNCHANGED line_num
    BY <1>5 DEF LexerError, scanVars
  <2>2. /\ Listed(stream') /\ stream' # <<>> /\ stream'[1].line_num = 0
        /\ Last(stream').type = "DOLLAR"
    BY <1>2, <2>1, MarkKeeps
  <2> QED
    BY <1>1, <1>2, <2>1, <2>2 DEF LinesInv, ErrorsReported
<1>6. CASE stream' = Append(stream, t) /\ phase' \in {"scan", "scanned"} /\ UNCHANGED line_num
  <2>1. Listed(stream') /\ stream' # <<>> /\ stream'[1].line_num = 0 /\ Lined(stream')
    BY <1>2, <1>3, <1>6, TokenKeeps
  <2> QED
    BY <1>1, <1>2, <1>6, <2>1 DEF LinesInv, ErrorsReported
<1>7. CASE UNCHANGED stream /\ phase' \in {"scanned", "scan_threw"} /\ UNCHANGED line_num
  BY <1>1, <1>2, <1>7 DEF LinesInv, ErrorsReported, Listed, Lined
<1>8. CASE NewToken
  <2>1. LexerError \/ (stream' = Append(stream, t) /\ phase' = phase /\ UNCHANGED line_num)
    BY <1>8 DEF NewToken
  <2> QED
    BY <1>1, <1>5, <1>6, <2>1
<1>9. CASE EndOfText
  <2>1. UNCHANGED line_num
    BY <1>9 DEF EndOfText, scanVars
  <2>2. \/ phase' = "scan_threw" /\ UNCHANGED stream
        \/ phase' = "scanned" /\ UNCHANGED stream
        \/ phase' = "scanned" /\ stream' = Append(stream, t)
    BY <1>9 DEF EndOfText
  <2> QED
    BY <1>6, <1>7, <2>1, <2>2
<1> QED
  BY <1>4, <1>5, <1>8, <1>9 DEF Scan, ScanNext, InvalidStart

\* main puts the two marks of the end behind a stream without an error.
LEMMA MarksKeepLines ==
  ASSUME LinesInv, AfterScan
  PROVE  LinesInv'
<1>1. /\ phase = "scanned" /\ UNCHANGED <<line_num, token_idx>>
      /\ Listed(stream) /\ stream # <<>> /\ stream[1].line_num = 0
      /\ Last(stream).type = "DOLLAR" \/ Lined(stream)
  BY DEF AfterScan, LinesInv, scanVars, parseVars
<1>2. CASE Last(stream).type = "DOLLAR"
  <2>1. phase' = "exited" /\ UNCHANGED stream
    BY <1>2 DEF AfterScan, Exit
  <2> QED
    BY <1>1, <2>1, LinesUntouched
<1>3. CASE Last(stream).type # "DOLLAR"
  <2> DEFINE e == Mark("EoF")
             d == Mark("DOLLAR")
             n == Len(stream)
  <2>1. stream' = stream \o <<e, d>> /\ phase' \in {"exited", "parse"}
    BY <1>3 DEF AfterScan, OutputOr, Exit
  <2>2. e.line_num = 0 /\ d.line_num = 0
    BY DEF Mark, Token
  <2> HIDE DEF e, d
  <2>3. /\ n \in Nat /\ n >= 1
        /\ Len(stream') = n + 2
        /\ \A k \in 1 .. n : stream'[k] = stream[k]
        /\ stream'[n + 1] = e /\ stream'[n + 2] = d
        /\ Listed(stream')
    <3> DEFINE S == Range(stream) \cup {e, d}
    <3>1. stream \in Seq(Range(stream))
      BY <1>1 DEF Listed
    <3>2. stream \in Seq(S) /\ <<e, d>> \in Seq(S)
      BY <3>1
    <3> HIDE DEF S
    <3>3. stream' \in Seq(S)
      BY <2>1, <3>2
    <3>4. n \in Nat /\ n >= 1
      BY <1>1, <3>2
    <3>5. /\ Len(stream') = n + 2
          /\ \A k \in 1 .. n : stream'[k] = stream[k]
          /\ stream'[n + 1] = e /\ stream'[n + 2] = d
      BY <2>1, <3>2, <3>4
    <3> QED
      BY <3>3, <3>4, <3>5, ListedAnyway
  <2> HIDE DEF n
  <2>4. Lined(stream)
    BY <1>1, <1>3
  <2>5. Marked(stream')
    <3>1. ASSUME NEW k \in 1 .. n + 2
          PROVE  /\ stream'[k].line_num \in Nat
                 /\ stream'[k].line_num = 0 <=> k \in {1, n + 1, n + 2}
      <4>1. CASE k \in {n + 1, n + 2}
        BY <2>2, <2>3, <4>1
      <4>2. CASE k = 1
        BY <1>1, <2>3, <4>2
      <4>3. CASE k \in 2 .. n
        BY <2>3, <2>4, <4>3 DEF Lined, n
      <4> QED
        BY <2>3, <4>1, <4>2, <4>3
    <3>2. Len(stream') - 1 = n + 1 /\ Len(stream') = n + 2
      BY <2>3
    <3> QED
      BY <2>3, <3>1, <3>2 DEF Marked
  <2>6. stream' # <<>> /\ stream'[1].line_num = 0
    BY <1>1, <2>3
  <2> QED
    BY <1>1, <2>1, <2>3, <2>5, <2>6 DEF LinesInv, ErrorsReported
<1> QED
  BY <1>2, <1>3

LEMMA ParseKeepsLines ==
  ASSUME LinesInv, Parse
  PROVE  LinesInv'
<1>1. phase = "parse" /\ UNCHANGED <<stream, line_num>>
  BY DEF Parse, LaNext, Shift, Reduce, Accept, SyntaxError, Acts, Throw, scanVars
<1>2. CASE phase' = "parse" /\ token_idx' \in {token_idx, token_idx + 1}
  BY <1>1, <1>2 DEF LinesInv, ErrorsReported, Listed, Marked
<1>3. CASE phase' = "parsed" /\ UNCHANGED token_idx
  BY <1>1, <1>3, LinesUntouched
<1>4. CASE token_idx <= Len(stream) /\ Throw(TRUE)
  <2>1. /\ Len(stream) \in Nat /\ token_idx \in 1 .. Len(stream)
        /\ Marked(stream)
    BY <1>1, <1>4 DEF LinesInv, Listed
  <2>2. print_stream_line(token_idx) <=> stream[token_idx].line_num > 0
    BY <2>1, ReportNeedsLine
  <2>3. /\ phase' = "parse_threw"
        /\ reported' <=> stream[token_idx].line_num > 0
        /\ thrown' = IF ~(stream[token_idx].line_num > 0) THEN "out_of_range" ELSE "Out"
        /\ UNCHANGED token_idx
    <3>1. phase' = "parse_threw" /\ UNCHANGED token_idx
      BY <1>4 DEF Throw
    <3>2. reported' = (TRUE /\ print_stream_line(token_idx))
      BY <1>4, Zenon DEF Throw
    <3>4. reported' <=> print_stream_line(token_idx)
      BY <3>2, Zenon
    <3>3. thrown' = IF ~(stream[token_idx].line_num > 0) THEN "out_of_range" ELSE "Out"
      BY <1>4, <2>2 DEF Throw
    <3> QED
      BY <3>1, <3>3, <3>4, <2>2
  <2>4. ErrorsReported'
    <3>1. lookahead' = stream[token_idx]
      BY <1>1, <2>3 DEF lookahead
    <3>2. reported' <=> lookahead'.line_num > 0
      BY <2>3, <3>1
    <3>3. reported' <=> thrown' = "Out"
      BY <2>3
    <3> QED
      BY <3>2, <3>3 DEF ErrorsReported
  <2> QED
    BY <1>1, <2>1, <2>3, <2>4 DEF LinesInv, Listed, Marked
<1>5. CASE Shift
  BY <1>1, <1>2, <1>5 DEF Shift
<1>6. CASE Reduce
  BY <1>1, <1>2, <1>4, <1>6 DEF Reduce, Acts
<1>7. CASE Accept
  BY <1>3, <1>7 DEF Accept, parseVars
<1>8. CASE SyntaxError
  BY <1>4, <1>8 DEF SyntaxError
<1> QED
  BY <1>5, <1>6, <1>7, <1>8 DEF Parse, LaNext

LEMMA LinesStep ==
  LinesInv /\ [Next]_vars => LinesInv'
<1> SUFFICES ASSUME LinesInv, [Next]_vars
             PROVE  LinesInv'
  OBVIOUS
<1> USE DEF scanVars, parseVars
<1>1. CASE Scan
  BY <1>1, ScanKeepsLines
<1>2. CASE AfterScan
  BY <1>2, MarksKeepLines
<1>3. CASE Parse
  BY <1>3, ParseKeepsLines
<1>4. CASE UNCHANGED vars
  BY <1>4, LinesUntouched DEF vars
<1>5. CASE Arguments
  <2>1. /\ phase = "arguments"
        /\ UNCHANGED <<stream, line_num, token_idx, thrown, reported>>
        /\ phase' \in {"arguments", "scan", "exited"}
    BY <1>5 DEF Arguments, TakeFlag, TakeExecName, TakeFile, OpenFile, Reading, Exit
  <2> QED
    BY <2>1, LinesUntouched
<1>6. CASE ScanThrew \/ ParseThrew \/ AfterParse \/ TypeCheck
  <2>1. /\ UNCHANGED <<stream, line_num, token_idx>>
        /\ phase' \in {"exited", "typecheck", "generate"}
    BY <1>6 DEF ScanThrew, ParseThrew, AfterParse, TypeCheck, TreeOr, PrintTree, Exit
  <2> QED
    BY <2>1, LinesUntouched
<1>7. CASE Generate \/ PrintIR \/ EmitObject \/ Link \/ CleanUp
  <2>1. /\ UNCHANGED <<stream, line_num, token_idx>>
        /\ phase' \in {"exited", "print", "emit", "link", "clean_up"}
    BY <1>7 DEF Generate, PrintIR, EmitObject, Link, CleanUp, Exit
  <2> QED
    BY <2>1, LinesUntouched
<1> QED
  BY <1>1, <1>2, <1>3, <1>4, <1>5, <1>6, <1>7 DEF Next

\* Whatever the texts and the commands, an error of parse is reported with its
\* line if its token has one, and main says what print_stream_line's at() says
\* if it has not (108-117, 599-606).
THEOREM ErrorsAlwaysReported ==
  Spec => []ErrorsReported
<1>1. LinesInv => ErrorsReported
  BY DEF LinesInv
<1> QED
  BY LinesInit, LinesStep, <1>1, PTL DEF Spec

-------------------------------------------------------------------------------
(* The files: what main has written when, and under whose name.            *)

FileName == Seq(STRING) \ {<<>>}

\* The phases behind a flag's return, in which it is known not to be set.
Emitted   == {"link", "clean_up"}
Printed   == {"emit"} \cup Emitted
Annotated == {"generate", "print"} \cup Printed
Parsed    == {"typecheck"} \cup Annotated
TokensMade   == {"parse", "parse_threw", "parsed"} \cup Parsed
Opened    == {"scan", "scan_threw", "scanned"} \cup TokensMade

FlagsInv ==
  /\ phase \in TokensMade => "-sc" \notin flags
  /\ phase \in Parsed => "-pa" \notin flags
  /\ phase \in Annotated => "-sa" \notin flags
  /\ phase \in Printed => "-ir" \notin flags /\ writable
  /\ phase \in Emitted => "-co" \notin flags

NoName(n) == \A i \in 1 .. n : argv[i] # <<"-o">>

\* Whom the executable's name comes from: the command, nobody yet, or main.
NamesInv ==
  /\ argv \in Seq(FileName)
  /\ next_arg \in 1 .. Len(argv) + 1
  /\ source.name \in FileName
  /\ file \in Seq(STRING)
  /\ writable \in BOOLEAN
  /\ phase \in Opened => file # <<>> /\ next_arg = Len(argv) + 1
  /\ \/ \E i \in 1 .. Len(argv) - 1 : argv[i] = <<"-o">> /\ argv[i + 1] = exec_name
     \/ exec_name = <<>> /\ NoName(next_arg - 1)
     \/ /\ phase \in {"clean_up", "exited"} /\ file # <<>>
        /\ exec_name = file_root /\ NoName(Len(argv))

\* The files that are there beside the source, before the process exits.
Intermediate ==
  CASE phase = "emit"     -> {Out("ll")}
    [] phase = "link"     -> {Out("ll"), Out("o")}
    [] phase = "clean_up" -> {Out("ll"), Out("o"), exec_name}
    [] OTHER              -> {}

Kept == source.name \in DOMAIN disk /\ disk[source.name] = "source"

FilesInv ==
  /\ NamesInv
  /\ FlagsInv
  /\ phase \in Opened \cup {"arguments", "exited"}
  /\ phase # "exited" => New = Intermediate
  /\ phase = "clean_up" => disk[exec_name] = "executable"
  /\ OutputsMatchExit
  /\ \/ Kept
     \/ phase \in Opened \cup {"exited"} /\ file # <<>>
        /\ source.name \in {Out(x) : x \in {"xert", "xerp", "ll", "o"}}
     \/ phase \in {"clean_up", "exited"} /\ source.name = exec_name

LEMMA FilesInit ==
  Init => FilesInv
<1> SUFFICES ASSUME Init PROVE FilesInv
  OBVIOUS
<1>1. /\ phase = "arguments" /\ next_arg = 1 /\ file = <<>> /\ exec_name = <<>>
      /\ disk = [n \in {source.name} |-> "source"] /\ writable \in BOOLEAN
  BY DEF Init
<1>2. argv \in Seq(FileName) /\ source.name \in FileName
  BY InputsAssumption DEF Init, FileName
<1>3. NamesInv
  BY <1>1, <1>2 DEF NamesInv, NoName, Opened, TokensMade, Parsed, Annotated, Printed, Emitted
<1>4. New = {} /\ Kept
  BY <1>1 DEF New, Kept
<1> QED
  BY <1>1, <1>3, <1>4 DEF FilesInv, FlagsInv, OutputsMatchExit, Intermediate, Opened,
     TokensMade, Parsed, Annotated, Printed, Emitted

\* A file more, when files can be written; the others stay as they are.
LEMMA WrittenAdds ==
  ASSUME NEW name, NEW content, content # "source", disk' = Written(name, content)
  PROVE  /\ writable => New' = New \cup {name}
         /\ ~writable => New' = New
         /\ \A n \in New' : n \in New \/ disk'[n] = content
         /\ Kept /\ UNCHANGED source => Kept' \/ source.name = name
<1>1. CASE writable
  <2>1. disk' = [n \in DOMAIN disk \cup {name} |-> IF n = name THEN content ELSE disk[n]]
    BY <1>1 DEF Written, With
  <2> QED
    BY <1>1, <2>1 DEF New, Kept
<1>2. CASE ~writable
  BY <1>2 DEF Written, New, Kept
<1> QED
  BY <1>1, <1>2

LEMMA NamesStay ==
  ASSUME NamesInv, Untouched, phase \in Opened, phase' \in Opened \cup {"exited"},
         phase = "clean_up" => phase' = "exited"
  PROVE  NamesInv' /\ UNCHANGED <<file_root, Left>>
<1>1. UNCHANGED <<argv, next_arg, flags, file, exec_name, source, writable>>
  BY DEF Untouched
<1>2. UNCHANGED <<file_root, Left>>
  BY <1>1 DEF file_root, Left, Out
<1>3. phase \notin {"exited", "clean_up"} \/ phase' = "exited"
  BY DEF Opened, TokensMade, Parsed, Annotated, Printed, Emitted
<1> QED
  BY <1>1, <1>2, <1>3 DEF NamesInv, NoName

\* A step of scan or of parse.
LEMMA FilesUntouched ==
  ASSUME FilesInv, UNCHANGED driverVars,
         \/ phase' = phase
         \/ phase = "scan" /\ phase' \in {"scanned", "scan_threw"}
         \/ phase = "parse" /\ phase' \in {"parsed", "parse_threw"}
  PROVE  FilesInv'
<1> USE DEF Opened, TokensMade, Parsed, Annotated, Printed, Emitted
<1>1. UNCHANGED <<argv, next_arg, flags, file, exec_name, source, writable, disk, code>>
  BY DEF driverVars
<1>2. UNCHANGED <<file_root, Left, LeftByCrash, New, Out("ll"), Out("o")>>
  BY <1>1 DEF file_root, Left, LeftByCrash, Out, New
<1>3. NamesInv' /\ FlagsInv'
  BY <1>1, <1>2 DEF NamesInv, FlagsInv, NoName, FilesInv
<1>4. /\ OutputsMatchExit' /\ (phase' # "exited" => New' = Intermediate')
      /\ phase' = "clean_up" => disk'[exec_name'] = "executable"
  BY <1>1, <1>2 DEF OutputsMatchExit, Intermediate, FilesInv
<1>5. UNCHANGED <<Kept, {Out(x) : x \in {"xert", "xerp", "ll", "o"}}>>
  BY <1>1, <1>2 DEF Kept, Out
<1> QED
  BY <1>1, <1>3, <1>4, <1>5 DEF FilesInv

\* A phase that fails, or crashes, before there is a file.
LEMMA FailedLeavesNone ==
  ASSUME FilesInv, Untouched, UNCHANGED disk,
         phase \in Opened \ {"emit", "link", "clean_up"},
         NEW n, Exit(n),
         \/ n \in 1 .. 8
         \/ n = SIGSEGV /\ phase \in {"typecheck", "generate"}
         \/ n = SIGABRT /\ phase = "generate"
  PROVE  FilesInv'
<1>1. phase' = "exited" /\ code' = n
  BY DEF Exit
<1>2. NamesInv'
  BY <1>1, NamesStay DEF FilesInv
<1>3. New' = {}
  BY DEF FilesInv, Intermediate, New, Opened, TokensMade, Parsed, Annotated, Printed, Emitted
<1>4. OutputsMatchExit'
  <2>1. CASE n \in 1 .. 8
    BY <1>1, <1>3, <2>1 DEF OutputsMatchExit, SIGABRT, SIGSEGV
  <2>2. CASE n \in {SIGSEGV, SIGABRT}
    <3>1. flags' = flags /\ "-sc" \notin flags
      BY <2>2 DEF Untouched, FilesInv, FlagsInv, TokensMade, Parsed, Annotated, SIGABRT, SIGSEGV
    <3>2. n = SIGABRT => flags \cap {"-pa", "-sa"} = {}
      BY DEF FilesInv, FlagsInv, Parsed, Annotated, SIGABRT, SIGSEGV
    <3>3. {} \in LeftByCrash'
      BY <1>1, <2>2, <3>1, <3>2 DEF LeftByCrash
    <3>4. n # 0 /\ n \notin 1 .. 8
      BY <2>2 DEF SIGABRT, SIGSEGV
    <3> QED
      BY <1>1, <1>3, <3>1, <3>3, <3>4 DEF OutputsMatchExit
  <2> QED
    BY <2>1, <2>2
<1>5. UNCHANGED <<Kept, file, source, exec_name, {Out(x) : x \in {"xert", "xerp", "ll", "o"}}>>
  BY DEF Untouched, Kept, Out, file_root
<1>6. FlagsInv'
  BY <1>1 DEF FlagsInv, TokensMade, Parsed, Annotated, Printed, Emitted
<1> QED
  BY <1>1, <1>2, <1>4, <1>5, <1>6 DEF FilesInv, Opened, TokensMade, Parsed, Annotated, Printed, Emitted

\* A file more named like one of the outputs.
LEMMA OutputKeeps ==
  ASSUME FilesInv, Untouched, phase \in Opened,
         NEW x \in {"xert", "xerp", "ll", "o"}, NEW content, content # "source",
         disk' = Written(Out(x), content)
  PROVE  /\ writable => New' = New \cup {Out(x)}
         /\ ~writable => New' = New
         /\ \A n \in New' : n \in New \/ disk'[n] = content
         /\ \/ Kept'
            \/ file' # <<>> /\ source'.name \in {Out(y) : y \in {"xert", "xerp", "ll", "o"}}'
            \/ phase \in {"clean_up", "exited"} /\ source'.name = exec_name'
<1>1. UNCHANGED <<file, source, exec_name, {Out(y) : y \in {"xert", "xerp", "ll", "o"}}>>
  BY DEF Untouched, Out, file_root
<1>2. file # <<>>
  BY DEF FilesInv, NamesInv
<1>3. CASE Kept
  <2>1. Kept' \/ source.name = Out(x)
    BY <1>1, <1>3, WrittenAdds
  <2> QED
    BY <1>1, <1>2, <2>1, WrittenAdds
<1>4. CASE source.name \in {Out(y) : y \in {"xert", "xerp", "ll", "o"}}
  BY <1>1, <1>2, <1>4, WrittenAdds
<1>5. CASE phase \in {"clean_up", "exited"} /\ source.name = exec_name
  BY <1>1, <1>5, WrittenAdds
<1> QED
  BY <1>3, <1>4, <1>5 DEF FilesInv

\* The flag's own file, and the end.
LEMMA FlagLeavesItsOwn ==
  ASSUME FilesInv, Untouched,
         phase \in Opened \ {"emit", "link", "clean_up"}, Exit(0),
         NEW x \in {"xert", "xerp", "ll", "o"}, NEW content,
         content \notin {"source"} \cup Partial,
         disk' = Written(Out(x), content), Left = {Out(x)}
  PROVE  FilesInv'
<1>1. phase' = "exited" /\ code' = 0
  BY DEF Exit
<1>2. NamesInv' /\ Left' = {Out(x)} /\ writable' = writable /\ writable \in BOOLEAN
  BY <1>1, NamesStay DEF FilesInv, Untouched, NamesInv
<1>3. New = {}
  BY DEF FilesInv, Intermediate, Opened, TokensMade, Parsed, Annotated, Printed, Emitted
<1>4. OutputsMatchExit'
  <2>1. /\ New' = IF writable THEN {Out(x)} ELSE {}
        /\ \A n \in New' : disk'[n] \notin Partial
    BY <1>2, <1>3, OutputKeeps
  <2> QED
    BY <1>1, <1>2, <2>1 DEF OutputsMatchExit, SIGABRT, SIGSEGV
<1>5. FlagsInv'
  BY <1>1 DEF FlagsInv, TokensMade, Parsed, Annotated, Printed, Emitted
<1> QED
  BY <1>1, <1>2, <1>4, <1>5, OutputKeeps
  DEF FilesInv, Opened, TokensMade, Parsed, Annotated, Printed, Emitted

\* The Printer, whether it comes to its end or not.
LEMMA PrinterLeavesItsOwn ==
  ASSUME FilesInv, Untouched,
         \/ phase = "parsed" /\ "-pa" \in flags
         \/ phase = "typecheck" /\ "-sa" \in flags,
         NEW content \in {"tree", "annotated_tree"}, PrintTree(content)
  PROVE  FilesInv'
<1> USE DEF Opened, TokensMade, Parsed, Annotated, Printed, Emitted
<1>1. "-sc" \notin flags /\ flags \cap {"-pa", "-sa"} # {}
  BY DEF FilesInv, FlagsInv
<1>2. CASE Exit(0) /\ disk' = Written(Out("xerp"), content)
  <2>1. Left = {Out("xerp")}
    BY <1>1 DEF Left
  <2>2. content \notin {"source"} \cup Partial
    BY DEF Partial
  <2> QED
    BY <1>2, <2>1, <2>2, FlagLeavesItsOwn
<1>3. CASE Exit(SIGABRT) /\ disk' = Written(Out("xerp"), "part_of_tree")
  <2>1. phase' = "exited" /\ code' = SIGABRT
    BY <1>3 DEF Exit
  <2>2. NamesInv' /\ UNCHANGED <<flags, writable, file_root>> /\ writable \in BOOLEAN
    BY <2>1, NamesStay DEF FilesInv, Untouched, NamesInv
  <2>3. New = {}
    BY DEF FilesInv, Intermediate
  <2>4. New' = IF writable THEN {Out("xerp")} ELSE {}
    BY <1>3, <2>2, <2>3, OutputKeeps
  <2>5. LeftByCrash' = {IF writable THEN {Out("xerp")} ELSE {}}
    BY <1>1, <2>1, <2>2 DEF LeftByCrash, Out
  <2>6. OutputsMatchExit'
    BY <1>1, <2>1, <2>2, <2>4, <2>5 DEF OutputsMatchExit, SIGABRT
  <2>7. FlagsInv'
    BY <2>1 DEF FlagsInv
  <2> QED
    BY <1>3, <2>1, <2>2, <2>6, <2>7, OutputKeeps DEF FilesInv
<1> QED
  BY <1>2, <1>3 DEF PrintTree

\* The flag is not set, and the next phase runs.
LEMMA NextPhase ==
  ASSUME FilesInv, Untouched, UNCHANGED <<disk, code>>,
         \/ phase = "scanned" /\ phase' = "parse" /\ "-sc" \notin flags
         \/ phase = "parsed" /\ phase' = "typecheck" /\ "-pa" \notin flags
         \/ phase = "typecheck" /\ phase' = "generate" /\ "-sa" \notin flags
         \/ phase = "generate" /\ phase' = "print"
  PROVE  FilesInv'
<1> USE DEF Opened, TokensMade, Parsed, Annotated, Printed, Emitted
<1>1. NamesInv'
  BY NamesStay DEF FilesInv
<1>2. FlagsInv'
  BY DEF FilesInv, FlagsInv, Untouched
<1>3. New' = {} /\ Intermediate' = {} /\ OutputsMatchExit'
  BY DEF FilesInv, New, Intermediate, OutputsMatchExit
<1>4. UNCHANGED <<Kept, file, source, exec_name, {Out(x) : x \in {"xert", "xerp", "ll", "o"}}>>
  BY DEF Untouched, Kept, Out, file_root
<1> QED
  BY <1>1, <1>2, <1>3, <1>4 DEF FilesInv

LEMMA ArgumentsKeepFiles ==
  ASSUME FilesInv, Arguments
  PROVE  FilesInv'
<1> USE DEF Opened, TokensMade, Parsed, Annotated, Printed, Emitted
<1>1. /\ phase = "arguments" /\ UNCHANGED <<argv, source, writable, disk>>
      /\ NamesInv /\ New = {} /\ Kept
    BY DEF Arguments, TakeFlag, TakeExecName, TakeFile, OpenFile, Reading, FilesInv,
       Intermediate
<1>2. New' = {} /\ Kept'
  BY <1>1 DEF New, Kept
<1>3. phase' \in {"arguments", "scan"} \/ (phase' = "exited" /\ code' \in 1 .. 4)
  BY <1>1 DEF Arguments, TakeFlag, TakeExecName, TakeFile, OpenFile, Exit
<1>4. ASSUME NamesInv' PROVE FilesInv'
  BY <1>2, <1>3, <1>4
  DEF FilesInv, FlagsInv, OutputsMatchExit, Intermediate, SIGABRT, SIGSEGV
<1> DEFINE Named(name) ==
             \E i \in 1 .. Len(argv) - 1 : argv[i] = <<"-o">> /\ argv[i + 1] = name
<1>5. /\ argv \in Seq(FileName) /\ Len(argv) \in Nat
      /\ \A i \in 1 .. Len(argv) : argv[i] \in FileName
      /\ next_arg \in 1 .. Len(argv) + 1
      /\ file \in Seq(STRING) /\ source.name \in FileName /\ writable \in BOOLEAN
      /\ Named(exec_name) \/ (exec_name = <<>> /\ NoName(next_arg - 1))
  <2>1. argv \in Seq(FileName) /\ (Named(exec_name) \/ (exec_name = <<>> /\ NoName(next_arg - 1)))
    BY <1>1 DEF NamesInv
  <2>2. \A s \in Seq(FileName) : Len(s) \in Nat /\ \A i \in 1 .. Len(s) : s[i] \in FileName
    OBVIOUS
  <2> QED
    BY <1>1, <2>1, <2>2 DEF NamesInv
<1>6. CASE UNCHANGED <<next_arg, file, exec_name>> /\ phase' \in {"scan", "exited"}
           /\ (phase' = "scan" => file # <<>> /\ next_arg = Len(argv) + 1)
  BY <1>1, <1>4, <1>5, <1>6 DEF NamesInv, NoName
<1>7. CASE /\ phase' = phase /\ next_arg' = next_arg + 1 /\ next_arg <= Len(argv)
           /\ argv[next_arg] # <<"-o">> /\ exec_name' = exec_name /\ file' \in Seq(STRING)
  <2>1. NoName(next_arg - 1) => NoName(next_arg)
    BY <1>5, <1>7 DEF NoName
  <2>2. Named(exec_name) \/ (exec_name = <<>> /\ NoName(next_arg))
    BY <1>5, <2>1
  <2>3. next_arg' \in 1 .. Len(argv) + 1 /\ next_arg' - 1 = next_arg
    BY <1>5, <1>7
  <2> QED
    BY <1>1, <1>4, <1>5, <1>7, <2>2, <2>3 DEF NamesInv, NoName
<1>8. CASE TakeFlag
  <2>1. PICK f \in FlagNames : argv[next_arg] = <<f>>
    BY <1>8 DEF TakeFlag, arg
  <2>2. argv[next_arg] # <<"-o">>
    BY <2>1 DEF FlagNames
  <2> QED
    BY <1>5, <1>7, <1>8, <2>2 DEF TakeFlag, Reading
<1>9. CASE TakeExecName
  <2>1. CASE /\ phase' = phase /\ next_arg' = next_arg + 2 /\ file' = file
             /\ next_arg # Len(argv) /\ exec_name' = argv[next_arg + 1]
    <3>1. next_arg \in 1 .. Len(argv) - 1 /\ argv[next_arg] = <<"-o">>
      BY <1>5, <1>9, <2>1 DEF TakeExecName, Reading, arg
    <3>2. next_arg' \in 1 .. Len(argv) + 1 /\ argv[next_arg + 1] = exec_name'
      BY <1>5, <2>1, <3>1
    <3>3. Named(exec_name')
      BY <3>1, <3>2
    <3> QED
      BY <1>1, <1>4, <1>5, <2>1, <3>2, <3>3 DEF NamesInv
  <2> QED
    BY <1>6, <1>9, <2>1 DEF TakeExecName, Exit
<1>10. CASE TakeFile
  <2>1. argv[next_arg] # <<"-o">> /\ next_arg <= Len(argv)
    BY <1>10 DEF TakeFile, arg, FlagNames, Reading
  <2>2. argv[next_arg] \in Seq(STRING)
    BY <1>5, <2>1 DEF FileName
  <2> QED
    BY <1>6, <1>7, <1>10, <2>1, <2>2 DEF TakeFile, Exit, arg
<1>11. CASE OpenFile
  BY <1>5, <1>6, <1>11 DEF OpenFile, Exit
<1> QED
  BY <1>8, <1>9, <1>10, <1>11 DEF Arguments

LEMMA MiddleKeepsFiles ==
  ASSUME FilesInv,
         ScanThrew \/ ParseThrew \/ AfterScan \/ AfterParse \/ TypeCheck \/ Generate
  PROVE  FilesInv'
<1> USE DEF Opened, TokensMade, Parsed, Annotated, Printed, Emitted
<1>1. CASE ScanThrew \/ ParseThrew
  BY <1>1, FailedLeavesNone DEF ScanThrew, ParseThrew
<1>2. CASE AfterScan
  <2>1. CASE Last(stream).type = "DOLLAR"
    BY <1>2, <2>1, FailedLeavesNone DEF AfterScan
  <2>2. CASE "-sc" \in flags /\ Exit(0) /\ disk' = Written(Out("xert"), "tokens")
    <3>1. Left = {Out("xert")} /\ "tokens" \notin {"source"} \cup Partial
      BY <2>2 DEF Left, Partial
    <3> QED
      BY <1>2, <2>2, <3>1, FlagLeavesItsOwn DEF AfterScan
  <2>3. CASE "-sc" \notin flags /\ phase' = "parse" /\ UNCHANGED <<disk, code>>
    BY <1>2, <2>3, NextPhase DEF AfterScan
  <2> QED
    BY <1>2, <2>1, <2>2, <2>3 DEF AfterScan, OutputOr
<1>3. CASE AfterParse
  <2>1. CASE "-pa" \in flags /\ PrintTree("tree")
    BY <1>3, <2>1, PrinterLeavesItsOwn DEF AfterParse
  <2>2. CASE "-pa" \notin flags /\ phase' = "typecheck" /\ UNCHANGED <<disk, code>>
    BY <1>3, <2>2, NextPhase DEF AfterParse
  <2> QED
    BY <1>3, <2>1, <2>2 DEF AfterParse, TreeOr
<1>4. CASE TypeCheck
  <2>1. CASE (Exit(6) \/ Exit(SIGSEGV)) /\ UNCHANGED disk
    BY <1>4, <2>1, FailedLeavesNone DEF TypeCheck
  <2>2. CASE "-sa" \in flags /\ PrintTree("annotated_tree")
    BY <1>4, <2>2, PrinterLeavesItsOwn DEF TypeCheck
  <2>3. CASE "-sa" \notin flags /\ phase' = "generate" /\ UNCHANGED <<disk, code>>
    BY <1>4, <2>3, NextPhase DEF TypeCheck
  <2> QED
    BY <1>4, <2>1, <2>2, <2>3 DEF TypeCheck, TreeOr
<1>5. CASE Generate
  <2>1. CASE Exit(7) \/ Exit(SIGSEGV) \/ Exit(SIGABRT)
    BY <1>5, <2>1, FailedLeavesNone DEF Generate
  <2>2. CASE phase' = "print" /\ UNCHANGED code
    BY <1>5, <2>2, NextPhase DEF Generate
  <2> QED
    BY <1>5, <2>1, <2>2 DEF Generate
<1> QED
  BY <1>1, <1>2, <1>3, <1>4, <1>5

LEMMA PrintKeepsFiles ==
  ASSUME FilesInv, PrintIR
  PROVE  FilesInv'
<1> USE DEF Opened, TokensMade, Parsed, Annotated, Printed, Emitted
<1>1. /\ phase = "print" /\ Untouched /\ New = {} /\ NamesInv
      /\ "-sc" \notin flags /\ flags \cap {"-pa", "-sa"} = {}
      /\ UNCHANGED <<flags, writable, file, source, exec_name>>
  BY DEF PrintIR, FilesInv, FlagsInv, Intermediate, Untouched
<1>2. CASE ~writable
  BY <1>1, <1>2, FailedLeavesNone DEF PrintIR
<1>3. CASE writable /\ "-ir" \in flags
  <2>1. Left = {Out("ll")} /\ "ir" \notin {"source"} \cup Partial
    BY <1>1, <1>3 DEF Left, Partial
  <2>2. Exit(0) /\ disk' = Written(Out("ll"), "ir")
    BY <1>3 DEF PrintIR
  <2> QED
    BY <1>1, <2>1, <2>2, FlagLeavesItsOwn
<1>4. CASE writable /\ "-ir" \notin flags
  <2>1. phase' = "emit" /\ disk' = Written(Out("ll"), "part_of_ir")
    BY <1>4 DEF PrintIR
  <2>2. NamesInv' /\ UNCHANGED <<file_root, Left>>
    BY <1>1, <2>1, NamesStay
  <2>3. New' = {Out("ll")} /\ Out("ll")' = Out("ll")
    BY <1>1, <1>4, <2>1, <2>2, OutputKeeps DEF Out
  <2>4. /\ Kept' \/ source'.name \in {Out(y) : y \in {"xert", "xerp", "ll", "o"}}'
        /\ file' # <<>>
    BY <1>1, <2>1, OutputKeeps DEF NamesInv
  <2>5. FlagsInv'
    BY <1>1, <1>4, <2>1 DEF FlagsInv
  <2> QED
    BY <1>4, <2>1, <2>2, <2>3, <2>4, <2>5 DEF FilesInv, Intermediate, OutputsMatchExit
<1> QED
  BY <1>2, <1>3, <1>4

LEMMA EmitKeepsFiles ==
  ASSUME FilesInv, EmitObject
  PROVE  FilesInv'
<1> USE DEF Opened, TokensMade, Parsed, Annotated, Printed, Emitted
<1>1. /\ phase = "emit" /\ Untouched /\ New = {Out("ll")} /\ NamesInv /\ writable
      /\ "-sc" \notin flags /\ flags \cap {"-pa", "-sa"} = {} /\ "-ir" \notin flags
      /\ UNCHANGED <<flags, writable, file, source, exec_name>>
      /\ file # <<>>
  BY DEF EmitObject, FilesInv, FlagsInv, Intermediate, Untouched, NamesInv
<1>2. /\ phase' \in {"link", "exited"} /\ NamesInv'
      /\ UNCHANGED <<file_root, Left, Out("ll"), Out("o"),
                     {Out(y) : y \in {"xert", "xerp", "ll", "o"}}>>
  <2>1. phase' \in {"link", "exited"}
    BY DEF EmitObject, Exit
  <2> QED
    BY <1>1, <2>1, NamesStay DEF Out
<1>3. Kept \/ source.name \in {Out(y) : y \in {"xert", "xerp", "ll", "o"}}
  BY <1>1 DEF FilesInv
<1>4. ASSUME "-co" \in flags, NEW content \in {"object", "nothing"}, Exit(0),
             disk' = With(Written(Out("o"), content), Out("ll"), "ir")
      PROVE  FilesInv'
  <2>2. disk' = [n \in DOMAIN disk \cup {Out("o"), Out("ll")} |->
                   IF n = Out("ll") THEN "ir" ELSE IF n = Out("o") THEN content ELSE disk[n]]
    BY <1>1, <1>4 DEF With, Written
  <2>3. New' = {Out("ll"), Out("o")} /\ \A n \in New' : disk'[n] \notin Partial
    BY <1>1, <2>2 DEF New, Partial
  <2>4. Kept' \/ source'.name \in {Out(y) : y \in {"xert", "xerp", "ll", "o"}}'
    BY <1>1, <1>2, <1>3, <2>2 DEF Kept
  <2>5. Left = {Out("ll"), Out("o")}
    BY <1>1, <1>4 DEF Left
  <2>6. phase' = "exited" /\ code' = 0
    BY <1>4 DEF Exit
  <2>7. FlagsInv'
    BY <2>6 DEF FlagsInv
  <2> QED
    BY <1>1, <1>2, <2>3, <2>4, <2>5, <2>6, <2>7
    DEF FilesInv, OutputsMatchExit, SIGABRT, SIGSEGV
<1>5. ASSUME NEW content \in {"object", "nothing", "part_of_object"},
             disk' = Written(Out("o"), content)
      PROVE  /\ New' = {Out("ll"), Out("o")}
             /\ Kept' \/ source'.name \in {Out(y) : y \in {"xert", "xerp", "ll", "o"}}'
  BY <1>1, <1>5, OutputKeeps
<1>6. ASSUME "-co" \notin flags, phase' = "link", NEW content \in {"object", "nothing"},
             disk' = Written(Out("o"), content)
      PROVE  FilesInv'
  <2>1. FlagsInv'
    BY <1>1, <1>6 DEF FlagsInv
  <2> QED
    BY <1>1, <1>2, <1>5, <1>6, <2>1 DEF FilesInv, Intermediate, OutputsMatchExit
<1>7. ASSUME NEW signal \in {SIGSEGV, SIGABRT}, Exit(signal),
             disk' = Written(Out("o"), "part_of_object")
      PROVE  FilesInv'
  <2>1. phase' = "exited" /\ code' \in {SIGSEGV, SIGABRT}
    BY <1>7 DEF Exit
  <2>2. New' \in LeftByCrash'
    BY <1>1, <1>2, <1>5, <1>7 DEF LeftByCrash
  <2>3. OutputsMatchExit'
    BY <1>1, <2>1, <2>2 DEF OutputsMatchExit, SIGABRT, SIGSEGV
  <2>4. FlagsInv'
    BY <2>1 DEF FlagsInv
  <2> QED
    BY <1>1, <1>2, <1>5, <1>7, <2>1, <2>3, <2>4 DEF FilesInv
<1> QED
  BY <1>4, <1>6, <1>7 DEF EmitObject

LEMMA LinkKeepsFiles ==
  ASSUME FilesInv, Link
  PROVE  FilesInv'
<1> USE DEF Opened, TokensMade, Parsed, Annotated, Printed, Emitted
<1>1. /\ phase = "link" /\ New = {Out("ll"), Out("o")} /\ NamesInv /\ writable
      /\ "-sc" \notin flags /\ flags \cap {"-pa", "-sa"} = {} /\ "-ir" \notin flags
      /\ "-co" \notin flags
      /\ UNCHANGED <<argv, next_arg, flags, writable, file, source>>
      /\ file # <<>> /\ next_arg = Len(argv) + 1 /\ phase' \in {"clean_up", "exited"}
  BY DEF Link, FilesInv, FlagsInv, Intermediate, NamesInv, Exit
<1>2. UNCHANGED <<file_root, Out("ll"), Out("o"),
                  {Out(y) : y \in {"xert", "xerp", "ll", "o"}}>>
  BY <1>1 DEF Out, file_root
<1>3. Kept \/ source.name \in {Out(y) : y \in {"xert", "xerp", "ll", "o"}}
  BY <1>1 DEF FilesInv
<1>4. exec_name' = IF exec_name = <<>> THEN file_root ELSE exec_name
  BY DEF Link
<1>5. NamesInv'
  <2>1. argv \in Seq(FileName) /\ \A s \in Seq(FileName) : Len(s) \in Nat
    BY <1>1 DEF NamesInv
  <2>2. Len(argv) \in Nat /\ next_arg - 1 = Len(argv)
    BY <1>1, <2>1
  <2> DEFINE Named(name) ==
               \E i \in 1 .. Len(argv) - 1 : argv[i] = <<"-o">> /\ argv[i + 1] = name
  <2>3. Named(exec_name) \/ (exec_name = <<>> /\ NoName(Len(argv)))
    BY <1>1, <2>2 DEF NamesInv
  <2>4. ASSUME Named(exec_name) PROVE exec_name' = exec_name
    <3>1. PICK i \in 1 .. Len(argv) - 1 : argv[i + 1] = exec_name
      BY <2>4
    <3>2. i + 1 \in 1 .. Len(argv)
      BY <2>2
    <3>3. \A s \in Seq(FileName) : \A k \in 1 .. Len(s) : s[k] \in FileName
      OBVIOUS
    <3>4. argv[i + 1] \in FileName
      BY <2>1, <3>2, <3>3
    <3> QED
      BY <1>4, <3>1, <3>4 DEF FileName
  <2>5. Named(exec_name') \/ (exec_name' = file_root /\ NoName(Len(argv)))
    BY <1>4, <2>3, <2>4
  <2> HIDE DEF Named
  <2>6. Named(exec_name)' = Named(exec_name') /\ UNCHANGED NoName(Len(argv))
    BY <1>1 DEF Named, NoName
  <2> QED
    BY <1>1, <1>2, <2>5, <2>6 DEF NamesInv, Named
<1>6. FlagsInv'
  BY <1>1 DEF FlagsInv
<1>7. CASE phase' = "clean_up" /\ disk' = Written(exec_name', "executable")
  <2>1. /\ New' = New \cup {exec_name'}
        /\ Kept => Kept' \/ source.name = exec_name'
    BY <1>1, <1>7, WrittenAdds
  <2>2. disk'[exec_name'] = "executable"
    BY <1>1, <1>7 DEF Written, With
  <2> QED
    BY <1>1, <1>2, <1>3, <1>5, <1>6, <1>7, <2>1, <2>2 DEF FilesInv, Intermediate, OutputsMatchExit
<1>8. CASE Exit(SIGABRT) /\ UNCHANGED disk
  <2>1. phase' = "exited" /\ code' = SIGABRT /\ New' = New /\ Kept' = Kept
    BY <1>1, <1>8 DEF Exit, New, Kept
  <2>4. New' \in LeftByCrash'
    BY <1>1, <1>2, <2>1 DEF LeftByCrash
  <2>2. OutputsMatchExit'
    BY <1>1, <2>1, <2>4 DEF OutputsMatchExit, SIGABRT
  <2>3. Kept' \/ source'.name \in {Out(y) : y \in {"xert", "xerp", "ll", "o"}}'
    BY <1>1, <1>2, <1>3, <2>1
  <2> QED
    BY <1>1, <1>5, <1>6, <2>1, <2>2, <2>3 DEF FilesInv
<1> QED
  BY <1>7, <1>8 DEF Link

LEMMA CleanUpKeepsFiles ==
  ASSUME FilesInv, CleanUp
  PROVE  FilesInv'
<1> USE DEF Opened, TokensMade, Parsed, Annotated, Printed, Emitted
<1>1. /\ phase = "clean_up" /\ New = {Out("ll"), Out("o"), exec_name} /\ NamesInv /\ writable
      /\ "-sc" \notin flags /\ flags \cap {"-pa", "-sa"} = {} /\ "-ir" \notin flags
      /\ "-co" \notin flags /\ Untouched
      /\ UNCHANGED <<flags, writable, file, source, exec_name>>
      /\ file # <<>> /\ phase' = "exited" /\ code' = 0
  BY DEF CleanUp, FilesInv, FlagsInv, Intermediate, NamesInv, Exit, Untouched
<1>2. NamesInv' /\ UNCHANGED <<file_root, Left, {Out(y) : y \in {"xert", "xerp", "ll", "o"}}>>
  BY <1>1, NamesStay DEF Out
<1>3. disk' = [n \in DOMAIN disk \ {Out("o"), Out("ll")} |-> disk[n]]
  BY DEF CleanUp, Without
<1>4. New' = {exec_name} \ {Out("o"), Out("ll")}
  BY <1>1, <1>3 DEF New
<1>5. Left = {exec_name} \ {Out("o"), Out("ll")}
  BY <1>1 DEF Left
<1>6. OutputsMatchExit'
  <2>1. disk[exec_name] = "executable"
    BY <1>1 DEF FilesInv
  <2>2. \A n \in New' : disk'[n] \notin Partial
    BY <1>1, <1>3, <1>4, <2>1 DEF New, Partial
  <2> QED
    BY <1>1, <1>2, <1>4, <1>5, <2>2 DEF OutputsMatchExit, SIGABRT, SIGSEGV
<1>7. \/ Kept' \/ source.name \in {Out(y) : y \in {"xert", "xerp", "ll", "o"}}
      \/ source.name = exec_name
  BY <1>1, <1>3 DEF FilesInv, Kept
<1>8. FlagsInv'
  BY <1>1 DEF FlagsInv
<1> QED
  BY <1>1, <1>2, <1>6, <1>7, <1>8 DEF FilesInv

LEMMA FilesStep ==
  FilesInv /\ [Next]_vars => FilesInv'
<1> SUFFICES ASSUME FilesInv, [Next]_vars
             PROVE  FilesInv'
  OBVIOUS
<1>1. CASE UNCHANGED vars
  BY <1>1, FilesUntouched DEF vars, driverVars
<1>2. CASE Scan
  <2>1. phase' \in {"scan", "scanned", "scan_threw"} /\ phase = "scan"
    BY <1>2 DEF Scan, ScanNext, SkipLine, SkipBlank, InvalidStart, NewToken, Transition,
       EndOfText, LexerError, Getting
  <2> QED
    BY <1>2, <2>1, FilesUntouched DEF Scan
<1>3. CASE Parse
  <2>1. phase' \in {"parse", "parsed", "parse_threw"} /\ phase = "parse"
    BY <1>3 DEF Parse, LaNext, Shift, Reduce, Accept, SyntaxError, Acts, Throw
  <2> QED
    BY <1>3, <2>1, FilesUntouched DEF Parse
<1>4. CASE Arguments
  BY <1>4, ArgumentsKeepFiles
<1>5. CASE ScanThrew \/ ParseThrew \/ AfterScan \/ AfterParse \/ TypeCheck \/ Generate
  BY <1>5, MiddleKeepsFiles
<1>6. CASE PrintIR \/ EmitObject \/ Link \/ CleanUp
  BY <1>6, PrintKeepsFiles, EmitKeepsFiles, LinkKeepsFiles, CleanUpKeepsFiles
<1> QED
  BY <1>1, <1>2, <1>3, <1>4, <1>5, <1>6 DEF Next

\* Whatever the command, the texts and the outcomes of the other phases, and
\* whether they crash, the files left are those the exit status stands for, and
\* after a success they are whole (main.cpp 141-217).
THEOREM FilesMatchExit ==
  Spec => []OutputsMatchExit
<1>1. FilesInv => OutputsMatchExit
  BY DEF FilesInv
<1> QED
  BY FilesInit, FilesStep, <1>1, PTL DEF Spec

\* A file called like an output of a file of the same name cannot be.
LEMMA OutputsDiffer ==
  ASSUME file \in Seq(STRING), file # <<>>, NEW x \in {"xert", "xerp", "ll", "o"}
  PROVE  Out(x) # file
<1>1. CASE Last(file) = "xer"
  <2>1. Out(x) = Append(Front(file), x)
    BY <1>1 DEF Out, file_root
  <2>2. PICK n \in Nat : n = Len(file) /\ n > 0
    OBVIOUS
  <2>3. Front(file) \in Seq(STRING) /\ Len(Front(file)) = n - 1
    BY <2>2 DEF Front
  <2>4. Len(Out(x)) = n /\ Out(x)[n] = x
    BY <2>1, <2>2, <2>3
  <2> QED
    BY <1>1, <2>2, <2>4 DEF Last
<1>2. CASE Last(file) # "xer"
  <2>1. Len(Out(x)) = Len(file) + 1
    BY <1>2 DEF Out, file_root
  <2> QED
    BY <2>1
<1> QED
  BY <1>1, <1>2

LEMMA RootAndExtension ==
  ASSUME file \in Seq(STRING), file # <<>>
  PROVE  (file_root = file /\ Last(file) # "xer") \/ Append(file_root, "xer") = file
<1>1. CASE Last(file) = "xer"
  BY <1>1 DEF file_root, Front, Last
<1> QED
  BY <1>1 DEF file_root

\* The source is overwritten only where SourceSurvives says: by the executable
\* of its own name, by the file that -o names, or as another file's output.
THEOREM SourceStays ==
  Spec => []SourceSurvives
<1>1. FilesInv => SourceSurvives
  <2> SUFFICES ASSUME FilesInv PROVE SourceSurvives
    OBVIOUS
  <2>1. NamesInv /\ source.name # <<>>
    BY DEF FilesInv, NamesInv, FileName
  <2>2. CASE Kept
    BY <2>2 DEF Kept, SourceSurvives
  <2>3. CASE file # <<>> /\ source.name \in {Out(x) : x \in {"xert", "xerp", "ll", "o"}}
    <3>1. source.name # file
      BY <2>1, <2>3, OutputsDiffer DEF NamesInv
    <3> QED
      BY <2>3, <3>1 DEF SourceSurvives
  <2>4. CASE phase \in {"clean_up", "exited"} /\ source.name = exec_name
    <3>1. CASE \E i \in 1 .. Len(argv) - 1 : argv[i] = <<"-o">> /\ argv[i + 1] = exec_name
      BY <2>4, <3>1 DEF SourceSurvives
    <3>2. CASE file # <<>> /\ exec_name = file_root /\ NoName(Len(argv))
      <4>1. (source.name = file /\ Last(file) # "xer") \/ Append(source.name, "xer") = file
        BY <2>1, <2>4, <3>2, RootAndExtension DEF NamesInv
      <4> QED
        BY <3>2, <4>1 DEF SourceSurvives, NoName
    <3> QED
      BY <2>1, <2>4, <3>1, <3>2 DEF NamesInv
  <2> QED
    BY <2>2, <2>3, <2>4 DEF FilesInv
<1> QED
  BY FilesInit, FilesStep, <1>1, PTL DEF Spec


-------------------------------------------------------------------------------
(* The types of all the variables.                                         *)

ScanStates ==
  {x[3] : x \in Operators} \cup {"START", "ID", "NUM", "CHARLIT"} \cup Quoted

Tokens == [type : Symbols, lexeme : Seq(STRING), line_num : Nat]

ScanTypes ==
  /\ text \in Seq(STRING) /\ source.text \in Seq(STRING)
  /\ at \in 1 .. Len(text) + 1
  /\ state \in ScanStates
  /\ lexeme \in Seq(STRING)
  /\ (state = "START") <=> (lexeme = <<>>)
  /\ phase = "arguments" => at = 1

What == {"", "Out", "out_of_range"}

ParseTypes ==
  /\ stream \in Seq(Tokens)
  /\ phase \in {"parse", "parse_threw", "parsed"} => IsStream(stream)
  /\ token_idx \in 1 .. Len(stream) + 1
  /\ made \in Seq(DOMAIN Prods)
  /\ thrown \in What
  /\ reported \in BOOLEAN

ExitTypes ==
  /\ flags \subseteq FlagNames
  /\ \A n \in DOMAIN disk : disk[n] \in Contents
  /\ code \in 0 .. 8 \cup {Running, SIGSEGV, SIGABRT}
  /\ (code = Running) <=> (phase # "exited")

Below == {p \in Nat \X Nat : p[1] < p[2]}

LEMMA Least ==
  ASSUME NEW S, S \subseteq Nat, S # {}
  PROVE  \E j \in S : \A k \in S : j <= k
<1>1. IsWellFoundedOn(Below, Nat)
  BY NatLessThanWellFounded DEF OpToRel, Below
<1>2. PICK x \in S : \A y \in S : ~(<<y, x>> \in Below)
  BY <1>1, WFMin
<1>3. \A i, j \in Nat : i < j => <<i, j>> \in Below
  BY DEF Below
<1>4. x \in Nat /\ \A y \in S : y \in Nat /\ ~(y < x)
  BY <1>2, <1>3
<1>5. \A y \in S : x <= y
  BY <1>4
<1> QED
  BY <1>5

\* The line that a comment or a newline ends is left behind.
LEMMA AfterLineInText ==
  ASSUME NEW i \in 1 .. Len(text), text \in Seq(STRING)
  PROVE  AfterLine(i) \in i + 1 .. Len(text) + 1
<1> DEFINE newlines == {j \in i .. Len(text) : text[j] = "\n"}
<1>1. newlines \subseteq i .. Len(text) /\ Len(text) \in Nat
  OBVIOUS
<1>2. AfterLine(i) = IF newlines = {} THEN Len(text) + 1
                     ELSE 1 + CHOOSE j \in newlines : \A k \in newlines : j <= k
  BY DEF AfterLine
<1> HIDE DEF newlines
<1>3. CASE newlines = {}
  BY <1>1, <1>2, <1>3
<1>4. CASE newlines # {}
  <2>1. newlines \subseteq Nat
    BY <1>1
  <2>2. \E j \in newlines : \A k \in newlines : j <= k
    BY <1>4, <2>1, Least
  <2> DEFINE first == CHOOSE j \in newlines : \A k \in newlines : j <= k
  <2>3. first \in newlines
    BY <2>2
  <2>4. AfterLine(i) = 1 + first
    BY <1>2, <1>4
  <2> HIDE DEF first
  <2>5. first \in i .. Len(text)
    BY <1>1, <2>3
  <2> QED
    BY <1>1, <2>4, <2>5
<1> QED
  BY <1>3, <1>4

\* No operator leads back to the start.
LEMMA StatesLeftBehind ==
  ASSUME NEW s, NEW ch, transitions(s, ch) # "ERROR"
  PROVE  transitions(s, ch) \in ScanStates \ {"START"}
<1> DEFINE Leaves(x) == x[3] # "START"
<1>1. \A a, b, d : d # "START" => Leaves(<<a, b, d>>)
  OBVIOUS
<1> HIDE DEF Leaves
<1>2. \A x \in Operators : Leaves(x)
  BY <1>1, ZenonT(60) DEF Operators
<1>3. Onward(s, ch) \subseteq {x[3] : x \in Operators}
  BY DEF Onward
<1>4. transitions(s, ch) \in
        Onward(s, ch) \cup {"ID", "NUM", "APOS", "APOSLASH", "NOT_CHARLIT", "CHARLIT", "ERROR"}
  BY Zenon DEF transitions
<1> QED
  BY <1>2, <1>3, <1>4 DEF ScanStates, Quoted, Leaves

LEMMA TypeIsSymbol ==
  ASSUME NEW s \in ScanStates \ {"START"}, NEW l
  PROVE  TokenType(s, l) \in Symbols
<1>1. SymbolOf(s) \in TokenTypes
  <2>1. CASE s \in Quoted
    BY <2>1 DEF TokenTypes
  <2>2. CASE s \notin Quoted
    <3>1. SymbolOf(s) = s
      BY <2>2, Zenon DEF SymbolOf, Quoted
    <3> QED
      BY <3>1, <2>2 DEF TokenTypes, ScanStates
  <2> QED
    BY <2>1, <2>2
<1>2. l \in DOMAIN KEYWORDS => KEYWORDS[l] \in TokenTypes
  BY DEF TokenTypes, Range
<1> QED
  BY <1>1, <1>2, TypesAssumption DEF TokenType

LEMMA TypesInit ==
  Init => ScanTypes /\ ParseTypes /\ ExitTypes
<1> SUFFICES ASSUME Init PROVE ScanTypes /\ ParseTypes /\ ExitTypes
  OBVIOUS
<1>1. /\ text = <<>> /\ at = 1 /\ state = "START" /\ lexeme = <<>>
      /\ stream = <<Mark("BoF")>> /\ token_idx = 1 /\ made = <<>> /\ reported = FALSE
      /\ phase = "arguments" /\ flags = {} /\ code = Running
      /\ disk = [n \in {source.name} |-> "source"]
  BY Zenon DEF Init, ScanInit, LaStart
<1>2. source.text \in Seq(STRING)
  BY InputsAssumption DEF Init
<1>3. ScanTypes
  BY <1>1, <1>2 DEF ScanTypes, ScanStates
<1>8. thrown \in What
  BY Zenon DEF Init, LaStart, What
<1>4. Mark("BoF") \in Tokens
  BY TypesAssumption DEF Mark, Token, Tokens, TokenTypes
<1>5. ParseTypes
  <2>1. stream \in Seq(Tokens) /\ Len(stream) = 1
    BY <1>1, <1>4
  <2>2. phase \notin {"parse", "parse_threw", "parsed"}
    BY <1>1
  <2>3. token_idx \in 1 .. Len(stream) + 1
    BY <1>1, <2>1
  <2>4. made \in Seq(DOMAIN Prods) /\ reported \in BOOLEAN
    <3>1. made = <<>>
      BY <1>1
    <3>2. reported \in BOOLEAN
      BY <1>1, Zenon
    <3> QED
      BY <3>1, <3>2
  <2> QED
    BY <2>1, <2>2, <2>3, <2>4, <1>8 DEF ParseTypes
<1>6. ExitTypes
  BY <1>1 DEF ExitTypes, Contents, Running, FlagNames
<1> QED
  BY <1>3, <1>5, <1>6

LEMMA ScanKeepsTypes ==
  ASSUME ScanTypes, ScanNext, UNCHANGED source
  PROVE  ScanTypes'
<1>1. /\ text \in Seq(STRING) /\ text' = text /\ Len(text) \in Nat /\ phase' # "arguments"
      /\ at \in 1 .. Len(text) + 1 /\ lexeme \in Seq(STRING) /\ state \in ScanStates
  BY DEF ScanTypes, ScanNext, SkipLine, SkipBlank, InvalidStart, NewToken, Transition,
     EndOfText, LexerError, Getting, scanVars
<1>2. CASE UNCHANGED <<at, state, lexeme>>
  BY <1>1, <1>2 DEF ScanTypes
<1>3. CASE SkipLine
  <2>1. at \in 1 .. Len(text) /\ at' = AfterLine(at) /\ UNCHANGED <<state, lexeme>>
    BY <1>1, <1>3 DEF SkipLine, Getting
  <2>2. at' \in 1 .. Len(text) + 1
    BY <1>1, <2>1, AfterLineInText
  <2> QED
    BY <1>1, <2>1, <2>2 DEF ScanTypes
<1>4. CASE SkipBlank
  BY <1>1, <1>4 DEF SkipBlank, Getting, ScanTypes
<1>5. CASE UNCHANGED at /\ lexeme' = <<>> /\ state' = "START"
  BY <1>1, <1>5 DEF ScanTypes, ScanStates
<1>6. CASE Transition
  <2>1. /\ at \in 1 .. Len(text) /\ at' = at + 1 /\ lexeme' = Append(lexeme, text[at])
        /\ state' = transitions(state, text[at]) /\ transitions(state, text[at]) # "ERROR"
    BY <1>1, <1>6 DEF Transition, Getting, c
  <2>2. state' \in ScanStates \ {"START"}
    BY <2>1, StatesLeftBehind
  <2>3. text[at] \in STRING
    BY <1>1, <2>1
  <2>4. lexeme' \in Seq(STRING) /\ lexeme' # <<>>
    BY <1>1, <2>1, <2>3
  <2> QED
    BY <1>1, <2>1, <2>2, <2>4 DEF ScanTypes
<1>7. CASE InvalidStart \/ EndOfText
  BY <1>2, <1>7 DEF InvalidStart, EndOfText, LexerError, scanVars
<1>8. CASE NewToken
  BY <1>2, <1>5, <1>8 DEF NewToken, LexerError, scanVars
<1> QED
  BY <1>3, <1>4, <1>6, <1>7, <1>8 DEF ScanNext

\* A token, or a mark, at the end of the stream.
LEMMA StreamGrows ==
  ASSUME ParseTypes, UNCHANGED <<token_idx, made, thrown, reported>>,
         phase' \notin {"parse", "parse_threw", "parsed"},
         NEW t \in Tokens, stream' \in {stream, Append(stream, t)}
  PROVE  ParseTypes'
<1>1. stream \in Seq(Tokens) /\ token_idx \in 1 .. Len(stream) + 1
  BY DEF ParseTypes
<1>2. Len(stream) \in Nat
  BY <1>1
<1>3. stream' \in Seq(Tokens) /\ Len(stream') \in {Len(stream), Len(stream) + 1}
  BY <1>1
<1>4. token_idx \in 1 .. Len(stream') + 1
  BY <1>1, <1>2, <1>3
<1> QED
  BY <1>3, <1>4 DEF ParseTypes

LEMMA ScanMakesTokens ==
  ASSUME ScanTypes, ParseTypes, line_num \in Nat, ScanNext, UNCHANGED parseVars
  PROVE  ParseTypes'
<1>1. phase' \in {"scan", "scanned", "scan_threw"}
  BY DEF ScanNext, SkipLine, SkipBlank, InvalidStart, NewToken, Transition, EndOfText,
     LexerError, Getting
<1> DEFINE t == Token(TokenType(state, lexeme), lexeme, line_num)
<1>2. Mark("DOLLAR") \in Tokens
  BY TypesAssumption DEF Mark, Token, Tokens, TokenTypes
<1>3. state # "START" => t \in Tokens
  BY TypeIsSymbol DEF ScanTypes, Token, Tokens
<1>4. \/ stream' = stream
      \/ stream' = Append(stream, Mark("DOLLAR"))
      \/ state # "START" /\ stream' = Append(stream, t)
  <2>1. CASE SkipLine \/ SkipBlank \/ Transition
    BY <2>1 DEF SkipLine, SkipBlank, Transition
  <2>2. CASE InvalidStart \/ NewToken
    BY <2>2 DEF InvalidStart, NewToken, LexerError
  <2>3. CASE EndOfText
    <3>1. lexeme # <<>> => state # "START"
      BY DEF ScanTypes
    <3> QED
      BY <2>3, <3>1 DEF EndOfText
  <2> QED
    BY <2>1, <2>2, <2>3 DEF ScanNext
<1> HIDE DEF t
<1> QED
  BY <1>1, <1>2, <1>3, <1>4, StreamGrows DEF parseVars

\* main puts the marks of the end behind the tokens, and parse has a stream.
LEMMA MarksMakeStream ==
  ASSUME ParseTypes, LinesInv', AfterScan
  PROVE  ParseTypes'
<1>1. /\ stream \in Seq(Tokens) /\ phase = "scanned"
      /\ UNCHANGED <<token_idx, made, thrown, reported>>
  BY DEF ParseTypes, AfterScan, parseVars
<1>2. CASE Last(stream).type = "DOLLAR"
  <2>1. stream' = stream /\ phase' = "exited"
    BY <1>2 DEF AfterScan, Exit
  <2> QED
    BY <1>1, <2>1 DEF ParseTypes
<1>3. CASE Last(stream).type # "DOLLAR"
  <2> DEFINE e == Mark("EoF")
             d == Mark("DOLLAR")
  <2>1. stream' = stream \o <<e, d>> /\ phase' \in {"exited", "parse"}
    BY <1>3 DEF AfterScan, OutputOr, Exit
  <2>2. e \in Tokens /\ d \in Tokens /\ d.type = "DOLLAR"
    BY TypesAssumption DEF Mark, Token, Tokens, TokenTypes
  <2> HIDE DEF e, d
  <2>3. /\ stream' \in Seq(Tokens) /\ Len(stream) \in Nat
        /\ Len(stream') = Len(stream) + 2 /\ stream'[Len(stream) + 2] = d
    BY <1>1, <2>1, <2>2
  <2>4. token_idx \in 1 .. Len(stream') + 1
    BY <2>3 DEF ParseTypes
  <2>5. phase' = "parse" => IsStream(stream')
    <3>1. phase' = "parse" => Marked(stream')
      BY DEF LinesInv
    <3> QED
      BY <2>2, <2>3, <3>1 DEF IsStream, Marked, Tokens
  <2> QED
    BY <1>1, <2>1, <2>3, <2>4, <2>5 DEF ParseTypes
<1> QED
  BY <1>2, <1>3

LEMMA ParseKeepsTypes ==
  ASSUME ParseTypes, StackInv, LaNext
  PROVE  ParseTypes'
<1>1. /\ phase = "parse" /\ phase' \in {"parse", "parse_threw", "parsed"} /\ UNCHANGED stream
      /\ stream \in Seq(Tokens) /\ IsStream(stream)
  BY DEF ParseTypes, LaNext, Shift, Reduce, Accept, SyntaxError, Acts, Throw, parseVars
<1>2. stream' \in Seq(Tokens) /\ IsStream(stream') /\ Len(stream) \in Nat
  BY <1>1
<1>3. token_idx' \in 1 .. Len(stream') + 1
  <2>1. \/ token_idx' = token_idx
        \/ token_idx <= Len(stream) /\ token_idx' = token_idx + 1
    BY DEF LaNext, Shift, Reduce, Accept, SyntaxError, Acts, Throw, parseVars
  <2> QED
    BY <1>1, <1>2, <2>1 DEF ParseTypes
<1>4. made' \in Seq(DOMAIN Prods)
  <2>1. \/ made' = made
        \/ Acts("REDUCE") /\ made' = Append(made, pte.n)
    BY DEF LaNext, Shift, Reduce, Accept, SyntaxError, Throw, parseVars
  <2>2. Acts("REDUCE") => pte.n \in DOMAIN Prods
    BY ReducesHandle, HandleMatches
  <2> QED
    BY <2>1, <2>2 DEF ParseTypes
<1>5. UNCHANGED <<thrown, reported>> \/ Throw(TRUE)
  BY DEF LaNext, Shift, Reduce, Accept, SyntaxError, parseVars
<1>6. thrown' \in What
  <2>1. thrown \in What
    BY DEF ParseTypes
  <2>2. Throw(TRUE) => thrown' \in What
    BY Zenon DEF Throw, What
  <2> QED
    BY <1>5, <2>1, <2>2
<1>7. reported' \in BOOLEAN
  <2>1. reported \in BOOLEAN
    BY DEF ParseTypes
  <2>2. print_stream_line(token_idx) \in BOOLEAN
    BY Zenon DEF print_stream_line
  <2>3. Throw(TRUE) => reported' \in BOOLEAN
    BY <2>2, Zenon DEF Throw
  <2> QED
    BY <1>5, <2>1, <2>3, Zenon
<1> QED
  BY <1>2, <1>3, <1>4, <1>6, <1>7, Zenon DEF ParseTypes

\* What is written, and what the process exits with.
LEMMA WrittenTypes ==
  ASSUME ExitTypes, NEW name, NEW content \in Contents
  PROVE  /\ \A n \in DOMAIN Written(name, content) : Written(name, content)[n] \in Contents
         /\ \A n \in DOMAIN With(disk, name, content) : With(disk, name, content)[n] \in Contents
BY DEF ExitTypes, Written, With

LEMMA ArgumentsKeepTypes ==
  ASSUME ExitTypes, Arguments, UNCHANGED disk
  PROVE  ExitTypes'
<1>1. phase = "arguments" /\ code = Running
  BY DEF ExitTypes, Arguments, TakeFlag, TakeExecName, TakeFile, OpenFile, Reading
<1>2. \/ phase' \in {"arguments", "scan"} /\ code' = code
      \/ phase' = "exited" /\ code' \in 1 .. 4
  BY <1>1 DEF Arguments, TakeFlag, TakeExecName, TakeFile, OpenFile, Exit
<1>3. flags' = flags \/ \E f \in FlagNames : flags' = flags \cup {f}
  BY DEF Arguments, TakeFlag, TakeExecName, TakeFile, OpenFile
<1>4. flags' \subseteq FlagNames
  BY <1>3 DEF ExitTypes
<1>5. code' \in 0 .. 8 \cup {Running, SIGSEGV, SIGABRT} /\ (code' = Running <=> phase' # "exited")
  BY <1>1, <1>2 DEF Running
<1> QED
  BY <1>4, <1>5 DEF ExitTypes

LEMMA PhasesKeepTypes ==
  ASSUME ExitTypes, flags' = flags,
         \A n \in DOMAIN disk' : disk'[n] \in Contents,
         \/ phase' \notin {"exited"} /\ phase # "exited" /\ code' = code
         \/ \E n \in 0 .. 8 \cup {SIGSEGV, SIGABRT} : Exit(n)
  PROVE  ExitTypes'
BY DEF ExitTypes, Exit, Running, SIGSEGV, SIGABRT

LEMMA ExitStep ==
  ASSUME ExitTypes,
         \/ ScanThrew \/ AfterScan \/ ParseThrew \/ AfterParse \/ TypeCheck \/ Generate
         \/ PrintIR \/ EmitObject \/ Link \/ CleanUp
  PROVE  ExitTypes'
<1> USE DEF Untouched
<1>1. \A n \in DOMAIN disk : disk[n] \in Contents
  BY DEF ExitTypes
<1>2. {"tokens", "tree", "annotated_tree", "part_of_tree", "part_of_ir", "ir", "object",
       "nothing", "part_of_object", "executable"} \subseteq Contents
  BY DEF Contents, Partial
<1>3. CASE ScanThrew \/ ParseThrew \/ Generate
  BY <1>1, <1>3, PhasesKeepTypes DEF ScanThrew, ParseThrew, Generate
<1>4. ASSUME NEW flag, NEW content \in Contents, NEW next, next # "exited",
             phase # "exited", flags' = flags, TreeOr(flag, content, next)
      PROVE  ExitTypes'
  <2>1. \A n \in DOMAIN disk' : disk'[n] \in Contents
    BY <1>1, <1>2, <1>4, WrittenTypes DEF TreeOr, PrintTree
  <2>2. Exit(0) \/ Exit(SIGABRT) \/ (phase' # "exited" /\ code' = code)
    BY <1>4 DEF TreeOr, PrintTree
  <2> QED
    BY <1>4, <2>1, <2>2, PhasesKeepTypes
<1>5. CASE AfterScan
  <2>1. CASE Exit(1) /\ UNCHANGED disk
    BY <1>1, <1>5, <2>1, PhasesKeepTypes DEF AfterScan
  <2>2. CASE OutputOr("-sc", "xert", "tokens", "parse")
    <3>1. \A n \in DOMAIN disk' : disk'[n] \in Contents
      BY <1>1, <1>2, <2>2, WrittenTypes DEF OutputOr
    <3>2. Exit(0) \/ (phase' = "parse" /\ phase = "scanned" /\ code' = code)
      BY <1>5, <2>2 DEF OutputOr, AfterScan
    <3> QED
      BY <1>5, <3>1, <3>2, PhasesKeepTypes DEF AfterScan
  <2> QED
    BY <1>5, <2>1, <2>2 DEF AfterScan
<1>6. CASE AfterParse
  BY <1>2, <1>4, <1>6 DEF AfterParse
<1>7. CASE TypeCheck
  <2>1. CASE (Exit(6) \/ Exit(SIGSEGV)) /\ UNCHANGED disk
    BY <1>1, <1>7, <2>1, PhasesKeepTypes DEF TypeCheck
  <2> QED
    BY <1>2, <1>4, <1>7, <2>1 DEF TypeCheck
<1>8. CASE PrintIR
  <2>1. \A n \in DOMAIN disk' : disk'[n] \in Contents
    BY <1>1, <1>2, <1>8, WrittenTypes DEF PrintIR
  <2>2. Exit(8) \/ Exit(0) \/ (phase' = "emit" /\ phase = "print" /\ code' = code)
    BY <1>8 DEF PrintIR
  <2> QED
    BY <1>8, <2>1, <2>2, PhasesKeepTypes DEF PrintIR
<1>9. CASE EmitObject
  <2>1. ASSUME NEW content \in {"object", "nothing", "part_of_object"}
        PROVE  \A n \in DOMAIN Written(Out("o"), content) :
                 Written(Out("o"), content)[n] \in Contents
    BY <1>2, WrittenTypes
  <2>2. \A n \in DOMAIN disk' : disk'[n] \in Contents
    BY <1>2, <1>9, <2>1 DEF EmitObject, With
  <2>3. \/ \E n \in {0, SIGSEGV, SIGABRT} : Exit(n)
        \/ phase' = "link" /\ phase = "emit" /\ code' = code
    BY <1>9 DEF EmitObject
  <2> QED
    BY <1>9, <2>2, <2>3, PhasesKeepTypes DEF EmitObject
<1>10. CASE Link
  <2>1. \A n \in DOMAIN disk' : disk'[n] \in Contents
    BY <1>1, <1>2, <1>10, WrittenTypes DEF Link
  <2>2. Exit(SIGABRT) \/ (phase' = "clean_up" /\ phase = "link" /\ code' = code)
    BY <1>10 DEF Link
  <2> QED
    BY <1>10, <2>1, <2>2, PhasesKeepTypes DEF Link
<1>11. CASE CleanUp
  <2>1. \A n \in DOMAIN disk' : disk'[n] \in Contents
    BY <1>1, <1>11 DEF CleanUp, Without
  <2> QED
    BY <1>11, <2>1, PhasesKeepTypes DEF CleanUp
<1> QED
  BY <1>3, <1>5, <1>6, <1>7, <1>8, <1>9, <1>10, <1>11

TypesInv == StackInv /\ LinesInv /\ FilesInv /\ ScanTypes /\ ParseTypes /\ ExitTypes

LEMMA TypesStep ==
  TypesInv /\ [Next]_vars => TypesInv'
<1> SUFFICES ASSUME TypesInv, [Next]_vars
             PROVE  TypesInv'
  OBVIOUS
<1> USE DEF TypesInv
<1>1. StackInv' /\ LinesInv' /\ FilesInv'
  BY StepsOfStack, StackStep, LinesStep, FilesStep
<1>2. CASE Scan
  <2>1. ScanNext /\ UNCHANGED parseVars /\ UNCHANGED driverVars /\ line_num \in Nat
    BY <1>2 DEF Scan, LinesInv
  <2>2. ScanTypes' /\ ParseTypes'
    BY <2>1, ScanKeepsTypes, ScanMakesTokens DEF driverVars
  <2>3. phase # "exited" /\ phase' # "exited"
    BY <2>1 DEF ScanNext, SkipLine, SkipBlank, InvalidStart, NewToken, Transition,
       EndOfText, LexerError, Getting
  <2>4. ExitTypes'
    BY <2>1, <2>3 DEF ExitTypes, driverVars
  <2> QED
    BY <1>1, <2>2, <2>4
<1>3. CASE Parse
  <2>1. LaNext /\ UNCHANGED scanVars /\ UNCHANGED driverVars
    BY <1>3 DEF Parse
  <2>2. ParseTypes'
    BY <2>1, ParseKeepsTypes
  <2>4. phase # "exited" /\ phase' \notin {"exited", "arguments"}
    BY <2>1 DEF LaNext, Shift, Reduce, Accept, SyntaxError, Acts, Throw
  <2>3. ScanTypes'
    BY <2>1, <2>4 DEF ScanTypes, scanVars, driverVars
  <2>5. ExitTypes'
    BY <2>1, <2>4 DEF ExitTypes, driverVars
  <2> QED
    BY <1>1, <2>2, <2>3, <2>5
<1>4. CASE Arguments
  <2>1. /\ phase' \in {"arguments", "scan", "exited"} /\ stream' = stream
        /\ UNCHANGED <<token_idx, made, thrown, reported>> /\ UNCHANGED disk
    BY <1>4 DEF Arguments, TakeFlag, TakeExecName, TakeFile, OpenFile, Reading, Exit, parseVars
  <2>2. ParseTypes'
    BY <2>1 DEF ParseTypes
  <2>3. ExitTypes'
    BY <1>4, <2>1, ArgumentsKeepTypes
  <2>4. ScanTypes'
    <3>1. UNCHANGED scanVars \/ OpenFile
      BY <1>4 DEF Arguments
    <3>3. phase = "arguments" /\ at = 1
      BY <1>4 DEF Arguments, TakeFlag, TakeExecName, TakeFile, OpenFile, Reading, ScanTypes
    <3>2. CASE OpenFile
      <4>1. /\ UNCHANGED <<at, state, lexeme, source>>
            /\ text' \in {text, source.text, <<>>}
        BY <1>4, <3>2 DEF OpenFile, Arguments
      <4>2. text' \in Seq(STRING)
        <5>1. <<>> \in Seq(STRING) /\ text \in Seq(STRING) /\ source.text \in Seq(STRING)
          BY DEF ScanTypes
        <5> QED
          BY <4>1, <5>1, Zenon
      <4>3. at' \in 1 .. Len(text') + 1
        BY <3>3, <4>1, <4>2
      <4> QED
        BY <3>3, <4>1, <4>2, <4>3 DEF ScanTypes
    <3> QED
      BY <1>4, <3>1, <3>2, <3>3 DEF ScanTypes, scanVars, Arguments
  <2> QED
    BY <1>1, <2>2, <2>3, <2>4
<1>5. CASE \/ ScanThrew \/ AfterScan \/ ParseThrew \/ AfterParse \/ TypeCheck \/ Generate
           \/ PrintIR \/ EmitObject \/ Link \/ CleanUp
  <2>1. ExitTypes'
    BY <1>5, ExitStep
  <2>2. UNCHANGED scanVars /\ UNCHANGED source
    BY <1>5 DEF ScanThrew, AfterScan, ParseThrew, AfterParse, TypeCheck, Generate, PrintIR,
       EmitObject, Link, CleanUp, Untouched
  <2>5. phase' # "arguments"
    BY <1>5 DEF ScanThrew, AfterScan, ParseThrew, AfterParse, TypeCheck, Generate, PrintIR,
       EmitObject, Link, CleanUp, OutputOr, TreeOr, PrintTree, Exit
  <2>3. ScanTypes'
    BY <2>2, <2>5 DEF ScanTypes, scanVars
  <2>4. ParseTypes'
    <3>1. CASE AfterScan
      BY <1>1, <3>1, MarksMakeStream
    <3>2. CASE \/ ScanThrew \/ ParseThrew \/ AfterParse \/ TypeCheck \/ Generate
               \/ PrintIR \/ EmitObject \/ Link \/ CleanUp
      <4>1. /\ UNCHANGED <<stream, token_idx, made, thrown, reported>>
            /\ phase' \notin {"parse", "parse_threw", "parsed"}
        BY <3>2 DEF ScanThrew, ParseThrew, AfterParse, TypeCheck, Generate, PrintIR,
           EmitObject, Link, CleanUp, TreeOr, PrintTree, Exit, parseVars
      <4> QED
        BY <4>1 DEF ParseTypes
    <3> QED
      BY <1>5, <3>1, <3>2
  <2> QED
    BY <1>1, <2>1, <2>3, <2>4
<1>6. CASE UNCHANGED vars
  BY <1>1, <1>6 DEF vars, scanVars, parseVars, driverVars, ScanTypes, ParseTypes, ExitTypes
<1> QED
  BY <1>2, <1>3, <1>4, <1>5, <1>6 DEF Next

\* Whatever the command and the texts: the variables of main, scan and parse
\* have their types, a token's type is a symbol of the grammar even where scan
\* takes the state it stops in for one (218, 260), and parse is given, in every
\* phase that uses it, a stream with the marks where it relies on them.
THEOREM DriverTyped ==
  Spec => []DrTypeOK
<1>1. Init => TypesInv
  BY StackInit, LinesInit, FilesInit, TypesInit DEF Init, TypesInv
<1>2. TypesInv => DrTypeOK
  <2> SUFFICES ASSUME TypesInv PROVE DrTypeOK
    OBVIOUS
  <2> USE DEF TypesInv
  <2>1. phase \in {"arguments", "scan", "scan_threw", "scanned", "parse", "parse_threw",
                   "parsed", "typecheck", "generate", "print", "emit", "link", "clean_up",
                   "exited"}
    BY DEF FilesInv, Opened, TokensMade, Parsed, Annotated, Printed, Emitted
  <2>3. LaTypeOK
    BY Zenon DEF LaTypeOK, StackInv, StackType, ParseTypes, What
  <2>4. Range(disk) \subseteq Contents
    BY DEF Range, ExitTypes
  <2> QED
    BY <2>1, <2>3, <2>4 DEF DrTypeOK, ScanTypes, ParseTypes, ExitTypes, FilesInv, NamesInv
<1> QED
  BY <1>1, <1>2, TypesStep, PTL DEF Spec

-------------------------------------------------------------------------------
(* The forms of a derivation.                                              *)

Forms == Seq(Symbols)

Tokenwise(b) == \A k \in 1 .. Len(b) : b[k] \notin Nodes

\* A production at the last place that can be expanded.
LEMMA ExpandsAt ==
  ASSUME NEW p \in DOMAIN Prods, Prods[p].LHS \in Symbols,
         NEW a \in Forms, NEW b \in Forms, Tokenwise(b)
  PROVE  a \o Prods[p].RHS \o b \in Expanded(p, a \o <<Prods[p].LHS>> \o b)
<1> DEFINE X == Prods[p].LHS
           form == a \o <<X>> \o b
           i == Len(a) + 1
<1>1. Len(a) \in Nat /\ Len(b) \in Nat /\ a \in Seq(Symbols) /\ b \in Seq(Symbols)
  BY DEF Forms
<1> HIDE DEF X
<1>2. /\ form \in Seq(Symbols) /\ Len(form) = i + Len(b)
      /\ form[i] = X
      /\ \A k \in 1 .. Len(a) : form[k] = a[k]
      /\ \A k \in 1 .. Len(b) : form[i + k] = b[k]
  <2>1. <<X>> \in Seq(Symbols) /\ X \in Symbols
    BY DEF X
  <2>2. /\ a \o <<X>> \in Seq(Symbols) /\ Len(a \o <<X>>) = i
        /\ (a \o <<X>>)[i] = X
        /\ \A k \in 1 .. Len(a) : (a \o <<X>>)[k] = a[k]
    BY <1>1, <2>1
  <2> DEFINE c1 == a \o <<X>>
  <2> HIDE DEF c1
  <2>3. form = c1 \o b
    BY DEF c1
  <2>4. c1 \in Seq(Symbols) /\ Len(c1) = i
    BY <2>2 DEF c1
  <2>5. /\ c1 \o b \in Seq(Symbols) /\ Len(c1 \o b) = Len(c1) + Len(b)
        /\ \A k \in 1 .. Len(c1) + Len(b) :
             (c1 \o b)[k] = IF k <= Len(c1) THEN c1[k] ELSE b[k - Len(c1)]
    BY ONLY <1>1, <2>4, ConcatProperties
  <2> QED
    BY <1>1, <2>2, <2>3, <2>4, <2>5 DEF c1
<1> HIDE DEF form
<1>3. i \in 1 .. Len(form) /\ form[i] = X /\ \A k \in i + 1 .. Len(form) : form[k] \notin Nodes
  <2>1. ASSUME NEW k \in i + 1 .. Len(form)
        PROVE  form[k] \notin Nodes
    <3>1. k - i \in 1 .. Len(b) /\ i + (k - i) = k
      BY <1>1, <1>2
    <3> QED
      BY <1>2, <3>1 DEF Tokenwise
  <2> QED
    BY <1>1, <1>2, <2>1
<1>4. SubSeq(form, 1, i - 1) = a
  <2>1. /\ SubSeq(form, 1, Len(a)) \in Seq(Symbols)
        /\ Len(SubSeq(form, 1, Len(a))) = Len(a)
        /\ \A k \in 1 .. Len(a) : SubSeq(form, 1, Len(a))[k] = form[k]
    BY <1>1, <1>2
  <2>2. SubSeq(form, 1, Len(a)) = a
    BY <1>1, <1>2, <2>1, SeqEqual
  <2> QED
    BY <1>1, <2>2
<1>5. SubSeq(form, i + 1, Len(form)) = b
  <2> DEFINE c2 == SubSeq(form, i + 1, Len(form))
  <2>1. /\ c2 \in Seq(Symbols) /\ Len(c2) = Len(b)
        /\ \A k \in 1 .. Len(b) : c2[k] = form[i + k]
    BY <1>1, <1>2
  <2> QED
    BY <1>1, <1>2, <2>1, SeqEqual
<1>6. SubSeq(form, 1, i - 1) \o Prods[p].RHS \o SubSeq(form, i + 1, Len(form))
        \in Expanded(p, form)
  BY <1>3 DEF Expanded, X
<1> QED
  BY <1>4, <1>5, <1>6 DEF form, X

\* And no other is expanded.
LEMMA ExpandsFrom ==
  ASSUME NEW p \in DOMAIN Prods, NEW form \in Forms, NEW next \in Expanded(p, form)
  PROVE  /\ next \in Forms
         /\ \E a, b \in Forms : /\ Prods[p].LHS \in Symbols
                                /\ Tokenwise(b)
                                /\ form = a \o <<Prods[p].LHS>> \o b
                                /\ next = a \o Prods[p].RHS \o b
<1>1. form \in Seq(Symbols) /\ Len(form) \in Nat /\ Prods[p].RHS \in Seq(Symbols)
  BY TableAssumption DEF Forms
<1>2. PICK i \in 1 .. Len(form) :
        /\ form[i] = Prods[p].LHS
        /\ \A k \in i + 1 .. Len(form) : form[k] \notin Nodes
        /\ next = SubSeq(form, 1, i - 1) \o Prods[p].RHS \o SubSeq(form, i + 1, Len(form))
  BY DEF Expanded
<1> DEFINE a == SubSeq(form, 1, i - 1)
           b == SubSeq(form, i + 1, Len(form))
           X == Prods[p].LHS
<1>3. X \in Symbols
  BY <1>1, <1>2
<1>4. /\ a \in Seq(Symbols) /\ Len(a) = i - 1 /\ \A k \in 1 .. i - 1 : a[k] = form[k]
      /\ b \in Seq(Symbols) /\ Len(b) = Len(form) - i /\ \A k \in 1 .. Len(b) : b[k] = form[i + k]
  BY <1>1
<1>5. next = a \o Prods[p].RHS \o b
  BY <1>2
<1> HIDE DEF a, b
<1>6. Tokenwise(b)
  <2>1. ASSUME NEW k \in 1 .. Len(b)
        PROVE  b[k] \notin Nodes
    <3>1. i + k \in i + 1 .. Len(form)
      BY <1>1, <1>4
    <3> QED
      BY <1>2, <1>4, <3>1
  <2> QED
    BY <2>1 DEF Tokenwise
<1>7. form = a \o <<X>> \o b
  <2> HIDE DEF X
  <2> DEFINE c1 == a \o <<X>>
  <2>1. /\ c1 \in Seq(Symbols) /\ Len(c1) = i /\ c1[i] = X
        /\ \A k \in 1 .. i - 1 : c1[k] = a[k]
    BY <1>1, <1>3, <1>4
  <2> HIDE DEF c1
  <2> DEFINE c2 == c1 \o b
  <2>2. /\ c2 \in Seq(Symbols) /\ Len(c2) = i + Len(b)
        /\ \A k \in 1 .. i + Len(b) : c2[k] = IF k <= i THEN c1[k] ELSE b[k - i]
    <3>1. /\ c1 \o b \in Seq(Symbols) /\ Len(c1 \o b) = Len(c1) + Len(b)
          /\ \A k \in 1 .. Len(c1) + Len(b) :
               (c1 \o b)[k] = IF k <= Len(c1) THEN c1[k] ELSE b[k - Len(c1)]
      BY ONLY <1>4, <2>1, ConcatProperties
    <3> QED
      BY ONLY <2>1, <3>1, SMTT(40)
  <2> HIDE DEF c2
  <2>3. Len(c2) = Len(form)
    BY <1>1, <1>4, <2>2
  <2>4. ASSUME NEW k \in 1 .. Len(form)
        PROVE  form[k] = c2[k]
    <3>1. CASE k <= i - 1
      BY <1>1, <1>4, <2>1, <2>2, <3>1, SMTT(40)
    <3>2. CASE k = i
      BY <1>1, <1>2, <1>4, <2>1, <2>2, <3>2 DEF X
    <3>3. CASE k > i
      <4>1. k - i \in 1 .. Len(b) /\ i + (k - i) = k
        BY <1>1, <1>4, <3>3
      <4>2. b[k - i] = form[k]
        BY <1>4, <4>1
      <4> QED
        BY <1>1, <1>4, <2>2, <3>3, <4>1, <4>2, SMTT(40)
    <3> QED
      BY <3>1, <3>2, <3>3
  <2>5. form = c2
    BY <1>1, <2>2, <2>3, <2>4, SeqEqual
  <2> QED
    BY <2>5 DEF c2, c1
<1>8. next \in Seq(Symbols)
  BY <1>1, <1>4, <1>5
<1> QED
  BY <1>3, <1>4, <1>5, <1>6, <1>7, <1>8 DEF Forms

\* The productions rs take one form to the other, each in one step back of a
\* rightmost derivation.
Leads(g, rs, from, to) ==
  /\ g \in [0 .. Len(rs) -> Forms]
  /\ g[0] = from
  /\ g[Len(rs)] = to
  /\ \A k \in 1 .. Len(rs) : g[k - 1] \in Expanded(rs[k], g[k])

Contracts(rs, from, to) == \E g : Leads(g, rs, from, to)

\* A token behind the form is there all along.
LEMMA ExpandsWithToken ==
  ASSUME NEW p \in DOMAIN Prods, NEW form \in Forms, NEW next \in Expanded(p, form),
         NEW X \in Symbols \ Nodes
  PROVE  next \o <<X>> \in Expanded(p, form \o <<X>>)
<1> DEFINE Y == Prods[p].LHS
           R == Prods[p].RHS
           x == <<X>>
<1>1. PICK a \in Forms, b \in Forms :
        Y \in Symbols /\ Tokenwise(b) /\ form = a \o <<Y>> \o b /\ next = a \o R \o b
  <2>1. \E a, b \in Forms :
          Y \in Symbols /\ Tokenwise(b) /\ form = a \o <<Y>> \o b /\ next = a \o R \o b
    BY ONLY p \in DOMAIN Prods, form \in Forms, next \in Expanded(p, form), ExpandsFrom, ZenonT(60)
  <2> QED
    BY <2>1, Zenon
<1>2. /\ a \in Seq(Symbols) /\ b \in Seq(Symbols) /\ R \in Seq(Symbols) /\ <<Y>> \in Seq(Symbols)
      /\ x \in Seq(Symbols) /\ Len(b) \in Nat
  BY <1>1, TableAssumption DEF Forms
<1>3. b \o x \in Forms /\ Tokenwise(b \o x)
  <2>1. /\ b \o x \in Seq(Symbols) /\ Len(b \o x) = Len(b) + 1
        /\ (b \o x)[Len(b) + 1] = X
        /\ \A k \in 1 .. Len(b) : (b \o x)[k] = b[k]
    BY <1>2
  <2>2. ASSUME NEW k \in 1 .. Len(b \o x)
        PROVE  (b \o x)[k] \notin Nodes
    <3>1. CASE k = Len(b) + 1
      BY <2>1, <3>1
    <3>2. CASE k \in 1 .. Len(b)
      BY <1>1, <2>1, <3>2 DEF Tokenwise
    <3> QED
      BY <1>2, <2>1, <3>1, <3>2
  <2> QED
    BY <2>1, <2>2 DEF Tokenwise, Forms
<1>4. a \o R \o (b \o x) \in Expanded(p, a \o <<Y>> \o (b \o x))
  BY <1>1, <1>3, ExpandsAt
<1> HIDE DEF Y, R, x
<1>5. ASSUME NEW v \in Seq(Symbols)
      PROVE  (v \o b) \o x = v \o (b \o x)
  <2>1. \A s, t, u \in Seq(Symbols) : (s \o t) \o u = s \o (t \o u)
    BY ConcatAssociative, SMTT(40)
  <2> QED
    BY ONLY <1>2, <2>1, v \in Seq(Symbols), ZenonT(60)
<1>6. /\ (a \o R) \o (b \o x) = ((a \o R) \o b) \o x
      /\ (a \o <<Y>>) \o (b \o x) = ((a \o <<Y>>) \o b) \o x
  <2>1. a \o R \in Seq(Symbols) /\ a \o <<Y>> \in Seq(Symbols)
    BY <1>2
  <2> HIDE DEF Tokenwise
  <2>2. /\ (((a \o R) \o b) \o x) = (a \o R) \o (b \o x)
        /\ (((a \o <<Y>>) \o b) \o x) = (a \o <<Y>>) \o (b \o x)
    BY ONLY <2>1, <1>5, Zenon
  <2> QED
    BY ONLY <2>2, Zenon
<1>7. next \o x \in Expanded(p, form \o x)
  BY <1>1, <1>4, <1>6
<1> QED
  BY <1>7 DEF x

LEMMA ContractsWithToken ==
  ASSUME NEW rs \in Seq(DOMAIN Prods), NEW from, NEW to, Contracts(rs, from, to),
         NEW X \in Symbols \ Nodes
  PROVE  Contracts(rs, from \o <<X>>, to \o <<X>>)
<1>1. PICK g : Leads(g, rs, from, to)
  BY DEF Contracts
<1> DEFINE n == Len(rs)
           h == [k \in 0 .. n |-> g[k] \o <<X>>]
<1>2. n \in Nat
  OBVIOUS
<1>3. \A k \in 0 .. n : g[k] \in Forms
  BY <1>1 DEF Leads
<1>4. h \in [0 .. n -> Forms]
  <2>1. ASSUME NEW k \in 0 .. n
        PROVE  g[k] \o <<X>> \in Forms
    BY <1>3 DEF Forms
  <2> QED
    BY <2>1
<1>5. h[0] = from \o <<X>> /\ h[n] = to \o <<X>>
  BY <1>1, <1>2 DEF Leads
<1>6. ASSUME NEW k \in 1 .. n
      PROVE  h[k - 1] \in Expanded(rs[k], h[k])
  <2>1. k \in 0 .. n /\ k - 1 \in 0 .. n /\ rs[k] \in DOMAIN Prods
    BY <1>2
  <2>2. g[k - 1] \in Expanded(rs[k], g[k]) /\ g[k] \in Forms
    BY <1>1, <1>3, <2>1 DEF Leads
  <2>3. g[k - 1] \o <<X>> \in Expanded(rs[k], g[k] \o <<X>>)
    BY <2>1, <2>2, ExpandsWithToken
  <2> QED
    BY <2>1, <2>3
<1> HIDE DEF h
<1>7. Leads(h, rs, from \o <<X>>, to \o <<X>>)
  BY <1>4, <1>5, <1>6 DEF Leads
<1> QED
  BY <1>7 DEF Contracts

\* A reduction is one production more.
LEMMA ContractsOnce ==
  ASSUME NEW rs \in Seq(DOMAIN Prods), NEW from, NEW to, Contracts(rs, from, to),
         NEW p \in DOMAIN Prods, Prods[p].LHS \in Symbols,
         NEW rest \in Forms, to = rest \o Prods[p].RHS
  PROVE  Contracts(Append(rs, p), from, rest \o <<Prods[p].LHS>>)
<1> DEFINE n == Len(rs)
           ps == Append(rs, p)
           made_of == rest \o <<Prods[p].LHS>>
<1>1. PICK g : Leads(g, rs, from, to)
  BY DEF Contracts
<1>2. /\ n \in Nat /\ Len(ps) = n + 1 /\ ps[n + 1] = p
      /\ \A k \in 1 .. n : ps[k] = rs[k]
  OBVIOUS
<1>3. made_of \in Forms
  BY DEF Forms
<1>4. to \in Expanded(p, made_of)
  <2>1. <<>> \in Forms /\ Tokenwise(<<>>)
    BY DEF Forms, Tokenwise
  <2>2. rest \o Prods[p].RHS \o <<>> \in Expanded(p, rest \o <<Prods[p].LHS>> \o <<>>)
    BY <2>1, ExpandsAt
  <2>3. rest \o Prods[p].RHS \in Seq(Symbols) /\ made_of \in Seq(Symbols)
    BY <1>3, TableAssumption DEF Forms
  <2>4. /\ rest \o Prods[p].RHS \o <<>> = rest \o Prods[p].RHS
        /\ made_of \o <<>> = made_of
    BY ONLY <2>3, ConcatEmptySeq
  <2> QED
    BY <2>2, <2>4
<1> DEFINE h == [k \in 0 .. n + 1 |-> IF k = n + 1 THEN made_of ELSE g[k]]
<1> HIDE DEF made_of, ps
<1>5. h \in [0 .. n + 1 -> Forms]
  <2>1. \A k \in 0 .. n : g[k] \in Forms
    BY <1>1 DEF Leads
  <2> QED
    BY <1>2, <1>3, <2>1
<1>6. h[0] = from /\ h[n + 1] = made_of
  BY <1>1, <1>2 DEF Leads
<1>7. ASSUME NEW k \in 1 .. n + 1
      PROVE  h[k - 1] \in Expanded(ps[k], h[k])
  <2>1. CASE k = n + 1
    <3>1. h[k - 1] = to /\ h[k] = made_of /\ ps[k] = p
      BY <1>1, <1>2, <2>1 DEF Leads
    <3> QED
      BY <1>4, <3>1
  <2>2. CASE k \in 1 .. n
    <3>1. h[k - 1] = g[k - 1] /\ h[k] = g[k] /\ ps[k] = rs[k]
      BY <1>2, <2>2
    <3>2. g[k - 1] \in Expanded(rs[k], g[k])
      BY <1>1, <2>2 DEF Leads
    <3> QED
      BY <3>1, <3>2
  <2> QED
    BY <1>2, <2>1, <2>2
<1> HIDE DEF h
<1>8. Leads(h, ps, from, made_of)
  BY <1>2, <1>5, <1>6, <1>7 DEF Leads
<1> QED
  BY <1>8 DEF Contracts, ps, made_of

\* The forms k steps from the start, by the productions rs from the last on.
From(rs, f, k) ==
  IF k = 0 THEN {<<"start">>}
  ELSE UNION {Expanded(rs[Len(rs) + 1 - k], form) : form \in f[k - 1]}

\* Derived is what its definition says: there is such a function, of each k the
\* ends of the derivations of k steps.
LEMMA DerivedIs ==
  ASSUME made \in Seq(DOMAIN Prods), "start" \in Symbols
  PROVE  \A k \in 0 .. Len(made) : Derived[k] = From(made, Derived, k)
<1> DEFINE n == Len(made)
           At(j) == made[n + 1 - j]
           Walks(k) == {h \in [0 .. k -> Forms] :
                          /\ h[0] = <<"start">>
                          /\ \A j \in 1 .. k : h[j] \in Expanded(At(j), h[j - 1])}
           Ends(k) == {h[k] : h \in Walks(k)}
           More(k) == UNION {Expanded(At(k), form) : form \in Ends(k - 1)}
           f == [k \in 0 .. n |-> Ends(k)]
<1>1. n \in Nat /\ \A j \in 1 .. n : At(j) \in DOMAIN Prods
  <2>1. n \in Nat /\ \A j \in 1 .. n : n + 1 - j \in 1 .. n
    OBVIOUS
  <2> QED
    BY <2>1
<1> HIDE DEF At
<1>2. Ends(0) = {<<"start">>}
  <2> DEFINE w == [j \in 0 .. 0 |-> <<"start">>]
  <2>1. <<"start">> \in Forms
    BY DEF Forms
  <2>2. w \in Walks(0) /\ w[0] = <<"start">>
    BY <2>1
  <2> HIDE DEF w
  <2> QED
    BY <2>2
<1>3. ASSUME NEW k \in 1 .. n
      PROVE  Ends(k) = More(k)
  <2>0. k \in Nat /\ k >= 1 /\ k - 1 \in Nat
    BY <1>1
  <2>1. ASSUME NEW h \in Walks(k)
        PROVE  \E form \in Ends(k - 1) : h[k] \in Expanded(At(k), form)
    <3> DEFINE w == [j \in 0 .. k - 1 |-> h[j]]
    <3>1. h \in [0 .. k -> Forms] /\ h[0] = <<"start">>
          /\ \A j \in 1 .. k : h[j] \in Expanded(At(j), h[j - 1])
      OBVIOUS
    <3>2. w \in [0 .. k - 1 -> Forms] /\ w[0] = <<"start">> /\ w[k - 1] = h[k - 1]
      BY <2>0, <3>1
    <3>3. \A j \in 1 .. k - 1 : w[j] \in Expanded(At(j), w[j - 1])
      <4> TAKE j \in 1 .. k - 1
      <4>1. j \in 1 .. k /\ w[j] = h[j] /\ w[j - 1] = h[j - 1]
        BY <2>0
      <4> HIDE DEF w
      <4> QED
        BY <3>1, <4>1
    <3> HIDE DEF w
    <3>4. w \in Walks(k - 1)
      BY <3>2, <3>3
    <3>5. h[k - 1] \in Ends(k - 1)
      BY <3>2, <3>4
    <3>6. h[k] \in Expanded(At(k), h[k - 1])
      BY <2>0, <3>1
    <3> HIDE DEF Ends
    <3> QED
      BY <3>5, <3>6
  <2>2. ASSUME NEW form \in Ends(k - 1), NEW x \in Expanded(At(k), form)
        PROVE  x \in Ends(k)
    <3>1. PICK h \in Walks(k - 1) : form = h[k - 1]
      OBVIOUS
    <3> DEFINE w == [j \in 0 .. k |-> IF j = k THEN x ELSE h[j]]
    <3>2. h \in [0 .. k - 1 -> Forms] /\ h[0] = <<"start">>
          /\ \A j \in 1 .. k - 1 : h[j] \in Expanded(At(j), h[j - 1])
      BY <3>1
    <3>3. form \in Forms
      BY <2>0, <3>1, <3>2
    <3>4. x \in Forms
      BY <1>1, <3>3, ExpandsFrom
    <3>5. w \in [0 .. k -> Forms] /\ w[0] = <<"start">> /\ w[k] = x
      BY <2>0, <3>2, <3>4
    <3>6. \A j \in 1 .. k : w[j] \in Expanded(At(j), w[j - 1])
      <4> TAKE j \in 1 .. k
      <4>1. CASE j = k
        <5>1. w[j] = x /\ w[j - 1] = form /\ At(j) = At(k)
          BY <2>0, <3>1, <4>1
        <5> HIDE DEF w
        <5> QED
          BY <5>1
      <4>2. CASE j \in 1 .. k - 1
        <5>1. w[j] = h[j] /\ w[j - 1] = h[j - 1]
          BY <2>0, <4>2
        <5> HIDE DEF w
        <5> QED
          BY <3>2, <4>2, <5>1
      <4> QED
        BY <2>0, <4>1, <4>2
    <3> HIDE DEF w
    <3>7. w \in Walks(k)
      BY <3>5, <3>6
    <3> QED
      BY <3>5, <3>7
  <2>3. Ends(k) \subseteq UNION {Expanded(At(k), form) : form \in Ends(k - 1)}
    <3> SUFFICES ASSUME NEW e \in Ends(k)
                 PROVE  e \in UNION {Expanded(At(k), form) : form \in Ends(k - 1)}
      OBVIOUS
    <3>1. PICK h \in Walks(k) : e = h[k]
      OBVIOUS
    <3>2. PICK form \in Ends(k - 1) : e \in Expanded(At(k), form)
      BY <2>1, <3>1
    <3> HIDE DEF Ends
    <3> QED
      BY <3>2
  <2> HIDE DEF Ends
  <2>4. UNION {Expanded(At(k), form) : form \in Ends(k - 1)} \subseteq Ends(k)
    BY <2>2
  <2> QED
    BY <2>3, <2>4
<1> HIDE DEF Ends, More
<1>4. \A k \in 0 .. n : f[k] = From(made, f, k)
  <2> TAKE k \in 0 .. n
  <2>1. CASE k = 0
    BY <1>1, <1>2, <2>1 DEF From
  <2>2. CASE k \in 1 .. n
    <3>1. f[k] = Ends(k) /\ f[k - 1] = Ends(k - 1)
      BY <1>1, <2>2
    <3> HIDE DEF f
    <3>2. From(made, f, k) = More(k)
      BY <1>1, <2>2, <3>1 DEF From, At, More
    <3>3. Ends(k) = More(k)
      BY <1>3, <2>2
    <3> QED
      BY ONLY <3>1, <3>2, <3>3
  <2> QED
    BY <1>1, <2>1, <2>2
<1>5. f = [k \in 0 .. n |-> From(made, f, k)]
  BY <1>4
<1> HIDE DEF f
<1>6. Derived = CHOOSE d : d = [k \in 0 .. n |-> From(made, d, k)]
  BY DEF Derived, From
<1>7. Derived = [k \in 0 .. n |-> From(made, Derived, k)]
  BY <1>5, <1>6, Zenon
<1> HIDE DEF Derived
<1> QED
  BY <1>7

\* Read backwards, reductions to the start symbol derive what was reduced.
LEMMA ContractionDerives ==
  ASSUME made \in Seq(DOMAIN Prods), "start" \in Symbols, NEW from,
         Contracts(made, from, <<"start">>)
  PROVE  from \in Derived[Len(made)]
<1> DEFINE n == Len(made)
<1>1. PICK g : Leads(g, made, from, <<"start">>)
  BY DEF Contracts
<1>2. n \in Nat
  OBVIOUS
<1>3. \A k \in 0 .. n : Derived[k] = From(made, Derived, k)
  BY DerivedIs
<1> HIDE DEF Derived
<1> DEFINE Bad == {k \in 0 .. n : g[n - k] \notin Derived[k]}
<1>4. Bad = {}
  <2> SUFFICES ASSUME Bad # {} PROVE FALSE
    OBVIOUS
  <2>1. Bad \subseteq Nat
    BY <1>2
  <2>2. PICK m \in Bad : \A k \in Bad : m <= k
    BY <2>1, Least
  <2>3. m \in 0 .. n /\ g[n - m] \notin Derived[m]
    OBVIOUS
  <2>4. CASE m = 0
    <3>1. g[n - m] = <<"start">>
      BY <1>1, <1>2, <2>4 DEF Leads
    <3>2. Derived[m] = {<<"start">>}
      BY <1>2, <1>3, <2>4 DEF From
    <3> QED
      BY <2>3, <3>1, <3>2
  <2>5. CASE m \in 1 .. n
    <3>1. m - 1 \in 0 .. n /\ ~(m <= m - 1) /\ n - (m - 1) = n + 1 - m
          /\ n + 1 - m \in 1 .. n /\ (n + 1 - m) - 1 = n - m /\ m # 0
      BY <1>2, <2>5
    <3>2. g[n + 1 - m] \in Derived[m - 1]
      BY <2>2, <3>1
    <3>3. g[n - m] \in Expanded(made[n + 1 - m], g[n + 1 - m])
      BY <1>1, <3>1 DEF Leads
    <3>4. Derived[m] = UNION {Expanded(made[n + 1 - m], form) : form \in Derived[m - 1]}
      BY <1>3, <2>3, <3>1 DEF From
    <3> QED
      BY <2>3, <3>2, <3>3, <3>4
  <2> QED
    BY <1>2, <2>3, <2>4, <2>5
<1>5. n \notin Bad /\ n \in 0 .. n /\ n - n = 0
  BY <1>2, <1>4
<1>6. g[0] = from
  BY <1>1 DEF Leads
<1> QED
  BY <1>5, <1>6

-------------------------------------------------------------------------------
(* The forms on the stack.                                                 *)

Goes(a, b) ==
  /\ b.sym \in DOMAIN Table[a.state]
  /\ Table[a.state][b.sym].act \in {"SHIFT", "GOTO"}
  /\ Table[a.state][b.sym].n = b.state

\* Each state is where the one below it goes with the symbol.
Chained(st) == st[1].state = 0 /\ \A k \in 1 .. Len(st) - 1 : Goes(st[k], st[k + 1])

Spelled(st) == [k \in 1 .. Len(st) - 1 |-> st[k + 1].sym]

\* The types of the tokens shifted.
Read == [k \in 1 .. token_idx - 1 |-> stream[k].type]

ReadInv ==
  /\ Chained(stack)
  /\ Tokenwise(Read)
  /\ Contracts(made, Read, Spelled(stack))

LEMMA SpelledIsForm ==
  ASSUME NEW st \in Seq(Entries), st # <<>>
  PROVE  /\ Spelled(st) \in Forms
         /\ Len(Spelled(st)) = Len(st) - 1
         /\ \A k \in 1 .. Len(st) - 1 : Spelled(st)[k] = st[k + 1].sym
<1>1. Len(st) \in Nat /\ Len(st) >= 1
  OBVIOUS
<1>2. ASSUME NEW k \in 1 .. Len(st) - 1
      PROVE  st[k + 1].sym \in Symbols
  <2>1. k + 1 \in 1 .. Len(st)
    BY <1>1
  <2>2. st[k + 1] \in Entries
    BY <2>1
  <2> QED
    BY <2>2 DEF Entries
<1> QED
  BY <1>1, <1>2 DEF Spelled, Forms

\* An entry pushed.
LEMMA PushSpells ==
  ASSUME NEW st \in Seq(Entries), st # <<>>, Chained(st),
         NEW X \in DOMAIN Table[Top(st).state],
         Table[Top(st).state][X].act \in {"SHIFT", "GOTO"},
         NEW new, new = Append(st, StackEntry(Table[Top(st).state][X].n, X)),
         new \in Seq(Entries)
  PROVE  /\ Chained(new)
         /\ Spelled(new) = Spelled(st) \o <<X>>
         /\ X \in Symbols
<1> DEFINE m == Len(st)
           e == StackEntry(Table[Top(st).state][X].n, X)
<1>1. m \in Nat /\ m >= 1
  OBVIOUS
<1>2. Goes(st[m], e)
  BY DEF Goes, StackEntry, Top
<1>3. e.sym = X
  BY DEF StackEntry
<1> HIDE DEF e
<1>4. /\ Len(new) = m + 1 /\ new[m + 1] = e
      /\ \A k \in 1 .. m : new[k] = st[k]
  <2>1. new = Append(st, e)
    BY DEF e
  <2> QED
    BY <1>1, <2>1
<1>5. Chained(new)
  <2>1. ASSUME NEW k \in 1 .. m
        PROVE  Goes(new[k], new[k + 1])
    <3>1. CASE k = m
      BY <1>1, <1>2, <1>4, <3>1
    <3>2. CASE k \in 1 .. m - 1
      <4>1. k \in 1 .. m /\ k + 1 \in 1 .. m
        BY <1>1, <3>2
      <4>2. Goes(st[k], st[k + 1])
        BY <3>2 DEF Chained
      <4> QED
        BY <1>4, <4>1, <4>2
    <3> QED
      BY <1>1, <3>1, <3>2
  <2>2. new[1].state = 0
    BY <1>1, <1>4 DEF Chained
  <2> QED
    BY <1>1, <1>4, <2>1, <2>2 DEF Chained
<1>6. X \in Symbols
  <2>1. st[m] \in Entries
    BY <1>1
  <2> QED
    BY <2>1 DEF Entries, Top, Symbols
<1>7. Spelled(new) = Spelled(st) \o <<X>>
  <2>1. /\ Spelled(st) \in Forms /\ Len(Spelled(st)) = m - 1
        /\ \A k \in 1 .. m - 1 : Spelled(st)[k] = st[k + 1].sym
    BY SpelledIsForm
  <2>2. /\ Spelled(new) \in Forms /\ Len(Spelled(new)) = m
        /\ \A k \in 1 .. m : Spelled(new)[k] = new[k + 1].sym
    <3>1. new \in Seq(Entries) /\ new # <<>> /\ Len(new) - 1 = m
      BY <1>1, <1>4
    <3>2. /\ Spelled(new) \in Forms /\ Len(Spelled(new)) = Len(new) - 1
          /\ \A k \in 1 .. Len(new) - 1 : Spelled(new)[k] = new[k + 1].sym
      BY ONLY <3>1, SpelledIsForm
    <3> QED
      BY ONLY <3>1, <3>2
  <2> DEFINE s == Spelled(st)
             t == Spelled(new)
  <2> HIDE DEF s, t
  <2>3. /\ s \o <<X>> \in Seq(Symbols) /\ Len(s \o <<X>>) = m
        /\ (s \o <<X>>)[m] = X
        /\ \A k \in 1 .. m - 1 : (s \o <<X>>)[k] = s[k]
    <3>1. s \in Seq(Symbols) /\ Len(s) = m - 1
      BY <2>1 DEF s, Forms
    <3> QED
      BY ONLY <1>1, <1>6, <3>1, SMTT(40)
  <2>4. ASSUME NEW k \in 1 .. m
        PROVE  t[k] = (s \o <<X>>)[k]
    <3>1. CASE k = m
      BY <1>1, <1>3, <1>4, <2>2, <2>3, <3>1 DEF t
    <3>2. CASE k \in 1 .. m - 1
      <4>1. k + 1 \in 1 .. m
        BY <1>1, <3>2
      <4>2. new[k + 1] = st[k + 1]
        BY <1>4, <4>1
      <4>3. t[k] = new[k + 1].sym /\ s[k] = st[k + 1].sym
        BY <1>1, <2>1, <2>2, <3>2 DEF s, t
      <4> QED
        BY ONLY <2>3, <3>2, <4>2, <4>3, Zenon
    <3>3. k = m \/ k \in 1 .. m - 1
      BY ONLY <1>1, k \in 1 .. m
    <3> QED
      BY ONLY <3>1, <3>2, <3>3, Zenon
  <2>5. t \in Seq(Symbols) /\ Len(t) = m
    BY <2>2 DEF t, Forms
  <2>6. t = s \o <<X>>
    BY ONLY <2>3, <2>4, <2>5, SeqEqual
  <2> QED
    BY <2>6 DEF s, t
<1> QED
  BY <1>5, <1>6, <1>7

\* The handle popped.
LEMMA HandleSpelled ==
  ASSUME StackInv, Chained(stack), NEW p,
         <<p, Len(Prods[p].RHS)>> \in Items(Top(stack).state)
  PROVE  /\ Popped(stack, p) # <<>>
         /\ Chained(Popped(stack, p))
         /\ Spelled(stack) = Spelled(Popped(stack, p)) \o Prods[p].RHS
<1> DEFINE m == Len(stack)
           R == Prods[p].RHS
           rest == Popped(stack, p)
<1>1. /\ p \in DOMAIN Prods /\ m > Len(R)
      /\ rest \in Seq(Entries) /\ Len(rest) = m - Len(R)
      /\ \A k \in 1 .. Len(rest) : rest[k] = stack[k]
      /\ \A k \in 1 .. Len(R) : stack[Len(rest) + k].sym = R[k]
  BY HandleMatches
<1>2. stack \in Seq(Entries) /\ stack # <<>> /\ m \in Nat
  BY DEF StackInv, StackType
<1>3. R \in Seq(Symbols) /\ Len(R) \in Nat
  BY <1>1, TableAssumption
<1> HIDE DEF rest, R
<1>4. rest # <<>> /\ Len(rest) \in 1 .. m
  BY <1>1, <1>2, <1>3
<1>5. Chained(rest)
  <2>1. ASSUME NEW k \in 1 .. Len(rest) - 1
        PROVE  Goes(rest[k], rest[k + 1])
    <3>1. k \in 1 .. m - 1 /\ k \in 1 .. Len(rest) /\ k + 1 \in 1 .. Len(rest)
      BY <1>2, <1>4
    <3> QED
      BY <1>1, <3>1 DEF Chained
  <2>2. 1 \in 1 .. Len(rest)
    BY <1>4
  <2> QED
    BY <1>1, <2>1, <2>2 DEF Chained
<1>6. Spelled(stack) = Spelled(rest) \o R
  <2> DEFINE s == Spelled(rest)
             t == Spelled(stack)
             l == Len(rest)
  <2>1. /\ s \in Seq(Symbols) /\ Len(s) = l - 1
        /\ \A k \in 1 .. l - 1 : s[k] = rest[k + 1].sym
    BY <1>1, <1>4, SpelledIsForm DEF Forms
  <2>2. /\ t \in Seq(Symbols) /\ Len(t) = m - 1
        /\ \A k \in 1 .. m - 1 : t[k] = stack[k + 1].sym
    BY <1>2, SpelledIsForm DEF Forms
  <2> HIDE DEF s, t
  <2>3. /\ s \o R \in Seq(Symbols) /\ Len(s \o R) = Len(s) + Len(R)
        /\ \A k \in 1 .. Len(s) + Len(R) : (s \o R)[k] = IF k <= Len(s) THEN s[k] ELSE R[k - Len(s)]
    BY <1>3, <2>1, ConcatProperties
  <2>4. l \in Nat /\ l >= 1 /\ l <= m /\ m = l + Len(R) /\ Len(s) + Len(R) = m - 1
    BY <1>1, <1>2, <1>3, <1>4, <2>1
  <2>5. ASSUME NEW k \in 1 .. m - 1
        PROVE  t[k] = (s \o R)[k]
    <3>1. CASE k <= l - 1
      <4>1. k \in 1 .. l - 1 /\ k + 1 \in 1 .. l /\ k \in 1 .. Len(s) + Len(R) /\ k <= Len(s)
        BY <1>2, <2>1, <2>4, <3>1
      <4>2. rest[k + 1] = stack[k + 1]
        BY <1>1, <4>1
      <4>3. (s \o R)[k] = s[k]
        BY <2>3, <4>1
      <4> QED
        BY <2>1, <2>2, <4>1, <4>2, <4>3
    <3>2. CASE k >= l
      <4>1. /\ k - (l - 1) \in 1 .. Len(R) /\ l + (k - (l - 1)) = k + 1
            /\ k \in 1 .. Len(s) + Len(R) /\ ~(k <= Len(s)) /\ k - Len(s) = k - (l - 1)
        BY <1>2, <1>3, <2>1, <2>4, <3>2
      <4>2. stack[k + 1].sym = R[k - (l - 1)]
        BY <1>1, <4>1
      <4>3. (s \o R)[k] = R[k - (l - 1)]
        BY <2>3, <4>1
      <4> QED
        BY <2>2, <4>2, <4>3
    <3> QED
      BY <1>2, <2>4, <3>1, <3>2, SMTT(40)
  <2>6. Len(s \o R) = m - 1 /\ Len(t) = m - 1 /\ s \o R \in Seq(Symbols) /\ t \in Seq(Symbols)
    BY <2>2, <2>3, <2>4
  <2>7. t = s \o R
    BY ONLY <2>5, <2>6, SeqEqual
  <2> QED
    BY <2>7 DEF s, t
<1> QED
  BY <1>4, <1>5, <1>6 DEF rest, R

\* In a state that accepts there is nothing on the stack but "start".
LEMMA AcceptsStart ==
  ASSUME StackInv, Chained(stack), Acts("ACCEPT")
  PROVE  /\ lookahead.type = "DOLLAR" /\ "DOLLAR" \notin Nodes
         /\ Spelled(stack) = <<"start">>
         /\ "start" \in Symbols
<1> DEFINE m == Len(stack)
           s == Top(stack).state
           X == lookahead.type
<1>1. s \in DOMAIN Table /\ X \in DOMAIN Table[s] /\ Table[s][X].act = "ACCEPT"
  BY EntryOf DEF pte
<1>2. X = "DOLLAR" /\ X \notin Nodes /\ s # 0
  BY <1>1, AcceptAssumption
<1>3. /\ stack \in Seq(Entries) /\ m \in Nat /\ m >= 1 /\ s = stack[m].state
      /\ stack[1].state = 0
      /\ \A k \in 1 .. m : stack[k].state \in DOMAIN Table
  <2>1. stack \in Seq(Entries) /\ m \in Nat /\ m >= 1
    BY DEF StackInv, StackType
  <2>2. \A k \in 1 .. m : stack[k] \in Entries
    BY <2>1
  <2> QED
    BY <2>1, <2>2 DEF Top, Chained, Entries
<1> HIDE DEF s, X
<1>4. m >= 2
  BY <1>2, <1>3
<1>5. Goes(stack[m - 1], stack[m])
  <2>1. m - 1 \in 1 .. m - 1 /\ (m - 1) + 1 = m
    BY <1>3, <1>4
  <2> QED
    BY <2>1 DEF Chained
<1>6. stack[m - 1].state = 0 /\ stack[m].sym = "start"
  <2> DEFINE q == stack[m - 1].state
             Y == stack[m].sym
  <2>1. q \in DOMAIN Table /\ Y \in DOMAIN Table[q] /\ Table[q][Y].act \in {"SHIFT", "GOTO"}
        /\ Table[q][Y].n = s
    <3>1. m - 1 \in 1 .. m
      BY <1>3, <1>4
    <3> QED
      BY <1>3, <1>5, <3>1 DEF Goes
  <2> HIDE DEF q, Y
  <2>2. X \in DOMAIN Table[Table[q][Y].n] /\ Table[Table[q][Y].n][X].act = "ACCEPT"
    BY <1>1, <2>1
  <2>3. q = 0 /\ Y = "start"
    BY ONLY <2>1, <2>2, AcceptAssumption, ZenonT(60)
  <2> QED
    BY <2>3 DEF q, Y
<1>7. ASSUME m > 2 PROVE FALSE
  <2>1. m - 2 \in 1 .. m - 1 /\ (m - 2) + 1 = m - 1 /\ m - 2 \in 1 .. m
    BY <1>3, <1>7
  <2>2. Goes(stack[m - 2], stack[m - 1]) /\ stack[m - 2].state \in DOMAIN Table
    BY <1>3, <2>1 DEF Chained
  <2>3. stack[m - 1].state # 0
    BY <2>2, AcceptAssumption, SMTT(40) DEF Goes
  <2> QED
    BY <1>6, <2>3
<1>8. m = 2
  <2>1. m \in Nat
    BY <1>3
  <2> QED
    BY ONLY <2>1, <1>4, <1>7, SMTT(40)
<1>9. Spelled(stack) = <<"start">> /\ "start" \in Symbols
  <2>1. /\ Spelled(stack) \in Forms /\ Len(Spelled(stack)) = 1 /\ Spelled(stack)[1] = "start"
    BY <1>3, <1>6, <1>8, SpelledIsForm, SMTT(40) DEF StackInv, StackType
  <2> DEFINE t == Spelled(stack)
  <2> HIDE DEF t
  <2>2. t \in Seq(Symbols) /\ Len(t) = 1 /\ t[1] = "start"
    BY <2>1 DEF t, Forms
  <2>3. t = <<"start">> /\ t[1] \in Symbols
    BY <2>2
  <2> QED
    BY <2>2, <2>3 DEF t
<1> QED
  BY <1>2, <1>9 DEF X

\* What a step leaves alone.
LEMMA ReadStays ==
  ASSUME ReadInv, UNCHANGED <<stack, made, token_idx>>, token_idx \in Nat,
         \A k \in 1 .. token_idx - 1 : stream'[k] = stream[k]
  PROVE  ReadInv'
<1>1. Read' = Read
  BY DEF Read
<1>2. Tokenwise(Read)' /\ Chained(stack)' /\ Contracts(made, Read, Spelled(stack))'
  <2>1. Chained(stack') /\ Spelled(stack') = Spelled(stack)
    BY DEF ReadInv
  <2>2. Tokenwise(Read') /\ Contracts(made', Read', Spelled(stack'))
    BY <1>1, <2>1 DEF ReadInv
  <2> QED
    BY <2>1, <2>2
<1> QED
  BY <1>2 DEF ReadInv

\* A token behind those read.
LEMMA ReadMore ==
  ASSUME stream \in Seq(Tokens), token_idx \in 1 .. Len(stream),
         UNCHANGED stream, token_idx' = token_idx + 1
  PROVE  /\ Read \in Forms /\ Len(Read) = token_idx - 1
         /\ Read' = Read \o <<lookahead.type>>
         /\ lookahead.type \in Symbols
<1> DEFINE n == token_idx
           X == lookahead.type
<1>1. n \in Nat /\ n >= 1
  OBVIOUS
<1>2. \A k \in 1 .. n : stream[k].type \in Symbols
  <2>1. \A k \in 1 .. n : stream[k] \in Tokens
    OBVIOUS
  <2> QED
    BY <2>1 DEF Tokens
<1>3. X = stream[n].type /\ X \in Symbols
  BY <1>1, <1>2 DEF lookahead
<1> HIDE DEF X
<1>4. /\ Read \in Seq(Symbols) /\ Len(Read) = n - 1
      /\ \A k \in 1 .. n - 1 : Read[k] = stream[k].type
  BY <1>1, <1>2 DEF Read
<1>5. /\ Read' \in Seq(Symbols) /\ Len(Read') = n
      /\ \A k \in 1 .. n : Read'[k] = stream[k].type
  <2>1. Read' = [k \in 1 .. n |-> stream[k].type]
    BY <1>1 DEF Read
  <2> QED
    BY <1>1, <1>2, <2>1
<1> DEFINE r == Read
           t == Read'
<1> HIDE DEF r, t
<1>6. t = r \o <<X>>
  <2>1. r \in Seq(Symbols) /\ Len(r) = n - 1
    BY <1>4 DEF r
  <2>2. /\ r \o <<X>> \in Seq(Symbols) /\ Len(r \o <<X>>) = n
        /\ (r \o <<X>>)[n] = X
        /\ \A k \in 1 .. n - 1 : (r \o <<X>>)[k] = r[k]
    BY ONLY <1>1, <1>3, <2>1
  <2>3. ASSUME NEW k \in 1 .. n
        PROVE  t[k] = (r \o <<X>>)[k]
    <3>1. t[k] = stream[k].type
      BY <1>5 DEF t
    <3>2. CASE k = n
      BY ONLY <1>3, <2>2, <3>1, <3>2, Zenon
    <3>3. CASE k \in 1 .. n - 1
      <4>1. r[k] = stream[k].type
        BY <1>4, <3>3 DEF r
      <4> QED
        BY ONLY <2>2, <3>1, <3>3, <4>1, Zenon
    <3>4. k = n \/ k \in 1 .. n - 1
      BY ONLY <1>1, k \in 1 .. n
    <3> QED
      BY ONLY <3>2, <3>3, <3>4, Zenon
  <2>4. t \in Seq(Symbols) /\ Len(t) = n
    BY <1>5 DEF t
  <2> QED
    BY ONLY <2>2, <2>3, <2>4, SeqEqual
<1> QED
  BY <1>3, <1>4, <1>6 DEF X, r, t, Forms

LEMMA ParseReads ==
  ASSUME StackInv, ParseTypes, ReadInv, LaNext
  PROVE  ReadInv'
<1>1. /\ phase = "parse" /\ UNCHANGED stream /\ stream \in Seq(Tokens)
      /\ token_idx \in Nat /\ made \in Seq(DOMAIN Prods)
      /\ stack \in Seq(Entries) /\ stack # <<>>
  <2>1. phase = "parse" /\ UNCHANGED stream
    BY DEF LaNext, Shift, Reduce, Accept, SyntaxError, Acts, Throw, parseVars
  <2>2. Len(stream) \in Nat /\ token_idx \in 1 .. Len(stream) + 1
    BY DEF ParseTypes
  <2> QED
    BY <2>1, <2>2 DEF ParseTypes, StackInv, StackType
<1>2. stack' \in Seq(Entries)
  BY StackStep DEF StackInv, StackType
<1>3. CASE UNCHANGED <<stack, made, token_idx>>
  BY <1>1, <1>3, ReadStays
<1>4. CASE Shift
  <2> DEFINE X == lookahead.type
  <2>1. /\ Acts("SHIFT") /\ token_idx' = token_idx + 1 /\ made' = made
        /\ stack' = Append(stack, StackEntry(Table[Top(stack).state][X].n, X))
    BY <1>4 DEF Shift, pte
  <2>2. /\ Top(stack).state \in DOMAIN Table /\ X \in DOMAIN Table[Top(stack).state]
        /\ Table[Top(stack).state][X].act = "SHIFT"
    BY <2>1, EntryOf DEF pte
  <2>3. token_idx \in 1 .. Len(stream)
    BY <2>1 DEF Acts, ParseTypes
  <2>4. Read \in Forms /\ Read' = Read \o <<X>> /\ X \in Symbols
    BY <1>1, <2>1, <2>3, ReadMore
  <2>5. X \notin Nodes
    BY <2>2, AcceptAssumption
  <2> HIDE DEF X
  <2>6. Chained(stack') /\ Spelled(stack') = Spelled(stack) \o <<X>>
    BY <1>1, <1>2, <2>1, <2>2, PushSpells DEF ReadInv
  <2>7. Contracts(made, Read \o <<X>>, Spelled(stack) \o <<X>>)
    <3>1. Contracts(made, Read, Spelled(stack)) /\ X \in Symbols \ Nodes
      BY <2>4, <2>5 DEF ReadInv
    <3> QED
      BY <1>1, <3>1, ContractsWithToken
  <2>8. Tokenwise(Read \o <<X>>)
    <3> DEFINE r == Read
    <3>1. r \in Seq(Symbols) /\ Tokenwise(r)
      BY <2>4 DEF ReadInv, Forms
    <3> HIDE DEF r
    <3>2. /\ Len(r) \in Nat /\ Len(r \o <<X>>) = Len(r) + 1
          /\ (r \o <<X>>)[Len(r) + 1] = X
          /\ \A k \in 1 .. Len(r) : (r \o <<X>>)[k] = r[k]
      BY <2>4, <3>1
    <3>3. ASSUME NEW k \in 1 .. Len(r \o <<X>>)
          PROVE  (r \o <<X>>)[k] \notin Nodes
      <4>1. CASE k = Len(r) + 1
        BY ONLY <2>5, <3>2, <4>1, Zenon
      <4>2. CASE k \in 1 .. Len(r)
        BY <3>1, <3>2, <4>2 DEF Tokenwise
      <4>3. k = Len(r) + 1 \/ k \in 1 .. Len(r)
        BY ONLY <3>2, k \in 1 .. Len(r \o <<X>>), SMTT(40)
      <4> QED
        BY ONLY <4>1, <4>2, <4>3, Zenon
    <3> QED
      BY <3>3 DEF Tokenwise, r
  <2> QED
    BY <2>1, <2>4, <2>6, <2>7, <2>8 DEF ReadInv
<1>5. CASE Reduce /\ ~UNCHANGED <<stack, made, token_idx>>
  <2> DEFINE p == pte.n
             rest == Popped(stack, p)
             X == Prods[p].LHS
  <2>1. Acts("REDUCE") /\ <<p, Len(Prods[p].RHS)>> \in Items(Top(stack).state)
    BY <1>5, ReducesHandle DEF Reduce
  <2>2. p \in DOMAIN Prods /\ rest \in Seq(Entries) /\ Reducible(stack, p)
    BY <2>1, HandleMatches
  <2>3. rest # <<>> /\ Chained(rest) /\ Spelled(stack) = Spelled(rest) \o Prods[p].RHS
    BY <2>1, HandleSpelled DEF ReadInv
  <2>4. /\ X \in DOMAIN Table[Top(rest).state]
        /\ Table[Top(rest).state][X].act \in {"SHIFT", "GOTO"}
    BY <2>2 DEF Reducible, ActionOf
  <2>5. /\ stack' = Append(rest, StackEntry(Table[Top(rest).state][X].n, X))
        /\ made' = Append(made, p) /\ UNCHANGED token_idx
    BY <1>5, <2>2, SMTT(40) DEF Reduce, Reduced
  <2> HIDE DEF rest, X, p
  <2>6. Chained(stack') /\ Spelled(stack') = Spelled(rest) \o <<X>> /\ X \in Symbols
    BY <1>2, <2>2, <2>3, <2>4, <2>5, PushSpells
  <2>7. Read' = Read
    BY <1>1, <2>5 DEF Read
  <2>8. Contracts(Append(made, p), Read, Spelled(rest) \o <<X>>)
    <3>1. Spelled(rest) \in Forms
      BY <2>2, <2>3, SpelledIsForm
    <3>2. Contracts(made, Read, Spelled(stack))
      BY DEF ReadInv
    <3>3. Prods[p].LHS \in Symbols
      BY <2>6 DEF X
    <3>4. Contracts(Append(made, p), Read, Spelled(rest) \o <<Prods[p].LHS>>)
      BY <1>1, <2>2, <2>3, <3>1, <3>2, <3>3, ContractsOnce
    <3> QED
      BY <3>4 DEF X
  <2> QED
    BY <2>5, <2>6, <2>7, <2>8 DEF ReadInv
<1>6. CASE Accept \/ SyntaxError
  BY <1>3, <1>6 DEF Accept, SyntaxError, Throw, parseVars
<1> QED
  BY <1>3, <1>4, <1>5, <1>6 DEF LaNext

-------------------------------------------------------------------------------
(* The one DOLLAR.                                                         *)

NoEnd(s) == \A k \in 1 .. Len(s) : s[k].type # "DOLLAR"

\* Only main's last mark, or a lexer's error, is a DOLLAR.
EndsOnce ==
  /\ phase \in {"arguments", "scan"} => NoEnd(stream)
  /\ phase = "scanned" => Last(stream).type = "DOLLAR" \/ NoEnd(stream)
  /\ phase = "parse" => \A k \in 1 .. Len(stream) - 1 : stream[k].type # "DOLLAR"

LEMMA TypeIsNoEnd ==
  ASSUME NEW s \in ScanStates, NEW l
  PROVE  TokenType(s, l) # "DOLLAR"
<1> DEFINE NoMark(x) == x[3] # "DOLLAR"
<1>1. \A a, b, d : d # "DOLLAR" => NoMark(<<a, b, d>>)
  OBVIOUS
<1> HIDE DEF NoMark
<1>2. \A x \in Operators : NoMark(x)
  BY <1>1, ZenonT(60) DEF Operators
<1>3. \A x \in Operators : x[3] # "DOLLAR"
  BY <1>2 DEF NoMark
<1>4. s # "DOLLAR"
  BY <1>3 DEF ScanStates, Quoted
<1>5. SymbolOf(s) \in {s, "EoF", "start", "procedures"}
  BY Zenon DEF SymbolOf
<1>6. l \in DOMAIN KEYWORDS => KEYWORDS[l] # "DOLLAR"
  BY TypesAssumption DEF Range
<1> QED
  BY <1>4, <1>5, <1>6 DEF TokenType

\* What a step of scan does to the stream.
LEMMA ScanAdds ==
  ASSUME ScanTypes, ScanNext
  PROVE  /\ phase = "scan"
         /\ \/ phase' \in {"scan", "scanned", "scan_threw"} /\ stream' = stream
            \/ phase' = "scanned" /\ stream' = Append(stream, Mark("DOLLAR"))
            \/ /\ phase' \in {"scan", "scanned"}
               /\ \E t : stream' = Append(stream, t) /\ t.type # "DOLLAR"
<1>1. phase = "scan"
  BY DEF ScanNext, SkipLine, SkipBlank, InvalidStart, NewToken, Transition, EndOfText, Getting
<1> DEFINE t == Token(TokenType(state, lexeme), lexeme, line_num)
<1>2. t.type # "DOLLAR"
  BY TypeIsNoEnd DEF ScanTypes, Token
<1> HIDE DEF t
<1>3. CASE SkipLine \/ SkipBlank \/ Transition
  BY <1>1, <1>3 DEF SkipLine, SkipBlank, Transition
<1>4. CASE LexerError
  BY <1>1, <1>4 DEF LexerError
<1>5. CASE NewToken
  <2>1. LexerError \/ (phase' = phase /\ stream' = Append(stream, t))
    BY <1>5 DEF NewToken, t
  <2> QED
    BY <1>1, <1>2, <1>4, <2>1
<1>6. CASE EndOfText
  <2>1. \/ phase' \in {"scanned", "scan_threw"} /\ stream' = stream
        \/ phase' = "scanned" /\ stream' = Append(stream, t)
    BY <1>6 DEF EndOfText, t
  <2> QED
    BY <1>1, <1>2, <2>1
<1> QED
  BY <1>3, <1>4, <1>5, <1>6 DEF ScanNext, InvalidStart

\* What main puts behind the tokens.
LEMMA MarksAdd ==
  ASSUME ParseTypes, AfterScan
  PROVE  /\ phase = "scanned"
         /\ \/ phase' = "exited" /\ stream' = stream
            \/ /\ phase' \in {"exited", "parse"}
               /\ Last(stream).type # "DOLLAR"
               /\ Len(stream) \in Nat /\ Len(stream') = Len(stream) + 2
               /\ stream'[Len(stream) + 1].type = "EoF"
               /\ \A k \in 1 .. Len(stream) : stream'[k] = stream[k]
<1>1. phase = "scanned" /\ stream \in Seq(Tokens)
  BY DEF AfterScan, ParseTypes
<1>2. CASE Last(stream).type = "DOLLAR"
  BY <1>1, <1>2 DEF AfterScan, Exit
<1>3. CASE Last(stream).type # "DOLLAR"
  <2> DEFINE e == Mark("EoF")
             d == Mark("DOLLAR")
  <2>1. stream' = stream \o <<e, d>> /\ phase' \in {"exited", "parse"}
    BY <1>3 DEF AfterScan, OutputOr, Exit
  <2>2. e \in Tokens /\ d \in Tokens /\ e.type = "EoF"
    BY TypesAssumption DEF Mark, Token, Tokens, TokenTypes
  <2> HIDE DEF e, d
  <2>3. /\ Len(stream) \in Nat /\ Len(stream') = Len(stream) + 2
        /\ stream'[Len(stream) + 1] = e
        /\ \A k \in 1 .. Len(stream) : stream'[k] = stream[k]
    BY <1>1, <2>1, <2>2
  <2> QED
    BY <1>1, <1>3, <2>1, <2>2, <2>3
<1> QED
  BY <1>2, <1>3

\* The steps outside scan, parse and main's marks.
LEMMA StreamStays ==
  ASSUME ~ScanNext, ~AfterScan, ~LaNext, [Next]_vars
  PROVE  /\ UNCHANGED stream /\ UNCHANGED parseVars
         /\ \/ phase' = phase
            \/ phase = "arguments" /\ phase' = "scan"
            \/ phase' \notin {"arguments", "scan", "scanned", "parse", "parsed"}
<1>1. CASE Arguments
  BY <1>1 DEF Arguments, TakeFlag, TakeExecName, TakeFile, OpenFile, Exit, Reading
<1>2. CASE ScanThrew \/ ParseThrew \/ AfterParse \/ TypeCheck
  BY <1>2 DEF ScanThrew, ParseThrew, AfterParse, TypeCheck, TreeOr, PrintTree, Exit
<1>3. CASE Generate \/ PrintIR \/ EmitObject \/ Link \/ CleanUp
  BY <1>3 DEF Generate, PrintIR, EmitObject, Link, CleanUp, Exit
<1>4. CASE UNCHANGED vars
  BY <1>4 DEF vars
<1>5. ~Scan /\ ~Parse
  BY DEF Scan, Parse
<1> QED
  BY <1>1, <1>2, <1>3, <1>4, <1>5 DEF Next

\* Who moves the parser, and who comes to its end.
LEMMA StepsOfParse ==
  ASSUME [Next]_vars
  PROVE  /\ LaNext \/ UNCHANGED parseVars
         /\ \/ Accept
            \/ phase' # "parsed"
            \/ phase = "parsed" /\ UNCHANGED <<phase, stream, made>>
<1>1. CASE Scan
  BY <1>1 DEF Scan, ScanNext, SkipLine, SkipBlank, InvalidStart, NewToken, Transition,
     EndOfText, LexerError, Getting
<1>2. CASE AfterScan
  BY <1>2 DEF AfterScan, OutputOr, Exit
<1>3. CASE Parse
  BY <1>3 DEF Parse, LaNext, Shift, Reduce, SyntaxError, Acts, Throw
<1>4. CASE UNCHANGED vars
  BY <1>4 DEF vars, parseVars
<1>5. CASE Arguments
  BY <1>5 DEF Arguments, TakeFlag, TakeExecName, TakeFile, OpenFile, Exit, Reading
<1>6. CASE ScanThrew \/ ParseThrew \/ AfterParse \/ TypeCheck
  BY <1>6 DEF ScanThrew, ParseThrew, AfterParse, TypeCheck, TreeOr, PrintTree, Exit
<1>7. CASE Generate \/ PrintIR \/ EmitObject \/ Link \/ CleanUp
  BY <1>7 DEF Generate, PrintIR, EmitObject, Link, CleanUp, Exit
<1> QED
  BY <1>1, <1>2, <1>3, <1>4, <1>5, <1>6, <1>7 DEF Next

LEMMA EndsOnceStep ==
  ASSUME ScanTypes, ParseTypes, EndsOnce, [Next]_vars
  PROVE  /\ EndsOnce'
         /\ \A k \in 1 .. Len(stream) : stream'[k] = stream[k]
<1>1. stream \in Seq(Tokens) /\ Len(stream) \in Nat
  BY DEF ParseTypes
<1>2. CASE ScanNext
  <2>1. phase = "scan" /\ NoEnd(stream)
    BY <1>2, ScanAdds DEF EndsOnce
  <2>2. CASE phase' \in {"scan", "scanned", "scan_threw"} /\ stream' = stream
    BY <2>1, <2>2 DEF EndsOnce
  <2>3. ASSUME NEW t, stream' = Append(stream, t)
        PROVE  /\ \A k \in 1 .. Len(stream) : stream'[k] = stream[k]
               /\ Len(stream') = Len(stream) + 1 /\ stream'[Len(stream) + 1] = t
               /\ Last(stream') = t
    <3>1. Listed(stream)
      BY <1>1, ListedAnyway
    <3>2. /\ Len(stream') = Len(stream) + 1 /\ stream'[Len(stream) + 1] = t
          /\ \A k \in 1 .. Len(stream) : stream'[k] = stream[k]
      BY <2>3, <3>1, AppendListed
    <3> QED
      BY <3>2 DEF Last
  <2>4. CASE phase' = "scanned" /\ stream' = Append(stream, Mark("DOLLAR"))
    <3>1. Mark("DOLLAR").type = "DOLLAR"
      BY DEF Mark, Token
    <3> QED
      BY <2>3, <2>4, <3>1 DEF EndsOnce
  <2>5. ASSUME NEW t, phase' \in {"scan", "scanned"}, stream' = Append(stream, t), t.type # "DOLLAR"
        PROVE  EndsOnce' /\ \A k \in 1 .. Len(stream) : stream'[k] = stream[k]
    <3>1. /\ \A k \in 1 .. Len(stream) : stream'[k] = stream[k]
          /\ Len(stream') = Len(stream) + 1 /\ stream'[Len(stream) + 1] = t
      BY <2>3, <2>5
    <3>2. NoEnd(stream')
      <4>1. ASSUME NEW k \in 1 .. Len(stream')
            PROVE  stream'[k].type # "DOLLAR"
        <5>1. CASE k = Len(stream) + 1
          BY <2>5, <3>1, <5>1
        <5>2. CASE k \in 1 .. Len(stream)
          BY <2>1, <3>1, <5>2 DEF NoEnd
        <5> QED
          BY <1>1, <3>1, <5>1, <5>2
      <4> QED
        BY <4>1 DEF NoEnd
    <3> QED
      BY <2>5, <3>1, <3>2 DEF EndsOnce
  <2> QED
    BY <1>2, <2>2, <2>3, <2>4, <2>5, ScanAdds
<1>3. CASE AfterScan
  <2>1. CASE phase' = "exited" /\ stream' = stream
    BY <2>1 DEF EndsOnce
  <2>2. CASE /\ phase' \in {"exited", "parse"} /\ Last(stream).type # "DOLLAR"
             /\ Len(stream') = Len(stream) + 2
             /\ stream'[Len(stream) + 1].type = "EoF"
             /\ \A k \in 1 .. Len(stream) : stream'[k] = stream[k]
    <3>1. NoEnd(stream)
      BY <1>3, <2>2, MarksAdd DEF EndsOnce
    <3>2. ASSUME NEW k \in 1 .. Len(stream') - 1
          PROVE  stream'[k].type # "DOLLAR"
      <4>1. k = Len(stream) + 1 \/ k \in 1 .. Len(stream)
        BY <1>1, <2>2
      <4>2. k \in 1 .. Len(stream) => stream[k].type # "DOLLAR"
        BY <3>1 DEF NoEnd
      <4> QED
        BY <2>2, <4>1, <4>2
    <3> QED
      BY <2>2, <3>2 DEF EndsOnce
  <2> QED
    BY <1>3, <2>1, <2>2, MarksAdd
<1>4. CASE LaNext
  <2>1. phase = "parse" /\ UNCHANGED stream /\ phase' \in {"parse", "parse_threw", "parsed"}
    BY <1>4 DEF LaNext, Shift, Reduce, Accept, SyntaxError, Acts, Throw, parseVars
  <2> QED
    BY <2>1 DEF EndsOnce
<1>5. CASE ~ScanNext /\ ~AfterScan /\ ~LaNext
  BY <1>5, StreamStays DEF EndsOnce, NoEnd
<1> QED
  BY <1>2, <1>3, <1>4, <1>5

-------------------------------------------------------------------------------
(* What is accepted.                                                       *)

SentenceInv == TypesInv /\ EndsOnce /\ ReadInv /\ AcceptsOnlySentences

LEMMA SentenceInit ==
  Init => SentenceInv
<1> SUFFICES ASSUME Init PROVE SentenceInv
  OBVIOUS
<1>1. TypesInv
  BY StackInit, LinesInit, FilesInit, TypesInit DEF Init, TypesInv
<1>2. /\ stream = <<Mark("BoF")>> /\ token_idx = 1 /\ made = <<>> /\ phase = "arguments"
      /\ stack = <<StackEntry(0, "")>>
  BY DEF Init, ScanInit, LaStart
<1>3. Mark("BoF").type # "DOLLAR"
  BY DEF Mark, Token
<1>4. EndsOnce
  <2> DEFINE e == Mark("BoF")
  <2> HIDE DEF e
  <2>1. Len(stream) = 1 /\ stream[1] = e
    BY <1>2 DEF e
  <2>2. phase = "arguments" /\ e.type # "DOLLAR"
    BY <1>2, <1>3 DEF e
  <2> QED
    BY ONLY <2>1, <2>2 DEF EndsOnce, NoEnd
<1>5. ReadInv
  <2> DEFINE e == StackEntry(0, "")
  <2>1. e.state = 0
    BY DEF StackEntry
  <2> HIDE DEF e
  <2>2. Len(stack) = 1 /\ stack[1] = e
    BY <1>2 DEF e
  <2>3. Chained(stack)
    BY <2>1, <2>2 DEF Chained
  <2>4. Read = <<>> /\ Spelled(stack) = <<>>
    <3> DEFINE none(f) == [k \in 1 .. 0 |-> f[k].type]
    <3>1. \A f : none(f) = <<>>
      OBVIOUS
    <3>2. Read = none(stream)
      <4>1. token_idx - 1 = 0
        <5>1. token_idx = 1
          BY <1>2
        <5> QED
          BY ONLY <5>1
      <4> QED
        BY <4>1 DEF Read
    <3>3. Spelled(stack) \in Seq(Symbols) /\ Len(Spelled(stack)) = 0
      <4>1. stack \in Seq(Entries) /\ stack # <<>>
        BY <1>1 DEF TypesInv, StackInv, StackType
      <4>2. Spelled(stack) \in Forms /\ Len(Spelled(stack)) = Len(stack) - 1
        BY ONLY <4>1, SpelledIsForm
      <4>3. Len(Spelled(stack)) = 0
        BY ONLY <4>2, <2>2
      <4> QED
        BY ONLY <4>2, <4>3 DEF Forms
    <3> HIDE DEF none
    <3>4. Spelled(stack) = <<>>
      BY ONLY <3>3, EmptySeq
    <3> QED
      BY <3>1, <3>2, <3>4
  <2>5. Tokenwise(<<>>) /\ <<>> \in Forms
    BY DEF Tokenwise, Forms
  <2>6. Contracts(<<>>, <<>>, <<>>)
    <3> DEFINE g == [k \in 0 .. 0 |-> <<>>]
    <3>1. g \in [0 .. 0 -> Forms] /\ g[0] = <<>>
      BY <2>5
    <3> HIDE DEF g
    <3>2. Leads(g, <<>>, <<>>, <<>>)
      BY <3>1 DEF Leads
    <3> QED
      BY <3>2 DEF Contracts
  <2> QED
    BY <1>2, <2>3, <2>4, <2>5, <2>6 DEF ReadInv
<1> QED
  BY <1>1, <1>2, <1>4, <1>5 DEF SentenceInv, AcceptsOnlySentences

LEMMA AcceptDerives ==
  ASSUME TypesInv, EndsOnce, ReadInv, Accept
  PROVE  AcceptsOnlySentences'
<1> DEFINE n == Len(stream)
<1>1. /\ Acts("ACCEPT") /\ phase = "parse" /\ UNCHANGED <<stream, made>>
  BY DEF Accept, Acts, parseVars
<1>2. /\ stream \in Seq(Tokens) /\ n \in Nat /\ token_idx \in 1 .. n
      /\ made \in Seq(DOMAIN Prods)
  BY <1>1 DEF TypesInv, ParseTypes, Acts
<1>3. /\ lookahead.type = "DOLLAR" /\ "DOLLAR" \notin Nodes
      /\ Spelled(stack) = <<"start">> /\ "start" \in Symbols
  BY <1>1, AcceptsStart DEF TypesInv, ReadInv
<1>4. token_idx = n
  <2>1. ~(token_idx \in 1 .. n - 1)
    BY <1>1, <1>3 DEF EndsOnce, lookahead
  <2> QED
    BY <1>2, <2>1
<1>5. Read \in Derived[Len(made)]
  <2>1. Contracts(made, Read, <<"start">>)
    BY <1>3 DEF ReadInv
  <2> QED
    BY <1>2, <1>3, <2>1, ContractionDerives
<1>6. \A k \in 1 .. n : stream[k].type \in Symbols
  <2>1. \A k \in 1 .. n : stream[k] \in Tokens
    BY <1>2
  <2> QED
    BY <2>1 DEF Tokens
<1> DEFINE r == Read
<1>7. /\ r \in Seq(Symbols) /\ Len(r) = n - 1
      /\ \A k \in 1 .. n - 1 : r[k] = stream[k].type
  BY <1>2, <1>4, <1>6 DEF Read
<1> HIDE DEF r
<1>8. stream[n].type = "DOLLAR"
  BY <1>3, <1>4 DEF lookahead
<1>9. \A k \in 1 .. n : stream[k].type \notin Nodes
  <2>1. Tokenwise(r)
    BY DEF ReadInv, r
  <2>2. \A k \in 1 .. n : k = n \/ k \in 1 .. n - 1
    BY <1>2
  <2> QED
    BY <1>3, <1>7, <1>8, <2>1, <2>2 DEF Tokenwise
<1>10. r \o <<"DOLLAR">> = [k \in 1 .. n |-> stream[k].type]
  <2> DEFINE X == "DOLLAR"
             all == [k \in 1 .. n |-> stream[k].type]
  <2>1. X = stream[n].type /\ n \in 1 .. n /\ X \in Symbols
    <3>1. n \in 1 .. n
      BY <1>2, <1>4
    <3> QED
      BY <1>6, <1>8, <3>1
  <2>2. /\ all \in Seq(Symbols) /\ Len(all) = n
        /\ \A k \in 1 .. n : all[k] = stream[k].type
    BY <1>2, <1>6
  <2> HIDE DEF X, all
  <2>3. /\ r \o <<X>> \in Seq(Symbols) /\ Len(r \o <<X>>) = n
        /\ (r \o <<X>>)[n] = X
        /\ \A k \in 1 .. n - 1 : (r \o <<X>>)[k] = r[k]
    BY ONLY <1>2, <1>7, <2>1
  <2>4. ASSUME NEW k \in 1 .. n
        PROVE  (r \o <<X>>)[k] = all[k]
    <3>1. k = n \/ k \in 1 .. n - 1
      BY ONLY <1>2, k \in 1 .. n
    <3> QED
      BY ONLY <1>7, <2>1, <2>2, <2>3, <3>1, k \in 1 .. n, Zenon
  <2>5. r \o <<X>> = all
    BY ONLY <2>2, <2>3, <2>4, SeqEqual
  <2> QED
    BY <2>5 DEF X, all
<1>11. r \in Derived[Len(made)]
  BY <1>5 DEF r
<1>12. Derived' = Derived
  BY <1>1 DEF Derived
<1> HIDE DEF Derived
<1>13. (\A k \in 1 .. Len(stream') : stream'[k].type \notin Nodes)
       /\ \E form \in Derived'[Len(made')] :
            form \o <<"DOLLAR">> = [k \in 1 .. Len(stream') |-> stream'[k].type]
  BY <1>1, <1>9, <1>10, <1>11, <1>12
<1> QED
  BY <1>13 DEF AcceptsOnlySentences

LEMMA SentenceStep ==
  SentenceInv /\ [Next]_vars => SentenceInv'
<1> SUFFICES ASSUME SentenceInv, [Next]_vars
             PROVE  SentenceInv'
  OBVIOUS
<1> USE DEF SentenceInv
<1>1. TypesInv'
  BY TypesStep
<1>2. EndsOnce' /\ \A k \in 1 .. Len(stream) : stream'[k] = stream[k]
  BY EndsOnceStep DEF TypesInv
<1>3. ReadInv'
  <2>1. CASE LaNext
    BY <2>1, ParseReads DEF TypesInv
  <2>2. CASE UNCHANGED parseVars
    <3>1. /\ UNCHANGED <<stack, made, token_idx>> /\ token_idx \in Nat
          /\ \A k \in 1 .. token_idx - 1 : k \in 1 .. Len(stream)
      <4>1. Len(stream) \in Nat /\ token_idx \in 1 .. Len(stream) + 1
        BY DEF TypesInv, ParseTypes
      <4> QED
        BY <2>2, <4>1 DEF parseVars
    <3> QED
      BY <1>2, <3>1, ReadStays
  <2> QED
    BY <2>1, <2>2, StepsOfParse
<1>4. AcceptsOnlySentences'
  <2>1. CASE Accept
    BY <2>1, AcceptDerives
  <2>2. CASE phase' # "parsed"
    BY <2>2 DEF AcceptsOnlySentences
  <2>3. CASE phase = "parsed" /\ UNCHANGED <<phase, stream, made>>
    <3>1. Derived' = Derived
      BY <2>3 DEF Derived
    <3> HIDE DEF Derived
    <3> QED
      BY <2>3, <3>1 DEF AcceptsOnlySentences
  <2> QED
    BY <2>1, <2>2, <2>3, StepsOfParse
<1> QED
  BY <1>1, <1>2, <1>3, <1>4

\* Whatever the texts and the commands: a text that parse accepts is a sentence
\* of PRODUCTIONS, all of it, and the productions it reduced by are a rightmost
\* derivation of it, last one first (145-170, 593).
THEOREM AcceptedAreSentences ==
  Spec => []AcceptsOnlySentences
<1>1. SentenceInv => AcceptsOnlySentences
  BY DEF SentenceInv
<1> QED
  BY SentenceInit, SentenceStep, <1>1, PTL DEF Spec
===============================================================================
