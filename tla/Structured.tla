------------------------------ MODULE Structured ------------------------------
(***************************************************************************)
(* What a procedure's statements mean: which statement follows which, when *)
(* a condition holds and when it does not. This is what the generated      *)
(* function has to do; it is read off the tree alone and knows nothing of  *)
(* blocks and branches.                                                    *)
(*                                                                         *)
(* The execution stands before a point: <<n, "do">>, the loads and stores  *)
(* of the statement at n (for a for loop its prologue); <<n, "cd">>, a     *)
(* condition; <<n, "ep">>, a for loop's epilogue; <<n, "return">>, a       *)
(* return; n is past the last node for the one at the procedure's end.     *)
(***************************************************************************)
EXTENDS Ast

VARIABLE at

Idle == <<0, "idle">>
Done == <<0, "done">>

Points == ((1 .. MaxNodes + 1) \X {"do", "cd", "ep", "return"}) \cup {Idle, Done}

\* The statement whose last block ends at the marker n.
Ended(n) == Max({m \in 1 .. n - 1 : ast[m].k \in Openers /\ ast[m].lvl = ast[n].lvl})

\* The end of the if tree that the clause marker n belongs to.
TreeEnd(n) == Min({m \in n .. Len(ast) : ast[m].k = "end" /\ ast[m].lvl = ast[n].lvl})

LoopOf(n) == Max({m \in Around(n) : ast[m].k \in Loops})

\* The point control comes to when it comes to node n from above.
First[n \in 1 .. Len(ast) + 1] ==
  IF n > Len(ast) THEN <<n, "return">>
  ELSE CASE ast[n].k = "decl" -> First[n + 1]
         [] ast[n].k \in {"param", "init", "asst", "expr", "print", "delete"} -> <<n, "do">>
         [] ast[n].k = "return" -> <<n, "return">>
         [] ast[n].k = "break" -> First[BodyEnd(LoopOf(n)) + 1]
         [] ast[n].k \in {"if", "while"} -> <<n, "cd">>
         [] ast[n].k \in {"fordcl", "forasst"} -> <<n, "do">>
         [] ast[n].k \in Clauses -> First[TreeEnd(n) + 1]
         [] ast[n].k = "end" ->
              LET o == Ended(n)
              IN  CASE ast[o].k = "if"    -> First[n + 1]
                    [] ast[o].k = "while" -> <<o, "cd">>
                    [] OTHER              -> <<o, "ep">>

\* Where control goes when the condition at n does not hold.
Otherwise(n) ==
  LET m == BodyEnd(n)
  IN  IF ast[m].k = "elif" THEN <<m, "cd">> ELSE First[m + 1]

Here(role) == at \in Points /\ at[2] = role

Call     == at = Idle /\ at' = First[1]
Do       == Here("do") /\ at' = IF ast[at[1]].k \in Loops THEN <<at[1], "cd">>
                                                          ELSE First[at[1] + 1]
Hold     == Here("cd") /\ at' = First[at[1] + 1]
NotHold  == Here("cd") /\ at' = Otherwise(at[1])
Epilogue == Here("ep") /\ at' = <<at[1], "cd">>
Return   == Here("return") /\ at' = Done

\* The procedure is written before it is called, and not afterwards.
Write == at = Idle /\ UNCHANGED at

Execute == (Call \/ Do \/ Hold \/ NotHold \/ Epilogue \/ Return) /\ UNCHANGED ast

StructuredSpec == at = Idle /\ [][Write \/ Execute]_<<ast, at>>

===============================================================================
