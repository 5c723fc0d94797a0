-------------------------------- MODULE ExprRun -------------------------------
(***************************************************************************)
(* Running the code of an expression, instruction by instruction, on any   *)
(* values of its variables and any results of the procedures it calls, and *)
(* what the expression means. Pointers are left out: only int, char and    *)
(* bool variables and operators on them occur. Ints stay small.            *)
(***************************************************************************)
EXTENDS ExprLower

CONSTANTS
  ValuesOf     \* the values of each type a run may start with

VARIABLES
  given,   \* the variables' values before and the procedures' results
  mem,     \* the variables' values
  pc,      \* the block and the index in it of the next instruction
  from,    \* the block before this one
  regs,    \* the values of the instructions executed
  calls,   \* the calls made: their nodes
  result   \* what is branched on, stored or returned

runVars == <<lowerVars, given, mem, pc, from, regs, calls, result>>

NotRun == <<0, 0>>

CONSTANT NoResult

-------------------------------------------------------------------------------
(* LLVM                                                                    *)

Fetch == blocks[pc[1]][pc[2]]

Val(v) == IF v.src = "const" THEN v.i ELSE regs[<<v.b, v.i>>]

\* Comparisons are signed at the width of their operands: the one bit of an
\* i1 is its sign.
Signed(v) == IF v.ty = "i1" THEN -Val(v) ELSE Val(v)

Bit(p) == IF p THEN 1 ELSE 0

Compute(i) ==
  LET a(j) == Val(i.args[j])
      s(j) == Signed(i.args[j])
  IN  CASE i.op = "load"   -> mem[i.args[1].x]
        [] i.op = "EQUALS" -> Bit(a(1) = a(2))
        [] i.op = "NEQ"    -> Bit(a(1) # a(2))
        [] i.op = "LT"     -> Bit(s(1) < s(2))
        [] i.op = "GEQ"    -> Bit(s(1) >= s(2))
        [] i.op = "PLUS"   -> a(1) + a(2)
        [] i.op = "SUB"    -> a(1) - a(2)
        [] i.op = "not"    -> IF i.ty = "i1" THEN 1 - a(1) ELSE -a(1) - 1
        [] i.op = "neg"    -> -a(1)
        [] i.op \in {"zext", "sext"} -> a(1)
        [] i.op = "phi"    -> IF from = i.to[1] THEN a(1) ELSE a(2)
        [] i.op = "call"   -> given.result[i.x]

Ready(ops) == phase = "run" /\ pc # NotRun /\ pc[2] <= Len(blocks[pc[1]]) /\ Fetch.op \in ops

\* The variables and procedures that the expression is about.
Used(names) == names \cap {expr[n].x : n \in Within}

RunStart ==
  /\ phase = "run" /\ pc = NotRun
  /\ \E vs \in [Used(Vars) -> UNION {ValuesOf[t] : t \in DOMAIN ValuesOf}],
        rs \in [Used(Funs) -> UNION {ValuesOf[t] : t \in DOMAIN ValuesOf}] :
       /\ \A x \in DOMAIN vs : vs[x] \in ValuesOf[VarType[x]]
       /\ \A f \in DOMAIN rs : rs[f] \in ValuesOf[FunType[f]]
       /\ given' = [var |-> vs, result |-> rs]
       /\ mem' = vs
  /\ pc' = <<1, 1>>
  /\ UNCHANGED <<lowerVars, from, regs, calls, result>>

RunValue ==
  /\ Ready({"load", "EQUALS", "NEQ", "LT", "GEQ", "PLUS", "SUB", "not", "neg", "zext", "sext",
            "phi", "call"})
  /\ regs' = [p \in DOMAIN regs \cup {pc} |-> IF p = pc THEN Compute(Fetch) ELSE regs[p]]
  /\ calls' = IF Fetch.op = "call" THEN Append(calls, Fetch.n) ELSE calls
  /\ pc' = <<pc[1], pc[2] + 1>>
  /\ UNCHANGED <<lowerVars, given, mem, from, result>>

RunBranch ==
  /\ Ready({"br", "condbr"}) /\ Fetch.to # <<0, 0>>
  /\ pc' = <<Fetch.to[IF Fetch.op = "br" \/ Val(Fetch.args[1]) = 1 THEN 1 ELSE 2], 1>>
  /\ from' = pc[1]
  /\ UNCHANGED <<lowerVars, given, mem, regs, calls, result>>

\* The stores of ++, -- and assignments go on, that of an initial value does
\* not, nor do a return and the branch of the condition.
RunStore ==
  /\ Ready({"store"}) /\ Fetch.args[2].x \in Vars
  /\ mem' = [mem EXCEPT ![Fetch.args[2].x] = Val(Fetch.args[1])]
  /\ pc' = <<pc[1], pc[2] + 1>>
  /\ UNCHANGED <<lowerVars, given, from, regs, calls, result>>

RunEnd ==
  /\ phase = "run" /\ pc # NotRun
  /\ \/ /\ pc[2] > Len(blocks[pc[1]])
        /\ UNCHANGED result
     \/ /\ Ready({"ret", "store", "condbr"})
        /\ Fetch.op = "store" => Fetch.args[2].x = Target
        /\ Fetch.op = "condbr" => Fetch.to = <<0, 0>>
        /\ result' = Val(Fetch.args[1])
  /\ phase' = "done"
  /\ UNCHANGED <<stmt, expr, need, todo, vals, blocks, cur, given, mem, pc, from, regs, calls>>

RunInit ==
  /\ LowerInit
  /\ given = NoResult /\ mem = NoResult /\ pc = NotRun /\ from = 0
  /\ regs = [p \in {} |-> 0] /\ calls = <<>> /\ result = NoResult

Compile == LowerNext /\ UNCHANGED <<given, mem, pc, from, regs, calls, result>>

RunNext == Compile \/ RunStart \/ RunValue \/ RunBranch \/ RunStore \/ RunEnd

RunSpec == RunInit /\ [][RunNext]_runVars

-------------------------------------------------------------------------------
(* What an expression means: its value and the calls it makes, in order.   *)

Means(v, c) == [v |-> v, calls |-> c]

BinaryValue(op, l, r) ==
  CASE op = "EQUALS" -> Bit(l = r)
    [] op = "NEQ"    -> Bit(l # r)
    [] op = "LT"     -> Bit(l < r)
    [] op = "GEQ"    -> Bit(l >= r)
    [] op = "PLUS"   -> l + r
    [] op = "SUB"    -> l - r

Meaning[n \in Nat] ==
  LET op == expr[n].op
      x  == expr[n].x
      l  == Meaning[n + 1]
      r  == Meaning[Second(n)]
  IN  CASE op = "ID"      -> Means(given.var[x], <<>>)
        [] op = "NUM"     -> Means(1, <<>>)
        [] op = "CHARLIT" -> Means(65, <<>>)
        [] op = "TRUE"    -> Means(1, <<>>)
        [] op = "FALSE"   -> Means(0, <<>>)
        [] op = "CALL"    -> Means(given.result[x], <<n>>)
        [] op = "ARG"     -> Means(given.result[x], Append(l.calls, n))
        [] op = "NOT"     -> Means(1 - l.v, l.calls)
        [] op = "expr3"   -> l
        [] op = "expr4"   -> Means(-l.v, l.calls)
        [] op = "BITNOT"  -> Means(-l.v - 1, l.calls)
        [] op = "INCR"    -> Means(l.v + 1, l.calls)
        [] op = "DECR"    -> Means(l.v - 1, l.calls)
        [] op = "AND"     -> IF l.v = 0 THEN l ELSE Means(r.v, l.calls \o r.calls)
        [] op = "OR"      -> IF l.v = 1 THEN l ELSE Means(r.v, l.calls \o r.calls)
        [] op \in Compare \cup Additive ->
             Means(BinaryValue(op, l.v, r.v), l.calls \o r.calls)

\* The variables afterwards.
MeantMem ==
  CASE expr[1].op \in Steps -> [given.var EXCEPT ![expr[2].x] = Meaning[1].v]
    [] stmt.k = "asst"      -> [given.var EXCEPT ![expr[1].x] = Meaning[Root].v]
    [] OTHER                -> given.var

MeantResult ==
  CASE stmt.k = "cond"              -> Bit(Meaning[1].v # 0)
    [] stmt.k \in {"init", "return"} -> Meaning[1].v
    [] OTHER                        -> NoResult

RunsAsMeant ==
  result = MeantResult /\ mem = MeantMem /\ calls = Meaning[Root].calls

\* ! is applied to && or ||, whose value is an int.
NegatesInt == \E n \in Within : expr[n].op = "NOT" /\ AsInt[n + 1]

\* Two booleans that are not ints are put in order.
OrdersBits ==
  \E n \in Within :
    expr[n].op \in {"LT", "GEQ"} /\ TypeOf[n + 1] = TYPE_BOOL
      /\ ~AsInt[n + 1] /\ ~AsInt[Second(n)]

\* Running the code of an expression gives its value, stores it where it
\* should be, and makes the calls it should in the order it should, those
\* that && and || skip left out - except for the negation of an int and the
\* order of two booleans (CodeGen::visit of BinaryExprNode, UnaryExprNode,
\* VarInitNode and AssignmentNode).
EvaluatesAsMeant == phase = "done" => RunsAsMeant \/ NegatesInt \/ OrdersBits

\* "Zero-extend back to 32-bit int so it plays nicely with the rest of your
\* typed expressions" (codegen.cpp:697): the value of && and || serves every
\* operator as a boolean, ! too.
LogicalPlaysNicely == phase = "done" => RunsAsMeant

===============================================================================
