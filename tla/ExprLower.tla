------------------------------- MODULE ExprLower ------------------------------
(***************************************************************************)
(* CodeGen's visits of the expression of a statement: the instructions,    *)
(* values and basic blocks it is lowered to.                               *)
(*                                                                         *)
(* The visits are recursive. todo is what is left of those under way, the  *)
(* innermost first: a visit of a node, a get_LValue of one, or the part of *)
(* a visit that comes after its operands' visits, with the blocks that its *)
(* locals hold. vals are the values these returned (L, R, ...), latest     *)
(* first.                                                                  *)
(*                                                                         *)
(* A value is an llvm::Value*: its LLVM type, and where it comes from, a   *)
(* constant k, the alloca of x, or instruction i of block b. elem is what  *)
(* an alloca or a getelementptr says it points at, "" for other pointers.  *)
(* IRBuilder's folding of constants is left out.                           *)
(***************************************************************************)
EXTENDS ExprTypes, FiniteSets

VARIABLES
  todo,    \* the visits under way
  vals,    \* the values they have
  blocks,  \* the basic blocks, each a sequence of instructions
  cur      \* Builder.GetInsertBlock()

exprVars  == <<phase, stmt, expr, need>>
lowerVars == <<exprVars, todo, vals, blocks, cur>>

-------------------------------------------------------------------------------
(* LLVM's types, values and instructions.                                  *)

\* CodeGen::get_LLVM_type; "" is its throw.
LlvmType(t) ==
  CASE t = TYPE_INT      -> "i32"
    [] t = TYPE_CHAR     -> "i8"
    [] t = TYPE_BOOL     -> "i1"
    [] t = TYPE_VOID     -> "void"
    [] IsPointer(t) -> "ptr"
    [] OTHER        -> IF t # NoType /\ t[1] \in Structs THEN t[1] ELSE ""

Pointee(t) == LlvmType(SubSeq(t, 1, Len(t) - 1))

IntTypes == {"i1", "i8", "i32"}

Value(ty, src, elem) == [ty |-> ty, src |-> src, elem |-> elem, x |-> "", b |-> 0, i |-> 0]

Const(ty, k) == [Value(ty, "const", "") EXCEPT !.i = k]
Alloca(x, ty) == [Value("ptr", "alloca", ty) EXCEPT !.x = x]

Instruction(op, ty, args) == [op |-> op, ty |-> ty, args |-> args, x |-> "", n |-> 0, to |-> <<>>]

Cast(v, ty) == Instruction(IF v.ty = "i8" /\ ty = "i32" THEN "sext"
                           ELSE IF ty = "i32" THEN "zext" ELSE "trunc", ty, <<v>>)
NotZero(v)  == Instruction("NEQ", "i1", <<v, Const(v.ty, 0)>>)
CondBr(v, b, c) == [Instruction("condbr", "void", <<v>>) EXCEPT !.to = <<b, c>>]
Br(b)       == [Instruction("br", "void", <<>>) EXCEPT !.to = <<b>>]

Emit(is) == [blocks EXCEPT ![cur] = @ \o is]

\* The value of the j-th instruction emitted from here on.
Next(j, ty, elem) ==
  [Value(ty, "ins", elem) EXCEPT !.b = cur, !.i = Len(blocks[cur]) + j]

\* The conversions in the code are made only where types differ in this way:
\* the instruction, if any, and the value afterwards.
Converted(v, need_it, i) ==
  IF need_it THEN [is |-> <<i>>, v |-> Next(1, i.ty, "")] ELSE [is |-> <<>>, v |-> v]

\* Mutant: an int is taken for a boolean.
AsBoolUnconverted(v) == Converted(v, v.ty = "i8", NotZero(v))

\* A condition, or an operand of && and ||: an i32 or an i8 is compared with 0.
AsBool(v) == Converted(v, v.ty \in {"i32", "i8"}, NotZero(v))

\* A value stored in a variable, by VarInitNode and AssignmentNode.
AsStored(v, ty) ==
  Converted(v, (ty = "i32" /\ v.ty = "i1") \/ (ty = "i8" /\ v.ty = "i32"), Cast(v, ty))

-------------------------------------------------------------------------------
(* The visits under way.                                                   *)

\* rhs_bb, merge_bb and lhs_eval_bb of a visit of && or ||.
NoBlocks == [rhs |-> 0, merge |-> 0, lhs_eval |-> 0]

Item(do, n) == [do |-> do, n |-> n, sc |-> NoBlocks]

Doing(do) == phase = "codegen" /\ todo # <<>> /\ Head(todo).do = do

N == Head(todo).n
Op == expr[N].op

\* The current item is replaced by those it leads to, drop values are taken
\* and those of vs are put in their place, and the instructions is emitted.
Continue(items, drop, vs, is) ==
  /\ todo' = items \o Tail(todo)
  /\ vals' = vs \o SubSeq(vals, drop + 1, Len(vals))
  /\ blocks' = Emit(is)
  /\ UNCHANGED <<exprVars, cur>>

Yield(drop, i, elem) == Continue(<<>>, drop, <<Next(1, i.ty, elem)>>, <<i>>)

Throw ==
  /\ phase' = "failed"
  /\ UNCHANGED <<stmt, expr, need, todo, vals, blocks, cur>>

Target == "target"   \* the variable a VarInitNode declares

\* The order in which a statement visits its expressions: AssignmentNode its
\* value first, VarInitNode makes the alloca of its variable first.
Start ==
  /\ phase = "codegen" /\ blocks = <<>>
  /\ blocks' = <<<<>>>> /\ cur' = 1
  /\ todo' = <<Item("visit", Root)>>
             \o (IF stmt.k = "asst" THEN <<Item("lvalue", 1)>> ELSE <<>>)
             \o <<Item("finish", 0)>>
  /\ UNCHANGED <<exprVars, vals>>

VisitOperand ==
  /\ Doing("visit") /\ Op \in Operands \ {"ID", "NEW", "CALL", "READ"}
  /\ Continue(<<>>, 0,
              <<CASE Op = "NUM"     -> Const("i32", 1)
                  [] Op = "CHARLIT" -> Const("i8", 65)
                  [] Op = "TRUE"    -> Const("i1", 1)
                  [] Op = "FALSE"   -> Const("i1", 0)
                  [] Op = "NIL"     -> Const("ptr", 0)>>, <<>>)

Load(ty, v) == Instruction("load", ty, <<v>>)

VisitID ==
  LET ty == LlvmType(VarType[expr[N].x])
  IN  Doing("visit") /\ Op = "ID" /\ Yield(0, Load(ty, Alloca(expr[N].x, ty)), "")

Call(x, ty, args) == [Instruction("call", ty, args) EXCEPT !.x = x, !.n = N]

\* getTypeAllocSize, of the types that are not structs.
AllocSize(ty) == CASE ty = "ptr" -> 8 [] ty = "i32" -> 4 [] ty \in {"i1", "i8"} -> 1

\* AllocNode's malloc, which is for one value of the pointer's type; a call
\* without arguments; ReadCallNode's scanf.
VisitCall ==
  /\ Doing("visit") /\ Op \in {"NEW", "CALL", "READ"}
  /\ Yield(0, CASE Op = "NEW"  -> Call("malloc", "ptr", <<Const("i64", AllocSize(LlvmType(TypeOf[N])))>>)
                [] Op = "READ" -> Call("scanf", "i8", <<>>)
                [] Op = "CALL" -> Call(expr[N].x, LlvmType(FunType[expr[N].x]), <<>>), "")

\* Mutant: the operand of . and -> is visited before its address is asked for.
PartsVisitedTwice(op, n) ==
  CASE op = "ADDR"   -> <<Item("lvalue", n + 1)>>
    [] op \in Steps  -> <<Item("visit", n + 1), Item("lvalue", n + 1), Item("close", n)>>
    [] op \in Member -> <<Item("visit", n + 1), Item("lvalue", n), Item("close", n)>>
    [] op \in Binary -> <<Item("visit", n + 1), Item("visit", Second(n)), Item("close", n)>>
    [] OTHER         -> <<Item("visit", n + 1), Item("close", n)>>

\* What a visit asks of its operands, and then itself. ADDR wants only an
\* address. INCR and DECR visit their operand and then ask for its address,
\* which visits it again.
Parts(op, n) ==
  CASE op = "ADDR"   -> <<Item("lvalue", n + 1)>>
    [] op \in Steps  -> <<Item("visit", n + 1), Item("lvalue", n + 1), Item("close", n)>>
    [] op \in Member -> <<Item("lvalue", n), Item("close", n)>>
    [] op \in Binary -> <<Item("visit", n + 1), Item("visit", Second(n)), Item("close", n)>>
    [] OTHER         -> <<Item("visit", n + 1), Item("close", n)>>

VisitOperator ==
  /\ Doing("visit") /\ Op \in (Unary \cup Member \cup {"ARG"} \cup Binary) \ Logical
  /\ Continue(Parts(Op, N), 0, <<>>, <<>>)

-------------------------------------------------------------------------------
(* get_LValue                                                              *)

\* Mutant: -> wants its operand to have an address, as . does.
BaseAlike(op, n) == Item("lvalue", n)

\* What the address of a member is reckoned from: that of the struct, or the
\* value that points to it.
Base(op, n) == Item(IF op = "DOT" THEN "lvalue" ELSE "visit", n)

LValue ==
  /\ Doing("lvalue")
  /\ CASE Op = "ID"    -> Continue(<<>>, 0, <<Alloca(expr[N].x, LlvmType(VarType[expr[N].x]))>>, <<>>)
       [] Op = "AT"    -> Continue(<<Item("visit", N + 1)>>, 0, <<>>, <<>>)
       [] Op \in Member -> Continue(<<Base(Op, N + 1), Item("field", N)>>, 0, <<>>, <<>>)
       [] OTHER        -> Throw

\* CreateStructGEP
LValueField ==
  LET s == IF Op = "ARROW" THEN Pointee(TypeOf[N + 1]) ELSE LlvmType(TypeOf[N + 1])
  IN  /\ Doing("field")
      /\ Yield(1, Instruction("gep", "ptr", <<vals[1], Const("i32", 0)>>),
               LlvmType(FieldType[s][expr[N].x]))

-------------------------------------------------------------------------------
(* Operators whose operands have been visited.                             *)

\* The operand that is narrower than the other, an int or a boolean as an
\* int, is widened; pointers are left alone.
Widened(l, r) ==
  LET narrow == IF l.ty = "i32" THEN r ELSE l
      it     == {l.ty, r.ty} \in {{"i8", "i32"}, {"i1", "i32"}}
      c      == Converted(narrow, it, Cast(narrow, "i32"))
  IN  [is |-> c.is,
       l  |-> IF it /\ narrow.ty = l.ty THEN c.v ELSE l,
       r  |-> IF it /\ narrow.ty = r.ty THEN c.v ELSE r]

CloseBinary ==
  LET lt == TypeOf[N + 1]
      rt == TypeOf[Second(N)]
      pointers == IsPointer(lt) \/ IsPointer(rt)
      w  == IF pointers THEN [is |-> <<>>, l |-> vals[2], r |-> vals[1]]
                        ELSE Widened(vals[2], vals[1])
      i  == Instruction(Op, IF Op \in Compare THEN "i1" ELSE w.l.ty, <<w.l, w.r>>)
  IN  /\ Doing("close") /\ Op \in Binary
      /\ ~(Op = "PLUS" /\ pointers) /\ ~(Op = "SUB" /\ IsPointer(lt))
      /\ Continue(<<>>, 2, <<Next(Len(w.is) + 1, i.ty, "")>>, Append(w.is, i))

\* Mutant: pointers are counted in bytes.
CountedInBytes(t) == "i8"

\* What pointer arithmetic counts in: the type without its last star.
Counted(t) == Pointee(t)

\* CreateGEP and CreatePtrDiff over elements of a type.
Over(elem, op, ty, args) == [Instruction(op, ty, args) EXCEPT !.x = elem, !.n = N]

\* ptr + int and int + ptr
ClosePointerPlus ==
  LET left == IsPointer(TypeOf[N + 1])
      p    == IF left THEN vals[2] ELSE vals[1]
      k    == IF left THEN vals[1] ELSE vals[2]
      elem == Counted(TypeOf[IF left THEN N + 1 ELSE Second(N)])
  IN  /\ Doing("close") /\ Op = "PLUS" /\ IsPointer(TypeOf[N])
      /\ IF elem = "" THEN Throw
                      ELSE Yield(2, Over(elem, "gep", "ptr", <<p, k>>), elem)

\* ptr - int: CreatePtrDiff, truncated to an int.
ClosePointerSub ==
  /\ Doing("close") /\ Op = "SUB" /\ IsPointer(TypeOf[N + 1])
  /\ LET elem == Counted(TypeOf[N + 1])
     IN  IF elem = "" THEN Throw
         ELSE Yield(2, Over(elem, "ptrdiff", "i32", <<vals[2], vals[1]>>), "")

\* Unary + is its operand; ! and ~ are both CreateNot.
CloseUnary ==
  /\ Doing("close") /\ Op \in {"NOT", "BITNOT"} \cup Signs
  /\ IF Op = "expr3" THEN Continue(<<>>, 0, <<>>, <<>>)
     ELSE Yield(1, Instruction(IF Op = "expr4" THEN "neg" ELSE "not", vals[1].ty, <<vals[1]>>), "")

\* The type is the pointee's, which nil does not have; a field's type is known.
CloseLoad ==
  /\ Doing("close") /\ Op \in {"AT"} \cup Member
  /\ IF LlvmType(TypeOf[N]) = "" THEN Throw
     ELSE Yield(1, Load(LlvmType(TypeOf[N]), vals[1]), "")

\* ++ and --: the type is what the address says it points at, and a pointer is
\* counted in that too, the size of a pointer.
CloseStep ==
  LET a  == vals[1]
      by == Const(IF a.elem = "ptr" THEN "i32" ELSE a.elem, IF Op = "INCR" THEN 1 ELSE -1)
      i  == Over(a.elem, IF a.elem = "ptr" THEN "gep" ELSE "PLUS", a.elem,
                 <<Next(1, a.elem, ""), by>>)
  IN  /\ Doing("close") /\ Op \in Steps
      /\ IF a.elem \notin {"i32", "i8", "ptr"} THEN Throw
         ELSE Continue(<<>>, 2, <<Next(2, a.elem, IF a.elem = "ptr" THEN "ptr" ELSE "")>>,
                <<Load(a.elem, a), i, Instruction("store", "void", <<Next(2, a.elem, ""), a>>)>>)

CloseArgument ==
  LET f == expr[N].x
  IN  Doing("close") /\ Op = "ARG" /\ Yield(1, Call(f, LlvmType(FunType[f]), <<vals[1]>>), "")

-------------------------------------------------------------------------------
(* && and ||                                                               *)

\* The current item's visit goes on with the blocks s.
Holding(do, s) == [Item(do, N) EXCEPT !.sc = s]

\* Both blocks are made before the left operand is visited.
VisitLogical ==
  LET rhs == Len(blocks) + 1
      s   == [rhs |-> rhs, merge |-> rhs + 1, lhs_eval |-> cur]
  IN  /\ Doing("visit") /\ Op \in Logical
      /\ blocks' = blocks \o <<<<>>, <<>>>>
      /\ todo' = <<Item("visit", N + 1), Holding("between", s)>> \o Tail(todo)
      /\ UNCHANGED <<exprVars, vals, cur>>

\* Mutant: the block in which && and || began, as if no operand made blocks.
LhsEvalFirst(s) == s

\* The block the left operand's visit ended in.
LhsEval(s) == [s EXCEPT !.lhs_eval = cur]

\* Mutant: the branch of || is that of &&.
BranchAlike(op, v, s) == CondBr(v, s.rhs, s.merge)

Branch(op, v, s) ==
  IF op = "AND" THEN CondBr(v, s.rhs, s.merge) ELSE CondBr(v, s.merge, s.rhs)

LogicalBetween ==
  LET l == AsBool(vals[1])
      s == Head(todo).sc
  IN  /\ Doing("between")
      /\ blocks' = Emit(Append(l.is, Branch(Op, l.v, s)))
      /\ cur' = s.rhs
      /\ todo' = <<Item("visit", Second(N)), Holding("merge", LhsEval(s))>> \o Tail(todo)
      /\ vals' = Tail(vals)
      /\ UNCHANGED exprVars

\* The value is that of the operand evaluated last, as an int.
LogicalMerge ==
  LET r   == AsBool(vals[1])
      s   == Head(todo).sc
      phi == [Instruction("phi", "i1", <<Const("i1", IF Op = "AND" THEN 0 ELSE 1), r.v>>)
                EXCEPT !.to = <<s.lhs_eval, cur>>]
      at(i, ty) == [Value(ty, "ins", "") EXCEPT !.b = s.merge, !.i = i]
  IN  /\ Doing("merge")
      /\ blocks' = [Emit(Append(r.is, Br(s.merge)))
                      EXCEPT ![s.merge] = <<phi, Cast(at(1, "i1"), "i32")>>]
      /\ cur' = s.merge
      /\ todo' = Tail(todo) /\ vals' = <<at(2, "i32")>> \o Tail(vals)
      /\ UNCHANGED exprVars

-------------------------------------------------------------------------------
(* The statement, once its expressions are visited.                        *)

\* LLVM's rule for an instruction's types.
WellTyped(i) ==
  LET ty(j) == i.args[j].ty
  IN  CASE i.op \in Binary -> ty(1) = ty(2) /\ ty(1) \in IntTypes
        [] i.op \in {"not", "neg"} -> ty(1) \in IntTypes
        [] i.op \in {"zext", "sext"} -> ty(1) \in IntTypes \ {i.ty}
        [] i.op = "gep"     -> ty(1) = "ptr" /\ ty(2) \in IntTypes
        [] i.op = "ptrdiff" -> ty(1) = "ptr" /\ ty(2) = "ptr"
        [] i.op = "condbr"  -> ty(1) = "i1"
        [] i.op = "ret"     -> ty(1) = LlvmType(stmt.ty)
        [] i.op = "phi"     -> ty(1) = "i1" /\ ty(2) = "i1"
        [] i.op = "load"    -> ty(1) = "ptr" /\ i.ty # "void"
        [] i.op = "store"   -> ty(2) = "ptr" /\ ty(1) # "void"
        [] i.op = "call" /\ i.x \in Funs ->
             IF ParamType[i.x] = NoType THEN i.args = <<>>
             ELSE Len(i.args) = 1 /\ ty(1) = LlvmType(ParamType[i.x])
        [] i.op = "call" /\ i.x = "free" -> ty(1) = "ptr"
        [] OTHER -> TRUE

Positions == UNION {{<<b, i>> : i \in DOMAIN blocks[b]} : b \in DOMAIN blocks}

Code(bs) == UNION {{bs[b][i] : i \in DOMAIN bs[b]} : b \in DOMAIN bs}

\* The blocks that branch to b.
Predecessors(bs, b) ==
  {c \in DOMAIN bs : \E i \in DOMAIN bs[c] :
     bs[c][i].op \in {"br", "condbr"} /\ \E j \in DOMAIN bs[c][i].to : bs[c][i].to[j] = b}

\* LLVM's rule for a phi: one value for each block that comes before.
PhiOK(bs, b) ==
  \A i \in DOMAIN bs[b] :
    bs[b][i].op = "phi" =>
      /\ {bs[b][i].to[j] : j \in {1, 2}} = Predecessors(bs, b)
      /\ bs[b][i].to[1] # bs[b][i].to[2]

Sound(bs) == (\A i \in Code(bs) : WellTyped(i)) /\ (\A b \in DOMAIN bs : PhiOK(bs, b))

\* Mutant: a boolean is printed as the number it is.
PrintedAsNumber(ty) ==
  CASE ty \in {"i32", "i1"} -> {"%d"} [] ty = "i8" -> {"%c"} [] OTHER -> {}

\* printf's format, for a value of the type; none for other types.
Printed(ty) ==
  CASE ty = "i32" -> {"%d"} [] ty = "i8" -> {"%c"} [] ty = "i1" -> {"TRUE/FALSE"} [] OTHER -> {}

Library(f, v) == [Instruction("call", "void", <<v>>) EXCEPT !.x = f]

PrintCall(v) == IF Printed(v.ty) = {} THEN <<>>
                ELSE <<Library(CHOOSE f \in Printed(v.ty) : TRUE, v)>>

\* IfNode's and WhileNode's branch (its blocks are CodeGen's business, here it
\* is the end), ReturnNode's return, PrintNode's and DeleteNode's calls, the
\* store of VarInitNode and AssignmentNode. Nothing looks at the result: see
\* CgFinish in CodeGen.
Finished ==
  LET slot == IF stmt.k = "asst" THEN LlvmType(TypeOf[1]) ELSE LlvmType(stmt.ty)
      to   == IF stmt.k = "asst" THEN vals[1] ELSE Alloca(Target, slot)
      v    == IF stmt.k = "asst" THEN vals[2] ELSE vals[1]
      c    == IF stmt.k = "cond" THEN AsBool(v) ELSE AsStored(v, slot)
  IN  CASE stmt.k = "expr"   -> Emit(<<>>)
        [] stmt.k = "print"  -> Emit(PrintCall(v))
        [] stmt.k = "delete" -> Emit(<<Library("free", v)>>)
        [] stmt.k = "return" -> Emit(<<Instruction("ret", "void", <<v>>)>>)
        [] stmt.k = "cond"   -> Emit(Append(c.is, CondBr(c.v, 0, 0)))
        [] OTHER -> Emit(Append(c.is, Instruction("store", "void", <<c.v, to>>)))

Finish ==
  /\ Doing("finish")
  /\ blocks' = Finished
  /\ phase' = IF Sound(Finished) THEN "run" ELSE "malformed"
  /\ todo' = <<>> /\ vals' = <<>>
  /\ UNCHANGED <<stmt, expr, need, cur>>

-------------------------------------------------------------------------------

LowerInit ==
  /\ ExprInit
  /\ todo = <<>> /\ vals = <<>> /\ blocks = <<>> /\ cur = 0

Front == (Grow \/ ExprDone \/ ExprTypeCheck) /\ UNCHANGED <<todo, vals, blocks, cur>>

LowerNext ==
  \/ Front
  \/ Start \/ VisitOperand \/ VisitID \/ VisitCall \/ VisitOperator \/ VisitLogical
  \/ LValue \/ LValueField
  \/ CloseBinary \/ ClosePointerPlus \/ ClosePointerSub \/ CloseUnary \/ CloseLoad
  \/ CloseStep \/ CloseArgument \/ LogicalBetween \/ LogicalMerge
  \/ Finish

LowerSpec == LowerInit /\ [][LowerNext]_lowerVars

-------------------------------------------------------------------------------
(* What TypeChecker's acceptance is worth to CodeGen.                      *)

Within == 1 .. Len(expr)

\* CodeGen lowers a boolean expression to an int: && and ||, and ! of those.
AsInt[n \in Nat] == expr[n].op \in Logical \/ (expr[n].op = "NOT" /\ AsInt[n + 1])

\* get_LValue has an address for it.
HasAddress[n \in Nat] ==
  expr[n].op \in {"ID", "AT", "ARROW"} \/ (expr[n].op = "DOT" /\ HasAddress[n + 1])

\* The nodes get_LValue is asked about.
Addressed ==
  {n + 1 : n \in {m \in Within : expr[m].op \in Steps \cup {"ADDR", "DOT"}}}
  \cup (IF stmt.k = "asst" THEN {1} ELSE {})

\* The address (or the pointer, if not addr) is an alloca or a getelementptr,
\* which say what they point at.
SaysType[n \in Nat, addr \in BOOLEAN] ==
  IF addr THEN \/ expr[n].op \in {"ID"} \cup Member
               \/ expr[n].op = "AT" /\ SaysType[n + 1, FALSE]
          ELSE \/ expr[n].op = "PLUS"
               \/ expr[n].op = "ADDR" /\ SaysType[n + 1, TRUE]

\* nil is of no pointer type: there is nothing to load or count from it.
NilUsed ==
  \E n \in Within :
    \/ expr[n].op = "AT" /\ TypeOf[n + 1] = PtrTo(NoType)
    \/ expr[n].op \in Additive /\ TypeOf[n] = PtrTo(NoType)

\* CodeGen throws on an expression that TypeChecker accepted only where
\* is_lvalue and get_LValue disagree about what has an address, where ++ or --
\* meets a bare pointer's target, or on nil (CodeGen::get_LValue, and
\* visit of UnaryExprNode and BinaryExprNode).
FailsOnlyWithoutAddress ==
  phase = "failed" =>
    \/ \E n \in Addressed : ~HasAddress[n]
    \/ \E n \in Within : expr[n].op \in Steps /\ ~SaysType[n + 1, TRUE]
    \/ NilUsed

\* The instructions are well typed and every phi knows its block's
\* predecessors, however && and || nest, except where the type checker lets
\* through a pointer subtraction, a condition that is no int, char or boolean,
\* a call without its argument, or an int in place of a boolean.
MalformedOnlyIfUnchecked ==
  phase = "malformed" =>
    \/ \E n \in Within : expr[n].op = "SUB" /\ IsPointer(TypeOf[n])
    \/ stmt.k = "cond" /\ TypeOf[1] \notin Basic /\
         ~(expr[1].op \in Steps /\ TypeOf[2] = TYPE_INT)
    \/ \E n \in Within : expr[n].op = "CALL" /\ ParamType[expr[n].x] # NoType
    \/ \E n \in Within : expr[n].op = "ARG" /\ AsInt[n + 1]
    \/ stmt.k = "return" /\ AsInt[1]

\* A phi lists exactly the blocks that come to its own, in every function that
\* is generated (the blocks captured in CodeGen::visit of BinaryExprNode).
PhisMatchPredecessors ==
  phase \in {"run", "malformed"} => \A b \in DOMAIN blocks : PhiOK(blocks, b)

\* A call in the source is generated once, whatever the expression around it,
\* except in an operand of ++ or --, which is visited for its value and again
\* for its address (CodeGen::visit of UnaryExprNode, codegen.cpp:866 and 885).
CallsGeneratedOnce ==
  phase \in {"run", "malformed"} =>
    \A n \in Within :
      expr[n].op \in {"CALL", "ARG"} /\ (\A m \in 1 .. n - 1 : expr[m].op \in Steps => LastOf[m] < n)
        => Cardinality({c \in Positions : blocks[c[1]][c[2]].op = "call" /\ blocks[c[1]][c[2]].n = n}) = 1

\* + and - count in what the pointer's type points at, whichever operand it is;
\* ++ and --, which ask the address for the type, find the one that TypeChecker
\* gave - but count in that type and not in what it points at (codegen.cpp:924):
\* p++ and p + 1 agree on pointers to pointers only. (visit of BinaryExprNode
\* and UnaryExprNode.)
PointersCountElements ==
  \A i \in Code(blocks) :
    i.op \in {"gep", "ptrdiff", "PLUS"} /\ i.n # 0 =>
      LET t == TypeOf[IF expr[i.n].op \in Steps \/ IsPointer(TypeOf[i.n + 1])
                      THEN i.n + 1 ELSE Second(i.n)]
      IN  i.x = LlvmType(IF expr[i.n].op \in Steps THEN t ELSE SubSeq(t, 1, Len(t) - 1))

\* print shows a value as one of its type - except for && and ||, and ! of them,
\* which it shows as numbers, and pointers, which it does not show at all: it
\* asks for the width, not the type (PrintNode, codegen.cpp:428-446).
PrintsByType ==
  phase = "run" /\ stmt.k = "print" =>
    LET printed == {i.x : i \in {j \in Code(blocks) : j.op = "call" /\ j.n = 0}}
    IN  CASE AsInt[1] \/ TypeOf[1] = TYPE_INT -> printed = {"%d"}
          [] TypeOf[1] = TYPE_CHAR -> printed = {"%c"}
          [] TypeOf[1] = TYPE_BOOL -> printed = {"TRUE/FALSE"}
          [] OTHER                 -> printed = {}

\* "char@ string = new char [14];" (README.md:42) and the 14 characters that the
\* program goes on to write there (43-56): what new allocates has room for as
\* many values as it was asked for.
AllocationsHoldTheirElements ==
  \A i \in Code(blocks) :
    i.op = "call" /\ i.x = "malloc" /\ <<expr[i.n].x>> \in Basic =>
      i.args[1].i >= expr[i.n].size * AllocSize(LlvmType(<<expr[i.n].x>>))

\* The type of what the variable or the procedure's caller gets.
ResultType ==
  CHOOSE ty \in {i.args[1].ty : i \in {j \in Code(blocks) : j.op = "ret" \/
                   (j.op = "store" /\ j.args[2].src = "alloca" /\ j.args[2].x = Target)}} : TRUE

\* "so it plays nicely with the rest of your typed expressions"
\* (codegen.cpp:697): what is stored or returned has the type declared.
ResultsHaveTheirType ==
  phase \in {"run", "malformed"} /\ stmt.k \in {"init", "return"} =>
    ResultType = LlvmType(stmt.ty)

===============================================================================
