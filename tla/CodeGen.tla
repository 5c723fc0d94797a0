------------------------------- MODULE CodeGen --------------------------------
(***************************************************************************)
(* class CodeGen (visitors/codegen.cpp) on one procedure that TypeChecker  *)
(* accepted: the walk that emits the basic blocks of an LLVM function.     *)
(*                                                                         *)
(* The function's blocks are a sequence in the order they are created; the *)
(* IRBuilder's insertion point is a position in it. An instruction is      *)
(*   eff   the loads and stores of a statement, with the variables they    *)
(*         are of: the node of the alloca's declaration, 0 for a global    *)
(*   br    and condbr, with the blocks they go to                          *)
(*   ret                                                                   *)
(* Allocas go to the head of the entry block wherever they are made, so    *)
(* they are not instructions here: a declaration's node stands for its     *)
(* alloca. What visit(BlockNode), visit(IfNode), visit(WhileNode) and      *)
(* visit(ForNode) keep in C++ locals while they visit a block is a frame.  *)
(***************************************************************************)
EXTENDS TypeCheck

VARIABLES
  cgPc,             \* the node about to be visited
  blocks,           \* the blocks of the function
  cur,              \* Builder.GetInsertBlock()
  named_values,     \* the alloca each local name stands for
  loop_end_blocks,  \* where a break goes, innermost loop last
  frames            \* the locals of the visits that are under way

cgVars == <<cgPc, blocks, cur, named_values, loop_end_blocks, frames>>
vars   == <<tcVars, cgVars>>

NoNames == [x \in Ids |-> None]

-------------------------------------------------------------------------------
(* LLVM as the code uses it: BasicBlock, IRBuilder.                        *)

\* BasicBlock::Create(name), with the function (placed) or without.
NewBlock(name, placed) == [name |-> name, node |-> cgPc, placed |-> placed, ins |-> <<>>]

Emit(bs, b, i) == [bs EXCEPT ![b].ins = Append(@, i)]

\* getBasicBlockList().push_back(b)
Place(bs, b) == [bs EXCEPT ![b].placed = TRUE]

Instruction(op, n, role, addr, to) ==
  [op |-> op, n |-> n, role |-> role, addr |-> addr, to |-> to]

NoAddr == [r \in Roles |-> None]

Br(n, b)           == Instruction("br", n, "do", NoAddr, <<b>>)
CondBr(n, a, b, c) == Instruction("condbr", n, "do", [NoAddr EXCEPT !.cd = a], <<b, c>>)
Ret(n, a)          == Instruction("ret", n, "do", [NoAddr EXCEPT !.rd = a], <<>>)

Terminators == {"br", "condbr", "ret"}

\* BasicBlock::getTerminator() looks at the last instruction only.
HasTerminator(b) == b.ins # <<>> /\ b.ins[Len(b.ins)].op \in Terminators

\* if (!GetInsertBlock()->getTerminator()) CreateBr(b)
BrIfOpen(bs, c, n, b) == IF HasTerminator(bs[c]) THEN bs ELSE Emit(bs, c, Br(n, b))

-------------------------------------------------------------------------------
(* Names.                                                                  *)

\* get_LValue(IDNode): named_values, then the module's globals, then nullptr.
Address(nv, x) ==
  CASE x \notin Ids -> None
    [] x \in Ids    -> IF nv[x] # None THEN nv[x] ELSE IF x \in Globals THEN 0 ELSE None

\* IDNode throws when there is no address to load from.
Loads(nv, x) == x \in Ids => Address(nv, x) # None

\* DeclarationNode and ProcedureNode: named_values[id] = alloca.
Bind(nv, x, n) == [nv EXCEPT ![x] = n]

\* VarInitNode: named_values.insert, which leaves a name that is there alone.
Insert(nv, x, n) == IF nv[x] = None THEN Bind(nv, x, n) ELSE nv

-------------------------------------------------------------------------------
(* Steps of the walk.                                                      *)

Here == ast[cgPc]

CgAt(kinds) ==
  phase = "codegen" /\ blocks # <<>> /\ cgPc <= Len(ast) /\ Here.k \in kinds

Proceed(ok, bs, c, nv) ==
  /\ ok
  /\ blocks' = bs
  /\ cur' = c
  /\ named_values' = nv
  /\ cgPc' = cgPc + 1
  /\ UNCHANGED tcVars

Fail(ok) ==
  /\ ~ok
  /\ phase' = "failed"
  /\ UNCHANGED <<ast, nest, tcPc, table, attributes, cgVars>>

\* The loads and stores of a statement at node n.
Effect(n, role, id, rd) ==
  Instruction("eff", n, role, [NoAddr EXCEPT !.id = id, !.rd = rd], <<>>)

\* ProcedureNode creates the function and its entry block.
CgEntry ==
  /\ phase = "codegen" /\ blocks = <<>>
  /\ blocks' = <<NewBlock("entry", TRUE)>>
  /\ cur' = 1
  /\ UNCHANGED <<tcVars, cgPc, named_values, loop_end_blocks, frames>>

CgParam ==
  /\ CgAt({"param"})
  /\ Proceed(TRUE, Emit(blocks, cur, Effect(cgPc, "do", cgPc, None)), cur,
             Bind(named_values, Here.id, cgPc))
  /\ UNCHANGED <<loop_end_blocks, frames>>

CgDeclaration ==
  /\ CgAt({"decl"})
  /\ Proceed(TRUE, blocks, cur, Bind(named_values, Here.id, cgPc))
  /\ UNCHANGED <<loop_end_blocks, frames>>

\* VarInitNode: the value is stored through the new alloca, whatever the name
\* is bound to.
Initialised(bs, nv, v) == Emit(bs, cur, Effect(cgPc, "do", cgPc, Address(nv, v.rd)))

CgVarInit ==
  LET v  == Here
      nv == Insert(named_values, v.id, cgPc)
      ok == Loads(nv, v.rd)
  IN  /\ CgAt({"init"})
      /\ \/ Proceed(ok, Initialised(blocks, nv, v), cur, nv)
            /\ UNCHANGED <<loop_end_blocks, frames>>
         \/ Fail(ok)

\* AssignmentNode: the right side first. A left side that names nothing is
\* passed over in silence; one that TypeChecker never came to has no type,
\* and get_LLVM_type throws.
AssignmentStores(nv, v) == Address(nv, v.id) # None

AssignmentGenerates(nv, v) ==
  Loads(nv, v.rd) /\ (AssignmentStores(nv, v) => ~AfterReturn(cgPc))

Assigned(nv, v) ==
  IF AssignmentStores(nv, v)
  THEN Emit(blocks, cur, Effect(cgPc, "do", Address(nv, v.id), Address(nv, v.rd)))
  ELSE blocks

CgAssignment ==
  LET v  == Here
      ok == AssignmentGenerates(named_values, v)
  IN  /\ CgAt({"asst"})
      /\ \/ Proceed(ok, Assigned(named_values, v), cur, named_values)
            /\ UNCHANGED <<loop_end_blocks, frames>>
         \/ Fail(ok)

\* An expression statement, PrintNode and DeleteNode.
CgExpression ==
  LET v  == Here
      ok == Loads(named_values, v.rd)
  IN  /\ CgAt({"expr", "print", "delete"})
      /\ \/ /\ Proceed(ok, Emit(blocks, cur,
                             Effect(cgPc, "do", None, Address(named_values, v.rd))),
                       cur, named_values)
            /\ UNCHANGED <<loop_end_blocks, frames>>
         \/ Fail(ok)

CgReturn ==
  LET v  == Here
      ok == Loads(named_values, v.rd)
  IN  /\ CgAt({"return"})
      /\ \/ /\ Proceed(ok, Emit(blocks, cur, Ret(cgPc, Address(named_values, v.rd))),
                       cur, named_values)
            /\ UNCHANGED <<loop_end_blocks, frames>>
         \/ Fail(ok)

\* Mutant: a break leaves the outermost loop.
BreakBlockOutermost(loops) == loops[1]

BreakBlock(loops) == loops[Len(loops)]

CgBreak ==
  LET ok == loop_end_blocks # <<>>
  IN  /\ CgAt({"break"})
      /\ \/ /\ Proceed(ok, Emit(blocks, cur, Br(cgPc, BreakBlock(loop_end_blocks))),
                       cur, named_values)
            /\ UNCHANGED <<loop_end_blocks, frames>>
         \/ Fail(ok)

-------------------------------------------------------------------------------
(* If trees.                                                               *)

Top == frames[Len(frames)]

\* Mutant: the names a block declares outlive it.
RestoredNever == named_values

\* BlockNode: named_values = old_named_values.
Restored == Top.saved

Frame(saved, outer, cond, next, end) ==
  [node |-> cgPc, saved |-> saved, outer |-> outer,
   cond |-> cond, next |-> next, end |-> end]

\* it == a.clauses.end() - 1: the block that opens at n is the tree's last.
IsLastClause(n) == ast[BodyEnd(n)].k = "end"

\* A clause with a condition, evaluated in block b of bs: its then block, the
\* block of the next clause, and the branch between them.
ThenBlock(bs) == Len(bs) + 1

NextBlock(bs, merge) == IF IsLastClause(cgPc) THEN merge ELSE Len(bs) + 2

ClauseBlocks(bs, b, merge, nv) ==
  LET more == IF IsLastClause(cgPc) THEN <<>>
                                    ELSE <<NewBlock("elif_fallthrough", FALSE)>>
  IN  Emit(bs \o <<NewBlock("then", TRUE)>> \o more, b,
           CondBr(cgPc, Address(nv, Here.cd),
                  ThenBlock(bs), NextBlock(bs, merge)))

CgIf ==
  LET merge == Len(blocks) + 1
      bs    == Append(blocks, NewBlock("if_merge", FALSE))
      ok    == Loads(named_values, Here.cd)
  IN  /\ CgAt({"if"})
      /\ \/ /\ Proceed(ok, ClauseBlocks(bs, cur, merge, named_values), ThenBlock(bs), named_values)
            /\ frames' = Append(frames, Frame(named_values, NoNames, 0,
                                              NextBlock(bs, merge), merge))
            /\ UNCHANGED loop_end_blocks
         \/ Fail(ok)

\* The clause before is finished, and the insertion point moves to the block
\* its condition falls through to.
ClauseEnded == Place(BrIfOpen(blocks, cur, Top.node, Top.end), Top.next)

CgElif ==
  LET bs == ClauseEnded
      ok == Loads(Restored, Here.cd)
  IN  /\ CgAt({"elif"})
      /\ \/ /\ Proceed(ok, ClauseBlocks(bs, Top.next, Top.end, Restored), ThenBlock(bs), Restored)
            /\ frames' = [frames EXCEPT ![Len(frames)].next = NextBlock(bs, Top.end)]
            /\ UNCHANGED loop_end_blocks
         \/ Fail(ok)

CgElse ==
  /\ CgAt({"else"})
  /\ Proceed(TRUE, ClauseEnded, Top.next, Restored)
  /\ UNCHANGED <<loop_end_blocks, frames>>

\* Mutant: the merge block never joins the function.
IfEndedUnplaced == BrIfOpen(blocks, cur, Top.node, Top.end)

IfEnded == Place(BrIfOpen(blocks, cur, Top.node, Top.end), Top.end)

PopFrame == frames' = SubSeq(frames, 1, Len(frames) - 1)

CgEndIf ==
  /\ CgAt({"end"}) /\ ast[Top.node].k = "if"
  /\ Proceed(TRUE, IfEnded, Top.end, Restored)
  /\ PopFrame
  /\ UNCHANGED loop_end_blocks

-------------------------------------------------------------------------------
(* Loops.                                                                  *)

CgWhile ==
  LET cond == Len(blocks) + 1
      body == Len(blocks) + 2
      end  == Len(blocks) + 3
      ok   == Loads(named_values, Here.cd)
      bs   == Emit(blocks \o <<NewBlock("while_cond", TRUE), NewBlock("while_body", TRUE),
                               NewBlock("while_after", TRUE)>>, cur, Br(cgPc, cond))
  IN  /\ CgAt({"while"})
      /\ \/ /\ Proceed(ok, Emit(bs, cond, CondBr(cgPc, Address(named_values, Here.cd),
                                                  body, end)),
                       body, named_values)
            /\ frames' = Append(frames, Frame(named_values, NoNames, cond, cond, end))
            /\ loop_end_blocks' = Append(loop_end_blocks, end)
         \/ Fail(ok)

\* The prologue is generated before the loop's blocks; nv is what it leaves.
ForBlocks(bs, nv) ==
  LET cond == Len(bs) + 1
      made == bs \o <<NewBlock("for_cond", TRUE), NewBlock("for_body", TRUE),
                      NewBlock("for_inc", TRUE), NewBlock("for_after", TRUE)>>
  IN  Emit(Emit(made, cur, Br(cgPc, cond)),
           cond, CondBr(cgPc, Address(nv, Here.cd), cond + 1, cond + 3))

EnterFor(ok, bs, nv) ==
  LET cond == Len(bs) + 1
  IN  /\ Proceed(ok, ForBlocks(bs, nv), cond + 1, nv)
      /\ frames' = Append(frames, Frame(nv, named_values, cond, cond + 2, cond + 3))
      /\ loop_end_blocks' = Append(loop_end_blocks, cond + 3)

CgForDeclaration ==
  LET v  == Here
      nv == Insert(named_values, v.id, cgPc)
      ok == Loads(nv, v.rd) /\ Loads(nv, v.cd)
  IN  /\ CgAt({"fordcl"})
      /\ EnterFor(ok, Initialised(blocks, nv, v), nv) \/ Fail(ok)

CgForAssignment ==
  LET v  == Here
      ok == AssignmentGenerates(named_values, v) /\ Loads(named_values, v.cd)
  IN  /\ CgAt({"forasst"})
      /\ EnterFor(ok, Assigned(named_values, v), named_values) \/ Fail(ok)

PopLoop == loop_end_blocks' = SubSeq(loop_end_blocks, 1, Len(loop_end_blocks) - 1)

CgEndWhile ==
  /\ CgAt({"end"}) /\ ast[Top.node].k = "while"
  /\ Proceed(TRUE, BrIfOpen(blocks, cur, Top.node, Top.cond), Top.end, Restored)
  /\ PopFrame /\ PopLoop

\* Mutant: the increment block goes straight back to the body.
ForEndedNoCond(bs, v) ==
  Emit(Emit(BrIfOpen(bs, cur, Top.node, Top.next),
            Top.next, Effect(Top.node, "ep", None, Address(Restored, v.ep))),
       Top.next, Br(Top.node, Top.cond + 1))

\* The body goes to the increment block, which evaluates the epilogue in the
\* loop's names and goes back to the condition.
ForEnded(bs, v) ==
  Emit(Emit(BrIfOpen(bs, cur, Top.node, Top.next),
            Top.next, Effect(Top.node, "ep", None, Address(Restored, v.ep))),
       Top.next, Br(Top.node, Top.cond))

CgEndFor ==
  LET v  == ast[Top.node]
      ok == Loads(Restored, v.ep)
  IN  /\ CgAt({"end"}) /\ v.k \in {"fordcl", "forasst"}
      /\ \/ Proceed(ok, ForEnded(blocks, v), Top.end, Top.outer) /\ PopFrame /\ PopLoop
         \/ Fail(ok)

-------------------------------------------------------------------------------
(* The end of the function.                                                *)

\* LLVM's rule for a block: one terminator, at its end.
BlockOK(b) ==
  HasTerminator(b) /\ \A i \in 1 .. Len(b.ins) - 1 : b.ins[i].op \notin Terminators

\* A function whose blocks that a branch can reach are all placed and sound.
WellFormed(bs) ==
  \A b \in DOMAIN bs :
    /\ bs[b].placed /\ BlockOK(bs[b])
    /\ \A i \in DOMAIN bs[b].ins : \A j \in DOMAIN bs[b].ins[i].to :
         bs[bs[b].ins[i].to[j]].placed

\* Missing returns: an implicit one, unless the value would be a struct.
\* Nothing looks at the result: optimize() and print_ir() run on whatever it
\* is. "malformed" is what they make of a function that LLVM does not accept.
CgFinish ==
  LET ended == HasTerminator(blocks[cur])
      ok    == ended \/ ReturnType \notin StructTypes
      bs    == IF ended THEN blocks ELSE Emit(blocks, cur, Ret(cgPc, None))
  IN  /\ phase = "codegen" /\ blocks # <<>> /\ cgPc > Len(ast)
      /\ \/ /\ ok
            /\ blocks' = bs
            /\ named_values' = NoNames
            /\ phase' = IF WellFormed(bs) THEN "run" ELSE "malformed"
            /\ UNCHANGED <<ast, nest, tcPc, table, attributes, cgPc, cur,
                           loop_end_blocks, frames>>
         \/ Fail(ok)

-------------------------------------------------------------------------------

CgInit ==
  /\ cgPc = 1 /\ blocks = <<>> /\ cur = 0
  /\ named_values = NoNames /\ loop_end_blocks = <<>> /\ frames = <<>>

CgVisit ==
  \/ CgEntry \/ CgParam \/ CgDeclaration \/ CgVarInit \/ CgAssignment \/ CgExpression
  \/ CgReturn \/ CgBreak \/ CgIf \/ CgElif \/ CgElse \/ CgEndIf
  \/ CgWhile \/ CgForDeclaration \/ CgForAssignment \/ CgEndWhile \/ CgEndFor
  \/ CgFinish

CgNext == (TcNext /\ UNCHANGED cgVars) \/ CgVisit

CgSpec == TcInit /\ CgInit /\ [][CgNext]_vars

-------------------------------------------------------------------------------
(* What the walk guarantees.                                               *)

\* The instructions emitted so far.
Instructions == UNION {{blocks[b].ins[i] : i \in 1 .. Len(blocks[b].ins)} : b \in 1 .. Len(blocks)}

\* The declaration in the source that an instruction's operand is of.
SourceName(i, r) ==
  IF i.role = "ep" THEN ast[i.n].ep ELSE ast[i.n][r]

\* An operand of live code that is a use of a variable.
IsUse(i, r) ==
  /\ i.n <= Len(ast) /\ i.op # "br" /\ ~AfterReturn(i.n)
  /\ i.addr[r] # None
  /\ ~(r = "id" /\ ast[i.n].k \in Declarers)

\* An initialised declaration of a name that is bound already: Insert leaves
\* the name bound to the variable around it.
ShadowingInit(m) ==
  ast[m].k \in {"init", "fordcl"} /\ InScope(ast[m].id, m) # {m}

\* Generated code uses the variable that the block structure makes a name
\* mean, out of all those of the same name, unless an initialised declaration
\* of it in scope there shadows another (CodeGen::visit of BlockNode, ForNode,
\* DeclarationNode and IDNode).
UsesReachTheirVariable ==
  \A i \in Instructions : \A r \in Roles :
    IsUse(i, r) /\ (\A m \in InScope(SourceName(i, r), i.n) : ~ShadowingInit(m))
      => i.addr[r] = Meant(SourceName(i, r), i.n)

\* The same without the exception: TypeChecker annotates each use with the
\* declaration of its own block (sample_program.xerp:164, where c in the else
\* clause is the int at -20), and CodeGen generates code for that one.
PassesAgreeOnVariables ==
  \A i \in Instructions : \A r \in Roles :
    IsUse(i, r) =>
      i.addr[r] = SymbolNode(offset[i.n][IF i.role = "ep" THEN "ep" ELSE r])

\* A break that TypeChecker resolved goes to the block after that very loop.
BreaksAgree ==
  \A i \in Instructions :
    i.op = "br" /\ i.n <= Len(ast) /\ ast[i.n].k = "break" /\ ~AfterReturn(i.n) =>
      /\ blocks[i.to[1]].node = loop_target[i.n]
      /\ blocks[i.to[1]].name \in {"while_after", "for_after"}

\* What TypeChecker accepted CodeGen can generate: it throws only in code
\* that TypeChecker passed over, or for want of a struct to return.
FailsOnlyUnchecked ==
  phase = "failed" =>
    IF cgPc <= Len(ast) THEN AfterReturn(cgPc) ELSE ReturnType \in StructTypes

\* The function is well-formed LLVM IR - every block placed, with exactly one
\* terminator, at its end - unless the source has statements after a break or
\* a return in the same block.
MalformedOnlyAfterJump ==
  phase = "malformed" => \E n \in 1 .. Len(ast) : AfterJump(n)

\* "early return" (README.md:13): a function may return before its last
\* statement, and is generated as well-formed IR all the same.
EarlyReturnWellFormed == phase # "malformed"

\* b is in every set of blocks that has the entry and all its successors.
Reachable(b) ==
  \A S \in SUBSET (1 .. Len(blocks)) :
    /\ 1 \in S
    /\ \A c \in S : \A i \in DOMAIN blocks[c].ins :
         \A j \in DOMAIN blocks[c].ins[i].to : blocks[c].ins[i].to[j] \in S
    => b \in S

\* "Missing return statement" (codegen.cpp:218) is said only of a procedure
\* that some path can leave without returning.
MissingReturnIsReachable ==
  phase = "failed" /\ cgPc > Len(ast) => Reachable(cur)

===============================================================================
