------------------------------- MODULE TypeCheck -------------------------------
(***************************************************************************)
(* class TypeChecker (visitors/typecheck.cpp) on one procedure: the walk   *)
(* that declares the variables in the procedure's SymbolTable, resolves    *)
(* every use of one, and writes what it found into the nodes.              *)
(*                                                                         *)
(* tcPc is the node the walk has come to. Each visit method is one action; *)
(* the part of IfNode's, WhileNode's and ForNode's after a block is the    *)
(* action of the marker that ends the block. A throw ends the compilation: *)
(* the tree it leaves half annotated is never looked at again.             *)
(***************************************************************************)
EXTENDS Ast, SymbolTable

VARIABLES
  tcPc,           \* the node about to be visited
  table,          \* ProcedureNode::symbol_table
  frame_offset,   \* DeclarationNode::frame_offset, of every declaring node
  offset,         \* IDNode::offset, of every operand of every node
  loop_target     \* BreakNode::loop_target, 0 for nullptr

attributes == <<frame_offset, offset, loop_target>>
tcVars == <<phase, ast, nest, tcPc, table, frame_offset, offset, loop_target>>

\* The operands of a node: the name it assigns, what it reads, its condition,
\* what its for epilogue evaluates.
Roles == {"id", "rd", "cd", "ep"}

Visited == ast[tcPc]

At(kinds) == phase = "typecheck" /\ tcPc <= Len(ast) /\ Visited.k \in kinds

-------------------------------------------------------------------------------
(* Operands.                                                               *)

\* IDNode: the variable is local, or else global, or else an error.
Resolves(t, x) == x \in Ids => Known(t, x) \/ x \in Globals

TypeOf(t, x) ==
  CASE x = Lit     -> IntType
    [] Known(t, x) -> LookupVariable(t, x).type
    [] OTHER       -> GlobalType[x]

\* IDNode::offset is 1 unless a local variable was found.
OffsetOf(t, x) ==
  IF x \in Ids /\ Known(t, x) THEN LookupVariable(t, x).frame_offset ELSE 1

Assignable(t, ty, x) == Resolves(t, x) /\ TypeOf(t, x) = ty

-------------------------------------------------------------------------------
(* Steps of the walk.                                                      *)

Annotate(t, roles) ==
  offset' = [offset EXCEPT ![tcPc] =
               [r \in Roles |-> IF r \in roles THEN OffsetOf(t, Visited[r]) ELSE @[r]]]

GoOn(ok, t, next) ==
  /\ ok
  /\ table' = t
  /\ tcPc' = next
  /\ UNCHANGED <<phase, ast, nest>>

Reject(ok) ==
  /\ ~ok
  /\ phase' = "rejected"
  /\ UNCHANGED <<ast, nest, tcPc, table, attributes>>

\* ProcedureNode: the parameters are the first symbols of the procedure's own
\* scope. DeclarationNode::frame_offset of each is its size, and once all of
\* them are declared the size of them all is added.
ParamSize[n \in Nat] ==
  IF n = 0 THEN 0 ELSE ParamSize[n - 1] + SizeOf[ast[n].ty]

IsLastParam(n) == n = Len(ast) \/ ast[n + 1].k # "param"

TcParam ==
  LET v  == Visited
      ok == CanDeclare(table, v.id)
  IN  /\ At({"param"})
      /\ \/ /\ GoOn(ok, DeclareVariable(table, v.id, v.ty), tcPc + 1)
            /\ frame_offset' =
                 LET placed == [frame_offset EXCEPT ![tcPc] = SizeOf[v.ty]]
                 IN  IF IsLastParam(tcPc)
                     THEN [n \in DOMAIN placed |->
                             IF n <= tcPc THEN placed[n] + ParamSize[tcPc] ELSE placed[n]]
                     ELSE placed
            /\ UNCHANGED <<offset, loop_target>>
         \/ Reject(ok)

\* DeclarationNode: declared in the current scope, unless it is there already.
TcDeclaration ==
  LET v  == Visited
      ok == CanDeclare(table, v.id)
      t  == DeclareVariable(table, v.id, v.ty)
  IN  /\ At({"decl"})
      /\ \/ /\ GoOn(ok, t, tcPc + 1)
            /\ frame_offset' =
                 [frame_offset EXCEPT ![tcPc] = LookupVariable(t, v.id).frame_offset]
            /\ UNCHANGED <<offset, loop_target>>
         \/ Reject(ok)

\* VarInitNode: the declaration first, so that its value may name it.
TcVarInit ==
  LET v  == Visited
      t  == DeclareVariable(table, v.id, v.ty)
      ok == CanDeclare(table, v.id) /\ Assignable(t, v.ty, v.rd)
  IN  /\ At({"init"})
      /\ \/ /\ GoOn(ok, t, tcPc + 1)
            /\ frame_offset' =
                 [frame_offset EXCEPT ![tcPc] = LookupVariable(t, v.id).frame_offset]
            /\ Annotate(t, {"rd"})
            /\ UNCHANGED loop_target
         \/ Reject(ok)

AssignmentOk(t, v) == Resolves(t, v.id) /\ Assignable(t, TypeOf(t, v.id), v.rd)

TcAssignment ==
  LET ok == AssignmentOk(table, Visited)
  IN  /\ At({"asst"})
      /\ \/ /\ GoOn(ok, table, tcPc + 1)
            /\ Annotate(table, {"id", "rd"})
            /\ UNCHANGED <<frame_offset, loop_target>>
         \/ Reject(ok)

\* An expression, print or delete statement.
OperandOk(t, v) ==
  /\ Resolves(t, v.rd)
  /\ v.k = "print"  => TypeOf(t, v.rd) \notin StructTypes
  /\ v.k = "delete" => TypeOf(t, v.rd) \in PtrTypes

TcExpression ==
  LET ok == OperandOk(table, Visited)
  IN  /\ At({"expr", "print", "delete"})
      /\ \/ /\ GoOn(ok, table, tcPc + 1)
            /\ Annotate(table, {"rd"})
            /\ UNCHANGED <<frame_offset, loop_target>>
         \/ Reject(ok)

\* ReturnNode: a value of the procedure's type, or none when it is void.
ReturnOk(t, v) ==
  IF v.rd = None THEN ReturnType = None
                 ELSE ReturnType # None /\ Assignable(t, ReturnType, v.rd)

\* Mutant: a return ends the walk of the whole procedure.
AfterReturnStops(n) == Len(ast) + 1

\* BlockNode stops visiting its statements at the first return.
AfterReturnStatement(n) == BlockEnd(n)

TcReturn ==
  LET ok == ReturnOk(table, Visited)
  IN  /\ At({"return"})
      /\ \/ /\ GoOn(ok, table, AfterReturnStatement(tcPc))
            /\ Annotate(table, {"rd"})
            /\ UNCHANGED <<frame_offset, loop_target>>
         \/ Reject(ok)

-------------------------------------------------------------------------------
(* Statements with blocks, and break.                                      *)

\* IfNode: a condition is resolved in the scope around the if tree, and each
\* clause's block has a scope of its own. WhileNode does the same.
TcBranch ==
  LET ok == Resolves(table, Visited.cd)
  IN  /\ At({"if", "while"})
      /\ \/ /\ GoOn(ok, EnterScope(table), tcPc + 1)
            /\ Annotate(table, {"cd"})
            /\ UNCHANGED <<frame_offset, loop_target>>
         \/ Reject(ok)

TcClause ==
  LET v  == Visited
      t  == ExitScope(table)
      ok == v.k = "elif" => Resolves(t, v.cd)
  IN  /\ At(Clauses)
      /\ \/ /\ GoOn(ok, EnterScope(t), tcPc + 1)
            /\ IF v.k = "elif" THEN Annotate(t, {"cd"}) ELSE UNCHANGED offset
            /\ UNCHANGED <<frame_offset, loop_target>>
         \/ Reject(ok)

\* ForNode: one scope holds the prologue, the condition, the epilogue and the
\* block, visited in that order.
TcForDeclaration ==
  LET v  == Visited
      s  == EnterScope(table)
      t  == DeclareVariable(s, v.id, v.ty)
      ok == /\ CanDeclare(s, v.id) /\ Assignable(t, v.ty, v.rd)
            /\ Resolves(t, v.cd) /\ Resolves(t, v.ep)
  IN  /\ At({"fordcl"})
      /\ \/ /\ GoOn(ok, t, tcPc + 1)
            /\ frame_offset' =
                 [frame_offset EXCEPT ![tcPc] = LookupVariable(t, v.id).frame_offset]
            /\ Annotate(t, {"rd", "cd", "ep"})
            /\ UNCHANGED loop_target
         \/ Reject(ok)

TcForAssignment ==
  LET v  == Visited
      s  == EnterScope(table)
      ok == AssignmentOk(s, v) /\ Resolves(s, v.cd) /\ Resolves(s, v.ep)
  IN  /\ At({"forasst"})
      /\ \/ /\ GoOn(ok, s, tcPc + 1)
            /\ Annotate(s, Roles)
            /\ UNCHANGED <<frame_offset, loop_target>>
         \/ Reject(ok)

TcEnd ==
  /\ At({"end"})
  /\ GoOn(TRUE, ExitScope(table), tcPc + 1)
  /\ UNCHANGED attributes

\* BreakNode walks up the parent pointers to the nearest loop.
LoopsAround(n) == {m \in Around(n) : ast[m].k \in Loops}

\* Mutant: the walk stops at the first statement with a block.
EnclosingLoopAny(n) == IF Around(n) = {} THEN 0 ELSE Max(Around(n))

\* Mutant: the walk stops at the outermost loop.
EnclosingLoopOutermost(n) == IF LoopsAround(n) = {} THEN 0 ELSE Min(LoopsAround(n))

EnclosingLoop(n) == IF LoopsAround(n) = {} THEN 0 ELSE Max(LoopsAround(n))

TcBreak ==
  LET target == EnclosingLoop(tcPc)
      ok     == target # 0
  IN  /\ At({"break"})
      /\ \/ /\ GoOn(ok, table, tcPc + 1)
            /\ loop_target' = [loop_target EXCEPT ![tcPc] = target]
            /\ UNCHANGED <<frame_offset, offset>>
         \/ Reject(ok)

\* The procedure's block has been visited.
TcDone ==
  /\ phase = "typecheck" /\ tcPc > Len(ast)
  /\ phase' = "codegen"
  /\ UNCHANGED <<ast, nest, tcPc, table, attributes>>

-------------------------------------------------------------------------------

TcInit ==
  /\ ParseInit
  /\ tcPc = 1
  /\ table = NewTable
  /\ frame_offset = [n \in 1 .. MaxNodes |-> 0]
  /\ offset = [n \in 1 .. MaxNodes |-> [r \in Roles |-> 1]]
  /\ loop_target = [n \in 1 .. MaxNodes |-> 0]

TcVisit ==
  \/ TcParam \/ TcDeclaration \/ TcVarInit \/ TcAssignment \/ TcExpression
  \/ TcReturn \/ TcBranch \/ TcClause \/ TcForDeclaration \/ TcForAssignment
  \/ TcEnd \/ TcBreak \/ TcDone

TcNext ==
  \/ Parse /\ UNCHANGED <<tcPc, table, attributes>>
  \/ TcVisit

TcSpec == TcInit /\ [][TcNext]_tcVars /\ WF_tcVars(TcNext)

-------------------------------------------------------------------------------
(* What the walk guarantees.                                               *)

\* Every variable of the walk has its type.
TypeOK ==
  /\ phase \in Phases
  /\ ast \in Seq(Node)
  /\ nest \in Seq(AllKinds)
  /\ tcPc \in Nat \ {0}
  /\ table \in Table
  /\ frame_offset \in [1 .. MaxNodes -> Int]
  /\ offset \in [1 .. MaxNodes -> [Roles -> Int]]
  /\ loop_target \in [1 .. MaxNodes -> Nat]

\* Whatever the order of scopes and declarations, the table lays out distinct
\* slots, aligned and below one another, and its scopes hold the latest
\* symbols innermost (SymbolTable::declare_variable and lookup_variable).
TableSound == TableOK(table)

\* The blocks around the place the walk has come to, just before node n.
DepthBefore(n) ==
  IF n > Len(ast) THEN 0
  ELSE IF ast[n].k \in Markers THEN ast[n].lvl + 1 ELSE ast[n].lvl

\* The scopes open in the table are the blocks open in the source: no path
\* through if trees, loops and early returns leaves one behind or closes one
\* twice (TypeChecker::visit of IfNode, WhileNode, ForNode and BlockNode).
ScopesMatchBlocks ==
  phase = "typecheck" => Len(table.scopes) = 1 + DepthBefore(tcPc)

\* The declaring node of the symbol at a frame offset; 0 for a global.
\* The parameters are the table's first symbols.
SymbolNode(off) ==
  IF off >= 0 THEN 0
  ELSE LET params == {n \in 1 .. Len(ast) \cap 1 .. Len(table.all_syms) :
                        ast[n].k = "param" /\ table.all_syms[n].frame_offset = off}
       IN  IF params # {} THEN Max(params)
           ELSE CHOOSE n \in 1 .. Len(ast) : frame_offset[n] = off

\* The uses of variables: an operand that is not a declared name.
Uses == {u \in (1 .. Len(ast)) \X Roles :
           /\ ast[u[1]][u[2]] \in Ids
           /\ ~(u[2] = "id" /\ ast[u[1]].k \in Declarers)}

Checked(n) == n < tcPc /\ ~AfterReturn(n)

\* The symbol that TypeChecker finds for a use, by searching a stack of scopes
\* it fills and empties while it walks, is the one that the block structure
\* of the source makes it mean (TypeChecker::visit of IDNode).
UsesResolveLexically ==
  \A u \in Uses :
    Checked(u[1]) => SymbolNode(offset[u[1]][u[2]]) = Meant(ast[u[1]][u[2]], u[1])

\* A condition is rejected only when no declaration of its variable is in
\* scope, and a declaration only when its own block declares the name before
\* it: nothing lingers from blocks that have ended.
RejectsOnlyErrors ==
  phase = "rejected" =>
    /\ Visited.k \in {"if", "elif", "while"} => Meant(Visited.cd, tcPc) = None
    /\ Visited.k \in {"decl", "param"} =>
         \E m \in InScope(Visited.id, tcPc) \ {tcPc} :
           \/ Around(m) = Around(tcPc)
           \/ Around(tcPc) = Around(m) \cup {m}

\* A break that was checked targets the loop that it is in and that no other
\* loop inside contains it (TypeChecker::visit of BreakNode).
BreakTargetsInnermost ==
  \A n \in 1 .. Len(ast) :
    ast[n].k = "break" /\ Checked(n) =>
      LET target == loop_target[n]
      IN  /\ target \in 1 .. n - 1 /\ ast[target].k \in Loops /\ n < BodyEnd(target)
          /\ \A m \in target + 1 .. n - 1 : ast[m].k \in Loops => BodyEnd(m) < n
===============================================================================
