---------------------------------- MODULE Ast ----------------------------------
(***************************************************************************)
(* The body of one procedure, as the parser's reductions build it.         *)
(*                                                                         *)
(* parser.cpp links the nodes of an AST bottom-up, by unique_ptr; TypeChecker *)
(* and CodeGen then walk it in the order of the source text. Here the      *)
(* nodes are written in that order, as a sequence: an opening node (if,    *)
(* while, for), the statements of its block, a marker where the next       *)
(* clause (elif, else) or nothing more (end) follows. lvl is the number of *)
(* blocks around a node, and a marker stands at the level of the statement *)
(* it belongs to.                                                          *)
(*                                                                         *)
(* An expression is an operand: a variable (IDNode) or a literal, Lit.     *)
(* The actions derive every body of at most MaxNodes nodes that the        *)
(* grammar's statement productions allow, one node per action.             *)
(***************************************************************************)
EXTENDS XerTypes, FiniteSetsExt

CONSTANTS
  Lit,         \* a literal: NumNode
  None,        \* no operand, no name, no type: nullptr, or "void"
  Kinds,       \* the kinds of node the programs are made of
  Reads,       \* the operands expressions are made of
  Conds,       \* the operands conditions are made of
  MaxNodes,    \* bound: the nodes of a body, end markers included
  ReturnType   \* ProcedureNode::return_type, None when it is "void"

Loops   == {"while", "fordcl", "forasst"}
Openers == {"if"} \cup Loops
Clauses == {"elif", "else"}
Markers == Clauses \cup {"end"}
Leaves  == {"decl", "init", "asst", "expr", "print", "delete", "break", "return"}
AllKinds == {"param"} \cup Leaves \cup Openers \cup Markers

ASSUME AstAssumption ==
  /\ None \notin Ids \cup Types \cup {Lit} /\ None \notin Nat
  /\ Lit \notin Ids
  /\ Kinds \subseteq AllKinds
  /\ Reads \subseteq Ids \cup {Lit}
  /\ Conds \subseteq Ids \cup {Lit}
  /\ MaxNodes \in Nat
  /\ ReturnType \in Types \cup {None}

VARIABLES
  phase,   \* what main() is doing: see Phases
  ast,     \* the nodes read so far
  nest     \* the kinds of the blocks that are still open

Phases == {"parse", "typecheck", "codegen", "run", "done",  \* main() goes on
           "rejected",    \* the type checker threw: exit code 6
           "failed",      \* the code generator threw: exit code 7
           "malformed"}   \* the IR is not LLVM IR, and nothing checks it

\* A node: its kind, the name and the type it declares or the name it
\* assigns, the operand it reads, its condition, the operand its for
\* epilogue evaluates, and its level.
Node == [k : AllKinds, id : Ids \cup {None}, ty : Types \cup {None},
         rd : Ids \cup {Lit, None}, cd : Ids \cup {Lit, None},
         ep : Ids \cup {Lit, None}, lvl : Nat]

-------------------------------------------------------------------------------
(* What each production gives its node.                                    *)

\* Mutant: every node stands one level too high.
MadeShallow(k, id, ty, rd, cd, ep) ==
  [k |-> k, id |-> id, ty |-> ty, rd |-> rd, cd |-> cd, ep |-> ep, lvl |-> Len(nest) - 1]

Made(k, id, ty, rd, cd, ep) ==
  [k |-> k, id |-> id, ty |-> ty, rd |-> rd, cd |-> cd, ep |-> ep,
   lvl |-> IF k \in Markers THEN Len(nest) - 1 ELSE Len(nest)]

NodesOf(k) ==
  CASE k \in {"param", "decl"} ->
         {Made(k, id, ty, None, None, None) : id \in Ids, ty \in Types}
    [] k = "init" ->
         {Made(k, id, ty, rd, None, None) : id \in Ids, ty \in Types, rd \in Reads}
    [] k = "asst" ->
         {Made(k, id, None, rd, None, None) : id \in Ids, rd \in Reads}
    [] k = "expr" ->      \* a literal alone has no effect and no place here
         {Made(k, None, None, rd, None, None) : rd \in Reads \ {Lit}}
    [] k \in {"print", "delete"} ->
         {Made(k, None, None, rd, None, None) : rd \in Reads}
    [] k = "return" ->
         {Made(k, None, None, rd, None, None) : rd \in Reads \cup {None}}
    [] k \in {"if", "elif", "while"} ->
         {Made(k, None, None, None, cd, None) : cd \in Conds}
    [] k = "fordcl" ->
         {Made(k, id, ty, rd, cd, ep) :
            id \in Ids, ty \in Types, rd \in Reads, cd \in Conds, ep \in Reads \ {Lit}}
    [] k = "forasst" ->
         {Made(k, id, None, rd, cd, ep) :
            id \in Ids, rd \in Reads, cd \in Conds, ep \in Reads \ {Lit}}
    [] OTHER -> {Made(k, None, None, None, None, None)}   \* else, end, break

Room(more) == Len(ast) + Len(nest) + more <= MaxNodes

Add(k) == \E node \in NodesOf(k) : ast' = Append(ast, node)

\* paramlist: every parameter comes before the statements.
ParseParam ==
  /\ phase = "parse" /\ nest = <<>> /\ Room(1)
  /\ "param" \in Kinds /\ \A n \in 1 .. Len(ast) : ast[n].k = "param"
  /\ Add("param")
  /\ UNCHANGED <<phase, nest>>

ParseStatement ==
  /\ phase = "parse" /\ Room(1)
  /\ \E k \in Leaves \cap Kinds : Add(k)
  /\ UNCHANGED <<phase, nest>>

\* IF ( .. ) {, WHILE ( .. ) {, FOR ( .. ; .. ; .. ) {
ParseOpener ==
  /\ phase = "parse" /\ Room(2)
  /\ \E k \in Openers \cap Kinds : Add(k) /\ nest' = Append(nest, k)
  /\ UNCHANGED phase

\* } ELIF ( .. ) { and } ELSE {, after a block of the same if tree.
ParseClause ==
  /\ phase = "parse" /\ Room(1)
  /\ nest # <<>> /\ nest[Len(nest)] \in {"if", "elif"}
  /\ \E k \in Clauses \cap Kinds : Add(k) /\ nest' = [nest EXCEPT ![Len(nest)] = k]
  /\ UNCHANGED phase

ParseEnd ==
  /\ phase = "parse" /\ nest # <<>>
  /\ Add("end")
  /\ nest' = SubSeq(nest, 1, Len(nest) - 1)
  /\ UNCHANGED phase

\* The whole procedure is reduced and parse() returns the root.
ParseDone ==
  /\ phase = "parse" /\ nest = <<>>
  /\ phase' = "typecheck"
  /\ UNCHANGED <<ast, nest>>

ParseInit == phase = "parse" /\ ast = <<>> /\ nest = <<>>

Parse ==
  ParseParam \/ ParseStatement \/ ParseOpener \/ ParseClause \/ ParseEnd \/ ParseDone

-------------------------------------------------------------------------------
(* The tree: the parent pointers and the blocks, read off the sequence.    *)

\* The nodes whose blocks n is in. The clauses of an if tree follow one
\* another at the same level, so only the clause n is in counts.
Around(n) ==
  {m \in 1 .. n - 1 :
     /\ ast[m].k \in Openers \cup Clauses
     /\ \A j \in m + 1 .. n : ast[j].lvl > ast[m].lvl}

\* The marker that ends the block n is in; past the last node for the
\* procedure's own block.
BlockEnd(n) ==
  Min({m \in n + 1 .. Len(ast) : ast[m].k \in Markers /\ ast[m].lvl = ast[n].lvl - 1}
      \cup {Len(ast) + 1})

\* The marker that ends the block that n opens.
BodyEnd(n) ==
  Min({m \in n + 1 .. Len(ast) : ast[m].k \in Markers /\ ast[m].lvl = ast[n].lvl}
      \cup {Len(ast) + 1})

Declarers == {"param", "decl", "init", "fordcl"}

\* The declarations of id that the language puts in scope at n: those before
\* it in a block around it. A for statement's own declaration reaches its
\* condition, epilogue and block; a declaration reaches its own initial value.
InScope(id, n) ==
  {m \in 1 .. n :
     /\ ast[m].k \in Declarers /\ ast[m].id = id
     /\ \A j \in m + 1 .. n :
          IF ast[m].k = "fordcl" THEN ast[j].lvl > ast[m].lvl
                                 ELSE ast[j].lvl >= ast[m].lvl}

\* The declaration a use of id at n means: 0 is the global, None is nothing.
Meant(id, n) ==
  IF InScope(id, n) # {} THEN Max(InScope(id, n))
  ELSE IF id \in Globals THEN 0 ELSE None

\* n follows a return (or, for AfterJump, also a break) in the same block, or
\* is inside a statement that does.
After(kinds, n) ==
  \E r \in 1 .. n - 1 : ast[r].k \in kinds /\ n < BlockEnd(r)

AfterReturn(n) == After({"return"}, n)
AfterJump(n)   == After({"return", "break"}, n)

===============================================================================
