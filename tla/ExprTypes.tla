------------------------------- MODULE ExprTypes ------------------------------
(***************************************************************************)
(* One statement's expression: how the parser's productions build it and   *)
(* the type TypeChecker gives it.                                          *)
(*                                                                         *)
(* The nodes are a sequence in the order of the source, an operator before *)
(* its operands; parentheses leave no node, so every tree of at most       *)
(* MaxNodes nodes is an expression. A type is a sequence: the name, then a *)
(* "*" for each pointer, as the type strings of the code are spelled. The  *)
(* operators that one case of the code treats alike may be represented by  *)
(* any of them: Ops says which ones the programs use.                      *)
(*                                                                         *)
(* A call has at most one argument. Of the names, only local variables are *)
(* used, and no procedure has the name of one.                             *)
(***************************************************************************)
EXTENDS Integers, Sequences

CONSTANTS
  Ops,        \* the operators and operands the expressions are made of
  VarType,    \* the type of each local variable
  ParamType,  \* the type of each procedure's parameter, NoType without one
  FunType,    \* the return type of each procedure
  FieldType,  \* the type of each field of each struct
  Allocated,  \* what `new` may allocate: a type's name and how many of it
  Statements, \* the statements the expression may be in, see Statement
  MaxNodes    \* bound: the nodes of the expression

NoType == <<>>       \* "", what ExprNode::type is before anything sets it
TYPE_INT    == <<"int">>
TYPE_CHAR   == <<"char">>
TYPE_BOOL   == <<"bool">>
TYPE_VOID   == <<"void">>
Basic  == {TYPE_INT, TYPE_CHAR, TYPE_BOOL}
PtrTo(t) == Append(t, "*")

Logical  == {"OR", "AND"}
Compare  == {"GEQ", "GT", "LEQ", "LT", "EQUALS", "NEQ"}
Additive == {"PLUS", "SUB"}
Arithmetic == {"MULT", "DIV", "MOD", "LSHIFT", "RSHIFT", "EXP", "BITOR", "BITXOR", "BITAND"}
Binary   == Logical \cup Compare \cup Additive \cup Arithmetic
Signs    == {"expr3", "expr4"}       \* unary + and -: symbols that stand for them
Steps    == {"INCR", "DECR"}         \* before or after the operand, it is the same node
Unary    == {"NOT", "BITNOT", "AT", "ADDR"} \cup Signs \cup Steps
Member   == {"DOT", "ARROW"}
Operands == {"ID", "NUM", "CHARLIT", "TRUE", "FALSE", "NIL", "NEW", "CALL", "READ"}

Vars    == DOMAIN VarType
Funs    == DOMAIN FunType
Structs == DOMAIN FieldType

\* An IfNode's or WhileNode's condition, an expression statement, a PrintNode, a
\* DeleteNode, a VarInitNode of type ty, a ReturnNode in a procedure of type ty,
\* an AssignmentNode (two expressions, the one assigned to first).
Statement(k, ty) == [k |-> k, ty |-> ty]

ASSUME ExprAssumption ==
  /\ Ops \subseteq Operands \cup {"ARG"} \cup Unary \cup Member \cup Binary
  /\ DOMAIN ParamType = Funs /\ Vars \cap Funs = {}
  /\ \A s \in Statements :
       s.k \in {"cond", "expr", "print", "delete", "init", "return", "asst"} /\ s.ty # TYPE_VOID
  /\ \A a \in Allocated : a.size \in Nat
  /\ MaxNodes \in Nat

VARIABLES
  phase,   \* what main() is doing, see Ast
  stmt,    \* the statement
  expr,    \* its expression: the nodes read so far
  need     \* the operands that are still to come

-------------------------------------------------------------------------------
(* The productions. x is a variable, a procedure, a field or a type, size  *)
(* what new has in its brackets.                                           *)

NodesOf(op) ==
  LET names == CASE op = "ID"            -> Vars
                 [] op \in {"CALL", "ARG"} -> Funs   \* without and with an argument
                 [] op \in Member        -> UNION {DOMAIN FieldType[s] : s \in Structs}
                 [] OTHER                -> {""}
  IN  IF op = "NEW" THEN {[op |-> op, x |-> a.x, size |-> a.size] : a \in Allocated}
                    ELSE {[op |-> op, x |-> x, size |-> 0] : x \in names}

Takes(op) ==
  CASE op \in Operands -> 0
    [] op \in Unary \cup Member \cup {"ARG"} -> 1
    [] OTHER -> 2

Grow ==
  /\ phase = "parse" /\ need > 0
  /\ \E op \in Ops :
       /\ Len(expr) + need + Takes(op) <= MaxNodes
       /\ \E node \in NodesOf(op) : expr' = Append(expr, node)
       /\ need' = need - 1 + Takes(op)
  /\ UNCHANGED <<phase, stmt>>

ExprDone ==
  /\ phase = "parse" /\ need = 0
  /\ phase' = "typecheck"
  /\ UNCHANGED <<stmt, expr, need>>

ExprInit ==
  /\ phase = "parse" /\ expr = <<>>
  /\ stmt \in Statements
  /\ need = IF stmt.k = "asst" THEN 2 ELSE 1

-------------------------------------------------------------------------------
(* The tree. n's first operand is n + 1.                                   *)

\* The last node of the expression that starts at n.
LastOf[n \in Nat] ==
  CASE Takes(expr[n].op) = 0 -> n
    [] Takes(expr[n].op) = 1 -> LastOf[n + 1]
    [] OTHER                 -> LastOf[LastOf[n + 1] + 1]

Second(n) == LastOf[n + 1] + 1

\* The expression of the statement; an assignment's right-hand side.
Root == IF stmt.k = "asst" THEN LastOf[1] + 1 ELSE 1

-------------------------------------------------------------------------------
(* visitor_helper.cpp                                                      *)

IsPointer(t) == t # <<>> /\ t[Len(t)] = "*"

\* Everything that does not begin with int, char or bool.
IsStruct(t) == t = <<>> \/ <<t[1]>> \notin Basic

\* The last character but one. For "*", nil's type, that is read outside the
\* string; whatever it is, the caller then refuses "" as the struct.
IsStructPointer(t) == IsStruct(t) /\ ~IsPointer(SubSeq(t, 1, Len(t) - 1))

\* An operator's value counts as an l-value if an operand's does.
IsLvalue[n \in Nat] ==
  CASE expr[n].op \in {"ID"} \cup Member -> TRUE
    [] expr[n].op \in Unary  -> IsLvalue[n + 1]
    [] expr[n].op \in Binary -> IsLvalue[n + 1] \/ IsLvalue[Second(n)]
    [] OTHER                 -> FALSE

-------------------------------------------------------------------------------
(* TypeChecker's visits. Error is a throw: it ends the compilation, so the *)
(* order of the visits does not show.                                      *)

Error == <<"error">>

Accept(ok, t) == IF ok THEN t ELSE Error

BinaryType(op, l, r) ==
  CASE op \in Logical    -> Accept(l = r /\ l = TYPE_BOOL, TYPE_BOOL)
    [] op \in Compare    -> Accept(l = r /\ l \in Basic, TYPE_BOOL)
    [] op \in Arithmetic -> Accept(l = TYPE_INT /\ r = TYPE_INT, TYPE_INT)
    [] op \in Additive   ->
         CASE l # TYPE_INT /\ r # TYPE_INT -> Error
           [] l = TYPE_INT /\ r = TYPE_INT -> TYPE_INT
           [] IsPointer(r)       -> r
           [] OTHER              -> Accept(IsPointer(l), l)

\* INCR and DECR leave the type as it was, empty.
UnaryType(op, t, lvalue) ==
  CASE op = "NOT"                  -> Accept(t = TYPE_BOOL, TYPE_BOOL)
    [] op \in Signs \cup {"BITNOT"} -> Accept(t = TYPE_INT, t)
    [] op \in Steps                -> Accept(t = TYPE_INT \/ IsPointer(t), NoType)
    [] op = "AT"                   -> Accept(IsPointer(t), SubSeq(t, 1, Len(t) - 1))
    [] op = "ADDR"                 -> Accept(t # Error /\ lvalue, PtrTo(t))

MemberType(op, t, f) ==
  LET s  == IF op = "ARROW" THEN SubSeq(t, 1, Len(t) - 1) ELSE t
      ok == /\ IsStruct(t)
            /\ IF op = "ARROW" THEN IsPointer(t) /\ IsStructPointer(t) ELSE ~IsPointer(t)
            /\ Len(s) = 1 /\ s[1] \in Structs
            /\ f \in DOMAIN FieldType[s[1]]
  IN  IF ok THEN FieldType[s[1]][f] ELSE Error

\* ExprNode::type of n. The count of the arguments is compared with that of
\* the parameters only if there are arguments.
TypeOf[n \in Nat] ==
  LET op == expr[n].op
      x  == expr[n].x
  IN  CASE op = "ID"                -> VarType[x]
        [] op = "NUM"               -> TYPE_INT
        [] op \in {"CHARLIT", "READ"} -> TYPE_CHAR
        [] op \in {"TRUE", "FALSE"} -> TYPE_BOOL
        [] op = "NIL"               -> PtrTo(NoType)
        [] op = "NEW"               -> PtrTo(<<x>>)
        [] op = "CALL"              -> FunType[x]
        [] op = "ARG"    -> Accept(ParamType[x] # NoType /\ TypeOf[n + 1] = ParamType[x], FunType[x])
        [] op \in Member -> MemberType(op, TypeOf[n + 1], x)
        [] op \in Unary  -> UnaryType(op, TypeOf[n + 1], IsLvalue[n + 1])
        [] op \in Binary -> BinaryType(op, TypeOf[n + 1], TypeOf[Second(n)])

\* A condition may have any type. What is printed has a basic type or a pointer
\* to one: void and the "" of ++ are structs to is_struct.
StatementAccepted ==
  CASE stmt.k \in {"cond", "expr"}   -> TypeOf[1] # Error
    [] stmt.k = "print"              -> TypeOf[1] # Error /\ ~IsStruct(TypeOf[1])
    [] stmt.k = "delete"             -> IsPointer(TypeOf[1])
    [] stmt.k \in {"init", "return"} -> TypeOf[1] = stmt.ty
    [] stmt.k = "asst" ->
         TypeOf[1] # Error /\ IsLvalue[1] /\ TypeOf[1] = TypeOf[Root]

ExprTypeCheck ==
  /\ phase = "typecheck"
  /\ phase' = IF StatementAccepted THEN "codegen" ELSE "rejected"
  /\ UNCHANGED <<stmt, expr, need>>

===============================================================================
