-------------------------------- MODULE MCExpr --------------------------------
(* Instances of ExprLower and ExprRun for TLC: names, types, statements.    *)
EXTENDS ExprRun, Functions, TLC

MCNoStructs == [s \in {} |-> NoType]
MCBoolVars == [b |-> TYPE_BOOL]
MCBoolFuns == [g |-> TYPE_BOOL, h |-> TYPE_VOID]
MCBoolParams == [g |-> TYPE_BOOL, h |-> NoType]
MCResultStatements == {Statement("init", TYPE_BOOL), Statement("return", TYPE_BOOL)}
MCConditions == {Statement("cond", NoType)}
MCValues == (TYPE_BOOL :> {0, 1}) @@ (TYPE_INT :> {-1, 0, 1})

\* The code is generated and not run.
MCLowerSpec == RunInit /\ [][Compile]_runVars

\* README.md:42
MCStringVars == [string |-> PtrTo(TYPE_CHAR)]
MCNoFuns == [f \in {} |-> NoType]
MCStringStatements == {Statement("init", PtrTo(TYPE_CHAR)), Statement("asst", NoType)}
MCString == {[x |-> "char", size |-> 14]}

-------------------------------------------------------------------------------
(* Three families of expressions, each as large as its constructs allow.    *)

\* sample_program.xer's Data, with a pointer to it.
MCData == [Data |-> [a |-> TYPE_CHAR, d |-> PtrTo(<<"Data">>)]]
MCVars == [x |-> TYPE_INT, p |-> PtrTo(TYPE_INT), s |-> <<"Data">>, b |-> TYPE_BOOL]
MCFuns == [f |-> PtrTo(<<"Data">>), g |-> TYPE_BOOL, h |-> TYPE_VOID, k |-> TYPE_BOOL]
MCParams == [f |-> NoType, g |-> TYPE_BOOL, h |-> NoType, k |-> NoType]
MCAllocated == {[x |-> "int", size |-> 1], [x |-> "Data", size |-> 1]}

Plain(kinds) == {Statement(k, NoType) : k \in kinds}

PointerStatements ==
  Plain({"expr", "cond", "asst", "print", "delete"}) \cup {Statement("init", TYPE_INT)}
LogicalStatements == Plain({"cond", "print"}) \cup {Statement("return", TYPE_BOOL)}
ValueStatements == Plain({"expr", "cond", "asst"}) \cup {Statement("init", TYPE_BOOL)}

MCStatements == PointerStatements \cup LogicalStatements \cup ValueStatements

WrittenWith(ops, names, statements, size) ==
  /\ Len(expr) + need <= size
  /\ stmt \in statements
  /\ \A node \in Range(expr) : node.op \in ops /\ (node.op \in {"ID", "CALL", "ARG"} => node.x \in names)

\* Pointers, members and addresses.
PointerExpr ==
  WrittenWith({"ID", "NUM", "NIL", "NEW", "CALL", "AT", "ADDR", "INCR", "DOT", "ARROW", "PLUS", "SUB"},
              {"x", "p", "s", "f"}, PointerStatements, 5)

\* Booleans: && and || in conditions, returns and arguments.
LogicalExpr ==
  WrittenWith({"ID", "CHARLIT", "READ", "CALL", "ARG", "NOT", "AND", "OR", "EQUALS"},
              {"b", "g", "h"}, LogicalStatements, 6)

\* What is run: ints and booleans.
ValueExpr ==
  WrittenWith({"ID", "NUM", "CALL", "NOT", "AND", "OR", "EQUALS", "LT", "PLUS", "INCR", "expr4"},
              {"b", "x", "k"}, ValueStatements, 5)

MCNext ==
  /\ phase = "run" => ValueExpr
  /\ RunNext
  /\ phase = "parse" => (PointerExpr \/ LogicalExpr \/ ValueExpr)'

MCSpec == RunInit /\ [][MCNext]_runVars
===============================================================================
