\* Expressions of three families: pointers, members and addresses (5 nodes),
\* booleans with && and || (6 nodes), and ints and booleans that are run (5).
SPECIFICATION MCSpec
CONSTANTS
  Ops = {"ID", "NUM", "NIL", "CHARLIT", "READ", "NEW", "CALL", "ARG", "AT", "ADDR", "INCR",
         "DOT", "ARROW", "NOT", "PLUS", "SUB", "AND", "OR", "EQUALS", "LT", "expr4"}
  MaxNodes = 6
  VarType <- MCVars
  ParamType <- MCParams
  FunType <- MCFuns
  FieldType <- MCData
  Allocated <- MCAllocated
  Statements <- MCStatements
  ValuesOf <- MCValues
  NoResult = NoResult
INVARIANTS
  FailsOnlyWithoutAddress CallsGeneratedOnce PointersCountElements PrintsByType
  MalformedOnlyIfUnchecked PhisMatchPredecessors EvaluatesAsMeant
CHECK_DEADLOCK FALSE
