\* An early return with statements after it.
SPECIFICATION CgSpec
CONSTANTS
  Ids = {"x"}
  Types = {"int"}
  SizeOf <- MCOneSize
  IntType = "int"
  StructTypes = {}
  PtrTypes = {}
  Globals = {"x"}
  GlobalType <- MCOneGlobal
  Lit = Lit
  None = None
  Kinds = {"print", "if", "return", "end"}
  Reads = {"x"}
  Conds = {"x"}
  MaxNodes = 4
  ReturnType = "int"
INVARIANT EarlyReturnWellFormed
CHECK_DEADLOCK FALSE
