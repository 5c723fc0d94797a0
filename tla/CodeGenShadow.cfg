\* Shadowing by an initialised declaration.
SPECIFICATION CgSpec
CONSTANTS
  Ids = {"x", "y"}
  Types = {"int"}
  SizeOf <- MCOneSize
  IntType = "int"
  StructTypes = {}
  PtrTypes = {}
  Globals = {}
  GlobalType <- MCNoGlobal
  Lit = Lit
  None = None
  Kinds = {"decl", "init", "print", "if", "end"}
  Reads = {"x"}
  Conds = {"x"}
  MaxNodes = 5
  ReturnType = "int"
INVARIANT PassesAgreeOnVariables
CHECK_DEADLOCK FALSE
