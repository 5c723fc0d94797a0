\* A procedure that returns a struct.
SPECIFICATION CgSpec
CONSTANTS
  Ids = {"s"}
  Types <- MCStructTypes
  SizeOf <- MCStructSize
  IntType = "int"
  StructTypes = {"Data"}
  PtrTypes = {}
  Globals = {}
  GlobalType <- MCNoGlobal
  Lit = Lit
  None = None
  Kinds = {"param", "if", "else", "while", "break", "return", "end"}
  Reads = {"s"}
  Conds = {Lit}
  MaxNodes = 6
  ReturnType = "Data"
INVARIANT MissingReturnIsReachable
CHECK_DEADLOCK FALSE
