\* Both passes on three families of procedures: control flow (7 nodes), names
\* (5 nodes) and the frame (4 nodes).
SPECIFICATION MCSpec
CONSTANTS
  Ids = {"x", "y"}
  Types <- MCManyTypes
  SizeOf <- MCManySizes
  IntType = "int"
  StructTypes = {"Data"}
  PtrTypes = {"char*"}
  Globals = {"x"}
  GlobalType <- MCOneGlobal
  Lit = Lit
  None = None
  Kinds = {"param", "decl", "init", "asst", "expr", "print", "delete", "break", "return",
           "if", "elif", "else", "while", "fordcl", "forasst", "end"}
  Reads = {"x"}
  Conds = {"x"}
  MaxNodes = 7
  ReturnType = "int"
INVARIANTS
  TypeOK TableSound ScopesMatchBlocks BreakTargetsInnermost UsesResolveLexically
  RejectsOnlyErrors BreaksAgree FailsOnlyUnchecked MalformedOnlyAfterJump
  UsesReachTheirVariable
CHECK_DEADLOCK FALSE
