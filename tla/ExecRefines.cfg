\* Generated control flow against the structure of the source, and its end
\* for programs whose loops test a condition that gives way.
SPECIFICATION ExFairSpec
CONSTANTS
  Ids = {"y"}
  Types = {"int"}
  SizeOf <- MCOneSize
  IntType = "int"
  StructTypes = {}
  PtrTypes = {}
  Globals = {"y"}
  GlobalType <- MCOneGlobal
  Lit = Lit
  None = None
  Kinds = {"print", "if", "elif", "else", "while", "forasst", "break", "return", "end"}
  Reads = {"y"}
  Conds = {"y"}
  MaxNodes = 6
  ReturnType = "int"
PROPERTIES RunsAsWritten Ends
CHECK_DEADLOCK FALSE
