\* && as a value that is stored or returned.
SPECIFICATION MCLowerSpec
CONSTANTS
  Ops = {"ID", "AND", "EQUALS"}
  MaxNodes = 3
  VarType <- MCBoolVars
  ParamType <- MCBoolParams
  FunType <- MCBoolFuns
  FieldType <- MCNoStructs
  Allocated = {}
  Statements <- MCResultStatements
  ValuesOf <- MCValues
  NoResult = NoResult
INVARIANT ResultsHaveTheirType
CHECK_DEADLOCK FALSE
