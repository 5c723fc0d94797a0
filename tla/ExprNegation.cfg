\* The negation of && and ||.
SPECIFICATION RunSpec
CONSTANTS
  Ops = {"ID", "NOT", "AND"}
  MaxNodes = 4
  VarType <- MCBoolVars
  ParamType <- MCNoFuns
  FunType <- MCNoFuns
  FieldType <- MCNoStructs
  Allocated = {}
  Statements <- MCConditions
  ValuesOf <- MCValues
  NoResult = NoResult
INVARIANT LogicalPlaysNicely
CHECK_DEADLOCK FALSE
