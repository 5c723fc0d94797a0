\* The room that new makes for an array.
SPECIFICATION MCLowerSpec
CONSTANTS
  Ops = {"ID", "NEW"}
  MaxNodes = 2
  VarType <- MCStringVars
  ParamType <- MCNoFuns
  FunType <- MCNoFuns
  FieldType <- MCNoStructs
  Allocated <- MCString
  Statements <- MCStringStatements
  ValuesOf <- MCValues
  NoResult = NoResult
INVARIANT AllocationsHoldTheirElements
CHECK_DEADLOCK FALSE
