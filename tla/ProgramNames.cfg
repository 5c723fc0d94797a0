\* Programs of up to three definitions: structs, globals, procedures.
SPECIFICATION PrSpec
CONSTANTS
  Definitions <- MCDefinitions
  Mains <- MCMains
  MaxDefs = 3
INVARIANTS
  PrTypeOK LayoutSound ContainmentWellFounded ProgramRejectsOnlyFaults
  ProgramFailsOnlyUnchecked CallsReachTheirProcedure
  LoadsHaveTheirType
CHECK_DEADLOCK FALSE
