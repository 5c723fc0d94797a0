\* -co on small programs.
SPECIFICATION Spec
CONSTANTS
  Letters <- MCLetters
  KEYWORDS <- MCKeywords
  MaxNum = 10
  Table <- MCTable
  Prods <- MCProds
  Items <- MCItems
  Inputs <- MCObjectInputs
INVARIANT ObjectOnly
CHECK_DEADLOCK FALSE
