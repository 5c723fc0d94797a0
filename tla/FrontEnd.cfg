\* Texts from one wrong character away from a program, and command lines.
SPECIFICATION Spec
CONSTANTS
  Letters <- MCLetters
  KEYWORDS <- MCKeywords
  MaxNum = 10
  Table <- MCTable
  Prods <- MCProds
  Items <- MCItems
  Inputs <- MCInputs
INVARIANTS
  DrTypeOK TokensAreTheText LinesOfTokens ReductionsMatch AcceptsOnlySentences
  RejectsAtFirstBadToken ErrorsReported OutputsMatchExit SourceSurvives
PROPERTY Exits
CHECK_DEADLOCK FALSE
