SPECIFICATION ParseFairSpec
CONSTANTS
  a = a
  Letter <- MCLetter
  Space = Space
  Nul = Nul
  MaxArgs = 3
  MaxLine = 7
  CommandName <- MCCommandName
INVARIANTS
  ParseTypeOK
  ArgvCorrect
  DispatchCorrect
PROPERTIES
  PromptReturns
