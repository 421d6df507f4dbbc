SPECIFICATION TermSpec
CONSTANTS
  x = x
  Char <- MCChar
  Space = Space
  LastColumn = 3
  Glyph = 1
  PitchX = 2
  PitchY = 2
  Pps = 8
  Height = 8
  ClearRows = 8
  StartY = 2
  Status <- MCStatus
  MaxInput = 5
  Prompt <- MCPrompt
  Output <- MCOutput
  Newline = Newline
  MaxY = 0
INVARIANTS
  TermTypeOK
  CursorMatchesLine
  ScreenShowsLine
  DrawsInside
