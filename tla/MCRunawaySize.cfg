\* Windows of up to four points, with and without a shadow; four sizes
\* that somebody comes up with.
CONSTANTS
  Top = 4
  Shadows = {0, 1}
  MaxInitiatives = 4
  MaxSize = 5
  None = None
SPECIFICATION SizeSpec
PROPERTY AnswersFit
