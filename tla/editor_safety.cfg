CONSTANTS
  Char <- Chars
  Alphabet <- Words1
  Files <- SmallFiles
  Clipboards <- SmallClips
  IndentSpaces = 2
  Margin = 1
  Height = 8
  MaxLines = 5
  MaxColumns = 4
  MaxKeys = 4
SPECIFICATION Spec
CHECK_DEADLOCK FALSE
INVARIANTS Consistent UnchangedMeansSaved
PROPERTIES TextChangesAtCursor
