SPECIFICATION LogSpec
CONSTANTS
  a = a
  b = b
  c = c
  Writers <- MCWriters
  Closer = c
  NoOne = NoOne
  Attempts = 2
  MaxLines = 4
INVARIANTS
  LinesAccounted
  FileIsSafe
PROPERTIES
  WritesEnd
CHECK_DEADLOCK FALSE
