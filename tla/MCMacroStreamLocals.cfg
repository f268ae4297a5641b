SPECIFICATION Spec
CONSTANTS
  m = m
  k = k
  g = g
  l = l
  at = at
  inc = inc
  Main = Main
  None = None
  Null = Null
  Names <- MCNames
  Locals <- MCLocals
  Ats <- MCAts
  Files <- MCFiles
  Texts <- LocalTexts
  Depth = 5
  IncNames = 4
  Tokens = 5
  Pointers = 4
INVARIANT LocalScopes
CHECK_DEADLOCK FALSE
