SPECIFICATION Spec
CONSTANTS
  a = a
  b = b
  None = None
  Undef = Undef
  Star = Star
  Names <- MCNames
  Defs = {}
  Stmts <- LongStmts
  Garbage = {7}
  MaxLines = 4
  MaxChunks = 2
INVARIANT ReferencesResolved
CHECK_DEADLOCK FALSE
