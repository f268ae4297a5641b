SPECIFICATION Spec
CONSTANTS
  a = a
  b = b
  None = None
  Undef = Undef
  Star = Star
  Names <- MCNames
  Defs = {}
  Stmts <- StringStmts
  Garbage = {7}
  MaxLines = 4
  MaxChunks = 2
INVARIANT WholeWords
CHECK_DEADLOCK FALSE
