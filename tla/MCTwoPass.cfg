SPECIFICATION Spec
CONSTANTS
  a = a
  b = b
  None = None
  Undef = Undef
  Star = Star
  Names <- MCNames
  Defs <- MCDefs
  Stmts <- MCStmts
  Garbage = {7}
  MaxLines = 4
  MaxChunks = 2
INVARIANT TypeOK
INVARIANT PhaseAgreement
INVARIANT StoresInBounds
INVARIANT PcCountsWords
INVARIANT VerifyNeverFires
INVARIANT ReferencesExact
CHECK_DEADLOCK FALSE
