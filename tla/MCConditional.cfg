SPECIFICATION Spec
CONSTANTS
  one = one
  zero = zero
  lab = lab
  Names <- MCNames
  True <- MCTrue
  Defs <- MCDefs
  Lines <- MCLines
  MaxLines = 5
  MaxNest = 2
INVARIANT TypeOK
INVARIANT RemovedWhileCounted
INVARIANT SamePath
INVARIANT SecondPassEnds
PROPERTY ImplementsBlocks
CHECK_DEADLOCK FALSE
