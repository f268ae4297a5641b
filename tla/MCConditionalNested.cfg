SPECIFICATION Spec
CONSTANTS
  one = one
  zero = zero
  lab = lab
  Names <- MCNames
  True <- MCTrue
  Defs <- MCDefs
  Lines <- MCLines
  MaxLines = 5
  MaxNest = 2
INVARIANT RemovedUpToEndc
CHECK_DEADLOCK FALSE
