SPECIFICATION Spec
CONSTANTS
  Exprs <- MCExprs
  Fate = Fate
  None = None
  MaxRerolls = 2
  MaxDepth = 2
  MaxInt = 20
INVARIANTS
  KeepsTheBest
  ExplosionsFollowMaxima
  RerollsStop
  ArithmeticIsExact
  PartsAddUp
PROPERTIES
  Terminates
CHECK_DEADLOCK FALSE
