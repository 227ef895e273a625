\* A message that is checked before the lock and written after it.
CONSTANTS
  Clients = {alice}
  Names = {}
  Exprs = {}
  Comments = {hi}
  NoExpr = NoExpr
  NoComment = NoComment
  NoRoll = NoRoll
  NotLocked = NotLocked
  MaxDraws = 0
  Tokens = {t1, t2}
  Time = {0, 1, 2, 3}
  MaxRooms = 1
  MaxEvents = 2
  Workers = {w1, w2}
  LockAfter = 1
  DeleteAfter = 2
SPECIFICATION LifeSpec
PROPERTIES
  LockIsFinal
