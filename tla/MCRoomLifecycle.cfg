\* Two handlers and the sweep on a room from creation to deletion, and on the room
\* that takes its token after it; liveness, so no symmetry.
CONSTANTS
  Clients = {alice}
  Names = {n1}
  Exprs = {}
  Comments = {hi}
  NoExpr = NoExpr
  NoComment = NoComment
  NoRoll = NoRoll
  NotLocked = NotLocked
  MaxDraws = 0
  Tokens = {t1}
  Time = {0, 1, 2, 3}
  MaxRooms = 2
  MaxEvents = 2
  Workers = {w1, w2}
  LockAfter = 1
  DeleteAfter = 2
SPECIFICATION LifeSpec
INVARIANTS
  LifeTypeOK
  NothingDatedPastTheDeadline
  HandlersKeepTheirRoom
PROPERTIES
  OnlyExpiredRoomsDeleted
  ExpiredRoomsVanish
