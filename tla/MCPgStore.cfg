\* Two processes on one room that the sweep may delete under them; liveness, so no
\* symmetry.
CONSTANTS
  Tokens = {t1}
  Clients = {alice}
  Names = {n1}
  Exprs = {d6}
  Comments = {hi}
  NoExpr = NoExpr
  NoComment = NoComment
  NoRoll = NoRoll
  NotLocked = NotLocked
  NoRow = NoRow
  Requests <- MCRequests
  MaxDraws = 1
  MaxRooms = 1
  Time = {1, 2}
  Procs = {p1, p2}
  MaxEvents = 3
SPECIFICATION PgFairSpec
INVARIANTS
  PgTypeOK
  NothingReadIsStale
PROPERTIES
  TransactionsAreAtomic
  TransactionsEnd
