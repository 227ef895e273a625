\* Two handlers at a time, and one connection dropped between their broadcasts.
CONSTANTS
  Tokens = {t1}
  Clients = {alice}
  Names = {n1}
  Exprs = {}
  Comments = {hi}
  NoExpr = NoExpr
  NoComment = NoComment
  NoRoll = NoRoll
  NotLocked = NotLocked
  Time = {1}
  MaxDraws = 0
  MaxRooms = 1
  Outside = Outside
  NoChannel = NoChannel
  NoReply = NoReply
  MaxEvents = 2
  Workers = {w1, w2}
  Browsers = {b1}
  Editors = {}
  Capacity = 2
  MaxDrops = 1
  MaxSilent = 0
  MaxRestarts = 0
  MaxFaults = 1
  MaxChannels = 1
SPECIFICATION LiveSpec
CHECK_DEADLOCK FALSE
INVARIANTS
  CatchUpCoversDrops
