\* Two handlers at a time, a change without a broadcast, and a page that edits.
CONSTANTS
  Tokens = {t1}
  Clients = {alice}
  Names = {n1}
  Exprs = {}
  Comments = {hi}
  NoExpr = NoExpr
  NoComment = NoComment
  NoRoll = NoRoll
  NotLocked = NotLocked
  Time = {1}
  MaxDraws = 0
  MaxRooms = 1
  Outside = Outside
  NoChannel = NoChannel
  NoReply = NoReply
  MaxEvents = 3
  Workers = {w1, w2}
  Browsers = {b1}
  Editors = {b1}
  Capacity = 1
  MaxDrops = 0
  MaxSilent = 1
  MaxRestarts = 0
  MaxFaults = 0
  MaxChannels = 2
SPECIFICATION LiveSpec
CHECK_DEADLOCK FALSE
INVARIANTS
  NothingFallsInTheGap
  NoDuplicates
