\* One handler at a time, and every fault: a change without a broadcast, a lag, a dropped
\* connection or a restart, a prune.
CONSTANTS
  Tokens = {t1}
  Clients = {alice}
  Names = {n1}
  Exprs = {}
  Comments = {hi}
  NoExpr = NoExpr
  NoComment = NoComment
  NoRoll = NoRoll
  NotLocked = NotLocked
  Time = {1}
  MaxDraws = 0
  MaxRooms = 1
  Outside = Outside
  NoChannel = NoChannel
  NoReply = NoReply
  MaxEvents = 3
  Workers = {w1}
  Browsers = {b1}
  Editors = {}
  Capacity = 1
  MaxDrops = 1
  MaxSilent = 1
  MaxRestarts = 1
  MaxFaults = 1
  MaxChannels = 2
SPECIFICATION LiveSpec
CHECK_DEADLOCK FALSE
INVARIANTS
  DrainedMeansCurrent
PROPERTIES
  Converges
