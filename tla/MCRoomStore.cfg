\* One room after another under the same token, every sequence of three events on
\* each, and sweeps.
CONSTANTS
  Tokens = {t1}
  Clients = {alice, bob}
  Names = {n1}
  Exprs = {d6}
  Comments = {hi}
  NoExpr = NoExpr
  NoComment = NoComment
  NoRoll = NoRoll
  NotLocked = NotLocked
  Time = {1, 2}
  MaxDraws = 1
  MaxRooms = 2
  MaxEvents = 3
SPECIFICATION Spec
SYMMETRY Interchangeable
INVARIANTS
  TypeOK
  NoOrphans
  TranscriptGapless
  EventIdsOrderTheRoom
  FreshRandomness
PROPERTIES
  RoomIdsNeverReused
  ChangesAreNewer
  OriginsSurvive
  KeepsThePromise
