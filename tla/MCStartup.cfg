\* Three processes on each of the two databases, and two crashes; an id is never the
\* one before it.
CONSTANTS
  Processes = {p1, p2, p3}
  Backends = {"sqlite", "postgres"}
  LegacyRows <- MCLegacyRows
  None = None
  Corrupt = Corrupt
  MaxIds = 2
  MaxCrashes = 2
SPECIFICATION Spec
INVARIANTS
  ServesOnlyNew
PROPERTIES
  MessagesSurvive
  IdentitiesLast
  EveryoneServes
