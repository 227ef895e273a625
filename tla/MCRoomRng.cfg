\* Words of two bytes of two bits, so that every state is an initial state.  A shift
\* and a rotation of the same proportions as in the code (17 and 45 of 64 bits);
\* sides that divide the numbers of a word, that do not, and that almost fill it.
CONSTANTS
  WordBytes = 2
  ByteBits = 2
  Shift = 1
  Turn = 3
  ScrambleTurn = 1
  SideCounts = {2, 3, 7}
  None = None
  MaxRolls = 1
SPECIFICATION Spec
INVARIANTS
  NeverCorrupt
  StatesDoNotMerge
  StateRoundTrips
  FacesAreFair
