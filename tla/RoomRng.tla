------------------------------- MODULE RoomRng -------------------------------
(****************************************************************************)
(* The generator of a room (server/src/rng.rs) and its use by one roll      *)
(* after the other (eval_with_state in server/src/store/mod.rs): the state  *)
(* is read from the row, the evaluation draws faces from it, and the        *)
(* successor is written back, unless the evaluation fails.                  *)
(*                                                                          *)
(* A word is the set of its bits that are one, so that ^ is the symmetric   *)
(* difference; its width, the width of a byte and the amounts of the shift  *)
(* and the rotations are parameters.                                        *)
(****************************************************************************)
EXTENDS Integers, FiniteSets, FiniteSetsExt

CONSTANTS
  WordBytes,   \* bytes in a word; 8 in the code
  ByteBits,    \* bits in a byte; 8 in the code
  Shift,       \* 17 in the code
  Turn,        \* 45 in the code
  ScrambleTurn,\* 7 in the code
  SideCounts,  \* sides that are asked for; a u32, which fits a word
  None,        \* no generator: the state is corrupt
  MaxRolls     \* bound: faces drawn in one evaluation

ASSUME RngAssumption ==
  /\ WordBytes \in Nat \ {0}
  /\ ByteBits \in Nat \ {0}
  /\ Shift \in Nat \ {0}
  /\ Turn \in 0..WordBytes * ByteBits - 1
  /\ SideCounts \subseteq 1..2^(WordBytes * ByteBits) - 1

VARIABLES
  stored,   \* rng_state of the room
  s,        \* the generator of the evaluation under way, or None
  sides,    \* the argument of the call of roll under way, or 0
  face,     \* what the last call of roll returned, or 0
  rolls     \* faces drawn in this evaluation

vars == <<stored, s, sides, face, rolls>>

WordBits == WordBytes * ByteBits
Indices == 0..3
Word == SUBSET (0..WordBits - 1)

a \oplus b == (a \ b) \cup (b \ a)

ShiftLeft(w, n) == {i + n : i \in {j \in w : j + n < WordBits}}
RotateLeft(w, n) == {(i + n) % WordBits : i \in w}

------------------------------------------------------------------------------
(* The bytes of a state: for every word, from its lowest byte to its highest. *)

Byte == SUBSET (0..ByteBits - 1)
State == [Indices -> [0..WordBytes - 1 -> Byte]]

Zeros == [i \in Indices |-> [k \in 0..WordBytes - 1 |-> {}]]

\* RoomRng::state, and to_le_bytes.
ToState(gen) ==
  [i \in Indices |->
    [k \in 0..WordBytes - 1 |-> {b \in 0..ByteBits - 1 : k * ByteBits + b \in gen[i]}]]

FromStateBigEndian(state) ==
  IF state = Zeros
  THEN None
  ELSE [i \in Indices |->
         UNION {{(WordBytes - 1 - k) * ByteBits + b : b \in state[i][k]} :
                  k \in 0..WordBytes - 1}]

\* from_state, and from_le_bytes.  Rows hold states of the right length.
FromState(state) ==
  IF state = Zeros
  THEN None
  ELSE [i \in Indices |->
         UNION {{k * ByteBits + b : b \in state[i][k]} : k \in 0..WordBytes - 1}]

------------------------------------------------------------------------------
(* next_u64. *)

ValueOf(w) == MapThenSumSet(LAMBDA i : 2^i, w)
WordOf(n) == {i \in 0..WordBits - 1 : (n \div 2^i) % 2 = 1}

\* The number that is drawn.
Result(gen) ==
  (ValueOf(RotateLeft(WordOf(ValueOf(gen[1]) * 5), ScrambleTurn)) * 9) % 2^WordBits

SuccessorByOldWords(gen) ==
  [i \in Indices |->
    CASE i = 0 -> gen[0] \oplus gen[3]
      [] i = 1 -> gen[1] \oplus gen[2]
      [] i = 2 -> gen[2] \oplus gen[0] \oplus ShiftLeft(gen[1], Shift)
      [] i = 3 -> RotateLeft(gen[3] \oplus gen[1], Turn)]

\* The state behind it: each line of the code uses what the lines before it left.
Successor(gen) ==
  LET t == ShiftLeft(gen[1], Shift)
      s2 == gen[2] \oplus gen[0]
      s3 == gen[3] \oplus gen[1]
      s1 == gen[1] \oplus s2
      s0 == gen[0] \oplus s3
  IN  [i \in Indices |->
        CASE i = 0 -> s0
          [] i = 1 -> s1
          [] i = 2 -> s2 \oplus t
          [] i = 3 -> RotateLeft(s3, Turn)]

------------------------------------------------------------------------------
(* roll. *)

MaxWord == 2^WordBits - 1

Zone(n) == MaxWord - (MaxWord % n)

AcceptedOneTooMany(v, n) == v <= Zone(n)

Accepted(v, n) == v < Zone(n)

FaceOf(v, n) == (v % n) + 1

------------------------------------------------------------------------------
Init ==
  /\ stored \in State \ {Zeros}       \* fresh_state
  /\ s = None
  /\ sides = 0
  /\ face = 0
  /\ rolls = 0

Load ==
  /\ s = None
  /\ FromState(stored) # None
  /\ s' = FromState(stored)
  /\ rolls' = 0
  /\ face' = 0
  /\ UNCHANGED <<stored, sides>>

CallRoll ==
  /\ s # None
  /\ sides = 0
  /\ rolls < MaxRolls
  /\ sides' \in SideCounts
  /\ UNCHANGED <<stored, s, face, rolls>>

\* One turn of the loop in roll.
Draw ==
  /\ sides # 0
  /\ s' = Successor(s)
  /\ IF Accepted(Result(s), sides)
     THEN /\ face' = FaceOf(Result(s), sides)
          /\ sides' = 0
          /\ rolls' = rolls + 1
     ELSE UNCHANGED <<face, sides, rolls>>
  /\ UNCHANGED stored

\* The evaluation succeeds: the successor goes into the row with the message.
Save ==
  /\ s # None
  /\ sides = 0
  /\ stored' = ToState(s)
  /\ s' = None
  /\ UNCHANGED <<sides, face, rolls>>

\* The evaluation fails, or its transaction does: nothing is written.
Fail ==
  /\ s # None
  /\ sides = 0
  /\ s' = None
  /\ UNCHANGED <<stored, sides, face, rolls>>

Next == Load \/ CallRoll \/ Draw \/ Save \/ Fail

Spec == Init /\ [][Next]_vars

------------------------------------------------------------------------------
(* Properties. *)

\* "xoshiro's all-zero state is a fixed point" (rng.rs:22): no number of draws leads
\* to it, so that no row ever holds a state that from_state refuses, which would
\* make every later roll of the room fail.
NeverCorrupt ==
  /\ s # None => \E i \in Indices : s[i] # {}
  /\ stored # Zeros

\* The state before a successor, word by word.
Predecessor(gen) ==
  LET a3 == CHOOSE w \in Word : RotateLeft(w, Turn) = gen[3]
      s0 == gen[0] \oplus a3
      s1 == CHOOSE w \in Word : w \oplus ShiftLeft(w, Shift) = gen[1] \oplus gen[2]
      a2 == gen[1] \oplus s1
  IN  [i \in Indices |->
        CASE i = 0 -> s0
          [] i = 1 -> s1
          [] i = 2 -> a2 \oplus s0
          [] i = 3 -> a3 \oplus s1]

\* No two states have the same successor: the states of a room do not run together,
\* and a sequence of draws comes back to where it began before it repeats itself.
StatesDoNotMerge == s # None => Predecessor(Successor(s)) = s

\* An evaluation goes on exactly where the one before it stopped: what is written to
\* the row is read back as the same generator.
StateRoundTrips ==
  /\ s # None => FromState(ToState(s)) = s
  /\ ToState(FromState(stored)) = stored

\* "Unbiased via rejection sampling" (rng.rs:71): of the numbers that can be drawn,
\* equally many give each face, and at most half are rejected; and a call of roll
\* returns one of the faces, as the trait Roller demands.
FacesAreFair ==
  sides # 0 =>
    LET drawn == 0..MaxWord
        giving(f) == {v \in drawn : Accepted(v, sides) /\ FaceOf(v, sides) = f}
    IN  /\ \A f \in 1..sides : Cardinality(giving(f)) = Cardinality(giving(1))
        /\ 2 * sides * Cardinality(giving(1)) > MaxWord
        /\ {v \in drawn : Accepted(v, sides)} = UNION {giving(f) : f \in 1..sides}
=============================================================================
