---------------------------- MODULE RoomRngProofs ----------------------------
(****************************************************************************)
(* That a room's generator never reaches the state that is refused, that no *)
(* two of its states have the same successor, and that a roll gives every   *)
(* face equally often, for words of every width, for every amount of the    *)
(* shift and the rotation, and for every number of sides that fits a word.  *)
(****************************************************************************)
EXTENDS RoomRng, FiniteSetTheorems, WellFoundedInduction, TLAPS

\* A bit's number is a number, and a word is a set of such.
LEMMA BitsAreNumbers ==
  /\ WordBits \in Nat \ {0}
  /\ 0..WordBits - 1 \subseteq Nat
PROOF
  <1>1. WordBytes \in Nat \ {0} /\ ByteBits \in Nat \ {0}
    BY RngAssumption
  <1>2. WordBits \in Nat \ {0}
    BY <1>1, SMT DEF WordBits
  <1>. QED
    BY <1>2

\* A set of numbers that is not empty has a least one.
LEMMA LeastNumber ==
  ASSUME NEW T \in SUBSET Nat, T # {}
  PROVE  \E n \in T : \A m \in T : n <= m
PROOF
  <1>. DEFINE R == {p \in Nat \X Nat : p[1] < p[2]}
  <1>1. IsWellFoundedOn(R, Nat)
    BY NatLessThanWellFounded DEF OpToRel
  <1>2. \A m, n \in Nat : m < n => <<m, n>> \in R
    OBVIOUS
  <1>. HIDE DEF R
  <1>3. PICK n \in T : \A m \in T : ~ (<<m, n>> \in R)
    BY <1>1, WFMin
  <1>4. \A m \in T : ~ (m < n)
    BY <1>2, <1>3
  <1>. QED
    BY <1>4, SMT

------------------------------------------------------------------------------
(* Words: what ^, << and rotate_left do to them. *)

\* The remainder of a number that is less than twice the divisor.
LEMMA RemainderOnce ==
  ASSUME NEW n \in Nat \ {0}, NEW i \in 0..n - 1, NEW k \in 0..n - 1
  PROVE  (i + k) % n = IF i + k < n THEN i + k ELSE i + k - n
PROOF
  <1>1. CASE i + k < n
    BY <1>1, SMT
  <1>2. CASE i + k >= n
    <2>1. (i + k) = n * 1 + (i + k - n) /\ i + k - n \in 0..n - 1
      BY <1>2, SMT
    <2>. QED
      BY <2>1, <1>2, SMT
  <1>. QED
    BY <1>1, <1>2

\* A rotation loses no bit: different words are rotated to different words, and none
\* but the empty one to the empty one.
LEMMA RotationIsInjective ==
  ASSUME NEW v \in Word, NEW w \in Word, RotateLeft(v, Turn) = RotateLeft(w, Turn)
  PROVE  v = w
PROOF
  <1>1. WordBits \in Nat \ {0} /\ Turn \in 0..WordBits - 1
    BY BitsAreNumbers, RngAssumption DEF WordBits
  <1>2. ASSUME NEW x \in Word, NEW y \in Word, NEW i \in x,
               RotateLeft(x, Turn) \subseteq RotateLeft(y, Turn)
        PROVE  i \in y
    <2>1. i \in 0..WordBits - 1
      BY DEF Word
    <2>2. (i + Turn) % WordBits \in RotateLeft(y, Turn)
      BY <1>2 DEF RotateLeft
    <2>3. PICK j \in y : (j + Turn) % WordBits = (i + Turn) % WordBits
      BY <2>2 DEF RotateLeft
    <2>4. j \in 0..WordBits - 1
      BY DEF Word
    <2>5. /\ (i + Turn) % WordBits
               = IF i + Turn < WordBits THEN i + Turn ELSE i + Turn - WordBits
          /\ (j + Turn) % WordBits
               = IF j + Turn < WordBits THEN j + Turn ELSE j + Turn - WordBits
      BY <1>1, <2>1, <2>4, RemainderOnce
    <2>6. i = j
      BY <1>1, <2>1, <2>3, <2>4, <2>5, SMT
    <2>. QED
      BY <2>6
  <1>3. v \subseteq w /\ w \subseteq v
    BY <1>2
  <1>. QED
    BY <1>3

\* A word and its shift, added: since the shift is by at least one bit, the lowest
\* bit in which two words differ is not made up for.
LEMMA ShiftSumIsInjective ==
  ASSUME NEW v \in Word, NEW w \in Word,
         v \oplus ShiftLeft(v, Shift) = w \oplus ShiftLeft(w, Shift)
  PROVE  v = w
PROOF
  <1>1. WordBits \in Nat \ {0} /\ Shift \in Nat \ {0}
    BY BitsAreNumbers, RngAssumption
  <1>2. SUFFICES ASSUME v # w PROVE FALSE
    OBVIOUS
  <1>. DEFINE D == v \oplus w
  <1>3. D \subseteq Nat /\ D # {}
    BY <1>2, BitsAreNumbers DEF Word, \oplus
  <1>4. PICK n \in D : \A m \in D : n <= m
    BY <1>3, LeastNumber
  <1>5. n \in 0..WordBits - 1
    BY DEF Word, \oplus
  <1>6. (n \in ShiftLeft(v, Shift)) # (n \in ShiftLeft(w, Shift))
    BY <1>4 DEF \oplus
  <1>7. \A x \in Word : n \in ShiftLeft(x, Shift) <=> n - Shift \in x
    <2>1. TAKE x \in Word
    <2>2. ASSUME n \in ShiftLeft(x, Shift) PROVE n - Shift \in x
      <3>1. PICK i \in x : n = i + Shift
        BY <2>2 DEF ShiftLeft
      <3>2. i \in 0..WordBits - 1
        BY DEF Word
      <3>3. i = n - Shift
        BY <1>1, <1>5, <3>1, <3>2, SMT
      <3>. QED
        BY <3>3
    <2>3. ASSUME n - Shift \in x PROVE n \in ShiftLeft(x, Shift)
      <3>1. (n - Shift) + Shift = n /\ n < WordBits
        BY <1>1, <1>5, SMT
      <3>. QED
        BY <2>3, <3>1 DEF ShiftLeft
    <2>. QED
      BY <2>2, <2>3
  <1>8. n - Shift \in D
    BY <1>6, <1>7 DEF \oplus
  <1>9. n - Shift < n /\ n <= n - Shift
    BY <1>1, <1>4, <1>5, <1>8, SMT
  <1>. QED
    BY <1>1, <1>5, <1>9, SMT

\* Adding a word twice is adding nothing.
LEMMA SumCancels ==
  ASSUME NEW v, NEW w
  PROVE  /\ (v \oplus w) \oplus w = v
         /\ (v \oplus w) \oplus v = w
         /\ v \oplus w = w \oplus v
         /\ v \oplus {} = v
         /\ v \oplus v = {}
PROOF
  BY DEF \oplus

\* The operations stay within the width of a word.
LEMMA WordsStayWords ==
  ASSUME NEW v \in Word, NEW w \in Word
  PROVE  /\ v \oplus w \in Word
         /\ ShiftLeft(v, Shift) \in Word
         /\ RotateLeft(v, Turn) \in Word
PROOF
  <1>1. WordBits \in Nat \ {0} /\ Shift \in Nat /\ Turn \in Nat
    <2>1. Turn \in 0..WordBits - 1
      BY RngAssumption DEF WordBits
    <2>. QED
      BY <2>1, BitsAreNumbers, RngAssumption
  <1>2. v \oplus w \in Word
    BY DEF Word, \oplus
  <1>3. ShiftLeft(v, Shift) \in Word
    BY <1>1 DEF Word, ShiftLeft
  <1>4. \A i \in v : (i + Turn) % WordBits \in 0..WordBits - 1
    <2>1. TAKE i \in v
    <2>2. i + Turn \in Nat
      BY <1>1 DEF Word
    <2>. QED
      BY <1>1, <2>2, SMT
  <1>. QED
    BY <1>2, <1>3, <1>4 DEF Word, RotateLeft

------------------------------------------------------------------------------
(* The step from a state to the next. *)

Generator == [Indices -> Word]

\* The words of a successor, and that they are words.
LEMMA SuccessorWords ==
  ASSUME NEW gen \in Generator
  PROVE  /\ Successor(gen) \in Generator
         /\ Successor(gen)[0] = gen[0] \oplus (gen[3] \oplus gen[1])
         /\ Successor(gen)[1] = gen[1] \oplus (gen[2] \oplus gen[0])
         /\ Successor(gen)[2] = (gen[2] \oplus gen[0]) \oplus ShiftLeft(gen[1], Shift)
         /\ Successor(gen)[3] = RotateLeft(gen[3] \oplus gen[1], Turn)
PROOF
  <1>1. /\ Successor(gen)[0] = gen[0] \oplus (gen[3] \oplus gen[1])
        /\ Successor(gen)[1] = gen[1] \oplus (gen[2] \oplus gen[0])
        /\ Successor(gen)[2] = (gen[2] \oplus gen[0]) \oplus ShiftLeft(gen[1], Shift)
        /\ Successor(gen)[3] = RotateLeft(gen[3] \oplus gen[1], Turn)
    BY DEF Successor, Indices
  <1>2. gen[0] \in Word /\ gen[1] \in Word /\ gen[2] \in Word /\ gen[3] \in Word
    BY DEF Generator, Indices
  <1>3. /\ gen[2] \oplus gen[0] \in Word
        /\ gen[3] \oplus gen[1] \in Word
        /\ ShiftLeft(gen[1], Shift) \in Word
    BY <1>2, WordsStayWords
  <1>. DEFINE w0 == gen[0] \oplus (gen[3] \oplus gen[1])
              w1 == gen[1] \oplus (gen[2] \oplus gen[0])
              w2 == (gen[2] \oplus gen[0]) \oplus ShiftLeft(gen[1], Shift)
              w3 == RotateLeft(gen[3] \oplus gen[1], Turn)
  <1>4. Successor(gen) = [i \in Indices |->
                           CASE i = 0 -> w0 [] i = 1 -> w1 [] i = 2 -> w2 [] i = 3 -> w3]
    BY DEF Successor
  <1>5. w0 \in Word /\ w1 \in Word /\ w2 \in Word /\ w3 \in Word
    BY <1>2, <1>3, WordsStayWords
  <1>. HIDE DEF w0, w1, w2, w3
  <1>6. \A i \in Indices :
          (CASE i = 0 -> w0 [] i = 1 -> w1 [] i = 2 -> w2 [] i = 3 -> w3) \in Word
    BY <1>5 DEF Indices
  <1>7. Successor(gen) \in Generator
    BY <1>4, <1>6 DEF Generator
  <1>. QED
    BY <1>1, <1>7

\* Every state is found again from its successor, so no two have the same.
LEMMA SuccessorIsUndone ==
  ASSUME NEW gen \in Generator
  PROVE  Predecessor(Successor(gen)) = gen
PROOF
  <1>. DEFINE next == Successor(gen)
              a3 == CHOOSE w \in Word : RotateLeft(w, Turn) = next[3]
              s1 == CHOOSE w \in Word :
                      w \oplus ShiftLeft(w, Shift) = next[1] \oplus next[2]
              a2 == next[1] \oplus s1
              s0 == next[0] \oplus a3
  <1>1. gen[0] \in Word /\ gen[1] \in Word /\ gen[2] \in Word /\ gen[3] \in Word
    BY DEF Generator, Indices
  <1>2. /\ next[0] = gen[0] \oplus (gen[3] \oplus gen[1])
        /\ next[1] = gen[1] \oplus (gen[2] \oplus gen[0])
        /\ next[2] = (gen[2] \oplus gen[0]) \oplus ShiftLeft(gen[1], Shift)
        /\ next[3] = RotateLeft(gen[3] \oplus gen[1], Turn)
    BY SuccessorWords
  <1>3. a3 = gen[3] \oplus gen[1]
    <2>1. gen[3] \oplus gen[1] \in Word
      BY <1>1, WordsStayWords
    <2>2. a3 \in Word /\ RotateLeft(a3, Turn) = RotateLeft(gen[3] \oplus gen[1], Turn)
      BY <1>2, <2>1
    <2>. QED
      BY <2>1, <2>2, RotationIsInjective
  <1>4. s1 = gen[1]
    <2>1. gen[1] \oplus ShiftLeft(gen[1], Shift) = next[1] \oplus next[2]
      BY <1>2 DEF \oplus
    <2>2. s1 \in Word /\ s1 \oplus ShiftLeft(s1, Shift) = next[1] \oplus next[2]
      BY <1>1, <2>1
    <2>. QED
      BY <1>1, <2>1, <2>2, ShiftSumIsInjective
  <1>. HIDE DEF next, a3, s1
  <1>5. a2 = gen[2] \oplus gen[0]
    <2>1. a2 = (gen[1] \oplus (gen[2] \oplus gen[0])) \oplus gen[1]
      BY <1>2, <1>4
    <2>. QED
      BY <2>1, SumCancels
  <1>6. s0 = gen[0]
    <2>1. s0 = (gen[0] \oplus (gen[3] \oplus gen[1])) \oplus (gen[3] \oplus gen[1])
      BY <1>2, <1>3
    <2>. QED
      BY <2>1, SumCancels
  <1>. HIDE DEF a2, s0
  <1>7. a2 \oplus s0 = gen[2] /\ a3 \oplus s1 = gen[3]
    <2>1. /\ a2 \oplus s0 = (gen[2] \oplus gen[0]) \oplus gen[0]
          /\ a3 \oplus s1 = (gen[3] \oplus gen[1]) \oplus gen[1]
      BY <1>3, <1>4, <1>5, <1>6
    <2>. QED
      BY <2>1, SumCancels
  <1>8. Predecessor(next) = [i \in Indices |->
                              CASE i = 0 -> s0 [] i = 1 -> s1
                                [] i = 2 -> a2 \oplus s0 [] i = 3 -> a3 \oplus s1]
    BY DEF Predecessor, a3, s1, a2, s0
  <1>9. \A i \in Indices : Predecessor(next)[i] = gen[i]
    BY <1>4, <1>6, <1>7, <1>8 DEF Indices
  <1>10. Predecessor(next) = [i \in Indices |-> Predecessor(next)[i]]
    BY <1>8
  <1>11. gen = [i \in Indices |-> gen[i]]
    BY DEF Generator
  <1>12. Predecessor(next) = gen
    BY <1>9, <1>10, <1>11
  <1>. QED
    BY <1>12 DEF next

NonZero(gen) == \E i \in Indices : gen[i] # {}

\* The all-zero state is its own successor, hence that of no other.
LEMMA SuccessorIsNotZero ==
  ASSUME NEW gen \in Generator, NonZero(gen)
  PROVE  NonZero(Successor(gen))
PROOF
  <1>. DEFINE zero == [i \in Indices |-> {}]
  <1>1. zero \in Generator
    BY DEF Generator, Word
  <1>2. SUFFICES ASSUME ~NonZero(Successor(gen)) PROVE FALSE
    OBVIOUS
  <1>3. ShiftLeft({}, Shift) = {} /\ RotateLeft({}, Turn) = {}
    BY DEF ShiftLeft, RotateLeft
  <1>4. \A i \in Indices : Successor(zero)[i] = {}
    BY <1>1, <1>3, SuccessorWords, SumCancels DEF Indices
  <1>5. \A i \in Indices : Successor(gen)[i] = {}
    BY <1>2 DEF NonZero
  <1>6. Successor(gen) = Successor(zero)
    <2>. HIDE DEF zero
    <2>1. /\ Successor(gen) = [i \in Indices |-> Successor(gen)[i]]
          /\ Successor(zero) = [i \in Indices |-> Successor(zero)[i]]
      <3>1. Successor(gen) \in Generator /\ Successor(zero) \in Generator
        BY <1>1, SuccessorWords
      <3>. QED
        BY <3>1 DEF Generator
    <2>. QED
      BY <1>4, <1>5, <2>1
  <1>7. gen = zero
    BY <1>1, <1>6, SuccessorIsUndone
  <1>. QED
    BY <1>7 DEF NonZero

------------------------------------------------------------------------------
(* Words and bytes. *)

\* Every bit of a word is in exactly the byte it is looked for in.
LEMMA BitsOfBytes ==
  /\ \A k \in 0..WordBytes - 1, b \in 0..ByteBits - 1 :
       k * ByteBits + b \in 0..WordBits - 1
  /\ \A j \in 0..WordBits - 1 :
       \E k \in 0..WordBytes - 1, b \in 0..ByteBits - 1 : k * ByteBits + b = j
PROOF
  <1>1. WordBytes \in Nat \ {0} /\ ByteBits \in Nat \ {0}
    BY RngAssumption
  <1>2. ASSUME NEW k \in 0..WordBytes - 1, NEW b \in 0..ByteBits - 1
        PROVE  k * ByteBits + b \in 0..WordBits - 1
    <2>1. k * ByteBits \in Nat
      BY <1>1, SMT
    <2>2. (k + 1) * ByteBits <= WordBytes * ByteBits
      BY <1>1, SMT
    <2>3. (k + 1) * ByteBits = k * ByteBits + ByteBits
      BY <1>1, SMT
    <2>. QED
      BY <1>1, <2>1, <2>2, <2>3, SMT DEF WordBits
  <1>3. ASSUME NEW j \in 0..WordBits - 1
        PROVE  \E k \in 0..WordBytes - 1, b \in 0..ByteBits - 1 : k * ByteBits + b = j
    <2>. DEFINE k == j \div ByteBits
                b == j % ByteBits
    <2>1. k \in Nat /\ b \in 0..ByteBits - 1 /\ j = k * ByteBits + b
      BY <1>1, BitsAreNumbers, SMT
    <2>2. k <= WordBytes - 1
      <3>. HIDE DEF k, b
      <3>1. SUFFICES ASSUME k >= WordBytes PROVE FALSE
        BY <1>1, <2>1, SMT
      <3>2. k * ByteBits >= WordBytes * ByteBits
        BY <1>1, <2>1, <3>1, SMT
      <3>. QED
        BY <1>1, <2>1, <3>2, SMT DEF WordBits
    <2>3. k \in 0..WordBytes - 1
      BY <1>1, <2>1, <2>2, SMT
    <2>. QED
      BY <2>1, <2>3
  <1>. QED
    BY <1>2, <1>3

\* And in no other.
LEMMA BytesAreApart ==
  ASSUME NEW k \in 0..WordBytes - 1, NEW b \in 0..ByteBits - 1,
         NEW m \in 0..WordBytes - 1, NEW c \in 0..ByteBits - 1,
         k * ByteBits + b = m * ByteBits + c
  PROVE  k = m /\ b = c
PROOF
  <1>1. WordBytes \in Nat \ {0} /\ ByteBits \in Nat \ {0}
    BY RngAssumption
  <1>2. ASSUME NEW i \in Nat, NEW j \in Nat, i < j
        PROVE  i * ByteBits + ByteBits <= j * ByteBits
    <2>1. (i + 1) * ByteBits <= j * ByteBits
      BY <1>1, <1>2, SMT
    <2>2. (i + 1) * ByteBits = i * ByteBits + ByteBits
      BY <1>1, SMT
    <2>. QED
      BY <2>1, <2>2
  <1>3. k \in Nat /\ m \in Nat /\ k * ByteBits \in Nat /\ m * ByteBits \in Nat
    BY <1>1, SMT
  <1>4. ~(k < m)
    <2>1. k < m => k * ByteBits + ByteBits <= m * ByteBits
      BY <1>2, <1>3
    <2>. QED
      BY <1>1, <1>3, <2>1, SMT
  <1>5. ~(m < k)
    <2>1. m < k => m * ByteBits + ByteBits <= k * ByteBits
      BY <1>2, <1>3
    <2>. QED
      BY <1>1, <1>3, <2>1, SMT
  <1>6. k = m
    BY <1>3, <1>4, <1>5, SMT
  <1>. QED
    BY <1>1, <1>3, <1>6, SMT

\* What a state that is not all zero is read as: a generator that is not all zero.
LEMMA StateIsRead ==
  ASSUME NEW state \in State, state # Zeros
  PROVE  FromState(state) \in Generator /\ NonZero(FromState(state))
PROOF
  <1>. DEFINE word(i) == UNION {{k * ByteBits + b : b \in state[i][k]} :
                                  k \in 0..WordBytes - 1}
  <1>1. FromState(state) = [i \in Indices |-> word(i)]
    BY DEF FromState
  <1>2. \A i \in Indices, k \in 0..WordBytes - 1 : state[i][k] \subseteq 0..ByteBits - 1
    BY DEF State, Byte
  <1>3. \A i \in Indices : word(i) \in Word
    BY <1>2, BitsOfBytes DEF Word
  <1>4. \E i \in Indices, k \in 0..WordBytes - 1 : state[i][k] # {}
    <2>1. SUFFICES ASSUME \A i \in Indices, k \in 0..WordBytes - 1 : state[i][k] = {}
                   PROVE  FALSE
      OBVIOUS
    <2>2. \A i \in Indices : state[i] = [k \in 0..WordBytes - 1 |-> {}]
      BY <2>1 DEF State
    <2>3. state = Zeros
      BY <2>2 DEF State, Zeros
    <2>. QED
      BY <2>3
  <1>5. \E i \in Indices : word(i) # {}
    <2>1. PICK i \in Indices, k \in 0..WordBytes - 1 : state[i][k] # {}
      BY <1>4
    <2>2. PICK b \in state[i][k] : TRUE
      BY <2>1
    <2>3. k * ByteBits + b \in word(i)
      BY <2>2
    <2>. QED
      BY <2>3
  <1>. QED
    BY <1>1, <1>3, <1>5 DEF Generator, NonZero

\* Writing a generator and reading it gives the generator.
LEMMA WrittenIsRead ==
  ASSUME NEW gen \in Generator, NonZero(gen)
  PROVE  /\ ToState(gen) \in State
         /\ ToState(gen) # Zeros
         /\ FromState(ToState(gen)) = gen
PROOF
  <1>. DEFINE state == ToState(gen)
              word(i) == UNION {{k * ByteBits + b : b \in state[i][k]} :
                                  k \in 0..WordBytes - 1}
  <1>1. state \in State
    BY DEF ToState, State, Byte
  <1>2. \A i \in Indices, k \in 0..WordBytes - 1 :
          state[i][k] = {b \in 0..ByteBits - 1 : k * ByteBits + b \in gen[i]}
    BY DEF ToState
  <1>3. \A i \in Indices : gen[i] \subseteq 0..WordBits - 1
    BY DEF Generator, Word
  <1>. HIDE DEF state
  <1>4. ASSUME NEW i \in Indices PROVE word(i) = gen[i]
    <2>1. ASSUME NEW j \in gen[i] PROVE j \in word(i)
      <3>1. PICK k \in 0..WordBytes - 1, b \in 0..ByteBits - 1 : k * ByteBits + b = j
        BY <1>3, BitsOfBytes
      <3>2. b \in state[i][k]
        BY <1>2, <3>1
      <3>. QED
        BY <3>1, <3>2
    <2>2. ASSUME NEW j \in word(i) PROVE j \in gen[i]
      <3>1. PICK k \in 0..WordBytes - 1 : \E b \in state[i][k] : j = k * ByteBits + b
        OBVIOUS
      <3>. QED
        BY <1>2, <3>1
    <2>. QED
      BY <2>1, <2>2
  <1>5. state # Zeros
    <2>1. PICK i \in Indices : word(i) # {}
      BY <1>4 DEF NonZero
    <2>2. PICK k \in 0..WordBytes - 1 : state[i][k] # {}
      BY <2>1
    <2>. QED
      BY <2>2 DEF Zeros
  <1>6. FromState(state) = [i \in Indices |-> word(i)]
    BY <1>5 DEF FromState
  <1>7. FromState(state) = gen
    <2>1. gen = [i \in Indices |-> gen[i]]
      BY DEF Generator
    <2>. QED
      BY <1>4, <1>6, <2>1
  <1>. QED
    BY <1>1, <1>5, <1>7 DEF state

\* Reading a state and writing it gives the state.
LEMMA ReadIsWritten ==
  ASSUME NEW state \in State, state # Zeros
  PROVE  ToState(FromState(state)) = state
PROOF
  <1>. DEFINE gen == FromState(state)
              byte(i, k) == {b \in 0..ByteBits - 1 : k * ByteBits + b \in gen[i]}
  <1>1. \A i \in Indices :
          gen[i] = UNION {{m * ByteBits + c : c \in state[i][m]} : m \in 0..WordBytes - 1}
    BY DEF FromState
  <1>2. \A i \in Indices, k \in 0..WordBytes - 1 : state[i][k] \subseteq 0..ByteBits - 1
    BY DEF State, Byte
  <1>. HIDE DEF gen
  <1>3. ASSUME NEW i \in Indices, NEW k \in 0..WordBytes - 1 PROVE byte(i, k) = state[i][k]
    <2>1. ASSUME NEW b \in state[i][k] PROVE b \in byte(i, k)
      BY <1>1, <1>2
    <2>2. ASSUME NEW b \in byte(i, k) PROVE b \in state[i][k]
      <3>1. PICK m \in 0..WordBytes - 1 :
              \E c \in state[i][m] : k * ByteBits + b = m * ByteBits + c
        BY <1>1
      <3>2. PICK c \in state[i][m] : k * ByteBits + b = m * ByteBits + c
        BY <3>1
      <3>3. b \in 0..ByteBits - 1 /\ c \in 0..ByteBits - 1
        BY <1>2
      <3>4. k = m /\ b = c
        BY <3>2, <3>3, BytesAreApart
      <3>. QED
        BY <3>4
    <2>. QED
      BY <2>1, <2>2
  <1>4. ToState(gen) = [i \in Indices |-> [k \in 0..WordBytes - 1 |-> byte(i, k)]]
    BY DEF ToState
  <1>5. \A i \in Indices : state[i] = [k \in 0..WordBytes - 1 |-> state[i][k]]
    BY DEF State
  <1>6. state = [i \in Indices |-> state[i]]
    BY DEF State
  <1>. HIDE DEF byte
  <1>7. \A i \in Indices : [k \in 0..WordBytes - 1 |-> byte(i, k)] = state[i]
    BY <1>3, <1>5
  <1>8. ToState(gen) = state
    BY <1>4, <1>6, <1>7
  <1>. QED
    BY <1>8 DEF gen

------------------------------------------------------------------------------
(* Rejection sampling: how many of the numbers that can be drawn give a face. *)

\* A number is in one way a multiple and a remainder.
LEMMA DivisionOnce ==
  ASSUME NEW n \in Nat \ {0}, NEW k \in Nat, NEW r \in 0..n - 1
  PROVE  (n * k + r) % n = r /\ (n * k + r) \div n = k
  BY SMT

LEMMA Divided ==
  ASSUME NEW n \in Nat \ {0}, NEW v \in Nat
  PROVE  /\ v \div n \in Nat
         /\ v % n \in 0..n - 1
         /\ v = n * (v \div n) + (v % n)
PROOF
  <1>1. v \div n \in Nat
    BY SMT
  <1>2. n * (v \div n) <= v /\ v < n * (v \div n) + n
    BY SMTT(30)
  <1>. DEFINE q == v \div n
              r == v - n * q
  <1>3. r \in 0..n - 1 /\ v = n * q + r
    BY <1>1, <1>2, SMT
  <1>. HIDE DEF r
  <1>4. (n * q + r) % n = r
    BY <1>1, <1>3, DivisionOnce
  <1>. QED
    BY <1>1, <1>3, <1>4

\* Of as many whole turns of n numbers as fit below a number: which turn a number
\* is in.
LEMMA TurnsBelow ==
  ASSUME NEW n \in Nat \ {0}, NEW q \in Nat, NEW k \in Nat, NEW r \in 0..n - 1
  PROVE  n * k + r < n * q <=> k < q
PROOF
  <1>1. ASSUME n * k + r < n * q PROVE k < q
    BY <1>1, SMT
  <1>2. ASSUME k < q PROVE n * k + r < n * q
    BY <1>2, SMT
  <1>. QED
    BY <1>1, <1>2

LEMMA WordsAreNumbers == MaxWord \in Nat
PROOF
  <1>. DEFINE bits == 1..WordBits
  <1>1. WordBits \in Nat
    BY BitsAreNumbers
  <1>2. IsFiniteSet(bits) /\ Cardinality(bits) = WordBits
    BY <1>1, FS_Interval, SMT
  <1>3. IsFiniteSet(SUBSET bits) /\ Cardinality(SUBSET bits) = 2^WordBits
    BY <1>2, FS_SUBSET
  <1>4. 2^WordBits \in Nat /\ 2^WordBits # 0
    BY <1>3, FS_CardinalityType, FS_EmptySet
  <1>. QED
    BY <1>4, SMT DEF MaxWord

\* The numbers that give a face.
Giving(n, f) == {v \in 0..MaxWord : Accepted(v, n) /\ FaceOf(v, n) = f}

\* The zone is a multiple of the sides ...
LEMMA ZoneIsWhole ==
  ASSUME NEW n \in Nat \ {0}
  PROVE  Zone(n) = n * (MaxWord \div n)
PROOF
  <1>1. /\ MaxWord \div n \in Nat
        /\ MaxWord % n \in 0..n - 1
        /\ MaxWord = n * (MaxWord \div n) + (MaxWord % n)
    BY Divided, WordsAreNumbers
  <1>. DEFINE q == MaxWord \div n
              r == MaxWord % n
  <1>2. n * q \in Int /\ r \in Int /\ MaxWord = n * q + r
    BY <1>1, WordsAreNumbers, SMT
  <1>3. Zone(n) = MaxWord - r
    BY DEF Zone
  <1>. HIDE DEF q, r
  <1>4. Zone(n) = n * q
    BY <1>2, <1>3, SMT
  <1>. QED
    BY <1>4 DEF q

\* ... so that every face is given by as many numbers as turns fit the zone.
LEMMA GivenEquallyOften ==
  ASSUME NEW n \in Nat \ {0}, NEW f \in 1..n
  PROVE  Cardinality(Giving(n, f)) = MaxWord \div n
PROOF
  <1>. DEFINE q == MaxWord \div n
              number == [k \in 0..q - 1 |-> n * k + (f - 1)]
  <1>1. q \in Nat /\ MaxWord % n \in 0..n - 1 /\ MaxWord = n * q + (MaxWord % n)
    BY Divided, WordsAreNumbers
  <1>2. Zone(n) = n * q /\ n * q \in Nat /\ n * q <= MaxWord
    <2>1. Zone(n) = n * q
      BY ZoneIsWhole
    <2>2. n * q \in Nat
      BY <1>1, SMT
    <2>3. n * q <= MaxWord
      BY <1>1, <2>2, WordsAreNumbers, SMT
    <2>. QED
      BY <2>1, <2>2, <2>3
  <1>. HIDE DEF q
  <1>3. f - 1 \in 0..n - 1
    BY SMT
  <1>4. \A k \in 0..q - 1 : number[k] \in Giving(n, f)
    <2>. SUFFICES ASSUME NEW k \in 0..q - 1 PROVE n * k + (f - 1) \in Giving(n, f)
      OBVIOUS
    <2>. DEFINE r == f - 1
    <2>1. k \in Nat /\ k < q /\ r \in 0..n - 1 /\ r + 1 = f
      BY <1>1, <1>3, SMT
    <2>. HIDE DEF r
    <2>2. n * k + r < n * q
      BY <1>1, <2>1, TurnsBelow
    <2>3. (n * k + r) % n = r
      BY <2>1, DivisionOnce
    <2>4. n * k + r \in Nat
      BY <2>1, SMT
    <2>5. n * k + r \in 0..MaxWord
      BY <1>2, <2>2, <2>4, WordsAreNumbers, SMT
    <2>6. Accepted(n * k + r, n) /\ FaceOf(n * k + r, n) = f
      BY <1>2, <2>1, <2>2, <2>3 DEF Accepted, FaceOf
    <2>. QED
      BY <2>5, <2>6 DEF Giving, r
  <1>5. \A v \in Giving(n, f) : v \div n \in 0..q - 1 /\ v = n * (v \div n) + (f - 1)
    <2>. SUFFICES ASSUME NEW v \in Giving(n, f)
                  PROVE  v \div n \in 0..q - 1 /\ v = n * (v \div n) + (f - 1)
      OBVIOUS
    <2>1. v \in Nat /\ v < n * q /\ (v % n) + 1 = f
      BY <1>2, WordsAreNumbers, SMT DEF Giving, Accepted, FaceOf
    <2>2. v \div n \in Nat /\ v % n \in 0..n - 1 /\ v = n * (v \div n) + (v % n)
      BY <2>1, Divided
    <2>. DEFINE k == v \div n
                r == v % n
    <2>3. k \in Nat /\ r \in 0..n - 1 /\ v = n * k + r /\ r + 1 = f
      BY <2>1, <2>2
    <2>. HIDE DEF k, r
    <2>4. k < q
      BY <1>1, <2>1, <2>3, TurnsBelow
    <2>5. k \in 0..q - 1 /\ r = f - 1
      BY <1>1, <2>3, <2>4, SMT
    <2>. QED
      BY <2>3, <2>5 DEF k
  <1>6. \A j, k \in 0..q - 1 : number[j] = number[k] => j = k
    <2>. SUFFICES ASSUME NEW j \in 0..q - 1, NEW k \in 0..q - 1,
                         n * j + (f - 1) = n * k + (f - 1)
                  PROVE  j = k
      OBVIOUS
    <2>1. j \in Nat /\ k \in Nat
      BY <1>1, SMT
    <2>2. (n * j + (f - 1)) \div n = j /\ (n * k + (f - 1)) \div n = k
      BY <1>3, <2>1, DivisionOnce
    <2>. QED
      BY <2>2
  <1>7. number \in Bijection(0..q - 1, Giving(n, f))
    <2>1. number \in [0..q - 1 -> Giving(n, f)]
      BY <1>4
    <2>2. \A v \in Giving(n, f) : \E k \in 0..q - 1 : number[k] = v
      BY <1>5
    <2>. HIDE DEF number
    <2>. QED
      BY <1>6, <2>1, <2>2 DEF Bijection, Injection, Surjection, IsInjective
  <1>8. IsFiniteSet(0..q - 1) /\ Cardinality(0..q - 1) = q
    <2>1. 0 \in Int /\ q - 1 \in Int /\ (IF 0 > q - 1 THEN 0 ELSE (q - 1) - 0 + 1) = q
      BY <1>1, SMT
    <2>. QED
      BY <2>1, FS_Interval
  <1>. QED
    BY <1>7, <1>8, FS_Bijection DEF ExistsBijection, q

\* At least half of what can be drawn is accepted: what is cut off is at most one turn,
\* and there is at least one turn before it.
LEMMA MostAreAccepted ==
  ASSUME NEW n \in 1..MaxWord
  PROVE  2 * n * (MaxWord \div n) > MaxWord
PROOF
  <1>. DEFINE q == MaxWord \div n
              r == MaxWord % n
  <1>1. n \in Nat \ {0} /\ n <= MaxWord
    BY WordsAreNumbers, SMT
  <1>2. q \in Nat /\ r \in 0..n - 1 /\ MaxWord = n * q + r
    BY <1>1, Divided, WordsAreNumbers
  <1>. HIDE DEF q, r
  <1>3. 2 * n * q > MaxWord
    BY <1>1, <1>2, WordsAreNumbers, SMT
  <1>. QED
    BY <1>3 DEF q

------------------------------------------------------------------------------
(* The invariant: neither the row nor the generator is ever all zero. *)

RngInv ==
  /\ stored \in State
  /\ stored # Zeros
  /\ s # None \/ sides # 0 => s \in Generator /\ NonZero(s)

\* The invariant holds: every step keeps it, in whatever width.
THEOREM RngInvariance == Spec => []RngInv
PROOF
  <1>1. Init => RngInv
    BY DEF Init, RngInv
  <1>2. RngInv /\ [Next]_vars => RngInv'
    <2>. SUFFICES ASSUME RngInv, [Next]_vars PROVE RngInv'
      OBVIOUS
    <2>1. CASE Load
      <3>1. s' = FromState(stored) /\ stored' = stored /\ s' # None
        BY <2>1 DEF Load
      <3>2. s' \in Generator /\ NonZero(s)'
        BY <3>1, StateIsRead DEF RngInv, NonZero
      <3>. QED
        BY <3>1, <3>2 DEF RngInv
    <2>2. CASE CallRoll
      BY <2>2 DEF CallRoll, RngInv, NonZero
    <2>3. CASE Draw
      <3>1. s \in Generator /\ NonZero(s) /\ s' = Successor(s) /\ stored' = stored
        BY <2>3 DEF Draw, RngInv
      <3>2. s' \in Generator /\ NonZero(s)'
        BY <3>1, SuccessorWords, SuccessorIsNotZero DEF NonZero
      <3>. QED
        BY <3>1, <3>2 DEF RngInv
    <2>4. CASE Save
      <3>1. s \in Generator /\ NonZero(s) /\ stored' = ToState(s)
        BY <2>4 DEF Save, RngInv
      <3>2. stored' \in State /\ stored' # Zeros
        BY <3>1, WrittenIsRead
      <3>. QED
        BY <2>4, <3>2 DEF Save, RngInv
    <2>5. CASE Fail
      BY <2>5 DEF Fail, RngInv
    <2>6. CASE UNCHANGED vars
      BY <2>6 DEF vars, RngInv, NonZero
    <2>. QED
      BY <2>1, <2>2, <2>3, <2>4, <2>5, <2>6 DEF Next
  <1>. QED
    BY <1>1, <1>2, PTL DEF Spec

\* No number of draws leads to the all-zero state, and no row holds it.
THEOREM NeverRefused == Spec => []NeverCorrupt
PROOF
  <1>1. RngInv => NeverCorrupt
    BY DEF RngInv, NonZero, NeverCorrupt
  <1>. QED
    BY <1>1, RngInvariance, PTL

\* No two states have the same successor.
THEOREM NoTwoMeet == Spec => []StatesDoNotMerge
PROOF
  <1>1. RngInv => StatesDoNotMerge
    BY SuccessorIsUndone DEF RngInv, StatesDoNotMerge
  <1>. QED
    BY <1>1, RngInvariance, PTL

\* A generator survives being written to the row and read from it.
THEOREM GeneratorSurvives == Spec => []StateRoundTrips
PROOF
  <1>1. RngInv => StateRoundTrips
    BY WrittenIsRead, ReadIsWritten DEF RngInv, StateRoundTrips
  <1>. QED
    BY <1>1, RngInvariance, PTL

\* A call of roll is fair, whatever number of sides that a word can hold.
THEOREM RollsAreFair == Spec => []FacesAreFair
PROOF
  <1>. DEFINE Asked == sides \in SideCounts \cup {0}
  <1>1. Spec => []Asked
    <2>1. Init => Asked
      BY DEF Init
    <2>2. Asked /\ [Next]_vars => Asked'
      BY DEF Next, Load, CallRoll, Draw, Save, Fail, vars
    <2>. QED
      BY <2>1, <2>2, PTL DEF Spec
  <1>2. Asked => FacesAreFair
    <2>. SUFFICES ASSUME sides \in SideCounts PROVE FacesAreFair
      BY DEF FacesAreFair
    <2>1. sides \in 1..MaxWord
      BY RngAssumption DEF MaxWord, WordBits
    <2>2. sides \in Nat \ {0} /\ 1 \in 1..sides
      BY <2>1, WordsAreNumbers, SMT
    <2>3. \A f \in 1..sides : Cardinality(Giving(sides, f)) = MaxWord \div sides
      BY <2>2, GivenEquallyOften
    <2>4. 2 * sides * Cardinality(Giving(sides, 1)) > MaxWord
      BY <2>1, <2>2, <2>3, MostAreAccepted
    <2>5. ASSUME NEW v \in 0..MaxWord
          PROVE  FaceOf(v, sides) \in 1..sides
      <3>1. v \in Nat
        BY WordsAreNumbers, SMT
      <3>2. v % sides \in 0..sides - 1
        BY <2>2, <3>1, Divided
      <3>. QED
        BY <2>2, <3>2, SMT DEF FaceOf
    <2>6. {v \in 0..MaxWord : Accepted(v, sides)} = UNION {Giving(sides, f) : f \in 1..sides}
      <3>1. ASSUME NEW v \in 0..MaxWord, Accepted(v, sides)
            PROVE  v \in UNION {Giving(sides, f) : f \in 1..sides}
        <4>1. v \in Giving(sides, FaceOf(v, sides))
          BY <3>1 DEF Giving
        <4>. QED
          BY <2>5, <4>1
      <3>2. ASSUME NEW f \in 1..sides, NEW v \in Giving(sides, f)
            PROVE  v \in 0..MaxWord /\ Accepted(v, sides)
        BY DEF Giving
      <3>. QED
        BY <3>1, <3>2
    <2>. QED
      BY <2>2, <2>3, <2>4, <2>6 DEF FacesAreFair, Giving
  <1>. QED
    BY <1>1, <1>2, PTL
=============================================================================
