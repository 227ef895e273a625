---------------------------- MODULE DiceExprProofs ----------------------------
(****************************************************************************)
(* That the evaluation of an expression does what SPEC 8.2 says, for every  *)
(* expression, every limit and every Roller: rerolls and explosions come to *)
(* an end, keep and drop leave the best, the sums are exact, and what the   *)
(* page shows adds up.                                                      *)
(*                                                                          *)
(* The sums and products of the model are folds of the community modules.   *)
(* A fold is the CHOICE of a function on the subsets of 1..n that satisfies *)
(* an equation: the lemmas here first show that there is one, and then work *)
(* with what it does from one number to the next.                           *)
(****************************************************************************)
EXTENDS DiceExpr, FiniteSetTheorems, SequenceTheorems, WellFoundedInduction, TLAPS

------------------------------------------------------------------------------
(* The inductive invariant. *)

DieRecord ==
  [value : Int, rerolled : Seq(Int), exploded : BOOLEAN, dropped : BOOLEAN,
   success : BOOLEAN]

Passes ==
  {"idle", "start", "roll", "reroll", "explode", "keep", "value", "done",
   "RerollUnsatisfiable", "RerollLimit"}

\* What elements a sequence has does not matter: that of outcomes depends on sums.
IsSequence(q) ==
  /\ Len(q) \in Nat
  /\ q = [i \in 1..Len(q) |-> q[i]]

ExprTypeOK == expr \in Exprs /\ IsSequence(outcomes) /\ IsSequence(products)

EvalTypeOK ==
  /\ pc \in Passes
  /\ pc # "idle" => term \in TermRecord
  /\ dice \in Seq(DieRecord)
  /\ at \in Nat \ {0}
  /\ depth \in Nat

\* The initial pool is rolled: nothing has exploded, and there is a newest die if it
\* is to be rerolled.
PoolInv ==
  /\ pc \in {"start", "roll", "reroll"} =>
       /\ at = 1
       /\ depth = 0
       /\ Len(dice) <= term.count
       /\ \A i \in DOMAIN dice : ~dice[i].exploded
  /\ pc = "reroll" => dice # <<>> /\ term.reroll # None
  /\ pc = "explode" => term.explode /\ term.sides # Fate

\* What a die has discarded by a reroll suffix.
DiscardedLow(reroll, die) ==
  /\ \A k \in DOMAIN die.rerolled : die.rerolled[k] <= reroll.n
  /\ Len(die.rerolled) <= MaxRerolls
  /\ reroll.kind = "ro" => Len(die.rerolled) <= 1
  /\ die.exploded => die.rerolled = <<>>

\* What a die that is done with its rerolls shows.
ShowsHigh(reroll, die) == reroll.kind = "r" /\ ~die.exploded => die.value > reroll.n

\* Only the newest die of the initial pool may still be rerolled.
RerollInv ==
  pc # "idle" /\ term.reroll # None =>
    \A i \in DOMAIN dice :
      /\ DiscardedLow(term.reroll, dice[i])
      /\ \/ pc \in {"reroll", "RerollLimit"} /\ i = Len(dice)
         \/ ShowsHigh(term.reroll, dice[i])

InitialDice(q) == {i \in DOMAIN q : ~q[i].exploded}

\* The dice behind the die i up to the die m are all that it has exploded into, and
\* all that it had to.
Run(q, sides, i, m) ==
  /\ m \in i..Len(q)
  /\ \A k \in i + 1..m : q[k].exploded
  /\ m < Len(q) => ~q[m + 1].exploded
  /\ m - i <= MaxDepth
  /\ \A k \in i..m - 1 : q[k].value = sides
  /\ q[m].value = sides => m - i = MaxDepth

\* The pass over the pool q has run the dice in front of the die a to their ends and
\* has added d dice to that one.
Exploding(q, t, a, d) ==
  /\ Cardinality(InitialDice(q)) = t.count
  /\ a + d <= Len(q) \/ (a = Len(q) + 1 /\ d = 0)
  /\ d <= MaxDepth
  /\ \A k \in a + 1..a + d : q[k].exploded
  /\ \A k \in DOMAIN q : k = a \/ k > a + d => ~q[k].exploded
  /\ \A k \in a..a + d - 1 : q[k].value = t.sides
  /\ \A i \in InitialDice(q) : i < a => \E m \in i..a - 1 : Run(q, t.sides, i, m)

AllExploded(q, t) ==
  /\ Cardinality(InitialDice(q)) = t.count
  /\ \A i \in InitialDice(q) : \E m \in i..Len(q) : Run(q, t.sides, i, m)

ChainInv ==
  /\ pc = "explode" => Exploding(dice, term, at, depth)
  /\ pc \in {"keep", "value", "done"} /\ term.explode /\ term.sides # Fate =>
       AllExploded(dice, term)

EvalInv == EvalTypeOK /\ PoolInv /\ RerollInv /\ ChainInv

ExprInv == ExprTypeOK /\ EvalInv

------------------------------------------------------------------------------
(* Sequences. *)

LEMMA AppendedSequence ==
  ASSUME NEW q, NEW e, IsSequence(q)
  PROVE  IsSequence(Append(q, e))
PROOF
  <1>. DEFINE S == {q[i] : i \in 1..Len(q)} \cup {e}
              r == Append(q, e)
  <1>1. Len(q) \in Nat /\ q = [i \in 1..Len(q) |-> q[i]]
    BY DEF IsSequence
  <1>2. q \in [1..Len(q) -> S]
    BY <1>1
  <1>3. q \in Seq(S)
    BY <1>1, <1>2, SeqDef
  <1>4. e \in S
    OBVIOUS
  <1>. HIDE DEF S
  <1>5. r \in Seq(S)
    BY <1>3, <1>4, AppendProperties
  <1>. HIDE DEF r
  <1>6. Len(r) \in Nat /\ r \in [1..Len(r) -> S]
    BY <1>5, LenProperties
  <1>7. IsSequence(r)
    BY <1>6 DEF IsSequence
  <1>. QED
    BY <1>7 DEF r

\* What is in a sequence behind which an element has come.
LEMMA AppendedElements ==
  ASSUME NEW q, NEW e, IsSequence(q)
  PROVE  /\ DOMAIN q = 1..Len(q)
         /\ Len(Append(q, e)) = Len(q) + 1
         /\ DOMAIN Append(q, e) = 1..Len(q) + 1
         /\ \A i \in 1..Len(q) : Append(q, e)[i] = q[i]
         /\ Append(q, e)[Len(q) + 1] = e
PROOF
  <1>. DEFINE S == {q[i] : i \in 1..Len(q)} \cup {e}
  <1>1. Len(q) \in Nat /\ q = [i \in 1..Len(q) |-> q[i]]
    BY DEF IsSequence
  <1>2. q \in [1..Len(q) -> S]
    BY <1>1
  <1>3. q \in Seq(S)
    BY <1>1, <1>2, SeqDef
  <1>4. e \in S
    OBVIOUS
  <1>. HIDE DEF S
  <1>5. /\ Append(q, e) \in Seq(S)
        /\ Len(Append(q, e)) = Len(q) + 1
        /\ \A i \in 1..Len(q) : Append(q, e)[i] = q[i]
        /\ Append(q, e)[Len(q) + 1] = e
    BY <1>3, <1>4, AppendProperties
  <1>6. DOMAIN Append(q, e) = 1..Len(Append(q, e))
    BY <1>5, LenProperties
  <1>. QED
    BY <1>1, <1>5, <1>6

\* The first k elements of a sequence.
LEMMA Prefix ==
  ASSUME NEW q, IsSequence(q), NEW k \in 0..Len(q)
  PROVE  /\ IsSequence(SubSeq(q, 1, k))
         /\ Len(SubSeq(q, 1, k)) = k
         /\ \A i \in 1..k : SubSeq(q, 1, k)[i] = q[i]
         /\ k = Len(q) => SubSeq(q, 1, k) = q
PROOF
  <1>. DEFINE S == {q[i] : i \in 1..Len(q)}
  <1>1. Len(q) \in Nat /\ q = [i \in 1..Len(q) |-> q[i]]
    BY DEF IsSequence
  <1>2. q \in [1..Len(q) -> S]
    BY <1>1
  <1>3. q \in Seq(S) /\ k \in Nat /\ k <= Len(q)
    BY <1>1, <1>2, SeqDef
  <1>. HIDE DEF S
  <1>4. \A i \in 1..k : q[i] \in S
    BY <1>2, <1>3
  <1>5. /\ SubSeq(q, 1, k) \in Seq(S)
        /\ Len(SubSeq(q, 1, k)) = IF 1 <= k THEN k - 1 + 1 ELSE 0
        /\ \A i \in 1..k - 1 + 1 : SubSeq(q, 1, k)[i] = q[1 + i - 1]
    BY <1>1, <1>3, <1>4, SubSeqProperties
  <1>. DEFINE r == SubSeq(q, 1, k)
  <1>. HIDE DEF r
  <1>6. r \in Seq(S) /\ Len(r) = k /\ \A i \in 1..k : r[i] = q[i]
    BY <1>3, <1>5 DEF r
  <1>7. r = [i \in 1..k |-> r[i]]
    BY <1>6, LenProperties
  <1>8. IsSequence(r)
    BY <1>3, <1>6, <1>7 DEF IsSequence
  <1>9. k = Len(q) => r = q
    BY <1>1, <1>6, <1>7
  <1>. QED
    BY <1>6, <1>8, <1>9 DEF r

\* Sequences with the same first k elements have the same prefix.
LEMMA SamePrefix ==
  ASSUME NEW q, NEW r, IsSequence(q), IsSequence(r), NEW k \in Nat,
         k <= Len(q), k <= Len(r), \A i \in 1..k : q[i] = r[i]
  PROVE  SubSeq(q, 1, k) = SubSeq(r, 1, k)
PROOF
  <1>1. k \in 0..Len(q) /\ k \in 0..Len(r)
    BY DEF IsSequence
  <1>. DEFINE a == SubSeq(q, 1, k)
              b == SubSeq(r, 1, k)
  <1>2. IsSequence(a) /\ Len(a) = k /\ \A i \in 1..k : a[i] = q[i]
    BY <1>1, Prefix
  <1>3. IsSequence(b) /\ Len(b) = k /\ \A i \in 1..k : b[i] = r[i]
    BY <1>1, Prefix
  <1>. HIDE DEF a, b
  <1>4. a = [i \in 1..k |-> a[i]] /\ b = [i \in 1..k |-> b[i]]
    BY <1>2, <1>3 DEF IsSequence
  <1>5. a = b
    BY <1>2, <1>3, <1>4
  <1>. QED
    BY <1>5 DEF a, b

LEMMA PrefixOfAppended ==
  ASSUME NEW q, NEW e, IsSequence(q), NEW k \in 0..Len(q)
  PROVE  SubSeq(Append(q, e), 1, k) = SubSeq(q, 1, k)
PROOF
  <1>1. IsSequence(Append(q, e)) /\ Len(q) \in Nat
    BY AppendedSequence DEF IsSequence
  <1>2. /\ Len(Append(q, e)) = Len(q) + 1
        /\ \A i \in 1..Len(q) : Append(q, e)[i] = q[i]
    BY AppendedElements
  <1>3. k \in Nat /\ k <= Len(q) /\ k <= Len(q) + 1 /\ \A i \in 1..k : i \in 1..Len(q)
    BY <1>1
  <1>. QED
    BY <1>1, <1>2, <1>3, SamePrefix

\* An element comes in behind the first p, and those behind it move up.
IsInserted(q, p, e, r) ==
  /\ Len(r) = Len(q) + 1
  /\ \A k \in 1..p : r[k] = q[k]
  /\ r[p + 1] = e
  /\ \A k \in p + 2..Len(q) + 1 : r[k] = q[k - 1]

LEMMA Inserted ==
  ASSUME NEW S, NEW q \in Seq(S), NEW p \in 0..Len(q), NEW e \in S,
         NEW r, r = InsertAt(q, p + 1, e)
  PROVE  r \in Seq(S) /\ IsInserted(q, p, e, r)
PROOF
  <1>. DEFINE n == Len(q)
              front == SubSeq(q, 1, p)
              back == SubSeq(q, p + 1, n)
  <1>1. n \in Nat /\ p \in Nat /\ p <= n /\ \A i \in 1..n : q[i] \in S
    BY LenProperties, ElementOfSeq
  <1>2. r = (front \o <<e>>) \o back
    <2>1. (p + 1) - 1 = p
      BY <1>1, SMT
    <2>. QED
      BY <2>1 DEF InsertAt
  <1>3. /\ front \in Seq(S)
        /\ Len(front) = p
        /\ \A i \in 1..p : front[i] = q[i]
    <2>1. \A i \in 1..p : q[i] \in S
      BY <1>1, SMT
    <2>2. /\ front \in Seq(S)
          /\ Len(front) = IF 1 <= p THEN p - 1 + 1 ELSE 0
          /\ \A i \in 1..p - 1 + 1 : front[i] = q[1 + i - 1]
      BY <1>1, <2>1, SubSeqProperties
    <2>. HIDE DEF front
    <2>. QED
      BY <1>1, <2>2, SMT
  <1>4. /\ back \in Seq(S)
        /\ Len(back) = n - p
        /\ \A i \in 1..n - p : back[i] = q[p + i]
    <2>1. \A i \in p + 1..n : q[i] \in S
      BY <1>1, SMT
    <2>2. /\ back \in Seq(S)
          /\ Len(back) = IF p + 1 <= n THEN n - (p + 1) + 1 ELSE 0
          /\ \A i \in 1..n - (p + 1) + 1 : back[i] = q[(p + 1) + i - 1]
      BY <1>1, <2>1, SubSeqProperties
    <2>. HIDE DEF back
    <2>. QED
      BY <1>1, <2>2, SMT
  <1>5. <<e>> \in Seq(S) /\ Len(<<e>>) = 1 /\ <<e>>[1] = e
    OBVIOUS
  <1>. DEFINE one == <<e>>
              mid == front \o one
  <1>. HIDE DEF front, back, n, one
  <1>6. /\ mid \in Seq(S)
        /\ Len(mid) = p + 1
        /\ \A i \in 1..p + 1 : mid[i] = IF i <= p THEN front[i] ELSE one[i - p]
    BY <1>3, <1>5, ConcatProperties DEF one
  <1>. HIDE DEF mid
  <1>7. /\ mid \o back \in Seq(S)
        /\ Len(mid \o back) = (p + 1) + (n - p)
        /\ \A i \in 1..(p + 1) + (n - p) :
             (mid \o back)[i] = IF i <= p + 1 THEN mid[i] ELSE back[i - (p + 1)]
    <2>1. /\ mid \o back \in Seq(S)
          /\ Len(mid \o back) = Len(mid) + Len(back)
          /\ \A i \in 1..Len(mid) + Len(back) :
               (mid \o back)[i] = IF i <= Len(mid) THEN mid[i] ELSE back[i - Len(mid)]
      BY <1>4, <1>6, ConcatProperties
    <2>2. Len(mid) = p + 1 /\ Len(back) = n - p
      BY <1>4, <1>6
    <2>. QED
      BY <2>1, <2>2
  <1>8. r = mid \o back
    BY <1>2 DEF mid, one
  <1>9. (p + 1) + (n - p) = n + 1
    BY <1>1, SMT
  <1>10. r \in Seq(S) /\ Len(r) = n + 1
    BY <1>7, <1>8, <1>9
  <1>11. ASSUME NEW k \in 1..p
         PROVE  r[k] = q[k]
    <2>1. k \in 1..n + 1 /\ k \in 1..p + 1 /\ k <= p + 1 /\ k <= p
      BY <1>1, SMT
    <2>2. r[k] = mid[k]
      BY <1>7, <1>8, <1>9, <2>1
    <2>. QED
      BY <1>3, <1>6, <2>1, <2>2
  <1>12. r[p + 1] = e
    <2>1. p + 1 \in 1..n + 1 /\ ~(p + 1 <= p) /\ (p + 1) - p = 1
      BY <1>1, SMT
    <2>. QED
      BY <1>1, <1>5, <1>6, <1>7, <1>8, <1>9, <2>1 DEF one
  <1>13. ASSUME NEW k \in p + 2..n + 1
         PROVE  r[k] = q[k - 1]
    <2>1. /\ k \in 1..n + 1
          /\ ~(k <= p + 1)
          /\ k - (p + 1) \in 1..n - p
          /\ p + (k - (p + 1)) = k - 1
      BY <1>1, SMT
    <2>2. r[k] = back[k - (p + 1)]
      BY <1>7, <1>8, <1>9, <2>1
    <2>3. back[k - (p + 1)] = q[p + (k - (p + 1))]
      BY <1>4, <2>1
    <2>. QED
      BY <2>1, <2>2, <2>3
  <1>. QED
    BY <1>10, <1>11, <1>12, <1>13 DEF n, IsInserted

------------------------------------------------------------------------------
(* Dice. *)

LEMMA FacesAreNumbers ==
  ASSUME NEW t \in TermRecord
  PROVE  /\ Faces(t.sides) \subseteq Int
         /\ \A face \in Faces(t.sides), exploded \in BOOLEAN :
              Die(face, exploded) \in DieRecord
PROOF
  <1>1. t.sides \in Nat \/ t.sides = Fate
    BY DEF TermRecord
  <1>2. Faces(t.sides) \subseteq Int
    BY <1>1, SMT DEF Faces
  <1>3. <<>> \in Seq(Int)
    OBVIOUS
  <1>4. \A face \in Int, exploded \in BOOLEAN : Die(face, exploded) \in DieRecord
    BY <1>3 DEF Die, DieRecord
  <1>. QED
    BY <1>2, <1>4

\* Two pools that differ in nothing that rerolls and explosions look at.
SameFaces(q, r) ==
  /\ Len(r) = Len(q)
  /\ DOMAIN r = DOMAIN q
  /\ \A i \in DOMAIN q :
       /\ r[i].value = q[i].value
       /\ r[i].rerolled = q[i].rerolled
       /\ r[i].exploded = q[i].exploded

LEMMA SameFacesSameChains ==
  ASSUME NEW q \in Seq(DieRecord), NEW r, SameFaces(q, r), NEW t, AllExploded(q, t)
  PROVE  AllExploded(r, t)
PROOF
  <1>1. DOMAIN q = 1..Len(q) /\ Len(q) \in Nat
    BY LenProperties
  <1>2. InitialDice(r) = InitialDice(q)
    BY DEF InitialDice, SameFaces
  <1>3. ASSUME NEW i \in InitialDice(q), NEW m \in i..Len(q), Run(q, t.sides, i, m)
        PROVE  Run(r, t.sides, i, m)
    <2>1. i \in 1..Len(q) /\ m \in 1..Len(q)
      BY <1>1, SMT DEF InitialDice
    <2>2. \A k \in i + 1..m : k \in DOMAIN q
      BY <1>1, <2>1, SMT
    <2>3. \A k \in i..m - 1 : k \in DOMAIN q
      BY <1>1, <2>1, SMT
    <2>4. m < Len(q) => m + 1 \in DOMAIN q
      BY <1>1, <2>1, SMT
    <2>. QED
      BY <1>1, <1>3, <2>1, <2>2, <2>3, <2>4, Zenon DEF Run, SameFaces
  <1>4. Len(r) = Len(q)
    BY DEF SameFaces
  <1>. QED
    BY <1>2, <1>3, <1>4 DEF AllExploded

\* A run is the chain of its first die, and as long.
LEMMA RunIsChain ==
  ASSUME NEW i \in DOMAIN dice, NEW m \in i..Len(dice), NEW sides,
         dice \in Seq(DieRecord), Run(dice, sides, i, m)
  PROVE  Chain(i) = i + 1..m /\ Cardinality(Chain(i)) = m - i
PROOF
  <1>1. DOMAIN dice = 1..Len(dice) /\ Len(dice) \in Nat
    BY LenProperties
  <1>2. i \in Nat /\ m \in Nat /\ i <= m /\ m <= Len(dice)
    BY <1>1, SMT
  <1>3. ASSUME NEW j \in i + 1..m
        PROVE  j \in Chain(i)
    <2>1. j \in i + 1..Len(dice) /\ \A k \in i + 1..j : k \in i + 1..m
      BY <1>2, <1>1, SMT
    <2>. QED
      BY <2>1 DEF Chain, Run
  <1>4. ASSUME NEW j \in Chain(i)
        PROVE  j \in i + 1..m
    <2>1. j \in i + 1..Len(dice) /\ \A k \in i + 1..j : dice[k].exploded
      BY DEF Chain
    <2>2. SUFFICES ASSUME j > m PROVE FALSE
      BY <1>2, <2>1, SMT
    <2>3. m + 1 \in i + 1..j /\ m < Len(dice)
      BY <1>1, <1>2, <2>1, <2>2, SMT
    <2>4. ~dice[m + 1].exploded
      BY <2>3 DEF Run
    <2>. QED
      BY <2>1, <2>3, <2>4
  <1>5. Chain(i) = i + 1..m
    BY <1>3, <1>4
  <1>6. Cardinality(i + 1..m) = m - i
    <2>1. /\ i + 1 \in Int
          /\ m \in Int
          /\ (IF i + 1 > m THEN 0 ELSE m - (i + 1) + 1) = m - i
      BY <1>2, SMT
    <2>. QED
      BY <2>1, FS_Interval
  <1>. QED
    BY <1>5, <1>6

------------------------------------------------------------------------------
(* The pass of the explosions. *)

\* The pool before it, where nothing has exploded.
LEMMA ExplosionsBegin ==
  ASSUME NEW q \in Seq(DieRecord), NEW t \in TermRecord,
         Len(q) = t.count, \A i \in DOMAIN q : ~q[i].exploded
  PROVE  Exploding(q, t, 1, 0)
PROOF
  <1>1. DOMAIN q = 1..Len(q) /\ Len(q) \in Nat \ {0}
    BY LenProperties DEF TermRecord
  <1>2. InitialDice(q) = 1..Len(q)
    BY <1>1 DEF InitialDice
  <1>3. Cardinality(1..Len(q)) = Len(q)
    <2>1. /\ 1 \in Int
          /\ Len(q) \in Int
          /\ (IF 1 > Len(q) THEN 0 ELSE Len(q) - 1 + 1) = Len(q)
      BY <1>1, SMT
    <2>. QED
      BY <2>1, FS_Interval
  <1>4. 1 + 0 <= Len(q) /\ 0 <= MaxDepth /\ 1 + 1..1 + 0 = {} /\ 1..1 + 0 - 1 = {}
    BY <1>1, EvalAssumption, SMT
  <1>5. \A i \in 1..Len(q) : ~(i < 1)
    BY <1>1, SMT
  <1>. QED
    BY <1>2, <1>3, <1>4, <1>5 DEF Exploding

\* A maximum face adds a die.
LEMMA ExplosionAdds ==
  ASSUME NEW q \in Seq(DieRecord), NEW t \in TermRecord, NEW a \in Nat \ {0},
         NEW d \in Nat, Exploding(q, t, a, d),
         a <= Len(q), d < MaxDepth, q[a + d].value = t.sides,
         NEW e \in DieRecord, e.exploded
  PROVE  Exploding(InsertAt(q, a + d + 1, e), t, a, d + 1)
PROOF
  <1>. DEFINE p == a + d
              n == Len(q)
              r == InsertAt(q, p + 1, e)
              up == [k \in InitialDice(q) |-> IF k <= p THEN k ELSE k + 1]
  <1>1. DOMAIN q = 1..n /\ n \in Nat
    BY LenProperties
  <1>2. p \in Nat /\ p <= n /\ a <= p
    BY <1>1, SMT DEF Exploding
  <1>3. /\ r \in Seq(DieRecord)
        /\ Len(r) = n + 1
        /\ \A k \in 1..p : r[k] = q[k]
        /\ r[p + 1] = e
        /\ \A k \in p + 2..n + 1 : r[k] = q[k - 1]
    <2>1. p \in 0..Len(q)
      BY <1>1, <1>2, SMT
    <2>2. r = InsertAt(q, p + 1, e)
      OBVIOUS
    <2>. HIDE DEF p, r
    <2>3. q \in Seq(DieRecord) /\ e \in DieRecord
      OBVIOUS
    <2>4. r \in Seq(DieRecord) /\ IsInserted(q, p, e, r)
      BY <2>1, <2>2, <2>3, Inserted
    <2>. QED
      BY <2>4 DEF IsInserted
  <1>4. DOMAIN r = 1..n + 1
    BY <1>3, LenProperties
  <1>5. \A k \in 1..n : k = a \/ k > p => ~q[k].exploded
    BY <1>1 DEF Exploding
  <1>6. (\A k \in a + 1..p : q[k].exploded) /\ (\A k \in a..p - 1 : q[k].value = t.sides)
    BY DEF Exploding
  <1>7. q[p].value = t.sides
    OBVIOUS
  <1>. HIDE DEF r, p, n
  <1>8. \A k \in a + 1..p + 1 : r[k].exploded
    <2>. SUFFICES ASSUME NEW k \in a + 1..p + 1 PROVE r[k].exploded
      OBVIOUS
    <2>1. CASE k = p + 1
      BY <1>3, <2>1
    <2>2. CASE k # p + 1
      <3>1. k \in 1..p /\ k \in a + 1..p
        BY <1>2, <2>2, SMT
      <3>. QED
        BY <1>3, <1>6, <3>1
    <2>. QED
      BY <2>1, <2>2
  <1>9. \A k \in a..p : r[k].value = t.sides
    <2>. SUFFICES ASSUME NEW k \in a..p PROVE r[k].value = t.sides
      OBVIOUS
    <2>1. k \in 1..p /\ (k = p \/ k \in a..p - 1)
      BY <1>2, SMT
    <2>. QED
      BY <1>3, <1>6, <1>7, <2>1
  <1>10. \A k \in 1..n + 1 : k = a \/ k > p + 1 => ~r[k].exploded
    <2>. SUFFICES ASSUME NEW k \in 1..n + 1, k = a \/ k > p + 1 PROVE ~r[k].exploded
      OBVIOUS
    <2>1. CASE k = a
      <3>1. k \in 1..p /\ k \in 1..n
        BY <1>1, <1>2, <2>1, SMT
      <3>. QED
        BY <1>3, <1>5, <2>1, <3>1
    <2>2. CASE k > p + 1
      <3>1. k \in p + 2..n + 1 /\ k - 1 \in 1..n /\ k - 1 > p
        BY <1>1, <1>2, <2>2, SMT
      <3>. QED
        BY <1>3, <1>5, <3>1
    <2>. QED
      BY <2>1, <2>2
  <1>11. \A k \in InitialDice(q) : up[k] \in InitialDice(r)
    <2>. SUFFICES ASSUME NEW k \in InitialDice(q) PROVE up[k] \in InitialDice(r)
      OBVIOUS
    <2>1. k \in 1..n /\ ~q[k].exploded
      BY <1>1 DEF InitialDice
    <2>2. CASE k <= p
      <3>1. k \in 1..p /\ k \in 1..n + 1
        BY <1>1, <1>2, <2>1, <2>2, SMT
      <3>. QED
        BY <1>3, <1>4, <2>1, <2>2, <3>1 DEF InitialDice
    <2>3. CASE ~(k <= p)
      <3>1. k + 1 \in p + 2..n + 1 /\ k + 1 \in 1..n + 1 /\ (k + 1) - 1 = k
        BY <1>1, <1>2, <2>1, <2>3, SMT
      <3>2. r[k + 1] = q[k]
        BY <1>3, <3>1
      <3>. QED
        BY <1>4, <2>1, <2>3, <3>1, <3>2 DEF InitialDice
    <2>. QED
      BY <2>2, <2>3
  <1>12. \A k \in InitialDice(r) : \E j \in InitialDice(q) : up[j] = k
    <2>. SUFFICES ASSUME NEW k \in InitialDice(r)
                  PROVE  \E j \in InitialDice(q) : up[j] = k
      OBVIOUS
    <2>1. k \in 1..n + 1 /\ ~r[k].exploded
      BY <1>4 DEF InitialDice
    <2>2. k # p + 1
      BY <1>3, <2>1
    <2>3. CASE k <= p
      <3>1. k \in 1..p /\ k \in 1..n
        BY <1>1, <1>2, <2>1, <2>3, SMT
      <3>2. k \in InitialDice(q)
        BY <1>1, <1>3, <2>1, <3>1 DEF InitialDice
      <3>. QED
        BY <2>3, <3>2
    <2>4. CASE ~(k <= p)
      <3>1. k \in p + 2..n + 1 /\ k - 1 \in 1..n /\ ~(k - 1 <= p) /\ (k - 1) + 1 = k
        BY <1>1, <1>2, <2>1, <2>2, <2>4, SMT
      <3>2. k - 1 \in InitialDice(q)
        BY <1>1, <1>3, <2>1, <3>1 DEF InitialDice
      <3>. QED
        BY <3>1, <3>2
    <2>. QED
      BY <2>3, <2>4
  <1>13. \A j, k \in InitialDice(q) : up[j] = up[k] => j = k
    <2>1. InitialDice(q) \subseteq Nat
      BY <1>1, SMT DEF InitialDice
    <2>. QED
      BY <1>2, <2>1, SMT
  <1>14. Cardinality(InitialDice(r)) = t.count
    <2>1. IsFiniteSet(InitialDice(q))
      <3>1. IsFiniteSet(1..n)
        BY <1>1, FS_Interval, SMT
      <3>2. InitialDice(q) \in SUBSET (1..n)
        BY <1>1 DEF InitialDice
      <3>. QED
        BY <3>1, <3>2, FS_Subset
    <2>2. up \in [InitialDice(q) -> InitialDice(r)]
      BY <1>11
    <2>. HIDE DEF up
    <2>3. up \in Bijection(InitialDice(q), InitialDice(r))
      BY <1>12, <1>13, <2>2 DEF Bijection, Injection, Surjection, IsInjective
    <2>. QED
      BY <2>1, <2>3, FS_Bijection DEF ExistsBijection, Exploding
  <1>15. ASSUME NEW i \in InitialDice(r), i < a
         PROVE  \E m \in i..a - 1 : Run(r, t.sides, i, m)
    <2>1. i \in 1..n + 1 /\ ~r[i].exploded
      BY <1>4 DEF InitialDice
    <2>2. i \in 1..p /\ i \in 1..n
      BY <1>1, <1>2, <1>15, <2>1, SMT
    <2>3. i \in InitialDice(q)
      BY <1>1, <1>3, <2>1, <2>2 DEF InitialDice
    <2>4. PICK m \in i..a - 1 : Run(q, t.sides, i, m)
      BY <1>15, <2>3 DEF Exploding
    <2>5. m \in i..n + 1 /\ m + 1 \in 1..p /\ m \in 1..p /\ m < n
      BY <1>1, <1>2, <2>2, <2>4, SMT DEF Run
    <2>6. \A k \in i + 1..m : k \in 1..p
      BY <1>1, <1>2, <2>2, <2>5, SMT
    <2>7. \A k \in i..m - 1 : k \in 1..p
      BY <1>1, <1>2, <2>2, <2>5, SMT
    <2>8. /\ \A k \in i + 1..m : q[k].exploded
          /\ ~q[m + 1].exploded
          /\ m - i <= MaxDepth
          /\ \A k \in i..m - 1 : q[k].value = t.sides
          /\ q[m].value = t.sides => m - i = MaxDepth
      BY <2>4, <2>5 DEF Run, n
    <2>9. Run(r, t.sides, i, m)
      BY <1>3, <2>5, <2>6, <2>7, <2>8 DEF Run
    <2>. QED
      BY <2>9
  <1>16. /\ a + (d + 1) = p + 1
         /\ a + (d + 1) - 1 = p
         /\ p + 1 <= n + 1
         /\ d + 1 <= MaxDepth
    BY <1>1, <1>2, EvalAssumption, SMT DEF p
  <1>17. Exploding(r, t, a, d + 1)
    BY <1>3, <1>4, <1>8, <1>9, <1>10, <1>14, <1>15, <1>16 DEF Exploding
  <1>. QED
    BY <1>17 DEF r, p

\* A die that explodes no more has run to its end.
LEMMA ExplosionsGoOn ==
  ASSUME NEW q \in Seq(DieRecord), NEW t \in TermRecord, NEW a \in Nat \ {0},
         NEW d \in Nat, Exploding(q, t, a, d),
         a <= Len(q), ~(q[a + d].value = t.sides /\ d < MaxDepth)
  PROVE  Exploding(q, t, a + d + 1, 0)
PROOF
  <1>. DEFINE p == a + d
              n == Len(q)
  <1>1. DOMAIN q = 1..n /\ n \in Nat
    BY LenProperties
  <1>2. p \in Nat /\ p <= n /\ a <= p /\ d = p - a
    BY <1>1, SMT DEF Exploding
  <1>3. /\ \A k \in a + 1..p : q[k].exploded
        /\ \A k \in 1..n : k = a \/ k > p => ~q[k].exploded
        /\ \A k \in a..p - 1 : q[k].value = t.sides
        /\ d <= MaxDepth
    BY <1>1 DEF Exploding
  <1>4. q[p].value = t.sides => d = MaxDepth
    BY <1>3, EvalAssumption, SMT
  <1>5. \A k \in 1..n : k = p + 1 \/ k > p + 1 => ~q[k].exploded
    BY <1>2, <1>3, SMT
  <1>6. ASSUME NEW i \in InitialDice(q), i < p + 1
        PROVE  \E m \in i..p : Run(q, t.sides, i, m)
    <2>1. i \in 1..n /\ ~q[i].exploded
      BY <1>1 DEF InitialDice
    <2>2. ~(i \in a + 1..p)
      BY <1>3, <2>1
    <2>3. i <= a
      BY <1>2, <1>6, <2>1, <2>2, SMT
    <2>4. CASE i < a
      <3>1. PICK m \in i..a - 1 : Run(q, t.sides, i, m)
        BY <2>4 DEF Exploding
      <3>2. m \in i..p
        BY <1>2, <2>1, SMT
      <3>. QED
        BY <3>1, <3>2
    <2>5. CASE i = a
      <3>1. p \in i..n /\ p \in i..p
        BY <1>2, <2>1, <2>5, SMT
      <3>2. p < n => ~q[p + 1].exploded
        <4>1. p < n => p + 1 \in 1..n /\ p + 1 > p
          BY <1>1, <1>2, SMT
        <4>. QED
          BY <1>3, <4>1
      <3>3. p - a = d
        BY <1>2, SMT
      <3>4. Run(q, t.sides, a, p)
        BY <1>3, <1>4, <2>5, <3>1, <3>2, <3>3 DEF Run, n
      <3>. QED
        BY <2>5, <3>1, <3>4
    <2>. QED
      BY <2>1, <2>3, <2>4, <2>5, SMT
  <1>. DEFINE b == p + 1
              z == 0
  <1>. HIDE DEF p, n
  <1>7. b \in Nat /\ b - 1 = p /\ b + z = p + 1 /\ z = 0 /\ b <= n + 1
    BY <1>1, <1>2, SMT
  <1>. HIDE DEF b, z
  <1>8. b + z <= n \/ (b = n + 1 /\ z = 0)
    BY <1>1, <1>7, SMT
  <1>9. z <= MaxDepth
    BY <1>7, EvalAssumption, SMT
  <1>10. \A k \in b + 1..b + z : q[k].exploded
    BY <1>7, SMT
  <1>11. \A k \in b..b + z - 1 : q[k].value = t.sides
    BY <1>7, SMT
  <1>12. \A k \in DOMAIN q : k = b \/ k > b + z => ~q[k].exploded
    <2>1. b = p + 1
      BY DEF b
    <2>. QED
      BY <1>1, <1>5, <1>7, <2>1
  <1>13. \A i \in InitialDice(q) : i < b => \E m \in i..b - 1 : Run(q, t.sides, i, m)
    <2>1. b = p + 1
      BY DEF b
    <2>. QED
      BY <1>6, <1>7, <2>1
  <1>14. Cardinality(InitialDice(q)) = t.count
    BY DEF Exploding
  <1>15. Exploding(q, t, b, z)
    BY <1>8, <1>9, <1>10, <1>11, <1>12, <1>13, <1>14 DEF Exploding, n
  <1>. QED
    BY <1>15 DEF b, p, z

\* Behind the last die the pass is done.
LEMMA ExplosionsEnd ==
  ASSUME NEW q \in Seq(DieRecord), NEW t \in TermRecord, NEW a \in Nat \ {0},
         NEW d \in Nat, Exploding(q, t, a, d), a > Len(q)
  PROVE  AllExploded(q, t)
PROOF
  <1>1. DOMAIN q = 1..Len(q) /\ Len(q) \in Nat
    BY LenProperties
  <1>2. a = Len(q) + 1
    BY <1>1, SMT DEF Exploding
  <1>3. ASSUME NEW i \in InitialDice(q)
        PROVE  \E m \in i..Len(q) : Run(q, t.sides, i, m)
    <2>1. i < a /\ a - 1 = Len(q)
      BY <1>1, <1>2, SMT DEF InitialDice
    <2>. QED
      BY <2>1 DEF Exploding
  <1>4. Cardinality(InitialDice(q)) = t.count
    BY DEF Exploding
  <1>. QED
    BY <1>3, <1>4 DEF AllExploded

------------------------------------------------------------------------------
(* A step of the evaluation of a term. *)

\* Marking the dice, as dropped or as successes, changes nothing else of them.
LEMMA MarkedDropped ==
  ASSUME NEW q \in Seq(DieRecord), NEW f \in [DOMAIN q -> BOOLEAN],
         NEW r, r = [i \in DOMAIN q |-> [q[i] EXCEPT !.dropped = f[i]]]
  PROVE  r \in Seq(DieRecord) /\ SameFaces(q, r)
PROOF
  <1>1. DOMAIN q = 1..Len(q) /\ Len(q) \in Nat /\ \A i \in DOMAIN q : q[i] \in DieRecord
    BY LenProperties, ElementOfSeq
  <1>2. ASSUME NEW d \in DieRecord, NEW b \in BOOLEAN
        PROVE  LET e == [d EXCEPT !.dropped = b]
               IN  /\ e \in DieRecord
                   /\ e.value = d.value
                   /\ e.rerolled = d.rerolled
                   /\ e.exploded = d.exploded
    BY DEF DieRecord
  <1>3. r \in [1..Len(q) -> DieRecord]
    BY <1>1, <1>2
  <1>4. r \in Seq(DieRecord)
    BY <1>1, <1>3, SeqDef
  <1>5. Len(r) = Len(q) /\ DOMAIN r = DOMAIN q
    BY <1>1, <1>3, <1>4, LenProperties
  <1>6. ASSUME NEW i \in DOMAIN q
        PROVE  /\ r[i].value = q[i].value
               /\ r[i].rerolled = q[i].rerolled
               /\ r[i].exploded = q[i].exploded
    <2>1. r[i] = [q[i] EXCEPT !.dropped = f[i]] /\ q[i] \in DieRecord /\ f[i] \in BOOLEAN
      BY <1>1
    <2>. QED
      BY <1>2, <2>1
  <1>. QED
    BY <1>4, <1>5, <1>6 DEF SameFaces

LEMMA MarkedSuccess ==
  ASSUME NEW q \in Seq(DieRecord), NEW f \in [DOMAIN q -> BOOLEAN],
         NEW r, r = [i \in DOMAIN q |-> [q[i] EXCEPT !.success = f[i]]]
  PROVE  r \in Seq(DieRecord) /\ SameFaces(q, r)
PROOF
  <1>1. DOMAIN q = 1..Len(q) /\ Len(q) \in Nat /\ \A i \in DOMAIN q : q[i] \in DieRecord
    BY LenProperties, ElementOfSeq
  <1>2. ASSUME NEW d \in DieRecord, NEW b \in BOOLEAN
        PROVE  LET e == [d EXCEPT !.success = b]
               IN  /\ e \in DieRecord
                   /\ e.value = d.value
                   /\ e.rerolled = d.rerolled
                   /\ e.exploded = d.exploded
    BY DEF DieRecord
  <1>3. r \in [1..Len(q) -> DieRecord]
    BY <1>1, <1>2
  <1>4. r \in Seq(DieRecord)
    BY <1>1, <1>3, SeqDef
  <1>5. Len(r) = Len(q) /\ DOMAIN r = DOMAIN q
    BY <1>1, <1>3, <1>4, LenProperties
  <1>6. ASSUME NEW i \in DOMAIN q
        PROVE  /\ r[i].value = q[i].value
               /\ r[i].rerolled = q[i].rerolled
               /\ r[i].exploded = q[i].exploded
    <2>1. r[i] = [q[i] EXCEPT !.success = f[i]] /\ q[i] \in DieRecord /\ f[i] \in BOOLEAN
      BY <1>1
    <2>. QED
      BY <1>2, <2>1
  <1>. QED
    BY <1>4, <1>5, <1>6 DEF SameFaces

\* What the rerolls have left of a die, and whether it is done with them.
Rerolled(reroll, die) == DiscardedLow(reroll, die) /\ ShowsHigh(reroll, die)

LEMMA SameFacesSameRerolls ==
  ASSUME NEW q, NEW r, SameFaces(q, r), NEW reroll,
         \A i \in DOMAIN q : Rerolled(reroll, q[i])
  PROVE  \A i \in DOMAIN r : Rerolled(reroll, r[i])
  BY Zenon DEF SameFaces, Rerolled, DiscardedLow, ShowsHigh

\* After a mark on the dice, the invariant of the pass behind it.
LEMMA MarkingKeeps ==
  ASSUME EvalInv, pc \in {"keep", "value"}, pc' \in {"value", "done"},
         dice' \in Seq(DieRecord), SameFaces(dice, dice'),
         UNCHANGED <<term, at, depth>>
  PROVE  EvalInv'
PROOF
  <1>1. /\ term \in TermRecord
        /\ at \in Nat \ {0}
        /\ depth \in Nat
        /\ dice \in Seq(DieRecord)
    BY DEF EvalInv, EvalTypeOK
  <1>2. EvalTypeOK'
    BY <1>1 DEF EvalTypeOK, Passes
  <1>3. PoolInv'
    BY DEF PoolInv
  <1>4. RerollInv'
    <2>. SUFFICES ASSUME term.reroll # None
                  PROVE  \A i \in DOMAIN dice' : Rerolled(term.reroll, dice'[i])
      BY DEF RerollInv, Rerolled
    <2>1. \A i \in DOMAIN dice : Rerolled(term.reroll, dice[i])
      BY DEF EvalInv, RerollInv, Rerolled
    <2>2. \A q, r, reroll :
            SameFaces(q, r) /\ (\A i \in DOMAIN q : Rerolled(reroll, q[i]))
              => \A i \in DOMAIN r : Rerolled(reroll, r[i])
      BY SameFacesSameRerolls
    <2>. QED
      BY <2>1, <2>2
  <1>5. ChainInv'
    <2>. SUFFICES ASSUME term.explode, term.sides # Fate
                  PROVE  AllExploded(dice', term)
      BY DEF ChainInv
    <2>1. AllExploded(dice, term)
      BY DEF EvalInv, ChainInv
    <2>2. \A q \in Seq(DieRecord) : \A r, t :
            SameFaces(q, r) /\ AllExploded(q, t) => AllExploded(r, t)
      BY SameFacesSameChains
    <2>. QED
      BY <1>1, <2>1, <2>2
  <1>. QED
    BY <1>2, <1>3, <1>4, <1>5 DEF EvalInv

\* The pool while it is rolled, with a newest die of which less is known.
LEMMA RollingKeeps ==
  ASSUME EvalInv, pc \in {"roll", "reroll"}, RollDie \/ Reroll
  PROVE  EvalInv'
PROOF
  <1>1. /\ term \in TermRecord
        /\ dice \in Seq(DieRecord)
        /\ at = 1
        /\ depth = 0
        /\ Len(dice) <= term.count
        /\ \A i \in DOMAIN dice : ~dice[i].exploded
        /\ UNCHANGED <<term, at, depth>>
    BY DEF EvalInv, EvalTypeOK, PoolInv, RollDie, Reroll
  <1>2. /\ DOMAIN dice = 1..Len(dice)
        /\ Len(dice) \in Nat
        /\ \A i \in DOMAIN dice : dice[i] \in DieRecord
    BY <1>1, LenProperties, ElementOfSeq
  <1>3. /\ Faces(term.sides) \subseteq Int
        /\ \A face \in Faces(term.sides) : Die(face, FALSE) \in DieRecord
    BY <1>1, FacesAreNumbers
  <1>4. term.count \in Nat /\ (term.reroll # None => term.reroll.n \in Nat)
    BY <1>1 DEF TermRecord
  <1>5. CASE RollDie
    <2>1. PICK face \in Faces(term.sides) : dice' = Append(dice, Die(face, FALSE))
      BY <1>5 DEF RollDie
    <2>. DEFINE die == Die(face, FALSE)
    <2>2. die \in DieRecord /\ die.rerolled = <<>> /\ die.exploded = FALSE
      BY <1>3 DEF Die
    <2>. HIDE DEF die
    <2>3. /\ dice' \in Seq(DieRecord)
          /\ Len(dice') = Len(dice) + 1
          /\ DOMAIN dice' = 1..Len(dice) + 1
          /\ \A i \in 1..Len(dice) : dice'[i] = dice[i]
          /\ dice'[Len(dice) + 1] = die
      <3>1. dice' = Append(dice, die)
        BY <2>1 DEF die
      <3>2. /\ dice' \in Seq(DieRecord)
            /\ Len(dice') = Len(dice) + 1
            /\ \A i \in 1..Len(dice) : dice'[i] = dice[i]
            /\ dice'[Len(dice) + 1] = die
        BY <1>1, <2>2, <3>1, AppendProperties
      <3>3. DOMAIN dice' = 1..Len(dice')
        BY <3>2, LenProperties
      <3>. QED
        BY <3>2, <3>3
    <2>4. /\ pc = "roll"
          /\ Len(dice) < term.count
          /\ pc' = IF term.reroll = None THEN "roll" ELSE "reroll"
      BY <1>5 DEF RollDie
    <2>5. EvalTypeOK'
      BY <1>1, <2>3, <2>4 DEF EvalTypeOK, Passes
    <2>6. PoolInv'
      <3>1. Len(dice') <= term.count
        BY <1>2, <1>4, <2>3, <2>4, SMT
      <3>2. \A i \in DOMAIN dice' : ~dice'[i].exploded
        BY <1>1, <1>2, <2>2, <2>3, SMT
      <3>3. dice' # <<>>
        BY <1>2, <2>3, SMT
      <3>. QED
        BY <1>1, <2>4, <3>1, <3>2, <3>3 DEF PoolInv
    <2>7. RerollInv'
      <3>. SUFFICES ASSUME term.reroll # None, NEW i \in DOMAIN dice'
                    PROVE  /\ DiscardedLow(term.reroll, dice'[i])
                           /\ i = Len(dice') \/ ShowsHigh(term.reroll, dice'[i])
        BY <1>1, <2>4 DEF RerollInv
      <3>1. CASE i = Len(dice) + 1
        <4>1. Len(<<>>) = 0 /\ DOMAIN <<>> = {}
          OBVIOUS
        <4>2. DiscardedLow(term.reroll, die)
          BY <2>2, <4>1, EvalAssumption, SMT DEF DiscardedLow
        <4>. QED
          BY <2>3, <3>1, <4>2
      <3>2. CASE i # Len(dice) + 1
        <4>1. i \in DOMAIN dice /\ dice'[i] = dice[i]
          BY <1>2, <2>3, <3>2, SMT
        <4>. QED
          BY <2>4, <4>1 DEF EvalInv, RerollInv
      <3>. QED
        BY <3>1, <3>2
    <2>8. ChainInv'
      BY <2>4 DEF ChainInv
    <2>. QED
      BY <2>5, <2>6, <2>7, <2>8 DEF EvalInv
  <1>6. CASE Reroll
    <2>1. /\ pc = "reroll" /\ pc' = "reroll"
          /\ dice # <<>>
          /\ term.reroll # None
          /\ MustReroll
          /\ Len(Newest.rerolled) < MaxRerolls
      BY <1>6 DEF Reroll, EvalInv, PoolInv
    <2>. DEFINE n == Len(dice)
    <2>2. n \in 1..Len(dice) /\ Newest = dice[n] /\ dice[n] \in DieRecord
      BY <1>1, <1>2, <2>1, EmptySeq DEF Newest, Last
    <2>3. PICK face \in Faces(term.sides) :
            dice' = [dice EXCEPT ![n] =
              [dice[n] EXCEPT !.rerolled = Append(@, dice[n].value), !.value = face]]
      BY <1>6, <2>2 DEF Reroll
    <2>. DEFINE old == dice[n]
                die == [old EXCEPT !.rerolled = Append(@, old.value), !.value = face]
    <2>4. old \in DieRecord /\ face \in Int
      BY <1>3, <2>2
    <2>5. dice' = [dice EXCEPT ![n] = die]
      BY <2>3
    <2>. HIDE DEF old
    <2>6. old.rerolled \in Seq(Int) /\ old.value \in Int
      BY <2>4 DEF DieRecord
    <2>7. /\ Append(old.rerolled, old.value) \in Seq(Int)
          /\ Len(Append(old.rerolled, old.value)) = Len(old.rerolled) + 1
          /\ \A k \in 1..Len(old.rerolled) :
               Append(old.rerolled, old.value)[k] = old.rerolled[k]
          /\ Append(old.rerolled, old.value)[Len(old.rerolled) + 1] = old.value
      BY <2>6, AppendProperties
    <2>8. /\ die \in DieRecord
          /\ die.rerolled = Append(old.rerolled, old.value)
          /\ die.exploded = old.exploded
      BY <2>4, <2>7 DEF DieRecord
    <2>. HIDE DEF die
    <2>9. /\ dice' \in Seq(DieRecord)
          /\ Len(dice') = n
          /\ DOMAIN dice' = 1..n
          /\ dice'[n] = die
          /\ \A i \in 1..n : i # n => dice'[i] = dice[i]
      BY <1>1, <2>2, <2>5, <2>8, ExceptSeq, LenProperties
    <2>10. EvalTypeOK'
      <3>1. dice' \in Seq(DieRecord) /\ pc' = "reroll"
        BY <2>1, <2>9
      <3>. QED
        BY <1>1, <3>1 DEF EvalTypeOK, Passes
    <2>11. PoolInv'
      <3>1. ~die.exploded
        BY <1>1, <1>2, <2>2, <2>8 DEF old
      <3>2. \A i \in DOMAIN dice' : ~dice'[i].exploded
        BY <1>1, <1>2, <2>9, <3>1
      <3>3. dice' # <<>>
        <4>1. Len(dice) # 0
          BY <2>1, <1>1, EmptySeq
        <4>2. Len(dice') # 0 /\ Len(<<>>) = 0
          BY <2>9, <4>1
        <4>. QED
          BY <4>2
      <3>. QED
        BY <1>1, <2>1, <2>9, <3>2, <3>3 DEF PoolInv
    <2>12. RerollInv'
      <3>. SUFFICES ASSUME NEW i \in DOMAIN dice'
                    PROVE  /\ DiscardedLow(term.reroll, dice'[i])
                           /\ i = Len(dice') \/ ShowsHigh(term.reroll, dice'[i])
        BY <1>1, <2>1 DEF RerollInv
      <3>1. CASE i = n
        <4>1. DiscardedLow(term.reroll, old)
          BY <1>2, <2>1, <2>2 DEF EvalInv, RerollInv, old
        <4>2. /\ old.value <= term.reroll.n
              /\ term.reroll.kind = "ro" => old.rerolled = <<>>
              /\ Len(old.rerolled) < MaxRerolls
          BY <2>1, <2>2 DEF MustReroll, Threshold, old
        <4>3. ~old.exploded
          BY <1>1, <1>2, <2>2 DEF old
        <4>4. /\ DOMAIN old.rerolled = 1..Len(old.rerolled)
              /\ Len(old.rerolled) \in Nat
              /\ DOMAIN die.rerolled = 1..Len(old.rerolled) + 1
              /\ Len(die.rerolled) = Len(old.rerolled) + 1
          BY <2>6, <2>7, <2>8, LenProperties
        <4>5. ASSUME NEW k \in DOMAIN die.rerolled
              PROVE  die.rerolled[k] <= term.reroll.n
          <5>1. CASE k = Len(old.rerolled) + 1
            BY <2>7, <2>8, <4>2, <5>1
          <5>2. CASE k # Len(old.rerolled) + 1
            <6>1. k \in 1..Len(old.rerolled)
              BY <4>4, <5>2, SMT
            <6>. QED
              BY <2>7, <2>8, <4>1, <4>4, <6>1 DEF DiscardedLow
          <5>. QED
            BY <5>1, <5>2
        <4>6. Len(die.rerolled) <= MaxRerolls
          BY <4>2, <4>4, EvalAssumption, SMT
        <4>7. term.reroll.kind = "ro" => Len(die.rerolled) <= 1
          <5>1. Len(<<>>) = 0
            OBVIOUS
          <5>. QED
            BY <4>2, <4>4, <5>1, SMT
        <4>8. ~die.exploded
          BY <2>8, <4>3
        <4>9. DiscardedLow(term.reroll, die)
          BY <4>5, <4>6, <4>7, <4>8 DEF DiscardedLow
        <4>. QED
          BY <2>9, <3>1, <4>9
      <3>2. CASE i # n
        <4>1. i \in DOMAIN dice /\ dice'[i] = dice[i]
          BY <1>2, <2>9, <3>2
        <4>. QED
          BY <2>1, <2>9, <3>2, <4>1 DEF EvalInv, RerollInv
      <3>. QED
        BY <3>1, <3>2
    <2>13. ChainInv'
      BY <2>1 DEF ChainInv
    <2>. QED
      BY <2>10, <2>11, <2>12, <2>13 DEF EvalInv
  <1>. QED
    BY <1>5, <1>6

\* The end of the pool, and of the rerolls of one of its dice.
LEMMA PoolKeeps ==
  ASSUME EvalInv, Start \/ RerollLimit \/ RerollDone \/ PoolDone
  PROVE  EvalInv'
PROOF
  <1>1. /\ pc # "idle"
        /\ term \in TermRecord
        /\ dice \in Seq(DieRecord)
        /\ UNCHANGED <<term, dice, at, depth>>
        /\ pc' \in Passes
    BY DEF EvalInv, EvalTypeOK, Passes, Start, RerollLimit, RerollDone, PoolDone
  <1>2. EvalTypeOK'
    BY <1>1 DEF EvalInv, EvalTypeOK
  <1>3. CASE Start
    <2>1. pc = "start" /\ pc' \in {"RerollUnsatisfiable", "roll"}
      BY <1>3 DEF Start
    <2>2. PoolInv'
      BY <1>1, <2>1 DEF EvalInv, PoolInv
    <2>3. RerollInv'
      BY <1>1, <2>1 DEF EvalInv, RerollInv
    <2>4. ChainInv'
      BY <2>1 DEF ChainInv
    <2>. QED
      BY <1>2, <2>2, <2>3, <2>4 DEF EvalInv
  <1>4. CASE RerollLimit
    <2>1. pc = "reroll" /\ pc' = "RerollLimit"
      BY <1>4 DEF RerollLimit
    <2>2. PoolInv'
      BY <2>1 DEF PoolInv
    <2>3. RerollInv'
      BY <1>1, <2>1 DEF EvalInv, RerollInv
    <2>4. ChainInv'
      BY <2>1 DEF ChainInv
    <2>. QED
      BY <1>2, <2>2, <2>3, <2>4 DEF EvalInv
  <1>5. CASE RerollDone
    <2>1. pc = "reroll" /\ pc' = "roll" /\ ~MustReroll
      BY <1>5 DEF RerollDone
    <2>2. PoolInv'
      BY <1>1, <2>1 DEF EvalInv, PoolInv
    <2>3. term.reroll # None /\ dice # <<>>
      BY <2>1 DEF EvalInv, PoolInv
    <2>. DEFINE n == Len(dice)
    <2>4. n \in DOMAIN dice /\ Newest = dice[n] /\ dice[n] \in DieRecord
      BY <1>1, <2>3, EmptySeq, LenProperties, ElementOfSeq DEF Newest, Last
    <2>5. ShowsHigh(term.reroll, dice[n])
      <3>1. dice[n].value \in Int /\ term.reroll.n \in Int
        BY <1>1, <2>3, <2>4 DEF DieRecord, TermRecord
      <3>. QED
        BY <2>1, <2>4, <3>1, SMT DEF MustReroll, Threshold, ShowsHigh
    <2>6. RerollInv'
      <3>. SUFFICES ASSUME NEW i \in DOMAIN dice
                    PROVE  DiscardedLow(term.reroll, dice[i]) /\ ShowsHigh(term.reroll, dice[i])
        BY <1>1 DEF RerollInv
      <3>1. DiscardedLow(term.reroll, dice[i]) /\ (i = n \/ ShowsHigh(term.reroll, dice[i]))
        BY <2>1, <2>3 DEF EvalInv, RerollInv
      <3>. QED
        BY <2>5, <3>1
    <2>7. ChainInv'
      BY <2>1 DEF ChainInv
    <2>. QED
      BY <1>2, <2>2, <2>6, <2>7 DEF EvalInv
  <1>6. CASE PoolDone
    <2>1. /\ pc = "roll"
          /\ Len(dice) = term.count
          /\ pc' = IF term.explode /\ term.sides # Fate THEN "explode" ELSE "keep"
      BY <1>6 DEF PoolDone
    <2>2. at = 1 /\ depth = 0 /\ \A i \in DOMAIN dice : ~dice[i].exploded
      BY <2>1 DEF EvalInv, PoolInv
    <2>3. PoolInv'
      BY <1>1, <2>1 DEF PoolInv
    <2>4. RerollInv'
      BY <1>1, <2>1 DEF EvalInv, RerollInv
    <2>5. Exploding(dice, term, 1, 0)
      BY <1>1, <2>1, <2>2, ExplosionsBegin
    <2>6. ChainInv'
      BY <1>1, <2>1, <2>2, <2>5 DEF ChainInv
    <2>. QED
      BY <1>2, <2>3, <2>4, <2>6 DEF EvalInv
  <1>. QED
    BY <1>3, <1>4, <1>5, <1>6

\* The pass over the explosions.
LEMMA ExplodingKeeps ==
  ASSUME EvalInv, Explode \/ NextDie \/ Exploded
  PROVE  EvalInv'
PROOF
  <1>1. /\ pc = "explode"
        /\ term \in TermRecord
        /\ dice \in Seq(DieRecord)
        /\ at \in Nat \ {0}
        /\ depth \in Nat
        /\ term.explode
        /\ term.sides # Fate
        /\ Exploding(dice, term, at, depth)
        /\ UNCHANGED term
    BY DEF EvalInv, EvalTypeOK, PoolInv, ChainInv, Explode, NextDie, Exploded
  <1>2. DOMAIN dice = 1..Len(dice) /\ Len(dice) \in Nat
    BY <1>1, LenProperties
  <1>3. term.reroll # None => \A i \in DOMAIN dice : Rerolled(term.reroll, dice[i])
    BY <1>1 DEF EvalInv, RerollInv, Rerolled
  <1>4. CASE Explode
    <2>1. /\ at <= Len(dice)
          /\ dice[at + depth].value = term.sides
          /\ depth < MaxDepth
          /\ pc' = "explode"
          /\ at' = at
          /\ depth' = depth + 1
      BY <1>1, <1>4 DEF Explode, GoesOn
    <2>2. PICK face \in Faces(term.sides) :
            dice' = InsertAt(dice, at + depth + 1, Die(face, TRUE))
      BY <1>4 DEF Explode
    <2>. DEFINE die == Die(face, TRUE)
                p == at + depth
    <2>3. die \in DieRecord /\ die.exploded /\ die.rerolled = <<>>
      BY <1>1, FacesAreNumbers DEF Die
    <2>. HIDE DEF die
    <2>4. Exploding(InsertAt(dice, at + depth + 1, die), term, at, depth + 1)
      BY <1>1, <2>1, <2>3, ExplosionAdds
    <2>5. p \in 0..Len(dice) /\ dice' = InsertAt(dice, p + 1, die)
      <3>1. p \in 0..Len(dice)
        BY <1>1, <1>2, <2>1, SMT DEF Exploding
      <3>. QED
        BY <2>2, <3>1 DEF die
    <2>. HIDE DEF p
    <2>6. dice' \in Seq(DieRecord) /\ IsInserted(dice, p, die, dice')
      BY <1>1, <2>3, <2>5, Inserted
    <2>7. EvalTypeOK'
      BY <1>1, <2>1, <2>6 DEF EvalTypeOK, Passes
    <2>8. PoolInv'
      BY <1>1, <2>1 DEF PoolInv
    <2>9. RerollInv'
      <3>. SUFFICES ASSUME term.reroll # None, NEW i \in DOMAIN dice'
                    PROVE  Rerolled(term.reroll, dice'[i])
        BY <1>1 DEF RerollInv, Rerolled
      <3>1. i \in 1..Len(dice) + 1
        BY <2>6, LenProperties DEF IsInserted
      <3>2. CASE i = p + 1
        <4>1. dice'[i] = die
          BY <2>6, <3>2 DEF IsInserted
        <4>2. Len(<<>>) = 0 /\ DOMAIN <<>> = {}
          OBVIOUS
        <4>3. Rerolled(term.reroll, die)
          BY <2>3, <4>2, EvalAssumption, SMT DEF Rerolled, DiscardedLow, ShowsHigh
        <4>. QED
          BY <4>1, <4>3
      <3>3. CASE i # p + 1
        <4>1. \E j \in 1..Len(dice) : dice'[i] = dice[j]
          <5>1. CASE i <= p
            <6>1. i \in 1..p /\ i \in 1..Len(dice)
              BY <1>2, <2>5, <3>1, <5>1, SMT
            <6>. QED
              BY <2>6, <6>1 DEF IsInserted
          <5>2. CASE ~(i <= p)
            <6>1. i \in p + 2..Len(dice) + 1 /\ i - 1 \in 1..Len(dice)
              BY <1>2, <2>5, <3>1, <3>3, <5>2, SMT
            <6>. QED
              BY <2>6, <6>1 DEF IsInserted
          <5>. QED
            BY <5>1, <5>2
        <4>. QED
          BY <1>2, <1>3, <4>1
      <3>. QED
        BY <3>2, <3>3
    <2>10. ChainInv'
      <3>1. Exploding(dice', term, at, depth + 1)
        BY <2>4, <2>5 DEF p
      <3>. QED
        BY <1>1, <2>1, <3>1 DEF ChainInv
    <2>. QED
      BY <2>7, <2>8, <2>9, <2>10 DEF EvalInv
  <1>5. CASE NextDie
    <2>1. /\ at <= Len(dice)
          /\ ~(dice[at + depth].value = term.sides /\ depth < MaxDepth)
          /\ pc' = "explode"
          /\ dice' = dice
          /\ at' = at + depth + 1
          /\ depth' = 0
      BY <1>1, <1>5 DEF NextDie, GoesOn
    <2>2. Exploding(dice, term, at + depth + 1, 0)
      BY <1>1, <2>1, ExplosionsGoOn
    <2>3. EvalTypeOK'
      BY <1>1, <2>1, SMT DEF EvalTypeOK, Passes
    <2>4. PoolInv'
      BY <1>1, <2>1 DEF PoolInv
    <2>5. RerollInv'
      BY <1>1, <1>3, <2>1 DEF RerollInv, Rerolled
    <2>6. ChainInv'
      BY <1>1, <2>1, <2>2 DEF ChainInv
    <2>. QED
      BY <2>3, <2>4, <2>5, <2>6 DEF EvalInv
  <1>6. CASE Exploded
    <2>1. at > Len(dice) /\ pc' = "keep" /\ UNCHANGED <<dice, at, depth>>
      BY <1>6 DEF Exploded
    <2>2. AllExploded(dice, term)
      BY <1>1, <2>1, ExplosionsEnd
    <2>3. EvalTypeOK'
      BY <1>1, <2>1 DEF EvalTypeOK, Passes
    <2>4. PoolInv'
      BY <2>1 DEF PoolInv
    <2>5. RerollInv'
      BY <1>1, <1>3, <2>1 DEF RerollInv, Rerolled
    <2>6. ChainInv'
      BY <1>1, <2>1, <2>2 DEF ChainInv
    <2>. QED
      BY <2>3, <2>4, <2>5, <2>6 DEF EvalInv
  <1>. QED
    BY <1>4, <1>5, <1>6

\* Dropping dice, and counting them.
LEMMA ValueKeeps ==
  ASSUME EvalInv, Keep \/ Value
  PROVE  EvalInv'
PROOF
  <1>1. dice \in Seq(DieRecord)
    BY DEF EvalInv, EvalTypeOK
  <1>2. CASE Keep
    <2>. DEFINE f == [i \in DOMAIN dice |-> Dropped(i)]
    <2>1. f \in [DOMAIN dice -> BOOLEAN]
      <3>1. \A i \in DOMAIN dice : Dropped(i) \in BOOLEAN
        BY Zenon DEF Dropped
      <3>. QED
        BY <3>1
    <2>2. dice' = [i \in DOMAIN dice |-> [dice[i] EXCEPT !.dropped = f[i]]]
      BY <1>2 DEF Keep
    <2>. HIDE DEF f
    <2>3. dice' \in Seq(DieRecord) /\ SameFaces(dice, dice')
      BY <1>1, <2>1, <2>2, MarkedDropped
    <2>. QED
      BY <1>2, <2>3, MarkingKeeps DEF Keep
  <1>3. CASE Value
    <2>1. dice' \in Seq(DieRecord) /\ SameFaces(dice, dice')
      <3>1. CASE term.success # None
        <4>. DEFINE f == [i \in DOMAIN dice |-> Succeeds(dice[i])]
        <4>1. f \in [DOMAIN dice -> BOOLEAN]
          <5>1. \A i \in DOMAIN dice : Succeeds(dice[i]) \in BOOLEAN
            BY Zenon DEF Succeeds
          <5>. QED
            BY <5>1
        <4>2. dice' = [i \in DOMAIN dice |-> [dice[i] EXCEPT !.success = f[i]]]
          BY <1>3, <3>1 DEF Value
        <4>. HIDE DEF f
        <4>. QED
          BY <1>1, <4>1, <4>2, MarkedSuccess
      <3>2. CASE term.success = None
        BY <1>1, <1>3, <3>2 DEF Value, SameFaces
      <3>. QED
        BY <3>1, <3>2
    <2>. QED
      BY <1>3, <2>1, MarkingKeeps DEF Value
  <1>. QED
    BY <1>2, <1>3

------------------------------------------------------------------------------
(* A step of the evaluation of an expression. *)

\* The next term of an expression is one of dice or a constant.
LEMMA TermsAreKnown ==
  ASSUME ExprTypeOK, TermIsNext
  PROVE  NextTerm \in TermRecord \cup [const : Nat]
PROOF
  <1>. DEFINE T == TermRecord \cup [const : Nat]
              i == Len(products) + 1
              j == Len(outcomes) + 1
  <1>1. expr \in Seq([op : {"+", "-"}, item : Seq(T)])
    BY ExprAssumption DEF ExprTypeOK
  <1>2. Len(products) \in Nat /\ Len(outcomes) \in Nat
    BY DEF ExprTypeOK, IsSequence
  <1>3. i \in 1..Len(expr)
    BY <1>1, <1>2, LenProperties, SMT DEF TermIsNext
  <1>4. expr[i] \in [op : {"+", "-"}, item : Seq(T)]
    BY <1>1, <1>3, ElementOfSeq
  <1>5. Terms \in Seq(T)
    BY <1>4 DEF Terms
  <1>. HIDE DEF T
  <1>6. j \in 1..Len(Terms)
    BY <1>2, <1>5, LenProperties, SMT DEF TermIsNext
  <1>7. NextTerm \in T
    BY <1>5, <1>6, ElementOfSeq DEF NextTerm
  <1>. QED
    BY <1>7 DEF T

LEMMA TermsAreDice ==
  ASSUME ExprTypeOK, TermIsNext, "const" \notin DOMAIN NextTerm
  PROVE  NextTerm \in TermRecord
PROOF
  <1>1. \A t \in [const : Nat] : "const" \in DOMAIN t
    OBVIOUS
  <1>. QED
    BY <1>1, TermsAreKnown

LEMMA ConstantsAreNumbers ==
  ASSUME ExprTypeOK, TermIsNext, "const" \in DOMAIN NextTerm
  PROVE  NextTerm \in [const : Nat]
PROOF
  <1>1. \A t \in TermRecord : "const" \notin DOMAIN t
    BY DEF TermRecord
  <1>. QED
    BY <1>1, TermsAreKnown

LEMMA EvalStepKeeps ==
  ASSUME ExprInv, [Next]_vars
  PROVE  EvalInv'
PROOF
  <1>1. CASE BeginDice
    <2>1. NextTerm \in TermRecord /\ Begin(NextTerm)
      BY <1>1, TermsAreDice DEF BeginDice, ExprInv
    <2>2. /\ term' \in TermRecord
          /\ pc' = "start"
          /\ dice' = <<>>
          /\ at' = 1
          /\ depth' = 0
      BY <2>1 DEF Begin
    <2>3. /\ <<>> \in Seq(DieRecord)
          /\ Len(<<>>) = 0
          /\ DOMAIN <<>> = {}
      OBVIOUS
    <2>4. EvalTypeOK'
      BY <2>2, <2>3 DEF EvalTypeOK, Passes
    <2>5. Len(dice') <= term'.count
      <3>1. term'.count \in Nat
        BY <2>2 DEF TermRecord
      <3>. QED
        BY <2>2, <2>3, <3>1
    <2>6. PoolInv'
      BY <2>2, <2>3, <2>5 DEF PoolInv
    <2>7. RerollInv'
      BY <2>2, <2>3 DEF RerollInv
    <2>8. ChainInv'
      BY <2>2 DEF ChainInv
    <2>. QED
      BY <2>4, <2>6, <2>7, <2>8 DEF EvalInv
  <1>2. CASE RollDice
    BY <1>2, RollingKeeps, PoolKeeps, ExplodingKeeps, ValueKeeps, Zenon
    DEF RollDice, EvalStep, ExprInv, RollDie, Reroll
  <1>3. CASE EndDice
    <2>1. pc' = "idle" /\ UNCHANGED <<term, dice, at, depth>>
      BY <1>3 DEF EndDice
    <2>2. EvalTypeOK'
      BY <2>1 DEF ExprInv, EvalInv, EvalTypeOK, Passes
    <2>. QED
      BY <2>1, <2>2 DEF EvalInv, PoolInv, RerollInv, ChainInv
  <1>4. CASE EvalConst \/ EvalError \/ EndProduct \/ Return \/ UNCHANGED vars
    <2>1. UNCHANGED evalVars
      BY <1>4 DEF EvalConst, EvalError, EndProduct, Return, vars
    <2>. QED
      BY <2>1
      DEF evalVars, ExprInv, EvalInv, EvalTypeOK, PoolInv, RerollInv, ChainInv
  <1>. QED
    BY <1>1, <1>2, <1>3, <1>4 DEF Next

LEMMA ExprStepKeeps ==
  ASSUME ExprInv, [Next]_vars
  PROVE  ExprTypeOK'
PROOF
  <1>1. expr \in Exprs /\ IsSequence(outcomes) /\ IsSequence(products)
    BY DEF ExprInv, ExprTypeOK
  <1>2. expr' = expr
    BY DEF Next, EvalConst, BeginDice, RollDice, EndDice, EvalError, EndProduct, Return,
           Multiply, vars, exprVars
  <1>3. IsSequence(<<>>)
    BY DEF IsSequence
  <1>4. \A q, e : IsSequence(q) => IsSequence(Append(q, e))
    BY AppendedSequence
  <1>5. \/ outcomes' = outcomes
        \/ outcomes' = <<>>
        \/ \E e : outcomes' = Append(outcomes, e)
    BY Zenon
    DEF Next, EvalConst, BeginDice, RollDice, EndDice, EvalError, EndProduct, Return,
        Multiply, vars, exprVars
  <1>6. products' = products \/ \E e : products' = Append(products, e)
    BY Zenon
    DEF Next, EvalConst, BeginDice, RollDice, EndDice, EvalError, EndProduct, Return,
        Multiply, vars, exprVars
  <1>7. IsSequence(outcomes')
    BY <1>1, <1>3, <1>4, <1>5
  <1>8. IsSequence(products')
    BY <1>1, <1>4, <1>6
  <1>. QED
    BY <1>1, <1>2, <1>7, <1>8 DEF ExprTypeOK

------------------------------------------------------------------------------
(* Rerolls and explosions. *)

\* The invariant holds of every expression, with whatever faces the Roller answers.
THEOREM ExprInvariance == Spec => []ExprInv
PROOF
  <1>1. Init => ExprInv
    <2>. SUFFICES ASSUME Init PROVE ExprInv
      OBVIOUS
    <2>1. IsSequence(<<>>) /\ <<>> \in Seq(DieRecord)
      BY DEF IsSequence
    <2>2. ExprTypeOK
      BY <2>1 DEF Init, ExprTypeOK
    <2>3. EvalTypeOK
      BY <2>1 DEF Init, EvalTypeOK, Passes
    <2>4. PoolInv /\ RerollInv /\ ChainInv
      BY DEF Init, PoolInv, RerollInv, ChainInv
    <2>. QED
      BY <2>2, <2>3, <2>4 DEF ExprInv, EvalInv
  <1>2. ExprInv /\ [Next]_vars => ExprInv'
    BY EvalStepKeeps, ExprStepKeeps DEF ExprInv
  <1>. QED
    BY <1>1, <1>2, PTL DEF Spec

\* Rerolls discard what they may, as often as they may, and leave nothing that they
\* should not, with every limit and threshold.
THEOREM RerollsEnd == Spec => []RerollsStop
PROOF
  <1>1. ExprInv => RerollsStop
    <2>. SUFFICES ASSUME ExprInv, pc \in {"explode", "keep", "value", "done"},
                         term.reroll # None, NEW i \in DOMAIN dice
                  PROVE  /\ \A k \in DOMAIN dice[i].rerolled :
                              dice[i].rerolled[k] <= Threshold
                         /\ Len(dice[i].rerolled) <= MaxRerolls
                         /\ term.reroll.kind = "ro" => Len(dice[i].rerolled) <= 1
                         /\ term.reroll.kind = "r" /\ ~dice[i].exploded =>
                              dice[i].value > Threshold
                         /\ dice[i].exploded => dice[i].rerolled = <<>>
      BY DEF RerollsStop
    <2>1. DiscardedLow(term.reroll, dice[i]) /\ ShowsHigh(term.reroll, dice[i])
      BY DEF ExprInv, EvalInv, RerollInv
    <2>. QED
      BY <2>1 DEF DiscardedLow, ShowsHigh, Threshold
  <1>. QED
    BY <1>1, ExprInvariance, PTL

\* The pool that explosions leave has as many dice as were asked for, each followed by
\* one for every maximum face in a row, with every depth limit.
THEOREM ExplosionsEndAtLowerFaces == Spec => []ExplosionsFollowMaxima
PROOF
  <1>1. ExprInv => ExplosionsFollowMaxima
    <2>. SUFFICES ASSUME ExprInv, pc \in {"keep", "value", "done"}, term.explode,
                         term.sides # Fate
                  PROVE  ExplosionsFollowMaxima
      BY DEF ExplosionsFollowMaxima
    <2>1. AllExploded(dice, term) /\ dice \in Seq(DieRecord)
      BY DEF ExprInv, EvalInv, EvalTypeOK, ChainInv
    <2>2. DOMAIN dice = 1..Len(dice) /\ Len(dice) \in Nat
      BY <2>1, LenProperties
    <2>3. Cardinality({i \in DOMAIN dice : ~dice[i].exploded}) = term.count
      BY <2>1 DEF AllExploded, InitialDice
    <2>4. ASSUME NEW i \in DOMAIN dice, ~dice[i].exploded
          PROVE  LET chain == Chain(i)
                     last == i + Cardinality(chain)
                 IN  /\ Cardinality(chain) <= MaxDepth
                     /\ \A j \in i..last - 1 : dice[j].value = term.sides
                     /\ dice[last].value = term.sides => Cardinality(chain) = MaxDepth
      <3>1. PICK m \in i..Len(dice) : Run(dice, term.sides, i, m)
        BY <2>1, <2>4 DEF AllExploded, InitialDice
      <3>2. Cardinality(Chain(i)) = m - i
        BY <2>1, <3>1, RunIsChain
      <3>3. i + (m - i) = m
        BY <2>2, SMT
      <3>. QED
        BY <3>1, <3>2, <3>3 DEF Run
    <2>. QED
      BY <2>3, <2>4, Zenon DEF ExplosionsFollowMaxima
  <1>. QED
    BY <1>1, ExprInvariance, PTL

------------------------------------------------------------------------------
(* Induction and folds. *)

\* A statement about numbers that fails somewhere fails for a first time.
LEMMA FirstNumber ==
  ASSUME NEW T \in SUBSET Nat, T # {}
  PROVE  \E u \in T : \A t \in T : u <= t
PROOF
  <1>. DEFINE R == {p \in Nat \X Nat : p[1] < p[2]}
  <1>1. IsWellFoundedOn(R, Nat)
    BY NatLessThanWellFounded DEF OpToRel
  <1>2. \A m, n \in Nat : m < n => <<m, n>> \in R
    OBVIOUS
  <1>. HIDE DEF R
  <1>3. PICK u \in T : \A m \in T : ~(<<m, u>> \in R)
    BY <1>1, WFMin
  <1>4. \A m \in T : ~(m < u)
    BY <1>2, <1>3
  <1>. QED
    BY <1>4, SMT

\* A set of numbers that is not empty and has a bound has a greatest one.
LEMMA GreatestNumber ==
  ASSUME NEW bound \in Nat, NEW T \in SUBSET (0..bound), T # {}
  PROVE  Max(T) \in T /\ \A t \in T : Max(T) >= t
<1> DEFINE R == {p \in Nat \X Nat : p[1] < p[2]}
           U == {bound - t : t \in T}
<1>1. IsWellFoundedOn(R, Nat)
  BY NatLessThanWellFounded DEF OpToRel
<1>2. \A m, n \in Nat : m < n => <<m, n>> \in R
  OBVIOUS
<1>3. U \subseteq Nat /\ U # {}
  <2>1. \A t \in T : bound - t \in Nat
    OBVIOUS
  <2> QED
    BY <2>1
<1> HIDE DEF R
<1>4. PICK u \in U : \A m \in U : ~(<<m, u>> \in R)
  BY <1>1, <1>3, WFMin
<1>5. \A m \in U : ~(m < u)
  BY <1>2, <1>3, <1>4
<1>6. PICK s \in T : u = bound - s
  BY <1>4
<1>7. \A t \in T : s >= t
  <2> TAKE t \in T
  <2>1. bound - t \in U
    OBVIOUS
  <2>2. ~(bound - t < bound - s)
    BY <2>1, <1>5, <1>6
  <2>3. s \in Int /\ t \in Int
    OBVIOUS
  <2> HIDE DEF U
  <2> QED
    BY <2>2, <2>3, SMT
<1> QED
  BY <1>7 DEF Max

\* Induction: what holds of 0, and of a number if of the one before it.
LEMMA CountingUp ==
  ASSUME NEW n \in Nat, NEW T, 0 \in T, \A k \in 1..n : k - 1 \in T => k \in T
  PROVE  \A k \in 0..n : k \in T
PROOF
  <1>. SUFFICES ASSUME NEW R, R = {k \in 0..n : k \notin T}, R # {}
                PROVE  FALSE
    OBVIOUS
  <1>1. PICK u \in R : \A t \in R : u <= t
    <2>1. R \in SUBSET Nat
      OBVIOUS
    <2>. QED
      BY <2>1, FirstNumber
  <1>2. u \in 1..n
    OBVIOUS
  <1>3. u - 1 \in 0..n /\ ~(u <= u - 1)
    BY <1>2
  <1>. QED
    BY <1>1, <1>2, <1>3

\* What holds at first and of every next value holds of all.
LEMMA StaysInside ==
  ASSUME NEW V, NEW n \in Nat, NEW p, p[0] \in V,
         \A k \in 1..n : p[k - 1] \in V => p[k] \in V
  PROVE  \A k \in 0..n : p[k] \in V
PROOF
  <1>. DEFINE T == {k \in 0..n : p[k] \in V}
  <1>1. 0 \in T /\ \A k \in 1..n : k - 1 \in T => k \in T
    OBVIOUS
  <1>2. \A k \in 0..n : k \in T
    <2>. HIDE DEF T
    <2>. QED
      BY <1>1, CountingUp
  <1>. QED
    BY <1>2

\* Sums of any of the values v: every summand may be taken off first.
IsSum(g, n, v) ==
  /\ g[{}] = 0
  /\ \A s \in SUBSET (1..n) : \A x \in s : g[s] = v[x] + g[s \ {x}]

\* Values have sums: one more number at a time.
LEMMA SumExists ==
  ASSUME NEW n \in Nat, NEW v \in [1..n -> Int]
  PROVE  \E g \in [SUBSET (1..n) -> Int] : IsSum(g, n, v)
PROOF
  <1>. DEFINE Sums(k) == \E g \in [SUBSET (1..k) -> Int] : IsSum(g, k, v)
  <1>1. Sums(0)
    <2>. DEFINE g == [s \in SUBSET (1..0) |-> 0]
    <2>1. 1..0 = {}
      OBVIOUS
    <2>2. g \in [SUBSET (1..0) -> Int] /\ IsSum(g, 0, v)
      BY <2>1 DEF IsSum
    <2>. QED
      BY <2>2
  <1>2. ASSUME NEW k \in 0..n - 1, Sums(k)
        PROVE  Sums(k + 1)
    <2>1. PICK g \in [SUBSET (1..k) -> Int] : IsSum(g, k, v)
      BY <1>2
    <2>2. PICK m : m = k + 1
      OBVIOUS
    <2>3. /\ m \in 1..n /\ m \notin 1..k /\ v[m] \in Int
          /\ \A s \in SUBSET (1..m) : s \ {m} \in SUBSET (1..k)
          /\ \A s \in SUBSET (1..m) : m \notin s => s \in SUBSET (1..k)
      BY <2>2
    <2>. DEFINE f == [s \in SUBSET (1..m) |->
                        IF m \in s THEN v[m] + g[s \ {m}] ELSE g[s]]
    <2>4. f \in [SUBSET (1..m) -> Int]
      BY <2>3
    <2>5. f[{}] = 0
      <3>1. {} \in SUBSET (1..m) /\ m \notin {}
        OBVIOUS
      <3>. QED
        BY <3>1, <2>1 DEF IsSum
    <2>6. ASSUME NEW s \in SUBSET (1..m), NEW x \in s
          PROVE  f[s] = v[x] + f[s \ {x}]
      <3>1. s \ {x} \in SUBSET (1..m) /\ v[x] \in Int
        BY <2>3
      <3>2. CASE m \notin s
        <4>1. f[s] = g[s] /\ f[s \ {x}] = g[s \ {x}] /\ s \in SUBSET (1..k)
          BY <2>3, <3>1, <3>2
        <4>. QED
          BY <2>1, <4>1 DEF IsSum
      <3>3. CASE x = m
        <4>1. f[s] = v[m] + g[s \ {m}] /\ f[s \ {m}] = g[s \ {m}]
          BY <3>1, <3>3
        <4>. QED
          BY <3>3, <4>1
      <3>4. CASE m \in s /\ x # m
        <4>1. PICK r : r = s \ {m}
          OBVIOUS
        <4>2. r \in SUBSET (1..k) /\ x \in r /\ (s \ {x}) \ {m} = r \ {x}
              /\ r \ {x} \in SUBSET (1..k)
          BY <2>3, <3>4, <4>1
        <4>3. g[r] = v[x] + g[r \ {x}] /\ g[r \ {x}] \in Int
          BY <2>1, <4>2 DEF IsSum
        <4>4. f[s] = v[m] + g[r] /\ f[s \ {x}] = v[m] + g[r \ {x}]
          BY <3>1, <3>4, <4>1, <4>2
        <4>. QED
          BY <2>3, <3>1, <4>3, <4>4
      <3>. QED
        BY <3>2, <3>3, <3>4
    <2>. HIDE DEF f
    <2>7. IsSum(f, m, v)
      BY <2>5, <2>6 DEF IsSum
    <2>. QED
      BY <2>2, <2>4, <2>7
  <1>. HIDE DEF Sums
  <1>3. Sums(n)
    <2>. DEFINE T == {k \in 0..n : Sums(k)}
    <2>1. 0 \in T
      BY <1>1
    <2>2. ASSUME NEW k \in 1..n, k - 1 \in T
          PROVE  k \in T
      <3>1. k - 1 \in 0..n - 1 /\ k - 1 + 1 = k
        OBVIOUS
      <3>. QED
        BY <1>2, <2>2, <3>1
    <2>3. n \in T
      <3>. HIDE DEF T
      <3>1. n \in 0..n
        OBVIOUS
      <3>. QED
        BY <2>1, <2>2, <3>1, CountingUp
    <2>. QED
      BY <2>3
  <1>. QED
    BY <1>3 DEF Sums

SumOf(q, S) == MapThenSumSet(LAMBDA i : q[i].value, S)

\* The sums that the model takes of a pool.
LEMMA SumUnfolds ==
  ASSUME NEW q, NEW n \in Nat, \A i \in 1..n : q[i].value \in Int
  PROVE  \E g \in [SUBSET (1..n) -> Int] :
           /\ IsSum(g, n, [i \in 1..n |-> q[i].value])
           /\ \A S \in SUBSET (1..n) : SumOf(q, S) = g[S]
PROOF
  <1>. DEFINE v == [i \in 1..n |-> q[i].value]
  <1>1. PICK g \in [SUBSET (1..n) -> Int] : IsSum(g, n, v)
    <2>1. v \in [1..n -> Int]
      OBVIOUS
    <2>. HIDE DEF v
    <2>. QED
      BY <2>1, SumExists
  <1>2. ASSUME NEW S \in SUBSET (1..n)
        PROVE  SumOf(q, S) = g[S]
    <2>. DEFINE c(s) == CHOOSE x \in s : TRUE
                Iterates(h) == h = [s \in SUBSET S |->
                   IF s = {} THEN 0 ELSE q[c(s)].value + h[s \ {c(s)}]]
                h == CHOOSE h : Iterates(h)
    <2>1. SumOf(q, S) = h[S]
      BY DEF SumOf, MapThenSumSet, MapThenFoldSet
    <2>2. \A s \in SUBSET S : s # {} => c(s) \in s
      OBVIOUS
    <2>. HIDE DEF c
    <2>3. ASSUME NEW s \in SUBSET S, s # {}
          PROVE  g[s] = q[c(s)].value + g[s \ {c(s)}]
      <3>1. c(s) \in s /\ s \in SUBSET (1..n) /\ v[c(s)] = q[c(s)].value
        BY <2>2, <2>3
      <3>. HIDE DEF v
      <3>. QED
        BY <1>1, <3>1 DEF IsSum
    <2>4. Iterates([s \in SUBSET S |-> g[s]])
      <3>1. g[{}] = 0
        BY <1>1 DEF IsSum
      <3>. QED
        BY <2>3, <3>1
    <2>5. Iterates(h)
      <3>. HIDE DEF Iterates
      <3>. QED
        BY <2>4
    <2>. HIDE DEF h
    <2>6. ASSUME NEW s \in SUBSET S, h[s] # g[s]
          PROVE  FALSE
      <3>. DEFINE T == {k \in Nat : \E r \in SUBSET S : Cardinality(r) = k /\ h[r] # g[r]}
      <3>1. \A r \in SUBSET S : IsFiniteSet(r) /\ Cardinality(r) \in Nat
        <4>. TAKE r \in SUBSET S
        <4>1. IsFiniteSet(1..n) /\ r \in SUBSET (1..n)
          BY FS_Interval
        <4>. QED
          BY <4>1, FS_Subset, FS_CardinalityType
      <3>2. T \in SUBSET Nat /\ T # {}
        BY <2>6, <3>1
      <3>3. PICK u \in T : \A t \in T : u <= t
        <4>. HIDE DEF T
        <4>. QED
          BY <3>2, FirstNumber
      <3>4. PICK r \in SUBSET S : Cardinality(r) = u /\ h[r] # g[r]
        OBVIOUS
      <3>5. r # {}
        <4>1. h[{}] = 0 /\ g[{}] = 0
          BY <1>1, <2>5 DEF IsSum
        <4>. QED
          BY <3>4, <4>1
      <3>6. PICK x \in r : x = c(r)
        BY <2>2, <3>5
      <3>7. r \ {x} \in SUBSET S /\ Cardinality(r \ {x}) = u - 1 /\ u \in Nat /\ u - 1 \in Nat
        <4>1. Cardinality(r \ {x}) = u - 1
          BY <3>1, <3>4, FS_RemoveElement
        <4>. QED
          BY <3>1, <4>1
      <3>8. h[r \ {x}] = g[r \ {x}]
        <4>1. ~(u <= u - 1)
          BY <3>7
        <4>2. u - 1 \notin T
          BY <3>3, <4>1
        <4>. QED
          BY <3>7, <4>2
      <3>9. h[r] = q[x].value + h[r \ {x}]
        BY <2>5, <3>5, <3>6
      <3>10. g[r] = q[x].value + g[r \ {x}]
        BY <2>3, <3>5, <3>6
      <3>. QED
        BY <3>4, <3>8, <3>9, <3>10
    <2>. QED
      BY <2>1, <2>6
  <1>. QED
    BY <1>1, <1>2

\* Folding the steps over the numbers up to n, from the least to the greatest.
IsFold(g, n, V, base, step) ==
  /\ g[{}] = base
  /\ \A s \in SUBSET (1..n) :
       s # {} => /\ Max(s) \in 1..n
                 /\ g[s \ {Max(s)}] \in V
                 /\ g[s] = step[<<Max(s), g[s \ {Max(s)}]>>]

\* There is a fold: one more number at a time.
LEMMA FoldExists ==
  ASSUME NEW V, NEW base \in V, NEW n \in Nat, NEW step \in [(1..n) \X V -> V]
  PROVE  \E g \in [SUBSET (1..n) -> V] : IsFold(g, n, V, base, step)
PROOF
  <1>. DEFINE Folds(k) == \E g \in [SUBSET (1..k) -> V] : IsFold(g, k, V, base, step)
              T == {k \in 0..n : Folds(k)}
  <1>1. Folds(0)
    <2>. DEFINE g == [s \in SUBSET (1..0) |-> base]
    <2>1. 1..0 = {}
      OBVIOUS
    <2>2. g \in [SUBSET (1..0) -> V] /\ IsFold(g, 0, V, base, step)
      BY <2>1 DEF IsFold
    <2>. QED
      BY <2>2
  <1>2. ASSUME NEW k \in 0..n - 1, Folds(k)
        PROVE  Folds(k + 1)
    <2>1. PICK g \in [SUBSET (1..k) -> V] : IsFold(g, k, V, base, step)
      BY <1>2
    <2>. DEFINE m == k + 1
                f == [s \in SUBSET (1..m) |->
                        IF m \in s THEN step[<<m, g[s \ {m}]>>] ELSE g[s]]
    <2>2. m \in 1..n /\ m \notin 1..k /\ 1..m \subseteq 0..m /\ m \in Nat
          /\ \A s \in SUBSET (1..m) : s \ {m} \in SUBSET (1..k)
      OBVIOUS
    <2>3. f \in [SUBSET (1..m) -> V]
      <3>1. ASSUME NEW s \in SUBSET (1..m)
            PROVE  (IF m \in s THEN step[<<m, g[s \ {m}]>>] ELSE g[s]) \in V
        <4>1. s \ {m} \in SUBSET (1..k) /\ (m \notin s => s \ {m} = s)
          BY <2>2
        <4>2. g[s \ {m}] \in V
          BY <4>1
        <4>3. <<m, g[s \ {m}]>> \in (1..n) \X V
          BY <2>2, <4>2
        <4>. HIDE DEF m
        <4>. QED
          BY <4>1, <4>2, <4>3
      <3>. QED
        BY <3>1
    <2>4. f[{}] = base
      <3>1. {} \in SUBSET (1..m) /\ m \notin {}
        OBVIOUS
      <3>. QED
        BY <3>1, <2>1 DEF IsFold
    <2>5. ASSUME NEW s \in SUBSET (1..m), s # {}
          PROVE  /\ Max(s) \in 1..m
                 /\ f[s \ {Max(s)}] \in V
                 /\ f[s] = step[<<Max(s), f[s \ {Max(s)}]>>]
      <3>1. CASE m \in s
        <4>1. Max(s) = m
          <5>1. Max(s) \in s /\ \A t \in s : Max(s) >= t
            BY <2>2, <2>5, GreatestNumber
          <5>2. Max(s) \in 1..m /\ Max(s) >= m
            BY <3>1, <5>1
          <5>. QED
            BY <5>2, <2>2
        <4>2. s \ {m} \in SUBSET (1..m) /\ m \notin s \ {m}
          OBVIOUS
        <4>3. f[s \ {m}] = g[s \ {m}]
          BY <4>2
        <4>4. f[s] = step[<<m, g[s \ {m}]>>]
          BY <3>1
        <4>5. f[s \ {m}] \in V /\ m \in 1..m
          BY <2>2, <2>3, <4>2
        <4>. HIDE DEF f, m
        <4>. QED
          BY <4>1, <4>3, <4>4, <4>5
      <3>2. CASE m \notin s
        <4>1. s \in SUBSET (1..k)
          BY <3>2
        <4>2. Max(s) \in 1..k /\ g[s] = step[<<Max(s), g[s \ {Max(s)}]>>]
          BY <4>1, <2>1, <2>5 DEF IsFold
        <4>3. s \ {Max(s)} \in SUBSET (1..m) /\ m \notin s \ {Max(s)}
          BY <3>2, <4>1
        <4>4. f[s] = g[s] /\ f[s \ {Max(s)}] = g[s \ {Max(s)}]
          BY <3>2, <4>3
        <4>5. f[s \ {Max(s)}] \in V /\ Max(s) \in 1..m
          BY <2>3, <4>2, <4>3
        <4>. HIDE DEF f
        <4>. QED
          BY <4>2, <4>4, <4>5
      <3>. QED
        BY <3>1, <3>2
    <2>. HIDE DEF f
    <2>. QED
      BY <2>3, <2>4, <2>5 DEF IsFold
  <1>. HIDE DEF Folds
  <1>3. Folds(n)
    <2>1. 0 \in T
      BY <1>1
    <2>2. ASSUME NEW k \in 1..n, k - 1 \in T
          PROVE  k \in T
      <3>1. k - 1 \in 0..n - 1 /\ k - 1 + 1 = k
        OBVIOUS
      <3>. QED
        BY <1>2, <2>2, <3>1
    <2>3. n \in T
      <3>. HIDE DEF T
      <3>1. n \in 0..n
        OBVIOUS
      <3>. QED
        BY <2>1, <2>2, <3>1, CountingUp
    <2>. QED
      BY <2>3
  <1>. QED
    BY <1>3 DEF Folds

\* Taking the greatest number off 1..k leaves 1..k - 1.
LEMMA WholeInterval ==
  ASSUME NEW n \in Nat, NEW k \in 1..n
  PROVE  /\ Max(1..k) = k
         /\ (1..k) \ {k} = 1..k - 1
         /\ 1..k # {}
         /\ 1..k \in SUBSET (1..n)
PROOF
  <1>1. 1..k \in SUBSET (0..k) /\ 1..k # {} /\ k \in 1..k
    OBVIOUS
  <1>2. Max(1..k) \in 1..k /\ Max(1..k) >= k
    <2>1. k \in Nat
      OBVIOUS
    <2>. QED
      BY <1>1, <2>1, GreatestNumber
  <1>. QED
    BY <1>1, <1>2

\* The same, as far as it stays within V.
FoldsWithin(h, n, V, base, step) ==
  /\ h[{}] = base
  /\ \A s \in SUBSET (1..n) :
       s # {} /\ h[s \ {Max(s)}] \in V => h[s] = step[<<Max(s), h[s \ {Max(s)}]>>]

\* From base to last, a step for each of the numbers up to n.
IsChain(p, n, base, step, last) ==
  /\ p[0] = base
  /\ \A k \in 1..n : p[k] = step[<<k, p[k - 1]>>]
  /\ p[n] = last

\* A fold over 1..n takes a step for each number, from 1 to n.
LEMMA FoldIsChain ==
  ASSUME NEW V, NEW base \in V, NEW n \in Nat, NEW step \in [(1..n) \X V -> V],
         NEW h, FoldsWithin(h, n, V, base, step)
  PROVE  \E p \in [0..n -> V] : IsChain(p, n, base, step, h[1..n])
PROOF
  <1>. DEFINE p == [k \in 0..n |-> h[1..k]]
  <1>1. /\ p[0] = h[1..0]
        /\ p[n] = h[1..n]
        /\ \A k \in 1..n : p[k] = h[1..k] /\ p[k - 1] = h[1..k - 1]
        /\ p = [k \in 0..n |-> p[k]]
    OBVIOUS
  <1>. HIDE DEF p
  <1>2. p[0] = base
    <2>1. 1..0 = {}
      OBVIOUS
    <2>. QED
      BY <1>1, <2>1 DEF FoldsWithin
  <1>3. \A k \in 1..n : p[k - 1] \in V => p[k] = step[<<k, p[k - 1]>>] /\ p[k] \in V
    <2>. SUFFICES ASSUME NEW k \in 1..n, p[k - 1] \in V
                  PROVE  p[k] = step[<<k, p[k - 1]>>] /\ p[k] \in V
      OBVIOUS
    <2>1. Max(1..k) = k /\ (1..k) \ {k} = 1..k - 1 /\ 1..k # {} /\ 1..k \in SUBSET (1..n)
      BY WholeInterval
    <2>2. h[(1..k) \ {Max(1..k)}] \in V
      BY <1>1, <2>1
    <2>4. h[1..k] = step[<<k, h[1..k - 1]>>]
      BY <2>1, <2>2 DEF FoldsWithin
    <2>3. <<k, p[k - 1]>> \in (1..n) \X V
      OBVIOUS
    <2>. QED
      BY <1>1, <2>3, <2>4
  <1>4. \A k \in 0..n : p[k] \in V
    BY <1>2, <1>3, StaysInside
  <1>5. p \in [0..n -> V]
    BY <1>1, <1>4
  <1>6. \A k \in 1..n : k - 1 \in 0..n
    OBVIOUS
  <1>. QED
    BY <1>1, <1>2, <1>3, <1>4, <1>5, <1>6 DEF IsChain

------------------------------------------------------------------------------
(* Keep and drop. *)

\* Of two choices of as many values, the one that differs by greater ones has the
\* greater sum.
LEMMA GreaterSum ==
  ASSUME NEW n \in Nat, NEW v \in [1..n -> Int], NEW g \in [SUBSET (1..n) -> Int],
         IsSum(g, n, v), NEW A \in SUBSET (1..n), NEW B \in SUBSET (1..n),
         Cardinality(A) = Cardinality(B),
         \A a \in A \ B, b \in B \ A : v[a] >= v[b]
  PROVE  g[A] >= g[B]
PROOF
  <1>0. ASSUME NEW S \in SUBSET (1..n)
        PROVE  IsFiniteSet(S) /\ Cardinality(S) \in Nat
    <2>1. IsFiniteSet(1..n)
      BY FS_Interval
    <2>. QED
      BY <2>1, FS_Subset, FS_CardinalityType
  <1>. DEFINE Differ(C, D, k) ==
                /\ Cardinality(C \ D) = k
                /\ Cardinality(D \ C) = k
                /\ \A a \in C \ D, b \in D \ C : v[a] >= v[b]
              Greater(k) == \A C, D \in SUBSET (1..n) : Differ(C, D, k) => g[C] >= g[D]
              m == Cardinality(A \ B)
              T == {k \in 0..m : Greater(k)}
  <1>1. Greater(0)
    <2>. SUFFICES ASSUME NEW C \in SUBSET (1..n), NEW D \in SUBSET (1..n), Differ(C, D, 0)
                  PROVE  g[C] >= g[D]
      OBVIOUS
    <2>1. C \ D \in SUBSET (1..n) /\ D \ C \in SUBSET (1..n)
      OBVIOUS
    <2>2. C \ D = {} /\ D \ C = {}
      BY <1>0, <2>1, FS_EmptySet
    <2>3. C = D
      BY <2>2
    <2>. QED
      BY <2>3
  <1>2. ASSUME NEW k \in Nat, k # 0, Greater(k - 1)
        PROVE  Greater(k)
    <2>. SUFFICES ASSUME NEW C \in SUBSET (1..n), NEW D \in SUBSET (1..n), Differ(C, D, k)
                  PROVE  g[C] >= g[D]
      OBVIOUS
    <2>1. C \ D \in SUBSET (1..n) /\ D \ C \in SUBSET (1..n)
      OBVIOUS
    <2>2. C \ D # {} /\ D \ C # {}
      BY <1>2, FS_EmptySet
    <2>3. PICK c \in C \ D, d \in D \ C : TRUE
      BY <2>2
    <2>4. /\ (C \ {c}) \ (D \ {d}) = (C \ D) \ {c}
          /\ (D \ {d}) \ (C \ {c}) = (D \ C) \ {d}
      BY <2>3
    <2>5. Cardinality((C \ D) \ {c}) = k - 1 /\ Cardinality((D \ C) \ {d}) = k - 1
      <3>1. \A S, x : IsFiniteSet(S) /\ x \in S => Cardinality(S \ {x}) = Cardinality(S) - 1
        BY FS_RemoveElement
      <3>2. IsFiniteSet(C \ D) /\ IsFiniteSet(D \ C)
        BY <1>0, <2>1
      <3>. QED
        BY <2>3, <3>1, <3>2
    <2>6. Differ(C \ {c}, D \ {d}, k - 1)
      BY <2>4, <2>5
    <2>7. C \ {c} \in SUBSET (1..n) /\ D \ {d} \in SUBSET (1..n) /\ v[c] >= v[d]
      BY <2>3
    <2>8. g[C \ {c}] >= g[D \ {d}]
      <3>. HIDE DEF Differ
      <3>. QED
        BY <1>2, <2>6, <2>7
    <2>9. g[C] = v[c] + g[C \ {c}] /\ g[D] = v[d] + g[D \ {d}]
      BY <2>3 DEF IsSum
    <2>10. v[c] \in Int /\ v[d] \in Int /\ g[C \ {c}] \in Int /\ g[D \ {d}] \in Int
      BY <2>3, <2>7
    <2>. QED
      BY <2>7, <2>8, <2>9, <2>10
  <1>3. /\ m \in Nat
        /\ A \ B \in SUBSET (1..n)
        /\ B \ A \in SUBSET (1..n)
    BY <1>0
  <1>. HIDE DEF Greater
  <1>4. Greater(m)
    <2>1. 0 \in T
      BY <1>1, <1>3
    <2>2. ASSUME NEW k \in 1..m, k - 1 \in T
          PROVE  k \in T
      BY <1>2, <1>3, <2>2
    <2>3. m \in T
      <3>1. m \in 0..m
        BY <1>3
      <3>. HIDE DEF T, m
      <3>. QED
        BY <1>3, <2>1, <2>2, <3>1, CountingUp
    <2>. QED
      BY <2>3
  <1>5. Cardinality(B \ A) = m
    <2>1. Cardinality(A \ B) = Cardinality(A) - Cardinality(A \cap B)
      BY <1>0, FS_Difference
    <2>2. Cardinality(B \ A) = Cardinality(B) - Cardinality(B \cap A)
      BY <1>0, FS_Difference
    <2>3. A \cap B = B \cap A
      OBVIOUS
    <2>. QED
      BY <2>1, <2>2, <2>3
  <1>. QED
    BY <1>4, <1>5 DEF Greater

------------------------------------------------------------------------------
(* Ranks. *)

\* The dice that stand in front of die i in the sorted pool.
Before(i) ==
  {j \in DOMAIN dice : \/ dice[j].value < dice[i].value
                       \/ dice[j].value = dice[i].value /\ j < i}

\* The ranks of a pool of n dice are 0..n - 1, each once, and go with the faces.
LEMMA RanksCount ==
  ASSUME dice \in Seq(DieRecord)
  PROVE  /\ \A i \in DOMAIN dice : Rank(i) \in 0..Len(dice) - 1
         /\ \A i, j \in DOMAIN dice : j \in Before(i) => Rank(j) < Rank(i)
         /\ \A r \in 0..Len(dice) - 1 : \E i \in DOMAIN dice : Rank(i) = r
         /\ \A i, j \in DOMAIN dice : i # j => Rank(i) # Rank(j)
PROOF
  <1>. DEFINE n == Len(dice)
              D == DOMAIN dice
  <1>1. D = 1..n /\ n \in Nat /\ \A i \in D : dice[i].value \in Int /\ i \in Int
    <2>1. \A i \in D : dice[i] \in DieRecord
      BY ElementOfSeq, LenProperties
    <2>. QED
      BY <2>1, LenProperties DEF DieRecord
  <1>2. IsFiniteSet(D) /\ Cardinality(D) = n
    BY <1>1, FS_Interval
  <1>3. \A i \in D : Rank(i) = Cardinality(Before(i))
    BY DEF Rank, Before
  <1>4. \A i \in D : Before(i) \subseteq D /\ i \notin Before(i)
    BY <1>1 DEF Before
  <1>5. \A i, j \in D : i # j => i \in Before(j) \/ j \in Before(i)
    BY <1>1 DEF Before
  <1>6. \A i, j \in D : j \in Before(i) => Before(j) \subseteq Before(i)
    BY <1>1 DEF Before
  <1>7. \A S \in SUBSET D : IsFiniteSet(S) /\ Cardinality(S) \in Nat
    BY <1>2, FS_Subset, FS_CardinalityType
  <1>8. \A i \in D : Rank(i) \in 0..n - 1
    <2>. TAKE i \in D
    <2>1. Before(i) \in SUBSET (D \ {i})
      BY <1>4
    <2>2. IsFiniteSet(D \ {i}) /\ Cardinality(D \ {i}) = n - 1
      BY <1>2, FS_RemoveElement
    <2>3. Cardinality(Before(i)) <= n - 1
      BY <2>1, <2>2, FS_Subset
    <2>. QED
      BY <1>1, <1>3, <1>4, <1>7, <2>3
  <1>9. ASSUME NEW i \in D, NEW j \in D, j \in Before(i)
        PROVE  Rank(j) < Rank(i)
    <2>1. Before(j) \in SUBSET Before(i) /\ Before(j) # Before(i)
      BY <1>4, <1>6, <1>9
    <2>2. IsFiniteSet(Before(i))
      BY <1>4, <1>7
    <2>3. Cardinality(Before(j)) <= Cardinality(Before(i))
          /\ Cardinality(Before(j)) # Cardinality(Before(i))
      BY <2>1, <2>2, FS_Subset
    <2>. QED
      BY <1>3, <1>4, <1>7, <2>3
  <1>10. \A i, j \in D : i # j => Rank(i) # Rank(j)
    <2>. SUFFICES ASSUME NEW i \in D, NEW j \in D, i # j PROVE Rank(i) # Rank(j)
      OBVIOUS
    <2>1. Rank(i) < Rank(j) \/ Rank(j) < Rank(i)
      BY <1>5, <1>9
    <2>. QED
      BY <1>8, <2>1
  <1>. DEFINE f == [i \in D |-> Rank(i)]
  <1>11. f \in Injection(D, 0..n - 1)
    BY <1>8, <1>10 DEF Injection, IsInjective
  <1>12. IsFiniteSet(0..n - 1) /\ Cardinality(0..n - 1) = n
    <2>1. (IF 0 > n - 1 THEN 0 ELSE n - 1 - 0 + 1) = n /\ 0 \in Int /\ n - 1 \in Int
      BY <1>1
    <2>. HIDE DEF n
    <2>. QED
      BY <2>1, FS_Interval
  <1>13. f \in Surjection(D, 0..n - 1)
    <2>. HIDE DEF f, D, n
    <2>. QED
      BY <1>2, <1>11, <1>12, FS_Injection
  <1>14. \A r \in 0..n - 1 : \E i \in D : Rank(i) = r
    BY <1>13 DEF Surjection
  <1>. QED
    BY <1>8, <1>9, <1>10, <1>14

\* The dice with certain ranks are as many as the ranks.
LEMMA RanksSelect ==
  ASSUME dice \in Seq(DieRecord), NEW a \in 0..Len(dice), NEW b \in a..Len(dice)
  PROVE  Cardinality({i \in DOMAIN dice : Rank(i) \in a..b - 1}) = b - a
PROOF
  <1>. DEFINE n == Len(dice)
              D == {i \in DOMAIN dice : Rank(i) \in a..b - 1}
              f == [i \in D |-> Rank(i)]
  <1>1. n \in Nat /\ DOMAIN dice = 1..n
    BY LenProperties
  <1>2. f \in Bijection(D, a..b - 1)
    <2>1. f \in [D -> a..b - 1]
      OBVIOUS
    <2>2. \A i, j \in D : f[i] = f[j] => i = j
      BY RanksCount
    <2>3. \A r \in a..b - 1 : \E i \in D : f[i] = r
      <3>. TAKE r \in a..b - 1
      <3>1. r \in 0..n - 1
        BY <1>1
      <3>2. PICK i \in DOMAIN dice : Rank(i) = r
        BY <3>1, RanksCount
      <3>. QED
        BY <3>2
    <2>. HIDE DEF f, D
    <2>. QED
      BY <2>1, <2>2, <2>3 DEF Bijection, Injection, Surjection, IsInjective
  <1>3. IsFiniteSet(D)
    <2>1. D \in SUBSET (1..n) /\ IsFiniteSet(1..n)
      BY <1>1, FS_Interval
    <2>. HIDE DEF D
    <2>. QED
      BY <2>1, FS_Subset
  <1>4. Cardinality(a..b - 1) = b - a
    <2>1. a \in Int /\ b - 1 \in Int /\ (IF a > b - 1 THEN 0 ELSE b - 1 - a + 1) = b - a
      BY <1>1
    <2>. QED
      BY <2>1, FS_Interval
  <1>5. ExistsBijection(D, a..b - 1)
    BY <1>2 DEF ExistsBijection
  <1>. HIDE DEF D
  <1>6. Cardinality(a..b - 1) = Cardinality(D)
    BY <1>3, <1>5, FS_Bijection
  <1>. QED
    BY <1>4, <1>6 DEF D

\* The c dice with the greatest ranks, or the least, have the greatest sum of all
\* choices of c dice, or the least.
LEMMA ChoiceIsBest ==
  ASSUME dice \in Seq(DieRecord), NEW c \in 0..Len(dice),
         NEW K \in SUBSET DOMAIN dice, NEW top \in BOOLEAN,
         top => K = {i \in DOMAIN dice : Rank(i) >= Len(dice) - c},
         ~top => K = {i \in DOMAIN dice : Rank(i) < c}
  PROVE  /\ Cardinality(K) = c
         /\ Sum(K) = IF top THEN Max({Sum(S) : S \in kSubset(c, DOMAIN dice)})
                     ELSE Min({Sum(S) : S \in kSubset(c, DOMAIN dice)})
PROOF
  <1>. DEFINE n == Len(dice)
              v == [i \in 1..n |-> dice[i].value]
              Sums == {Sum(S) : S \in kSubset(c, DOMAIN dice)}
  <1>1. n \in Nat /\ DOMAIN dice = 1..n /\ \A i \in 1..n : dice[i].value \in Int
    <2>1. \A i \in DOMAIN dice : dice[i] \in DieRecord
      BY ElementOfSeq, LenProperties
    <2>. QED
      BY <2>1, LenProperties DEF DieRecord
  <1>2. \A i \in DOMAIN dice : Rank(i) \in 0..n - 1
    BY RanksCount
  <1>3. Cardinality(K) = c
    <2>1. CASE top
      <3>1. K = {i \in DOMAIN dice : Rank(i) \in n - c..n - 1}
        BY <1>1, <1>2, <2>1
      <3>2. n - c \in 0..n /\ n \in n - c..n /\ n - (n - c) = c
        BY <1>1
      <3>3. Cardinality({i \in DOMAIN dice : Rank(i) \in n - c..n - 1}) = n - (n - c)
        BY <3>2, RanksSelect
      <3>. QED
        BY <3>1, <3>2, <3>3
    <2>2. CASE ~top
      <3>1. K = {i \in DOMAIN dice : Rank(i) \in 0..c - 1}
        BY <1>1, <1>2, <2>2
      <3>2. 0 \in 0..n /\ c \in 0..n /\ c - 0 = c
        BY <1>1
      <3>3. Cardinality({i \in DOMAIN dice : Rank(i) \in 0..c - 1}) = c - 0
        BY <3>2, RanksSelect
      <3>. QED
        BY <3>1, <3>2, <3>3
    <2>. QED
      BY <2>1, <2>2
  <1>4. PICK g \in [SUBSET (1..n) -> Int] :
          IsSum(g, n, v) /\ \A S \in SUBSET (1..n) : SumOf(dice, S) = g[S]
    <2>. QED
      BY <1>1, SumUnfolds
  <1>5. \A S \in SUBSET (1..n) : Sum(S) = g[S] /\ g[S] \in Int
    BY <1>4 DEF Sum, SumOf
  <1>6. v \in [1..n -> Int] /\ \A i \in 1..n : v[i] = dice[i].value
    BY <1>1
  <1>7. \A a \in K, b \in DOMAIN dice \ K :
          IF top THEN v[a] >= v[b] ELSE v[b] >= v[a]
    <2>. SUFFICES ASSUME NEW a \in K, NEW b \in DOMAIN dice \ K
                  PROVE  IF top THEN v[a] >= v[b] ELSE v[b] >= v[a]
      OBVIOUS
    <2>1. a \in 1..n /\ b \in 1..n /\ Rank(a) \in 0..n - 1 /\ Rank(b) \in 0..n - 1
      BY <1>1, <1>2
    <2>2. \A i, j \in 1..n : j \in Before(i) => Rank(j) < Rank(i)
      BY <1>1, RanksCount
    <2>3. IF top THEN Rank(b) < Rank(a) ELSE Rank(a) < Rank(b)
      BY <1>1, <2>1
    <2>4. IF top THEN a \notin Before(b) ELSE b \notin Before(a)
      BY <2>1, <2>2, <2>3
    <2>. QED
      BY <1>1, <1>6, <2>1, <2>4 DEF Before
  <1>8. \A A, B \in SUBSET (1..n) :
           /\ Cardinality(A) = Cardinality(B)
           /\ \A a \in A \ B, b \in B \ A : v[a] >= v[b]
           => g[A] >= g[B]
    <2>1. n \in Nat /\ v \in [1..n -> Int] /\ IsSum(g, n, v)
      BY <1>1, <1>4, <1>6
    <2>. HIDE DEF n, v
    <2>. QED
      BY <2>1, GreaterSum
  <1>9. ASSUME NEW S \in kSubset(c, DOMAIN dice)
        PROVE  IF top THEN Sum(K) >= Sum(S) ELSE Sum(S) >= Sum(K)
    <2>1. S \in SUBSET (1..n) /\ Cardinality(S) = Cardinality(K) /\ K \in SUBSET (1..n)
      BY <1>1, <1>3 DEF kSubset
    <2>2. /\ \A a \in K \ S, b \in S \ K : IF top THEN v[a] >= v[b] ELSE v[b] >= v[a]
      BY <1>1, <1>7, <2>1
    <2>. HIDE DEF v
    <2>3. CASE top
      <3>1. \A a \in K \ S, b \in S \ K : v[a] >= v[b]
        BY <2>2, <2>3
      <3>2. Cardinality(K) = Cardinality(S)
        BY <2>1
      <3>3. g[K] >= g[S]
        BY <2>1, <2>2, <2>3, <3>1, <3>2, <1>8
      <3>. QED
        BY <1>5, <2>1, <2>3, <3>3
    <2>4. CASE ~top
      <3>1. g[S] >= g[K]
        BY <1>1, <1>4, <1>6, <2>1, <2>2, <2>4, GreaterSum
      <3>. QED
        BY <1>5, <2>1, <2>4, <3>1
    <2>. QED
      BY <2>3, <2>4
  <1>10. K \in kSubset(c, DOMAIN dice)
    BY <1>3 DEF kSubset
  <1>11. Sum(K) \in Sums /\ \A s \in Sums : s \in Int
    <2>1. \A S \in kSubset(c, DOMAIN dice) : S \in SUBSET (1..n)
      BY <1>1 DEF kSubset
    <2>. QED
      BY <1>5, <1>10, <2>1
  <1>12. \A s \in Sums : IF top THEN Sum(K) >= s ELSE Sum(K) <= s
    <2>1. \A s \in Sums : s \in Int /\ Sum(K) \in Int
      BY <1>11
    <2>. QED
      BY <1>9, <2>1
  <1>. HIDE DEF Sums
  <1>13. CASE top
    <2>1. Max(Sums) \in Sums /\ \A s \in Sums : Max(Sums) >= s
      BY <1>11, <1>12, <1>13 DEF Max
    <2>2. Sum(K) = Max(Sums)
      BY <1>11, <1>12, <1>13, <2>1
    <2>. QED
      BY <1>3, <1>13, <2>2 DEF Sums
  <1>14. CASE ~top
    <2>1. Min(Sums) \in Sums /\ \A s \in Sums : Min(Sums) <= s
      BY <1>11, <1>12, <1>14 DEF Min
    <2>2. Sum(K) = Min(Sums)
      BY <1>11, <1>12, <1>14, <2>1
    <2>. QED
      BY <1>3, <1>14, <2>2 DEF Sums
  <1>. QED
    BY <1>13, <1>14

\* Behind the pass, the dropped dice are those that the suffix names.
KeepInv ==
  pc \in {"value", "done"} =>
    \A i \in DOMAIN dice : dice[i].dropped = Dropped(i)

\* The dice that are not dropped are a choice of ranks from one end.
LEMMA KeptAreBest ==
  ASSUME EvalTypeOK, KeepInv
  PROVE  KeepsTheBest
PROOF
  <1>. SUFFICES ASSUME pc \in {"value", "done"}, term.keep # None
                PROVE  /\ Cardinality(Kept) = KeptCount
                       /\ Sum(Kept) = IF term.keep.kind \in {"kh", "dl"}
                                      THEN Max(PossibleSums) ELSE Min(PossibleSums)
    BY Zenon DEF KeepsTheBest
  <1>. DEFINE n == Len(dice)
              k == term.keep.n
              m == Min({k, n})
              kind == term.keep.kind
  <1>1. /\ dice \in Seq(DieRecord)
        /\ n \in Nat
        /\ DOMAIN dice = 1..n
        /\ term.keep \in [kind : {"kh", "kl", "dh", "dl"}, n : Nat]
    <2>1. dice \in Seq(DieRecord) /\ term \in TermRecord
      BY DEF EvalTypeOK
    <2>. QED
      BY <2>1, LenProperties DEF TermRecord
  <1>2. k \in Nat /\ kind \in {"kh", "kl", "dh", "dl"}
    BY <1>1
  <1>3. m \in {k, n} /\ m <= k /\ m <= n
    <2>1. \A a, b \in Nat : Min({a, b}) \in {a, b} /\ Min({a, b}) <= a /\ Min({a, b}) <= b
      <3>. SUFFICES ASSUME NEW a \in Nat, NEW b \in Nat
                    PROVE  Min({a, b}) \in {a, b} /\ Min({a, b}) <= a /\ Min({a, b}) <= b
        OBVIOUS
      <3>1. \E x \in {a, b} : \A y \in {a, b} : x <= y
        OBVIOUS
      <3>. QED
        BY <3>1 DEF Min
    <2>. QED
      BY <1>1, <1>2, <2>1
  <1>4. PICK top \in BOOLEAN : top <=> kind \in {"kh", "dl"}
    OBVIOUS
  <1>5. PICK c : c = KeptCount
    OBVIOUS
  <1>6. c = IF kind \in {"kh", "kl"} THEN m ELSE n - m
    BY <1>5 DEF KeptCount
  <1>7. c \in 0..n
    BY <1>1, <1>2, <1>3, <1>6
  <1>8. \A i \in DOMAIN dice : Rank(i) \in 0..n - 1
    BY <1>1, RanksCount
  <1>9. \A i \in DOMAIN dice :
          i \in Kept <=> ((i \in Chosen(term.keep)) <=> kind \in {"kh", "kl"})
    <2>1. \A i \in DOMAIN dice : dice[i].dropped = Dropped(i)
      BY DEF KeepInv
    <2>2. \A i \in DOMAIN dice :
            Dropped(i) <=> ~((i \in Chosen(term.keep)) <=> kind \in {"kh", "kl"})
      BY DEF Dropped
    <2>. QED
      BY <2>1, <2>2, Zenon DEF Kept
  <1>10. \A i \in DOMAIN dice :
           i \in Chosen(term.keep) <=>
             IF kind \in {"kh", "dh"} THEN Rank(i) >= n - k ELSE Rank(i) < k
    BY DEF Chosen, Highest, Lowest
  <1>11. Kept \subseteq DOMAIN dice
    BY DEF Kept
  <1>. HIDE DEF m, k, n, kind
  <1>12. \A i \in DOMAIN dice :
           i \in Kept <=> IF top THEN Rank(i) >= n - c ELSE Rank(i) < c
    <2>. TAKE i \in DOMAIN dice
    <2>1. Rank(i) \in 0..n - 1
      BY <1>8
    <2>2. CASE kind = "kh"
      BY <1>1, <1>2, <1>3, <1>4, <1>6, <1>9, <1>10, <2>1, <2>2
    <2>3. CASE kind = "kl"
      BY <1>1, <1>2, <1>3, <1>4, <1>6, <1>9, <1>10, <2>1, <2>3
    <2>4. CASE kind = "dh"
      BY <1>1, <1>2, <1>3, <1>4, <1>6, <1>9, <1>10, <2>1, <2>4
    <2>5. CASE kind = "dl"
      BY <1>1, <1>2, <1>3, <1>4, <1>6, <1>9, <1>10, <2>1, <2>5
    <2>. QED
      BY <1>2, <2>2, <2>3, <2>4, <2>5
  <1>13. /\ top => Kept = {i \in DOMAIN dice : Rank(i) >= n - c}
         /\ ~top => Kept = {i \in DOMAIN dice : Rank(i) < c}
    BY <1>11, <1>12
  <1>14. /\ Cardinality(Kept) = c
         /\ Sum(Kept) = IF top THEN Max({Sum(S) : S \in kSubset(c, DOMAIN dice)})
                        ELSE Min({Sum(S) : S \in kSubset(c, DOMAIN dice)})
    BY <1>1, <1>7, <1>11, <1>13, ChoiceIsBest DEF n
  <1>. QED
    BY <1>4, <1>5, <1>14, Zenon DEF PossibleSums, kind

\* Which dice a suffix drops depends on the faces alone.
LEMMA SameFacesSameDrops ==
  ASSUME SameFaces(dice, dice'), term' = term
  PROVE  \A i \in DOMAIN dice : Dropped(i)' <=> Dropped(i)
PROOF
  <1>1. DOMAIN dice' = DOMAIN dice /\ Len(dice') = Len(dice)
    BY DEF SameFaces
  <1>2. \A i \in DOMAIN dice : dice'[i].value = dice[i].value
    BY DEF SameFaces
  <1>3. ASSUME NEW i \in DOMAIN dice
        PROVE  Rank(i)' = Rank(i)
    <2>1. {j \in DOMAIN dice' : \/ dice'[j].value < dice'[i].value
                                \/ dice'[j].value = dice'[i].value /\ j < i}
          = {j \in DOMAIN dice : \/ dice[j].value < dice[i].value
                                 \/ dice[j].value = dice[i].value /\ j < i}
      BY <1>1, <1>2
    <2>. QED
      BY <2>1 DEF Rank
  <1>4. \A n, i : i \in DOMAIN dice =>
          /\ (i \in Highest(n))' <=> i \in Highest(n)
          /\ (i \in Lowest(n))' <=> i \in Lowest(n)
    BY <1>1, <1>3 DEF Highest, Lowest
  <1>5. ASSUME NEW i \in DOMAIN dice
        PROVE  (i \in Chosen(term.keep))' <=> i \in Chosen(term.keep)
    BY <1>4, <1>5 DEF Chosen
  <1>. TAKE i \in DOMAIN dice
  <1>6. (i \in Chosen(term.keep))' <=> i \in Chosen(term.keep)
    BY <1>5
  <1>. QED
    BY <1>6 DEF Dropped

\* Keep drops them, and what follows leaves it at that.
LEMMA DropsKept ==
  ASSUME ExprInv, KeepInv, [Next]_vars
  PROVE  KeepInv'
PROOF
  <1>1. dice \in Seq(DieRecord)
    BY DEF ExprInv, EvalInv, EvalTypeOK
  <1>2. CASE RollDice /\ Keep
    <2>. DEFINE f == [i \in DOMAIN dice |-> Dropped(i)]
    <2>1. f \in [DOMAIN dice -> BOOLEAN]
      <3>1. \A i \in DOMAIN dice : Dropped(i) \in BOOLEAN
        BY Zenon DEF Dropped
      <3>. QED
        BY <3>1
    <2>2. dice' = [i \in DOMAIN dice |-> [dice[i] EXCEPT !.dropped = f[i]]] /\ term' = term
      BY <1>2 DEF Keep
    <2>. HIDE DEF f
    <2>3. SameFaces(dice, dice')
      BY <1>1, <2>1, <2>2, MarkedDropped
    <2>4. ASSUME NEW i \in DOMAIN dice
          PROVE  dice'[i].dropped = f[i]
      <3>1. dice[i] \in DieRecord
        BY <1>1, ElementOfSeq, LenProperties
      <3>2. dice'[i] = [dice[i] EXCEPT !.dropped = f[i]]
        BY <2>2
      <3>. QED
        BY <3>1, <3>2 DEF DieRecord
    <2>5. DOMAIN dice' = DOMAIN dice
      BY <2>3 DEF SameFaces
    <2>6. \A i \in DOMAIN dice : Dropped(i)' <=> Dropped(i)
      BY <2>2, <2>3, SameFacesSameDrops
    <2>7. \A i \in DOMAIN dice : f[i] = Dropped(i)'
      BY <2>6, Zenon DEF f, Dropped
    <2>. QED
      BY <2>4, <2>5, <2>7 DEF KeepInv
  <1>3. CASE RollDice /\ Value
    <2>1. pc = "value" /\ term' = term
      BY <1>3 DEF Value
    <2>2. SameFaces(dice, dice') /\ \A i \in DOMAIN dice : dice'[i].dropped = dice[i].dropped
      <3>1. CASE term.success # None
        <4>. DEFINE f == [i \in DOMAIN dice |-> Succeeds(dice[i])]
        <4>1. f \in [DOMAIN dice -> BOOLEAN]
          <5>1. \A i \in DOMAIN dice : Succeeds(dice[i]) \in BOOLEAN
            BY Zenon DEF Succeeds
          <5>. QED
            BY <5>1
        <4>2. dice' = [i \in DOMAIN dice |-> [dice[i] EXCEPT !.success = f[i]]]
          BY <1>3, <3>1 DEF Value
        <4>. HIDE DEF f
        <4>3. SameFaces(dice, dice')
          BY <1>1, <4>1, <4>2, MarkedSuccess
        <4>4. ASSUME NEW i \in DOMAIN dice
              PROVE  dice'[i].dropped = dice[i].dropped
          <5>1. dice[i] \in DieRecord
            BY <1>1, ElementOfSeq, LenProperties
          <5>2. dice'[i] = [dice[i] EXCEPT !.success = f[i]]
            BY <4>2
          <5>. QED
            BY <5>1, <5>2 DEF DieRecord
        <4>. QED
          BY <4>3, <4>4
      <3>2. CASE term.success = None
        BY <1>3, <3>2 DEF Value, SameFaces
      <3>. QED
        BY <3>1, <3>2
    <2>3. DOMAIN dice' = DOMAIN dice
      BY <2>2 DEF SameFaces
    <2>4. \A i \in DOMAIN dice : dice[i].dropped = Dropped(i)
      BY <2>1 DEF KeepInv
    <2>5. \A i \in DOMAIN dice : Dropped(i)' <=> Dropped(i)
      BY <2>1, <2>2, SameFacesSameDrops
    <2>6. \A i \in DOMAIN dice : Dropped(i)' = Dropped(i)
      BY <2>5, Zenon DEF Dropped
    <2>. QED
      BY <2>2, <2>3, <2>4, <2>6, Zenon DEF KeepInv
  <1>4. CASE UNCHANGED evalVars
    <2>1. pc' = pc /\ dice' = dice /\ term' = term
      BY <1>4 DEF evalVars
    <2>2. SameFaces(dice, dice')
      BY <2>1 DEF SameFaces
    <2>3. \A i \in DOMAIN dice : Dropped(i)' <=> Dropped(i)
      BY <2>1, <2>2, SameFacesSameDrops
    <2>4. \A i \in DOMAIN dice : Dropped(i)' = Dropped(i)
      BY <2>3, Zenon DEF Dropped
    <2>. QED
      BY <2>1, <2>4, Zenon DEF KeepInv
  <1>5. CASE pc' \notin {"value", "done"}
    BY <1>5 DEF KeepInv
  <1>6. \/ RollDice /\ (Keep \/ Value)
        \/ UNCHANGED evalVars
        \/ pc' \notin {"value", "done"}
    <2>1. CASE EvalConst \/ EvalError \/ EndProduct \/ Return \/ UNCHANGED vars
      BY <2>1 DEF EvalConst, EvalError, EndProduct, Return, vars
    <2>2. CASE BeginDice
      BY <2>2 DEF BeginDice, Begin
    <2>3. CASE EndDice
      BY <2>3 DEF EndDice
    <2>4. CASE RollDice
      BY <2>4
      DEF RollDice, EvalStep, Start, RollDie, Reroll, RerollLimit, RerollDone, PoolDone,
          Explode, NextDie, Exploded
    <2>. QED
      BY <2>1, <2>2, <2>3, <2>4 DEF Next
  <1>. QED
    BY <1>2, <1>3, <1>4, <1>5, <1>6

\* The dice that a keep suffix leaves have the greatest sum of all choices of as many,
\* or the least, whatever the pool, with explosions, ties and suffixes beyond its size.
THEOREM KeepLeavesTheBest == Spec => []KeepsTheBest
PROOF
  <1>1. Init => KeepInv
    BY DEF Init, KeepInv
  <1>2. ExprInv /\ KeepInv /\ [Next]_vars => KeepInv'
    BY DropsKept
  <1>3. ExprInv /\ KeepInv => KeepsTheBest
    BY KeptAreBest DEF ExprInv, EvalInv
  <1>. QED
    BY <1>1, <1>2, <1>3, ExprInvariance, PTL DEF Spec

------------------------------------------------------------------------------
(* The sums and products of an expression. *)

\* A product, factor by factor.
LEMMA ProductUnfolds ==
  ASSUME NEW q, NEW n \in Nat, DOMAIN q = 1..n,
         \A i \in 1..n : ValueOf(q[i]) \in Int
  PROVE  \E p \in [0..n -> Int] :
           /\ p[0] = 1
           /\ \A k \in 1..n : p[k] = p[k - 1] * ValueOf(q[k])
           /\ p[n] = Product(q)
PROOF
  <1>. DEFINE step == [x \in (1..n) \X Int |-> x[2] * ValueOf(q[x[1]])]
              Iterates(h) == h = [s \in SUBSET (1..n) |->
                 IF s = {} THEN 1 ELSE h[s \ {Max(s)}] * ValueOf(q[Max(s)])]
              h == CHOOSE h : Iterates(h)
  <1>1. PICK V, base : V = Int /\ base = 1
    OBVIOUS
  <1>2. base \in V /\ step \in [(1..n) \X V -> V]
    BY <1>1
  <1>3. \A k \in 1..n, v \in V : step[<<k, v>>] = v * ValueOf(q[k])
    BY <1>1
  <1>4. Product(q) = h[1..n]
    BY DEF Product, FoldLeft, MapThenFoldSet
  <1>. HIDE DEF step
  <1>5. PICK g \in [SUBSET (1..n) -> V] : IsFold(g, n, V, base, step)
    BY <1>2, FoldExists
  <1>6. Iterates(g)
    <2>1. \A s \in SUBSET (1..n) :
            s # {} => g[s] = g[s \ {Max(s)}] * ValueOf(q[Max(s)])
      BY <1>3, <1>5 DEF IsFold
    <2>2. g[{}] = 1 /\ g = [s \in SUBSET (1..n) |-> g[s]]
      BY <1>1, <1>5 DEF IsFold
    <2>. QED
      BY <2>1, <2>2
  <1>7. Iterates(h)
    <2>. HIDE DEF Iterates
    <2>. QED
      BY <1>6
  <1>. HIDE DEF h
  <1>8. /\ h[{}] = base
        /\ \A s \in SUBSET (1..n) :
             s # {} => h[s] = h[s \ {Max(s)}] * ValueOf(q[Max(s)])
    BY <1>1, <1>7
  <1>9. \A s \in SUBSET (1..n) :
          s # {} /\ h[s \ {Max(s)}] \in V => h[s] = step[<<Max(s), h[s \ {Max(s)}]>>]
    <2>1. \A s \in SUBSET (1..n) : s # {} => Max(s) \in 1..n
      BY <1>5 DEF IsFold
    <2>. QED
      BY <1>3, <1>8, <2>1
  <1>10. PICK p \in [0..n -> V] : IsChain(p, n, base, step, h[1..n])
    <2>1. FoldsWithin(h, n, V, base, step)
      BY <1>8, <1>9 DEF FoldsWithin
    <2>. QED
      BY <1>2, <2>1, FoldIsChain
  <1>11. \A k \in 1..n : p[k] = p[k - 1] * ValueOf(q[k])
    <2>. TAKE k \in 1..n
    <2>1. p[k - 1] \in V /\ p[k] = step[<<k, p[k - 1]>>]
      BY <1>10 DEF IsChain
    <2>. QED
      BY <1>3, <2>1
  <1>. QED
    BY <1>1, <1>4, <1>10, <1>11 DEF IsChain

\* What Exact adds up, for any products.
Added(x, s) == IF x.op = "+" THEN s + Product(x.item) ELSE s - Product(x.item)

ExactOf(ps) ==
  FoldLeft(LAMBDA s, x : IF x.op = "+" THEN s + Product(x.item) ELSE s - Product(x.item),
           0, ps)

\* A sum of products, product by product.
LEMMA ExactUnfolds ==
  ASSUME NEW q, NEW n \in Nat, DOMAIN q = 1..n,
         \A i \in 1..n : Product(q[i].item) \in Int
  PROVE  \E p \in [0..n -> Int] :
           /\ p[0] = 0
           /\ \A k \in 1..n : p[k] = Added(q[k], p[k - 1])
           /\ p[n] = ExactOf(q)
PROOF
  <1>. DEFINE step == [x \in (1..n) \X Int |-> Added(q[x[1]], x[2])]
              Iterates(h) == h = [s \in SUBSET (1..n) |->
                 IF s = {} THEN 0 ELSE Added(q[Max(s)], h[s \ {Max(s)}])]
              h == CHOOSE h : Iterates(h)
  <1>1. PICK V, base : V = Int /\ base = 0
    OBVIOUS
  <1>2. base \in V /\ step \in [(1..n) \X V -> V]
    BY <1>1 DEF Added
  <1>3. \A k \in 1..n, v \in V : step[<<k, v>>] = Added(q[k], v)
    BY <1>1
  <1>4. ExactOf(q) = h[1..n]
    BY DEF ExactOf, FoldLeft, MapThenFoldSet, Added
  <1>. HIDE DEF step
  <1>5. PICK g \in [SUBSET (1..n) -> V] : IsFold(g, n, V, base, step)
    BY <1>2, FoldExists
  <1>6. Iterates(g)
    <2>1. \A s \in SUBSET (1..n) :
            s # {} => g[s] = Added(q[Max(s)], g[s \ {Max(s)}])
      BY <1>3, <1>5 DEF IsFold
    <2>2. g[{}] = 0 /\ g = [s \in SUBSET (1..n) |-> g[s]]
      BY <1>1, <1>5 DEF IsFold
    <2>. QED
      BY <2>1, <2>2
  <1>7. Iterates(h)
    <2>. HIDE DEF Iterates
    <2>. QED
      BY <1>6
  <1>. HIDE DEF h
  <1>8. /\ h[{}] = base
        /\ \A s \in SUBSET (1..n) :
             s # {} => h[s] = Added(q[Max(s)], h[s \ {Max(s)}])
    BY <1>1, <1>7
  <1>9. \A s \in SUBSET (1..n) :
          s # {} /\ h[s \ {Max(s)}] \in V => h[s] = step[<<Max(s), h[s \ {Max(s)}]>>]
    <2>1. \A s \in SUBSET (1..n) : s # {} => Max(s) \in 1..n
      BY <1>5 DEF IsFold
    <2>. QED
      BY <1>3, <1>8, <2>1
  <1>10. PICK p \in [0..n -> V] : IsChain(p, n, base, step, h[1..n])
    <2>1. FoldsWithin(h, n, V, base, step)
      BY <1>8, <1>9 DEF FoldsWithin
    <2>. QED
      BY <1>2, <2>1, FoldIsChain
  <1>11. \A k \in 1..n : p[k] = Added(q[k], p[k - 1])
    <2>. TAKE k \in 1..n
    <2>1. p[k - 1] \in V /\ p[k] = step[<<k, p[k - 1]>>]
      BY <1>10 DEF IsChain
    <2>. QED
      BY <1>3, <2>1
  <1>. QED
    BY <1>1, <1>4, <1>10, <1>11 DEF IsChain

\* The sum of the dice that count, in the order of the pool.
DiceSum(q) == FoldLeft(LAMBDA n, d : IF d.dropped THEN n ELSE n + d.value, 0, q)

\* A sum of dice, die by die.
LEMMA DiceSumUnfolds ==
  ASSUME NEW q, NEW n \in Nat, DOMAIN q = 1..n,
         \A i \in 1..n : q[i].value \in Int
  PROVE  \E p \in [0..n -> Int] :
           /\ p[0] = 0
           /\ \A k \in 1..n : p[k] = (IF q[k].dropped THEN p[k - 1] ELSE p[k - 1] + q[k].value)
           /\ p[n] = DiceSum(q)
PROOF
  <1>. DEFINE step == [x \in (1..n) \X Int |-> IF q[x[1]].dropped THEN x[2]
                                                ELSE x[2] + q[x[1]].value]
              Iterates(h) == h = [s \in SUBSET (1..n) |->
                 IF s = {} THEN 0 ELSE IF q[Max(s)].dropped THEN h[s \ {Max(s)}]
                 ELSE h[s \ {Max(s)}] + q[Max(s)].value]
              h == CHOOSE h : Iterates(h)
  <1>1. PICK V, base : V = Int /\ base = 0
    OBVIOUS
  <1>2. base \in V /\ step \in [(1..n) \X V -> V]
    BY <1>1
  <1>3. \A k \in 1..n, v \in V : step[<<k, v>>] = (IF q[k].dropped THEN v ELSE v + q[k].value)
    BY <1>1
  <1>4. DiceSum(q) = h[1..n]
    BY DEF DiceSum, FoldLeft, MapThenFoldSet
  <1>. HIDE DEF step
  <1>5. PICK g \in [SUBSET (1..n) -> V] : IsFold(g, n, V, base, step)
    BY <1>2, FoldExists
  <1>6. Iterates(g)
    <2>1. \A s \in SUBSET (1..n) :
            s # {} => g[s] = IF q[Max(s)].dropped THEN g[s \ {Max(s)}]
                              ELSE g[s \ {Max(s)}] + q[Max(s)].value
      BY <1>3, <1>5 DEF IsFold
    <2>2. g[{}] = 0 /\ g = [s \in SUBSET (1..n) |-> g[s]]
      BY <1>1, <1>5 DEF IsFold
    <2>. QED
      BY <2>1, <2>2
  <1>7. Iterates(h)
    <2>. HIDE DEF Iterates
    <2>. QED
      BY <1>6
  <1>. HIDE DEF h
  <1>8. /\ h[{}] = base
        /\ \A s \in SUBSET (1..n) :
             s # {} => h[s] = IF q[Max(s)].dropped THEN h[s \ {Max(s)}]
                              ELSE h[s \ {Max(s)}] + q[Max(s)].value
    BY <1>1, <1>7
  <1>9. \A s \in SUBSET (1..n) :
          s # {} /\ h[s \ {Max(s)}] \in V => h[s] = step[<<Max(s), h[s \ {Max(s)}]>>]
    <2>1. \A s \in SUBSET (1..n) : s # {} => Max(s) \in 1..n
      BY <1>5 DEF IsFold
    <2>. QED
      BY <1>3, <1>8, <2>1
  <1>10. PICK p \in [0..n -> V] : IsChain(p, n, base, step, h[1..n])
    <2>1. FoldsWithin(h, n, V, base, step)
      BY <1>8, <1>9 DEF FoldsWithin
    <2>. QED
      BY <1>2, <2>1, FoldIsChain
  <1>11. \A k \in 1..n : p[k] = (IF q[k].dropped THEN p[k - 1] ELSE p[k - 1] + q[k].value)
    <2>. TAKE k \in 1..n
    <2>1. p[k - 1] \in V /\ p[k] = step[<<k, p[k - 1]>>]
      BY <1>10 DEF IsChain
    <2>. QED
      BY <1>3, <2>1
  <1>. QED
    BY <1>1, <1>4, <1>10, <1>11 DEF IsChain

\* No factors make 1, and one more multiplies.
LEMMA ProductLaws ==
  /\ Product(<<>>) = 1
  /\ \A q, e : IsSequence(q) /\ (\A i \in 1..Len(q) : ValueOf(q[i]) \in Int)
                 /\ ValueOf(e) \in Int =>
       /\ Product(q) \in Int
       /\ Product(Append(q, e)) = Product(q) * ValueOf(e)
PROOF
  <1>1. Product(<<>>) = 1
    <2>1. DOMAIN <<>> = 1..0 /\ 0 \in Nat /\ 1..0 = {}
      OBVIOUS
    <2>2. \A i \in 1..0 : ValueOf(<<>>[i]) \in Int
      BY <2>1
    <2>3. \E p \in [0..0 -> Int] : p[0] = 1 /\ p[0] = Product(<<>>)
      BY <2>1, <2>2, ProductUnfolds
    <2>. QED
      BY <2>3
  <1>2. ASSUME NEW q, NEW e, IsSequence(q), \A i \in 1..Len(q) : ValueOf(q[i]) \in Int,
               ValueOf(e) \in Int
        PROVE  /\ Product(q) \in Int
               /\ Product(Append(q, e)) = Product(q) * ValueOf(e)
    <2>. DEFINE n == Len(q)
                r == Append(q, e)
    <2>1. /\ n \in Nat /\ DOMAIN q = 1..n /\ DOMAIN r = 1..n + 1
          /\ \A i \in 1..n : r[i] = q[i]
          /\ r[n + 1] = e
      BY <1>2, AppendedElements DEF IsSequence
    <2>2. PICK p \in [0..n -> Int] :
            /\ p[0] = 1
            /\ \A k \in 1..n : p[k] = p[k - 1] * ValueOf(q[k])
            /\ p[n] = Product(q)
      BY <1>2, <2>1, ProductUnfolds
    <2>. HIDE DEF n, r
    <2>3. PICK m : m = n + 1
      OBVIOUS
    <2>4. m \in Nat /\ DOMAIN r = 1..m /\ \A i \in 1..m : ValueOf(r[i]) \in Int
      BY <1>2, <2>1, <2>3 DEF n
    <2>5. PICK s \in [0..m -> Int] :
            /\ s[0] = 1
            /\ \A k \in 1..m : s[k] = s[k - 1] * ValueOf(r[k])
            /\ s[m] = Product(r)
      BY <2>4, ProductUnfolds
    <2>6. \A k \in 0..n : s[k] = p[k]
      <3>. DEFINE T == {k \in 0..n : s[k] = p[k]}
      <3>1. 0 \in T
        BY <2>1, <2>2, <2>5
      <3>2. ASSUME NEW k \in 1..n, k - 1 \in T
            PROVE  k \in T
        <4>1. k \in 1..m /\ k \in 0..n /\ r[k] = q[k]
          BY <2>1, <2>3
        <4>. QED
          BY <2>2, <2>5, <3>2, <4>1
      <3>3. \A k \in 0..n : k \in T
        <4>. HIDE DEF T
        <4>. QED
          BY <2>1, <3>1, <3>2, CountingUp
      <3>. QED
        BY <3>3
    <2>7. m \in 1..m /\ m - 1 = n /\ n \in 0..n
      BY <2>1, <2>3
    <2>8. s[m] = s[n] * ValueOf(e)
      BY <2>1, <2>3, <2>5, <2>7
    <2>. QED
      BY <2>2, <2>5, <2>6, <2>7, <2>8 DEF r
  <1>. QED
    BY <1>1, <1>2

\* No products make 0, and one more is added or subtracted.
LEMMA ExactLaws ==
  /\ ExactOf(<<>>) = 0
  /\ \A q, e : IsSequence(q) /\ (\A i \in 1..Len(q) : Product(q[i].item) \in Int)
                 /\ Product(e.item) \in Int =>
       /\ ExactOf(q) \in Int
       /\ ExactOf(Append(q, e)) = Added(e, ExactOf(q))
PROOF
  <1>1. ExactOf(<<>>) = 0
    <2>1. DOMAIN <<>> = 1..0 /\ 0 \in Nat /\ 1..0 = {}
      OBVIOUS
    <2>2. \A i \in 1..0 : Product(<<>>[i].item) \in Int
      BY <2>1
    <2>3. \E p \in [0..0 -> Int] : p[0] = 0 /\ p[0] = ExactOf(<<>>)
      BY <2>1, <2>2, ExactUnfolds
    <2>. QED
      BY <2>3
  <1>2. ASSUME NEW q, NEW e, IsSequence(q), \A i \in 1..Len(q) : Product(q[i].item) \in Int,
               Product(e.item) \in Int
        PROVE  /\ ExactOf(q) \in Int
               /\ ExactOf(Append(q, e)) = Added(e, ExactOf(q))
    <2>. DEFINE n == Len(q)
                r == Append(q, e)
    <2>1. /\ n \in Nat /\ DOMAIN q = 1..n /\ DOMAIN r = 1..n + 1
          /\ \A i \in 1..n : r[i] = q[i]
          /\ r[n + 1] = e
      BY <1>2, AppendedElements DEF IsSequence
    <2>2. PICK p \in [0..n -> Int] :
            /\ p[0] = 0
            /\ \A k \in 1..n : p[k] = Added(q[k], p[k - 1])
            /\ p[n] = ExactOf(q)
      BY <1>2, <2>1, ExactUnfolds
    <2>. HIDE DEF n, r
    <2>3. PICK m : m = n + 1
      OBVIOUS
    <2>4. m \in Nat /\ DOMAIN r = 1..m /\ \A i \in 1..m : Product(r[i].item) \in Int
      BY <1>2, <2>1, <2>3 DEF n
    <2>5. PICK s \in [0..m -> Int] :
            /\ s[0] = 0
            /\ \A k \in 1..m : s[k] = Added(r[k], s[k - 1])
            /\ s[m] = ExactOf(r)
      BY <2>4, ExactUnfolds
    <2>6. \A k \in 0..n : s[k] = p[k]
      <3>. DEFINE T == {k \in 0..n : s[k] = p[k]}
      <3>1. 0 \in T
        BY <2>1, <2>2, <2>5
      <3>2. ASSUME NEW k \in 1..n, k - 1 \in T
            PROVE  k \in T
        <4>1. k \in 1..m /\ k \in 0..n /\ r[k] = q[k]
          BY <2>1, <2>3
        <4>. QED
          BY <2>2, <2>5, <3>2, <4>1
      <3>3. \A k \in 0..n : k \in T
        <4>. HIDE DEF T
        <4>. QED
          BY <2>1, <3>1, <3>2, CountingUp
      <3>. QED
        BY <3>3
    <2>7. m \in 1..m /\ m - 1 = n /\ n \in 0..n
      BY <2>1, <2>3
    <2>8. s[m] = Added(e, s[n])
      BY <2>1, <2>3, <2>5, <2>7
    <2>. QED
      BY <2>2, <2>5, <2>6, <2>7, <2>8 DEF r
  <1>. QED
    BY <1>1, <1>2

\* The sum that Value takes, in whatever order, is the sum from left to right.
LEMMA DiceSumIsSum ==
  ASSUME NEW q, NEW n \in Nat, DOMAIN q = 1..n, \A i \in 1..n : q[i].value \in Int
  PROVE  /\ SumOf(q, {i \in DOMAIN q : ~q[i].dropped}) = DiceSum(q)
         /\ DiceSum(q) \in Int
PROOF
  <1>. DEFINE v == [i \in 1..n |-> q[i].value]
              K(k) == {i \in 1..k : ~q[i].dropped}
  <1>1. PICK g \in [SUBSET (1..n) -> Int] :
          IsSum(g, n, v) /\ \A S \in SUBSET (1..n) : SumOf(q, S) = g[S]
    BY SumUnfolds
  <1>2. PICK p \in [0..n -> Int] :
          /\ p[0] = 0
          /\ \A k \in 1..n : p[k] = (IF q[k].dropped THEN p[k - 1] ELSE p[k - 1] + q[k].value)
          /\ p[n] = DiceSum(q)
    BY DiceSumUnfolds
  <1>3. \A k \in 0..n : g[K(k)] = p[k]
    <2>. DEFINE T == {k \in 0..n : g[K(k)] = p[k]}
    <2>1. 0 \in T
      <3>1. K(0) = {}
        OBVIOUS
      <3>. HIDE DEF K
      <3>2. g[K(0)] = 0
        BY <1>1, <3>1 DEF IsSum
      <3>3. 0 \in 0..n
        OBVIOUS
      <3>. QED
        BY <1>2, <3>2, <3>3
    <2>2. ASSUME NEW k \in 1..n, k - 1 \in T
          PROVE  k \in T
      <3>1. CASE q[k].dropped
        <4>1. K(k) = K(k - 1)
          BY <3>1
        <4>. HIDE DEF K
        <4>. QED
          BY <1>2, <2>2, <3>1, <4>1
      <3>2. CASE ~q[k].dropped
        <4>1. k \in K(k) /\ K(k) \ {k} = K(k - 1) /\ K(k) \in SUBSET (1..n)
              /\ K(k - 1) \in SUBSET (1..n)
          BY <3>2
        <4>. HIDE DEF K
        <4>2. g[K(k)] = v[k] + g[K(k) \ {k}]
          BY <1>1, <4>1 DEF IsSum
        <4>3. g[K(k)] = q[k].value + p[k - 1] /\ p[k - 1] \in Int
          BY <2>2, <4>1, <4>2
        <4>. QED
          BY <1>2, <3>2, <4>3
      <3>. QED
        BY <3>1, <3>2
    <2>3. \A k \in 0..n : k \in T
      <3>. HIDE DEF T
      <3>. QED
        BY <2>1, <2>2, CountingUp
    <2>. QED
      BY <2>3
  <1>4. n \in 0..n /\ K(n) \in SUBSET (1..n) /\ K(n) = {i \in DOMAIN q : ~q[i].dropped}
    OBVIOUS
  <1>. HIDE DEF K
  <1>5. SumOf(q, K(n)) = p[n] /\ p[n] \in Int
    BY <1>1, <1>3, <1>4
  <1>. QED
    BY <1>2, <1>4, <1>5

------------------------------------------------------------------------------
(* The result. *)

\* The value of a dice term is what its dice show.
ShowsValue(t, q, v) ==
  v = IF t.success # None
      THEN Cardinality({i \in DOMAIN q : q[i].success /\ ~q[i].dropped})
      ELSE DiceSum(q)

DiceOutcome == [term : TermRecord, dice : Seq(DieRecord), value : Int]

IsOutcome(o) ==
  o \in [const : Nat] \/ (o \in DiceOutcome /\ ShowsValue(o.term, o.dice, o.value))

\* Outcomes that have been multiplied without an overflow.
IsFactors(os) ==
  /\ IsSequence(os)
  /\ \A i \in 1..Len(os) : IsOutcome(os[i])
  /\ \A k \in 1..Len(os) : Product(SubSeq(os, 1, k)) \in Int64

\* Products that have been added up without an overflow.
IsSummands(ps) ==
  /\ IsSequence(ps)
  /\ \A n \in 1..Len(ps) : IsFactors(ps[n].item)
  /\ \A n \in 1..Len(ps) : ExactOf(SubSeq(ps, 1, n)) \in Int64

\* The term under evaluation is the one behind the outcomes, until the call returns.
CallInv ==
  /\ result \in {"running", "ok", "Overflow", "RerollUnsatisfiable", "RerollLimit"}
  /\ pc # "idle" =>
       /\ result \in {"running", pc}
       /\ Len(products) < Len(expr)
       /\ Len(outcomes) < Len(Terms)
       /\ "const" \notin DOMAIN NextTerm
  /\ result = "ok" => Len(products) = Len(expr)

ValueInv == pc = "done" => value \in Int /\ ShowsValue(term, dice, value)

\* The products that are done are those of the expression, factor by factor.
ShapeInv ==
  /\ Len(products) <= Len(expr)
  /\ \A n \in 1..Len(products) :
       products[n].op = expr[n].op /\ Len(products[n].item) = Len(expr[n].item)

SumsInv ==
  /\ IsFactors(outcomes)
  /\ product = Product(outcomes)
  /\ IsSummands(products)
  /\ total = ExactOf(products)

\* Where the evaluation overflows, an exact result is not an i64.
Overflows(last) ==
  \/ product * last \notin Int64
  \/ AddUp(Op) \notin Int64 /\ last = 1

OverflowInv ==
  result = "Overflow" =>
    Overflows(IF Len(outcomes) = Len(Terms) THEN 1
              ELSE IF "const" \in DOMAIN NextTerm THEN NextTerm.const ELSE value)

ResultInv == CallInv /\ ValueInv /\ ShapeInv /\ SumsInv /\ OverflowInv

LEMMA OutcomesHaveValues ==
  ASSUME NEW o, IsOutcome(o)
  PROVE  ValueOf(o) \in Int
PROOF
  <1>1. CASE o \in [const : Nat]
    <2>1. "const" \in DOMAIN o /\ o.const \in Int
      BY <1>1
    <2>. QED
      BY <2>1 DEF ValueOf
  <1>2. CASE o \in DiceOutcome
    <2>1. "const" \notin DOMAIN o /\ o.value \in Int
      BY <1>2 DEF DiceOutcome
    <2>. QED
      BY <2>1 DEF ValueOf
  <1>. QED
    BY <1>1, <1>2 DEF IsOutcome

LEMMA FactorsHaveProducts ==
  ASSUME NEW os, IsFactors(os)
  PROVE  (\A i \in 1..Len(os) : ValueOf(os[i]) \in Int) /\ Product(os) \in Int
PROOF
  <1>1. IsSequence(os) /\ \A i \in 1..Len(os) : ValueOf(os[i]) \in Int
    BY OutcomesHaveValues DEF IsFactors
  <1>2. IsOutcome([const |-> 0])
    BY DEF IsOutcome
  <1>3. ValueOf([const |-> 0]) \in Int
    BY <1>2, OutcomesHaveValues
  <1>. QED
    BY <1>1, <1>3, ProductLaws

LEMMA NoFactors == IsFactors(<<>>) /\ Product(<<>>) = 1
PROOF
  <1>1. IsSequence(<<>>) /\ Len(<<>>) = 0 /\ 1..0 = {}
    BY DEF IsSequence
  <1>. QED
    BY <1>1, ProductLaws DEF IsFactors

\* A factor whose product fits keeps every product on the way within an i64.
LEMMA OneMoreFactor ==
  ASSUME NEW os, NEW o, IsFactors(os), IsOutcome(o), Product(os) * ValueOf(o) \in Int64
  PROVE  /\ IsFactors(Append(os, o))
         /\ Product(Append(os, o)) = Product(os) * ValueOf(o)
PROOF
  <1>. DEFINE r == Append(os, o)
  <1>1. IsSequence(os) /\ Len(os) \in Nat
    BY DEF IsFactors, IsSequence
  <1>2. /\ IsSequence(r)
        /\ Len(r) = Len(os) + 1
        /\ \A i \in 1..Len(os) : r[i] = os[i]
        /\ r[Len(os) + 1] = o
    BY <1>1, AppendedSequence, AppendedElements
  <1>3. Product(r) = Product(os) * ValueOf(o)
    BY <1>1, FactorsHaveProducts, OutcomesHaveValues, ProductLaws
  <1>4. ASSUME NEW k \in 1..Len(os)
        PROVE  SubSeq(r, 1, k) = SubSeq(os, 1, k)
    <2>1. k \in 0..Len(os)
      BY <1>1
    <2>. QED
      BY <1>1, <2>1, PrefixOfAppended
  <1>5. SubSeq(r, 1, Len(os) + 1) = r
    <2>1. Len(os) + 1 \in 0..Len(r)
      BY <1>1, <1>2
    <2>. QED
      BY <1>2, <2>1, Prefix
  <1>. HIDE DEF r
  <1>6. \A i \in 1..Len(r) : IsOutcome(r[i])
    BY <1>1, <1>2 DEF IsFactors
  <1>7. \A k \in 1..Len(r) : Product(SubSeq(r, 1, k)) \in Int64
    <2>. SUFFICES ASSUME NEW k \in 1..Len(r)
                  PROVE  Product(SubSeq(r, 1, k)) \in Int64
      OBVIOUS
    <2>1. CASE k \in 1..Len(os)
      BY <1>4, <2>1 DEF IsFactors
    <2>2. CASE k = Len(os) + 1
      BY <1>3, <1>5, <2>2
    <2>. QED
      BY <1>1, <1>2, <2>1, <2>2
  <1>8. IsFactors(r)
    BY <1>2, <1>6, <1>7 DEF IsFactors
  <1>. QED
    BY <1>3, <1>8 DEF r

LEMMA SummandsHaveSums ==
  ASSUME NEW ps, IsSummands(ps)
  PROVE  (\A n \in 1..Len(ps) : Product(ps[n].item) \in Int) /\ ExactOf(ps) \in Int
PROOF
  <1>1. IsSequence(ps) /\ \A n \in 1..Len(ps) : Product(ps[n].item) \in Int
    BY FactorsHaveProducts DEF IsSummands
  <1>2. PICK e : e = [op |-> "+", item |-> <<>>]
    OBVIOUS
  <1>3. Product(e.item) \in Int
    BY <1>2, NoFactors
  <1>. QED
    BY <1>1, <1>3, ExactLaws

\* A product whose sum fits keeps every sum on the way within an i64.
LEMMA OneMoreSummand ==
  ASSUME NEW ps, NEW e, IsSummands(ps), IsFactors(e.item), Added(e, ExactOf(ps)) \in Int64
  PROVE  /\ IsSummands(Append(ps, e))
         /\ ExactOf(Append(ps, e)) = Added(e, ExactOf(ps))
PROOF
  <1>. DEFINE r == Append(ps, e)
  <1>1. IsSequence(ps) /\ Len(ps) \in Nat
    BY DEF IsSummands, IsSequence
  <1>2. /\ IsSequence(r)
        /\ Len(r) = Len(ps) + 1
        /\ \A i \in 1..Len(ps) : r[i] = ps[i]
        /\ r[Len(ps) + 1] = e
    BY <1>1, AppendedSequence, AppendedElements
  <1>3. ExactOf(r) = Added(e, ExactOf(ps))
    BY <1>1, SummandsHaveSums, FactorsHaveProducts, ExactLaws
  <1>4. ASSUME NEW k \in 1..Len(ps)
        PROVE  SubSeq(r, 1, k) = SubSeq(ps, 1, k)
    <2>1. k \in 0..Len(ps)
      BY <1>1
    <2>. QED
      BY <1>1, <2>1, PrefixOfAppended
  <1>5. SubSeq(r, 1, Len(ps) + 1) = r
    <2>1. Len(ps) + 1 \in 0..Len(r)
      BY <1>1, <1>2
    <2>. QED
      BY <1>2, <2>1, Prefix
  <1>. HIDE DEF r
  <1>6. \A i \in 1..Len(r) : IsFactors(r[i].item)
    BY <1>1, <1>2 DEF IsSummands
  <1>7. \A k \in 1..Len(r) : ExactOf(SubSeq(r, 1, k)) \in Int64
    <2>. SUFFICES ASSUME NEW k \in 1..Len(r)
                  PROVE  ExactOf(SubSeq(r, 1, k)) \in Int64
      OBVIOUS
    <2>1. CASE k \in 1..Len(ps)
      BY <1>4, <2>1 DEF IsSummands
    <2>2. CASE k = Len(ps) + 1
      BY <1>3, <1>5, <2>2
    <2>. QED
      BY <1>1, <1>2, <2>1, <2>2
  <1>8. IsSummands(r)
    BY <1>2, <1>6, <1>7 DEF IsSummands
  <1>. QED
    BY <1>3, <1>8 DEF r

sumVars == <<outcomes, product, products, total>>

\* The value of a term is the sum, or the number of successes, that its dice show.
LEMMA ValueIsShown ==
  ASSUME EvalTypeOK, Value
  PROVE  value' \in Int /\ ShowsValue(term, dice', value')
PROOF
  <1>1. /\ dice \in Seq(DieRecord)
        /\ Len(dice) \in Nat
        /\ DOMAIN dice = 1..Len(dice)
        /\ \A i \in DOMAIN dice : dice[i] \in DieRecord
    BY LenProperties, ElementOfSeq DEF EvalTypeOK
  <1>2. CASE term.success # None
    <2>. DEFINE f == [i \in DOMAIN dice |-> Succeeds(dice[i])]
                S == {i \in DOMAIN dice : Succeeds(dice[i])}
    <2>1. f \in [DOMAIN dice -> BOOLEAN]
      <3>1. \A i \in DOMAIN dice : Succeeds(dice[i]) \in BOOLEAN
        BY Zenon DEF Succeeds
      <3>. QED
        BY <3>1
    <2>2. \A i \in DOMAIN dice : f[i] => ~dice[i].dropped
      BY DEF Succeeds
    <2>3. dice' = [i \in DOMAIN dice |-> [dice[i] EXCEPT !.success = f[i]]]
      BY <1>2 DEF Value
    <2>4. value' = Cardinality(S)
      BY <1>2 DEF Value
    <2>5. S = {i \in DOMAIN dice : f[i]}
      OBVIOUS
    <2>. HIDE DEF f
    <2>6. ASSUME NEW i \in DOMAIN dice
          PROVE  dice'[i].success = f[i] /\ dice'[i].dropped = dice[i].dropped
      <3>1. dice[i] \in DieRecord /\ dice'[i] = [dice[i] EXCEPT !.success = f[i]]
        BY <1>1, <2>3
      <3>. QED
        BY <3>1 DEF DieRecord
    <2>7. DOMAIN dice' = DOMAIN dice
      BY <2>3
    <2>8. S = {i \in DOMAIN dice' : dice'[i].success /\ ~dice'[i].dropped}
      BY <2>2, <2>5, <2>6, <2>7
    <2>9. Cardinality(S) \in Nat
      <3>1. IsFiniteSet(1..Len(dice))
        BY <1>1, FS_Interval
      <3>2. IsFiniteSet(S)
        BY <1>1, <3>1, FS_Subset
      <3>. QED
        BY <3>2, FS_CardinalityType
    <2>. HIDE DEF S
    <2>. QED
      BY <1>2, <2>4, <2>8, <2>9 DEF ShowsValue
  <1>3. CASE term.success = None
    <2>1. dice' = dice /\ value' = SumOf(dice, {i \in DOMAIN dice : ~dice[i].dropped})
      BY <1>3 DEF Value, SumOf, Kept
    <2>2. \A i \in 1..Len(dice) : dice[i].value \in Int
      BY <1>1 DEF DieRecord
    <2>3. /\ SumOf(dice, {i \in DOMAIN dice : ~dice[i].dropped}) = DiceSum(dice)
          /\ DiceSum(dice) \in Int
      BY <1>1, <2>2, DiceSumIsSum
    <2>. QED
      BY <1>3, <2>1, <2>3 DEF ShowsValue
  <1>. QED
    BY <1>2, <1>3

LEMMA ValueKept ==
  ASSUME ExprInv, ValueInv, [Next]_vars
  PROVE  ValueInv'
PROOF
  <1>1. CASE RollDice /\ Value
    <2>1. value' \in Int /\ ShowsValue(term, dice', value') /\ term' = term
      BY <1>1, ValueIsShown DEF ExprInv, EvalInv, Value
    <2>. QED
      BY <2>1, Zenon DEF ValueInv
  <1>2. CASE UNCHANGED evalVars
    BY <1>2 DEF evalVars, ValueInv
  <1>3. CASE pc' # "done"
    BY <1>3 DEF ValueInv
  <1>4. \/ RollDice /\ Value
        \/ UNCHANGED evalVars
        \/ pc' # "done"
    <2>1. CASE EvalConst \/ EvalError \/ EndProduct \/ Return \/ UNCHANGED vars
      BY <2>1 DEF EvalConst, EvalError, EndProduct, Return, vars
    <2>2. CASE BeginDice
      BY <2>2 DEF BeginDice, Begin
    <2>3. CASE EndDice
      BY <2>3 DEF EndDice
    <2>4. CASE RollDice
      BY <2>4
      DEF RollDice, EvalStep, Start, RollDie, Reroll, RerollLimit, RerollDone, PoolDone,
          Explode, NextDie, Exploded, Keep
    <2>. QED
      BY <2>1, <2>2, <2>3, <2>4 DEF Next
  <1>. QED
    BY <1>1, <1>2, <1>3, <1>4

\* A call that has ended takes no further step.
LEMMA NothingBehindTheResult ==
  ASSUME EvalTypeOK, CallInv, result # "running", Next
  PROVE  FALSE
PROOF
  <1>1. CASE pc = "idle"
    BY <1>1
    DEF Next, EvalConst, BeginDice, RollDice, EndDice, EvalError, EndProduct, Return,
        TermIsNext, EvalStep, Start, RollDie, Reroll, RerollLimit, RerollDone, PoolDone,
        Explode, NextDie, Exploded, Keep, Value
  <1>2. CASE pc # "idle"
    <2>1. /\ result = pc
          /\ pc \in Passes
          /\ pc \in {"ok", "Overflow", "RerollUnsatisfiable", "RerollLimit"}
      BY <1>2 DEF CallInv, EvalTypeOK
    <2>2. pc \in {"RerollUnsatisfiable", "RerollLimit"}
      BY <2>1 DEF Passes
    <2>. QED
      BY <2>1, <2>2
      DEF Next, EvalConst, BeginDice, RollDice, EndDice, EvalError, EndProduct, Return,
          TermIsNext, EvalStep, Start, RollDie, Reroll, RerollLimit, RerollDone, PoolDone,
          Explode, NextDie, Exploded, Keep, Value
  <1>. QED
    BY <1>1, <1>2

\* What the rest of an evaluation reads of the expression.
LEMMA SamePlace ==
  ASSUME UNCHANGED <<expr, outcomes, products>>
  PROVE  Terms' = Terms /\ NextTerm' = NextTerm /\ Op' = Op
PROOF
  BY DEF Terms, NextTerm, Op

\* Where the call is: between terms, in one, or at its end.
LEMMA CallKept ==
  ASSUME ExprInv, CallInv, [Next]_vars
  PROVE  CallInv'
PROOF
  <1>1. CASE UNCHANGED vars
    BY <1>1 DEF vars, evalVars, exprVars, CallInv, Terms, NextTerm
  <1>2. CASE Next
    <2>1. result = "running"
      BY <1>2, NothingBehindTheResult DEF ExprInv, EvalInv
    <2>2. CASE EvalConst
      BY <2>1, <2>2 DEF EvalConst, TermIsNext, Multiply, evalVars, CallInv
    <2>3. CASE BeginDice
      <3>1. UNCHANGED exprVars /\ TermIsNext /\ "const" \notin DOMAIN NextTerm
        BY <2>3 DEF BeginDice
      <3>2. UNCHANGED <<expr, outcomes, products, result>>
        BY <3>1 DEF exprVars
      <3>3. Terms' = Terms /\ NextTerm' = NextTerm
        BY <3>2, SamePlace
      <3>. QED
        BY <2>1, <3>1, <3>2, <3>3 DEF TermIsNext, CallInv
    <2>4. CASE RollDice
      <3>1. UNCHANGED <<expr, outcomes, products, result>>
        BY <2>4 DEF RollDice, exprVars
      <3>2. Terms' = Terms /\ NextTerm' = NextTerm
        BY <3>1, SamePlace
      <3>3. pc # "idle"
        BY <2>4
        DEF RollDice, EvalStep, Start, RollDie, Reroll, RerollLimit, RerollDone, PoolDone,
            Explode, NextDie, Exploded, Keep, Value
      <3>. QED
        BY <2>1, <3>1, <3>2, <3>3 DEF CallInv
    <2>5. CASE EndDice
      BY <2>1, <2>5 DEF EndDice, Multiply, CallInv
    <2>6. CASE EvalError
      <3>1. UNCHANGED <<expr, outcomes, products, pc>> /\ result' = pc
            /\ pc \in {"RerollUnsatisfiable", "RerollLimit"}
        BY <2>6 DEF EvalError, evalVars
      <3>2. Terms' = Terms /\ NextTerm' = NextTerm
        BY <3>1, SamePlace
      <3>. QED
        BY <3>1, <3>2 DEF CallInv
    <2>7. CASE EndProduct
      BY <2>1, <2>7 DEF EndProduct, evalVars, CallInv
    <2>8. CASE Return
      <3>1. /\ UNCHANGED <<expr, outcomes, products, pc>>
            /\ result' = "ok"
            /\ Len(products) = Len(expr)
        BY <2>8 DEF Return, evalVars
      <3>2. Len(products) \in Nat
        BY DEF ExprInv, ExprTypeOK, IsSequence
      <3>3. pc = "idle"
        BY <3>1, <3>2 DEF CallInv
      <3>. QED
        BY <3>1, <3>3 DEF CallInv
    <2>. QED
      BY <1>2, <2>2, <2>3, <2>4, <2>5, <2>6, <2>7, <2>8 DEF Next
  <1>. QED
    BY <1>1, <1>2

\* The outcome that a step multiplies.
LEMMA MultipliesAnOutcome ==
  ASSUME ExprInv, ResultInv, EvalConst \/ EndDice
  PROVE  \E o :
           /\ IsOutcome(o)
           /\ Multiply(o)
           /\ Len(outcomes) < Len(Terms)
           /\ ValueOf(o) = IF "const" \in DOMAIN NextTerm THEN NextTerm.const ELSE value
PROOF
  <1>1. CASE EvalConst
    <2>1. /\ NextTerm \in [const : Nat]
          /\ "const" \in DOMAIN NextTerm
          /\ Multiply(NextTerm)
          /\ Len(outcomes) < Len(Terms)
      BY <1>1, ConstantsAreNumbers DEF EvalConst, TermIsNext, ExprInv
    <2>2. IsOutcome(NextTerm)
      BY <2>1 DEF IsOutcome
    <2>3. ValueOf(NextTerm) = NextTerm.const
      BY <2>1 DEF ValueOf
    <2>. QED
      BY <2>1, <2>2, <2>3
  <1>2. CASE EndDice
    <2>1. PICK o : o = [term |-> term, dice |-> dice, value |-> value]
      OBVIOUS
    <2>2. pc = "done" /\ Multiply(o)
      BY <1>2, <2>1 DEF EndDice
    <2>3. Len(outcomes) < Len(Terms) /\ "const" \notin DOMAIN NextTerm
      BY <2>2 DEF ResultInv, CallInv
    <2>4. term \in TermRecord /\ dice \in Seq(DieRecord) /\ value \in Int
          /\ ShowsValue(term, dice, value)
      BY <2>2 DEF ExprInv, EvalInv, EvalTypeOK, ResultInv, ValueInv
    <2>5. o \in DiceOutcome /\ o.term = term /\ o.dice = dice /\ o.value = value
          /\ "const" \notin DOMAIN o
      BY <2>1, <2>4 DEF DiceOutcome
    <2>6. IsOutcome(o)
      BY <2>4, <2>5 DEF IsOutcome
    <2>7. ValueOf(o) = value
      BY <2>5 DEF ValueOf
    <2>. QED
      BY <2>2, <2>3, <2>6, <2>7
  <1>. QED
    BY <1>1, <1>2

\* What becomes of the result and of the sums in a step.
LEMMA SumSteps ==
  ASSUME ExprInv, ResultInv, [Next]_vars
  PROVE  /\ expr' = expr
         /\ \/ /\ UNCHANGED sumVars
               /\ result' = "Overflow" => UNCHANGED vars
            \/ EvalConst \/ EndDice \/ EndProduct
PROOF
  <1>1. CASE UNCHANGED vars
    BY <1>1 DEF vars, exprVars, sumVars
  <1>2. CASE Next
    <2>1. result = "running"
      BY <1>2, NothingBehindTheResult DEF ExprInv, EvalInv, ResultInv
    <2>2. CASE BeginDice \/ RollDice
      BY <2>1, <2>2 DEF BeginDice, RollDice, exprVars, sumVars
    <2>3. CASE EvalError \/ Return
      BY <2>1, <2>3 DEF EvalError, Return, sumVars
    <2>4. CASE EvalConst \/ EndDice \/ EndProduct
      BY <2>4 DEF EvalConst, EndDice, EndProduct, Multiply
    <2>. QED
      BY <1>2, <2>2, <2>3, <2>4 DEF Next
  <1>. QED
    BY <1>1, <1>2

LEMMA ShapeKept ==
  ASSUME ExprInv, ResultInv, [Next]_vars
  PROVE  ShapeInv'
PROOF
  <1>1. expr' = expr /\ IsSequence(products) /\ Len(products) \in Nat
    BY SumSteps DEF ExprInv, ExprTypeOK, IsSequence
  <1>2. CASE products' = products
    BY <1>1, <1>2 DEF ResultInv, ShapeInv
  <1>3. CASE EndProduct /\ products' = Append(products, [op |-> Op, item |-> outcomes])
    <2>1. PICK e : e = [op |-> Op, item |-> outcomes]
      OBVIOUS
    <2>2. /\ products' = Append(products, e)
          /\ e.op = expr[Len(products) + 1].op
          /\ Len(e.item) = Len(expr[Len(products) + 1].item)
      BY <1>3, <2>1 DEF EndProduct, Terms, Op
    <2>3. /\ Len(products') = Len(products) + 1
          /\ \A i \in 1..Len(products) : products'[i] = products[i]
          /\ products'[Len(products) + 1] = e
      BY <1>1, <2>2, AppendedElements
    <2>4. Len(products) + 1 <= Len(expr)
      <3>1. Len(expr) \in Nat
        BY ExprAssumption, LenProperties DEF ExprInv, ExprTypeOK
      <3>. QED
        BY <1>1, <1>3, <3>1 DEF EndProduct
    <2>5. ASSUME NEW n \in 1..Len(products')
          PROVE  /\ products'[n].op = expr[n].op
                 /\ Len(products'[n].item) = Len(expr[n].item)
      <3>1. CASE n \in 1..Len(products)
        BY <2>3, <3>1 DEF ResultInv, ShapeInv
      <3>2. CASE n = Len(products) + 1
        BY <2>2, <2>3, <3>2
      <3>. QED
        BY <1>1, <2>3, <3>1, <3>2
    <2>. QED
      BY <1>1, <2>3, <2>4, <2>5 DEF ShapeInv
  <1>4. \/ products' = products
        \/ EndProduct /\ products' = Append(products, [op |-> Op, item |-> outcomes])
    BY SumSteps DEF sumVars, EvalConst, EndDice, EndProduct, Multiply
  <1>. QED
    BY <1>2, <1>3, <1>4

\* Each step of the call that counts takes the sums along.
LEMMA SumsKept ==
  ASSUME ExprInv, ResultInv, [Next]_vars
  PROVE  SumsInv'
PROOF
  <1>1. /\ IsFactors(outcomes)
        /\ product = Product(outcomes)
        /\ IsSummands(products)
        /\ total = ExactOf(products)
    BY DEF ResultInv, SumsInv
  <1>2. CASE UNCHANGED sumVars
    BY <1>1, <1>2 DEF sumVars, SumsInv
  <1>3. CASE EvalConst \/ EndDice
    <2>1. PICK o : IsOutcome(o) /\ Multiply(o)
      BY <1>3, MultipliesAnOutcome
    <2>2. CASE product * ValueOf(o) \in Int64
      <3>1. UNCHANGED <<products, total>> /\ product' = product * ValueOf(o)
            /\ outcomes' = Append(outcomes, o)
        BY <2>1, <2>2 DEF Multiply
      <3>2. IsFactors(outcomes') /\ Product(outcomes') = product'
        BY <1>1, <2>1, <2>2, <3>1, OneMoreFactor
      <3>. QED
        BY <1>1, <3>1, <3>2 DEF SumsInv
    <2>3. CASE product * ValueOf(o) \notin Int64
      BY <1>2, <2>1, <2>3 DEF Multiply, sumVars
    <2>. QED
      BY <2>2, <2>3
  <1>4. CASE EndProduct
    <2>1. CASE AddUp(Op) \in Int64
      <3>1. PICK e : e = [op |-> Op, item |-> outcomes]
        OBVIOUS
      <3>2. /\ total' = AddUp(Op)
            /\ products' = Append(products, e)
            /\ outcomes' = <<>>
            /\ product' = 1
        BY <1>4, <2>1, <3>1 DEF EndProduct
      <3>3. e.item = outcomes /\ Added(e, ExactOf(products)) = AddUp(Op)
        BY <1>1, <3>1 DEF Added, AddUp
      <3>4. IsSummands(products') /\ ExactOf(products') = total'
        BY <1>1, <2>1, <3>2, <3>3, OneMoreSummand
      <3>5. IsFactors(outcomes') /\ product' = Product(outcomes')
        BY <3>2, NoFactors
      <3>. QED
        BY <3>4, <3>5 DEF SumsInv
    <2>2. CASE AddUp(Op) \notin Int64
      BY <1>2, <1>4, <2>2 DEF EndProduct, sumVars
    <2>. QED
      BY <2>1, <2>2
  <1>. QED
    BY <1>2, <1>3, <1>4, SumSteps

LEMMA OverflowKept ==
  ASSUME ExprInv, ResultInv, [Next]_vars
  PROVE  OverflowInv'
PROOF
  <1>. SUFFICES ASSUME result' = "Overflow" PROVE OverflowInv'
    BY DEF OverflowInv
  <1>1. expr' = expr
    BY SumSteps
  <1>2. CASE UNCHANGED vars
    <2>1. UNCHANGED <<expr, outcomes, products, product, total, value, result>>
      BY <1>2 DEF vars, evalVars, exprVars
    <2>2. Terms' = Terms /\ NextTerm' = NextTerm /\ Op' = Op
      BY <2>1, SamePlace
    <2>. QED
      BY <2>1, <2>2 DEF ResultInv, OverflowInv, Overflows, AddUp
  <1>3. CASE result # "Overflow" /\ (EvalConst \/ EndDice)
    <2>1. PICK o : /\ IsOutcome(o)
                   /\ Multiply(o)
                   /\ Len(outcomes) < Len(Terms)
                   /\ ValueOf(o) = IF "const" \in DOMAIN NextTerm
                                   THEN NextTerm.const ELSE value
      BY <1>3, MultipliesAnOutcome
    <2>2. /\ product * ValueOf(o) \notin Int64
          /\ UNCHANGED <<expr, outcomes, products, product, total>>
      BY <1>3, <2>1 DEF Multiply
    <2>3. value' = value
      BY <1>3 DEF EvalConst, EndDice, evalVars
    <2>4. Terms' = Terms /\ NextTerm' = NextTerm
      BY <2>2, SamePlace
    <2>5. Len(outcomes) # Len(Terms)
      <3>1. Len(outcomes) \in Nat
        BY DEF ExprInv, ExprTypeOK, IsSequence
      <3>. QED
        BY <2>1, <3>1
    <2>. QED
      BY <2>1, <2>2, <2>3, <2>4, <2>5, Zenon DEF OverflowInv, Overflows
  <1>4. CASE result # "Overflow" /\ EndProduct
    <2>1. /\ AddUp(Op) \notin Int64
          /\ UNCHANGED <<expr, outcomes, products, product, total>>
          /\ Len(outcomes) = Len(Terms)
      BY <1>4 DEF EndProduct
    <2>2. Terms' = Terms /\ Op' = Op
      BY <2>1, SamePlace
    <2>. QED
      BY <2>1, <2>2 DEF OverflowInv, Overflows, AddUp
  <1>5. UNCHANGED vars \/ (result # "Overflow" /\ (EvalConst \/ EndDice \/ EndProduct))
    BY SumSteps, NothingBehindTheResult DEF ExprInv, EvalInv, ResultInv
  <1>. QED
    BY <1>2, <1>3, <1>4, <1>5

\* The result is what the outcomes make in unbounded arithmetic, as far as it got.
LEMMA ResultInvariance == Spec => []ResultInv
PROOF
  <1>1. Init => ResultInv
    <2>. SUFFICES ASSUME Init PROVE ResultInv
      OBVIOUS
    <2>1. CallInv /\ ValueInv /\ OverflowInv
      BY DEF Init, CallInv, ValueInv, OverflowInv
    <2>2. expr \in Exprs /\ products = <<>> /\ outcomes = <<>> /\ product = 1 /\ total = 0
      BY DEF Init
    <2>3. IsSequence(<<>>) /\ Len(<<>>) = 0 /\ 1..0 = {} /\ Len(expr) \in Nat
      BY <2>2, ExprAssumption, LenProperties DEF IsSequence
    <2>4. ShapeInv
      BY <2>2, <2>3 DEF ShapeInv
    <2>5. SumsInv
      BY <2>2, <2>3, NoFactors, ExactLaws DEF SumsInv, IsSummands
    <2>. QED
      BY <2>1, <2>4, <2>5 DEF ResultInv
  <1>2. ExprInv /\ ResultInv /\ [Next]_vars => ResultInv'
    <2>. SUFFICES ASSUME ExprInv, ResultInv, [Next]_vars PROVE ResultInv'
      OBVIOUS
    <2>. QED
      BY CallKept, ValueKept, ShapeKept, SumsKept, OverflowKept DEF ResultInv
  <1>. QED
    BY <1>1, <1>2, ExprInvariance, PTL DEF Spec

\* What a roll adds up to is what its terms make in unbounded arithmetic, and an
\* overflow is reported only where that does not fit an i64, for every expression.
THEOREM SumsAreExact == Spec => []ArithmeticIsExact
PROOF
  <1>1. ASSUME ExprInv, ResultInv
        PROVE  ArithmeticIsExact
    <2>1. /\ IsSummands(products)
          /\ IsSequence(products)
          /\ Len(products) \in Nat
          /\ DOMAIN products = 1..Len(products)
          /\ total = ExactOf(products)
          /\ product = Product(outcomes)
          /\ IsFactors(outcomes)
      BY <1>1 DEF ResultInv, SumsInv, IsSummands, IsSequence
    <2>2. \A n : Exact(n) = ExactOf(SubSeq(products, 1, n))
      BY DEF Exact, ExactOf
    <2>3. Exact(Len(products)) = total
      <3>1. Len(products) \in 0..Len(products)
        BY <2>1
      <3>2. SubSeq(products, 1, Len(products)) = products
        BY <2>1, <3>1, Prefix
      <3>. QED
        BY <2>1, <2>2, <3>2
    <2>4. ASSUME result = "ok"
          PROVE  /\ Len(products) = Len(expr)
                 /\ total = Exact(Len(products))
                 /\ \A n \in DOMAIN products : Exact(n) \in Int64
                 /\ \A n \in DOMAIN products : \A k \in DOMAIN products[n].item :
                      Product(SubSeq(products[n].item, 1, k)) \in Int64
      <3>1. Len(products) = Len(expr)
        BY <1>1, <2>4 DEF ResultInv, CallInv
      <3>2. \A n \in DOMAIN products : Exact(n) \in Int64
        BY <2>1, <2>2 DEF IsSummands
      <3>3. ASSUME NEW n \in DOMAIN products, NEW k \in DOMAIN products[n].item
            PROVE  Product(SubSeq(products[n].item, 1, k)) \in Int64
        <4>1. IsFactors(products[n].item)
          BY <2>1 DEF IsSummands
        <4>2. k \in 1..Len(products[n].item)
          BY <4>1 DEF IsFactors, IsSequence
        <4>. QED
          BY <4>1, <4>2 DEF IsFactors
      <3>. QED
        BY <2>3, <3>1, <3>2, <3>3
    <2>5. ASSUME result = "Overflow",
                 NEW last, last = (IF Len(outcomes) = Len(Terms) THEN 1
                                   ELSE IF "const" \in DOMAIN NextTerm
                                        THEN NextTerm.const ELSE value)
          PROVE  {Product(outcomes) * last,
                  IF Op = "+" THEN Exact(Len(products)) + Product(outcomes) * last
                  ELSE Exact(Len(products)) - Product(outcomes) * last} \ Int64 # {}
      <3>1. Overflows(last)
        BY <1>1, <2>5, Zenon DEF ResultInv, OverflowInv
      <3>2. CASE product * last \notin Int64
        BY <2>1, <3>2
      <3>3. CASE AddUp(Op) \notin Int64 /\ last = 1
        <4>1. Product(outcomes) \in Int
          BY <2>1, FactorsHaveProducts
        <4>2. Product(outcomes) * last = product
          BY <2>1, <3>3, <4>1
        <4>. QED
          BY <2>3, <3>3, <4>2 DEF AddUp
      <3>. QED
        BY <3>1, <3>2, <3>3 DEF Overflows
    <2>. QED
      BY <2>4, <2>5, Zenon DEF ArithmeticIsExact
  <1>. QED
    BY <1>1, ExprInvariance, ResultInvariance, PTL

------------------------------------------------------------------------------
(* What the page shows. *)

\* A line of parts read one by one: the sum of the products that are complete, and the
\* product that is not.
ShowStep(s, p) ==
  CASE p.op = "*" -> [s EXCEPT !.last = @ * p.value]
    [] p.op = "-" -> [sum |-> s.sum + s.last, last |-> -p.value]
    [] OTHER -> [sum |-> s.sum + s.last, last |-> p.value]

ShownOf(ps) ==
  FoldLeft(
    LAMBDA s, p :
      CASE p.op = "*" -> [s EXCEPT !.last = @ * p.value]
        [] p.op = "-" -> [sum |-> s.sum + s.last, last |-> -p.value]
        [] OTHER -> [sum |-> s.sum + s.last, last |-> p.value],
    [sum |-> 0, last |-> 0], ps)

\* A line of parts, part by part.
LEMMA ShownUnfolds ==
  ASSUME NEW q, NEW n \in Nat, DOMAIN q = 1..n,
         \A i \in 1..n : q[i].value \in Int
  PROVE  \E p \in [0..n -> [sum : Int, last : Int]] :
           /\ p[0] = [sum |-> 0, last |-> 0]
           /\ \A k \in 1..n : p[k] = ShowStep(p[k - 1], q[k])
           /\ p[n] = ShownOf(q)
PROOF
  <1>. DEFINE step == [x \in (1..n) \X [sum : Int, last : Int] |-> ShowStep(x[2], q[x[1]])]
              Iterates(h) == h = [s \in SUBSET (1..n) |->
                 IF s = {} THEN [sum |-> 0, last |-> 0] ELSE ShowStep(h[s \ {Max(s)}], q[Max(s)])]
              h == CHOOSE h : Iterates(h)
  <1>1. PICK V, base : V = [sum : Int, last : Int] /\ base = [sum |-> 0, last |-> 0]
    OBVIOUS
  <1>2. base \in V /\ step \in [(1..n) \X V -> V]
    BY <1>1 DEF ShowStep
  <1>3. \A k \in 1..n, v \in V : step[<<k, v>>] = ShowStep(v, q[k])
    BY <1>1
  <1>4. ShownOf(q) = h[1..n]
    BY DEF ShownOf, FoldLeft, MapThenFoldSet, ShowStep
  <1>. HIDE DEF step
  <1>5. PICK g \in [SUBSET (1..n) -> V] : IsFold(g, n, V, base, step)
    BY <1>2, FoldExists
  <1>6. Iterates(g)
    <2>1. \A s \in SUBSET (1..n) :
            s # {} => g[s] = ShowStep(g[s \ {Max(s)}], q[Max(s)])
      BY <1>3, <1>5 DEF IsFold
    <2>2. g[{}] = [sum |-> 0, last |-> 0] /\ g = [s \in SUBSET (1..n) |-> g[s]]
      BY <1>1, <1>5 DEF IsFold
    <2>. QED
      BY <2>1, <2>2
  <1>7. Iterates(h)
    <2>. HIDE DEF Iterates
    <2>. QED
      BY <1>6
  <1>. HIDE DEF h
  <1>8. /\ h[{}] = base
        /\ \A s \in SUBSET (1..n) :
             s # {} => h[s] = ShowStep(h[s \ {Max(s)}], q[Max(s)])
    BY <1>1, <1>7
  <1>9. \A s \in SUBSET (1..n) :
          s # {} /\ h[s \ {Max(s)}] \in V => h[s] = step[<<Max(s), h[s \ {Max(s)}]>>]
    <2>1. \A s \in SUBSET (1..n) : s # {} => Max(s) \in 1..n
      BY <1>5 DEF IsFold
    <2>. QED
      BY <1>3, <1>8, <2>1
  <1>10. PICK p \in [0..n -> V] : IsChain(p, n, base, step, h[1..n])
    <2>1. FoldsWithin(h, n, V, base, step)
      BY <1>8, <1>9 DEF FoldsWithin
    <2>. QED
      BY <1>2, <2>1, FoldIsChain
  <1>11. \A k \in 1..n : p[k] = ShowStep(p[k - 1], q[k])
    <2>. TAKE k \in 1..n
    <2>1. p[k - 1] \in V /\ p[k] = step[<<k, p[k - 1]>>]
      BY <1>10 DEF IsChain
    <2>. QED
      BY <1>3, <2>1
  <1>. QED
    BY <1>1, <1>4, <1>10, <1>11 DEF IsChain

\* Sequences that are flattened one behind the other.
LEMMA FlattenUnfolds ==
  ASSUME NEW S, NEW ss, NEW n \in Nat \ {0}, Len(ss) = n, \A i \in 1..n : ss[i] \in Seq(S)
  PROVE  \E f \in [0..n -> Seq(S)] :
           /\ f[0] = <<>>
           /\ \A k \in 1..n : f[k] = f[k - 1] \o ss[k]
           /\ f[n] = FlattenSeq(ss)
PROOF
  <1>. DEFINE Iterates(h) ==
                h = [i \in 1..Len(ss) |-> IF i = 1 THEN ss[i] ELSE h[i - 1] \o ss[i]]
              h == CHOOSE h : Iterates(h)
              step == [x \in (1..n) \X Seq(S) |-> x[2] \o ss[x[1]]]
  <1>1. FlattenSeq(ss) = h[n]
    <2>1. Len(ss) # 0 /\ Len(ss) = n
      OBVIOUS
    <2>2. FlattenSeq(ss) = h[Len(ss)]
      BY <2>1 DEF FlattenSeq
    <2>. QED
      BY <2>1, <2>2
  <1>2. PICK V, base : V = Seq(S) /\ base = <<>>
    OBVIOUS
  <1>3. base \in V /\ step \in [(1..n) \X V -> V]
    BY <1>2
  <1>4. \A k \in 1..n, v \in V : step[<<k, v>>] = v \o ss[k]
    BY <1>2
  <1>. HIDE DEF step
  <1>5. PICK g \in [SUBSET (1..n) -> V] : IsFold(g, n, V, base, step)
    BY <1>3, FoldExists
  <1>6. FoldsWithin(g, n, V, base, step)
    BY <1>5 DEF IsFold, FoldsWithin
  <1>7. PICK p \in [0..n -> V] : IsChain(p, n, base, step, g[1..n])
    BY <1>3, <1>6, FoldIsChain
  <1>8. p[0] = <<>> /\ \A k \in 1..n : p[k] = p[k - 1] \o ss[k]
    <2>1. p[0] = <<>>
      BY <1>2, <1>7 DEF IsChain
    <2>2. ASSUME NEW k \in 1..n
          PROVE  p[k] = p[k - 1] \o ss[k]
      <3>1. p[k - 1] \in V /\ p[k] = step[<<k, p[k - 1]>>]
        BY <1>7 DEF IsChain
      <3>. QED
        BY <1>4, <3>1
    <2>. QED
      BY <2>1, <2>2
  <1>9. p[1] = ss[1]
    <2>1. 1 \in 1..n /\ 1 - 1 = 0
      OBVIOUS
    <2>2. p[1] = <<>> \o ss[1] /\ ss[1] \in Seq(S)
      BY <1>8, <2>1
    <2>. QED
      BY <2>2, ConcatEmptySeq
  <1>10. Iterates(h)
    <2>1. \A i \in 1..n : i # 1 => i - 1 \in 1..n
      OBVIOUS
    <2>2. Iterates([i \in 1..n |-> p[i]])
      BY <1>8, <1>9, <2>1
    <2>. HIDE DEF Iterates
    <2>. QED
      BY <2>2
  <1>. HIDE DEF h
  <1>11. h[1] = ss[1] /\ \A k \in 1..n : k # 1 => h[k] = h[k - 1] \o ss[k]
    <2>1. h = [i \in 1..n |-> IF i = 1 THEN ss[i] ELSE h[i - 1] \o ss[i]]
      BY <1>10
    <2>2. 1 \in 1..n
      OBVIOUS
    <2>. QED
      BY <2>1, <2>2
  <1>12. \A k \in 0..n : k = 0 \/ h[k] = p[k]
    <2>. DEFINE T == {k \in 0..n : k = 0 \/ h[k] = p[k]}
    <2>1. 0 \in T
      OBVIOUS
    <2>2. ASSUME NEW k \in 1..n, k - 1 \in T
          PROVE  k \in T
      <3>1. CASE k = 1
        BY <1>9, <1>11, <3>1
      <3>2. CASE k # 1
        <4>1. h[k] = h[k - 1] \o ss[k]
          BY <1>11, <3>2
        <4>2. h[k - 1] = p[k - 1]
          BY <2>2, <3>2
        <4>3. p[k] = p[k - 1] \o ss[k]
          BY <1>8
        <4>4. h[k] = p[k]
          BY <4>1, <4>2, <4>3
        <4>. QED
          BY <4>4
      <3>. QED
        BY <3>1, <3>2
    <2>3. \A k \in 0..n : k \in T
      <3>. HIDE DEF T
      <3>. QED
        BY <2>1, <2>2, CountingUp
    <2>. QED
      BY <2>3
  <1>13. h[n] = p[n]
    BY <1>12
  <1>. QED
    BY <1>1, <1>2, <1>8, <1>13

ShownOps == {"", "+", "-", "*"}

PartRecord ==
  [op : ShownOps, value : Int, dice : Seq(DieRecord), is_const : BOOLEAN,
   counts_successes : BOOLEAN]

\* The dice of a part make its value.
PartShows(p) ==
  ~p.is_const =>
    p.value = IF p.counts_successes
              THEN Cardinality({i \in DOMAIN p.dice : p.dice[i].success /\ ~p.dice[i].dropped})
              ELSE DiceSum(p.dice)

ShownParts == {p \in PartRecord : PartShows(p)}

\* The part of an outcome shows its value, and the dice that make it.
LEMMA PartIsShown ==
  ASSUME NEW o, IsOutcome(o), NEW op \in ShownOps
  PROVE  /\ Part(op, o) \in ShownParts
         /\ Part(op, o).op = op
         /\ Part(op, o).value = ValueOf(o)
PROOF
  <1>1. CASE o \in [const : Nat]
    <2>1. "const" \in DOMAIN o /\ o.const \in Int
      BY <1>1
    <2>2. PICK p : p = Part(op, o)
      OBVIOUS
    <2>3. p = [op |-> op, value |-> o.const, dice |-> <<>>, is_const |-> TRUE,
               counts_successes |-> FALSE]
      BY <2>1, <2>2 DEF Part
    <2>4. <<>> \in Seq(DieRecord)
      OBVIOUS
    <2>5. p \in PartRecord /\ p.is_const /\ p.op = op /\ p.value = o.const
      BY <2>1, <2>3, <2>4 DEF PartRecord
    <2>. QED
      BY <2>1, <2>2, <2>5 DEF ShownParts, PartShows, ValueOf
  <1>2. CASE o \in DiceOutcome /\ ShowsValue(o.term, o.dice, o.value)
    <2>1. "const" \notin DOMAIN o /\ o.value \in Int /\ o.dice \in Seq(DieRecord)
      BY <1>2 DEF DiceOutcome
    <2>2. PICK p, c : p = Part(op, o) /\ c = (o.term.success # None)
      OBVIOUS
    <2>3. p = [op |-> op, value |-> o.value, dice |-> o.dice, is_const |-> FALSE,
               counts_successes |-> c]
      BY <2>1, <2>2 DEF Part
    <2>4. c \in BOOLEAN
      BY <2>2
    <2>5. /\ p \in PartRecord
          /\ p.op = op
          /\ p.value = o.value
          /\ p.dice = o.dice
          /\ p.counts_successes = c
      BY <2>1, <2>3, <2>4 DEF PartRecord
    <2>6. PartShows(p)
      BY <1>2, <2>2, <2>5 DEF PartShows, ShowsValue
    <2>. QED
      BY <2>1, <2>2, <2>5, <2>6 DEF ShownParts, ValueOf
  <1>. QED
    BY <1>1, <1>2 DEF IsOutcome

Shown == [sum : Int, last : Int]

LEMMA ShownStarts == ShownOf(<<>>) = [sum |-> 0, last |-> 0]
PROOF
  <1>1. DOMAIN <<>> = 1..0 /\ 0 \in Nat /\ 1..0 = {}
    OBVIOUS
  <1>2. \A i \in 1..0 : <<>>[i].value \in Int
    BY <1>1
  <1>3. \E p \in [0..0 -> Shown] : p[0] = [sum |-> 0, last |-> 0] /\ p[0] = ShownOf(<<>>)
    BY <1>1, <1>2, ShownUnfolds DEF Shown
  <1>. QED
    BY <1>3

\* The parts b of one product.
LineOf(b, os) ==
  /\ Len(b) = Len(os)
  /\ Len(b) > 0
  /\ b[1].op # "*"
  /\ \A j \in 1..Len(os) : j # 1 => b[j].op = "*"
  /\ \A j \in 1..Len(os) : b[j].value = ValueOf(os[j])

\* Behind its parts, a product is what is not yet added to the sum.
LEMMA ProductIsShown ==
  ASSUME NEW a \in Seq(ShownParts), NEW b \in Seq(ShownParts), NEW os, IsFactors(os),
         LineOf(b, os)
  PROVE  /\ ShownOf(a) \in Shown
         /\ ShownOf(a \o b) =
              [sum |-> ShownOf(a).sum + ShownOf(a).last,
               last |-> IF b[1].op = "-" THEN -Product(os) ELSE Product(os)]
PROOF
  <1>. DEFINE c == a \o b
  <1>1. PICK l, n, m : l = Len(a) /\ n = Len(b) /\ m = Len(c)
    OBVIOUS
  <1>2. /\ l \in Nat /\ DOMAIN a = 1..l
        /\ n \in Nat /\ n > 0 /\ Len(os) = n
        /\ m = l + n /\ DOMAIN c = 1..m
        /\ c \in Seq(ShownParts)
        /\ \A i \in 1..l : c[i] = a[i]
        /\ \A i \in 1..n : c[l + i] = b[i]
    <2>1. /\ c \in Seq(ShownParts)
          /\ Len(c) = Len(a) + Len(b)
          /\ \A i \in 1..Len(a) + Len(b) : c[i] = IF i <= Len(a) THEN a[i] ELSE b[i - Len(a)]
      BY ConcatProperties
    <2>. HIDE DEF c
    <2>2. /\ l \in Nat /\ DOMAIN a = 1..l
          /\ n \in Nat /\ n > 0 /\ Len(os) = n
          /\ m = l + n /\ DOMAIN c = 1..m
      BY <1>1, <2>1, LenProperties DEF LineOf
    <2>3. \A i \in 1..l : c[i] = a[i]
      BY <1>1, <2>1, <2>2
    <2>4. \A i \in 1..n : c[l + i] = b[i]
      <3>. TAKE i \in 1..n
      <3>1. l + i \in 1..l + n /\ ~(l + i <= l) /\ l + i - l = i
        BY <2>2
      <3>. QED
        BY <1>1, <2>1, <3>1
    <2>. QED
      BY <2>1, <2>2, <2>3, <2>4
  <1>3. \A x \in ShownParts : x.value \in Int
    BY DEF ShownParts, PartRecord
  <1>. HIDE DEF c
  <1>4. (\A i \in 1..l : a[i].value \in Int) /\ (\A i \in 1..m : c[i].value \in Int) /\ m \in Nat
    <2>1. (\A i \in 1..l : a[i] \in ShownParts) /\ (\A i \in 1..m : c[i] \in ShownParts)
      BY <1>1, <1>2, ElementOfSeq
    <2>. QED
      BY <1>2, <1>3, <2>1
  <1>5. PICK q \in [0..l -> Shown] :
          /\ q[0] = [sum |-> 0, last |-> 0]
          /\ \A k \in 1..l : q[k] = ShowStep(q[k - 1], a[k])
          /\ q[l] = ShownOf(a)
    BY <1>2, <1>4, ShownUnfolds DEF Shown
  <1>6. PICK p \in [0..m -> Shown] :
          /\ p[0] = [sum |-> 0, last |-> 0]
          /\ \A k \in 1..m : p[k] = ShowStep(p[k - 1], c[k])
          /\ p[m] = ShownOf(c)
    BY <1>2, <1>4, ShownUnfolds DEF Shown
  <1>7. PICK r \in [0..n -> Int] :
          /\ r[0] = 1
          /\ \A k \in 1..n : r[k] = r[k - 1] * ValueOf(os[k])
          /\ r[n] = Product(os)
    <2>1. DOMAIN os = 1..n /\ \A i \in 1..n : ValueOf(os[i]) \in Int
      BY <1>2, FactorsHaveProducts DEF IsFactors, IsSequence
    <2>. QED
      BY <1>2, <2>1, ProductUnfolds
  <1>8. \A k \in 0..l : p[k] = q[k]
    <2>. DEFINE T == {k \in 0..l : p[k] = q[k]}
    <2>1. 0 \in T
      BY <1>2, <1>5, <1>6
    <2>2. ASSUME NEW k \in 1..l, k - 1 \in T
          PROVE  k \in T
      <3>1. k \in 1..m /\ k \in 0..l /\ c[k] = a[k]
        BY <1>2
      <3>. QED
        BY <1>5, <1>6, <2>2, <3>1
    <2>3. \A k \in 0..l : k \in T
      <3>. HIDE DEF T
      <3>. QED
        BY <1>2, <2>1, <2>2, CountingUp
    <2>. QED
      BY <2>3
  <1>9. PICK s, neg : s = q[l].sum + q[l].last /\ neg = (b[1].op = "-")
    OBVIOUS
  <1>10. \A k \in 0..n : k = 0 \/ p[l + k] = [sum |-> s, last |-> IF neg THEN -r[k] ELSE r[k]]
    <2>. DEFINE T == {k \in 0..n :
                        k = 0 \/ p[l + k] = [sum |-> s, last |-> IF neg THEN -r[k] ELSE r[k]]}
    <2>1. 0 \in T
      BY <1>2
    <2>2. ASSUME NEW k \in 1..n, k - 1 \in T
          PROVE  k \in T
      <3>1. l + k \in 1..m /\ l + k - 1 = l + (k - 1) /\ l + (k - 1) \in 0..m /\ k - 1 \in 0..n
        BY <1>2
      <3>2. p[l + k] = ShowStep(p[l + (k - 1)], b[k])
        BY <1>2, <1>6, <3>1
      <3>3. b[k].value = ValueOf(os[k]) /\ b[k].value \in Int
        <4>1. b[k] \in ShownParts
          BY <1>1, <1>2, ElementOfSeq
        <4>. QED
          BY <1>2, <1>3, <4>1 DEF LineOf
      <3>4. r[k] = r[k - 1] * b[k].value /\ r[k - 1] \in Int /\ r[k] \in Int
        BY <1>7, <3>1, <3>3
      <3>5. CASE k = 1
        <4>1. r[k] = b[k].value
          BY <1>7, <3>3, <3>4, <3>5
        <4>2. p[l + (k - 1)] = q[l]
          BY <1>2, <1>8, <3>5
        <4>3. b[k].op # "*" /\ neg = (b[k].op = "-")
          BY <1>9, <3>5 DEF LineOf
        <4>4. CASE neg
          <5>1. p[l + k] = [sum |-> s, last |-> -b[k].value]
            BY <1>9, <3>2, <4>2, <4>3, <4>4 DEF ShowStep
          <5>. QED
            BY <4>1, <4>4, <5>1
        <4>5. CASE ~neg
          <5>1. p[l + k] = [sum |-> s, last |-> b[k].value]
            BY <1>9, <3>2, <4>2, <4>3, <4>5 DEF ShowStep
          <5>. QED
            BY <4>1, <4>5, <5>1
        <4>. QED
          BY <4>4, <4>5
      <3>6. CASE k # 1
        <4>1. b[k].op = "*"
          BY <1>2, <3>6 DEF LineOf
        <4>2. PICK x : x = p[l + (k - 1)]
          OBVIOUS
        <4>3. x = [sum |-> s, last |-> IF neg THEN -r[k - 1] ELSE r[k - 1]]
          BY <2>2, <3>6, <4>2
        <4>4. p[l + k] = [x EXCEPT !.last = x.last * b[k].value]
          BY <3>2, <4>1, <4>2 DEF ShowStep
        <4>5. p[l + k] = [sum |-> s, last |-> x.last * b[k].value]
          BY <4>3, <4>4
        <4>6. x.last = IF neg THEN -r[k - 1] ELSE r[k - 1]
          BY <4>3
        <4>7. x.last * b[k].value = IF neg THEN -r[k] ELSE r[k]
          <5>1. \A y, z \in Int : (-y) * z = -(y * z)
            OBVIOUS
          <5>. QED
            BY <3>3, <3>4, <4>6, <5>1
        <4>. QED
          BY <4>5, <4>7
      <3>. QED
        BY <3>5, <3>6
    <2>3. \A k \in 0..n : k \in T
      <3>. HIDE DEF T
      <3>. QED
        BY <1>2, <2>1, <2>2, CountingUp
    <2>. QED
      BY <2>3
  <1>11. ShownOf(c) = [sum |-> s, last |-> IF neg THEN -Product(os) ELSE Product(os)]
    <2>1. n \in 0..n /\ n # 0
      BY <1>2
    <2>. QED
      BY <1>2, <1>6, <1>7, <1>10, <2>1
  <1>12. ShownOf(a) = q[l] /\ q[l] \in Shown
    BY <1>2, <1>5
  <1>. QED
    BY <1>9, <1>11, <1>12 DEF c

\* The operator that a part shows.
LEMMA OperatorsShown ==
  ASSUME NEW op \in {"+", "-"}, NEW i \in Nat \ {0}, NEW j \in Nat \ {0}
  PROVE  /\ OpStr(i, j, op) \in ShownOps
         /\ j # 1 => OpStr(i, j, op) = "*"
         /\ j = 1 => OpStr(i, j, op) # "*" /\ (OpStr(i, j, op) = "-" <=> op = "-")
PROOF
  <1>1. j > 1 <=> j # 1
    OBVIOUS
  <1>2. op = "+" \/ op = "-"
    OBVIOUS
  <1>3. CASE j # 1
    <2>1. OpStr(i, j, op) = "*"
      BY <1>1, <1>3, Zenon DEF OpStr
    <2>. QED
      BY <1>3, <2>1, Zenon DEF ShownOps
  <1>4. CASE j = 1 /\ i = 1 /\ op = "+"
    <2>1. OpStr(i, j, op) = ""
      BY <1>1, <1>4, Zenon DEF OpStr
    <2>. QED
      BY <1>4, <2>1, Zenon DEF ShownOps
  <1>5. CASE j = 1 /\ ~(i = 1 /\ op = "+")
    <2>1. OpStr(i, j, op) = op
      BY <1>1, <1>5, Zenon DEF OpStr
    <2>. QED
      BY <1>2, <1>5, <2>1, Zenon DEF ShownOps
  <1>. QED
    BY <1>3, <1>4, <1>5

LineParts(i) ==
  [j \in DOMAIN products[i].item |->
    Part(OpStr(i, j, products[i].op), products[i].item[j])]

\* The parts of a product: its operator in front of the first, a * before the others.
LEMMA LinesAreShown ==
  ASSUME ExprInv, ResultInv, result = "ok", NEW i \in 1..Len(products)
  PROVE  /\ LineParts(i) \in Seq(ShownParts)
         /\ LineOf(LineParts(i), products[i].item)
         /\ LineParts(i)[1].op = "-" <=> products[i].op # "+"
PROOF
  <1>. DEFINE os == products[i].item
              op == products[i].op
              b == LineParts(i)
  <1>1. Len(products) = Len(expr) /\ Len(products) \in Nat
    BY DEF ExprInv, ExprTypeOK, IsSequence, ResultInv, CallInv
  <1>2. i \in Nat \ {0} /\ op \in {"+", "-"} /\ Len(os) > 0
    <2>1. expr \in Seq([op : {"+", "-"}, item : Seq(TermRecord \cup [const : Nat])])
      BY ExprAssumption DEF ExprInv, ExprTypeOK
    <2>2. i \in DOMAIN expr /\ expr[i].op \in {"+", "-"}
      <3>1. i \in 1..Len(expr) /\ DOMAIN expr = 1..Len(expr)
        BY <1>1, <2>1, LenProperties
      <3>2. expr[i] \in [op : {"+", "-"}, item : Seq(TermRecord \cup [const : Nat])]
        BY <2>1, <3>1, ElementOfSeq
      <3>. QED
        BY <3>1, <3>2
    <2>3. Len(expr[i].item) > 0
      BY <2>2, ExprAssumption DEF ExprInv, ExprTypeOK
    <2>4. op = expr[i].op /\ Len(os) = Len(expr[i].item)
      BY DEF ResultInv, ShapeInv
    <2>. QED
      BY <1>1, <2>2, <2>3, <2>4
  <1>3. PICK n : n = Len(os)
    OBVIOUS
  <1>4. n \in Nat /\ n > 0 /\ DOMAIN os = 1..n /\ \A j \in 1..n : IsOutcome(os[j])
    BY <1>2, <1>3 DEF ResultInv, SumsInv, IsSummands, IsFactors, IsSequence
  <1>5. b = [j \in 1..n |-> Part(OpStr(i, j, op), os[j])]
    BY <1>4 DEF LineParts
  <1>. HIDE DEF b, os, op
  <1>6. ASSUME NEW j \in 1..n
        PROVE  /\ b[j] \in ShownParts
               /\ b[j].value = ValueOf(os[j])
               /\ j # 1 => b[j].op = "*"
               /\ j = 1 => b[j].op # "*" /\ (b[j].op = "-" <=> op = "-")
    <2>1. j \in Nat \ {0} /\ b[j] = Part(OpStr(i, j, op), os[j])
      BY <1>5
    <2>2. PICK o : o = OpStr(i, j, op)
      OBVIOUS
    <2>3. /\ o \in ShownOps
          /\ j # 1 => o = "*"
          /\ j = 1 => o # "*" /\ (o = "-" <=> op = "-")
      BY <1>2, <2>1, <2>2, OperatorsShown
    <2>4. /\ b[j] \in ShownParts
          /\ b[j].op = o
          /\ b[j].value = ValueOf(os[j])
      BY <1>4, <2>1, <2>2, <2>3, PartIsShown
    <2>. QED
      BY <2>3, <2>4
  <1>7. b \in [1..n -> ShownParts]
    BY <1>5, <1>6
  <1>8. b \in Seq(ShownParts) /\ Len(b) = n
    <2>1. b \in Seq(ShownParts)
      BY <1>4, <1>7, SeqDef
    <2>2. Len(b) \in Nat /\ 1..Len(b) = 1..n
      BY <1>7, <2>1, LenProperties
    <2>. QED
      BY <1>4, <2>1, <2>2
  <1>9. 1 \in 1..n
    BY <1>4
  <1>10. LineOf(b, os)
    BY <1>3, <1>4, <1>6, <1>8, <1>9 DEF LineOf
  <1>11. b[1].op = "-" <=> op # "+"
    BY <1>2, <1>6, <1>9
  <1>. QED
    BY <1>8, <1>10, <1>11 DEF b, os, op

\* Up to each product, what is shown adds up to what has been added up.
LEMMA PartsAreShown ==
  ASSUME ExprInv, ResultInv, result = "ok"
  PROVE  /\ Parts \in Seq(ShownParts)
         /\ ShownOf(Parts).sum + ShownOf(Parts).last = total
PROOF
  <1>. DEFINE ss == [i \in DOMAIN products |-> LineParts(i)]
  <1>1. PICK n : n = Len(products)
    OBVIOUS
  <1>2. /\ n \in Nat \ {0}
        /\ DOMAIN products = 1..n
        /\ IsSummands(products)
        /\ total = ExactOf(products)
        /\ \A i \in 1..n : Product(products[i].item) \in Int
    <2>1. IsSummands(products) /\ total = ExactOf(products)
      BY DEF ResultInv, SumsInv
    <2>2. n \in Nat /\ DOMAIN products = 1..n
      BY <1>1, <2>1 DEF IsSummands, IsSequence
    <2>3. n > 0
      BY <1>1, ExprAssumption DEF ResultInv, CallInv, ExprInv, ExprTypeOK
    <2>4. \A i \in 1..n : Product(products[i].item) \in Int
      BY <1>1, <2>1, SummandsHaveSums
    <2>. QED
      BY <2>1, <2>2, <2>3, <2>4
  <1>3. Parts = FlattenSeq(ss)
    BY DEF Parts, LineParts
  <1>4. \A i \in 1..n : ss[i] = LineParts(i) /\ ss[i] \in Seq(ShownParts)
    BY <1>1, <1>2, LinesAreShown
  <1>5. Len(ss) = n
    <2>1. ss \in [1..n -> Seq(ShownParts)]
      BY <1>2, <1>4
    <2>2. ss \in Seq(Seq(ShownParts))
      BY <1>2, <2>1, SeqDef
    <2>3. Len(ss) \in Nat /\ 1..Len(ss) = 1..n
      BY <2>1, <2>2, LenProperties
    <2>. QED
      BY <1>2, <2>3
  <1>. HIDE DEF ss
  <1>6. PICK f \in [0..n -> Seq(ShownParts)] :
          /\ f[0] = <<>>
          /\ \A k \in 1..n : f[k] = f[k - 1] \o ss[k]
          /\ f[n] = FlattenSeq(ss)
    BY <1>2, <1>4, <1>5, FlattenUnfolds
  <1>7. PICK e \in [0..n -> Int] :
          /\ e[0] = 0
          /\ \A k \in 1..n : e[k] = Added(products[k], e[k - 1])
          /\ e[n] = ExactOf(products)
    BY <1>2, ExactUnfolds
  <1>8. \A k \in 0..n : ShownOf(f[k]).sum + ShownOf(f[k]).last = e[k]
    <2>. DEFINE T == {k \in 0..n : ShownOf(f[k]).sum + ShownOf(f[k]).last = e[k]}
    <2>1. 0 \in T
      <3>1. ShownOf(f[0]) = [sum |-> 0, last |-> 0]
        BY <1>6, ShownStarts
      <3>2. ShownOf(f[0]).sum = 0 /\ ShownOf(f[0]).last = 0 /\ 0 \in 0..n
        BY <1>2, <3>1
      <3>. QED
        BY <1>7, <3>2
    <2>2. ASSUME NEW k \in 1..n, k - 1 \in T
          PROVE  k \in T
      <3>1. k - 1 \in 0..n /\ k \in 0..n
        BY <1>2
      <3>2. PICK a, b, os, op :
              a = f[k - 1] /\ b = ss[k] /\ os = products[k].item /\ op = products[k].op
        OBVIOUS
      <3>3. a \in Seq(ShownParts) /\ b \in Seq(ShownParts) /\ f[k] = a \o b
        BY <1>4, <1>6, <3>1, <3>2
      <3>4. LineOf(b, os) /\ (b[1].op = "-" <=> op # "+") /\ IsFactors(os)
        BY <1>1, <1>2, <1>4, <3>2, LinesAreShown DEF IsSummands
      <3>5. /\ ShownOf(a) \in Shown
            /\ ShownOf(f[k]) =
                 [sum |-> ShownOf(a).sum + ShownOf(a).last,
                  last |-> IF b[1].op = "-" THEN -Product(os) ELSE Product(os)]
        BY <3>3, <3>4, ProductIsShown
      <3>6. /\ ShownOf(f[k]).sum = e[k - 1]
            /\ ShownOf(f[k]).last = IF op = "+" THEN Product(os) ELSE -Product(os)
        BY <2>2, <3>2, <3>4, <3>5
      <3>7. e[k] = IF op = "+" THEN e[k - 1] + Product(os) ELSE e[k - 1] - Product(os)
        BY <1>7, <3>2 DEF Added
      <3>8. e[k - 1] \in Int /\ Product(os) \in Int
        BY <1>2, <1>7, <3>1, <3>2
      <3>. QED
        BY <3>1, <3>6, <3>7, <3>8
    <2>3. \A k \in 0..n : k \in T
      <3>. HIDE DEF T
      <3>. QED
        BY <1>2, <2>1, <2>2, CountingUp
    <2>. QED
      BY <2>3
  <1>9. n \in 0..n
    BY <1>2
  <1>. QED
    BY <1>2, <1>3, <1>6, <1>7, <1>8, <1>9

\* What the page shows of a roll adds up to the total, and the dice of a term to its
\* value, whatever the expression and however its terms came out.
THEOREM ShownPartsAddUp == Spec => []PartsAddUp
PROOF
  <1>1. ASSUME ExprInv, ResultInv, result = "ok"
        PROVE  PartsAddUp
    <2>1. Parts \in Seq(ShownParts) /\ ShownOf(Parts).sum + ShownOf(Parts).last = total
      BY <1>1, PartsAreShown
    <2>2. ASSUME NEW k \in DOMAIN Parts
          PROVE  PartShows(Parts[k])
      <3>1. k \in 1..Len(Parts)
        BY <2>1, LenProperties
      <3>2. Parts[k] \in ShownParts
        BY <2>1, <3>1, ElementOfSeq
      <3>. QED
        BY <3>2 DEF ShownParts
    <2>. QED
      BY <2>1, <2>2, Zenon DEF PartsAddUp, PartShows, ShownOf, DiceSum
  <1>2. ExprInv /\ ResultInv /\ result # "ok" => PartsAddUp
    BY Zenon DEF PartsAddUp
  <1>3. ExprInv /\ ResultInv => PartsAddUp
    BY <1>1, <1>2
  <1>. QED
    BY <1>3, ExprInvariance, ResultInvariance, PTL
=============================================================================
