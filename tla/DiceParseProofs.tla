---------------------------- MODULE DiceParseProofs ---------------------------
(****************************************************************************)
(* That the parser of dice expressions lets only terms through that the     *)
(* evaluator can rely on, that two suffixes side by side may change places, *)
(* that what Display prints reads back, and that it accepts exactly the     *)
(* inputs whose pieces between the operators are terms, for every input,    *)
(* every limit and every set of numbers.                                    *)
(*                                                                          *)
(* The parser is made of three loops.  The one over the suffixes of a term  *)
(* is a fold of the community modules, the CHOICE of a function on the      *)
(* subsets of 1..n; the ones over the operators of a product and of an      *)
(* expression are recursive functions of the position.  The first lemmas    *)
(* show that there are such functions; all others work with what these do   *)
(* from one suffix, or from one operator, to the next.  The lemmas about    *)
(* folds and about counting are those that DiceExprProofs needs too: the    *)
(* two modules have no ancestor in common.                                  *)
(****************************************************************************)
EXTENDS DiceParse, FiniteSetTheorems, SequenceTheorems, WellFoundedInduction, TLAPS

------------------------------------------------------------------------------
(* Induction, folds and recursion. *)

\* A statement about numbers that fails somewhere fails for a first time.
LEMMA FirstNumber ==
  ASSUME NEW T \in SUBSET Nat, T # {}
  PROVE  \E u \in T : \A t \in T : u <= t
PROOF
  <1>. DEFINE R == {p \in Nat \X Nat : p[1] < p[2]}
  <1>1. IsWellFoundedOn(R, Nat)
    BY NatLessThanWellFounded DEF OpToRel
  <1>2. \A m, n \in Nat : m < n => <<m, n>> \in R
    OBVIOUS
  <1>. HIDE DEF R
  <1>3. PICK u \in T : \A m \in T : ~(<<m, u>> \in R)
    BY <1>1, WFMin
  <1>4. \A m \in T : ~(m < u)
    BY <1>2, <1>3
  <1>. QED
    BY <1>4, SMT

\* A set of numbers that is not empty and has a bound has a greatest one.
LEMMA GreatestNumber ==
  ASSUME NEW bound \in Nat, NEW T \in SUBSET (0..bound), T # {}
  PROVE  Max(T) \in T /\ \A t \in T : Max(T) >= t
<1> DEFINE R == {p \in Nat \X Nat : p[1] < p[2]}
           U == {bound - t : t \in T}
<1>1. IsWellFoundedOn(R, Nat)
  BY NatLessThanWellFounded DEF OpToRel
<1>2. \A m, n \in Nat : m < n => <<m, n>> \in R
  OBVIOUS
<1>3. U \subseteq Nat /\ U # {}
  <2>1. \A t \in T : bound - t \in Nat
    OBVIOUS
  <2> QED
    BY <2>1
<1> HIDE DEF R
<1>4. PICK u \in U : \A m \in U : ~(<<m, u>> \in R)
  BY <1>1, <1>3, WFMin
<1>5. \A m \in U : ~(m < u)
  BY <1>2, <1>3, <1>4
<1>6. PICK s \in T : u = bound - s
  BY <1>4
<1>7. \A t \in T : s >= t
  <2> TAKE t \in T
  <2>1. bound - t \in U
    OBVIOUS
  <2>2. ~(bound - t < bound - s)
    BY <2>1, <1>5, <1>6
  <2>3. s \in Int /\ t \in Int
    OBVIOUS
  <2> HIDE DEF U
  <2> QED
    BY <2>2, <2>3, SMT
<1> QED
  BY <1>7 DEF Max

\* Induction: what holds of 0, and of a number if of the one before it.
LEMMA CountingUp ==
  ASSUME NEW n \in Nat, NEW T, 0 \in T, \A k \in 1..n : k - 1 \in T => k \in T
  PROVE  \A k \in 0..n : k \in T
PROOF
  <1>. SUFFICES ASSUME NEW R, R = {k \in 0..n : k \notin T}, R # {}
                PROVE  FALSE
    OBVIOUS
  <1>1. PICK u \in R : \A t \in R : u <= t
    <2>1. R \in SUBSET Nat
      OBVIOUS
    <2>. QED
      BY <2>1, FirstNumber
  <1>2. u \in 1..n
    OBVIOUS
  <1>3. u - 1 \in 0..n /\ ~(u <= u - 1)
    BY <1>2
  <1>. QED
    BY <1>1, <1>2, <1>3

\* What holds at first and of every next value holds of all.
LEMMA StaysInside ==
  ASSUME NEW V, NEW n \in Nat, NEW p, p[0] \in V,
         \A k \in 1..n : p[k - 1] \in V => p[k] \in V
  PROVE  \A k \in 0..n : p[k] \in V
PROOF
  <1>. DEFINE T == {k \in 0..n : p[k] \in V}
  <1>1. 0 \in T /\ \A k \in 1..n : k - 1 \in T => k \in T
    OBVIOUS
  <1>2. \A k \in 0..n : k \in T
    <2>. HIDE DEF T
    <2>. QED
      BY <1>1, CountingUp
  <1>. QED
    BY <1>2

\* Folding the steps over the numbers up to n, from the least to the greatest.
IsFold(g, n, V, base, step) ==
  /\ g[{}] = base
  /\ \A s \in SUBSET (1..n) :
       s # {} => /\ Max(s) \in 1..n
                 /\ g[s \ {Max(s)}] \in V
                 /\ g[s] = step[<<Max(s), g[s \ {Max(s)}]>>]

\* There is a fold: one more number at a time.
LEMMA FoldExists ==
  ASSUME NEW V, NEW base \in V, NEW n \in Nat, NEW step \in [(1..n) \X V -> V]
  PROVE  \E g \in [SUBSET (1..n) -> V] : IsFold(g, n, V, base, step)
PROOF
  <1>. DEFINE Folds(k) == \E g \in [SUBSET (1..k) -> V] : IsFold(g, k, V, base, step)
              T == {k \in 0..n : Folds(k)}
  <1>1. Folds(0)
    <2>. DEFINE g == [s \in SUBSET (1..0) |-> base]
    <2>1. 1..0 = {}
      OBVIOUS
    <2>2. g \in [SUBSET (1..0) -> V] /\ IsFold(g, 0, V, base, step)
      BY <2>1 DEF IsFold
    <2>. QED
      BY <2>2
  <1>2. ASSUME NEW k \in 0..n - 1, Folds(k)
        PROVE  Folds(k + 1)
    <2>1. PICK g \in [SUBSET (1..k) -> V] : IsFold(g, k, V, base, step)
      BY <1>2
    <2>. DEFINE m == k + 1
                f == [s \in SUBSET (1..m) |->
                        IF m \in s THEN step[<<m, g[s \ {m}]>>] ELSE g[s]]
    <2>2. m \in 1..n /\ m \notin 1..k /\ 1..m \subseteq 0..m /\ m \in Nat
          /\ \A s \in SUBSET (1..m) : s \ {m} \in SUBSET (1..k)
      OBVIOUS
    <2>3. f \in [SUBSET (1..m) -> V]
      <3>1. ASSUME NEW s \in SUBSET (1..m)
            PROVE  (IF m \in s THEN step[<<m, g[s \ {m}]>>] ELSE g[s]) \in V
        <4>1. s \ {m} \in SUBSET (1..k) /\ (m \notin s => s \ {m} = s)
          BY <2>2
        <4>2. g[s \ {m}] \in V
          BY <4>1
        <4>3. <<m, g[s \ {m}]>> \in (1..n) \X V
          BY <2>2, <4>2
        <4>. HIDE DEF m
        <4>. QED
          BY <4>1, <4>2, <4>3
      <3>. QED
        BY <3>1
    <2>4. f[{}] = base
      <3>1. {} \in SUBSET (1..m) /\ m \notin {}
        OBVIOUS
      <3>. QED
        BY <3>1, <2>1 DEF IsFold
    <2>5. ASSUME NEW s \in SUBSET (1..m), s # {}
          PROVE  /\ Max(s) \in 1..m
                 /\ f[s \ {Max(s)}] \in V
                 /\ f[s] = step[<<Max(s), f[s \ {Max(s)}]>>]
      <3>1. CASE m \in s
        <4>1. Max(s) = m
          <5>1. Max(s) \in s /\ \A t \in s : Max(s) >= t
            BY <2>2, <2>5, GreatestNumber
          <5>2. Max(s) \in 1..m /\ Max(s) >= m
            BY <3>1, <5>1
          <5>. QED
            BY <5>2, <2>2
        <4>2. s \ {m} \in SUBSET (1..m) /\ m \notin s \ {m}
          OBVIOUS
        <4>3. f[s \ {m}] = g[s \ {m}]
          BY <4>2
        <4>4. f[s] = step[<<m, g[s \ {m}]>>]
          BY <3>1
        <4>5. f[s \ {m}] \in V /\ m \in 1..m
          BY <2>2, <2>3, <4>2
        <4>. HIDE DEF f, m
        <4>. QED
          BY <4>1, <4>3, <4>4, <4>5
      <3>2. CASE m \notin s
        <4>1. s \in SUBSET (1..k)
          BY <3>2
        <4>2. Max(s) \in 1..k /\ g[s] = step[<<Max(s), g[s \ {Max(s)}]>>]
          BY <4>1, <2>1, <2>5 DEF IsFold
        <4>3. s \ {Max(s)} \in SUBSET (1..m) /\ m \notin s \ {Max(s)}
          BY <3>2, <4>1
        <4>4. f[s] = g[s] /\ f[s \ {Max(s)}] = g[s \ {Max(s)}]
          BY <3>2, <4>3
        <4>5. f[s \ {Max(s)}] \in V /\ Max(s) \in 1..m
          BY <2>3, <4>2, <4>3
        <4>. HIDE DEF f
        <4>. QED
          BY <4>2, <4>4, <4>5
      <3>. QED
        BY <3>1, <3>2
    <2>. HIDE DEF f
    <2>. QED
      BY <2>3, <2>4, <2>5 DEF IsFold
  <1>. HIDE DEF Folds
  <1>3. Folds(n)
    <2>1. 0 \in T
      BY <1>1
    <2>2. ASSUME NEW k \in 1..n, k - 1 \in T
          PROVE  k \in T
      <3>1. k - 1 \in 0..n - 1 /\ k - 1 + 1 = k
        OBVIOUS
      <3>. QED
        BY <1>2, <2>2, <3>1
    <2>3. n \in T
      <3>. HIDE DEF T
      <3>1. n \in 0..n
        OBVIOUS
      <3>. QED
        BY <2>1, <2>2, <3>1, CountingUp
    <2>. QED
      BY <2>3
  <1>. QED
    BY <1>3 DEF Folds

\* Taking the greatest number off 1..k leaves 1..k - 1.
LEMMA WholeInterval ==
  ASSUME NEW n \in Nat, NEW k \in 1..n
  PROVE  /\ Max(1..k) = k
         /\ (1..k) \ {k} = 1..k - 1
         /\ 1..k # {}
         /\ 1..k \in SUBSET (1..n)
PROOF
  <1>1. 1..k \in SUBSET (0..k) /\ 1..k # {} /\ k \in 1..k
    OBVIOUS
  <1>2. Max(1..k) \in 1..k /\ Max(1..k) >= k
    <2>1. k \in Nat
      OBVIOUS
    <2>. QED
      BY <1>1, <2>1, GreatestNumber
  <1>. QED
    BY <1>1, <1>2

\* The same, as far as it stays within V.
FoldsWithin(h, n, V, base, step) ==
  /\ h[{}] = base
  /\ \A s \in SUBSET (1..n) :
       s # {} /\ h[s \ {Max(s)}] \in V => h[s] = step[<<Max(s), h[s \ {Max(s)}]>>]

\* From base to last, a step for each of the numbers up to n.
IsChain(p, n, base, step, last) ==
  /\ p[0] = base
  /\ \A k \in 1..n : p[k] = step[<<k, p[k - 1]>>]
  /\ p[n] = last

\* A fold over 1..n takes a step for each number, from 1 to n.
LEMMA FoldIsChain ==
  ASSUME NEW V, NEW base \in V, NEW n \in Nat, NEW step \in [(1..n) \X V -> V],
         NEW h, FoldsWithin(h, n, V, base, step)
  PROVE  \E p \in [0..n -> V] : IsChain(p, n, base, step, h[1..n])
PROOF
  <1>. DEFINE p == [k \in 0..n |-> h[1..k]]
  <1>1. /\ p[0] = h[1..0]
        /\ p[n] = h[1..n]
        /\ \A k \in 1..n : p[k] = h[1..k] /\ p[k - 1] = h[1..k - 1]
        /\ p = [k \in 0..n |-> p[k]]
    OBVIOUS
  <1>. HIDE DEF p
  <1>2. p[0] = base
    <2>1. 1..0 = {}
      OBVIOUS
    <2>. QED
      BY <1>1, <2>1 DEF FoldsWithin
  <1>3. \A k \in 1..n : p[k - 1] \in V => p[k] = step[<<k, p[k - 1]>>] /\ p[k] \in V
    <2>. SUFFICES ASSUME NEW k \in 1..n, p[k - 1] \in V
                  PROVE  p[k] = step[<<k, p[k - 1]>>] /\ p[k] \in V
      OBVIOUS
    <2>1. Max(1..k) = k /\ (1..k) \ {k} = 1..k - 1 /\ 1..k # {} /\ 1..k \in SUBSET (1..n)
      BY WholeInterval
    <2>2. h[(1..k) \ {Max(1..k)}] \in V
      BY <1>1, <2>1
    <2>4. h[1..k] = step[<<k, h[1..k - 1]>>]
      BY <2>1, <2>2 DEF FoldsWithin
    <2>3. <<k, p[k - 1]>> \in (1..n) \X V
      OBVIOUS
    <2>. QED
      BY <1>1, <2>3, <2>4
  <1>4. \A k \in 0..n : p[k] \in V
    BY <1>2, <1>3, StaysInside
  <1>5. p \in [0..n -> V]
    BY <1>1, <1>4
  <1>6. \A k \in 1..n : k - 1 \in 0..n
    OBVIOUS
  <1>. QED
    BY <1>1, <1>2, <1>3, <1>4, <1>5, <1>6 DEF IsChain

\* Sequences that are flattened one behind the other.
LEMMA FlattenUnfolds ==
  ASSUME NEW S, NEW ss, NEW n \in Nat \ {0}, Len(ss) = n, \A i \in 1..n : ss[i] \in Seq(S)
  PROVE  \E f \in [0..n -> Seq(S)] :
           /\ f[0] = <<>>
           /\ \A k \in 1..n : f[k] = f[k - 1] \o ss[k]
           /\ f[n] = FlattenSeq(ss)
PROOF
  <1>. DEFINE Iterates(h) ==
                h = [i \in 1..Len(ss) |-> IF i = 1 THEN ss[i] ELSE h[i - 1] \o ss[i]]
              h == CHOOSE h : Iterates(h)
              step == [x \in (1..n) \X Seq(S) |-> x[2] \o ss[x[1]]]
  <1>1. FlattenSeq(ss) = h[n]
    <2>1. Len(ss) # 0 /\ Len(ss) = n
      OBVIOUS
    <2>2. FlattenSeq(ss) = h[Len(ss)]
      BY <2>1 DEF FlattenSeq
    <2>. QED
      BY <2>1, <2>2
  <1>2. PICK V, base : V = Seq(S) /\ base = <<>>
    OBVIOUS
  <1>3. base \in V /\ step \in [(1..n) \X V -> V]
    BY <1>2
  <1>4. \A k \in 1..n, v \in V : step[<<k, v>>] = v \o ss[k]
    BY <1>2
  <1>. HIDE DEF step
  <1>5. PICK g \in [SUBSET (1..n) -> V] : IsFold(g, n, V, base, step)
    BY <1>3, FoldExists
  <1>6. FoldsWithin(g, n, V, base, step)
    BY <1>5 DEF IsFold, FoldsWithin
  <1>7. PICK p \in [0..n -> V] : IsChain(p, n, base, step, g[1..n])
    BY <1>3, <1>6, FoldIsChain
  <1>8. p[0] = <<>> /\ \A k \in 1..n : p[k] = p[k - 1] \o ss[k]
    <2>1. p[0] = <<>>
      BY <1>2, <1>7 DEF IsChain
    <2>2. ASSUME NEW k \in 1..n
          PROVE  p[k] = p[k - 1] \o ss[k]
      <3>1. p[k - 1] \in V /\ p[k] = step[<<k, p[k - 1]>>]
        BY <1>7 DEF IsChain
      <3>. QED
        BY <1>4, <3>1
    <2>. QED
      BY <2>1, <2>2
  <1>9. p[1] = ss[1]
    <2>1. 1 \in 1..n /\ 1 - 1 = 0
      OBVIOUS
    <2>2. p[1] = <<>> \o ss[1] /\ ss[1] \in Seq(S)
      BY <1>8, <2>1
    <2>. QED
      BY <2>2, ConcatEmptySeq
  <1>10. Iterates(h)
    <2>1. \A i \in 1..n : i # 1 => i - 1 \in 1..n
      OBVIOUS
    <2>2. Iterates([i \in 1..n |-> p[i]])
      BY <1>8, <1>9, <2>1
    <2>. HIDE DEF Iterates
    <2>. QED
      BY <2>2
  <1>. HIDE DEF h
  <1>11. h[1] = ss[1] /\ \A k \in 1..n : k # 1 => h[k] = h[k - 1] \o ss[k]
    <2>1. h = [i \in 1..n |-> IF i = 1 THEN ss[i] ELSE h[i - 1] \o ss[i]]
      BY <1>10
    <2>2. 1 \in 1..n
      OBVIOUS
    <2>. QED
      BY <2>1, <2>2
  <1>12. \A k \in 0..n : k = 0 \/ h[k] = p[k]
    <2>. DEFINE T == {k \in 0..n : k = 0 \/ h[k] = p[k]}
    <2>1. 0 \in T
      OBVIOUS
    <2>2. ASSUME NEW k \in 1..n, k - 1 \in T
          PROVE  k \in T
      <3>1. CASE k = 1
        BY <1>9, <1>11, <3>1
      <3>2. CASE k # 1
        <4>1. h[k] = h[k - 1] \o ss[k]
          BY <1>11, <3>2
        <4>2. h[k - 1] = p[k - 1]
          BY <2>2, <3>2
        <4>3. p[k] = p[k - 1] \o ss[k]
          BY <1>8
        <4>4. h[k] = p[k]
          BY <4>1, <4>2, <4>3
        <4>. QED
          BY <4>4
      <3>. QED
        BY <3>1, <3>2
    <2>3. \A k \in 0..n : k \in T
      <3>. HIDE DEF T
      <3>. QED
        BY <2>1, <2>2, CountingUp
    <2>. QED
      BY <2>3
  <1>13. h[n] = p[n]
    BY <1>12
  <1>. QED
    BY <1>1, <1>2, <1>8, <1>13

\* Induction from above: what holds of m, and of a number if of all greater ones.
LEMMA CountingDown ==
  ASSUME NEW m \in Nat, NEW T,
         \A p \in 1..m : (\A q \in p + 1..m : q \in T) => p \in T
  PROVE  \A p \in 1..m : p \in T
PROOF
  <1>. SUFFICES ASSUME NEW p \in 1..m, p \notin T
                PROVE  FALSE
    OBVIOUS
  <1>. DEFINE R == {k \in 1..m : k \notin T}
  <1>1. Max(R) \in R /\ \A t \in R : Max(R) >= t
    <2>1. R \in SUBSET (0..m) /\ R # {}
      OBVIOUS
    <2>. HIDE DEF R
    <2>. QED
      BY <2>1, GreatestNumber
  <1>2. PICK u \in R : \A t \in R : u >= t
    BY <1>1
  <1>3. u \in 1..m
    OBVIOUS
  <1>4. \A q \in u + 1..m : q \in T
    <2>. SUFFICES ASSUME NEW q \in u + 1..m, q \notin T PROVE FALSE
      OBVIOUS
    <2>1. q \in 1..m /\ ~(u >= q)
      BY <1>3
    <2>2. q \in R
      BY <2>1
    <2>. QED
      BY <1>2, <2>1, <2>2
  <1>. QED
    BY <1>3, <1>4

\* A recursion whose calls are all for greater arguments, jump[p] for p, and which ends at
\* the positions in ends with the value base[p].
IsRecursion(g, m, ends, base, jump, step) ==
  \A p \in 1..m : g[p] = IF p \in ends THEN base[p] ELSE step[<<p, g[jump[p]]>>]

Jumps(m, ends, jump) == \A p \in 1..m : p \notin ends => jump[p] \in p + 1..m

\* There is a function that satisfies it ...
LEMMA RecursionExists ==
  ASSUME NEW m \in Nat, NEW V, NEW ends, NEW base \in [1..m -> V], NEW jump,
         NEW step \in [(1..m) \X V -> V], Jumps(m, ends, jump)
  PROVE  \E g \in [1..m -> V] : IsRecursion(g, m, ends, base, jump, step)
PROOF
  <1>. DEFINE From(k) == \E g \in [1..m -> V] : \A p \in k..m :
                           g[p] = IF p \in ends THEN base[p] ELSE step[<<p, g[jump[p]]>>]
              T == {p \in 1..m : From(p)}
  <1>1. ASSUME NEW p \in 1..m, \A q \in p + 1..m : q \in T
        PROVE  From(p)
    <2>1. PICK g \in [1..m -> V] : \A q \in p + 1..m :
            g[q] = IF q \in ends THEN base[q] ELSE step[<<q, g[jump[q]]>>]
      <3>1. CASE p = m
        <4>1. p + 1..m = {}
          BY <3>1
        <4>. QED
          BY <4>1
      <3>2. CASE p # m
        <4>1. p + 1 \in p + 1..m
          BY <3>2
        <4>. QED
          BY <1>1, <4>1
      <3>. QED
        BY <3>1, <3>2
    <2>2. PICK v : v = IF p \in ends THEN base[p] ELSE step[<<p, g[jump[p]]>>]
      OBVIOUS
    <2>3. v \in V
      <3>1. p \notin ends => jump[p] \in 1..m
        BY DEF Jumps
      <3>. QED
        BY <2>1, <2>2, <3>1
    <2>4. PICK f : f = [g EXCEPT ![p] = v]
      OBVIOUS
    <2>5. f \in [1..m -> V] /\ f[p] = v /\ \A q \in 1..m : q # p => f[q] = g[q]
      BY <2>3, <2>4
    <2>6. ASSUME NEW q \in p..m
          PROVE  f[q] = IF q \in ends THEN base[q] ELSE step[<<q, f[jump[q]]>>]
      <3>1. q \in 1..m
        OBVIOUS
      <3>2. q \notin ends => jump[q] \in 1..m /\ jump[q] # p
        BY <3>1 DEF Jumps
      <3>3. q \notin ends => f[jump[q]] = g[jump[q]]
        BY <2>5, <3>2
      <3>4. CASE q = p
        BY <2>2, <2>5, <3>3, <3>4
      <3>5. CASE q # p
        <4>1. q \in p + 1..m
          BY <3>5
        <4>. QED
          BY <2>1, <2>5, <3>1, <3>3, <3>5, <4>1
      <3>. QED
        BY <3>4, <3>5
    <2>. QED
      BY <2>5, <2>6
  <1>2. CASE m = 0
    <2>1. 1..m = {}
      BY <1>2
    <2>. QED
      BY <2>1 DEF IsRecursion
  <1>3. CASE m # 0
    <2>1. 1 \in 1..m
      BY <1>3
    <2>2. \A p \in 1..m : (\A q \in p + 1..m : q \in T) => p \in T
      <3>. HIDE DEF From
      <3>. QED
        BY <1>1
    <2>3. \A p \in 1..m : p \in T
      <3>. HIDE DEF T
      <3>. QED
        BY <2>2, CountingDown
    <2>4. From(1)
      BY <2>1, <2>3
    <2>. QED
      BY <2>4 DEF IsRecursion
  <1>. QED
    BY <1>2, <1>3

------------------------------------------------------------------------------
(* One dice term: its suffixes, and what it has of each. *)

\* A term that eval_term can rely on.
SaneTerms ==
  {t \in TermRecord :
     /\ t.keep # None => t.keep.n \in 1..t.count
     /\ t.sides = Fate => t.reroll = None /\ ~t.explode}

TermFields(c, s, r, e, k, u) ==
  [count |-> c, sides |-> s, reroll |-> r, explode |-> e, keep |-> k, success |-> u]

\* A term that was read is the record of its six fields.
LEMMA TermHasFields ==
  ASSUME NEW t \in TermRecord
  PROVE  t = TermFields(t.count, t.sides, t.reroll, t.explode, t.keep, t.success)
PROOF
  BY DEF TermRecord, TermFields

\* What each kind of suffix carries.
LEMMA SuffixCases ==
  ASSUME NEW s \in Suffix
  PROVE  \/ s.what = "keep" /\ s.kind \in KeepKinds /\ s.n \in Numbers
         \/ s.what = "advdis" /\ s.kind \in {"kh", "kl"}
         \/ s.what = "reroll" /\ s.kind \in {"r", "ro"} /\ s.n \in Numbers
         \/ s.what = "explode"
         \/ s.what = "success" /\ s.cmp \in {">=", "<=", ">", "<"} /\ s.n \in Numbers
PROOF
  BY DEF Suffix

\* What a suffix makes of a term with these fields.
SuffixMakes(made, s, c, z, r, e, k, u) ==
  /\ s.what = "keep" =>
       made = IF k # None \/ s.n \notin 1..c THEN Refused
              ELSE TermFields(c, z, r, e, [kind |-> s.kind, n |-> s.n], u)
  /\ s.what = "advdis" =>
       made = IF c # 1 \/ k # None THEN Refused
              ELSE TermFields(2, z, r, e, [kind |-> s.kind, n |-> 1], u)
  /\ s.what = "reroll" =>
       made = IF z = Fate \/ r # None THEN Refused
              ELSE TermFields(c, z, [kind |-> s.kind, n |-> s.n], e, k, u)
  /\ s.what = "explode" =>
       made = IF z = Fate \/ e = TRUE THEN Refused ELSE TermFields(c, z, r, TRUE, k, u)
  /\ s.what = "success" =>
       made = IF u # None THEN Refused
              ELSE TermFields(c, z, r, e, k, [cmp |-> s.cmp, n |-> s.n])

\* What each suffix does to the fields of a term (apply_suffix, by cases).
LEMMA SuffixResults ==
  ASSUME NEW c, NEW z, NEW r, NEW e \in BOOLEAN, NEW k, NEW u, NEW s
  PROVE  SuffixMakes(ApplySuffix(TermFields(c, z, r, e, k, u), s), s, c, z, r, e, k, u)
PROOF
  <1>1. PICK t : t = TermFields(c, z, r, e, k, u)
    OBVIOUS
  <1>2. t.count = c /\ t.sides = z /\ t.reroll = r /\ t.explode = e /\ t.keep = k /\ t.success = u
    BY <1>1 DEF TermFields
  <1>3. /\ \A x : [t EXCEPT !.keep = x] = TermFields(c, z, r, e, x, u)
        /\ \A x : [t EXCEPT !.count = 2, !.keep = x] = TermFields(2, z, r, e, x, u)
        /\ \A x : [t EXCEPT !.reroll = x] = TermFields(c, z, x, e, k, u)
        /\ [t EXCEPT !.explode = TRUE] = TermFields(c, z, r, TRUE, k, u)
        /\ \A x : [t EXCEPT !.success = x] = TermFields(c, z, r, e, k, x)
    <2>1. ASSUME NEW x PROVE [t EXCEPT !.keep = x] = TermFields(c, z, r, e, x, u)
      BY <1>1 DEF TermFields
    <2>2. ASSUME NEW x, NEW y
          PROVE  [t EXCEPT !.count = y, !.keep = x] = TermFields(y, z, r, e, x, u)
      <3>1. PICK v : v = [t EXCEPT !.count = y]
        OBVIOUS
      <3>2. v = TermFields(y, z, r, e, k, u)
        BY <1>1, <3>1 DEF TermFields
      <3>3. [v EXCEPT !.keep = x] = TermFields(y, z, r, e, x, u)
        BY <3>2 DEF TermFields
      <3>. QED
        BY <3>1, <3>3
    <2>3. ASSUME NEW x PROVE [t EXCEPT !.reroll = x] = TermFields(c, z, x, e, k, u)
      BY <1>1 DEF TermFields
    <2>4. ASSUME NEW x PROVE [t EXCEPT !.explode = x] = TermFields(c, z, r, x, k, u)
      BY <1>1 DEF TermFields
    <2>5. ASSUME NEW x PROVE [t EXCEPT !.success = x] = TermFields(c, z, r, e, k, x)
      BY <1>1 DEF TermFields
    <2>. QED
      BY <2>1, <2>2, <2>3, <2>4, <2>5
  <1>4. CASE s.what = "keep"
    <2>1. ApplySuffix(t, s) = ApplyKeep(t, s)
      BY <1>4 DEF ApplySuffix
    <2>. QED
      BY <1>1, <1>2, <1>3, <1>4, <2>1 DEF SuffixMakes, ApplyKeep
  <1>5. CASE s.what = "advdis"
    <2>1. ApplySuffix(t, s) = ApplyAdvDis(t, s)
      BY <1>5 DEF ApplySuffix
    <2>. QED
      BY <1>1, <1>2, <1>3, <1>5, <2>1 DEF SuffixMakes, ApplyAdvDis
  <1>6. CASE s.what = "reroll"
    <2>1. ApplySuffix(t, s) = ApplyReroll(t, s)
      BY <1>6 DEF ApplySuffix
    <2>. QED
      BY <1>1, <1>2, <1>3, <1>6, <2>1 DEF SuffixMakes, ApplyReroll
  <1>7. CASE s.what = "explode"
    <2>1. ApplySuffix(t, s) = ApplyExplode(t)
      BY <1>7 DEF ApplySuffix
    <2>. QED
      BY <1>1, <1>2, <1>3, <1>7, <2>1 DEF SuffixMakes, ApplyExplode
  <1>8. CASE s.what = "success"
    <2>1. ApplySuffix(t, s) = ApplySuccess(t, s)
      BY <1>8 DEF ApplySuffix
    <2>. QED
      BY <1>1, <1>2, <1>3, <1>8, <2>1 DEF SuffixMakes, ApplySuccess
  <1>9. CASE s.what \notin {"keep", "advdis", "reroll", "explode", "success"}
    BY <1>9 DEF SuffixMakes
  <1>. QED
    BY <1>4, <1>5, <1>6, <1>7, <1>8, <1>9

\* A term by its four slots, each for the suffixes of one sort: count and keep, reroll,
\* explode, success.
Filled(z, f) == TermFields(f[1].count, z, f[2], f[3] = 1, f[1].keep, f[4])

IsFilled(z, f) ==
  /\ f = [j \in 1..4 |-> f[j]]
  /\ z \in (2..MaxSides) \cup {Fate}
  /\ f[1] \in [count : 1..MaxDice, keep : KeepSuffix \cup {None}]
  /\ f[1].keep # None => f[1].keep.n \in 1..f[1].count
  /\ f[2] \in RerollSuffix \cup {None}
  /\ f[3] \in {0, 1}
  /\ f[4] \in SuccessSuffix \cup {None}
  /\ z = Fate => f[2] = None /\ f[3] = 0

\* Every sane term is a choice of what is in its four slots, and the other way
\* round (FilledIsSane).
LEMMA SaneIsFilled ==
  ASSUME NEW t \in SaneTerms
  PROVE  \E z, f : IsFilled(z, f) /\ t = Filled(z, f)
PROOF
  <1>1. PICK x : x = [count |-> t.count, keep |-> t.keep]
    OBVIOUS
  <1>2. PICK y \in {0, 1} : t.explode <=> y = 1
    <2>1. t.explode \in BOOLEAN
      BY DEF SaneTerms, TermRecord
    <2>. QED
      BY <2>1
  <1>3. PICK f : f = [j \in 1..4 |->
                        IF j = 1 THEN x
                        ELSE IF j = 2 THEN t.reroll
                        ELSE IF j = 3 THEN y ELSE t.success]
    OBVIOUS
  <1>4. f[1] = x /\ f[2] = t.reroll /\ f[3] = y /\ f[4] = t.success
    BY <1>3
  <1>5. x.count = t.count /\ x.keep = t.keep
    BY <1>1
  <1>6. IsFilled(t.sides, f)
    <2>1. f = [j \in 1..4 |-> f[j]]
      BY <1>3
    <2>2. f[1] \in [count : 1..MaxDice, keep : KeepSuffix \cup {None}]
      BY <1>1, <1>4 DEF SaneTerms, TermRecord
    <2>. QED
      BY <1>2, <1>4, <1>5, <2>1, <2>2 DEF IsFilled, SaneTerms, TermRecord
  <1>7. t = Filled(t.sides, f)
    <2>1. t = TermFields(t.count, t.sides, t.reroll, t.explode, t.keep, t.success)
      BY TermHasFields DEF SaneTerms
    <2>2. t.explode = (f[3] = 1)
      <3>1. t.explode \in BOOLEAN
        BY DEF SaneTerms, TermRecord
      <3>. QED
        BY <1>2, <1>4, <3>1
    <2>3. Filled(t.sides, f) = TermFields(t.count, t.sides, t.reroll, f[3] = 1, t.keep, t.success)
      BY <1>4, <1>5 DEF Filled
    <2>. QED
      BY <2>1, <2>2, <2>3, Zenon
  <1>. QED
    BY <1>6, <1>7

\* The six fields of a sane term.
LEMMA FieldsAreSane ==
  ASSUME NEW c \in 1..MaxDice, NEW z \in (2..MaxSides) \cup {Fate},
         NEW r \in RerollSuffix \cup {None}, NEW e \in BOOLEAN,
         NEW k \in KeepSuffix \cup {None}, NEW u \in SuccessSuffix \cup {None},
         k # None => k.n \in 1..c, z = Fate => r = None /\ ~e
  PROVE  TermFields(c, z, r, e, k, u) \in SaneTerms
PROOF
  <1>1. PICK t : t = TermFields(c, z, r, e, k, u)
    OBVIOUS
  <1>2. /\ t.count = c /\ t.sides = z /\ t.reroll = r
        /\ t.explode = e /\ t.keep = k /\ t.success = u
    BY <1>1 DEF TermFields
  <1>3. t \in TermRecord
    BY <1>1 DEF TermFields, TermRecord
  <1>4. t \in SaneTerms
    BY <1>2, <1>3 DEF SaneTerms
  <1>. QED
    BY <1>1, <1>4

LEMMA FilledIsSane ==
  ASSUME NEW z, NEW f, IsFilled(z, f)
  PROVE  Filled(z, f) \in SaneTerms /\ Filled(z, f) # Refused
PROOF
  <1>1. PICK c, r, k, u : c = f[1].count /\ r = f[2] /\ k = f[1].keep /\ u = f[4]
    OBVIOUS
  <1>2. PICK e \in BOOLEAN : e = (f[3] = 1)
    OBVIOUS
  <1>3. TermFields(c, z, r, e, k, u) \in SaneTerms
    <2>1. c \in 1..MaxDice /\ k \in KeepSuffix \cup {None} /\ (k # None => k.n \in 1..c)
      BY <1>1 DEF IsFilled
    <2>2. /\ r \in RerollSuffix \cup {None}
          /\ u \in SuccessSuffix \cup {None}
          /\ z \in (2..MaxSides) \cup {Fate}
          /\ z = Fate => r = None /\ ~e
      <3>1. z = Fate => ~(f[3] = 1)
        BY DEF IsFilled
      <3>2. z = Fate => ~e
        BY <1>2, <3>1, Zenon
      <3>. QED
        BY <1>1, <3>2 DEF IsFilled
    <2>. QED
      BY <2>1, <2>2, FieldsAreSane
  <1>4. Filled(z, f) = TermFields(c, z, r, e, k, u)
    BY <1>1, <1>2, Zenon DEF Filled
  <1>. QED
    BY <1>3, <1>4, OutcomeAssumption DEF SaneTerms

\* The slot j has been used.
Full(j, x) == IF j = 1 THEN x.keep # None ELSE IF j = 3 THEN x = 1 ELSE x # None

Put(f, j, x) == [f EXCEPT ![j] = x]

\* A suffix fills one slot, if that is not full and the suffix fits, and looks at no other.
FillsSlot(s, z, j, takes, new) ==
  /\ j \in 1..4
  /\ \A x \in takes : ~Full(j, x) /\ Full(j, new[x])
  /\ \A f : IsFilled(z, f) =>
       /\ f[j] \in takes => /\ IsFilled(z, Put(f, j, new[f[j]]))
                            /\ Read(Filled(z, f), s) = Filled(z, Put(f, j, new[f[j]]))
       /\ f[j] \notin takes => Read(Filled(z, f), s) = Refused

\* The same of a term given by its slots.
LEMMA ReadIs ==
  ASSUME NEW z, NEW f, IsFilled(z, f), NEW s
  PROVE  SuffixMakes(Read(Filled(z, f), s), s, f[1].count, z, f[2], f[3] = 1, f[1].keep, f[4])
PROOF
  <1>1. Read(Filled(z, f), s) = ApplySuffix(Filled(z, f), s)
    BY FilledIsSane DEF Read
  <1>2. PICK e \in BOOLEAN : e = (f[3] = 1)
    OBVIOUS
  <1>3. \A c, r, k, u :
          SuffixMakes(ApplySuffix(TermFields(c, z, r, e, k, u), s), s, c, z, r, e, k, u)
    BY SuffixResults
  <1>4. Filled(z, f) = TermFields(f[1].count, z, f[2], e, f[1].keep, f[4])
    BY <1>2, Zenon DEF Filled
  <1>5. SuffixMakes(Read(Filled(z, f), s), s, f[1].count, z, f[2], e, f[1].keep, f[4])
    BY <1>1, <1>3, <1>4
  <1>. QED
    BY <1>2, <1>5, Zenon

\* Putting something into a slot.
LEMMA PutFills ==
  ASSUME NEW z, NEW f, IsFilled(z, f), NEW j \in 1..4, NEW x
  PROVE  /\ Put(f, j, x)[j] = x
         /\ \A i \in 1..4 : i # j => Put(f, j, x)[i] = f[i]
         /\ Put(f, j, x) = [i \in 1..4 |-> Put(f, j, x)[i]]
PROOF
  BY DEF IsFilled, Put

\* One lemma for each kind of suffix: the slot it fills, and what it asks of it.
LEMMA KeepSlot ==
  ASSUME NEW s \in Suffix, NEW z, s.what \in {"keep", "advdis"}
  PROVE  \E takes, new : FillsSlot(s, z, 1, takes, new)
PROOF
  <1>1. PICK n : n = (IF s.what = "keep" THEN s.n ELSE 1)
    OBVIOUS
  <1>2. PICK q : q = [kind |-> s.kind, n |-> n]
    OBVIOUS
  <1>3. q \in KeepSuffix /\ q.n = n /\ q # None
    <2>1. s.kind \in KeepKinds
      BY SuffixCases DEF KeepKinds
    <2>2. n \in Numbers
      BY <1>1, SuffixCases, TermAssumption
    <2>. QED
      BY <1>2, <2>1, <2>2, OutcomeAssumption DEF KeepSuffix
  <1>4. PICK takes : takes = {x \in [count : 1..MaxDice, keep : {None}] :
                                IF s.what = "keep" THEN s.n \in 1..x.count ELSE x.count = 1}
    OBVIOUS
  <1>5. PICK new : new = [x \in takes |->
                            [count |-> IF s.what = "keep" THEN x.count ELSE 2, keep |-> q]]
    OBVIOUS
  <1>6. \A x \in takes : /\ x.keep = None
                         /\ new[x].count = IF s.what = "keep" THEN x.count ELSE 2
                         /\ new[x].keep = q
                         /\ new[x] \in [count : 1..MaxDice, keep : KeepSuffix \cup {None}]
                         /\ n \in 1..new[x].count
    BY <1>1, <1>3, <1>4, <1>5, TermAssumption
  <1>7. \A x \in [count : 1..MaxDice, keep : KeepSuffix \cup {None}] :
          x \in takes <=> /\ x.keep = None
                          /\ IF s.what = "keep" THEN s.n \in 1..x.count ELSE x.count = 1
    BY <1>4
  <1>8. ASSUME NEW f, IsFilled(z, f), f[1] \in takes
        PROVE  /\ IsFilled(z, Put(f, 1, new[f[1]]))
               /\ Read(Filled(z, f), s) = Filled(z, Put(f, 1, new[f[1]]))
    <2>1. PICK g : g = Put(f, 1, new[f[1]])
      OBVIOUS
    <2>2. /\ g[1] = new[f[1]] /\ g[2] = f[2] /\ g[3] = f[3] /\ g[4] = f[4]
          /\ g = [i \in 1..4 |-> g[i]]
      BY <1>8, <2>1, PutFills
    <2>3. IsFilled(z, g)
      BY <1>3, <1>6, <1>8, <2>2 DEF IsFilled
    <2>4. PICK e \in BOOLEAN : e = (f[3] = 1)
      OBVIOUS
    <2>5. Filled(z, g) = TermFields(g[1].count, z, f[2], e, q, f[4])
      <3>1. g[1].keep = q
        BY <1>6, <1>8, <2>2
      <3>. QED
        BY <2>2, <2>4, <3>1, Zenon DEF Filled
    <2>6. SuffixMakes(Read(Filled(z, f), s), s, f[1].count, z, f[2], e, f[1].keep, f[4])
      BY <1>8, <2>4, ReadIs, Zenon
    <2>7. Read(Filled(z, f), s) = TermFields(g[1].count, z, f[2], e, q, f[4])
      <3>1. CASE s.what = "keep"
        <4>1. f[1].keep = None /\ s.n \in 1..f[1].count /\ g[1].count = f[1].count
          BY <1>4, <1>6, <1>8, <2>2, <3>1
        <4>2. q = [kind |-> s.kind, n |-> s.n]
          BY <1>1, <1>2, <3>1
        <4>. QED
          BY <2>6, <3>1, <4>1, <4>2 DEF SuffixMakes
      <3>2. CASE s.what = "advdis"
        <4>1. f[1].keep = None /\ f[1].count = 1 /\ g[1].count = 2
          BY <1>4, <1>6, <1>8, <2>2, <3>2
        <4>2. q = [kind |-> s.kind, n |-> 1]
          BY <1>1, <1>2, <3>2
        <4>. QED
          BY <2>6, <3>2, <4>1, <4>2 DEF SuffixMakes
      <3>. QED
        BY <3>1, <3>2
    <2>. QED
      BY <2>1, <2>3, <2>5, <2>7
  <1>9. ASSUME NEW f, IsFilled(z, f), f[1] \notin takes
        PROVE  Read(Filled(z, f), s) = Refused
    <2>1. PICK e \in BOOLEAN : e = (f[3] = 1)
      OBVIOUS
    <2>2. SuffixMakes(Read(Filled(z, f), s), s, f[1].count, z, f[2], e, f[1].keep, f[4])
      BY <1>9, <2>1, ReadIs, Zenon
    <2>3. f[1].keep # None
          \/ ~(IF s.what = "keep" THEN s.n \in 1..f[1].count ELSE f[1].count = 1)
      BY <1>7, <1>9 DEF IsFilled
    <2>. QED
      BY <2>2, <2>3 DEF SuffixMakes
  <1>10. \A x \in takes : ~Full(1, x) /\ Full(1, new[x])
    BY <1>3, <1>6 DEF Full
  <1>. QED
    BY <1>8, <1>9, <1>10 DEF FillsSlot

LEMMA RerollSlot ==
  ASSUME NEW s \in Suffix, NEW z, s.what = "reroll"
  PROVE  \E takes, new : FillsSlot(s, z, 2, takes, new)
PROOF
  <1>1. PICK q : q = [kind |-> s.kind, n |-> s.n]
    OBVIOUS
  <1>2. q \in RerollSuffix /\ q # None
    BY <1>1, SuffixCases, OutcomeAssumption DEF RerollSuffix
  <1>3. PICK takes : takes = {x \in {None} : (z # Fate)}
    OBVIOUS
  <1>4. PICK new : new = [x \in takes |-> q]
    OBVIOUS
  <1>5. \A x \in takes : x = None /\ (z # Fate) /\ new[x] = q
    BY <1>3, <1>4
  <1>6. ASSUME NEW f, IsFilled(z, f), f[2] \in takes
        PROVE  /\ IsFilled(z, Put(f, 2, new[f[2]]))
               /\ Read(Filled(z, f), s) = Filled(z, Put(f, 2, new[f[2]]))
    <2>1. PICK g : g = Put(f, 2, q)
      OBVIOUS
    <2>2. /\ g[1] = f[1] /\ g[2] = q /\ g[3] = f[3] /\ g[4] = f[4]
          /\ g = [i \in 1..4 |-> g[i]]
      BY <1>6, <2>1, PutFills
    <2>3. IsFilled(z, g)
      BY <1>2, <1>5, <1>6, <2>2 DEF IsFilled
    <2>4. PICK e \in BOOLEAN : e = (f[3] = 1)
      OBVIOUS
    <2>5. SuffixMakes(Read(Filled(z, f), s), s, f[1].count, z, f[2], e, f[1].keep, f[4])
      BY <1>6, <2>4, ReadIs, Zenon
    <2>6. Filled(z, g) = TermFields(f[1].count, z, q, e, f[1].keep, f[4])
      BY <2>2, <2>4, Zenon DEF Filled
    <2>7. (z # Fate) /\ f[2] = None
      BY <1>5, <1>6
    <2>8. Read(Filled(z, f), s) = TermFields(f[1].count, z, q, e, f[1].keep, f[4])
      BY <1>1, <2>5, <2>7 DEF SuffixMakes
    <2>. QED
      BY <1>5, <1>6, <2>1, <2>3, <2>6, <2>8
  <1>7. ASSUME NEW f, IsFilled(z, f), f[2] \notin takes
        PROVE  Read(Filled(z, f), s) = Refused
    <2>1. PICK e \in BOOLEAN : e = (f[3] = 1)
      OBVIOUS
    <2>2. SuffixMakes(Read(Filled(z, f), s), s, f[1].count, z, f[2], e, f[1].keep, f[4])
      BY <1>7, <2>1, ReadIs, Zenon
    <2>3. ~(z # Fate) \/ f[2] # None
      BY <1>3, <1>7
    <2>. QED
      BY <2>2, <2>3 DEF SuffixMakes
  <1>8. \A x \in takes : ~Full(2, x) /\ Full(2, new[x])
    BY <1>2, <1>5 DEF Full
  <1>. QED
    BY <1>6, <1>7, <1>8 DEF FillsSlot

LEMMA SuccessSlot ==
  ASSUME NEW s \in Suffix, NEW z, s.what = "success"
  PROVE  \E takes, new : FillsSlot(s, z, 4, takes, new)
PROOF
  <1>1. PICK q : q = [cmp |-> s.cmp, n |-> s.n]
    OBVIOUS
  <1>2. q \in SuccessSuffix /\ q # None
    BY <1>1, SuffixCases, OutcomeAssumption DEF SuccessSuffix
  <1>3. PICK takes : takes = {x \in {None} : TRUE}
    OBVIOUS
  <1>4. PICK new : new = [x \in takes |-> q]
    OBVIOUS
  <1>5. \A x \in takes : x = None /\ TRUE /\ new[x] = q
    BY <1>3, <1>4
  <1>6. ASSUME NEW f, IsFilled(z, f), f[4] \in takes
        PROVE  /\ IsFilled(z, Put(f, 4, new[f[4]]))
               /\ Read(Filled(z, f), s) = Filled(z, Put(f, 4, new[f[4]]))
    <2>1. PICK g : g = Put(f, 4, q)
      OBVIOUS
    <2>2. /\ g[1] = f[1] /\ g[2] = f[2] /\ g[3] = f[3] /\ g[4] = q
          /\ g = [i \in 1..4 |-> g[i]]
      BY <1>6, <2>1, PutFills
    <2>3. IsFilled(z, g)
      BY <1>2, <1>5, <1>6, <2>2 DEF IsFilled
    <2>4. PICK e \in BOOLEAN : e = (f[3] = 1)
      OBVIOUS
    <2>5. SuffixMakes(Read(Filled(z, f), s), s, f[1].count, z, f[2], e, f[1].keep, f[4])
      BY <1>6, <2>4, ReadIs, Zenon
    <2>6. Filled(z, g) = TermFields(f[1].count, z, f[2], e, f[1].keep, q)
      BY <2>2, <2>4, Zenon DEF Filled
    <2>7. TRUE /\ f[4] = None
      BY <1>5, <1>6
    <2>8. Read(Filled(z, f), s) = TermFields(f[1].count, z, f[2], e, f[1].keep, q)
      BY <1>1, <2>5, <2>7 DEF SuffixMakes
    <2>. QED
      BY <1>5, <1>6, <2>1, <2>3, <2>6, <2>8
  <1>7. ASSUME NEW f, IsFilled(z, f), f[4] \notin takes
        PROVE  Read(Filled(z, f), s) = Refused
    <2>1. PICK e \in BOOLEAN : e = (f[3] = 1)
      OBVIOUS
    <2>2. SuffixMakes(Read(Filled(z, f), s), s, f[1].count, z, f[2], e, f[1].keep, f[4])
      BY <1>7, <2>1, ReadIs, Zenon
    <2>3. ~TRUE \/ f[4] # None
      BY <1>3, <1>7
    <2>. QED
      BY <2>2, <2>3 DEF SuffixMakes
  <1>8. \A x \in takes : ~Full(4, x) /\ Full(4, new[x])
    BY <1>2, <1>5 DEF Full
  <1>. QED
    BY <1>6, <1>7, <1>8 DEF FillsSlot

LEMMA ExplodeSlot ==
  ASSUME NEW s \in Suffix, NEW z, s.what = "explode"
  PROVE  \E takes, new : FillsSlot(s, z, 3, takes, new)
PROOF
  <1>1. PICK takes : takes = {x \in {0} : z # Fate}
    OBVIOUS
  <1>2. PICK new : new = [x \in takes |-> 1]
    OBVIOUS
  <1>3. \A x \in takes : x = 0 /\ z # Fate /\ new[x] = 1
    BY <1>1, <1>2
  <1>4. ASSUME NEW f, IsFilled(z, f), f[3] \in takes
        PROVE  /\ IsFilled(z, Put(f, 3, new[f[3]]))
               /\ Read(Filled(z, f), s) = Filled(z, Put(f, 3, new[f[3]]))
    <2>1. PICK g : g = Put(f, 3, 1)
      OBVIOUS
    <2>2. /\ g[1] = f[1] /\ g[2] = f[2] /\ g[3] = 1 /\ g[4] = f[4]
          /\ g = [i \in 1..4 |-> g[i]]
      BY <1>4, <2>1, PutFills
    <2>3. IsFilled(z, g)
      BY <1>3, <1>4, <2>2 DEF IsFilled
    <2>4. SuffixMakes(Read(Filled(z, f), s), s, f[1].count, z, f[2], f[3] = 1, f[1].keep, f[4])
      BY <1>4, ReadIs
    <2>5. Filled(z, g) = TermFields(f[1].count, z, f[2], TRUE, f[1].keep, f[4])
      BY <2>2, Zenon DEF Filled
    <2>6. z # Fate /\ ~(f[3] = 1)
      BY <1>3, <1>4
    <2>7. Read(Filled(z, f), s) = TermFields(f[1].count, z, f[2], TRUE, f[1].keep, f[4])
      <3>1. PICK e \in BOOLEAN : e = (f[3] = 1)
        OBVIOUS
      <3>2. SuffixMakes(Read(Filled(z, f), s), s, f[1].count, z, f[2], e, f[1].keep, f[4])
        BY <2>4, <3>1, Zenon
      <3>3. e # TRUE
        BY <2>6, <3>1
      <3>. QED
        BY <2>6, <3>2, <3>3 DEF SuffixMakes
    <2>. QED
      BY <1>3, <1>4, <2>1, <2>3, <2>5, <2>7
  <1>5. ASSUME NEW f, IsFilled(z, f), f[3] \notin takes
        PROVE  Read(Filled(z, f), s) = Refused
    <2>1. PICK e \in BOOLEAN : e = (f[3] = 1)
      OBVIOUS
    <2>2. SuffixMakes(Read(Filled(z, f), s), s, f[1].count, z, f[2], e, f[1].keep, f[4])
      BY <1>5, <2>1, ReadIs, Zenon
    <2>3. z = Fate \/ e = TRUE
      <3>1. f[3] = 0 => z = Fate
        BY <1>1, <1>5
      <3>2. f[3] \in {0, 1}
        BY <1>5 DEF IsFilled
      <3>. QED
        BY <2>1, <3>1, <3>2
    <2>. QED
      BY <2>2, <2>3 DEF SuffixMakes
  <1>6. \A x \in takes : ~Full(3, x) /\ Full(3, new[x])
    BY <1>3 DEF Full
  <1>. QED
    BY <1>4, <1>5, <1>6 DEF FillsSlot

\* Every suffix fills one slot.
LEMMA SlotOf ==
  ASSUME NEW s \in Suffix, NEW z
  PROVE  \E j, takes, new : FillsSlot(s, z, j, takes, new)
PROOF
  <1>1. s.what \in {"keep", "advdis", "reroll", "explode", "success"}
    BY SuffixCases
  <1>. QED
    BY <1>1, KeepSlot, RerollSlot, ExplodeSlot, SuccessSlot

\* What reading a term may come to.
TermOutcomes == SaneTerms \cup {Refused}

\* A suffix leaves a sane term sane, or refuses it.
LEMMA ReadKeepsSane ==
  ASSUME NEW t \in TermOutcomes, NEW s \in Suffix
  PROVE  Read(t, s) \in TermOutcomes
PROOF
  <1>1. CASE t = Refused
    BY <1>1 DEF Read, TermOutcomes
  <1>2. CASE t # Refused
    <2>1. PICK z, f : IsFilled(z, f) /\ t = Filled(z, f)
      BY <1>2, SaneIsFilled DEF TermOutcomes
    <2>2. PICK j, takes, new : FillsSlot(s, z, j, takes, new)
      BY SlotOf
    <2>3. PICK g : g = Put(f, j, new[f[j]])
      OBVIOUS
    <2>4. Read(t, s) = Refused \/ (IsFilled(z, g) /\ Read(t, s) = Filled(z, g))
      BY <2>1, <2>2, <2>3 DEF FillsSlot
    <2>. QED
      BY <2>4, FilledIsSane DEF TermOutcomes
  <1>. QED
    BY <1>1, <1>2

\* Two suffixes fill different slots, in either order, or the second is refused.
LEMMA SuffixesCommute ==
  ASSUME NEW t \in TermOutcomes, NEW a \in Suffix, NEW b \in Suffix
  PROVE  Read(Read(t, a), b) = Read(Read(t, b), a)
PROOF
  <1>1. \A s : Read(Refused, s) = Refused
    BY DEF Read
  <1>2. CASE t = Refused
    BY <1>1, <1>2
  <1>3. CASE t # Refused
    <2>1. t \in SaneTerms
      BY <1>3 DEF TermOutcomes
    <2>2. PICK z, f : IsFilled(z, f) /\ t = Filled(z, f)
      BY <2>1, SaneIsFilled
    <2>3. PICK i, A, na : FillsSlot(a, z, i, A, na)
      BY SlotOf
    <2>4. PICK j, B, nb : FillsSlot(b, z, j, B, nb)
      BY SlotOf
    <2>5. i \in 1..4 /\ j \in 1..4
      BY <2>3, <2>4 DEF FillsSlot
    <2>6. PICK fa, fb : fa = Put(f, i, na[f[i]]) /\ fb = Put(f, j, nb[f[j]])
      OBVIOUS
    <2>7. /\ f[i] \in A => IsFilled(z, fa) /\ Read(t, a) = Filled(z, fa)
          /\ f[i] \notin A => Read(t, a) = Refused
      BY <2>2, <2>3, <2>6 DEF FillsSlot
    <2>8. /\ f[j] \in B => IsFilled(z, fb) /\ Read(t, b) = Filled(z, fb)
          /\ f[j] \notin B => Read(t, b) = Refused
      BY <2>2, <2>4, <2>6 DEF FillsSlot
    <2>9. /\ fa[i] = na[f[i]] /\ \A k \in 1..4 : k # i => fa[k] = f[k]
          /\ fb[j] = nb[f[j]] /\ \A k \in 1..4 : k # j => fb[k] = f[k]
      BY <2>2, <2>5, <2>6, PutFills
    <2>10. CASE i = j
      <3>1. f[i] \in A => Full(i, fa[i]) /\ fa[i] \notin B
        BY <2>3, <2>4, <2>9, <2>10 DEF FillsSlot
      <3>2. f[j] \in B => Full(j, fb[j]) /\ fb[j] \notin A
        BY <2>3, <2>4, <2>9, <2>10 DEF FillsSlot
      <3>3. f[i] \in A => Read(Filled(z, fa), b) = Refused
        BY <2>4, <2>7, <2>10, <3>1 DEF FillsSlot
      <3>4. f[j] \in B => Read(Filled(z, fb), a) = Refused
        BY <2>3, <2>8, <2>10, <3>2 DEF FillsSlot
      <3>. QED
        BY <1>1, <2>7, <2>8, <3>3, <3>4
    <2>11. CASE i # j
      <3>1. fa[j] = f[j] /\ fb[i] = f[i]
        BY <2>5, <2>9, <2>11
      <3>2. f[i] \in A =>
              /\ f[j] \in B => Read(Filled(z, fa), b) = Filled(z, Put(fa, j, nb[f[j]]))
              /\ f[j] \notin B => Read(Filled(z, fa), b) = Refused
        BY <2>4, <2>7, <3>1 DEF FillsSlot
      <3>3. f[j] \in B =>
              /\ f[i] \in A => Read(Filled(z, fb), a) = Filled(z, Put(fb, i, na[f[i]]))
              /\ f[i] \notin A => Read(Filled(z, fb), a) = Refused
        BY <2>3, <2>8, <3>1 DEF FillsSlot
      <3>4. Put(fa, j, nb[f[j]]) = Put(fb, i, na[f[i]])
        <4>1. \A x, y : Put(Put(f, i, x), j, y) = Put(Put(f, j, y), i, x)
          BY <2>2, <2>5, <2>11 DEF IsFilled, Put
        <4>. QED
          BY <2>6, <4>1
      <3>. QED
        BY <1>1, <2>7, <2>8, <3>2, <3>3, <3>4
    <2>. QED
      BY <2>10, <2>11
  <1>. QED
    BY <1>2, <1>3

\* A head is refused or makes a sane term.
LEMMA BareIsSane ==
  ASSUME NEW h
  PROVE  Bare(h) \in TermOutcomes
PROOF
  <1>. SUFFICES ASSUME h.count \in 1..MaxDice, h.sides \in (2..MaxSides) \cup {Fate}
                PROVE  Bare(h) \in SaneTerms
    BY DEF Bare, TermOutcomes
  <1>1. Bare(h) = [count |-> h.count, sides |-> h.sides, reroll |-> None, explode |-> FALSE,
                   keep |-> None, success |-> None]
    BY DEF Bare
  <1>. QED
    BY <1>1 DEF SaneTerms, TermRecord

------------------------------------------------------------------------------
(* Reading a term. *)

\* The suffixes are read one by one.
LEMMA ParsedUnfolds ==
  ASSUME NEW q, NEW n \in Nat, DOMAIN q = 1..n,
         \A i \in 1..n : q[i] \in Suffix, NEW head
  PROVE  \E p \in [0..n -> TermOutcomes] :
           /\ p[0] = Bare(head)
           /\ \A k \in 1..n : p[k] = Read(p[k - 1], q[k])
           /\ p[n] = Parsed(head, q)
PROOF
  <1>. DEFINE step == [x \in (1..n) \X TermOutcomes |-> Read(x[2], q[x[1]])]
              Iterates(h) == h = [s \in SUBSET (1..n) |->
                 IF s = {} THEN Bare(head) ELSE Read(h[s \ {Max(s)}], q[Max(s)])]
              h == CHOOSE h : Iterates(h)
  <1>1. PICK V, base : V = TermOutcomes /\ base = Bare(head)
    OBVIOUS
  <1>2. base \in V /\ step \in [(1..n) \X V -> V]
    BY <1>1, ReadKeepsSane, BareIsSane
  <1>3. \A k \in 1..n, v \in V : step[<<k, v>>] = Read(v, q[k])
    BY <1>1
  <1>4. Parsed(head, q) = h[1..n]
    BY DEF Parsed, FoldLeft, MapThenFoldSet
  <1>. HIDE DEF step
  <1>5. PICK g \in [SUBSET (1..n) -> V] : IsFold(g, n, V, base, step)
    BY <1>2, FoldExists
  <1>6. Iterates(g)
    <2>1. \A s \in SUBSET (1..n) :
            s # {} => g[s] = Read(g[s \ {Max(s)}], q[Max(s)])
      BY <1>3, <1>5 DEF IsFold
    <2>2. g[{}] = Bare(head) /\ g = [s \in SUBSET (1..n) |-> g[s]]
      BY <1>1, <1>5 DEF IsFold
    <2>. QED
      BY <2>1, <2>2
  <1>7. Iterates(h)
    <2>. HIDE DEF Iterates
    <2>. QED
      BY <1>6
  <1>. HIDE DEF h
  <1>8. /\ h[{}] = base
        /\ \A s \in SUBSET (1..n) :
             s # {} => h[s] = Read(h[s \ {Max(s)}], q[Max(s)])
    BY <1>1, <1>7
  <1>9. \A s \in SUBSET (1..n) :
          s # {} /\ h[s \ {Max(s)}] \in V => h[s] = step[<<Max(s), h[s \ {Max(s)}]>>]
    <2>1. \A s \in SUBSET (1..n) : s # {} => Max(s) \in 1..n
      BY <1>5 DEF IsFold
    <2>. QED
      BY <1>3, <1>8, <2>1
  <1>10. PICK p \in [0..n -> V] : IsChain(p, n, base, step, h[1..n])
    <2>1. FoldsWithin(h, n, V, base, step)
      BY <1>8, <1>9 DEF FoldsWithin
    <2>. QED
      BY <1>2, <2>1, FoldIsChain
  <1>11. \A k \in 1..n : p[k] = Read(p[k - 1], q[k])
    <2>. TAKE k \in 1..n
    <2>1. p[k - 1] \in V /\ p[k] = step[<<k, p[k - 1]>>]
      BY <1>10 DEF IsChain
    <2>. QED
      BY <1>3, <2>1
  <1>. QED
    BY <1>1, <1>4, <1>10, <1>11 DEF IsChain

\* The least number of a set is one of its members.
LEMMA LeastNumber ==
  ASSUME NEW T \in SUBSET Nat, T # {}
  PROVE  Min(T) \in T /\ \A t \in T : Min(T) <= t
PROOF
  <1>1. PICK u \in T : \A t \in T : u <= t
    BY FirstNumber
  <1>. QED
    BY <1>1 DEF Min

\* The blanks end inside the input or just behind it.
LEMMA BlanksEnd ==
  ASSUME NEW in \in Seq(Token), NEW p \in 1..Len(in) + 1
  PROVE  AfterBlanks(in, p) \in p..Len(in) + 1
PROOF
  <1>. DEFINE T == {q \in p..Len(in) + 1 : TokenAt(in, q) # " "}
  <1>1. Len(in) \in Nat /\ DOMAIN in = 1..Len(in)
    BY LenProperties
  <1>2. Len(in) + 1 \in T
    <2>1. Len(in) + 1 \in p..Len(in) + 1 /\ Len(in) + 1 \notin DOMAIN in
      BY <1>1
    <2>2. TokenAt(in, Len(in) + 1) = "end"
      BY <2>1 DEF TokenAt
    <2>. QED
      BY <2>1, <2>2, Zenon
  <1>3. T \in SUBSET Nat /\ T \subseteq p..Len(in) + 1
    <2>1. p..Len(in) + 1 \subseteq Nat
      BY <1>1
    <2>. QED
      BY <2>1, Zenon
  <1>4. AfterBlanks(in, p) = Min(T)
    BY Zenon DEF AfterBlanks
  <1>. HIDE DEF T
  <1>. QED
    BY <1>2, <1>3, <1>4, LeastNumber

\* Where the suffixes end, there is none; up to there, there are only suffixes.
LEMMA SuffixesEnd ==
  ASSUME NEW in \in Seq(Token), NEW p \in 1..Len(in) + 1
  PROVE  /\ EndOfSuffixes(in, p) \in p..Len(in) + 1
         /\ \A i \in p..EndOfSuffixes(in, p) - 1 : i \in DOMAIN in /\ in[i] \in Suffix
         /\ ~(EndOfSuffixes(in, p) \in DOMAIN in /\ in[EndOfSuffixes(in, p)] \in Suffix)
PROOF
  <1>. DEFINE T == {q \in p..Len(in) + 1 : q \notin DOMAIN in \/ in[q] \notin Suffix}
  <1>1. Len(in) \in Nat /\ DOMAIN in = 1..Len(in)
    BY LenProperties
  <1>2. Len(in) + 1 \in T
    BY <1>1
  <1>3. T \in SUBSET Nat /\ T \subseteq p..Len(in) + 1
    BY <1>1
  <1>4. EndOfSuffixes(in, p) = Min(T)
    BY DEF EndOfSuffixes
  <1>5. Min(T) \in T /\ \A t \in T : Min(T) <= t
    <2>. HIDE DEF T
    <2>. QED
      BY <1>2, <1>3, LeastNumber
  <1>6. PICK e : e = EndOfSuffixes(in, p)
    OBVIOUS
  <1>7. e \in T /\ \A t \in T : e <= t
    BY <1>4, <1>5, <1>6
  <1>8. \A i \in p..e - 1 : i \in p..Len(in) + 1 /\ ~(e <= i)
    BY <1>1, <1>3, <1>7
  <1>. QED
    BY <1>6, <1>7, <1>8

\* What a parser returns that reads one of the items and stops between two positions.
Reads(items, from, to) == {Refused} \cup [read : items, at : from..to]

\* What may be read as a term.
Terms == SaneTerms \cup [const : Nat]

\* A token is a suffix, a number or a character.
LEMMA TokenCases ==
  ASSUME NEW x \in Token
  PROVE  x \in Suffix \/ (x.what = "number" /\ x.n \in Nat) \/ x.what \notin {"number"}
PROOF
  BY DEF Token

\* A head and any number of suffixes make a sane term, or none.
LEMMA ParsedIsSane ==
  ASSUME NEW q, NEW n \in Nat, DOMAIN q = 1..n, \A i \in 1..n : q[i] \in Suffix, NEW head
  PROVE  Parsed(head, q) \in TermOutcomes
PROOF
  BY ParsedUnfolds

\* What stands between two positions.
LEMMA Cut ==
  ASSUME NEW S, NEW q \in Seq(S), NEW a \in Nat \ {0}, NEW b \in Nat, b <= Len(q), a <= b + 1
  PROVE  /\ DOMAIN SubSeq(q, a, b) = 1..b + 1 - a
         /\ SubSeq(q, a, b) \in Seq(S)
         /\ Len(SubSeq(q, a, b)) = b + 1 - a
         /\ \A i \in 1..b + 1 - a : SubSeq(q, a, b)[i] = q[a + i - 1]
PROOF
  <1>1. Len(q) \in Nat /\ \A i \in a..b : q[i] \in S
    BY LenProperties, ElementOfSeq
  <1>2. /\ SubSeq(q, a, b) \in Seq(S)
        /\ Len(SubSeq(q, a, b)) = IF a <= b THEN b - a + 1 ELSE 0
        /\ \A i \in 1..b - a + 1 : SubSeq(q, a, b)[i] = q[a + i - 1]
    BY <1>1, SubSeqProperties
  <1>3. PICK r : r = SubSeq(q, a, b)
    OBVIOUS
  <1>4. r \in Seq(S) /\ Len(r) = b + 1 - a
    BY <1>2, <1>3
  <1>5. DOMAIN r = 1..Len(r)
    BY <1>4, LenProperties
  <1>. QED
    BY <1>2, <1>3, <1>4, <1>5

\* Sides are read where a token stands.
LEMMA SidesAreWritten ==
  ASSUME NEW in, NEW p
  PROVE  SidesAt(in, p) = None \/ p \in DOMAIN in
PROOF
  <1>. SUFFICES ASSUME p \notin DOMAIN in
                PROVE  SidesAt(in, p) = None
    OBVIOUS
  <1>1. TokenAt(in, p) = "end"
    BY DEF TokenAt
  <1>. QED
    BY <1>1, Zenon DEF SidesAt

\* What is read of dice is sane and ends behind where it began.
LEMMA DiceReads ==
  ASSUME NEW in \in Seq(Token), NEW count, NEW p \in 1..Len(in) + 1
  PROVE  DiceBody(in, count, p) \in Reads(SaneTerms, p + 1, Len(in) + 1)
PROOF
  <1>1. PICK head : head = [count |-> count, sides |-> SidesAt(in, p)]
    OBVIOUS
  <1>2. PICK e : e = EndOfSuffixes(in, p + 1)
    OBVIOUS
  <1>3. PICK made : made = DiceOf(head, SubSeq(in, p + 1, e - 1))
    OBVIOUS
  <1>4. DiceBody(in, count, p) = Stopped(made, e)
    BY <1>1, <1>2, <1>3 DEF DiceBody, DiceUpTo
  <1>5. head.sides = SidesAt(in, p)
    BY <1>1
  <1>6. CASE SidesAt(in, p) = None
    <2>1. made = Refused
      BY <1>3, <1>5, <1>6 DEF DiceOf
    <2>. QED
      BY <1>4, <2>1 DEF Stopped, Reads
  <1>7. CASE SidesAt(in, p) # None
    <2>1. Len(in) \in Nat /\ p \in 1..Len(in)
      BY <1>7, SidesAreWritten, LenProperties
    <2>2. p + 1 \in 1..Len(in) + 1
      BY <2>1
    <2>3. e \in p + 1..Len(in) + 1 /\ \A i \in p + 1..e - 1 : in[i] \in Suffix
      BY <1>2, <2>2, SuffixesEnd
    <2>4. PICK b : b = e - 1
      OBVIOUS
    <2>5. b \in Nat /\ b <= Len(in) /\ p + 1 <= b + 1 /\ p + 1 \in Nat \ {0}
      BY <2>1, <2>3, <2>4
    <2>6. PICK q : q = SubSeq(in, p + 1, b)
      OBVIOUS
    <2>7. DOMAIN q = 1..b + 1 - (p + 1) /\ \A i \in 1..b + 1 - (p + 1) : q[i] = in[p + 1 + i - 1]
      BY <2>5, <2>6, Cut
    <2>8. PICK n \in Nat : n = b + 1 - (p + 1)
      BY <2>1, <2>5
    <2>9. \A i \in 1..n : q[i] \in Suffix
      <3>. TAKE i \in 1..n
      <3>1. q[i] = in[p + 1 + i - 1] /\ p + 1 + i - 1 \in p + 1..e - 1
        BY <2>1, <2>4, <2>5, <2>7, <2>8
      <3>. QED
        BY <2>3, <3>1
    <2>10. Parsed(head, q) \in TermOutcomes
      BY <2>7, <2>8, <2>9, ParsedIsSane
    <2>11. made = Parsed(head, q)
      BY <1>3, <1>5, <1>7, <2>4, <2>6 DEF DiceOf
    <2>12. made \in SaneTerms \cup {Refused}
      BY <2>10, <2>11 DEF TermOutcomes
    <2>. QED
      BY <1>4, <2>3, <2>12 DEF Stopped, Reads
  <1>. QED
    BY <1>6, <1>7

\* What is read of a term is sane and ends behind where it began.
LEMMA TermReads ==
  ASSUME NEW in \in Seq(Token), NEW p \in 1..Len(in) + 1
  PROVE  Term(in, p) \in Reads(Terms, p + 1, Len(in) + 1)
PROOF
  <1>1. Len(in) \in Nat /\ DOMAIN in = 1..Len(in)
    BY LenProperties
  <1>2. ASSUME NEW i \in Nat, TokenAt(in, i) \in {"d", "number"}
        PROVE  i \in 1..Len(in)
    BY <1>1, <1>2 DEF TokenAt
  <1>3. \A x, a : x \in Reads(SaneTerms, a, Len(in) + 1) => x \in Reads(Terms, a, Len(in) + 1)
    BY DEF Reads, Terms
  <1>4. \A a \in Nat : \A x : x \in Reads(Terms, a + 1, Len(in) + 1)
                          => x \in Reads(Terms, a, Len(in) + 1)
    BY <1>1 DEF Reads
  <1>5. CASE TokenAt(in, p) = "d"
    <2>1. p + 1 \in 1..Len(in) + 1 /\ p + 1 \in Nat
      BY <1>1, <1>2, <1>5
    <2>2. DiceBody(in, 1, p + 1) \in Reads(SaneTerms, p + 1 + 1, Len(in) + 1)
      BY <2>1, DiceReads
    <2>3. Term(in, p) = DiceBody(in, 1, p + 1)
      BY <1>5 DEF Term
    <2>. QED
      BY <1>3, <1>4, <2>1, <2>2, <2>3
  <1>6. CASE TokenAt(in, p) = "number" /\ TokenAt(in, p + 1) = "d"
    <2>1. p + 2 \in 1..Len(in) + 1 /\ p + 2 \in Nat /\ p + 1 \in Nat /\ p + 1 + 1 = p + 2
      BY <1>1, <1>2, <1>6
    <2>2. DiceBody(in, in[p].n, p + 2) \in Reads(SaneTerms, p + 2 + 1, Len(in) + 1)
      BY <2>1, DiceReads
    <2>3. Term(in, p) = DiceBody(in, in[p].n, p + 2)
      BY <1>6 DEF Term
    <2>4. Term(in, p) \in Reads(Terms, p + 2, Len(in) + 1)
      BY <1>3, <1>4, <2>1, <2>2, <2>3
    <2>. QED
      BY <1>4, <2>1, <2>4
  <1>7. CASE /\ TokenAt(in, p) # "d"
             /\ ~(TokenAt(in, p) = "number" /\ TokenAt(in, p + 1) = "d")
    <2>1. Term(in, p) = ConstTerm(in, p)
      BY <1>7 DEF Term
    <2>2. CASE TokenAt(in, p) = "number"
      <3>1. p \in 1..Len(in) /\ p + 1 \in p + 1..Len(in) + 1
        BY <1>1, <1>2, <2>2
      <3>2. PICK c : c = [const |-> in[p].n]
        OBVIOUS
      <3>3. c \in Terms
        <4>1. in[p] \in Token /\ in[p].what = "number"
          BY <1>1, <2>2, <3>1, ElementOfSeq DEF TokenAt
        <4>2. in[p].n \in Nat
          BY <4>1, TokenCases, SuffixCases
        <4>. QED
          BY <3>2, <4>2 DEF Terms
      <3>4. Term(in, p) = [read |-> c, at |-> p + 1]
        BY <2>1, <2>2, <3>2 DEF ConstTerm
      <3>. QED
        BY <3>1, <3>3, <3>4 DEF Reads
    <2>3. CASE TokenAt(in, p) # "number"
      BY <2>1, <2>3 DEF ConstTerm, Reads
    <2>. QED
      BY <2>2, <2>3
  <1>. QED
    BY <1>5, <1>6, <1>7

------------------------------------------------------------------------------
(* Reading lists of terms. *)

\* What stands behind the blanks at p, and the item behind that.
OpAt(in, p) == TokenAt(in, AfterBlanks(in, p))

ItemAt(in, items, p) == items[AfterBlanks(in, AfterBlanks(in, p) + 1)]

\* Many at the position p, given what it is at later ones.
ManyAt(in, ops, items, h, p) ==
  IF OpAt(in, p) \notin ops THEN [read |-> <<>>, at |-> p]
  ELSE IF ItemAt(in, items, p) = Refused THEN Refused
  ELSE Followed(OpAt(in, p), ItemAt(in, items, p), h[ItemAt(in, items, p).at])

Link(ops, items) == [op : ops, item : items]

ReadsItems(in, items, I) ==
  \A q \in 1..Len(in) + 1 : items[q] \in Reads(I, q + 1, Len(in) + 1)

\* The item behind an operator ends behind that operator.
LEMMA ItemsStandBehind ==
  ASSUME NEW in \in Seq(Token), NEW ops, "end" \notin ops, NEW I, NEW items,
         ReadsItems(in, items, I), NEW p \in 1..Len(in) + 1, OpAt(in, p) \in ops
  PROVE  ItemAt(in, items, p) \in Reads(I, p + 1, Len(in) + 1)
PROOF
  <1>1. Len(in) \in Nat /\ DOMAIN in = 1..Len(in)
    BY LenProperties
  <1>2. PICK o : o = AfterBlanks(in, p)
    OBVIOUS
  <1>3. o \in p..Len(in) + 1
    BY <1>2, BlanksEnd
  <1>4. o \in DOMAIN in
    BY <1>2, Zenon DEF OpAt, TokenAt
  <1>5. o + 1 \in 1..Len(in) + 1
    BY <1>1, <1>4
  <1>6. PICK q : q = AfterBlanks(in, o + 1)
    OBVIOUS
  <1>7. q \in o + 1..Len(in) + 1
    BY <1>5, <1>6, BlanksEnd
  <1>8. q \in 1..Len(in) + 1 /\ q + 1 \in p + 1..Len(in) + 2
    BY <1>1, <1>3, <1>7
  <1>9. items[q] \in Reads(I, q + 1, Len(in) + 1)
    BY <1>8 DEF ReadsItems
  <1>10. q + 1..Len(in) + 1 \subseteq p + 1..Len(in) + 1
    BY <1>1, <1>8
  <1>11. ItemAt(in, items, p) = items[q]
    BY <1>2, <1>6 DEF ItemAt
  <1>. QED
    BY <1>9, <1>10, <1>11 DEF Reads

\* One more link in front.
LEMMA FollowedReads ==
  ASSUME NEW ops, NEW I, NEW op \in ops, NEW item, item.read \in I, NEW from, NEW to,
         NEW rest \in Reads(Seq(Link(ops, I)), from, to)
  PROVE  Followed(op, item, rest) \in Reads(Seq(Link(ops, I)), from, to)
PROOF
  <1>1. CASE rest = Refused
    BY <1>1 DEF Followed, Reads
  <1>2. CASE rest # Refused
    <2>1. rest.read \in Seq(Link(ops, I)) /\ rest.at \in from..to
          /\ rest = [read |-> rest.read, at |-> rest.at]
      BY <1>2 DEF Reads
    <2>2. PICK l : l = [op |-> op, item |-> item.read]
      OBVIOUS
    <2>3. l \in Link(ops, I)
      BY <2>2 DEF Link
    <2>4. <<l>> \in Seq(Link(ops, I))
      BY <2>3
    <2>5. PICK q : q = <<l>> \o rest.read
      OBVIOUS
    <2>6. q \in Seq(Link(ops, I))
      BY <2>1, <2>4, <2>5, ConcatProperties
    <2>7. Followed(op, item, rest) = [rest EXCEPT !.read = q]
      BY <1>2, <2>2, <2>5 DEF Followed
    <2>8. [rest EXCEPT !.read = q] = [read |-> q, at |-> rest.at]
      BY <2>1
    <2>. QED
      BY <2>1, <2>6, <2>7, <2>8 DEF Reads
  <1>. QED
    BY <1>1, <1>2

\* Many is a recursion towards the end of the input.
LEMMA ManyUnfolds ==
  ASSUME NEW in \in Seq(Token), NEW ops, "end" \notin ops, NEW I, NEW items,
         ReadsItems(in, items, I)
  PROVE  \E g :
           /\ \A p \in 1..Len(in) + 1 : Many(in, p, ops, items) = g[p]
           /\ \A p \in 1..Len(in) + 1 : g[p] = ManyAt(in, ops, items, g, p)
           /\ \A p \in 1..Len(in) + 1 : g[p] \in Reads(Seq(Link(ops, I)), p, Len(in) + 1)
PROOF
  <1>1. PICK m \in Nat : m = Len(in) + 1
    BY LenProperties
  <1>2. PICK L : L = Seq(Link(ops, I))
    OBVIOUS
  <1>3. PICK V : V = Reads(L, 1, m)
    OBVIOUS
  <1>. DEFINE ends == {p \in 1..m : OpAt(in, p) \notin ops \/ ItemAt(in, items, p) = Refused}
              base == [p \in 1..m |->
                         IF OpAt(in, p) \notin ops THEN [read |-> <<>>, at |-> p] ELSE Refused]
              jump == [p \in 1..m |-> ItemAt(in, items, p).at]
              step == [x \in (1..m) \X V |->
                         IF OpAt(in, x[1]) \in ops /\ ItemAt(in, items, x[1]) # Refused
                         THEN Followed(OpAt(in, x[1]), ItemAt(in, items, x[1]), x[2])
                         ELSE Refused]
              Iterates(h) == h = [p \in 1..Len(in) + 1 |->
                IF TokenAt(in, AfterBlanks(in, p)) \notin ops THEN [read |-> <<>>, at |-> p]
                ELSE IF items[AfterBlanks(in, AfterBlanks(in, p) + 1)] = Refused THEN Refused
                ELSE Followed(TokenAt(in, AfterBlanks(in, p)),
                              items[AfterBlanks(in, AfterBlanks(in, p) + 1)],
                              h[items[AfterBlanks(in, AfterBlanks(in, p) + 1)].at])]
              h == CHOOSE h : Iterates(h)
  <1>4. \A p : Many(in, p, ops, items) = h[p]
    BY DEF Many
  <1>5. \A p \in 1..m : p \notin ends =>
          /\ OpAt(in, p) \in ops
          /\ ItemAt(in, items, p).read \in I
          /\ ItemAt(in, items, p).at \in p + 1..m
    <2>. SUFFICES ASSUME NEW p \in 1..m, OpAt(in, p) \in ops, ItemAt(in, items, p) # Refused
                  PROVE  /\ ItemAt(in, items, p).read \in I
                         /\ ItemAt(in, items, p).at \in p + 1..m
      OBVIOUS
    <2>1. ItemAt(in, items, p) \in Reads(I, p + 1, m)
      BY <1>1, ItemsStandBehind
    <2>. QED
      BY <2>1 DEF Reads
  <1>6. base \in [1..m -> V]
    <2>1. <<>> \in L
      BY <1>2
    <2>2. \A p \in 1..m : [read |-> <<>>, at |-> p] \in V
      BY <1>3, <2>1 DEF Reads
    <2>3. Refused \in V
      BY <1>3 DEF Reads
    <2>. QED
      BY <2>2, <2>3
  <1>7. step \in [(1..m) \X V -> V]
    <2>1. ASSUME NEW p \in 1..m, NEW v \in V, OpAt(in, p) \in ops,
                 ItemAt(in, items, p) # Refused
          PROVE  Followed(OpAt(in, p), ItemAt(in, items, p), v) \in V
      <3>1. ItemAt(in, items, p).read \in I
        BY <1>5, <2>1
      <3>. QED
        BY <1>2, <1>3, <2>1, <3>1, FollowedReads
    <2>2. Refused \in V
      BY <1>3 DEF Reads
    <2>. QED
      BY <2>1, <2>2
  <1>8. Jumps(m, ends, jump)
    BY <1>5 DEF Jumps
  <1>9. \A p \in 1..m : /\ p \in ends <=> OpAt(in, p) \notin ops \/ ItemAt(in, items, p) = Refused
                        /\ base[p] = IF OpAt(in, p) \notin ops
                                     THEN [read |-> <<>>, at |-> p] ELSE Refused
                        /\ jump[p] = ItemAt(in, items, p).at
    OBVIOUS
  <1>10. \A p \in 1..m, v \in V : p \notin ends =>
           step[<<p, v>>] = Followed(OpAt(in, p), ItemAt(in, items, p), v)
    OBVIOUS
  <1>. HIDE DEF ends, base, jump, step
  <1>11. PICK g \in [1..m -> V] : IsRecursion(g, m, ends, base, jump, step)
    BY <1>6, <1>7, <1>8, RecursionExists
  <1>12. \A p \in 1..m : g[p] = ManyAt(in, ops, items, g, p)
    <2>. SUFFICES ASSUME NEW p \in 1..m
                  PROVE  g[p] = ManyAt(in, ops, items, g, p)
      OBVIOUS
    <2>1. g[p] = IF p \in ends THEN base[p] ELSE step[<<p, g[jump[p]]>>]
      BY <1>11 DEF IsRecursion
    <2>2. CASE p \in ends
      BY <1>9, <2>1, <2>2 DEF ManyAt
    <2>3. CASE p \notin ends
      <3>1. g[jump[p]] \in V
        <4>1. PICK q \in p + 1..m : q = jump[p]
          BY <1>5, <1>9, <2>3
        <4>2. q \in 1..m
          OBVIOUS
        <4>. QED
          BY <1>11, <4>1, <4>2
      <3>2. step[<<p, g[jump[p]]>>] = Followed(OpAt(in, p), ItemAt(in, items, p), g[jump[p]])
        BY <1>10, <2>3, <3>1
      <3>. QED
        BY <1>9, <2>1, <2>3, <3>2 DEF ManyAt
    <2>. QED
      BY <2>2, <2>3
  <1>13. Iterates(h)
    <2>1. g = [p \in 1..m |-> g[p]]
      BY <1>11
    <2>2. g = [p \in 1..m |-> ManyAt(in, ops, items, g, p)]
      BY <1>12, <2>1
    <2>3. Iterates(g)
      BY <1>1, <2>2 DEF ManyAt, OpAt, ItemAt
    <2>. HIDE DEF Iterates
    <2>. QED
      BY <2>3
  <1>14. \A p \in 1..m : h[p] = ManyAt(in, ops, items, h, p)
    <2>. HIDE DEF h
    <2>. QED
      BY <1>1, <1>13 DEF ManyAt, OpAt, ItemAt
  <1>. HIDE DEF h
  <1>15. \A p \in 1..m : h[p] = g[p]
    <2>. DEFINE T == {p \in 1..m : h[p] = g[p]}
    <2>1. ASSUME NEW p \in 1..m, \A q \in p + 1..m : q \in T
          PROVE  p \in T
      <3>1. p \notin ends => h[ItemAt(in, items, p).at] = g[ItemAt(in, items, p).at]
        BY <1>5, <2>1
      <3>2. ManyAt(in, ops, items, h, p) = ManyAt(in, ops, items, g, p)
        BY <1>9, <3>1 DEF ManyAt
      <3>. QED
        BY <1>12, <1>14, <3>2
    <2>2. \A p \in 1..m : p \in T
      <3>. HIDE DEF T
      <3>. QED
        BY <2>1, CountingDown
    <2>. QED
      BY <2>2
  <1>16. \A p \in 1..m : g[p] \in Reads(L, p, m)
    <2>. DEFINE T == {p \in 1..m : g[p] \in Reads(L, p, m)}
    <2>1. ASSUME NEW p \in 1..m, \A q \in p + 1..m : q \in T
          PROVE  p \in T
      <3>1. CASE p \in ends
        <4>1. g[p] = base[p]
          BY <1>11, <3>1 DEF IsRecursion
        <4>2. base[p] = Refused \/ base[p] = [read |-> <<>>, at |-> p]
          BY <1>9
        <4>3. <<>> \in L /\ p \in p..m
          BY <1>2
        <4>. QED
          BY <4>1, <4>2, <4>3 DEF Reads
      <3>2. CASE p \notin ends
        <4>1. PICK q \in p + 1..m : q = ItemAt(in, items, p).at
          BY <1>5, <3>2
        <4>2. g[q] \in Reads(L, q, m)
          BY <2>1
        <4>3. q..m \subseteq p..m
          OBVIOUS
        <4>4. g[q] \in Reads(L, p, m)
          BY <4>2, <4>3 DEF Reads
        <4>5. g[p] = Followed(OpAt(in, p), ItemAt(in, items, p), g[q])
          BY <1>9, <1>12, <3>2, <4>1 DEF ManyAt
        <4>6. g[p] \in Reads(L, p, m)
          BY <1>2, <1>5, <3>2, <4>4, <4>5, FollowedReads
        <4>. QED
          BY <4>6
      <3>. QED
        BY <3>1, <3>2
    <2>2. \A p \in 1..m : p \in T
      <3>. HIDE DEF T
      <3>. QED
        BY <2>1, CountingDown
    <2>. QED
      BY <2>2
  <1>. QED
    BY <1>1, <1>2, <1>4, <1>12, <1>15, <1>16

\* The terms of an expression, and how many there are.
LEMMA TermsUnfold ==
  ASSUME NEW q, NEW n \in Nat, DOMAIN q = 1..n,
         NEW I, \A i \in 1..n : q[i].item \in Seq(I)
  PROVE  \E p \in [0..n -> Seq(I)] :
           /\ p[0] = <<>>
           /\ \A k \in 1..n : p[k] = p[k - 1] \o q[k].item
           /\ p[n] = TermsOf(q)
PROOF
  <1>. DEFINE step == [x \in (1..n) \X Seq(I) |-> x[2] \o q[x[1]].item]
              Iterates(h) == h = [s \in SUBSET (1..n) |->
                 IF s = {} THEN <<>> ELSE h[s \ {Max(s)}] \o q[Max(s)].item]
              h == CHOOSE h : Iterates(h)
  <1>1. PICK V, base : V = Seq(I) /\ base = <<>>
    OBVIOUS
  <1>2. base \in V /\ step \in [(1..n) \X V -> V]
    BY <1>1, ConcatProperties
  <1>3. \A k \in 1..n, v \in V : step[<<k, v>>] = v \o q[k].item
    BY <1>1
  <1>4. TermsOf(q) = h[1..n]
    BY DEF TermsOf, FoldLeft, MapThenFoldSet
  <1>. HIDE DEF step
  <1>5. PICK g \in [SUBSET (1..n) -> V] : IsFold(g, n, V, base, step)
    BY <1>2, FoldExists
  <1>6. Iterates(g)
    <2>1. \A s \in SUBSET (1..n) :
            s # {} => g[s] = g[s \ {Max(s)}] \o q[Max(s)].item
      BY <1>3, <1>5 DEF IsFold
    <2>2. g[{}] = <<>> /\ g = [s \in SUBSET (1..n) |-> g[s]]
      BY <1>1, <1>5 DEF IsFold
    <2>. QED
      BY <2>1, <2>2
  <1>7. Iterates(h)
    <2>. HIDE DEF Iterates
    <2>. QED
      BY <1>6
  <1>. HIDE DEF h
  <1>8. /\ h[{}] = base
        /\ \A s \in SUBSET (1..n) :
             s # {} => h[s] = h[s \ {Max(s)}] \o q[Max(s)].item
    BY <1>1, <1>7
  <1>9. \A s \in SUBSET (1..n) :
          s # {} /\ h[s \ {Max(s)}] \in V => h[s] = step[<<Max(s), h[s \ {Max(s)}]>>]
    <2>1. \A s \in SUBSET (1..n) : s # {} => Max(s) \in 1..n
      BY <1>5 DEF IsFold
    <2>. QED
      BY <1>3, <1>8, <2>1
  <1>10. PICK p \in [0..n -> V] : IsChain(p, n, base, step, h[1..n])
    <2>1. FoldsWithin(h, n, V, base, step)
      BY <1>8, <1>9 DEF FoldsWithin
    <2>. QED
      BY <1>2, <2>1, FoldIsChain
  <1>11. \A k \in 1..n : p[k] = p[k - 1] \o q[k].item
    <2>. TAKE k \in 1..n
    <2>1. p[k - 1] \in V /\ p[k] = step[<<k, p[k - 1]>>]
      BY <1>10 DEF IsChain
    <2>. QED
      BY <1>3, <2>1
  <1>. QED
    BY <1>1, <1>4, <1>10, <1>11 DEF IsChain

\* The terms of an expression are counted product by product.
LEMMA CountUnfolds ==
  ASSUME NEW q, NEW n \in Nat, DOMAIN q = 1..n,
         NEW I, \A i \in 1..n : q[i].item \in Seq(I)
  PROVE  \E p \in [0..n -> Nat] :
           /\ p[0] = 0
           /\ \A k \in 1..n : p[k] = p[k - 1] + Len(q[k].item)
           /\ p[n] = TermCount(q)
PROOF
  <1>. DEFINE step == [x \in (1..n) \X Nat |-> x[2] + Len(q[x[1]].item)]
              Iterates(h) == h = [s \in SUBSET (1..n) |->
                 IF s = {} THEN 0 ELSE h[s \ {Max(s)}] + Len(q[Max(s)].item)]
              h == CHOOSE h : Iterates(h)
  <1>1. PICK V, base : V = Nat /\ base = 0
    OBVIOUS
  <1>2. base \in V /\ step \in [(1..n) \X V -> V]
    BY <1>1, LenProperties
  <1>3. \A k \in 1..n, v \in V : step[<<k, v>>] = v + Len(q[k].item)
    BY <1>1
  <1>4. TermCount(q) = h[1..n]
    BY DEF TermCount, FoldLeft, MapThenFoldSet
  <1>. HIDE DEF step
  <1>5. PICK g \in [SUBSET (1..n) -> V] : IsFold(g, n, V, base, step)
    BY <1>2, FoldExists
  <1>6. Iterates(g)
    <2>1. \A s \in SUBSET (1..n) :
            s # {} => g[s] = g[s \ {Max(s)}] + Len(q[Max(s)].item)
      BY <1>3, <1>5 DEF IsFold
    <2>2. g[{}] = 0 /\ g = [s \in SUBSET (1..n) |-> g[s]]
      BY <1>1, <1>5 DEF IsFold
    <2>. QED
      BY <2>1, <2>2
  <1>7. Iterates(h)
    <2>. HIDE DEF Iterates
    <2>. QED
      BY <1>6
  <1>. HIDE DEF h
  <1>8. /\ h[{}] = base
        /\ \A s \in SUBSET (1..n) :
             s # {} => h[s] = h[s \ {Max(s)}] + Len(q[Max(s)].item)
    BY <1>1, <1>7
  <1>9. \A s \in SUBSET (1..n) :
          s # {} /\ h[s \ {Max(s)}] \in V => h[s] = step[<<Max(s), h[s \ {Max(s)}]>>]
    <2>1. \A s \in SUBSET (1..n) : s # {} => Max(s) \in 1..n
      BY <1>5 DEF IsFold
    <2>. QED
      BY <1>3, <1>8, <2>1
  <1>10. PICK p \in [0..n -> V] : IsChain(p, n, base, step, h[1..n])
    <2>1. FoldsWithin(h, n, V, base, step)
      BY <1>8, <1>9 DEF FoldsWithin
    <2>. QED
      BY <1>2, <2>1, FoldIsChain
  <1>11. \A k \in 1..n : p[k] = p[k - 1] + Len(q[k].item)
    <2>. TAKE k \in 1..n
    <2>1. p[k - 1] \in V /\ p[k] = step[<<k, p[k - 1]>>]
      BY <1>10 DEF IsChain
    <2>. QED
      BY <1>3, <2>1
  <1>. QED
    BY <1>1, <1>4, <1>10, <1>11 DEF IsChain

\* many0 reads a list of operators and items.
LEMMA ManyReads ==
  ASSUME NEW in \in Seq(Token), NEW ops, "end" \notin ops, NEW I, NEW items,
         ReadsItems(in, items, I), NEW p \in 1..Len(in) + 1
  PROVE  Many(in, p, ops, items) \in Reads(Seq(Link(ops, I)), p, Len(in) + 1)
PROOF
  <1>1. PICK g : /\ \A q \in 1..Len(in) + 1 : Many(in, q, ops, items) = g[q]
                 /\ \A q \in 1..Len(in) + 1 : g[q] \in Reads(Seq(Link(ops, I)), q, Len(in) + 1)
    BY ManyUnfolds
  <1>. QED
    BY <1>1

\* No term is lost.
LEMMA TermsAreCounted ==
  ASSUME NEW I, NEW e, NEW n \in Nat \ {0}, DOMAIN e = 1..n,
         \A i \in 1..n : e[i].item \in Seq(I) /\ e[i].item # <<>>
  PROVE  /\ TermsOf(e) \in Seq(I)
         /\ Len(TermsOf(e)) = TermCount(e)
         /\ TermCount(e) \in Nat \ {0}
PROOF
  <1>1. PICK t \in [0..n -> Seq(I)] :
          /\ t[0] = <<>>
          /\ \A k \in 1..n : t[k] = t[k - 1] \o e[k].item
          /\ t[n] = TermsOf(e)
    BY TermsUnfold
  <1>2. PICK c \in [0..n -> Nat] :
          /\ c[0] = 0
          /\ \A k \in 1..n : c[k] = c[k - 1] + Len(e[k].item)
          /\ c[n] = TermCount(e)
    BY CountUnfolds
  <1>3. \A k \in 1..n : Len(e[k].item) \in Nat \ {0}
    <2>. SUFFICES ASSUME NEW k \in 1..n
                  PROVE  Len(e[k].item) \in Nat \ {0}
      OBVIOUS
    <2>. QED
      BY EmptySeq, LenProperties
  <1>. DEFINE T == {k \in 0..n : Len(t[k]) = c[k] /\ (k # 0 => c[k] # 0)}
  <1>4. 0 \in T
    BY <1>1, <1>2
  <1>5. ASSUME NEW k \in 1..n, k - 1 \in T
        PROVE  k \in T
    <2>1. PICK a \in Seq(I), b \in Seq(I) : a = t[k - 1] /\ b = e[k].item
      BY <1>5
    <2>2. t[k] = a \o b
      BY <1>1, <2>1
    <2>3. Len(t[k]) = Len(a) + Len(b)
      BY <2>2, ConcatProperties
    <2>4. PICK x \in Nat, y \in Nat \ {0} : x = Len(a) /\ y = Len(b)
      BY <1>3, <2>1, LenProperties
    <2>5. c[k - 1] = x
      BY <1>5, <2>1, <2>4
    <2>6. c[k] = x + y
      BY <1>2, <2>1, <2>4, <2>5
    <2>. QED
      BY <2>3, <2>4, <2>6
  <1>6. n \in T
    <2>1. n \in 0..n
      OBVIOUS
    <2>. HIDE DEF T
    <2>. QED
      BY <1>4, <1>5, <2>1, CountingUp
  <1>. QED
    BY <1>1, <1>2, <1>6

ProductsOf(I) == {q \in Seq(I) : Len(q) \in 1..MaxTerms}

\* A first term and the list behind it make a product, or one too long.
LEMMA ProductIsList ==
  ASSUME NEW I, NEW first \in I, NEW from, NEW to,
         NEW more \in Reads(Seq(Link({"*"}, I)), from, to)
  PROVE  ProductOf(first, more) \in Reads(ProductsOf(I), from, to)
PROOF
  <1>. SUFFICES ASSUME ProductOf(first, more) # Refused
                PROVE  ProductOf(first, more) \in Reads(ProductsOf(I), from, to)
    BY DEF Reads
  <1>1. more # Refused /\ ~(Len(more.read) + 1 > MaxTerms)
    BY DEF ProductOf
  <1>2. /\ more.read \in Seq(Link({"*"}, I))
        /\ more.at \in from..to
        /\ more = [read |-> more.read, at |-> more.at]
    BY <1>1 DEF Reads
  <1>3. PICK l : l = more.read
    OBVIOUS
  <1>4. PICK q : q = [i \in DOMAIN l |-> l[i].item]
    OBVIOUS
  <1>5. l \in Seq(Link({"*"}, I)) /\ Len(l) \in Nat /\ DOMAIN l = 1..Len(l)
    BY <1>2, <1>3, LenProperties
  <1>6. \A i \in 1..Len(l) : l[i].item \in I
    <2>. TAKE i \in 1..Len(l)
    <2>1. l[i] \in Link({"*"}, I)
      BY <1>5, ElementOfSeq
    <2>. QED
      BY <2>1 DEF Link
  <1>7. q \in Seq(I) /\ Len(q) = Len(l)
    <2>1. q \in [1..Len(l) -> I]
      BY <1>4, <1>5, <1>6
    <2>2. q \in Seq(I)
      BY <1>5, <2>1, SeqDef
    <2>. QED
      BY <1>5, <2>1, <2>2, LenProperties
  <1>8. PICK r : r = <<first>> \o q
    OBVIOUS
  <1>9. r \in Seq(I) /\ Len(r) = 1 + Len(q)
    <2>1. <<first>> \in Seq(I) /\ Len(<<first>>) = 1
      OBVIOUS
    <2>. QED
      BY <1>7, <1>8, <2>1, ConcatProperties
  <1>10. ProductOf(first, more) = [more EXCEPT !.read = r]
    BY <1>1, <1>3, <1>4, <1>8 DEF ProductOf
  <1>11. [more EXCEPT !.read = r] = [read |-> r, at |-> more.at]
    BY <1>2
  <1>12. r \in ProductsOf(I)
    BY <1>1, <1>3, <1>5, <1>7, <1>9, ParseAssumption DEF ProductsOf
  <1>. QED
    BY <1>2, <1>10, <1>11, <1>12 DEF Reads

\* The same from a later position.
LEMMA ReadsEarlier ==
  ASSUME NEW I, NEW a \in Nat, NEW b \in Nat, a <= b, NEW to \in Nat, NEW x \in Reads(I, b, to)
  PROVE  x \in Reads(I, a, to)
PROOF
  <1>1. b..to \subseteq a..to
    OBVIOUS
  <1>. QED
    BY <1>1 DEF Reads

LEMMA ProductReads ==
  ASSUME NEW in \in Seq(Token), NEW p \in 1..Len(in) + 1
  PROVE  Product(in, p) \in Reads(ProductsOf(Terms), p + 1, Len(in) + 1)
PROOF
  <1>1. PICK m \in Nat : m = Len(in) + 1
    BY LenProperties
  <1>2. PICK I : I = Terms
    OBVIOUS
  <1>3. PICK first : first = Term(in, p)
    OBVIOUS
  <1>4. first \in Reads(I, p + 1, m)
    BY <1>1, <1>2, <1>3, TermReads
  <1>5. CASE first = Refused
    BY <1>3, <1>5 DEF Product, ProductFrom, Reads
  <1>6. CASE first # Refused
    <2>1. first.read \in I /\ first.at \in p + 1..m
      BY <1>4, <1>6 DEF Reads
    <2>2. PICK items : items = [q \in 1..Len(in) + 1 |-> Term(in, q)]
      OBVIOUS
    <2>3. ReadsItems(in, items, I)
      BY <1>2, <2>2, TermReads DEF ReadsItems
    <2>4. PICK more : more = Many(in, first.at, {"*"}, items)
      OBVIOUS
    <2>5. "end" \notin {"*"}
      OBVIOUS
    <2>6. PICK q \in 1..m : q = first.at /\ q >= p + 1
      BY <1>1, <2>1
    <2>7. more \in Reads(Seq(Link({"*"}, I)), q, m)
      BY <1>1, <2>3, <2>4, <2>5, <2>6, ManyReads
    <2>8. ProductOf(first.read, more) \in Reads(ProductsOf(I), q, m)
      BY <2>1, <2>7, ProductIsList
    <2>9. Product(in, p) = ProductOf(first.read, more)
      BY <1>3, <1>6, <2>2, <2>4 DEF Product, ProductFrom
    <2>10. Product(in, p) \in Reads(ProductsOf(I), p + 1, m)
      BY <2>6, <2>8, <2>9, ReadsEarlier
    <2>. QED
      BY <1>1, <1>2, <2>10
  <1>. QED
    BY <1>5, <1>6

ExprsOf(I) ==
  {e \in Seq(Link({"+", "-"}, ProductsOf(I))) :
     e # <<>> /\ e[1].op = "+" /\ TermCount(e) <= MaxTerms}

\* The same of an expression and its products.
LEMMA ExprIsList ==
  ASSUME NEW I, NEW first \in ProductsOf(I), NEW from, NEW to,
         NEW more \in Reads(Seq(Link({"+", "-"}, ProductsOf(I))), from, to)
  PROVE  ExprOf(first, more) \in Reads(ExprsOf(I), from, to)
PROOF
  <1>1. PICK L : L = Link({"+", "-"}, ProductsOf(I))
    OBVIOUS
  <1>2. CASE ExprOf(first, more) = Refused
    BY <1>2 DEF Reads
  <1>3. CASE ExprOf(first, more) # Refused
    <2>1. PICK e : e = AllOf(first, more.read)
      OBVIOUS
    <2>2. /\ more # Refused /\ ~(TermCount(e) > MaxTerms)
          /\ ExprOf(first, more) = [more EXCEPT !.read = e]
      BY <1>3, <2>1 DEF ExprOf
    <2>3. /\ more.read \in Seq(L)
          /\ more.at \in from..to
          /\ more = [read |-> more.read, at |-> more.at]
      BY <1>1, <2>2 DEF Reads
    <2>4. PICK l : l = [op |-> "+", item |-> first]
      OBVIOUS
    <2>5. l \in L
      BY <1>1, <2>4 DEF Link
    <2>6. <<l>> \in Seq(L) /\ Len(<<l>>) = 1
      BY <2>5
    <2>7. e = <<l>> \o more.read
      BY <2>1, <2>4 DEF AllOf
    <2>8. e \in Seq(L) /\ Len(e) = 1 + Len(more.read) /\ Len(more.read) \in Nat
      BY <2>3, <2>6, <2>7, ConcatProperties, LenProperties
    <2>9. e # <<>> /\ e[1].op = "+"
      <3>1. e[1] = l
        BY <2>3, <2>6, <2>7, <2>8, ConcatProperties
      <3>. QED
        BY <2>4, <2>8, <3>1, EmptySeq
    <2>10. TermCount(e) \in Nat
      <3>1. PICK n \in Nat \ {0} : n = Len(e) /\ DOMAIN e = 1..n
        BY <2>8, LenProperties
      <3>2. \A i \in 1..n : e[i].item \in Seq(I) /\ e[i].item # <<>>
        <4>. SUFFICES ASSUME NEW i \in 1..n
                      PROVE  e[i].item \in Seq(I) /\ e[i].item # <<>>
          OBVIOUS
        <4>1. e[i] \in L
          BY <2>8, <3>1, ElementOfSeq
        <4>2. e[i].item \in ProductsOf(I)
          BY <1>1, <4>1 DEF Link
        <4>. QED
          BY <4>2, EmptySeq DEF ProductsOf
      <3>. QED
        BY <3>1, <3>2, TermsAreCounted
    <2>11. TermCount(e) <= MaxTerms
      BY <2>2, <2>10, ParseAssumption
    <2>12. e \in ExprsOf(I)
      BY <1>1, <2>8, <2>9, <2>11 DEF ExprsOf
    <2>13. [more EXCEPT !.read = e] = [read |-> e, at |-> more.at]
      BY <2>3
    <2>. QED
      BY <2>2, <2>3, <2>12, <2>13 DEF Reads
  <1>. QED
    BY <1>2, <1>3

LEMMA ExprReads ==
  ASSUME NEW in \in Seq(Token), NEW p \in 1..Len(in) + 1
  PROVE  Expr(in, p) \in Reads(ExprsOf(Terms), 1, Len(in) + 1)
PROOF
  <1>1. PICK m \in Nat : m = Len(in) + 1
    BY LenProperties
  <1>2. PICK I : I = Terms
    OBVIOUS
  <1>3. PICK o : o = AfterBlanks(in, p)
    OBVIOUS
  <1>4. o \in 1..m
    BY <1>1, <1>3, BlanksEnd
  <1>5. PICK first : first = Product(in, o)
    OBVIOUS
  <1>6. first \in Reads(ProductsOf(I), o + 1, m)
    BY <1>1, <1>2, <1>4, <1>5, ProductReads
  <1>7. CASE first = Refused
    BY <1>3, <1>5, <1>7 DEF Expr, ExprFrom, Reads
  <1>8. CASE first # Refused
    <2>1. first.read \in ProductsOf(I) /\ first.at \in o + 1..m
      BY <1>6, <1>8 DEF Reads
    <2>2. PICK items : items = [q \in 1..Len(in) + 1 |-> Product(in, q)]
      OBVIOUS
    <2>3. ReadsItems(in, items, ProductsOf(I))
      BY <1>2, <2>2, ProductReads DEF ReadsItems
    <2>4. PICK more : more = Many(in, first.at, {"+", "-"}, items)
      OBVIOUS
    <2>5. "end" \notin {"+", "-"}
      OBVIOUS
    <2>6. PICK q \in 1..m : q = first.at
      BY <1>1, <1>4, <2>1
    <2>7. more \in Reads(Seq(Link({"+", "-"}, ProductsOf(I))), q, m)
      BY <1>1, <2>3, <2>4, <2>5, <2>6, ManyReads
    <2>8. ExprOf(first.read, more) \in Reads(ExprsOf(I), q, m)
      BY <2>1, <2>7, ExprIsList
    <2>9. Expr(in, p) = ExprOf(first.read, more)
      BY <1>3, <1>5, <1>8, <2>2, <2>4 DEF Expr, ExprFrom
    <2>10. Expr(in, p) \in Reads(ExprsOf(I), 1, m)
      BY <2>6, <2>8, <2>9, ReadsEarlier
    <2>. QED
      BY <1>1, <1>2, <2>10
  <1>. QED
    BY <1>7, <1>8

\* An input that is accepted is read as an expression of sane terms.
LEMMA ParseReads ==
  ASSUME NEW in \in Seq(Token), Parse(in) # Refused
  PROVE  Parse(in) \in ExprsOf(Terms)
PROOF
  <1>1. 1 \in 1..Len(in) + 1
    BY LenProperties
  <1>2. Expr(in, 1) \in Reads(ExprsOf(Terms), 1, Len(in) + 1)
    BY <1>1, ExprReads
  <1>3. Expr(in, 1) # Refused /\ Parse(in) = Expr(in, 1).read
    BY DEF Parse, Whole
  <1>. QED
    BY <1>2, <1>3 DEF Reads

\* The invariant: what stands in the variables is an input and its own parse.
ParseInv == input \in Seq(Token) /\ parsed = Parse(input)

\* The tokens that are printed and written are tokens.
LEMMA TokensToken ==
  /\ \A n \in Nat : Num(n) \in Token
  /\ \A c \in {"d", "F", "%", "+", "-", "*", " "} : Char(c) \in Token
  /\ \A s \in Suffix : s \in Token
PROOF
  BY Zenon DEF Num, Char, Token

\* Nothing is left over from an earlier input: the verdict is always the one on
\* the text as it stands (parse, lib.rs, which keeps no state).
LEMMA InputIsParsed == Spec => []ParseInv
PROOF
  <1>1. Init => ParseInv
    <2>. SUFFICES ASSUME Init PROVE ParseInv
      OBVIOUS
    <2>1. CASE input = <<>>
      BY <2>1 DEF Init, ParseInv
    <2>2. ASSUME NEW h \in Heads, input = HeadText(h)
          PROVE  input \in Seq(Token)
      <3>1. PICK a, b, c : /\ a = Num(h.count)
                           /\ b = Char("d")
                           /\ c = IF h.sides = Fate THEN Char("F") ELSE Num(h.sides)
        OBVIOUS
      <3>2. h.count \in Nat /\ h.sides \in Nat \cup {Fate}
        BY ParseAssumption
      <3>3. a \in Token /\ b \in Token /\ c \in Token
        BY <3>1, <3>2, TokensToken
      <3>4. HeadText(h) = <<a, b, c>>
        BY <3>1, Zenon DEF HeadText
      <3>. QED
        BY <2>2, <3>3, <3>4
    <2>. QED
      BY <2>1, <2>2 DEF Init, ParseInv
  <1>2. ParseInv /\ [Next]_vars => ParseInv'
    <2>. SUFFICES ASSUME ParseInv, [Next]_vars PROVE ParseInv'
      OBVIOUS
    <2>1. ASSUME NEW token \in Token, Write(token)
          PROVE  ParseInv'
      BY <2>1, AppendProperties DEF Write, ParseInv
    <2>2. CASE WriteToken
      BY <2>1, <2>2, ParseAssumption DEF WriteToken
    <2>3. CASE WriteSuffix
      BY <2>1, <2>3, TokensToken DEF WriteSuffix
    <2>4. CASE UNCHANGED vars
      BY <2>4 DEF vars, ParseInv
    <2>. QED
      BY <2>2, <2>3, <2>4 DEF Next
  <1>. QED
    BY <1>1, <1>2, PTL DEF Spec

\* What parse accepts the evaluator can roll: every term has 1..MaxDice dice, sides
\* it knows, a keep of at least one and at most all of its dice, and no reroll or
\* explosion of fate dice; and there are at least one term and at most MaxTerms.
THEOREM OnlySaneTerms == Spec => []TermsAreSane
PROOF
  <1>1. ParseInv => TermsAreSane
    <2>. SUFFICES ASSUME ParseInv, Accepted PROVE TermsAreSane
      BY DEF TermsAreSane
    <2>1. PICK I : I = Terms
      OBVIOUS
    <2>2. PICK e : e = parsed
      OBVIOUS
    <2>3. e \in ExprsOf(I)
      BY <2>1, <2>2, ParseReads DEF ParseInv, Accepted
    <2>4. e \in Seq(Link({"+", "-"}, ProductsOf(I))) /\ e # <<>> /\ TermCount(e) <= MaxTerms
      BY <2>3 DEF ExprsOf
    <2>5. PICK n \in Nat \ {0} : n = Len(e) /\ DOMAIN e = 1..n
      BY <2>4, EmptySeq, LenProperties
    <2>6. \A i \in 1..n : e[i].item \in Seq(I) /\ e[i].item # <<>>
      <3>. SUFFICES ASSUME NEW i \in 1..n
                    PROVE  e[i].item \in Seq(I) /\ e[i].item # <<>>
        OBVIOUS
      <3>1. e[i] \in Link({"+", "-"}, ProductsOf(I))
        BY <2>4, <2>5, ElementOfSeq
      <3>2. e[i].item \in ProductsOf(I)
        BY <3>1 DEF Link
      <3>. QED
        BY <3>2, EmptySeq DEF ProductsOf
    <2>7. TermsOf(e) \in Seq(I) /\ Len(TermsOf(e)) = TermCount(e) /\ TermCount(e) \in Nat \ {0}
      BY <2>5, <2>6, TermsAreCounted
    <2>8. Len(TermsOf(e)) \in 1..MaxTerms
      BY <2>4, <2>7, ParseAssumption
    <2>9. ASSUME NEW t \in I, "const" \notin DOMAIN t
          PROVE  /\ t.count \in 1..MaxDice
                 /\ t.sides \in (2..MaxSides) \cup {Fate}
                 /\ t.keep # None => t.keep.kind \in KeepKinds /\ t.keep.n \in 1..t.count
                 /\ t.sides = Fate => t.reroll = None /\ ~t.explode
      <3>1. t \in SaneTerms
        BY <2>1, <2>9 DEF Terms
      <3>2. t.keep \in KeepSuffix \cup {None}
        BY <3>1 DEF SaneTerms, TermRecord
      <3>3. t.keep # None => t.keep.kind \in KeepKinds
        BY <3>2 DEF KeepSuffix
      <3>. QED
        BY <3>1, <3>3 DEF SaneTerms, TermRecord
    <2>10. \A i \in DOMAIN TermsOf(e) : TermsOf(e)[i] \in I
      BY <2>7, LenProperties, ElementOfSeq
    <2>. QED
      BY <2>2, <2>8, <2>9, <2>10 DEF TermsAreSane
  <1>. QED
    BY <1>1, InputIsParsed, PTL

------------------------------------------------------------------------------
(* Suffixes that change places. *)

\* Two sequences that differ by the order of two neighbours.
Swaps(q, r, n, i) ==
  /\ i \in 1..n - 1
  /\ r[i] = q[i + 1]
  /\ r[i + 1] = q[i]
  /\ \A k \in 1..n : k # i /\ k # i + 1 => r[k] = q[k]

\* Two suffixes that change places leave the term as it was: those of one slot fail
\* in either order, those of two slots do not see each other.
LEMMA ParsedSwapped ==
  ASSUME NEW q, NEW r, NEW n \in Nat, DOMAIN q = 1..n, DOMAIN r = 1..n,
         \A k \in 1..n : q[k] \in Suffix, \A k \in 1..n : r[k] \in Suffix,
         NEW i, Swaps(q, r, n, i), NEW head
  PROVE  Parsed(head, q) = Parsed(head, r)
PROOF
  <1>1. PICK a \in [0..n -> TermOutcomes] :
          /\ a[0] = Bare(head)
          /\ \A k \in 1..n : a[k] = Read(a[k - 1], q[k])
          /\ a[n] = Parsed(head, q)
    BY ParsedUnfolds
  <1>2. PICK b \in [0..n -> TermOutcomes] :
          /\ b[0] = Bare(head)
          /\ \A k \in 1..n : b[k] = Read(b[k - 1], r[k])
          /\ b[n] = Parsed(head, r)
    BY ParsedUnfolds
  <1>3. i \in 1..n - 1 /\ i - 1 \in 0..n /\ i \in 1..n /\ i + 1 \in 1..n /\ i + 1 - 1 = i
    BY DEF Swaps
  <1>. DEFINE T == {k \in 0..n : \A m \in 0..k : m # i => a[m] = b[m]}
  <1>4. 0 \in T
    BY <1>1, <1>2
  <1>5. ASSUME NEW k \in 1..n, k - 1 \in T
        PROVE  k \in T
    <2>. SUFFICES ASSUME k # i
                  PROVE  a[k] = b[k]
      BY <1>5
    <2>1. k - 1 \in 0..n
      OBVIOUS
    <2>2. CASE k = i + 1
      <3>1. a[i - 1] = b[i - 1] /\ a[i - 1] \in TermOutcomes
        BY <1>3, <1>5, <2>2
      <3>2. a[i] = Read(a[i - 1], q[i]) /\ a[i + 1] = Read(a[i], q[i + 1])
        BY <1>1, <1>3
      <3>3. b[i] = Read(b[i - 1], q[i + 1]) /\ b[i + 1] = Read(b[i], q[i])
        BY <1>2, <1>3 DEF Swaps
      <3>4. q[i] \in Suffix /\ q[i + 1] \in Suffix
        BY <1>3
      <3>5. Read(Read(a[i - 1], q[i]), q[i + 1]) = Read(Read(a[i - 1], q[i + 1]), q[i])
        BY <3>1, <3>4, SuffixesCommute
      <3>. QED
        BY <2>2, <3>1, <3>2, <3>3, <3>5
    <2>3. CASE k # i + 1
      <3>1. k - 1 # i /\ k - 1 \in 0..k - 1
        BY <1>3, <2>3
      <3>2. a[k - 1] = b[k - 1]
        BY <1>5, <3>1
      <3>3. q[k] = r[k]
        BY <2>3 DEF Swaps
      <3>. QED
        BY <1>1, <1>2, <3>2, <3>3
    <2>. QED
      BY <2>2, <2>3
  <1>6. n \in T
    <2>1. n \in 0..n
      OBVIOUS
    <2>. HIDE DEF T
    <2>. QED
      BY <1>4, <1>5, <2>1, CountingUp
  <1>7. a[n] = b[n]
    BY <1>3, <1>6
  <1>. QED
    BY <1>1, <1>2, <1>7

SuffixWords == {"keep", "advdis", "reroll", "explode", "success"}

\* Two inputs that differ by the order of two suffixes side by side.
SwapsSuffixes(in, out, i) ==
  /\ in \in Seq(Token)
  /\ out \in Seq(Token)
  /\ Len(out) = Len(in)
  /\ Swaps(in, out, Len(in), i)
  /\ in[i] \in Suffix
  /\ in[i + 1] \in Suffix

\* Where the swap changes a token, both are suffixes.
LEMMA SwapKeepsTokens ==
  ASSUME NEW in, NEW out, NEW i, SwapsSuffixes(in, out, i)
  PROVE  /\ Len(in) \in Nat
         /\ DOMAIN in = 1..Len(in)
         /\ DOMAIN out = 1..Len(in)
         /\ \A p \in 1..Len(in) : in[p] \in Suffix <=> out[p] \in Suffix
         /\ \A p \in 1..Len(in) : in[p] \in Suffix \/ out[p] = in[p]
         /\ \A p : \/ TokenAt(in, p) = TokenAt(out, p)
                   \/ TokenAt(in, p) \in SuffixWords /\ TokenAt(out, p) \in SuffixWords
PROOF
  <1>1. Len(in) \in Nat /\ DOMAIN in = 1..Len(in) /\ DOMAIN out = 1..Len(in)
    BY LenProperties DEF SwapsSuffixes
  <1>2. i \in 1..Len(in) /\ i + 1 \in 1..Len(in)
    BY <1>1 DEF SwapsSuffixes, Swaps
  <1>3. out[i] \in Suffix /\ out[i + 1] \in Suffix /\ in[i] \in Suffix /\ in[i + 1] \in Suffix
    BY DEF SwapsSuffixes, Swaps
  <1>4. \A p \in 1..Len(in) : p # i /\ p # i + 1 => out[p] = in[p]
    BY DEF SwapsSuffixes, Swaps
  <1>5. \A s \in Suffix : s.what \in SuffixWords
    BY SuffixCases DEF SuffixWords
  <1>6. ASSUME NEW p
        PROVE  \/ TokenAt(in, p) = TokenAt(out, p)
               \/ TokenAt(in, p) \in SuffixWords /\ TokenAt(out, p) \in SuffixWords
    <2>1. CASE p = i \/ p = i + 1
      <3>1. TokenAt(in, p) = in[p].what /\ TokenAt(out, p) = out[p].what
        BY <1>1, <1>2, <2>1 DEF TokenAt
      <3>. QED
        BY <1>3, <1>5, <2>1, <3>1
    <2>2. CASE p # i /\ p # i + 1
      BY <1>1, <1>4, <2>2 DEF TokenAt
    <2>. QED
      BY <2>1, <2>2
  <1>. QED
    BY <1>1, <1>3, <1>4, <1>6

\* A token that is no suffix stands where it stood.
LEMMA SwapKeepsOthers ==
  ASSUME NEW in, NEW out, NEW i, SwapsSuffixes(in, out, i), NEW p,
         NEW c, c \notin SuffixWords
  PROVE  TokenAt(in, p) = c <=> TokenAt(out, p) = c
PROOF
  BY SwapKeepsTokens

\* No operator, blank or number is a suffix.
LEMMA NoSuffixWords ==
  /\ " " \notin SuffixWords
  /\ "d" \notin SuffixWords
  /\ "F" \notin SuffixWords
  /\ "%" \notin SuffixWords
  /\ "+" \notin SuffixWords
  /\ "-" \notin SuffixWords
  /\ "*" \notin SuffixWords
  /\ "number" \notin SuffixWords
PROOF
  BY Zenon DEF SuffixWords

\* Blanks, ends of suffixes, sides, terms, lists, products and expressions are read
\* alike before and after the swap.
LEMMA SwapKeepsBlanks ==
  ASSUME NEW in, NEW out, NEW i, SwapsSuffixes(in, out, i), NEW p
  PROVE  AfterBlanks(in, p) = AfterBlanks(out, p)
PROOF
  <1>1. \A q : TokenAt(in, q) = " " <=> TokenAt(out, q) = " "
    <2>1. \A q, c : c \notin SuffixWords => (TokenAt(in, q) = c <=> TokenAt(out, q) = c)
      BY SwapKeepsOthers
    <2>. QED
      BY <2>1, NoSuffixWords, Zenon
  <1>2. Len(out) = Len(in)
    BY DEF SwapsSuffixes
  <1>3. {q \in p..Len(in) + 1 : TokenAt(in, q) # " "}
          = {q \in p..Len(in) + 1 : TokenAt(out, q) # " "}
    BY <1>1, Zenon
  <1>. QED
    BY <1>2, <1>3, Zenon DEF AfterBlanks

LEMMA SwapKeepsEnds ==
  ASSUME NEW in, NEW out, NEW i, SwapsSuffixes(in, out, i), NEW p
  PROVE  EndOfSuffixes(in, p) = EndOfSuffixes(out, p)
PROOF
  <1>1. \A q : (q \notin DOMAIN in \/ in[q] \notin Suffix)
                 <=> (q \notin DOMAIN out \/ out[q] \notin Suffix)
    BY SwapKeepsTokens
  <1>2. Len(out) = Len(in)
    BY DEF SwapsSuffixes
  <1>3. {q \in p..Len(in) + 1 : q \notin DOMAIN in \/ in[q] \notin Suffix}
          = {q \in p..Len(in) + 1 : q \notin DOMAIN out \/ out[q] \notin Suffix}
    BY <1>1, Zenon
  <1>. QED
    BY <1>2, <1>3, Zenon DEF EndOfSuffixes

LEMMA SwapKeepsSides ==
  ASSUME NEW in, NEW out, NEW i, SwapsSuffixes(in, out, i), NEW p
  PROVE  /\ SidesAt(in, p) = SidesAt(out, p)
         /\ TokenAt(in, p) = "number" => in[p] = out[p]
         /\ p \in 1..Len(in) /\ in[p] \in Suffix => SidesAt(in, p) = None
PROOF
  <1>1. /\ TokenAt(in, p) = "F" <=> TokenAt(out, p) = "F"
        /\ TokenAt(in, p) = "%" <=> TokenAt(out, p) = "%"
        /\ TokenAt(in, p) = "number" <=> TokenAt(out, p) = "number"
    <2>1. \A c : c \notin SuffixWords => (TokenAt(in, p) = c <=> TokenAt(out, p) = c)
      BY SwapKeepsOthers
    <2>. QED
      BY <2>1, NoSuffixWords, Zenon
  <1>2. ASSUME TokenAt(in, p) = "number"
        PROVE  in[p] = out[p]
    <2>1. p \in DOMAIN in
      BY <1>2 DEF TokenAt
    <2>2. in[p].what = "number"
      BY <1>2, <2>1 DEF TokenAt
    <2>3. in[p] \notin Suffix
      BY <2>2, SuffixCases
    <2>. QED
      BY <2>1, <2>3, SwapKeepsTokens
  <1>3. ASSUME p \in 1..Len(in), in[p] \in Suffix
        PROVE  SidesAt(in, p) = None
    <2>1. TokenAt(in, p) \in SuffixWords
      BY <1>3, SwapKeepsTokens, SuffixCases DEF TokenAt, SuffixWords
    <2>. QED
      BY <2>1, NoSuffixWords, Zenon DEF SidesAt
  <1>4. SidesAt(in, p) = SidesAt(out, p)
    <2>1. CASE TokenAt(in, p) = "F"
      BY <1>1, <2>1, Zenon DEF SidesAt
    <2>2. CASE TokenAt(in, p) = "%"
      BY <1>1, <2>2, Zenon DEF SidesAt
    <2>3. CASE TokenAt(in, p) = "number"
      BY <1>1, <1>2, <2>3, Zenon DEF SidesAt
    <2>4. CASE TokenAt(in, p) # "F" /\ TokenAt(in, p) # "%" /\ TokenAt(in, p) # "number"
      BY <1>1, <2>4, Zenon DEF SidesAt
    <2>. QED
      BY <2>1, <2>2, <2>3, <2>4
  <1>. QED
    BY <1>2, <1>3, <1>4

\* What is read behind a d.
LEMMA SwapKeepsDice ==
  ASSUME NEW in, NEW out, NEW i, SwapsSuffixes(in, out, i), NEW count,
         NEW p \in 1..Len(in) + 1
  PROVE  DiceBody(in, count, p) = DiceBody(out, count, p)
PROOF
  <1>1. PICK head : head = [count |-> count, sides |-> SidesAt(in, p)]
    OBVIOUS
  <1>2. PICK e : e = EndOfSuffixes(in, p + 1)
    OBVIOUS
  <1>3. PICK q, r : q = SubSeq(in, p + 1, e - 1) /\ r = SubSeq(out, p + 1, e - 1)
    OBVIOUS
  <1>4. DiceBody(in, count, p) = Stopped(DiceOf(head, q), e)
    BY <1>1, <1>2, <1>3 DEF DiceBody, DiceUpTo
  <1>5. DiceBody(out, count, p) = Stopped(DiceOf(head, r), e)
    <2>1. SidesAt(out, p) = SidesAt(in, p) /\ EndOfSuffixes(out, p + 1) = e
      BY <1>2, SwapKeepsSides, SwapKeepsEnds
    <2>. QED
      BY <1>1, <1>3, <2>1 DEF DiceBody, DiceUpTo
  <1>6. head.sides = SidesAt(in, p)
    BY <1>1
  <1>7. CASE SidesAt(in, p) = None
    BY <1>4, <1>5, <1>6, <1>7 DEF DiceOf
  <1>8. CASE SidesAt(in, p) # None
    <2>1. /\ Len(in) \in Nat /\ DOMAIN in = 1..Len(in)
          /\ \A k \in 1..Len(in) : in[k] \in Suffix <=> out[k] \in Suffix
      BY SwapKeepsTokens
    <2>2. p \in 1..Len(in) /\ in[p] \notin Suffix
      BY <1>8, <2>1, SidesAreWritten, SwapKeepsSides
    <2>3. p + 1 \in 1..Len(in) + 1
      BY <2>1, <2>2
    <2>4. /\ e \in p + 1..Len(in) + 1
          /\ \A k \in p + 1..e - 1 : k \in 1..Len(in) /\ in[k] \in Suffix
          /\ ~(e \in 1..Len(in) /\ in[e] \in Suffix)
      BY <1>2, <2>1, <2>3, SuffixesEnd DEF SwapsSuffixes
    <2>5. PICK b \in Nat : b = e - 1
      BY <2>1, <2>2, <2>4
    <2>6. PICK n \in Nat : n = b - p
      BY <2>1, <2>2, <2>4, <2>5
    <2>7. b <= Len(in) /\ p + 1 <= b + 1 /\ p + 1 \in Nat \ {0} /\ b + 1 - (p + 1) = n
      BY <2>1, <2>2, <2>4, <2>5, <2>6
    <2>8. /\ DOMAIN q = 1..n /\ \A k \in 1..n : q[k] = in[p + 1 + k - 1]
          /\ q \in Seq(Token)
      BY <1>3, <2>5, <2>7, Cut DEF SwapsSuffixes
    <2>9. /\ DOMAIN r = 1..n /\ \A k \in 1..n : r[k] = out[p + 1 + k - 1]
          /\ r \in Seq(Token)
      BY <1>3, <2>5, <2>7, Cut DEF SwapsSuffixes
    <2>10. \A k \in 1..n : /\ p + k \in p + 1..e - 1
                           /\ q[k] = in[p + k]
                           /\ r[k] = out[p + k]
      <3>. TAKE k \in 1..n
      <3>1. p + 1 + k - 1 = p + k /\ p + k \in p + 1..e - 1
        BY <2>2, <2>5, <2>6, <2>4
      <3>. QED
        BY <2>8, <2>9, <3>1
    <2>11. \A k \in 1..n : q[k] \in Suffix /\ r[k] \in Suffix
      BY <2>1, <2>4, <2>10
    <2>12. /\ i \in 1..Len(in) - 1
           /\ in[i] \in Suffix /\ in[i + 1] \in Suffix
           /\ out[i] = in[i + 1] /\ out[i + 1] = in[i]
           /\ \A k \in 1..Len(in) : k # i /\ k # i + 1 => out[k] = in[k]
      BY DEF SwapsSuffixes, Swaps
    <2>13. i # p /\ i + 1 # e /\ i + 1 # p
      BY <2>1, <2>2, <2>4, <2>12
    <2>14. CASE i \in p + 1..e - 1
      <3>1. PICK j \in 1..n - 1 : i = p + j
        <4>1. i - p \in 1..n - 1 /\ i = p + (i - p)
          BY <2>2, <2>4, <2>5, <2>6, <2>12, <2>13, <2>14
        <4>. QED
          BY <4>1
      <3>2. j \in 1..n /\ j + 1 \in 1..n /\ p + (j + 1) = i + 1
        BY <2>2, <3>1
      <3>3. r[j] = q[j + 1] /\ r[j + 1] = q[j]
        BY <2>10, <2>12, <3>1, <3>2
      <3>4. \A k \in 1..n : k # j /\ k # j + 1 => r[k] = q[k]
        <4>. SUFFICES ASSUME NEW k \in 1..n, k # j, k # j + 1
                      PROVE  r[k] = q[k]
          OBVIOUS
        <4>1. p + k # i /\ p + k # i + 1
          BY <2>2, <3>1, <3>2
        <4>2. p + k \in 1..Len(in)
          BY <2>4, <2>10
        <4>. QED
          BY <2>10, <2>12, <4>1, <4>2
      <3>5. Swaps(q, r, n, j)
        BY <3>1, <3>3, <3>4 DEF Swaps
      <3>6. Parsed(head, q) = Parsed(head, r)
        BY <2>8, <2>9, <2>11, <3>5, ParsedSwapped
      <3>. QED
        BY <1>4, <1>5, <3>6 DEF DiceOf
    <2>15. CASE i \notin p + 1..e - 1
      <3>1. \A k \in 1..n : q[k] = r[k]
        <4>. TAKE k \in 1..n
        <4>1. p + k \in p + 1..e - 1 /\ p + k \in 1..Len(in)
          BY <2>4, <2>10
        <4>2. p + k # i /\ p + k # i + 1
          BY <2>1, <2>2, <2>4, <2>12, <2>13, <2>15, <4>1
        <4>. QED
          BY <2>10, <2>12, <4>1, <4>2
      <3>2. q = [k \in 1..n |-> q[k]] /\ r = [k \in 1..n |-> r[k]]
        <4>1. Len(q) = n /\ Len(r) = n
          BY <2>6, <2>8, <2>9, LenProperties
        <4>. QED
          BY <2>8, <2>9, <4>1, LenProperties
      <3>3. q = r
        BY <3>1, <3>2
      <3>. QED
        BY <1>4, <1>5, <3>3
    <2>. QED
      BY <2>14, <2>15
  <1>. QED
    BY <1>7, <1>8

LEMMA SwapKeepsTerms ==
  ASSUME NEW in, NEW out, NEW i, SwapsSuffixes(in, out, i), NEW p \in 1..Len(in) + 1
  PROVE  Term(in, p) = Term(out, p)
PROOF
  <1>1. Len(in) \in Nat /\ DOMAIN in = 1..Len(in)
    BY SwapKeepsTokens
  <1>2. \A k \in Nat : TokenAt(in, k) \in {"d", "number"} => k \in 1..Len(in)
    BY <1>1 DEF TokenAt
  <1>3. \A k : /\ TokenAt(in, k) = "d" <=> TokenAt(out, k) = "d"
               /\ TokenAt(in, k) = "number" <=> TokenAt(out, k) = "number"
               /\ TokenAt(in, k) = "number" => in[k] = out[k]
    <2>1. \A k, c : c \notin SuffixWords => (TokenAt(in, k) = c <=> TokenAt(out, k) = c)
      BY SwapKeepsOthers
    <2>2. \A k : TokenAt(in, k) = "number" => in[k] = out[k]
      BY SwapKeepsSides
    <2>. QED
      BY <2>1, <2>2, NoSuffixWords
  <1>4. CASE TokenAt(in, p) = "d"
    <2>1. p + 1 \in 1..Len(in) + 1
      BY <1>1, <1>2, <1>4
    <2>2. DiceBody(in, 1, p + 1) = DiceBody(out, 1, p + 1)
      BY <2>1, SwapKeepsDice
    <2>. QED
      BY <1>3, <1>4, <2>2 DEF Term
  <1>5. CASE TokenAt(in, p) = "number" /\ TokenAt(in, p + 1) = "d"
    <2>1. p + 2 \in 1..Len(in) + 1
      BY <1>1, <1>2, <1>5
    <2>2. DiceBody(in, in[p].n, p + 2) = DiceBody(out, in[p].n, p + 2)
      BY <2>1, SwapKeepsDice
    <2>3. in[p] = out[p]
      BY <1>3, <1>5
    <2>4. Term(in, p) = DiceBody(in, in[p].n, p + 2)
      BY <1>5 DEF Term
    <2>5. Term(out, p) = DiceBody(out, out[p].n, p + 2)
      BY <1>3, <1>5 DEF Term
    <2>. QED
      BY <2>2, <2>3, <2>4, <2>5
  <1>6. CASE /\ TokenAt(in, p) # "d"
             /\ ~(TokenAt(in, p) = "number" /\ TokenAt(in, p + 1) = "d")
    <2>1. Term(in, p) = ConstTerm(in, p)
      BY <1>6 DEF Term
    <2>2. Term(out, p) = ConstTerm(out, p)
      BY <1>3, <1>6 DEF Term
    <2>. QED
      BY <1>3, <2>1, <2>2 DEF ConstTerm
  <1>. QED
    BY <1>4, <1>5, <1>6

LEMMA SwapKeepsMany ==
  ASSUME NEW in, NEW out, NEW i, SwapsSuffixes(in, out, i),
         NEW ops, "end" \notin ops, ops \cap SuffixWords = {},
         NEW I, NEW items, ReadsItems(in, items, I), NEW p \in 1..Len(in) + 1
  PROVE  Many(in, p, ops, items) = Many(out, p, ops, items)
PROOF
  <1>1. PICK m \in Nat : m = Len(in) + 1
    BY SwapKeepsTokens
  <1>2. in \in Seq(Token) /\ out \in Seq(Token) /\ Len(out) + 1 = m
    BY <1>1 DEF SwapsSuffixes
  <1>3. ReadsItems(out, items, I)
    BY <1>1, <1>2 DEF ReadsItems
  <1>4. PICK g : /\ \A q \in 1..m : Many(in, q, ops, items) = g[q]
                 /\ \A q \in 1..m : g[q] = ManyAt(in, ops, items, g, q)
    BY <1>1, <1>2, ManyUnfolds
  <1>5. PICK h : /\ \A q \in 1..m : Many(out, q, ops, items) = h[q]
                 /\ \A q \in 1..m : h[q] = ManyAt(out, ops, items, h, q)
    BY <1>2, <1>3, ManyUnfolds
  <1>6. \A q : AfterBlanks(in, q) = AfterBlanks(out, q)
    BY SwapKeepsBlanks
  <1>7. \A q : ItemAt(in, items, q) = ItemAt(out, items, q)
    BY <1>6 DEF ItemAt
  <1>8. \A q : \/ OpAt(in, q) = OpAt(out, q)
               \/ OpAt(in, q) \notin ops /\ OpAt(out, q) \notin ops
    BY <1>6, SwapKeepsTokens DEF OpAt
  <1>. DEFINE T == {q \in 1..m : g[q] = h[q]}
  <1>9. ASSUME NEW q \in 1..m, \A k \in q + 1..m : k \in T
        PROVE  q \in T
    <2>1. CASE OpAt(in, q) \notin ops
      BY <1>4, <1>5, <1>8, <2>1 DEF ManyAt
    <2>2. CASE OpAt(in, q) \in ops /\ ItemAt(in, items, q) = Refused
      BY <1>4, <1>5, <1>7, <1>8, <2>2 DEF ManyAt
    <2>3. CASE OpAt(in, q) \in ops /\ ItemAt(in, items, q) # Refused
      <3>1. ItemAt(in, items, q) \in Reads(I, q + 1, m)
        BY <1>1, <1>2, <2>3, ItemsStandBehind
      <3>2. PICK k \in q + 1..m : k = ItemAt(in, items, q).at
        BY <2>3, <3>1 DEF Reads
      <3>3. g[k] = h[k]
        BY <1>9
      <3>4. g[q] = Followed(OpAt(in, q), ItemAt(in, items, q), g[k])
        BY <1>4, <2>3, <3>2 DEF ManyAt
      <3>5. h[q] = Followed(OpAt(in, q), ItemAt(in, items, q), h[k])
        BY <1>5, <1>7, <1>8, <2>3, <3>2 DEF ManyAt
      <3>. QED
        BY <3>3, <3>4, <3>5
    <2>. QED
      BY <2>1, <2>2, <2>3
  <1>10. p \in T
    <2>. HIDE DEF T
    <2>. QED
      BY <1>1, <1>9, CountingDown
  <1>. QED
    BY <1>1, <1>4, <1>5, <1>10

LEMMA SwapKeepsProducts ==
  ASSUME NEW in, NEW out, NEW i, SwapsSuffixes(in, out, i), NEW p \in 1..Len(in) + 1
  PROVE  Product(in, p) = Product(out, p)
PROOF
  <1>1. in \in Seq(Token) /\ Len(out) = Len(in)
    BY DEF SwapsSuffixes
  <1>2. PICK items : items = [q \in 1..Len(in) + 1 |-> Term(in, q)]
    OBVIOUS
  <1>3. items = [q \in 1..Len(out) + 1 |-> Term(out, q)]
    BY <1>1, <1>2, SwapKeepsTerms
  <1>4. PICK first : first = Term(in, p) /\ first = Term(out, p)
    BY SwapKeepsTerms
  <1>5. CASE first = Refused
    BY <1>4, <1>5 DEF Product, ProductFrom
  <1>6. CASE first # Refused
    <2>1. PICK I : I = Terms
      OBVIOUS
    <2>2. first \in Reads(I, p + 1, Len(in) + 1)
      BY <1>1, <1>4, <2>1, TermReads
    <2>3. first.at \in 1..Len(in) + 1
      <3>1. first.at \in p + 1..Len(in) + 1 /\ Len(in) \in Nat
        BY <1>1, <1>6, <2>2, LenProperties DEF Reads
      <3>. QED
        BY <3>1
    <2>4. ReadsItems(in, items, I)
      BY <1>1, <1>2, <2>1, TermReads DEF ReadsItems
    <2>5. PICK ops : ops = {"*"}
      OBVIOUS
    <2>6. "end" \notin ops /\ ops \cap SuffixWords = {}
      BY <2>5, Zenon DEF SuffixWords
    <2>7. PICK q \in 1..Len(in) + 1 : q = first.at
      BY <2>3
    <2>8. Many(in, q, ops, items) = Many(out, q, ops, items)
      BY <2>4, <2>6, SwapKeepsMany
    <2>. QED
      BY <1>2, <1>3, <1>4, <2>5, <2>7, <2>8 DEF Product, ProductFrom
  <1>. QED
    BY <1>5, <1>6

LEMMA SwapKeepsExprs ==
  ASSUME NEW in, NEW out, NEW i, SwapsSuffixes(in, out, i), NEW p \in 1..Len(in) + 1
  PROVE  Expr(in, p) = Expr(out, p)
PROOF
  <1>1. in \in Seq(Token) /\ Len(out) = Len(in)
    BY DEF SwapsSuffixes
  <1>2. PICK items : items = [q \in 1..Len(in) + 1 |-> Product(in, q)]
    OBVIOUS
  <1>3. items = [q \in 1..Len(out) + 1 |-> Product(out, q)]
    BY <1>1, <1>2, SwapKeepsProducts
  <1>4. PICK o : o = AfterBlanks(in, p) /\ o = AfterBlanks(out, p)
    BY SwapKeepsBlanks
  <1>5. o \in 1..Len(in) + 1
    <2>1. o \in p..Len(in) + 1 /\ Len(in) \in Nat
      BY <1>1, <1>4, BlanksEnd, LenProperties
    <2>. QED
      BY <2>1
  <1>6. PICK first : first = Product(in, o) /\ first = Product(out, o)
    BY <1>5, SwapKeepsProducts
  <1>7. CASE first = Refused
    BY <1>4, <1>6, <1>7 DEF Expr, ExprFrom
  <1>8. CASE first # Refused
    <2>1. PICK I : I = ProductsOf(Terms)
      OBVIOUS
    <2>2. first \in Reads(I, o + 1, Len(in) + 1)
      BY <1>1, <1>5, <1>6, <2>1, ProductReads
    <2>3. first.at \in 1..Len(in) + 1
      <3>1. first.at \in o + 1..Len(in) + 1 /\ Len(in) \in Nat
        BY <1>1, <1>8, <2>2, LenProperties DEF Reads
      <3>. QED
        BY <1>5, <3>1
    <2>4. ReadsItems(in, items, I)
      BY <1>1, <1>2, <2>1, ProductReads DEF ReadsItems
    <2>5. PICK ops : ops = {"+", "-"}
      OBVIOUS
    <2>6. "end" \notin ops /\ ops \cap SuffixWords = {}
      BY <2>5, Zenon DEF SuffixWords
    <2>7. PICK q \in 1..Len(in) + 1 : q = first.at
      BY <2>3
    <2>8. Many(in, q, ops, items) = Many(out, q, ops, items)
      BY <2>4, <2>6, SwapKeepsMany
    <2>. QED
      BY <1>2, <1>3, <1>4, <1>6, <2>5, <2>7, <2>8 DEF Expr, ExprFrom
  <1>. QED
    BY <1>7, <1>8

\* The suffixes of a term are a set, not a list: swapping two of them that stand side
\* by side anywhere in an input changes neither whether it is accepted nor what it
\* is read as (parse_suffixes and apply_suffix, lib.rs).
THEOREM SuffixesMayBeSwapped == Spec => []SuffixOrderIrrelevant
PROOF
  <1>1. ParseInv => SuffixOrderIrrelevant
    <2>. SUFFICES ASSUME input \in Seq(Token), parsed = Parse(input),
                         NEW i \in 1..Len(input) - 1,
                         input[i] \in Suffix, input[i + 1] \in Suffix
                  PROVE  Parse([input EXCEPT ![i] = input[i + 1], ![i + 1] = input[i]]) = parsed
      BY DEF SuffixOrderIrrelevant, ParseInv
    <2>1. PICK in : in = input
      OBVIOUS
    <2>15. PICK n \in Nat : n = Len(input)
      BY LenProperties
    <2>2. in \in Seq(Token) /\ in \in [1..n -> Token] /\ Len(in) = n
      BY <2>1, <2>15, LenProperties
    <2>3. i \in 1..n /\ i + 1 \in 1..n /\ i \in 1..n - 1 /\ i # i + 1
      BY <2>15
    <2>4. PICK mid : mid = [in EXCEPT ![i] = in[i + 1]]
      OBVIOUS
    <2>5. PICK out : out = [mid EXCEPT ![i + 1] = in[i]]
      OBVIOUS
    <2>6. in[i] \in Token /\ in[i + 1] \in Token
      BY <2>2, <2>3
    <2>7. mid \in [1..n -> Token] /\ mid[i] = in[i + 1] /\ \A k \in 1..n : k # i => mid[k] = in[k]
      BY <2>2, <2>3, <2>4, <2>6
    <2>8. /\ out \in [1..n -> Token]
          /\ out[i] = in[i + 1]
          /\ out[i + 1] = in[i]
          /\ \A k \in 1..n : k # i /\ k # i + 1 => out[k] = in[k]
      BY <2>3, <2>5, <2>6, <2>7
    <2>9. out \in Seq(Token) /\ Len(out) = n
      BY <2>8, SeqDef, LenProperties
    <2>10. SwapsSuffixes(in, out, i)
      BY <2>1, <2>2, <2>3, <2>8, <2>9 DEF SwapsSuffixes, Swaps
    <2>11. Expr(in, 1) = Expr(out, 1)
      <3>1. 1 \in 1..Len(in) + 1
        BY <2>2
      <3>. QED
        BY <2>10, <3>1, SwapKeepsExprs
    <2>12. \A p : AfterBlanks(in, p) = AfterBlanks(out, p)
      BY <2>10, SwapKeepsBlanks
    <2>13. Parse(in) = Parse(out)
      BY <2>2, <2>9, <2>11, <2>12 DEF Parse, Whole
    <2>14. out = [input EXCEPT ![i] = input[i + 1], ![i + 1] = input[i]]
      BY <2>1, <2>4, <2>5
    <2>. QED
      BY <2>1, <2>13, <2>14
  <1>. QED
    BY <1>1, InputIsParsed, PTL

------------------------------------------------------------------------------
(* What is printed of a term. *)

\* One more suffix is read into what the others made.
LEMMA ParsedAppend ==
  ASSUME NEW q \in Seq(Suffix), NEW s \in Suffix, NEW head
  PROVE  Parsed(head, q \o <<s>>) = Read(Parsed(head, q), s)
PROOF
  <1>1. PICK n \in Nat : n = Len(q) /\ DOMAIN q = 1..n
    BY LenProperties
  <1>2. PICK r : r = q \o <<s>>
    OBVIOUS
  <1>3. <<s>> \in Seq(Suffix) /\ Len(<<s>>) = 1 /\ <<s>>[1] = s
    OBVIOUS
  <1>4. /\ r \in Seq(Suffix)
        /\ Len(r) = n + 1
        /\ \A k \in 1..n + 1 : r[k] = IF k <= n THEN q[k] ELSE <<s>>[k - n]
    BY <1>1, <1>2, <1>3, ConcatProperties
  <1>5. /\ n + 1 \in Nat /\ DOMAIN r = 1..n + 1
        /\ \A k \in 1..n + 1 : r[k] \in Suffix
        /\ \A k \in 1..n : q[k] \in Suffix
    BY <1>1, <1>4, LenProperties, ElementOfSeq
  <1>6. PICK a \in [0..n -> TermOutcomes] :
          /\ a[0] = Bare(head)
          /\ \A k \in 1..n : a[k] = Read(a[k - 1], q[k])
          /\ a[n] = Parsed(head, q)
    BY <1>1, <1>5, ParsedUnfolds
  <1>7. PICK b \in [0..n + 1 -> TermOutcomes] :
          /\ b[0] = Bare(head)
          /\ \A k \in 1..n + 1 : b[k] = Read(b[k - 1], r[k])
          /\ b[n + 1] = Parsed(head, r)
    BY <1>5, ParsedUnfolds
  <1>. DEFINE T == {k \in 0..n : a[k] = b[k]}
  <1>8. 0 \in T
    BY <1>6, <1>7
  <1>9. ASSUME NEW k \in 1..n, k - 1 \in T
        PROVE  k \in T
    <2>1. r[k] = q[k] /\ k \in 1..n + 1
      BY <1>4
    <2>2. a[k - 1] = b[k - 1]
      BY <1>9
    <2>3. a[k] = b[k]
      BY <1>6, <1>7, <2>1, <2>2
    <2>. QED
      BY <2>3
  <1>10. n \in T
    <2>1. n \in 0..n
      OBVIOUS
    <2>. HIDE DEF T
    <2>. QED
      BY <1>8, <1>9, <2>1, CountingUp
  <1>11. b[n + 1] = Read(b[n], s)
    <2>1. n + 1 \in 1..n + 1 /\ n + 1 - 1 = n /\ ~(n + 1 <= n) /\ n + 1 - n = 1
      OBVIOUS
    <2>2. r[n + 1] = s
      BY <1>3, <1>4, <2>1
    <2>. QED
      BY <1>7, <2>1, <2>2
  <1>. QED
    BY <1>2, <1>6, <1>7, <1>10, <1>11

\* What a suffix makes of a term with these fields when it is read.
LEMMA ReadFields ==
  ASSUME NEW c, NEW z, NEW r, NEW e \in BOOLEAN, NEW k, NEW u, NEW s,
         TermFields(c, z, r, e, k, u) \in SaneTerms
  PROVE  SuffixMakes(Read(TermFields(c, z, r, e, k, u), s), s, c, z, r, e, k, u)
PROOF
  <1>1. TermFields(c, z, r, e, k, u) # Refused
    BY OutcomeAssumption DEF SaneTerms
  <1>. QED
    BY <1>1, SuffixResults DEF Read

\* A suffix that Display prints, or not.
Shown(part, given, s) ==
  /\ given => s \in Suffix /\ part = <<s>>
  /\ ~given => part = <<>>

\* A suffix that is printed only where the term has it is read only there.
LEMMA ShownIsRead ==
  ASSUME NEW q \in Seq(Suffix), NEW part, NEW given \in BOOLEAN, NEW s,
         Shown(part, given, s), NEW head
  PROVE  /\ q \o part \in Seq(Suffix)
         /\ Parsed(head, q \o part) = IF given THEN Read(Parsed(head, q), s) ELSE Parsed(head, q)
PROOF
  <1>1. CASE given
    <2>1. s \in Suffix /\ part = <<s>>
      BY <1>1 DEF Shown
    <2>2. <<s>> \in Seq(Suffix)
      BY <2>1
    <2>3. q \o <<s>> \in Seq(Suffix)
      BY <2>2, ConcatProperties
    <2>. QED
      BY <1>1, <2>1, <2>3, ParsedAppend
  <1>2. CASE ~given
    <2>1. q \o part = q
      BY <1>2, ConcatEmptySeq DEF Shown
    <2>. QED
      BY <1>2, <2>1
  <1>. QED
    BY <1>1, <1>2

\* The canonical form of a term reads back as the term.
LEMMA CanonicalReadsBack ==
  ASSUME NEW t \in SaneTerms
  PROVE  /\ Canonical(t) \in Seq(Suffix)
         /\ Parsed([count |-> t.count, sides |-> t.sides], Canonical(t)) = t
PROOF
  <1>1. PICK c, z, r, e, k, u :
          /\ c = t.count /\ z = t.sides /\ r = t.reroll
          /\ e = t.explode /\ k = t.keep /\ u = t.success
    OBVIOUS
  <1>2. /\ c \in 1..MaxDice
        /\ z \in (2..MaxSides) \cup {Fate}
        /\ r \in RerollSuffix \cup {None}
        /\ e \in BOOLEAN
        /\ k \in KeepSuffix \cup {None}
        /\ u \in SuccessSuffix \cup {None}
        /\ k # None => k.n \in 1..c
        /\ z = Fate => r = None /\ ~e
    BY <1>1 DEF SaneTerms, TermRecord
  <1>3. t = TermFields(c, z, r, e, k, u)
    BY <1>1, TermHasFields DEF SaneTerms
  <1>4. /\ TermFields(c, z, None, FALSE, None, None) \in SaneTerms
        /\ TermFields(c, z, r, FALSE, None, None) \in SaneTerms
        /\ TermFields(c, z, r, e, None, None) \in SaneTerms
        /\ TermFields(c, z, r, e, k, None) \in SaneTerms
    BY <1>2, FieldsAreSane
  <1>5. PICK sr, se, sk, su :
          /\ sr = [what |-> "reroll", kind |-> r.kind, n |-> r.n]
          /\ se = [what |-> "explode"]
          /\ sk = [what |-> "keep", kind |-> k.kind, n |-> k.n]
          /\ su = [what |-> "success", cmp |-> u.cmp, n |-> u.n]
    OBVIOUS
  <1>6. PICK pr, pe, pk, pu :
          /\ pr = IF r = None THEN <<>> ELSE <<sr>>
          /\ pe = IF e THEN <<se>> ELSE <<>>
          /\ pk = IF k = None THEN <<>> ELSE <<sk>>
          /\ pu = IF u = None THEN <<>> ELSE <<su>>
    OBVIOUS
  <1>7. Canonical(t) = pr \o pe \o pk \o pu
    BY <1>1, <1>5, <1>6 DEF Canonical
  <1>8. PICK gr, ge, gk, gu :
          /\ gr = (r # None) /\ ge = e /\ gk = (k # None) /\ gu = (u # None)
    OBVIOUS
  <1>9. /\ Shown(pr, gr, sr) /\ gr \in BOOLEAN
        /\ Shown(pe, ge, se) /\ ge \in BOOLEAN
        /\ Shown(pk, gk, sk) /\ gk \in BOOLEAN
        /\ Shown(pu, gu, su) /\ gu \in BOOLEAN
    <2>1. r # None => sr \in Suffix
      BY <1>2, <1>5 DEF RerollSuffix, Suffix
    <2>2. se \in Suffix
      BY <1>5 DEF Suffix
    <2>3. k # None => sk \in Suffix
      BY <1>2, <1>5 DEF KeepSuffix, Suffix
    <2>4. u # None => su \in Suffix
      BY <1>2, <1>5 DEF SuccessSuffix, Suffix
    <2>. QED
      BY <1>2, <1>6, <1>8, <2>1, <2>2, <2>3, <2>4 DEF Shown
  <1>10. PICK head : head = [count |-> t.count, sides |-> t.sides]
    OBVIOUS
  <1>11. Parsed(head, <<>>) = TermFields(c, z, None, FALSE, None, None)
    <2>1. Parsed(head, <<>>) = Bare(head)
      <3>1. PICK q : q = <<>>
        OBVIOUS
      <3>2. q \in Seq(Suffix) /\ Len(q) = 0
        BY <3>1
      <3>3. DOMAIN q = 1..0
        BY <3>2, LenProperties
      <3>4. \A i \in 1..0 : q[i] \in Suffix
        OBVIOUS
      <3>5. \E a \in [0..0 -> TermOutcomes] : a[0] = Bare(head) /\ a[0] = Parsed(head, q)
        BY <3>3, <3>4, ParsedUnfolds
      <3>. QED
        BY <3>1, <3>5
    <2>2. head.count = c /\ head.sides = z
      BY <1>1, <1>10
    <2>3. c \in 1..MaxDice /\ (z = Fate \/ z \in 2..MaxSides)
      BY <1>2
    <2>. QED
      BY <2>1, <2>2, <2>3 DEF Bare, TermFields
  <1>12. /\ pr \in Seq(Suffix)
         /\ Parsed(head, pr) = TermFields(c, z, r, FALSE, None, None)
    <2>1. <<>> \in Seq(Suffix) /\ Shown(pr, gr, sr) /\ gr \in BOOLEAN
      BY <1>9
    <2>2. /\ <<>> \o pr \in Seq(Suffix)
          /\ Parsed(head, <<>> \o pr)
                = IF gr THEN Read(Parsed(head, <<>>), sr) ELSE Parsed(head, <<>>)
      BY <2>1, Zenon, ShownIsRead
    <2>3. pr \in Seq(Suffix)
      <3>1. CASE gr
        <4>1. sr \in Suffix /\ pr = <<sr>>
          BY <1>9, <3>1 DEF Shown
        <4>. QED
          BY <4>1
      <3>2. CASE ~gr
        <4>1. pr = <<>>
          BY <1>9, <3>2 DEF Shown
        <4>. QED
          BY <4>1
      <3>. QED
        BY <3>1, <3>2
    <2>4. <<>> \o pr = pr
      BY <2>3, ConcatEmptySeq
    <2>5. CASE r # None
      <3>1. SuffixMakes(Read(TermFields(c, z, None, FALSE, None, None), sr), sr,
                        c, z, None, FALSE, None, None)
        BY <1>4, ReadFields
      <3>2. sr.what = "reroll" /\ [kind |-> sr.kind, n |-> sr.n] = r
        BY <1>2, <1>5, <2>5 DEF RerollSuffix
      <3>3. z # Fate
        BY <1>2, <2>5
      <3>. QED
        BY <1>8, <1>11, <2>2, <2>3, <2>4, <2>5, <3>1, <3>2, <3>3 DEF SuffixMakes
    <2>6. CASE r = None
      BY <1>8, <1>11, <2>2, <2>3, <2>4, <2>6
    <2>. QED
      BY <2>5, <2>6
  <1>13. /\ pr \o pe \in Seq(Suffix)
         /\ Parsed(head, pr \o pe) = TermFields(c, z, r, e, None, None)
    <2>. pr \in Seq(Suffix) /\ Shown(pe, ge, se) /\ ge \in BOOLEAN
      BY <1>9, <1>12
    <2>1. /\ pr \o pe \in Seq(Suffix)
          /\ Parsed(head, pr \o pe) = IF ge THEN Read(Parsed(head, pr), se) ELSE Parsed(head, pr)
      BY Zenon, ShownIsRead
    <2>2. CASE e = TRUE
      <3>1. SuffixMakes(Read(TermFields(c, z, r, FALSE, None, None), se), se,
                        c, z, r, FALSE, None, None)
        BY <1>4, ReadFields
      <3>2. se.what = "explode" /\ z # Fate
        BY <1>2, <1>5, <2>2
      <3>3. Read(TermFields(c, z, r, FALSE, None, None), se)
              = TermFields(c, z, r, TRUE, None, None)
        BY <3>1, <3>2 DEF SuffixMakes
      <3>. QED
        BY <1>8, <1>12, <2>1, <2>2, <3>3
    <2>3. CASE e = FALSE
      BY <1>8, <1>12, <2>1, <2>3
    <2>. QED
      BY <1>2, <2>2, <2>3
  <1>14. /\ pr \o pe \o pk \in Seq(Suffix)
         /\ Parsed(head, pr \o pe \o pk) = TermFields(c, z, r, e, k, None)
    <2>1. /\ pr \o pe \o pk \in Seq(Suffix)
          /\ Parsed(head, pr \o pe \o pk)
               = IF gk THEN Read(Parsed(head, pr \o pe), sk) ELSE Parsed(head, pr \o pe)
      <3>1. PICK q : q = pr \o pe
        OBVIOUS
      <3>2. q \in Seq(Suffix) /\ Shown(pk, gk, sk) /\ gk \in BOOLEAN
        BY <1>9, <1>13, <3>1
      <3>3. /\ q \o pk \in Seq(Suffix)
            /\ Parsed(head, q \o pk) = IF gk THEN Read(Parsed(head, q), sk) ELSE Parsed(head, q)
        BY <3>2, Zenon, ShownIsRead
      <3>. QED
        BY <3>1, <3>3
    <2>2. CASE k # None
      <3>1. SuffixMakes(Read(TermFields(c, z, r, e, None, None), sk), sk, c, z, r, e, None, None)
        BY <1>2, <1>4, ReadFields
      <3>2. sk.what = "keep" /\ [kind |-> sk.kind, n |-> sk.n] = k /\ sk.n \in 1..c
        BY <1>2, <1>5, <2>2 DEF KeepSuffix
      <3>3. Read(TermFields(c, z, r, e, None, None), sk) = TermFields(c, z, r, e, k, None)
        BY <3>1, <3>2 DEF SuffixMakes
      <3>. QED
        BY <1>8, <1>13, <2>1, <2>2, <3>3
    <2>3. CASE k = None
      BY <1>8, <1>13, <2>1, <2>3
    <2>. QED
      BY <2>2, <2>3
  <1>15. /\ pr \o pe \o pk \o pu \in Seq(Suffix)
         /\ Parsed(head, pr \o pe \o pk \o pu) = TermFields(c, z, r, e, k, u)
    <2>1. /\ pr \o pe \o pk \o pu \in Seq(Suffix)
          /\ Parsed(head, pr \o pe \o pk \o pu)
               = IF gu THEN Read(Parsed(head, pr \o pe \o pk), su)
                 ELSE Parsed(head, pr \o pe \o pk)
      <3>1. PICK q : q = pr \o pe \o pk
        OBVIOUS
      <3>2. q \in Seq(Suffix) /\ Shown(pu, gu, su) /\ gu \in BOOLEAN
        BY <1>9, <1>14, <3>1
      <3>3. /\ q \o pu \in Seq(Suffix)
            /\ Parsed(head, q \o pu) = IF gu THEN Read(Parsed(head, q), su) ELSE Parsed(head, q)
        BY <3>2, Zenon, ShownIsRead
      <3>. QED
        BY <3>1, <3>3
    <2>2. CASE u # None
      <3>1. SuffixMakes(Read(TermFields(c, z, r, e, k, None), su), su, c, z, r, e, k, None)
        BY <1>2, <1>4, ReadFields
      <3>2. su.what = "success" /\ [cmp |-> su.cmp, n |-> su.n] = u
        BY <1>2, <1>5, <2>2 DEF SuccessSuffix
      <3>3. Read(TermFields(c, z, r, e, k, None), su) = TermFields(c, z, r, e, k, u)
        BY <3>1, <3>2 DEF SuffixMakes
      <3>. QED
        BY <1>8, <1>14, <2>1, <2>2, <3>3
    <2>3. CASE u = None
      BY <1>8, <1>14, <2>1, <2>3
    <2>. QED
      BY <2>2, <2>3
  <1>. QED
    BY <1>3, <1>7, <1>10, <1>15

------------------------------------------------------------------------------
(* Texts in the input. *)

\* From p on, the input is the text w.
Shows(in, p, w) ==
  /\ p + Len(w) <= Len(in) + 1
  /\ \A k \in 1..Len(w) : in[p + k - 1] = w[k]

\* Two texts one behind the other are shown where each begins.
LEMMA ShowsConcat ==
  ASSUME NEW S, NEW in \in Seq(S), NEW p \in 1..Len(in) + 1,
         NEW v \in Seq(S), NEW w \in Seq(S), Shows(in, p, v \o w)
  PROVE  /\ Shows(in, p, v)
         /\ Shows(in, p + Len(v), w)
         /\ p + Len(v) \in p..Len(in) + 1
PROOF
  <1>1. PICK u : u = v \o w
    OBVIOUS
  <1>2. PICK m \in Nat, n \in Nat, l \in Nat : m = Len(v) /\ n = Len(w) /\ l = Len(in)
    BY LenProperties
  <1>3. Len(u) = m + n /\ \A k \in 1..m + n : u[k] = IF k <= m THEN v[k] ELSE w[k - m]
    BY <1>1, <1>2, ConcatProperties
  <1>4. p + (m + n) <= l + 1 /\ \A k \in 1..m + n : in[p + k - 1] = u[k]
    BY <1>1, <1>2, <1>3 DEF Shows
  <1>5. \A k \in 1..m : in[p + k - 1] = v[k]
    BY <1>3, <1>4
  <1>6. \A k \in 1..n : in[p + m + k - 1] = w[k]
    <2>. SUFFICES ASSUME NEW k \in 1..n
                  PROVE  in[p + m + k - 1] = w[k]
      OBVIOUS
    <2>1. PICK i \in 1..m + n : i = m + k
      BY <1>2
    <2>2. ~(i <= m) /\ i - m = k /\ p + i - 1 = p + m + k - 1
      BY <1>2, <2>1
    <2>3. in[p + i - 1] = w[i - m]
      BY <1>3, <1>4, <2>2
    <2>. QED
      BY <2>2, <2>3
  <1>. QED
    BY <1>2, <1>4, <1>5, <1>6 DEF Shows

\* Texts, and one behind the other the first k of them.
AreTexts(S, ss, n) == Len(ss) = n /\ \A i \in 1..n : ss[i] \in Seq(S)

Joins(f, S, ss, n) ==
  /\ f \in [0..n -> Seq(S)]
  /\ f[0] = <<>>
  /\ \A k \in 1..n : f[k] = f[k - 1] \o ss[k]
  /\ f[n] = FlattenSeq(ss)

\* FlattenSeq joins its texts from the left.
LEMMA TextsAreJoined ==
  ASSUME NEW S, NEW ss, NEW n \in Nat \ {0}, AreTexts(S, ss, n)
  PROVE  \E f : Joins(f, S, ss, n)
PROOF
  <1>1. Len(ss) = n /\ \A i \in 1..n : ss[i] \in Seq(S)
    BY DEF AreTexts
  <1>2. PICK f \in [0..n -> Seq(S)] :
          /\ f[0] = <<>>
          /\ \A k \in 1..n : f[k] = f[k - 1] \o ss[k]
          /\ f[n] = FlattenSeq(ss)
    BY <1>1, FlattenUnfolds
  <1>. QED
    BY <1>2 DEF Joins

\* Where each of several texts begins that stand one behind the other.
ArePlaces(b, in, p, ss, n, w) ==
  /\ b \in [0..n -> 1..Len(in) + 1]
  /\ b[0] = p
  /\ \A k \in 1..n : b[k] = b[k - 1] + Len(ss[k]) /\ Shows(in, b[k - 1], ss[k])
  /\ b[n] = p + Len(w)

\* Each of the joined texts has its place in the input.
LEMMA TextsHavePlaces ==
  ASSUME NEW S, NEW in \in Seq(S), NEW p \in 1..Len(in) + 1, NEW ss, NEW n \in Nat \ {0},
         AreTexts(S, ss, n), NEW w, w = FlattenSeq(ss), Shows(in, p, w)
  PROVE  \E b : ArePlaces(b, in, p, ss, n, w)
PROOF
  <1>1. PICK f : Joins(f, S, ss, n)
    BY TextsAreJoined
  <1>2. /\ f \in [0..n -> Seq(S)]
        /\ f[0] = <<>>
        /\ \A k \in 1..n : f[k] = f[k - 1] \o ss[k] /\ ss[k] \in Seq(S)
        /\ f[n] = w
    BY <1>1 DEF Joins, AreTexts
  <1>3. PICK l \in Nat : l = Len(in)
    BY LenProperties
  <1>. DEFINE T == {k \in 1..n : Shows(in, p, f[k])}
  <1>4. ASSUME NEW k \in 1..n, \A i \in k + 1..n : i \in T
        PROVE  k \in T
    <2>1. CASE k = n
      BY <1>2, <2>1
    <2>2. CASE k # n
      <3>1. PICK i \in k + 1..n : i = k + 1
        BY <2>2
      <3>2. i \in 1..n /\ i - 1 = k
        BY <3>1
      <3>3. f[i] = f[k] \o ss[i] /\ Shows(in, p, f[i])
        BY <1>2, <1>4, <3>2
      <3>4. PICK v, u : v = f[k] /\ u = ss[i]
        OBVIOUS
      <3>5. v \in Seq(S) /\ u \in Seq(S)
        <4>1. /\ \A j \in 0..n : f[j] \in Seq(S)
              /\ \A j \in 1..n : ss[j] \in Seq(S)
          BY <1>2
        <4>. QED
          BY <3>2, <3>4, <4>1
      <3>6. Shows(in, p, v \o u)
        BY <3>3, <3>4
      <3>7. Shows(in, p, v)
        BY <3>5, <3>6, ShowsConcat
      <3>. QED
        BY <3>4, <3>7
    <2>. QED
      BY <2>1, <2>2
  <1>5. \A k \in 1..n : k \in T
    <2>. HIDE DEF T
    <2>. QED
      BY <1>4, CountingDown
  <1>6. \A k \in 0..n : Len(f[k]) \in Nat
    BY LenProperties
  <1>7. ASSUME NEW k \in 1..n
        PROVE  /\ Len(f[k]) = Len(f[k - 1]) + Len(ss[k])
               /\ Shows(in, p + Len(f[k - 1]), ss[k])
               /\ p + Len(f[k - 1]) \in 1..l + 1
    <2>1. PICK v \in Seq(S) : v = f[k - 1]
      BY <1>2
    <2>2. f[k] = v \o ss[k] /\ ss[k] \in Seq(S) /\ Shows(in, p, v \o ss[k])
      BY <1>2, <1>5, <2>1
    <2>3. Shows(in, p + Len(v), ss[k]) /\ p + Len(v) \in p..Len(in) + 1
      BY <2>2, ShowsConcat
    <2>4. Len(f[k]) = Len(v) + Len(ss[k])
      BY <2>2, ConcatProperties
    <2>. QED
      BY <1>3, <2>1, <2>3, <2>4
  <1>. DEFINE b == [k \in 0..n |-> p + Len(f[k])]
  <1>8. \A k \in 0..n : b[k] \in 1..l + 1
    <2>1. b[n] \in 1..l + 1
      <3>1. n \in 1..n /\ n \in 0..n
        OBVIOUS
      <3>2. Shows(in, p, f[n])
        BY <1>5, <3>1
      <3>. QED
        BY <1>3, <1>6, <3>1, <3>2 DEF Shows
    <2>2. ASSUME NEW k \in 0..n, k # n
          PROVE  b[k] \in 1..l + 1
      <3>1. PICK i \in 1..n : i = k + 1 /\ i - 1 = k
        BY <2>2
      <3>2. p + Len(f[k]) \in 1..l + 1
        BY <1>7, <3>1
      <3>. QED
        BY <3>2
    <2>. QED
      BY <2>1, <2>2
  <1>9. b \in [0..n -> 1..Len(in) + 1]
    BY <1>3, <1>8
  <1>10. \A k \in 1..n : b[k] = b[k - 1] + Len(ss[k]) /\ Shows(in, b[k - 1], ss[k])
    <2>. SUFFICES ASSUME NEW k \in 1..n
                  PROVE  b[k] = b[k - 1] + Len(ss[k]) /\ Shows(in, b[k - 1], ss[k])
      OBVIOUS
    <2>1. k \in 0..n /\ k - 1 \in 0..n
      OBVIOUS
    <2>2. PICK x \in Nat, y \in Nat : x = Len(f[k - 1]) /\ y = Len(ss[k])
      BY <1>2, <1>6, <2>1, LenProperties
    <2>3. b[k] = p + (x + y) /\ b[k - 1] = p + x
      BY <1>7, <2>1, <2>2
    <2>4. Shows(in, p + x, ss[k])
      BY <1>7, <2>2
    <2>5. p \in Int
      BY <1>3
    <2>6. b[k] = b[k - 1] + y
      <3>1. p + (x + y) = p + x + y
        BY <2>5
      <3>. HIDE DEF b
      <3>. QED
        BY <2>3, <3>1
    <2>7. Shows(in, b[k - 1], ss[k])
      BY <2>3, <2>4
    <2>. QED
      BY <2>2, <2>6, <2>7
  <1>11. b[0] = p /\ b[n] = p + Len(w)
    <2>1. b[0] = p + Len(f[0]) /\ b[n] = p + Len(f[n])
      OBVIOUS
    <2>2. Len(f[0]) = 0
      BY <1>2
    <2>. QED
      BY <1>2, <2>1, <2>2
  <1>. HIDE DEF b
  <1>. QED
    BY <1>9, <1>10, <1>11 DEF ArePlaces

Blank(in, p) == TokenAt(in, p) = " "

\* Where the next token stands that is none.
LEMMA NoBlank ==
  ASSUME NEW in \in Seq(Token), NEW p \in 1..Len(in) + 1, ~Blank(in, p)
  PROVE  AfterBlanks(in, p) = p
PROOF
  <1>. DEFINE T == {q \in p..Len(in) + 1 : ~Blank(in, q)}
  <1>1. Len(in) \in Nat
    BY LenProperties
  <1>2. p \in p..Len(in) + 1 /\ p..Len(in) + 1 \subseteq Nat
    BY <1>1
  <1>3. p \in T /\ T \subseteq p..Len(in) + 1 /\ T \in SUBSET Nat
    BY <1>2
  <1>4. AfterBlanks(in, p) = Min(T)
    BY Zenon DEF AfterBlanks, Blank
  <1>. HIDE DEF T
  <1>5. Min(T) \in T /\ Min(T) <= p
    BY <1>3, LeastNumber
  <1>6. Min(T) \in p..Len(in) + 1
    BY <1>3, <1>5
  <1>. QED
    BY <1>1, <1>4, <1>5, <1>6

\* One blank is skipped.
LEMMA OneBlank ==
  ASSUME NEW in \in Seq(Token), NEW p \in 1..Len(in), Blank(in, p), ~Blank(in, p + 1)
  PROVE  AfterBlanks(in, p) = p + 1
PROOF
  <1>. DEFINE T == {q \in p..Len(in) + 1 : ~Blank(in, q)}
  <1>1. Len(in) \in Nat
    BY LenProperties
  <1>2. p + 1 \in p..Len(in) + 1 /\ p..Len(in) + 1 \subseteq Nat
    BY <1>1
  <1>3. p + 1 \in T /\ T \subseteq p..Len(in) + 1 /\ T \in SUBSET Nat /\ p \notin T
    BY <1>2
  <1>4. AfterBlanks(in, p) = Min(T)
    BY Zenon DEF AfterBlanks, Blank
  <1>. HIDE DEF T
  <1>5. Min(T) \in T /\ Min(T) <= p + 1
    BY <1>3, LeastNumber
  <1>6. Min(T) \in p..Len(in) + 1 /\ Min(T) # p
    BY <1>3, <1>5
  <1>. QED
    BY <1>1, <1>4, <1>5, <1>6

------------------------------------------------------------------------------
(* Terms, products and expressions that are printed read back. *)

\* What a term looks like.
LEMMA ConstIsShown ==
  ASSUME NEW t \in [const : Nat]
  PROVE  /\ DisplayTerm(t) = <<Num(t.const)>>
         /\ t = [const |-> t.const]
PROOF
  BY DEF DisplayTerm

\* What is printed of dice: the count, d, the sides and the suffixes.
LEMMA DiceAreShown ==
  ASSUME NEW t \in SaneTerms
  PROVE  LET w == DisplayTerm(t)
             n == Len(Canonical(t))
         IN  /\ w \in Seq(Token) /\ Len(w) = 3 + n
             /\ w[1] = Num(t.count) /\ w[2] = Char("d")
             /\ w[3] = IF t.sides = Fate THEN Char("F") ELSE Num(t.sides)
             /\ \A k \in 1..n : w[3 + k] = Canonical(t)[k]
PROOF
  <1>1. PICK a, b, c : /\ a = Num(t.count)
                       /\ b = Char("d")
                       /\ c = IF t.sides = Fate THEN Char("F") ELSE Num(t.sides)
    OBVIOUS
  <1>2. t.count \in Nat /\ t.sides \in Nat \cup {Fate}
    BY TermAssumption DEF SaneTerms, TermRecord
  <1>3. a \in Token /\ b \in Token /\ c \in Token
    BY <1>1, <1>2, TokensToken
  <1>4. PICK q : q = Canonical(t)
    OBVIOUS
  <1>5. q \in Seq(Token)
    <2>1. q \in Seq(Suffix)
      BY <1>4, CanonicalReadsBack
    <2>2. \A s \in Suffix : s \in Token
      BY TokensToken
    <2>. QED
      BY <2>1, <2>2, SeqMonotonic
  <1>6. PICK v : v = <<a, b, c>>
    OBVIOUS
  <1>7. v \in Seq(Token) /\ Len(v) = 3 /\ v[1] = a /\ v[2] = b /\ v[3] = c
    BY <1>3, <1>6
  <1>8. DisplayTerm(t) = v \o q
    <2>1. "const" \notin DOMAIN t
      BY DEF SaneTerms, TermRecord
    <2>. QED
      BY <1>1, <1>4, <1>6, <2>1, Zenon DEF DisplayTerm
  <1>9. PICK w : w = v \o q
    OBVIOUS
  <1>10. PICK n \in Nat : n = Len(q)
    BY <1>5, LenProperties
  <1>11. /\ w \in Seq(Token) /\ Len(w) = 3 + n
         /\ \A i \in 1..3 + n : w[i] = IF i <= 3 THEN v[i] ELSE q[i - 3]
    <2>1. /\ w \in Seq(Token) /\ Len(w) = Len(v) + Len(q)
          /\ \A i \in 1..Len(v) + Len(q) : w[i] = IF i <= Len(v) THEN v[i] ELSE q[i - Len(v)]
      BY <1>5, <1>7, <1>9, ConcatProperties
    <2>. QED
      BY <1>7, <1>10, <2>1
  <1>12. w[1] = a /\ w[2] = b /\ w[3] = c
    BY <1>7, <1>11
  <1>13. \A k \in 1..n : w[3 + k] = q[k]
    <2>. SUFFICES ASSUME NEW k \in 1..n PROVE w[3 + k] = q[k]
      OBVIOUS
    <2>1. 3 + k \in 1..3 + n /\ ~(3 + k <= 3) /\ 3 + k - 3 = k
      OBVIOUS
    <2>. QED
      BY <1>11, <2>1
  <1>. QED
    BY <1>1, <1>4, <1>8, <1>9, <1>10, <1>11, <1>12, <1>13

\* Every text of a term begins with a number.
LEMMA TermsAreTexts ==
  ASSUME NEW t \in Terms
  PROVE  /\ DisplayTerm(t) \in Seq(Token)
         /\ Len(DisplayTerm(t)) \in Nat \ {0}
         /\ DisplayTerm(t)[1].what = "number"
PROOF
  <1>1. \A n : Num(n).what = "number"
    BY DEF Num
  <1>2. CASE t \in SaneTerms
    <2>1. /\ DisplayTerm(t) \in Seq(Token) /\ Len(DisplayTerm(t)) = 3 + Len(Canonical(t))
          /\ DisplayTerm(t)[1] = Num(t.count)
      BY <1>2, DiceAreShown
    <2>2. Len(Canonical(t)) \in Nat
      BY <1>2, CanonicalReadsBack, LenProperties
    <2>. QED
      BY <1>1, <2>1, <2>2
  <1>3. CASE t \in [const : Nat]
    <2>1. DisplayTerm(t) = <<Num(t.const)>> /\ t.const \in Nat
      BY <1>3, ConstIsShown
    <2>2. Num(t.const) \in Token
      BY <2>1, TokensToken
    <2>. QED
      BY <1>1, <2>1, <2>2
  <1>. QED
    BY <1>2, <1>3 DEF Terms

\* Behind a term that is shown: a blank, or nothing.
Ends(in, p) == Blank(in, p) \/ TokenAt(in, p) = "end"

\* A term ends before a blank and at the end of the input.
LEMMA EndsEnd ==
  ASSUME NEW in, NEW p, Ends(in, p)
  PROVE  /\ TokenAt(in, p) # "d"
         /\ ~(p \in DOMAIN in /\ in[p] \in Suffix)
PROOF
  <1>1. TokenAt(in, p) # "d"
    BY Zenon DEF Ends, Blank
  <1>2. ASSUME p \in DOMAIN in, in[p] \in Suffix
        PROVE  FALSE
    <2>1. TokenAt(in, p) = in[p].what
      BY <1>2 DEF TokenAt
    <2>2. in[p].what \in {"keep", "advdis", "reroll", "explode", "success"}
      BY <1>2, SuffixCases
    <2>. QED
      BY <2>1, <2>2, Zenon DEF Ends, Blank
  <1>. QED
    BY <1>1, <1>2

\* A printed constant, and a printed dice term, is read as itself.
LEMMA ShownConstReads ==
  ASSUME NEW in \in Seq(Token), NEW p \in 1..Len(in) + 1, NEW t \in [const : Nat],
         Shows(in, p, DisplayTerm(t)), Ends(in, p + Len(DisplayTerm(t)))
  PROVE  Term(in, p) = [read |-> t, at |-> p + Len(DisplayTerm(t))]
PROOF
  <1>1. PICK w : w = DisplayTerm(t)
    OBVIOUS
  <1>2. w = <<Num(t.const)>> /\ t = [const |-> t.const]
    BY <1>1, ConstIsShown
  <1>3. Len(w) = 1 /\ w[1] = Num(t.const)
    BY <1>2
  <1>4. p + 1 <= Len(in) + 1 /\ in[p] = Num(t.const)
    <2>1. p + 1 - 1 = p /\ 1 \in 1..1
      BY LenProperties
    <2>. QED
      BY <1>1, <1>3, <2>1 DEF Shows
  <1>5. p \in DOMAIN in
    BY <1>4, LenProperties
  <1>6. TokenAt(in, p) = "number" /\ in[p].n = t.const
    BY <1>4, <1>5 DEF TokenAt, Num
  <1>7. TokenAt(in, p + 1) # "d"
    BY <1>1, <1>3, EndsEnd
  <1>8. Term(in, p) = ConstTerm(in, p)
    BY <1>6, <1>7 DEF Term
  <1>. QED
    BY <1>1, <1>2, <1>3, <1>6, <1>8 DEF ConstTerm

LEMMA ShownDiceRead ==
  ASSUME NEW in \in Seq(Token), NEW p \in 1..Len(in) + 1, NEW t \in SaneTerms,
         Shows(in, p, DisplayTerm(t)), Ends(in, p + Len(DisplayTerm(t)))
  PROVE  Term(in, p) = [read |-> t, at |-> p + Len(DisplayTerm(t))]
PROOF
  <1>1. PICK w, q : w = DisplayTerm(t) /\ q = Canonical(t)
    OBVIOUS
  <1>2. PICK n \in Nat, l \in Nat : n = Len(q) /\ l = Len(in)
    BY <1>1, CanonicalReadsBack, LenProperties
  <1>3. /\ Len(w) = 3 + n
        /\ w[1] = Num(t.count) /\ w[2] = Char("d")
        /\ w[3] = IF t.sides = Fate THEN Char("F") ELSE Num(t.sides)
        /\ \A k \in 1..n : w[3 + k] = q[k]
    BY <1>1, <1>2, DiceAreShown
  <1>4. DOMAIN in = 1..l
    BY <1>2, LenProperties
  <1>5. PICK e : e = p + (3 + n)
    OBVIOUS
  <1>6. e \in p + 3..l + 1 /\ \A k \in 1..3 + n : in[p + k - 1] = w[k]
    BY <1>1, <1>2, <1>3, <1>5 DEF Shows
  <1>7. /\ p \in DOMAIN in /\ p + 1 \in DOMAIN in /\ p + 2 \in DOMAIN in
        /\ p + 2 \in Nat /\ p + 1 \in Nat /\ p \in Nat /\ e \in Nat
    BY <1>2, <1>4, <1>6
  <1>8. in[p] = w[1] /\ in[p + 1] = w[2] /\ in[p + 2] = w[3]
    <2>1. 1 \in 1..3 + n /\ 2 \in 1..3 + n /\ 3 \in 1..3 + n
      OBVIOUS
    <2>2. p + 1 - 1 = p /\ p + 2 - 1 = p + 1 /\ p + 3 - 1 = p + 2
      BY <1>7
    <2>. QED
      BY <1>6, <2>1, <2>2
  <1>9. \A k \in 1..n : in[p + 2 + k] = q[k]
    <2>. SUFFICES ASSUME NEW k \in 1..n PROVE in[p + 2 + k] = q[k]
      OBVIOUS
    <2>1. 3 + k \in 1..3 + n /\ p + (3 + k) - 1 = p + 2 + k
      BY <1>7
    <2>. QED
      BY <1>3, <1>6, <2>1
  <1>10. TokenAt(in, p) = "number" /\ in[p].n = t.count
    BY <1>3, <1>7, <1>8 DEF TokenAt, Num
  <1>11. TokenAt(in, p + 1) = "d"
    BY <1>3, <1>7, <1>8 DEF TokenAt, Char
  <1>12. Term(in, p) = DiceBody(in, t.count, p + 2)
    BY <1>10, <1>11 DEF Term
  <1>13. SidesAt(in, p + 2) = t.sides
    <2>1. CASE t.sides = Fate
      <3>1. TokenAt(in, p + 2) = "F"
        BY <1>3, <1>7, <1>8, <2>1 DEF TokenAt, Char
      <3>. QED
        BY <2>1, <3>1, Zenon DEF SidesAt
    <2>2. CASE t.sides # Fate
      <3>1. TokenAt(in, p + 2) = "number" /\ in[p + 2].n = t.sides
        BY <1>3, <1>7, <1>8, <2>2 DEF TokenAt, Num
      <3>. QED
        BY <3>1, Zenon DEF SidesAt
    <2>. QED
      BY <2>1, <2>2
  <1>14. EndOfSuffixes(in, p + 3) = e
    <2>1. p + 3 \in 1..Len(in) + 1
      BY <1>2, <1>6, <1>7
    <2>2. PICK s : s = EndOfSuffixes(in, p + 3)
      OBVIOUS
    <2>3. /\ s \in p + 3..l + 1
          /\ \A i \in p + 3..s - 1 : i \in DOMAIN in /\ in[i] \in Suffix
          /\ ~(s \in DOMAIN in /\ in[s] \in Suffix)
      BY <1>2, <2>1, <2>2, SuffixesEnd
    <2>4. ~(e \in DOMAIN in /\ in[e] \in Suffix)
      BY <1>1, <1>3, <1>5, EndsEnd
    <2>. /\ p \in Nat /\ e \in Nat /\ s \in Nat
         /\ p + 3 <= s /\ p + 3 <= e /\ e <= l + 1 /\ s <= l + 1
      <3>1. p \in Nat /\ e \in Nat
        BY <1>7
      <3>2. s \in p + 3..l + 1 /\ e \in p + 3..l + 1
        BY <1>6, <2>3
      <3>. QED
        BY <3>1, <3>2
    <2>5. ~(e < s)
      <3>. SUFFICES ASSUME e < s PROVE FALSE
        OBVIOUS
      <3>1. e \in p + 3..s - 1
        OBVIOUS
      <3>. QED
        BY <2>3, <2>4, <3>1
    <2>6. ~(s < e)
      <3>. SUFFICES ASSUME s < e PROVE FALSE
        OBVIOUS
      <3>1. PICK k \in 1..n : s = p + 2 + k
        <4>1. s - (p + 2) \in 1..n /\ s = p + 2 + (s - (p + 2))
          BY <1>5
        <4>. QED
          BY <4>1
      <3>2. in[s] = q[k] /\ s \in DOMAIN in
        <4>1. in[p + 2 + k] = q[k]
          BY <1>9
        <4>2. s \in 1..l
          OBVIOUS
        <4>. QED
          BY <1>4, <3>1, <4>1, <4>2
      <3>3. q[k] \in Suffix
        <4>1. q \in Seq(Suffix)
          BY <1>1, CanonicalReadsBack
        <4>. QED
          BY <1>2, <4>1, ElementOfSeq
      <3>. QED
        BY <2>3, <3>2, <3>3
    <2>. QED
      BY <2>2, <2>5, <2>6
  <1>15. SubSeq(in, p + 3, e - 1) = q
    <2>1. PICK r : r = SubSeq(in, p + 3, e - 1)
      OBVIOUS
    <2>2. PICK b \in Nat, a \in Nat \ {0} : b = e - 1 /\ a = p + 3 /\ b <= Len(in) /\ a <= b + 1
      BY <1>2, <1>5, <1>6, <1>7
    <2>3. /\ r \in Seq(Token) /\ Len(r) = b + 1 - a
          /\ \A i \in 1..b + 1 - a : r[i] = in[a + i - 1]
      BY <2>1, <2>2, Cut
    <2>4. b + 1 - a = n
      <3>1. p \in Nat /\ e \in Nat
        BY <1>7
      <3>. QED
        BY <1>5, <2>2, <3>1
    <2>5. \A i \in 1..n : r[i] = q[i]
      <3>. SUFFICES ASSUME NEW i \in 1..n PROVE r[i] = q[i]
        OBVIOUS
      <3>1. a + i - 1 = p + 2 + i
        BY <1>7, <2>2
      <3>. QED
        BY <1>9, <2>3, <2>4, <3>1
    <2>6. q \in Seq(Token)
      <3>1. q \in Seq(Suffix)
        BY <1>1, CanonicalReadsBack
      <3>2. \A s \in Suffix : s \in Token
        BY TokensToken
      <3>. QED
        BY <3>1, <3>2, SeqMonotonic
    <2>7. r = q
      BY <1>2, <2>3, <2>4, <2>5, <2>6, SeqEqual
    <2>. QED
      BY <2>1, <2>7
  <1>16. DiceOf([count |-> t.count, sides |-> t.sides], q) = t
    <2>1. t.sides # None
      BY OutcomeAssumption, TermAssumption DEF SaneTerms, TermRecord
    <2>2. Parsed([count |-> t.count, sides |-> t.sides], q) = t
      BY <1>1, CanonicalReadsBack
    <2>. QED
      BY <2>1, <2>2 DEF DiceOf
  <1>17. DiceBody(in, t.count, p + 2) = Stopped(t, e)
    <2>1. p + 2 + 1 = p + 3
      BY <1>7
    <2>2. DiceBody(in, t.count, p + 2) = DiceUpTo(in, t.count, p + 2, e)
      BY <1>14, <2>1 DEF DiceBody
    <2>3. DiceUpTo(in, t.count, p + 2, e)
            = Stopped(DiceOf([count |-> t.count, sides |-> SidesAt(in, p + 2)],
                             SubSeq(in, p + 2 + 1, e - 1)), e)
      BY DEF DiceUpTo
    <2>. QED
      BY <1>13, <1>15, <1>16, <2>1, <2>2, <2>3
  <1>18. t # Refused
    BY OutcomeAssumption DEF SaneTerms
  <1>. QED
    BY <1>1, <1>3, <1>5, <1>12, <1>17, <1>18 DEF Stopped

\* A term that is shown is read.
LEMMA ShownTermReads ==
  ASSUME NEW in \in Seq(Token), NEW p \in 1..Len(in) + 1, NEW t \in Terms,
         Shows(in, p, DisplayTerm(t)), Ends(in, p + Len(DisplayTerm(t)))
  PROVE  Term(in, p) = [read |-> t, at |-> p + Len(DisplayTerm(t))]
PROOF
  BY ShownConstReads, ShownDiceRead DEF Terms

Ops == {"+", "-", "*"}

\* An operator between two blanks.
LEMMA SpacedIsText ==
  ASSUME NEW op \in Ops
  PROVE  /\ Spaced(op) \in Seq(Token) /\ Len(Spaced(op)) = 3
         /\ Spaced(op)[1] = Char(" ") /\ Spaced(op)[2] = Char(op) /\ Spaced(op)[3] = Char(" ")
PROOF
  <1>1. PICK b, o : b = Char(" ") /\ o = Char(op)
    OBVIOUS
  <1>2. b \in Token /\ o \in Token
    BY <1>1, TokensToken, Zenon DEF Ops
  <1>3. Spaced(op) = <<b, o, b>>
    BY <1>1, Zenon DEF Spaced
  <1>4. PICK w : w = <<b, o, b>>
    OBVIOUS
  <1>5. w \in Seq(Token) /\ Len(w) = 3 /\ w[1] = b /\ w[2] = o /\ w[3] = b
    BY <1>2, <1>4
  <1>. QED
    BY <1>1, <1>3, <1>4, <1>5, Zenon

\* An operator printed between two blanks is read, and the item behind it.
LEMMA OperatorsAreRead ==
  ASSUME NEW in \in Seq(Token), NEW p \in 1..Len(in) + 1, NEW op \in Ops,
         Shows(in, p, Spaced(op)), ~Blank(in, p + 3), NEW items
  PROVE  /\ Blank(in, p)
         /\ OpAt(in, p) = op
         /\ ItemAt(in, items, p) = items[p + 3]
PROOF
  <1>1. PICK l \in Nat : l = Len(in) /\ DOMAIN in = 1..l
    BY LenProperties
  <1>2. PICK w : w = Spaced(op)
    OBVIOUS
  <1>3. PICK b, o : b = Char(" ") /\ o = Char(op)
    OBVIOUS
  <1>4. Len(w) = 3 /\ w[1] = b /\ w[2] = o /\ w[3] = b
    BY <1>2, <1>3, SpacedIsText, Zenon
  <1>5. p + 3 <= l + 1 /\ \A k \in 1..3 : in[p + k - 1] = w[k]
    BY <1>1, <1>2, <1>4 DEF Shows
  <1>6. in[p] = b /\ in[p + 1] = o /\ in[p + 2] = b
    <2>1. p + 1 - 1 = p /\ p + 2 - 1 = p + 1 /\ p + 3 - 1 = p + 2
      BY <1>1
    <2>2. in[p + 1 - 1] = w[1] /\ in[p + 2 - 1] = w[2] /\ in[p + 3 - 1] = w[3]
      BY <1>5
    <2>. QED
      BY <1>4, <2>1, <2>2
  <1>7. /\ p \in 1..l /\ p + 1 \in 1..l /\ p + 2 \in 1..l /\ p + 2 + 1 = p + 3
        /\ p + 1 + 1 = p + 2 /\ p + 1 \in 1..l + 1 /\ p + 3 \in 1..l + 1
    BY <1>1, <1>5
  <1>8. TokenAt(in, p) = b.what /\ TokenAt(in, p + 1) = o.what /\ TokenAt(in, p + 2) = b.what
    BY <1>1, <1>6, <1>7, Zenon DEF TokenAt
  <1>9. b.what = " " /\ o.what = op
    BY <1>3, Zenon DEF Char
  <1>10. Blank(in, p) /\ ~Blank(in, p + 1) /\ Blank(in, p + 2) /\ TokenAt(in, p + 1) = op
    <2>1. op # " "
      BY Zenon DEF Ops
    <2>. QED
      BY <1>8, <1>9, <2>1, Zenon DEF Blank
  <1>11. AfterBlanks(in, p) = p + 1
    BY <1>1, <1>7, <1>10, OneBlank
  <1>12. AfterBlanks(in, p + 2) = p + 3
    <2>1. PICK q \in 1..Len(in) : q = p + 2 /\ q + 1 = p + 3
      BY <1>1, <1>7
    <2>2. AfterBlanks(in, q) = q + 1
      BY <1>10, <2>1, OneBlank
    <2>. QED
      BY <2>1, <2>2
  <1>. QED
    BY <1>7, <1>10, <1>11, <1>12 DEF OpAt, ItemAt

\* No value that a parser returns is taken for a refusal.
Values(I) == \A x \in I, at \in Nat : [read |-> x, at |-> at] # Refused

\* Items that stand one behind the other, from a[1] on, each behind its operator.
AreListed(in, ops, I, items, l, a, n) ==
  /\ l \in Seq(Link(ops, I)) /\ Len(l) = n
  /\ a \in [1..n + 1 -> 1..Len(in) + 1]
  /\ \A k \in 1..n : /\ OpAt(in, a[k]) = l[k].op
                    /\ ItemAt(in, items, a[k]) = [read |-> l[k].item, at |-> a[k + 1]]
  /\ OpAt(in, a[n + 1]) \notin ops

\* They are read as a list.
LEMMA ListReads ==
  ASSUME NEW in \in Seq(Token), NEW ops, "end" \notin ops,
         NEW I, NEW items, ReadsItems(in, items, I), Values(I), Values(Seq(Link(ops, I))),
         NEW n \in Nat, NEW l, NEW a, AreListed(in, ops, I, items, l, a, n)
  PROVE  Many(in, a[1], ops, items) = [read |-> l, at |-> a[n + 1]]
PROOF
  <1>. /\ l \in Seq(Link(ops, I)) /\ Len(l) = n
       /\ a \in [1..n + 1 -> 1..Len(in) + 1]
       /\ \A k \in 1..n : /\ OpAt(in, a[k]) = l[k].op
                         /\ ItemAt(in, items, a[k]) = [read |-> l[k].item, at |-> a[k + 1]]
       /\ OpAt(in, a[n + 1]) \notin ops
    BY DEF AreListed
  <1>1. PICK m \in Nat : m = Len(in) + 1
    BY LenProperties
  <1>2. PICK L : L = Link(ops, I)
    OBVIOUS
  <1>3. PICK g : /\ \A p \in 1..m : Many(in, p, ops, items) = g[p]
                 /\ \A p \in 1..m : g[p] = ManyAt(in, ops, items, g, p)
    BY <1>1, ManyUnfolds
  <1>4. PICK z \in 1..m : z = a[n + 1]
    BY <1>1
  <1>5. \A k \in 1..n : l[k] \in L /\ l[k].op \in ops /\ l[k].item \in I
    <2>. SUFFICES ASSUME NEW k \in 1..n
                  PROVE  l[k] \in L /\ l[k].op \in ops /\ l[k].item \in I
      OBVIOUS
    <2>1. l[k] \in L
      BY <1>2, ElementOfSeq
    <2>. QED
      BY <1>2, <2>1 DEF Link
  <1>. DEFINE T == {k \in 1..n + 1 : g[a[k]] = [read |-> SubSeq(l, k, n), at |-> z]}
  <1>6. ASSUME NEW k \in 1..n + 1, \A i \in k + 1..n + 1 : i \in T
        PROVE  k \in T
    <2>1. CASE k = n + 1
      <3>1. SubSeq(l, k, n) = <<>>
        BY <2>1, SubSeqEmpty
      <3>2. g[z] = [read |-> <<>>, at |-> z]
        BY <1>3, <1>4 DEF ManyAt
      <3>. QED
        BY <1>4, <2>1, <3>1, <3>2
    <2>2. CASE k # n + 1
      <3>1. k \in 1..n /\ k + 1 \in k + 1..n + 1
        BY <2>2
      <3>2. PICK p \in 1..m, q \in 1..m : p = a[k] /\ q = a[k + 1]
        BY <1>1, <3>1
      <3>3. PICK item : item = [read |-> l[k].item, at |-> q]
        OBVIOUS
      <3>4. item # Refused /\ item.read = l[k].item /\ item.at = q
        <4>1. item.read = l[k].item /\ item.at = q
          BY <3>3
        <4>2. q \in Nat
          BY <1>1
        <4>. QED
          BY <1>5, <3>1, <3>3, <4>1, <4>2 DEF Values
      <3>5. OpAt(in, p) = l[k].op /\ ItemAt(in, items, p) = item /\ l[k].op \in ops
        BY <1>5, <3>1, <3>2, <3>3
      <3>6. g[p] = Followed(l[k].op, item, g[q])
        BY <1>3, <3>4, <3>5 DEF ManyAt
      <3>7. PICK rest : rest = SubSeq(l, k + 1, n)
        OBVIOUS
      <3>8. PICK r : r = [read |-> rest, at |-> z]
        OBVIOUS
      <3>9. g[q] = r
        BY <1>6, <3>1, <3>2, <3>7, <3>8
      <3>10. rest \in Seq(L) /\ SubSeq(l, k, n) = <<l[k]>> \o rest
        <4>1. k \in 1..Len(l) /\ n \in k..Len(l)
          BY <3>1
        <4>2. SubSeq(l, k, n) = <<l[k]>> \o rest
          BY <3>7, <4>1, SubSeqRecursiveFirst
        <4>3. k + 1 \in Int /\ n \in Int /\ \A i \in k + 1..n : l[i] \in L
          BY <1>5, <3>1
        <4>4. rest \in Seq(L)
          BY <3>7, <4>3, SubSeqProperties
        <4>. QED
          BY <4>2, <4>4
      <3>11. r # Refused
        <4>1. z \in Nat
          BY <1>1
        <4>. QED
          BY <1>2, <3>8, <3>10, <4>1 DEF Values
      <3>12. l[k] = [op |-> l[k].op, item |-> l[k].item]
        BY <1>2, <1>5, <3>1 DEF Link
      <3>13. Followed(l[k].op, item, r) = [r EXCEPT !.read = <<l[k]>> \o rest]
        <4>1. r.read = rest
          BY <3>8
        <4>. QED
          BY <3>4, <3>11, <3>12, <4>1 DEF Followed
      <3>14. [r EXCEPT !.read = <<l[k]>> \o rest] = [read |-> <<l[k]>> \o rest, at |-> z]
        <4>1. PICK x : x = <<l[k]>> \o rest
          OBVIOUS
        <4>2. [r EXCEPT !.read = x] = [read |-> x, at |-> z]
          BY <3>8
        <4>. QED
          BY <4>1, <4>2
      <3>15. g[p] = [read |-> SubSeq(l, k, n), at |-> z]
        BY <3>6, <3>9, <3>10, <3>13, <3>14
      <3>. QED
        BY <3>2, <3>15
    <2>. QED
      BY <2>1, <2>2
  <1>7. 1 \in T
    <2>1. n + 1 \in Nat /\ 1 \in 1..n + 1
      OBVIOUS
    <2>. HIDE DEF T
    <2>. QED
      BY <1>6, <2>1, CountingDown
  <1>8. SubSeq(l, 1, n) = l
    <2>1. l \in Seq(L)
      BY <1>2
    <2>. QED
      BY <2>1, SubSeqFull
  <1>9. a[1] \in 1..m
    BY <1>1
  <1>. QED
    BY <1>3, <1>4, <1>7, <1>8, <1>9

\* A text that begins with a number is no blank.
LEMMA ShownFirst ==
  ASSUME NEW in \in Seq(Token), NEW p \in 1..Len(in) + 1, NEW v \in Seq(Token),
         Len(v) # 0, v[1].what = "number", Shows(in, p, v)
  PROVE  TokenAt(in, p) = "number" /\ ~Blank(in, p) /\ p \in 1..Len(in)
PROOF
  <1>1. PICK l \in Nat, n \in Nat \ {0} : l = Len(in) /\ DOMAIN in = 1..l /\ n = Len(v)
    BY LenProperties
  <1>2. p + n <= l + 1 /\ \A k \in 1..n : in[p + k - 1] = v[k]
    BY <1>1 DEF Shows
  <1>3. p \in 1..l /\ p + 1 - 1 = p /\ 1 \in 1..n
    BY <1>1, <1>2
  <1>4. in[p] = v[1]
    BY <1>2, <1>3
  <1>5. TokenAt(in, p) = "number"
    BY <1>1, <1>3, <1>4 DEF TokenAt
  <1>. QED
    BY <1>1, <1>3, <1>5, Zenon DEF Blank

\* A list as it is printed: the first item, and each of the others behind an operator
\* between blanks.
IsPrinted(ss, v, op, n) ==
  /\ ss[1] = v[1]
  /\ \A j \in 2..n : op[j] \in Ops /\ ss[j] = Spaced(op[j]) \o v[j]
  /\ \A j \in 1..n : v[j] \in Seq(Token) /\ Len(v[j]) # 0 /\ v[j][1].what = "number"

\* The item j is at s[j], and ends at b[j].
ItemsArePlaced(b, s, in, p, n, v, op, w) ==
  /\ b \in [0..n -> 1..Len(in) + 1] /\ s \in [1..n -> 1..Len(in) + 1]
  /\ s[1] = p
  /\ b[n] = p + Len(w)
  /\ \A j \in 1..n : Shows(in, s[j], v[j]) /\ b[j] = s[j] + Len(v[j])
  /\ \A j \in 2..n : /\ Blank(in, b[j - 1])
                     /\ OpAt(in, b[j - 1]) = op[j]
                     /\ \A items : ItemAt(in, items, b[j - 1]) = items[s[j]]

\* In a printed list each item and each operator has its place.
LEMMA PrintedHasPlaces ==
  ASSUME NEW in \in Seq(Token), NEW p \in 1..Len(in) + 1, NEW n \in Nat \ {0},
         NEW ss, NEW v, NEW op,
         IsPrinted(ss, v, op, n), AreTexts(Token, ss, n),
         NEW w, w = FlattenSeq(ss), Shows(in, p, w)
  PROVE  \E b, s : ItemsArePlaced(b, s, in, p, n, v, op, w)
PROOF
  <1>1. PICK l \in Nat : l = Len(in)
    BY LenProperties
  <1>2. PICK b : ArePlaces(b, in, p, ss, n, w)
    BY TextsHavePlaces
  <1>3. /\ b \in [0..n -> 1..Len(in) + 1]
        /\ b[0] = p
        /\ \A k \in 1..n : b[k] = b[k - 1] + Len(ss[k]) /\ Shows(in, b[k - 1], ss[k])
        /\ b[n] = p + Len(w)
    BY <1>2 DEF ArePlaces
  <1>. DEFINE s == [j \in 1..n |-> IF j = 1 THEN p ELSE b[j - 1] + 3]
  <1>4. ASSUME NEW j \in 2..n
        PROVE  /\ b[j - 1] + 3 \in 1..l + 1
               /\ Shows(in, b[j - 1] + 3, v[j])
               /\ b[j] = b[j - 1] + 3 + Len(v[j])
               /\ Blank(in, b[j - 1])
               /\ OpAt(in, b[j - 1]) = op[j]
               /\ \A items : ItemAt(in, items, b[j - 1]) = items[b[j - 1] + 3]
    <2>1. j \in 1..n /\ j - 1 \in 0..n
      OBVIOUS
    <2>2. PICK o \in Ops : o = op[j] /\ ss[j] = Spaced(o) \o v[j]
      BY DEF IsPrinted
    <2>3. PICK u \in Seq(Token) : u = v[j] /\ Len(u) # 0 /\ u[1].what = "number"
      BY <2>1 DEF IsPrinted
    <2>4. PICK q \in 1..Len(in) + 1 : q = b[j - 1]
      BY <1>3, <2>1
    <2>5. b[j] = q + Len(ss[j]) /\ Shows(in, q, Spaced(o) \o u)
      BY <1>3, <2>1, <2>2, <2>3, <2>4
    <2>6. Spaced(o) \in Seq(Token) /\ Len(Spaced(o)) = 3
      BY SpacedIsText
    <2>7. Shows(in, q, Spaced(o)) /\ Shows(in, q + 3, u) /\ q + 3 \in q..Len(in) + 1
      BY <2>5, <2>6, ShowsConcat
    <2>8. q + 3 \in 1..Len(in) + 1
      BY <1>1, <2>7
    <2>9. ~Blank(in, q + 3)
      BY <2>3, <2>7, <2>8, ShownFirst
    <2>10. Blank(in, q) /\ OpAt(in, q) = o /\ \A items : ItemAt(in, items, q) = items[q + 3]
      BY <2>7, <2>9, OperatorsAreRead
    <2>11. Len(ss[j]) = 3 + Len(u)
      <3>1. Len(Spaced(o) \o u) = Len(Spaced(o)) + Len(u)
        BY <2>6, ConcatProperties
      <3>. QED
        BY <2>2, <2>3, <2>6, <3>1
    <2>12. PICK x \in Nat : x = Len(u)
      BY LenProperties
    <2>13. b[j] = q + 3 + Len(u)
      BY <1>1, <2>5, <2>11, <2>12
    <2>14. q + 3 \in 1..l + 1 /\ Shows(in, q + 3, v[j])
      BY <1>1, <2>3, <2>7, <2>8
    <2>15. b[j] = q + 3 + Len(v[j])
      BY <2>3, <2>13
    <2>16. OpAt(in, q) = op[j]
      BY <2>2, <2>10
    <2>. QED
      BY <2>4, <2>10, <2>14, <2>15, <2>16
  <1>5. s \in [1..n -> 1..Len(in) + 1]
    <2>1. ASSUME NEW j \in 1..n
          PROVE  (IF j = 1 THEN p ELSE b[j - 1] + 3) \in 1..Len(in) + 1
      <3>1. j # 1 => j \in 2..n
        OBVIOUS
      <3>2. j # 1 => b[j - 1] + 3 \in 1..Len(in) + 1
        BY <1>1, <1>4, <3>1
      <3>. QED
        BY <3>2
    <2>. QED
      BY <2>1
  <1>6. s[1] = p
    OBVIOUS
  <1>7. ASSUME NEW j \in 1..n
        PROVE  Shows(in, s[j], v[j]) /\ b[j] = s[j] + Len(v[j])
    <2>1. CASE j = 1
      <3>1. j - 1 = 0 /\ ss[1] = v[1]
        BY <2>1 DEF IsPrinted
      <3>2. b[1] = b[0] + Len(ss[1]) /\ Shows(in, b[0], ss[1])
        BY <1>3, <2>1, <3>1
      <3>. QED
        BY <1>3, <1>6, <2>1, <3>1, <3>2
    <2>2. CASE j # 1
      <3>1. j \in 2..n /\ s[j] = b[j - 1] + 3
        BY <2>2
      <3>. QED
        BY <1>4, <3>1
    <2>. QED
      BY <2>1, <2>2
  <1>8. \A j \in 2..n : /\ Blank(in, b[j - 1])
                        /\ OpAt(in, b[j - 1]) = op[j]
                        /\ \A items : ItemAt(in, items, b[j - 1]) = items[s[j]]
    <2>. SUFFICES ASSUME NEW j \in 2..n
                  PROVE  /\ Blank(in, b[j - 1])
                         /\ OpAt(in, b[j - 1]) = op[j]
                         /\ \A items : ItemAt(in, items, b[j - 1]) = items[s[j]]
      OBVIOUS
    <2>1. s[j] = b[j - 1] + 3
      OBVIOUS
    <2>. HIDE DEF s
    <2>. QED
      BY <1>4, <2>1
  <1>. HIDE DEF s
  <1>9. ItemsArePlaced(b, s, in, p, n, v, op, w)
    BY <1>3, <1>5, <1>6, <1>7, <1>8 DEF ItemsArePlaced
  <1>. QED
    BY <1>9

\* The items behind the first, with their operators.
LinksOf(op, x, n) == [i \in 1..n - 1 |-> [op |-> op[i + 1], item |-> x[i + 1]]]

\* What is shown of the items is read as the items, where it ends in a blank or at the
\* end and no operator of the items' own follows.
ItemsReadBack(in, items, v, x, n, inner) ==
  \A j \in 1..n, q \in 1..Len(in) + 1 :
    /\ Shows(in, q, v[j])
    /\ Ends(in, q + Len(v[j]))
    /\ OpAt(in, q + Len(v[j])) \notin inner
    => items[q] = [read |-> x[j], at |-> q + Len(v[j])]

\* Items behind p whose text is read back, and what stops the list behind them.
AreReadBack(in, p, ops, I, items, inner, v, op, x, n, w) ==
  /\ ReadsItems(in, items, I) /\ Values(I) /\ Values(Seq(Link(ops, I)))
  /\ x \in [1..n -> I]
  /\ \A j \in 2..n : op[j] \in ops
  /\ ItemsReadBack(in, items, v, x, n, inner)
  /\ "end" \notin ops /\ ops \cap inner = {}
  /\ Ends(in, p + Len(w)) /\ OpAt(in, p + Len(w)) \notin ops \cup inner

ListIsRead(in, p, ops, I, items, op, x, n, w) ==
  /\ LinksOf(op, x, n) \in Seq(Link(ops, I)) /\ Len(LinksOf(op, x, n)) = n - 1
  /\ p + Len(w) \in Nat
  /\ \E at \in Nat :
       /\ items[p] = [read |-> x[1], at |-> at]
       /\ Many(in, at, ops, items) = [read |-> LinksOf(op, x, n), at |-> p + Len(w)]

\* A printed list whose items are read back is read back.
LEMMA PrintedListReads ==
  ASSUME NEW in \in Seq(Token), NEW p \in 1..Len(in) + 1, NEW n \in Nat \ {0},
         NEW ss, NEW v, NEW op,
         IsPrinted(ss, v, op, n), AreTexts(Token, ss, n),
         NEW w, w = FlattenSeq(ss), Shows(in, p, w),
         NEW ops, NEW inner, NEW I, NEW items, NEW x,
         AreReadBack(in, p, ops, I, items, inner, v, op, x, n, w)
  PROVE  ListIsRead(in, p, ops, I, items, op, x, n, w)
PROOF
  <1>. /\ ReadsItems(in, items, I) /\ Values(I) /\ Values(Seq(Link(ops, I)))
       /\ x \in [1..n -> I]
       /\ \A j \in 2..n : op[j] \in ops
       /\ ItemsReadBack(in, items, v, x, n, inner)
       /\ "end" \notin ops /\ ops \cap inner = {}
       /\ Ends(in, p + Len(w)) /\ OpAt(in, p + Len(w)) \notin ops \cup inner
    BY DEF AreReadBack
  <1>1. PICK b, s : ItemsArePlaced(b, s, in, p, n, v, op, w)
    BY PrintedHasPlaces
  <1>2. /\ b \in [0..n -> 1..Len(in) + 1] /\ s \in [1..n -> 1..Len(in) + 1]
        /\ s[1] = p
        /\ b[n] = p + Len(w)
        /\ \A j \in 1..n : Shows(in, s[j], v[j]) /\ b[j] = s[j] + Len(v[j])
        /\ \A j \in 2..n : /\ Blank(in, b[j - 1])
                           /\ OpAt(in, b[j - 1]) = op[j]
                           /\ \A any : ItemAt(in, any, b[j - 1]) = any[s[j]]
    BY <1>1 DEF ItemsArePlaced
  <1>3. ASSUME NEW j \in 1..n
        PROVE  items[s[j]] = [read |-> x[j], at |-> b[j]]
    <2>1. Ends(in, b[j]) /\ OpAt(in, b[j]) \notin inner
      <3>1. CASE j = n
        BY <1>2, <3>1
      <3>2. CASE j # n
        <4>1. PICK i \in 2..n : i = j + 1 /\ i - 1 = j
          BY <3>2
        <4>2. Blank(in, b[i - 1]) /\ OpAt(in, b[i - 1]) = op[i] /\ op[i] \in ops
          BY <1>2
        <4>. QED
          BY <4>1, <4>2 DEF Ends
      <3>. QED
        BY <3>1, <3>2
    <2>2. PICK q \in 1..Len(in) + 1 : q = s[j]
      BY <1>2
    <2>3. Shows(in, q, v[j]) /\ b[j] = q + Len(v[j])
      BY <1>2, <2>2
    <2>. QED
      BY <2>1, <2>2, <2>3 DEF ItemsReadBack
  <1>4. PICK l : l = LinksOf(op, x, n)
    OBVIOUS
  <1>5. PICK m \in Nat : m = n - 1
    OBVIOUS
  <1>6. \A k \in 1..m : l[k] = [op |-> op[k + 1], item |-> x[k + 1]] /\ k + 1 \in 2..n
    BY <1>4, <1>5 DEF LinksOf
  <1>7. l \in Seq(Link(ops, I)) /\ Len(l) = m
    <2>1. \A k \in 1..m : l[k] \in Link(ops, I)
      <3>. SUFFICES ASSUME NEW k \in 1..m PROVE l[k] \in Link(ops, I)
        OBVIOUS
      <3>1. PICK j \in 2..n : j = k + 1 /\ l[k] = [op |-> op[j], item |-> x[j]]
        BY <1>6
      <3>2. op[j] \in ops /\ x[j] \in I
        OBVIOUS
      <3>. QED
        BY <3>1, <3>2 DEF Link
    <2>2. l \in [1..m -> Link(ops, I)]
      BY <1>4, <1>5, <2>1 DEF LinksOf
    <2>3. l \in Seq(Link(ops, I))
      BY <2>2, SeqDef
    <2>. QED
      BY <2>2, <2>3, LenProperties
  <1>8. PICK a : a = [k \in 1..m + 1 |-> b[k]]
    OBVIOUS
  <1>9. a \in [1..m + 1 -> 1..Len(in) + 1] /\ a[1] = b[1] /\ a[m + 1] = b[n]
    BY <1>2, <1>5, <1>8
  <1>10. \A k \in 1..m : /\ OpAt(in, a[k]) = l[k].op
                        /\ ItemAt(in, items, a[k]) = [read |-> l[k].item, at |-> a[k + 1]]
    <2>. SUFFICES ASSUME NEW k \in 1..m
                  PROVE  /\ OpAt(in, a[k]) = l[k].op
                         /\ ItemAt(in, items, a[k]) = [read |-> l[k].item, at |-> a[k + 1]]
      OBVIOUS
    <2>1. PICK j \in 2..n : j = k + 1 /\ j - 1 = k
      BY <1>5
    <2>2. a[k] = b[k] /\ a[k + 1] = b[j] /\ l[k].op = op[j] /\ l[k].item = x[j]
      <3>1. l[k] = [op |-> op[j], item |-> x[j]]
        BY <1>6, <2>1
      <3>2. k \in 1..m + 1 /\ k + 1 \in 1..m + 1
        BY <1>5
      <3>. QED
        BY <1>8, <2>1, <3>1, <3>2
    <2>3. OpAt(in, b[k]) = op[j] /\ ItemAt(in, items, b[k]) = items[s[j]]
      BY <1>2, <2>1
    <2>4. items[s[j]] = [read |-> x[j], at |-> b[j]]
      BY <1>3
    <2>. QED
      BY <2>2, <2>3, <2>4
  <1>11. OpAt(in, a[m + 1]) \notin ops
    BY <1>2, <1>9
  <1>12. Many(in, a[1], ops, items) = [read |-> l, at |-> a[m + 1]]
    <2>1. AreListed(in, ops, I, items, l, a, m)
      BY <1>7, <1>9, <1>10, <1>11 DEF AreListed
    <2>. QED
      BY <2>1, ListReads
  <1>13. items[p] = [read |-> x[1], at |-> b[1]]
    BY <1>2, <1>3
  <1>14. b[1] \in Nat /\ b[n] \in Nat
    <2>1. Len(in) \in Nat /\ 1 \in 0..n /\ n \in 0..n
      BY LenProperties
    <2>. QED
      BY <1>2, <2>1
  <1>. QED
    BY <1>2, <1>4, <1>5, <1>7, <1>9, <1>12, <1>13, <1>14 DEF ListIsRead

\* The values that the parsers return.
LEMMA ValuesAreRead ==
  /\ Values(Terms) /\ Values(Seq(Link({"*"}, Terms)))
  /\ Values(ProductsOf(Terms)) /\ Values(Seq(Link({"+", "-"}, ProductsOf(Terms))))
PROOF
  <1>. DEFINE V == TermOrConst \cup ProductItems \cup ExprItems
  <1>1. \A I : I \subseteq V => Values(I)
    BY ReadingAssumption DEF Values
  <1>. HIDE DEF V
  <1>2. Terms \subseteq TermOrConst
    BY DEF Terms, SaneTerms, TermOrConst
  <1>3. ProductsOf(Terms) \subseteq ProductItems
    BY <1>2, SeqMonotonic DEF ProductsOf, ProductItems
  <1>4. \A ops, I : ops \subseteq Ops /\ I \subseteq TermOrConst \cup ProductItems
                      => Seq(Link(ops, I)) \subseteq ExprItems
    <2>. SUFFICES ASSUME NEW ops, NEW I, ops \subseteq Ops,
                         I \subseteq TermOrConst \cup ProductItems
                  PROVE  Seq(Link(ops, I)) \subseteq ExprItems
      OBVIOUS
    <2>1. PICK S : S = [op : {"+", "-", "*"}, item : TermOrConst \cup ProductItems]
      OBVIOUS
    <2>2. Link(ops, I) \subseteq S
      BY <2>1 DEF Link, Ops
    <2>3. Seq(Link(ops, I)) \subseteq Seq(S)
      BY <2>2, SeqMonotonic
    <2>. QED
      BY <2>1, <2>3 DEF ExprItems
  <1>5. {"*"} \subseteq Ops /\ {"+", "-"} \subseteq Ops
    BY DEF Ops
  <1>6. /\ Seq(Link({"*"}, Terms)) \subseteq ExprItems
        /\ Seq(Link({"+", "-"}, ProductsOf(Terms))) \subseteq ExprItems
    BY <1>2, <1>3, <1>4, <1>5
  <1>7. TermOrConst \subseteq V /\ ProductItems \subseteq V /\ ExprItems \subseteq V
    BY DEF V
  <1>. QED
    BY <1>1, <1>2, <1>3, <1>6, <1>7

\* The texts of a product.
ProductTexts(terms) ==
  [j \in DOMAIN terms |-> (IF j > 1 THEN Spaced("*") ELSE <<>>) \o DisplayTerm(terms[j])]

TermTexts(terms) == [j \in DOMAIN terms |-> DisplayTerm(terms[j])]

Times(n) == [j \in 1..n |-> "*"]

\* A product is printed as a list of terms.
LEMMA ProductIsPrinted ==
  ASSUME NEW terms \in ProductsOf(Terms), NEW n \in Nat \ {0}, n = Len(terms)
  PROVE  /\ IsPrinted(ProductTexts(terms), TermTexts(terms), Times(n), n)
         /\ AreTexts(Token, ProductTexts(terms), n)
         /\ DisplayProduct(terms) = FlattenSeq(ProductTexts(terms))
PROOF
  <1>1. PICK ss, v : ss = ProductTexts(terms) /\ v = TermTexts(terms)
    OBVIOUS
  <1>2. terms \in Seq(Terms) /\ DOMAIN terms = 1..n
    BY LenProperties DEF ProductsOf
  <1>3. \A j \in 1..n : /\ v[j] = DisplayTerm(terms[j])
                        /\ v[j] \in Seq(Token) /\ Len(v[j]) # 0 /\ v[j][1].what = "number"
    <2>. SUFFICES ASSUME NEW j \in 1..n
                  PROVE  /\ v[j] = DisplayTerm(terms[j])
                         /\ v[j] \in Seq(Token) /\ Len(v[j]) # 0 /\ v[j][1].what = "number"
      OBVIOUS
    <2>1. terms[j] \in Terms
      BY <1>2, ElementOfSeq
    <2>2. v[j] = DisplayTerm(terms[j])
      BY <1>1, <1>2 DEF TermTexts
    <2>. QED
      BY <2>1, <2>2, TermsAreTexts
  <1>4. PICK o : o = "*"
    OBVIOUS
  <1>5. o \in Ops /\ Spaced(o) \in Seq(Token) /\ \A j \in 1..n : Times(n)[j] = o
    BY <1>4, SpacedIsText DEF Ops, Times
  <1>6. \A j \in 1..n : ss[j] = IF j > 1 THEN Spaced(o) \o v[j] ELSE v[j]
    <2>. SUFFICES ASSUME NEW j \in 1..n
                  PROVE  ss[j] = IF j > 1 THEN Spaced(o) \o v[j] ELSE v[j]
      OBVIOUS
    <2>1. ss[j] = (IF j > 1 THEN Spaced("*") ELSE <<>>) \o DisplayTerm(terms[j])
      BY <1>1, <1>2, Zenon DEF ProductTexts
    <2>2. <<>> \o v[j] = v[j]
      BY <1>3, ConcatEmptySeq
    <2>. QED
      BY <1>3, <1>4, <2>1, <2>2
  <1>7. \A j \in 1..n : ss[j] \in Seq(Token)
    <2>. SUFFICES ASSUME NEW j \in 1..n
                  PROVE  ss[j] \in Seq(Token)
      OBVIOUS
    <2>1. Spaced(o) \o v[j] \in Seq(Token) /\ v[j] \in Seq(Token)
      BY <1>3, <1>5, ConcatProperties
    <2>. QED
      BY <1>6, <2>1
  <1>8. Len(ss) = n
    <2>1. ss \in [1..n -> Seq(Token)]
      BY <1>1, <1>2, <1>7 DEF ProductTexts
    <2>2. ss \in Seq(Seq(Token))
      BY <2>1, SeqDef
    <2>3. Len(ss) \in Nat /\ DOMAIN ss = 1..Len(ss)
      BY <2>2, LenProperties
    <2>. QED
      BY <2>1, <2>3
  <1>9. IsPrinted(ss, v, Times(n), n)
    <2>1. ss[1] = v[1]
      BY <1>6
    <2>2. \A j \in 2..n : Times(n)[j] \in Ops /\ ss[j] = Spaced(Times(n)[j]) \o v[j]
      <3>. SUFFICES ASSUME NEW j \in 2..n
                    PROVE  Times(n)[j] \in Ops /\ ss[j] = Spaced(Times(n)[j]) \o v[j]
        OBVIOUS
      <3>1. j \in 1..n /\ j > 1
        OBVIOUS
      <3>2. Times(n)[j] = o /\ ss[j] = Spaced(o) \o v[j]
        BY <1>5, <1>6, <3>1
      <3>. QED
        BY <1>5, <3>2
    <2>. QED
      BY <1>3, <2>1, <2>2 DEF IsPrinted
  <1>10. AreTexts(Token, ss, n)
    BY <1>7, <1>8 DEF AreTexts
  <1>11. DisplayProduct(terms) = FlattenSeq(ss)
    BY <1>1, Zenon DEF DisplayProduct, ProductTexts
  <1>. QED
    BY <1>1, <1>9, <1>10, <1>11

\* A list is its first item and the rest.
LEMMA FirstAndRest ==
  ASSUME NEW S, NEW q \in Seq(S), q # <<>>, NEW r \in Seq(S), Len(r) = Len(q) - 1,
         \A i \in 1..Len(q) - 1 : r[i] = q[i + 1]
  PROVE  <<q[1]>> \o r = q
PROOF
  <1>1. PICK n \in Nat \ {0} : n = Len(q)
    BY EmptySeq, LenProperties
  <1>2. PICK f : f = <<q[1]>>
    OBVIOUS
  <1>3. q[1] \in S
    BY <1>1, ElementOfSeq
  <1>4. f \in Seq(S) /\ Len(f) = 1 /\ f[1] = q[1]
    BY <1>2, <1>3
  <1>5. PICK w : w = f \o r
    OBVIOUS
  <1>6. w \in Seq(S) /\ Len(w) = Len(f) + Len(r) /\ \A i \in 1..Len(f) + Len(r) :
          w[i] = IF i <= Len(f) THEN f[i] ELSE r[i - Len(f)]
    BY <1>4, <1>5, ConcatProperties
  <1>7. Len(w) = n /\ \A i \in 1..n : w[i] = IF i <= 1 THEN f[i] ELSE r[i - 1]
    BY <1>1, <1>4, <1>6
  <1>8. \A i \in 1..n : w[i] = q[i]
    <2>. SUFFICES ASSUME NEW i \in 1..n PROVE w[i] = q[i]
      OBVIOUS
    <2>1. CASE i = 1
      BY <1>4, <1>7, <2>1
    <2>2. CASE i # 1
      <3>1. PICK j \in 1..n - 1 : j = i - 1 /\ j + 1 = i
        BY <2>2
      <3>2. r[j] = q[i]
        BY <1>1, <3>1
      <3>3. w[i] = r[j]
        BY <1>7, <2>2, <3>1
      <3>. QED
        BY <3>2, <3>3
    <2>. QED
      BY <2>1, <2>2
  <1>9. w = q
    BY <1>1, <1>6, <1>7, <1>8, SeqEqual
  <1>. QED
    BY <1>2, <1>5, <1>9

\* A list that is printed begins with its first item, and so with a number.
LEMMA PrintedBegins ==
  ASSUME NEW in \in Seq(Token), NEW p \in 1..Len(in) + 1, NEW n \in Nat \ {0},
         NEW ss, NEW v, NEW op,
         IsPrinted(ss, v, op, n), AreTexts(Token, ss, n),
         NEW w, w = FlattenSeq(ss), Shows(in, p, w)
  PROVE  TokenAt(in, p) = "number" /\ ~Blank(in, p) /\ p \in 1..Len(in)
PROOF
  <1>1. PICK b, s : ItemsArePlaced(b, s, in, p, n, v, op, w)
    BY PrintedHasPlaces
  <1>2. Shows(in, p, v[1])
    BY <1>1 DEF ItemsArePlaced
  <1>3. v[1] \in Seq(Token) /\ Len(v[1]) # 0 /\ v[1][1].what = "number"
    BY DEF IsPrinted
  <1>. QED
    BY <1>2, <1>3, ShownFirst

\* A text shows itself at its beginning.
LEMMA ShowsItself ==
  ASSUME NEW w \in Seq(Token)
  PROVE  Shows(w, 1, w) /\ 1 \in 1..Len(w) + 1
PROOF
  <1>1. PICK n \in Nat : n = Len(w)
    BY LenProperties
  <1>2. \A k \in 1..n : 1 + k - 1 = k
    OBVIOUS
  <1>. QED
    BY <1>1, <1>2 DEF Shows

\* A printed product begins with a number.
LEMMA ProductIsText ==
  ASSUME NEW terms \in ProductsOf(Terms)
  PROVE  /\ DisplayProduct(terms) \in Seq(Token)
         /\ Len(DisplayProduct(terms)) # 0
         /\ DisplayProduct(terms)[1].what = "number"
PROOF
  <1>1. PICK n \in Nat \ {0} : n = Len(terms)
    BY LenProperties DEF ProductsOf
  <1>2. PICK ss, v, op : ss = ProductTexts(terms) /\ v = TermTexts(terms) /\ op = Times(n)
    OBVIOUS
  <1>3. PICK w : w = DisplayProduct(terms)
    OBVIOUS
  <1>4. IsPrinted(ss, v, op, n) /\ AreTexts(Token, ss, n) /\ w = FlattenSeq(ss)
    BY <1>1, <1>2, <1>3, ProductIsPrinted
  <1>5. w \in Seq(Token)
    <2>1. PICK f : Joins(f, Token, ss, n)
      BY <1>4, TextsAreJoined
    <2>. QED
      BY <1>4, <2>1 DEF Joins
  <1>6. Shows(w, 1, w) /\ 1 \in 1..Len(w) + 1
    BY <1>5, ShowsItself
  <1>7. TokenAt(w, 1) = "number" /\ 1 \in 1..Len(w)
    BY <1>4, <1>5, <1>6, PrintedBegins
  <1>8. w[1].what = "number" /\ Len(w) # 0
    <2>1. DOMAIN w = 1..Len(w) /\ Len(w) \in Nat
      BY <1>5, LenProperties
    <2>. QED
      BY <1>7, <2>1 DEF TokenAt
  <1>. QED
    BY <1>3, <1>5, <1>8

\* A product that is shown is read.
LEMMA ShownProductReads ==
  ASSUME NEW in \in Seq(Token), NEW p \in 1..Len(in) + 1, NEW terms \in ProductsOf(Terms),
         Shows(in, p, DisplayProduct(terms)),
         Ends(in, p + Len(DisplayProduct(terms))),
         OpAt(in, p + Len(DisplayProduct(terms))) # "*"
  PROVE  Product(in, p) = [read |-> terms, at |-> p + Len(DisplayProduct(terms))]
PROOF
  <1>1. /\ terms \in Seq(Terms) /\ Len(terms) \in 1..MaxTerms
        /\ DOMAIN terms = 1..Len(terms) /\ Len(terms) \in Nat \ {0}
    BY LenProperties DEF ProductsOf
  <1>2. PICK n \in Nat \ {0} : n = Len(terms)
    BY <1>1
  <1>3. PICK ss, v, op : ss = ProductTexts(terms) /\ v = TermTexts(terms) /\ op = Times(n)
    OBVIOUS
  <1>4. PICK w : w = DisplayProduct(terms)
    OBVIOUS
  <1>5. IsPrinted(ss, v, op, n) /\ AreTexts(Token, ss, n) /\ w = FlattenSeq(ss)
    BY <1>2, <1>3, <1>4, ProductIsPrinted
  <1>6. PICK items : items = [q \in 1..Len(in) + 1 |-> Term(in, q)]
    OBVIOUS
  <1>7. PICK I : I = Terms
    OBVIOUS
  <1>8. ReadsItems(in, items, I)
    BY <1>6, <1>7, TermReads DEF ReadsItems
  <1>9. PICK ops, inner : ops = {"*"} /\ inner = {}
    OBVIOUS
  <1>10. "end" \notin ops /\ ops \cap inner = {} /\ OpAt(in, p + Len(w)) \notin ops \cup inner
    BY <1>4, <1>9
  <1>11. Values(I) /\ Values(Seq(Link(ops, I)))
    BY <1>7, <1>9, ValuesAreRead
  <1>12. terms \in [1..n -> I]
    <2>1. \A i \in 1..n : terms[i] \in Terms
      BY <1>1, <1>2, ElementOfSeq
    <2>. QED
      BY <1>1, <1>2, <1>7, <2>1
  <1>13. \A j \in 2..n : op[j] \in ops
    BY <1>3, <1>9 DEF Times
  <1>14. ItemsReadBack(in, items, v, terms, n, inner)
    <2>. SUFFICES ASSUME NEW j \in 1..n, NEW q \in 1..Len(in) + 1, Shows(in, q, v[j]),
                         Ends(in, q + Len(v[j]))
                  PROVE  items[q] = [read |-> terms[j], at |-> q + Len(v[j])]
      BY DEF ItemsReadBack
    <2>1. v[j] = DisplayTerm(terms[j])
      BY <1>1, <1>2, <1>3 DEF TermTexts
    <2>2. PICK t \in Terms : t = terms[j]
      BY <1>7, <1>12
    <2>3. Term(in, q) = [read |-> t, at |-> q + Len(DisplayTerm(t))]
      BY <2>1, <2>2, ShownTermReads
    <2>. QED
      BY <1>6, <2>1, <2>2, <2>3
  <1>15. PICK links : links = LinksOf(op, terms, n)
    OBVIOUS
  <1>16. PICK after : after = p + Len(w)
    OBVIOUS
  <1>17. /\ links \in Seq(Link(ops, I)) /\ Len(links) = n - 1 /\ after \in Nat
         /\ \E at \in Nat : /\ items[p] = [read |-> terms[1], at |-> at]
                            /\ Many(in, at, ops, items) = [read |-> links, at |-> after]
    <2>1. AreReadBack(in, p, ops, I, items, inner, v, op, terms, n, w)
      BY <1>4, <1>8, <1>10, <1>11, <1>12, <1>13, <1>14 DEF AreReadBack
    <2>2. /\ IsPrinted(ss, v, op, n) /\ AreTexts(Token, ss, n)
          /\ w = FlattenSeq(ss) /\ Shows(in, p, w)
      BY <1>4, <1>5
    <2>3. ListIsRead(in, p, ops, I, items, op, terms, n, w)
      BY <2>1, <2>2, PrintedListReads
    <2>. QED
      BY <1>15, <1>16, <2>3 DEF ListIsRead
  <1>18. PICK at \in Nat : /\ items[p] = [read |-> terms[1], at |-> at]
                           /\ Many(in, at, ops, items) = [read |-> links, at |-> after]
    BY <1>17
  <1>19. PICK first, more : first = items[p] /\ more = Many(in, at, ops, items)
    OBVIOUS
  <1>20. first # Refused /\ first.read = terms[1] /\ first.at = at /\ first = Term(in, p)
    <2>1. terms[1] \in I
      BY <1>12
    <2>. QED
      BY <1>6, <1>11, <1>18, <1>19, <2>1 DEF Values
  <1>21. more # Refused /\ more.read = links /\ more = [read |-> links, at |-> after]
    BY <1>11, <1>17, <1>18, <1>19 DEF Values
  <1>22. Product(in, p) = ProductOf(terms[1], more)
    BY <1>6, <1>9, <1>19, <1>20 DEF Product, ProductFrom
  <1>23. PICK rest : rest = [i \in DOMAIN links |-> links[i].item]
    OBVIOUS
  <1>24. <<terms[1]>> \o rest = terms
    <2>1. DOMAIN links = 1..n - 1
      BY <1>17, LenProperties
    <2>2. \A i \in 1..n - 1 : links[i].item = terms[i + 1]
      BY <1>15 DEF LinksOf
    <2>3. \A i \in 1..n - 1 : rest[i] = terms[i + 1] /\ terms[i + 1] \in I
      BY <1>12, <1>23, <2>1, <2>2
    <2>4. rest \in [1..n - 1 -> I]
      BY <1>23, <2>1, <2>3
    <2>5. rest \in Seq(I)
      <3>1. n - 1 \in Nat
        OBVIOUS
      <3>. QED
        BY <2>4, <3>1, SeqDef
    <2>6. Len(rest) = n - 1
      BY <2>4, <2>5, LenProperties
    <2>7. terms \in Seq(I) /\ terms # <<>>
      BY <1>1, <1>7, EmptySeq
    <2>. QED
      BY <1>2, <2>3, <2>5, <2>6, <2>7, FirstAndRest
  <1>25. ~(Len(more.read) + 1 > MaxTerms)
    BY <1>1, <1>2, <1>17, <1>21, ParseAssumption
  <1>26. ProductOf(terms[1], more) = [more EXCEPT !.read = terms]
    BY <1>21, <1>23, <1>24, <1>25 DEF ProductOf
  <1>27. [more EXCEPT !.read = terms] = [read |-> terms, at |-> after]
    BY <1>21
  <1>. QED
    BY <1>4, <1>16, <1>22, <1>26, <1>27

\* The texts of an expression.
ExprTexts(e) ==
  [i \in DOMAIN e |->
    (CASE i = 1 /\ e[i].op = "+" -> <<>>
       [] i = 1 /\ e[i].op = "-" -> <<Char("-")>>
       [] OTHER -> Spaced(e[i].op)) \o DisplayProduct(e[i].item)]

ItemTexts(e) == [i \in DOMAIN e |-> DisplayProduct(e[i].item)]

OpsOf(e) == [i \in DOMAIN e |-> e[i].op]

ItemsOf(e) == [i \in DOMAIN e |-> e[i].item]

\* What an expression is made of.
LEMMA ExprFacts ==
  ASSUME NEW e \in ExprsOf(Terms), NEW n \in Nat \ {0}, n = Len(e)
  PROVE  /\ DOMAIN e = 1..n
         /\ e[1].op = "+"
         /\ \A i \in 1..n : /\ e[i] = [op |-> e[i].op, item |-> e[i].item]
                            /\ e[i].op \in {"+", "-"}
                            /\ e[i].item \in ProductsOf(Terms)
PROOF
  <1>1. PICK L : L = Link({"+", "-"}, ProductsOf(Terms))
    OBVIOUS
  <1>2. e \in Seq(L) /\ e[1].op = "+"
    BY <1>1 DEF ExprsOf
  <1>3. DOMAIN e = 1..n /\ \A i \in 1..n : e[i] \in L
    BY <1>2, LenProperties, ElementOfSeq
  <1>4. \A x \in L : /\ x = [op |-> x.op, item |-> x.item]
                     /\ x.op \in {"+", "-"}
                     /\ x.item \in ProductsOf(Terms)
    BY <1>1 DEF Link
  <1>. QED
    BY <1>2, <1>3, <1>4

\* An expression is printed as a list of products.
LEMMA ExprIsPrinted ==
  ASSUME NEW e \in ExprsOf(Terms), NEW n \in Nat \ {0}, n = Len(e)
  PROVE  /\ IsPrinted(ExprTexts(e), ItemTexts(e), OpsOf(e), n)
         /\ AreTexts(Token, ExprTexts(e), n)
         /\ Display(e) = FlattenSeq(ExprTexts(e))
PROOF
  <1>1. PICK ss, v, op : ss = ExprTexts(e) /\ v = ItemTexts(e) /\ op = OpsOf(e)
    OBVIOUS
  <1>2. /\ DOMAIN e = 1..n
        /\ e[1].op = "+"
        /\ \A i \in 1..n : e[i].op \in {"+", "-"} /\ e[i].item \in ProductsOf(Terms)
    BY ExprFacts
  <1>3. \A j \in 1..n : /\ v[j] = DisplayProduct(e[j].item)
                        /\ v[j] \in Seq(Token) /\ Len(v[j]) # 0 /\ v[j][1].what = "number"
    <2>. SUFFICES ASSUME NEW j \in 1..n
                  PROVE  /\ v[j] = DisplayProduct(e[j].item)
                         /\ v[j] \in Seq(Token) /\ Len(v[j]) # 0 /\ v[j][1].what = "number"
      OBVIOUS
    <2>1. v[j] = DisplayProduct(e[j].item)
      BY <1>1, <1>2 DEF ItemTexts
    <2>2. PICK terms \in ProductsOf(Terms) : terms = e[j].item
      BY <1>2
    <2>. QED
      BY <2>1, <2>2, ProductIsText
  <1>4. \A j \in 1..n : op[j] = e[j].op /\ op[j] \in Ops
    BY <1>1, <1>2 DEF OpsOf, Ops
  <1>5. \A j \in 1..n : ss[j] = IF j = 1 THEN v[j] ELSE Spaced(op[j]) \o v[j]
    <2>. SUFFICES ASSUME NEW j \in 1..n
                  PROVE  ss[j] = IF j = 1 THEN v[j] ELSE Spaced(op[j]) \o v[j]
      OBVIOUS
    <2>1. ss[j] = (CASE j = 1 /\ e[j].op = "+" -> <<>>
                     [] j = 1 /\ e[j].op = "-" -> <<Char("-")>>
                     [] OTHER -> Spaced(e[j].op)) \o DisplayProduct(e[j].item)
      BY <1>1, <1>2, Zenon DEF ExprTexts
    <2>2. CASE j = 1
      <3>1. ss[j] = <<>> \o v[j]
        BY <1>2, <1>3, <2>1, <2>2, Zenon
      <3>. QED
        BY <1>3, <2>2, <3>1, ConcatEmptySeq
    <2>3. CASE j # 1
      BY <1>3, <1>4, <2>1, <2>3, Zenon
    <2>. QED
      BY <2>2, <2>3
  <1>6. \A j \in 1..n : ss[j] \in Seq(Token)
    <2>. SUFFICES ASSUME NEW j \in 1..n
                  PROVE  ss[j] \in Seq(Token)
      OBVIOUS
    <2>1. Spaced(op[j]) \in Seq(Token)
      BY <1>4, SpacedIsText
    <2>2. Spaced(op[j]) \o v[j] \in Seq(Token) /\ v[j] \in Seq(Token)
      BY <1>3, <2>1, ConcatProperties
    <2>. QED
      BY <1>5, <2>2
  <1>7. Len(ss) = n
    <2>1. ss \in [1..n -> Seq(Token)]
      <3>1. ss = [j \in 1..n |-> ss[j]]
        BY <1>1, <1>2, Zenon DEF ExprTexts
      <3>. QED
        BY <1>6, <3>1
    <2>2. ss \in Seq(Seq(Token))
      BY <2>1, SeqDef
    <2>3. Len(ss) \in Nat /\ DOMAIN ss = 1..Len(ss)
      BY <2>2, LenProperties
    <2>. QED
      BY <2>1, <2>3
  <1>8. IsPrinted(ss, v, op, n)
    <2>1. ss[1] = v[1]
      BY <1>5
    <2>2. \A j \in 2..n : op[j] \in Ops /\ ss[j] = Spaced(op[j]) \o v[j]
      <3>. SUFFICES ASSUME NEW j \in 2..n
                    PROVE  op[j] \in Ops /\ ss[j] = Spaced(op[j]) \o v[j]
        OBVIOUS
      <3>1. j \in 1..n /\ j # 1
        OBVIOUS
      <3>. QED
        BY <1>4, <1>5, <3>1
    <2>. QED
      BY <1>3, <2>1, <2>2 DEF IsPrinted
  <1>9. AreTexts(Token, ss, n)
    BY <1>6, <1>7 DEF AreTexts
  <1>10. Display(e) = FlattenSeq(ss)
    BY <1>1, Zenon DEF Display, ExprTexts
  <1>. QED
    BY <1>1, <1>8, <1>9, <1>10

\* Behind the input stands its end.
LEMMA EndIsEnd ==
  ASSUME NEW in \in Seq(Token)
  PROVE  LET p == Len(in) + 1
         IN  TokenAt(in, p) = "end" /\ AfterBlanks(in, p) = p
PROOF
  <1>1. PICK l \in Nat : l = Len(in) /\ DOMAIN in = 1..l
    BY LenProperties
  <1>2. l + 1 \in 1..Len(in) + 1 /\ l + 1 \notin DOMAIN in
    BY <1>1
  <1>3. TokenAt(in, l + 1) = "end"
    BY <1>2 DEF TokenAt
  <1>4. AfterBlanks(in, l + 1) \in l + 1..l + 1
    BY <1>1, <1>2, BlanksEnd
  <1>. QED
    BY <1>1, <1>3, <1>4

\* An expression that is printed reads back.
LEMMA DisplayReadsBack ==
  ASSUME NEW e \in ExprsOf(Terms)
  PROVE  Parse(Display(e)) = e
PROOF
  <1>1. PICK I : I = ProductsOf(Terms)
    OBVIOUS
  <1>2. PICK ops, inner : ops = {"+", "-"} /\ inner = {"*"}
    OBVIOUS
  <1>3. e \in Seq(Link(ops, I)) /\ e # <<>> /\ TermCount(e) <= MaxTerms
    BY <1>1, <1>2 DEF ExprsOf
  <1>4. PICK n \in Nat \ {0} : n = Len(e)
    BY <1>3, EmptySeq, LenProperties
  <1>5. /\ DOMAIN e = 1..n
        /\ e[1].op = "+"
        /\ \A i \in 1..n : /\ e[i] = [op |-> e[i].op, item |-> e[i].item]
                           /\ e[i].op \in {"+", "-"}
                           /\ e[i].item \in ProductsOf(Terms)
    BY <1>4, ExprFacts
  <1>6. PICK ss, v, op, x :
          ss = ExprTexts(e) /\ v = ItemTexts(e) /\ op = OpsOf(e) /\ x = ItemsOf(e)
    OBVIOUS
  <1>7. PICK in : in = Display(e)
    OBVIOUS
  <1>8. IsPrinted(ss, v, op, n) /\ AreTexts(Token, ss, n) /\ in = FlattenSeq(ss)
    BY <1>4, <1>6, <1>7, ExprIsPrinted
  <1>9. in \in Seq(Token)
    <2>1. PICK f : Joins(f, Token, ss, n)
      BY <1>8, TextsAreJoined
    <2>. QED
      BY <1>8, <2>1 DEF Joins
  <1>10. Shows(in, 1, in) /\ 1 \in 1..Len(in) + 1
    BY <1>9, ShowsItself
  <1>11. PICK l \in Nat : l = Len(in)
    BY <1>9, LenProperties
  <1>12. 1 + Len(in) = l + 1 /\ TokenAt(in, l + 1) = "end" /\ AfterBlanks(in, l + 1) = l + 1
    BY <1>9, <1>11, EndIsEnd
  <1>13. Ends(in, 1 + Len(in)) /\ OpAt(in, 1 + Len(in)) \notin ops \cup inner
    BY <1>2, <1>12 DEF Ends, OpAt
  <1>14. PICK items : items = [q \in 1..Len(in) + 1 |-> Product(in, q)]
    OBVIOUS
  <1>15. ReadsItems(in, items, I)
    BY <1>1, <1>9, <1>14, ProductReads DEF ReadsItems
  <1>16. Values(I) /\ Values(Seq(Link(ops, I)))
    BY <1>1, <1>2, ValuesAreRead
  <1>17. /\ x \in [1..n -> I]
         /\ \A j \in 1..n : x[j] = e[j].item /\ op[j] = e[j].op /\ op[j] \in ops
    BY <1>1, <1>2, <1>5, <1>6 DEF ItemsOf, OpsOf
  <1>18. ItemsReadBack(in, items, v, x, n, inner)
    <2>. SUFFICES ASSUME NEW j \in 1..n, NEW q \in 1..Len(in) + 1, Shows(in, q, v[j]),
                         Ends(in, q + Len(v[j])), OpAt(in, q + Len(v[j])) \notin inner
                  PROVE  items[q] = [read |-> x[j], at |-> q + Len(v[j])]
      BY DEF ItemsReadBack
    <2>1. PICK terms \in ProductsOf(Terms) : terms = x[j] /\ v[j] = DisplayProduct(terms)
      BY <1>1, <1>5, <1>6, <1>17 DEF ItemTexts
    <2>2. OpAt(in, q + Len(DisplayProduct(terms))) # "*"
      BY <1>2, <2>1
    <2>3. Product(in, q) = [read |-> terms, at |-> q + Len(DisplayProduct(terms))]
      BY <1>9, <2>1, <2>2, ShownProductReads
    <2>. QED
      BY <1>14, <2>1, <2>3
  <1>19. ListIsRead(in, 1, ops, I, items, op, x, n, in)
    <2>1. AreReadBack(in, 1, ops, I, items, inner, v, op, x, n, in)
      <3>1. "end" \notin ops /\ ops \cap inner = {}
        BY <1>2
      <3>2. \A j \in 2..n : op[j] \in ops
        BY <1>17
      <3>. QED
        BY <1>13, <1>15, <1>16, <1>17, <1>18, <3>1, <3>2 DEF AreReadBack
    <2>. QED
      BY <1>8, <1>9, <1>10, <2>1, PrintedListReads
  <1>20. PICK links : links = LinksOf(op, x, n)
    OBVIOUS
  <1>21. /\ links \in Seq(Link(ops, I)) /\ Len(links) = n - 1
         /\ \E at \in Nat : /\ items[1] = [read |-> x[1], at |-> at]
                            /\ Many(in, at, ops, items) = [read |-> links, at |-> l + 1]
    BY <1>12, <1>19, <1>20 DEF ListIsRead
  <1>22. PICK at \in Nat : /\ items[1] = [read |-> x[1], at |-> at]
                           /\ Many(in, at, ops, items) = [read |-> links, at |-> l + 1]
    BY <1>21
  <1>23. PICK first, more : first = items[1] /\ more = Many(in, at, ops, items)
    OBVIOUS
  <1>24. first # Refused /\ first.read = x[1] /\ first.at = at /\ first = Product(in, 1)
    <2>1. x[1] \in I
      BY <1>17
    <2>. QED
      BY <1>10, <1>14, <1>16, <1>22, <1>23, <2>1 DEF Values
  <1>25. more # Refused /\ more.read = links /\ more = [read |-> links, at |-> l + 1]
    BY <1>16, <1>21, <1>22, <1>23 DEF Values
  <1>26. AfterBlanks(in, 1) = 1
    <2>1. ~Blank(in, 1)
      BY <1>8, <1>9, <1>10, PrintedBegins
    <2>. QED
      BY <1>9, <1>10, <2>1, NoBlank
  <1>27. Expr(in, 1) = ExprOf(x[1], more)
    BY <1>2, <1>14, <1>23, <1>24, <1>26 DEF Expr, ExprFrom
  <1>28. AllOf(x[1], links) = e
    <2>1. e[1] = [op |-> "+", item |-> x[1]]
      BY <1>5, <1>17
    <2>2. \A i \in 1..n - 1 : links[i] = e[i + 1]
      <3>. SUFFICES ASSUME NEW i \in 1..n - 1 PROVE links[i] = e[i + 1]
        OBVIOUS
      <3>1. PICK j \in 1..n : j = i + 1
        OBVIOUS
      <3>2. links[i] = [op |-> op[j], item |-> x[j]]
        BY <1>20, <3>1 DEF LinksOf
      <3>. QED
        BY <1>5, <1>17, <3>1, <3>2
    <2>3. <<e[1]>> \o links = e
      BY <1>3, <1>4, <1>21, <2>2, FirstAndRest
    <2>. QED
      BY <2>1, <2>3 DEF AllOf
  <1>29. ~(TermCount(e) > MaxTerms)
    <2>1. \A i \in 1..n : e[i].item \in Seq(Terms) /\ e[i].item # <<>>
      <3>1. \A q \in ProductsOf(Terms) : q \in Seq(Terms) /\ q # <<>>
        BY EmptySeq DEF ProductsOf
      <3>. QED
        BY <1>5, <3>1
    <2>2. TermCount(e) \in Nat
      BY <1>5, <2>1, TermsAreCounted
    <2>. QED
      BY <1>3, <2>2, ParseAssumption
  <1>30. ExprOf(x[1], more) = [more EXCEPT !.read = e]
    BY <1>25, <1>28, <1>29 DEF ExprOf
  <1>31. [more EXCEPT !.read = e] = [read |-> e, at |-> l + 1]
    BY <1>25
  <1>32. PICK r : r = [read |-> e, at |-> l + 1]
    OBVIOUS
  <1>33. r # Refused /\ r.read = e /\ r.at = l + 1 /\ r = Expr(in, 1)
    BY <1>3, <1>16, <1>27, <1>30, <1>31, <1>32 DEF Values
  <1>34. Parse(in) = e
    BY <1>11, <1>12, <1>33 DEF Parse, Whole
  <1>. QED
    BY <1>7, <1>34

\* What Display prints of an accepted expression is parsed as the same expression.
THEOREM PrintedFormIsRead == Spec => []PrintedFormReadsBack
PROOF
  <1>1. ParseInv => PrintedFormReadsBack
    <2>. SUFFICES ASSUME ParseInv, Accepted
                  PROVE  Parse(Display(parsed)) = parsed
      BY DEF PrintedFormReadsBack
    <2>1. PICK e : e = parsed
      OBVIOUS
    <2>2. e \in ExprsOf(Terms)
      BY <2>1, ParseReads DEF ParseInv, Accepted
    <2>. QED
      BY <2>1, <2>2, DisplayReadsBack
  <1>. QED
    BY <1>1, InputIsParsed, PTL

------------------------------------------------------------------------------
(* The input cut at its operators. *)

\* The operators among some positions.
OperatorsAmong(in, q) ==
  FoldLeft(LAMBDA ps, i : IF in[i].what \in {"+", "-", "*"} THEN Append(ps, i) ELSE ps,
           <<>>, q)

\* The operators are gathered position by position.
LEMMA OperatorsUnfold ==
  ASSUME NEW in, NEW n \in Nat, NEW q, DOMAIN q = 1..n, \A i \in 1..n : q[i] = i
  PROVE  \E p \in [0..n -> Seq(1..n)] :
           /\ p[0] = <<>>
           /\ \A k \in 1..n : p[k] = IF in[k].what \in Ops THEN Append(p[k - 1], k)
                                     ELSE p[k - 1]
           /\ p[n] = OperatorsAmong(in, q)
PROOF
  <1>. DEFINE step == [x \in (1..n) \X Seq(1..n) |->
                         IF in[x[1]].what \in Ops THEN Append(x[2], x[1]) ELSE x[2]]
              Iterates(h) == h = [s \in SUBSET (1..n) |->
                 IF s = {} THEN <<>>
                 ELSE IF in[q[Max(s)]].what \in {"+", "-", "*"}
                      THEN Append(h[s \ {Max(s)}], q[Max(s)]) ELSE h[s \ {Max(s)}]]
              h == CHOOSE h : Iterates(h)
  <1>1. PICK V, base : V = Seq(1..n) /\ base = <<>>
    OBVIOUS
  <1>2. base \in V /\ step \in [(1..n) \X V -> V]
    <2>1. ASSUME NEW x \in (1..n) \X V
          PROVE  (IF in[x[1]].what \in Ops THEN Append(x[2], x[1]) ELSE x[2]) \in V
      <3>1. PICK k \in 1..n, v \in V : x = <<k, v>>
        OBVIOUS
      <3>2. Append(v, k) \in V
        BY <1>1, AppendProperties
      <3>. QED
        BY <3>1, <3>2
    <2>. QED
      BY <1>1, <2>1
  <1>3. \A k \in 1..n, v \in V :
          step[<<k, v>>] = IF in[k].what \in Ops THEN Append(v, k) ELSE v
    BY <1>1
  <1>4. OperatorsAmong(in, q) = h[1..n]
    BY DEF OperatorsAmong, FoldLeft, MapThenFoldSet
  <1>. HIDE DEF step
  <1>5. PICK g \in [SUBSET (1..n) -> V] : IsFold(g, n, V, base, step)
    BY <1>2, FoldExists
  <1>6. Iterates(g)
    <2>1. ASSUME NEW s \in SUBSET (1..n), s # {}
          PROVE  g[s] = IF in[q[Max(s)]].what \in {"+", "-", "*"}
                        THEN Append(g[s \ {Max(s)}], q[Max(s)]) ELSE g[s \ {Max(s)}]
      <3>1. /\ Max(s) \in 1..n
            /\ g[s \ {Max(s)}] \in V
            /\ g[s] = step[<<Max(s), g[s \ {Max(s)}]>>]
        BY <1>5, <2>1 DEF IsFold
      <3>2. q[Max(s)] = Max(s)
        BY <3>1
      <3>. QED
        BY <1>3, <3>1, <3>2 DEF Ops
    <2>2. g[{}] = <<>> /\ g = [s \in SUBSET (1..n) |-> g[s]]
      BY <1>1, <1>5 DEF IsFold
    <2>. QED
      BY <2>1, <2>2
  <1>7. Iterates(h)
    <2>. HIDE DEF Iterates
    <2>. QED
      BY <1>6
  <1>. HIDE DEF h
  <1>8. /\ h[{}] = base
        /\ \A s \in SUBSET (1..n) :
             s # {} => h[s] = IF in[q[Max(s)]].what \in {"+", "-", "*"}
                              THEN Append(h[s \ {Max(s)}], q[Max(s)]) ELSE h[s \ {Max(s)}]
    BY <1>1, <1>7
  <1>9. \A s \in SUBSET (1..n) :
          s # {} /\ h[s \ {Max(s)}] \in V => h[s] = step[<<Max(s), h[s \ {Max(s)}]>>]
    <2>1. \A s \in SUBSET (1..n) : s # {} => Max(s) \in 1..n
      BY <1>5 DEF IsFold
    <2>2. \A s \in SUBSET (1..n) : s # {} => q[Max(s)] = Max(s)
      BY <2>1
    <2>. SUFFICES ASSUME NEW s \in SUBSET (1..n), s # {}, h[s \ {Max(s)}] \in V
                  PROVE  h[s] = step[<<Max(s), h[s \ {Max(s)}]>>]
      OBVIOUS
    <2>3. PICK k \in 1..n : k = Max(s) /\ q[k] = k
      BY <2>1, <2>2
    <2>4. PICK v \in V : v = h[s \ {Max(s)}]
      OBVIOUS
    <2>5. h[s] = IF in[k].what \in Ops THEN Append(v, k) ELSE v
      BY <1>8, <2>3, <2>4 DEF Ops
    <2>6. step[<<k, v>>] = IF in[k].what \in Ops THEN Append(v, k) ELSE v
      BY <1>3
    <2>. QED
      BY <2>3, <2>4, <2>5, <2>6
  <1>10. PICK p \in [0..n -> V] : IsChain(p, n, base, step, h[1..n])
    <2>1. FoldsWithin(h, n, V, base, step)
      BY <1>8, <1>9 DEF FoldsWithin
    <2>. QED
      BY <1>2, <2>1, FoldIsChain
  <1>11. \A k \in 1..n : p[k] = IF in[k].what \in Ops THEN Append(p[k - 1], k) ELSE p[k - 1]
    <2>. TAKE k \in 1..n
    <2>1. p[k - 1] \in V /\ p[k] = step[<<k, p[k - 1]>>]
      BY <1>10 DEF IsChain
    <2>. QED
      BY <1>3, <2>1
  <1>. QED
    BY <1>1, <1>4, <1>10, <1>11 DEF IsChain

\* The numbers of a sequence are increasing, end before k, and are the operators there.
Gathers(in, p, k) ==
  /\ \A i, j \in 1..Len(p) : i < j => p[i] < p[j]
  /\ \A i \in 1..Len(p) : p[i] \in 1..k /\ in[p[i]].what \in Ops
  /\ \A q \in 1..k : in[q].what \in Ops => \E i \in 1..Len(p) : p[i] = q

\* Every operator is gathered, and in order.
LEMMA OperatorsAreGathered ==
  ASSUME NEW in \in Seq(Token)
  PROVE  Operators(in) \in Seq(1..Len(in)) /\ Gathers(in, Operators(in), Len(in))
PROOF
  <1>1. PICK n \in Nat : n = Len(in) /\ DOMAIN in = 1..n
    BY LenProperties
  <1>2. PICK q : q = [i \in 1..n |-> i]
    OBVIOUS
  <1>3. Operators(in) = OperatorsAmong(in, q)
    <2>1. q = [i \in DOMAIN in |-> i]
      BY <1>1, <1>2
    <2>. QED
      BY <2>1, Zenon DEF Operators, OperatorsAmong
  <1>4. PICK p \in [0..n -> Seq(1..n)] :
           /\ p[0] = <<>>
           /\ \A k \in 1..n : p[k] = IF in[k].what \in Ops THEN Append(p[k - 1], k)
                                     ELSE p[k - 1]
           /\ p[n] = OperatorsAmong(in, q)
    <2>1. DOMAIN q = 1..n /\ \A i \in 1..n : q[i] = i
      BY <1>2
    <2>. QED
      BY <2>1, OperatorsUnfold
  <1>. DEFINE T == {k \in 0..n : Gathers(in, p[k], k)}
  <1>5. 0 \in T
    BY <1>4 DEF Gathers
  <1>6. ASSUME NEW k \in 1..n, k - 1 \in T
        PROVE  k \in T
    <2>1. PICK r \in Seq(1..n) : r = p[k - 1]
      BY <1>4
    <2>2. Gathers(in, r, k - 1)
      BY <1>6, <2>1
    <2>3. PICK l \in Nat : l = Len(r)
      BY LenProperties
    <2>4. CASE in[k].what \in Ops
      <3>1. PICK s : s = Append(r, k)
        OBVIOUS
      <3>2. Len(s) = l + 1 /\ (\A i \in 1..l : s[i] = r[i]) /\ s[l + 1] = k
        BY <2>3, <3>1, AppendProperties
      <3>3. p[k] = s
        BY <1>4, <2>1, <2>4, <3>1
      <3>4. Gathers(in, s, k)
        <4>1. \A i \in 1..l : s[i] \in 1..k - 1 /\ in[s[i]].what \in Ops
          BY <2>2, <2>3, <3>2 DEF Gathers
        <4>2. \A i, j \in 1..l : i < j => s[i] < s[j]
          BY <2>2, <2>3, <3>2 DEF Gathers
        <4>3. \A i, j \in 1..l + 1 : i < j => s[i] < s[j]
          <5>. TAKE i, j \in 1..l + 1
          <5>. HAVE i < j
          <5>1. CASE j = l + 1
            <6>1. i \in 1..l
              BY <5>1
            <6>2. s[i] \in 1..k - 1
              BY <4>1, <6>1
            <6>. QED
              BY <3>2, <5>1, <6>2
          <5>2. CASE j # l + 1
            <6>1. i \in 1..l /\ j \in 1..l
              BY <5>2
            <6>. QED
              BY <4>2, <6>1
          <5>. QED
            BY <5>1, <5>2
        <4>4. \A q1 \in 1..k : in[q1].what \in Ops => \E i \in 1..l + 1 : s[i] = q1
          <5>. TAKE q1 \in 1..k
          <5>. HAVE in[q1].what \in Ops
          <5>1. CASE q1 = k
            BY <3>2, <5>1
          <5>2. CASE q1 \in 1..k - 1
            BY <2>2, <2>3, <3>2, <5>2 DEF Gathers
          <5>. QED
            BY <5>1, <5>2
        <4>. QED
          <5>1. \A i \in 1..l + 1 : s[i] \in 1..k /\ in[s[i]].what \in Ops
            <6>. TAKE i \in 1..l + 1
            <6>1. CASE i = l + 1
              BY <2>4, <3>2, <6>1
            <6>2. CASE i \in 1..l
              <7>1. s[i] \in 1..k - 1 /\ in[s[i]].what \in Ops
                BY <4>1, <6>2
              <7>. QED
                BY <7>1
            <6>. QED
              BY <6>1, <6>2
          <5>. QED
            BY <3>2, <4>3, <4>4, <5>1 DEF Gathers
      <3>. QED
        BY <3>3, <3>4
    <2>5. CASE in[k].what \notin Ops
      <3>1. p[k] = r
        BY <1>4, <2>1, <2>5
      <3>2. Gathers(in, r, k)
        <4>1. \A i \in 1..l : r[i] \in 1..k - 1 /\ in[r[i]].what \in Ops
          BY <2>2, <2>3 DEF Gathers
        <4>2. \A i \in 1..l : r[i] \in 1..k /\ in[r[i]].what \in Ops
          BY <4>1
        <4>3. \A a \in 1..k : in[a].what \in Ops => a \in 1..k - 1
          BY <2>5
        <4>4. \A a \in 1..k : in[a].what \in Ops => \E i \in 1..l : r[i] = a
          BY <2>2, <2>3, <4>3 DEF Gathers
        <4>. QED
          BY <2>2, <2>3, <4>2, <4>4 DEF Gathers
      <3>. QED
        BY <3>1, <3>2
    <2>. QED
      BY <2>4, <2>5
  <1>7. \A k \in 0..n : k \in T
    <2>. HIDE DEF T
    <2>. QED
      BY <1>5, <1>6, CountingUp
  <1>. QED
    BY <1>1, <1>3, <1>4, <1>7

\* A sequence of cuts divides the input at its operators.
AreCuts(in, c, m) ==
  /\ c \in [0..m + 1 -> 0..Len(in) + 1]
  /\ c[0] = 0 /\ c[m + 1] = Len(in) + 1
  /\ \A k \in 1..m : c[k] \in 1..Len(in) /\ TokenAt(in, c[k]) \in Ops
  /\ \A k \in 0..m : /\ c[k] < c[k + 1]
                     /\ \A q \in c[k] + 1..c[k + 1] - 1 : TokenAt(in, q) \notin Ops

\* The pieces are what stands between the cuts.
LEMMA PiecesAreCut ==
  ASSUME NEW in \in Seq(Token)
  PROVE  \E m \in Nat : \E c :
           /\ AreCuts(in, c, m)
           /\ Pieces(in) = [i \in 1..m + 1 |->
                              [op |-> IF i = 1 THEN "+" ELSE TokenAt(in, c[i - 1]),
                               text |-> Piece(in, c[i - 1], c[i])]]
PROOF
  <1>1. PICK n \in Nat : n = Len(in) /\ DOMAIN in = 1..n
    BY LenProperties
  <1>2. PICK o : o = Operators(in)
    OBVIOUS
  <1>3. o \in Seq(1..n) /\ Gathers(in, o, n)
    BY <1>1, <1>2, OperatorsAreGathered
  <1>4. PICK m \in Nat : m = Len(o) /\ DOMAIN o = 1..m
    BY <1>3, LenProperties
  <1>5. \A i \in 1..m : o[i] \in 1..n /\ in[o[i]].what \in Ops
    BY <1>3, <1>4 DEF Gathers
  <1>6. PICK c : c = [k \in 0..m + 1 |-> IF k = 0 THEN 0 ELSE IF k = m + 1 THEN n + 1 ELSE o[k]]
    OBVIOUS
  <1>7. /\ c[0] = 0 /\ c[m + 1] = n + 1
        /\ \A k \in 1..m : c[k] = o[k]
        /\ c \in [0..m + 1 -> 0..n + 1]
    BY <1>5, <1>6
  <1>8. \A q \in 1..n : TokenAt(in, q) = in[q].what
    BY <1>1 DEF TokenAt
  <1>9. \A k \in 1..m : c[k] \in 1..n /\ TokenAt(in, c[k]) \in Ops
    BY <1>5, <1>7, <1>8
  <1>10. \A i, j \in 0..m + 1 : i < j => c[i] < c[j]
    <2>1. \A i, j \in 1..m : i < j => c[i] < c[j]
      BY <1>3, <1>4, <1>7 DEF Gathers
    <2>. QED
      BY <1>7, <1>9, <2>1
  <1>11. ASSUME NEW k \in 0..m, NEW q \in c[k] + 1..c[k + 1] - 1, TokenAt(in, q) \in Ops
         PROVE  FALSE
    <2>1. c[k] \in 0..n + 1 /\ c[k + 1] \in 0..n + 1
      BY <1>7
    <2>2. q \in 1..n
      BY <2>1
    <2>3. PICK i \in 1..m : o[i] = q
      BY <1>3, <1>4, <1>8, <1>11, <2>2 DEF Gathers
    <2>4. c[i] = q
      BY <1>7, <2>3
    <2>5. CASE i <= k
      <3>1. c[i] <= c[k]
        BY <1>10, <2>1, <2>4, <2>5
      <3>. QED
        BY <2>1, <2>4, <3>1
    <2>6. CASE i >= k + 1
      <3>1. c[k + 1] <= c[i]
        BY <1>10, <2>1, <2>4, <2>6
      <3>. QED
        BY <2>1, <2>4, <3>1
    <2>. QED
      BY <2>5, <2>6
  <1>12. AreCuts(in, c, m)
    BY <1>1, <1>7, <1>9, <1>10, <1>11 DEF AreCuts
  <1>13. PICK cuts : cuts = <<0>> \o o \o <<n + 1>>
    OBVIOUS
  <1>14. Len(cuts) = m + 2 /\ \A i \in 1..m + 2 : cuts[i] = c[i - 1]
    <2>1. PICK a, b : a = <<0>> /\ b = <<n + 1>>
      OBVIOUS
    <2>2. a \in Seq(Nat) /\ b \in Seq(Nat) /\ o \in Seq(Nat)
      BY <1>3, <2>1
    <2>3. Len(a) = 1 /\ a[1] = 0 /\ Len(b) = 1 /\ b[1] = n + 1
      BY <2>1
    <2>4. PICK d : d = a \o o
      OBVIOUS
    <2>5. d \in Seq(Nat) /\ Len(d) = m + 1 /\ d[1] = 0 /\ \A i \in 2..m + 1 : d[i] = o[i - 1]
      <3>1. /\ d \in Seq(Nat)
            /\ Len(d) = Len(a) + Len(o)
            /\ \A i \in 1..Len(a) + Len(o) :
                 d[i] = IF i <= Len(a) THEN a[i] ELSE o[i - Len(a)]
        BY <2>2, <2>4, ConcatProperties
      <3>. QED
        BY <1>4, <2>3, <3>1
    <2>6. cuts = d \o b
      BY <1>13, <2>1, <2>4
    <2>7. Len(cuts) = m + 2 /\ (\A i \in 1..m + 1 : cuts[i] = d[i]) /\ cuts[m + 2] = n + 1
      <3>1. /\ Len(cuts) = Len(d) + Len(b)
            /\ \A i \in 1..Len(d) + Len(b) :
                 cuts[i] = IF i <= Len(d) THEN d[i] ELSE b[i - Len(d)]
        BY <2>2, <2>5, <2>6, ConcatProperties
      <3>. QED
        BY <2>3, <2>5, <3>1
    <2>8. ASSUME NEW i \in 1..m + 2
          PROVE  cuts[i] = c[i - 1]
      <3>1. CASE i = 1
        BY <1>7, <2>5, <2>7, <3>1
      <3>2. CASE i = m + 2
        BY <1>7, <2>7, <3>2
      <3>3. CASE i \in 2..m + 1
        <4>1. i - 1 \in 1..m
          BY <3>3
        <4>. QED
          BY <1>7, <2>5, <2>7, <3>3, <4>1
      <3>. QED
        BY <3>1, <3>2, <3>3
    <2>. QED
      BY <2>7, <2>8
  <1>15. PICK pieces : pieces = Pieces(in)
    OBVIOUS
  <1>16. pieces = [i \in 1..Len(cuts) - 1 |->
                     [op |-> IF cuts[i] = 0 THEN "+" ELSE in[cuts[i]].what,
                      text |-> Piece(in, cuts[i], cuts[i + 1])]]
    BY <1>1, <1>2, <1>13, <1>15 DEF Pieces
  <1>17. ASSUME NEW i \in 1..m + 1
         PROVE  /\ cuts[i] = c[i - 1] /\ cuts[i + 1] = c[i]
                /\ (IF cuts[i] = 0 THEN "+" ELSE in[cuts[i]].what)
                     = IF i = 1 THEN "+" ELSE TokenAt(in, c[i - 1])
    <2>1. cuts[i] = c[i - 1] /\ cuts[i + 1] = c[i]
      BY <1>14
    <2>2. CASE i = 1
      BY <1>7, <2>1, <2>2
    <2>3. CASE i # 1
      <3>1. c[i - 1] \in 1..n
        BY <1>9, <2>3
      <3>. QED
        BY <1>8, <2>1, <2>3, <3>1
    <2>. QED
      BY <2>1, <2>2, <2>3
  <1>18. pieces = [i \in 1..m + 1 |->
                     [op |-> IF i = 1 THEN "+" ELSE TokenAt(in, c[i - 1]),
                      text |-> Piece(in, c[i - 1], c[i])]]
    <2>1. Len(cuts) - 1 = m + 1
      BY <1>14
    <2>2. PICK f : f = [i \in 1..m + 1 |->
                         [op |-> IF cuts[i] = 0 THEN "+" ELSE in[cuts[i]].what,
                          text |-> Piece(in, cuts[i], cuts[i + 1])]]
      OBVIOUS
    <2>3. pieces = f
      BY <1>16, <2>1, <2>2, Zenon
    <2>4. \A i \in 1..m + 1 :
            f[i] = [op |-> IF i = 1 THEN "+" ELSE TokenAt(in, c[i - 1]),
                    text |-> Piece(in, c[i - 1], c[i])]
      BY <1>17, <2>2, Zenon
    <2>. QED
      BY <2>2, <2>3, <2>4, Zenon
  <1>. QED
    BY <1>12, <1>15, <1>18

------------------------------------------------------------------------------
(* A piece is a term exactly if it is read as one. *)

\* What no term reads: a blank, the end or an operator.
Outside == {" ", "end", "+", "-", "*"}

Closed(in, q) == TokenAt(in, q) \in Outside

\* The text stands in the input behind its first d tokens, and no term goes on behind it.
StandsIn(text, in, d) ==
  /\ text \in Seq(Token) /\ in \in Seq(Token) /\ d \in Nat
  /\ d + Len(text) <= Len(in)
  /\ \A k \in 1..Len(text) : text[k] = in[d + k]
  /\ Closed(in, d + Len(text) + 1)

\* The same result, d tokens further on.
Shift(d, r) == IF r = Refused THEN Refused ELSE [read |-> r.read, at |-> d + r.at]

\* A token is the same in the text and in the input; behind the text, neither belongs
\* to a term.
LEMMA TokensWithin ==
  ASSUME NEW text, NEW in, NEW d, StandsIn(text, in, d), NEW q \in 1..Len(text) + 1
  PROVE  /\ \A c : c \notin Outside =>
                     (TokenAt(text, q) = c <=> TokenAt(in, d + q) = c)
         /\ q \in DOMAIN text /\ text[q] \in Suffix
              <=> d + q \in DOMAIN in /\ in[d + q] \in Suffix
         /\ q \in DOMAIN text => d + q \in DOMAIN in /\ in[d + q] = text[q]
         /\ q \notin DOMAIN text => Closed(in, d + q)
PROOF
  <1>1. PICK l \in Nat, n \in Nat :
          l = Len(text) /\ DOMAIN text = 1..l /\ n = Len(in) /\ DOMAIN in = 1..n
    BY LenProperties DEF StandsIn
  <1>2. d \in Nat /\ d + l <= n
    BY <1>1 DEF StandsIn
  <1>3. CASE q \in 1..l
    <2>1. d + q \in 1..n /\ text[q] = in[d + q]
      BY <1>1, <1>2, <1>3 DEF StandsIn
    <2>2. TokenAt(text, q) = TokenAt(in, d + q)
      BY <1>1, <1>3, <2>1 DEF TokenAt
    <2>. QED
      BY <1>1, <1>3, <2>1, <2>2
  <1>4. CASE q = l + 1
    <2>1. q \notin DOMAIN text
      BY <1>1, <1>4
    <2>2. TokenAt(text, q) = "end"
      BY <2>1 DEF TokenAt
    <2>3. d + q = d + Len(text) + 1
      BY <1>1, <1>2, <1>4
    <2>4. Closed(in, d + q)
      BY <2>3 DEF StandsIn
    <2>5. ~(d + q \in DOMAIN in /\ in[d + q] \in Suffix)
      <3>. SUFFICES ASSUME d + q \in DOMAIN in, in[d + q] \in Suffix PROVE FALSE
        OBVIOUS
      <3>1. TokenAt(in, d + q) = in[d + q].what
        BY DEF TokenAt
      <3>2. in[d + q].what \in SuffixWords
        BY SuffixCases DEF SuffixWords
      <3>. QED
        BY <2>4, <3>1, <3>2, Zenon DEF Closed, Outside, SuffixWords
    <2>6. \A c : c \notin Outside =>
                   (TokenAt(text, q) = c <=> TokenAt(in, d + q) = c)
      BY <2>2, <2>4, Zenon DEF Closed, Outside
    <2>. QED
      BY <2>1, <2>4, <2>5, <2>6
  <1>. QED
    BY <1>1, <1>3, <1>4

\* So are the sides, and the end of the suffixes.
LEMMA SidesWithin ==
  ASSUME NEW text, NEW in, NEW d, StandsIn(text, in, d), NEW q \in 1..Len(text) + 1
  PROVE  SidesAt(text, q) = SidesAt(in, d + q)
PROOF
  <1>1. \A c : c \notin Outside => (TokenAt(text, q) = c <=> TokenAt(in, d + q) = c)
    BY TokensWithin
  <1>2. "F" \notin Outside /\ "%" \notin Outside /\ "number" \notin Outside
    BY Zenon DEF Outside
  <1>3. /\ TokenAt(text, q) = "F" <=> TokenAt(in, d + q) = "F"
        /\ TokenAt(text, q) = "%" <=> TokenAt(in, d + q) = "%"
        /\ TokenAt(text, q) = "number" <=> TokenAt(in, d + q) = "number"
    BY <1>1, <1>2, Zenon
  <1>4. ASSUME TokenAt(text, q) = "number"
        PROVE  text[q] = in[d + q]
    <2>1. q \in DOMAIN text
      BY <1>4 DEF TokenAt
    <2>. QED
      BY <2>1, TokensWithin
  <1>5. CASE TokenAt(text, q) = "F"
    BY <1>3, <1>5, Zenon DEF SidesAt
  <1>6. CASE TokenAt(text, q) = "%"
    BY <1>3, <1>6, Zenon DEF SidesAt
  <1>7. CASE TokenAt(text, q) = "number"
    BY <1>3, <1>4, <1>7, Zenon DEF SidesAt
  <1>8. CASE TokenAt(text, q) # "F" /\ TokenAt(text, q) # "%" /\ TokenAt(text, q) # "number"
    BY <1>3, <1>8, Zenon DEF SidesAt
  <1>. QED
    BY <1>5, <1>6, <1>7, <1>8

\* The suffixes end where they end in the input.
LEMMA SuffixesWithin ==
  ASSUME NEW text, NEW in, NEW d, StandsIn(text, in, d), NEW q \in 1..Len(text) + 1
  PROVE  EndOfSuffixes(in, d + q) = d + EndOfSuffixes(text, q)
PROOF
  <1>1. PICK l \in Nat, n \in Nat :
          l = Len(text) /\ DOMAIN text = 1..l /\ n = Len(in) /\ DOMAIN in = 1..n
    BY LenProperties DEF StandsIn
  <1>2. d \in Nat /\ d + l <= n /\ text \in Seq(Token) /\ in \in Seq(Token)
    BY <1>1 DEF StandsIn
  <1>3. PICK e, f : e = EndOfSuffixes(text, q) /\ f = EndOfSuffixes(in, d + q)
    OBVIOUS
  <1>4. /\ e \in q..l + 1
        /\ \A i \in q..e - 1 : i \in DOMAIN text /\ text[i] \in Suffix
        /\ ~(e \in DOMAIN text /\ text[e] \in Suffix)
    BY <1>1, <1>2, <1>3, SuffixesEnd
  <1>5. d + q \in 1..n + 1
    BY <1>1, <1>2
  <1>6. /\ f \in d + q..n + 1
        /\ \A i \in d + q..f - 1 : i \in DOMAIN in /\ in[i] \in Suffix
        /\ ~(f \in DOMAIN in /\ in[f] \in Suffix)
    BY <1>1, <1>2, <1>3, <1>5, SuffixesEnd
  <1>7. \A i \in 1..l + 1 : i \in DOMAIN text /\ text[i] \in Suffix
                              <=> d + i \in DOMAIN in /\ in[d + i] \in Suffix
    BY <1>1, TokensWithin
  <1>8. ASSUME f < d + e PROVE FALSE
    <2>1. PICK i \in q..e - 1 : f = d + i
      <3>1. f - d \in q..e - 1 /\ f = d + (f - d)
        BY <1>1, <1>2, <1>4, <1>6, <1>8
      <3>. QED
        BY <3>1
    <2>2. i \in 1..l + 1
      BY <1>1, <1>4
    <2>. QED
      BY <1>4, <1>6, <1>7, <2>1, <2>2
  <1>9. ASSUME d + e < f PROVE FALSE
    <2>1. d + e \in d + q..f - 1 /\ e \in 1..l + 1
      BY <1>1, <1>2, <1>4, <1>6, <1>9
    <2>. QED
      BY <1>4, <1>6, <1>7, <2>1
  <1>10. d + e \in Nat /\ f \in Nat
    BY <1>1, <1>2, <1>4, <1>6
  <1>. QED
    BY <1>3, <1>8, <1>9, <1>10

\* The dice of the text are read as they are read from the input.
LEMMA DiceWithin ==
  ASSUME NEW text, NEW in, NEW d, StandsIn(text, in, d), NEW count,
         NEW p \in 1..Len(text) + 1
  PROVE  DiceBody(in, count, d + p) = Shift(d, DiceBody(text, count, p))
PROOF
  <1>1. PICK head : head = [count |-> count, sides |-> SidesAt(text, p)]
    OBVIOUS
  <1>2. SidesAt(in, d + p) = SidesAt(text, p)
    BY SidesWithin
  <1>3. head.sides = SidesAt(text, p)
    BY <1>1
  <1>4. PICK l \in Nat, n \in Nat :
          l = Len(text) /\ DOMAIN text = 1..l /\ n = Len(in) /\ DOMAIN in = 1..n
    BY LenProperties DEF StandsIn
  <1>5. d \in Nat /\ d + l <= n /\ text \in Seq(Token) /\ in \in Seq(Token)
    BY <1>4 DEF StandsIn
  <1>6. CASE SidesAt(text, p) = None
    <2>1. \A q : DiceOf(head, q) = Refused
      BY <1>3, <1>6 DEF DiceOf
    <2>2. DiceBody(text, count, p) = Refused /\ DiceBody(in, count, d + p) = Refused
      BY <1>1, <1>2, <2>1 DEF DiceBody, DiceUpTo, Stopped
    <2>. QED
      BY <2>2 DEF Shift
  <1>7. CASE SidesAt(text, p) # None
    <2>1. p \in 1..l /\ p + 1 \in 1..l + 1
      BY <1>4, <1>7, SidesAreWritten
    <2>2. PICK e : e = EndOfSuffixes(text, p + 1)
      OBVIOUS
    <2>3. /\ e \in p + 1..l + 1
          /\ \A i \in p + 1..e - 1 : i \in DOMAIN text /\ text[i] \in Suffix
      BY <1>4, <1>5, <2>1, <2>2, SuffixesEnd
    <2>4. EndOfSuffixes(in, d + (p + 1)) = d + e /\ d + (p + 1) = d + p + 1
      BY <1>4, <1>5, <2>1, <2>2, SuffixesWithin
    <2>5. PICK b \in Nat : b = e - 1 /\ d + e - 1 = d + b
      BY <1>5, <2>1, <2>3
    <2>6. PICK m \in Nat : m = b - p
      BY <2>1, <2>3, <2>5
    <2>7. /\ b <= l /\ p + 1 <= b + 1 /\ p + 1 \in Nat \ {0} /\ b + 1 - (p + 1) = m
          /\ d + b \in Nat /\ d + b <= n /\ d + p + 1 <= d + b + 1 /\ d + p + 1 \in Nat \ {0}
          /\ d + b + 1 - (d + p + 1) = m
      BY <1>5, <2>1, <2>3, <2>5, <2>6
    <2>8. PICK q, r : q = SubSeq(text, p + 1, b) /\ r = SubSeq(in, d + p + 1, d + b)
      OBVIOUS
    <2>9. /\ DOMAIN q = 1..m /\ Len(q) = m /\ q \in Seq(Token)
          /\ \A k \in 1..m : q[k] = text[p + 1 + k - 1]
      <3>1. PICK a \in Nat \ {0} : a = p + 1
        BY <2>7
      <3>2. /\ DOMAIN SubSeq(text, a, b) = 1..b + 1 - a
            /\ SubSeq(text, a, b) \in Seq(Token)
            /\ Len(SubSeq(text, a, b)) = b + 1 - a
            /\ \A i \in 1..b + 1 - a : SubSeq(text, a, b)[i] = text[a + i - 1]
        BY <1>4, <1>5, <2>7, <3>1, Cut
      <3>. QED
        BY <2>7, <2>8, <3>1, <3>2
    <2>10. /\ DOMAIN r = 1..m /\ Len(r) = m /\ r \in Seq(Token)
           /\ \A k \in 1..m : r[k] = in[d + p + 1 + k - 1]
      <3>1. PICK a \in Nat \ {0}, z \in Nat : a = d + p + 1 /\ z = d + b
        BY <2>7
      <3>2. /\ DOMAIN SubSeq(in, a, z) = 1..z + 1 - a
            /\ SubSeq(in, a, z) \in Seq(Token)
            /\ Len(SubSeq(in, a, z)) = z + 1 - a
            /\ \A i \in 1..z + 1 - a : SubSeq(in, a, z)[i] = in[a + i - 1]
        <4>1. z <= Len(in) /\ a <= z + 1
          BY <1>4, <2>7, <3>1
        <4>. QED
          BY <1>5, <4>1, Cut
      <3>3. z + 1 - a = m
        BY <2>7, <3>1
      <3>. QED
        BY <2>8, <3>1, <3>2, <3>3
    <2>11. \A k \in 1..m : /\ q[k] = r[k] /\ q[k] \in Suffix
      <3>. TAKE k \in 1..m
      <3>1. p + 1 + k - 1 = p + k /\ d + p + 1 + k - 1 = d + (p + k) /\ p + k \in p + 1..e - 1
        BY <1>5, <2>1, <2>3, <2>5, <2>6
      <3>2. p + k \in 1..l /\ text[p + k] = in[d + (p + k)]
        BY <1>4, <2>1, <2>3, <3>1 DEF StandsIn
      <3>. QED
        BY <2>3, <2>9, <2>10, <3>1, <3>2
    <2>12. q = r
      <3>1. q = [k \in 1..m |-> q[k]] /\ r = [k \in 1..m |-> r[k]]
        BY <2>9, <2>10, LenProperties
      <3>. QED
        BY <2>11, <3>1
    <2>13. PICK made : made = DiceOf(head, q)
      OBVIOUS
    <2>14. DiceBody(text, count, p) = Stopped(made, e)
      BY <1>1, <2>2, <2>5, <2>8, <2>13 DEF DiceBody, DiceUpTo
    <2>15. DiceBody(in, count, d + p) = Stopped(made, d + e)
      <3>1. PICK a, f : a = d + p /\ f = d + e
        OBVIOUS
      <3>2. EndOfSuffixes(in, a + 1) = f
        BY <2>4, <3>1
      <3>3. SubSeq(in, a + 1, f - 1) = q
        <4>1. f - 1 = d + b /\ a + 1 = d + p + 1
          BY <1>5, <2>1, <2>3, <2>5, <3>1
        <4>2. q = SubSeq(in, d + p + 1, d + b)
          BY <2>8, <2>12
        <4>. QED
          BY <4>1, <4>2
      <3>4. head = [count |-> count, sides |-> SidesAt(in, a)]
        BY <1>1, <1>2, <3>1
      <3>5. DiceUpTo(in, count, a, f) = Stopped(made, f)
        BY <2>13, <3>3, <3>4 DEF DiceUpTo
      <3>6. DiceBody(in, count, a) = Stopped(made, f)
        BY <3>2, <3>5 DEF DiceBody
      <3>. QED
        BY <3>1, <3>6
    <2>16. made \in SaneTerms \cup {Refused}
      <3>1. Parsed(head, q) \in TermOutcomes
        BY <2>9, <2>11, ParsedIsSane
      <3>2. made = Parsed(head, q)
        BY <1>3, <1>7, <2>13 DEF DiceOf
      <3>. QED
        BY <3>1, <3>2 DEF TermOutcomes
    <2>17. CASE made = Refused
      BY <2>14, <2>15, <2>17 DEF Stopped, Shift
    <2>18. CASE made # Refused
      <3>1. made \in Terms /\ e \in Nat
        BY <2>1, <2>3, <2>16, <2>18 DEF Terms
      <3>2. [read |-> made, at |-> e] # Refused
        BY <3>1, ValuesAreRead DEF Values
      <3>. QED
        BY <2>14, <2>15, <2>18, <3>2 DEF Stopped, Shift
    <2>. QED
      BY <2>17, <2>18
  <1>. QED
    BY <1>6, <1>7

\* A term is read from the text as it is read from the input.
LEMMA TermWithin ==
  ASSUME NEW text, NEW in, NEW d, StandsIn(text, in, d), Len(text) # 0
  PROVE  Term(in, d + 1) = Shift(d, Term(text, 1))
PROOF
  <1>1. PICK l \in Nat, n \in Nat :
          l = Len(text) /\ DOMAIN text = 1..l /\ n = Len(in) /\ DOMAIN in = 1..n
    BY LenProperties DEF StandsIn
  <1>2. d \in Nat /\ d + l <= n /\ text \in Seq(Token) /\ in \in Seq(Token) /\ l # 0
    BY <1>1 DEF StandsIn
  <1>3. 1 \in 1..l /\ 2 \in 1..l + 1
    BY <1>2
  <1>4. "d" \notin Outside /\ "number" \notin Outside
    BY Zenon DEF Outside
  <1>5. /\ \A c : c \notin Outside => (TokenAt(text, 1) = c <=> TokenAt(in, d + 1) = c)
        /\ in[d + 1] = text[1]
    <2>1. 1 \in 1..Len(text) + 1 /\ 1 \in DOMAIN text
      BY <1>1, <1>3
    <2>. QED
      BY <2>1, TokensWithin
  <1>6. \A c : c \notin Outside => (TokenAt(text, 2) = c <=> TokenAt(in, d + 2) = c)
    <2>1. 2 \in 1..Len(text) + 1
      BY <1>1, <1>3
    <2>. QED
      BY <2>1, TokensWithin
  <1>7. /\ TokenAt(text, 1) = "d" <=> TokenAt(in, d + 1) = "d"
        /\ TokenAt(text, 1) = "number" <=> TokenAt(in, d + 1) = "number"
        /\ TokenAt(text, 2) = "d" <=> TokenAt(in, d + 2) = "d"
    BY <1>4, <1>5, <1>6, Zenon
  <1>8. d + 1 + 1 = d + 2 /\ d + 1 + 2 = d + 3 /\ 1 + 1 = 2 /\ 1 + 2 = 3
    BY <1>2
  <1>9. CASE TokenAt(text, 1) = "d"
    <2>1. Term(text, 1) = DiceBody(text, 1, 2)
      BY <1>8, <1>9 DEF Term
    <2>2. Term(in, d + 1) = DiceBody(in, 1, d + 2)
      BY <1>7, <1>8, <1>9 DEF Term
    <2>. QED
      BY <1>1, <1>3, <2>1, <2>2, DiceWithin
  <1>10. CASE TokenAt(text, 1) = "number" /\ TokenAt(text, 2) = "d"
    <2>1. 2 \in 1..l
      BY <1>1, <1>10 DEF TokenAt
    <2>2. 3 \in 1..l + 1
      BY <2>1
    <2>3. Term(text, 1) = DiceBody(text, text[1].n, 3)
      BY <1>8, <1>10 DEF Term
    <2>4. Term(in, d + 1) = DiceBody(in, text[1].n, d + 3)
      BY <1>5, <1>7, <1>8, <1>10 DEF Term
    <2>. QED
      BY <1>1, <2>2, <2>3, <2>4, DiceWithin
  <1>11. CASE /\ TokenAt(text, 1) # "d"
              /\ ~(TokenAt(text, 1) = "number" /\ TokenAt(text, 2) = "d")
    <2>1. Term(text, 1) = ConstTerm(text, 1)
      BY <1>8, <1>11 DEF Term
    <2>2. Term(in, d + 1) = ConstTerm(in, d + 1)
      BY <1>7, <1>8, <1>11 DEF Term
    <2>3. CASE TokenAt(text, 1) = "number"
      <3>1. PICK c : c = [const |-> text[1].n]
        OBVIOUS
      <3>2. Term(text, 1) = [read |-> c, at |-> 2]
        BY <1>8, <2>1, <2>3, <3>1 DEF ConstTerm
      <3>3. Term(in, d + 1) = [read |-> c, at |-> d + 2]
        BY <1>5, <1>7, <1>8, <2>2, <2>3, <3>1 DEF ConstTerm
      <3>4. Term(text, 1) # Refused
        <4>1. text[1] \in Token /\ text[1].what = "number"
          BY <1>1, <1>2, <1>3, <2>3, ElementOfSeq DEF TokenAt
        <4>2. text[1].n \in Nat
          BY <4>1, TokenCases, SuffixCases
        <4>3. c \in Terms
          BY <3>1, <4>2 DEF Terms
        <4>. QED
          BY <3>2, <4>3, ValuesAreRead DEF Values
      <3>. QED
        BY <3>2, <3>3, <3>4 DEF Shift
    <2>4. CASE TokenAt(text, 1) # "number"
      <3>1. ConstTerm(text, 1) = Refused /\ ConstTerm(in, d + 1) = Refused
        BY <1>7, <2>4 DEF ConstTerm
      <3>. QED
        BY <2>1, <2>2, <3>1 DEF Shift
    <2>. QED
      BY <2>3, <2>4
  <1>. QED
    BY <1>9, <1>10, <1>11

\* The blanks end at or before a position where there is none; exactly there, if
\* there are only blanks up to it.
LEMMA BlanksUpTo ==
  ASSUME NEW in \in Seq(Token), NEW p \in 1..Len(in) + 1, NEW q \in p..Len(in) + 1,
         ~Blank(in, q)
  PROVE  /\ AfterBlanks(in, p) \in p..q
         /\ ~Blank(in, AfterBlanks(in, p))
         /\ (\A i \in p..q - 1 : Blank(in, i)) => AfterBlanks(in, p) = q
PROOF
  <1>. DEFINE T == {i \in p..Len(in) + 1 : ~Blank(in, i)}
  <1>1. Len(in) \in Nat
    BY LenProperties
  <1>2. p..Len(in) + 1 \subseteq Nat
    BY <1>1
  <1>3. q \in T /\ T \subseteq p..Len(in) + 1 /\ T \in SUBSET Nat
    BY <1>2
  <1>4. \A i \in T : ~Blank(in, i)
    OBVIOUS
  <1>5. AfterBlanks(in, p) = Min(T)
    BY Zenon DEF AfterBlanks, Blank
  <1>. HIDE DEF T
  <1>6. PICK m \in T : m = Min(T) /\ m <= q
    BY <1>3, LeastNumber
  <1>7. m \in p..q /\ ~Blank(in, m)
    BY <1>1, <1>3, <1>4, <1>6
  <1>8. ASSUME \A i \in p..q - 1 : Blank(in, i) PROVE m = q
    <2>1. m \notin p..q - 1
      BY <1>7, <1>8
    <2>. QED
      BY <1>1, <1>7, <2>1
  <1>. QED
    BY <1>5, <1>6, <1>7, <1>8

\* No token is called an end.
LEMMA TokensAreNoEnd ==
  ASSUME NEW in \in Seq(Token), NEW p \in 1..Len(in)
  PROVE  TokenAt(in, p) # "end"
PROOF
  <1>1. DOMAIN in = 1..Len(in) /\ in[p] \in Token
    BY LenProperties, ElementOfSeq
  <1>2. TokenAt(in, p) = in[p].what
    BY <1>1 DEF TokenAt
  <1>3. CASE in[p] \in [what : {"number"}, n : Nat]
    <2>1. in[p].what = "number"
      BY <1>3
    <2>. QED
      BY <1>2, <2>1, Zenon
  <1>4. CASE in[p] \in [what : {"d", "F", "%", "+", "-", "*", " "}]
    <2>1. in[p].what \in {"d", "F", "%", "+", "-", "*", " "}
      BY <1>4
    <2>. QED
      BY <1>2, <2>1, Zenon
  <1>5. CASE in[p] \in Suffix
    <2>1. in[p].what \in SuffixWords
      BY <1>5, SuffixCases DEF SuffixWords
    <2>. QED
      BY <1>2, <2>1, Zenon DEF SuffixWords
  <1>. QED
    BY <1>1, <1>3, <1>4, <1>5 DEF Token

\* Where sides are written.
LEMMA SidesAreGiven ==
  ASSUME NEW in \in Seq(Token), NEW p \in 1..Len(in)
  PROVE  SidesAt(in, p) # None <=> in[p].what \in {"number", "F", "%"}
PROOF
  <1>1. DOMAIN in = 1..Len(in) /\ in[p] \in Token
    BY LenProperties, ElementOfSeq
  <1>2. TokenAt(in, p) = in[p].what
    BY <1>1 DEF TokenAt
  <1>3. None # Fate /\ None \notin Nat /\ Percent \in Nat
    BY OutcomeAssumption, ParseAssumption, TermAssumption
  <1>4. CASE TokenAt(in, p) = "F"
    BY <1>2, <1>3, <1>4, Zenon DEF SidesAt
  <1>5. CASE TokenAt(in, p) = "%"
    <2>1. SidesAt(in, p) = Percent
      BY <1>5, Zenon DEF SidesAt
    <2>. QED
      BY <1>2, <1>3, <1>5, <2>1, Zenon
  <1>6. CASE TokenAt(in, p) = "number"
    <2>1. SidesAt(in, p) = in[p].n
      BY <1>6, Zenon DEF SidesAt
    <2>2. in[p].n \in Nat
      BY <1>1, <1>2, <1>6, TokenCases, SuffixCases
    <2>. QED
      BY <1>2, <1>3, <1>6, <2>1, <2>2, Zenon
  <1>7. CASE TokenAt(in, p) # "F" /\ TokenAt(in, p) # "%" /\ TokenAt(in, p) # "number"
    BY <1>2, <1>7, Zenon DEF SidesAt
  <1>. QED
    BY <1>4, <1>5, <1>6, <1>7

\* What makes the part of a text from its d on dice.
AreDice(text, count, d) ==
  /\ Len(text) > d
  /\ text[d + 1].what \in {"number", "F", "%"}
  /\ \A i \in d + 2..Len(text) : text[i] \in Suffix
  /\ Parsed([count |-> count, sides |-> SidesAt(text, d + 1)],
            SubSeq(text, d + 2, Len(text))) # Refused

\* All of the text is read.
AllRead(text, r) == r # Refused /\ r.at = Len(text) + 1

\* A text is that of dice exactly if all of it is read as dice.
LEMMA DiceText ==
  ASSUME NEW text \in Seq(Token), NEW count, NEW d \in 1..Len(text)
  PROVE  AreDice(text, count, d) <=> AllRead(text, DiceBody(text, count, d + 1))
PROOF
  <1>1. PICK l \in Nat : l = Len(text) /\ DOMAIN text = 1..l
    BY LenProperties
  <1>2. PICK p \in Nat : p = d + 1 /\ d + 2 = p + 1
    BY <1>1
  <1>3. PICK head : head = [count |-> count, sides |-> SidesAt(text, p)]
    OBVIOUS
  <1>4. head.sides = SidesAt(text, p)
    BY <1>3
  <1>5. PICK e : e = EndOfSuffixes(text, p + 1)
    OBVIOUS
  <1>6. PICK made : made = DiceOf(head, SubSeq(text, p + 1, e - 1))
    OBVIOUS
  <1>7. DiceBody(text, count, p) = Stopped(made, e)
    BY <1>3, <1>5, <1>6 DEF DiceBody, DiceUpTo
  <1>8. CASE SidesAt(text, p) = None
    <2>1. Stopped(made, e) = Refused
      BY <1>4, <1>6, <1>8 DEF DiceOf, Stopped
    <2>2. ~AreDice(text, count, d)
      <3>1. ASSUME p \in 1..l PROVE text[p].what \notin {"number", "F", "%"}
        BY <1>1, <1>8, <3>1, SidesAreGiven
      <3>2. ASSUME l > d PROVE p \in 1..l
        BY <1>1, <1>2, <3>2
      <3>. QED
        BY <1>1, <1>2, <3>1, <3>2 DEF AreDice
    <2>. QED
      BY <1>2, <1>7, <2>1, <2>2 DEF AllRead
  <1>9. CASE SidesAt(text, p) # None
    <2>1. p \in 1..l /\ p + 1 \in 1..l + 1
      BY <1>1, <1>9, SidesAreWritten
    <2>2. text[p].what \in {"number", "F", "%"}
      BY <1>1, <1>9, <2>1, SidesAreGiven
    <2>3. /\ e \in p + 1..l + 1
          /\ \A i \in p + 1..e - 1 : i \in DOMAIN text /\ text[i] \in Suffix
          /\ ~(e \in DOMAIN text /\ text[e] \in Suffix)
      BY <1>1, <1>5, <2>1, SuffixesEnd
    <2>4. made = Parsed(head, SubSeq(text, p + 1, e - 1))
      BY <1>4, <1>6, <1>9 DEF DiceOf
    <2>5. made \in TermOutcomes
      <3>1. PICK b \in Nat : b = e - 1
        BY <2>1, <2>3
      <3>2. PICK a \in Nat \ {0} : a = p + 1
        BY <1>2
      <3>3. /\ DOMAIN SubSeq(text, a, b) = 1..b + 1 - a
            /\ \A i \in 1..b + 1 - a : SubSeq(text, a, b)[i] = text[a + i - 1]
        BY <1>1, <2>1, <2>3, <3>1, <3>2, Cut
      <3>4. b + 1 - a \in Nat
        BY <2>1, <2>3, <3>1, <3>2
      <3>5. \A i \in 1..b + 1 - a : a + i - 1 \in p + 1..e - 1
        BY <2>1, <2>3, <3>1, <3>2
      <3>6. \A i \in 1..b + 1 - a : SubSeq(text, a, b)[i] \in Suffix
        BY <2>3, <3>3, <3>5
      <3>. QED
        BY <2>4, <3>1, <3>2, <3>3, <3>4, <3>6, ParsedIsSane
    <2>6. (\A i \in p + 1..l : text[i] \in Suffix) <=> e = l + 1
      <3>1. ASSUME e # l + 1 PROVE e \in p + 1..l /\ text[e] \notin Suffix
        BY <1>1, <2>1, <2>3, <3>1
      <3>2. ASSUME e = l + 1 PROVE \A i \in p + 1..l : text[i] \in Suffix
        BY <1>1, <2>1, <2>3, <3>2
      <3>. QED
        BY <3>1, <3>2
    <2>7. l > d
      BY <1>1, <1>2, <2>1
    <2>8. AreDice(text, count, d) <=> e = l + 1 /\ made # Refused
      <3>1. AreDice(text, count, d) <=>
              /\ \A i \in p + 1..l : text[i] \in Suffix
              /\ Parsed(head, SubSeq(text, p + 1, l)) # Refused
        BY <1>1, <1>2, <1>3, <2>2, <2>7 DEF AreDice
      <3>2. e = l + 1 => e - 1 = l
        BY <1>1
      <3>. QED
        BY <2>4, <2>6, <3>1, <3>2
    <2>9. AllRead(text, Stopped(made, e)) <=> e = l + 1 /\ made # Refused
      <3>1. CASE made = Refused
        BY <3>1 DEF AllRead, Stopped
      <3>2. CASE made # Refused
        <4>1. made \in Terms /\ e \in Nat
          BY <2>1, <2>3, <2>5, <3>2 DEF Terms, TermOutcomes
        <4>2. [read |-> made, at |-> e] # Refused
          BY <4>1, ValuesAreRead DEF Values
        <4>. QED
          BY <1>1, <3>2, <4>2 DEF AllRead, Stopped
      <3>. QED
        BY <3>1, <3>2
    <2>. QED
      BY <1>2, <1>7, <2>8, <2>9
  <1>. QED
    BY <1>8, <1>9

\* A text is a term's exactly if all of it is read as a term.
LEMMA TextIsTerm ==
  ASSUME NEW text \in Seq(Token)
  PROVE  IsTermText(text) <=> text # <<>> /\ AllRead(text, Term(text, 1))
PROOF
  <1>1. CASE text = <<>>
    BY <1>1 DEF IsTermText
  <1>2. CASE text # <<>>
    <2>1. PICK l \in Nat : l = Len(text) /\ DOMAIN text = 1..l
      BY LenProperties
    <2>2. l # 0
      BY <1>2, <2>1, EmptySeq
    <2>3. 1 \in 1..l /\ 1 \in DOMAIN text
      BY <2>1, <2>2
    <2>4. TokenAt(text, 1) = text[1].what
      BY <2>3 DEF TokenAt
    <2>5. 1 + 1 = 2 /\ 1 + 2 = 3 /\ 2 + 1 = 3
      OBVIOUS
    <2>6. CASE text[1].what = "d"
      <3>1. IsTermText(text) <=> AreDice(text, 1, 1)
        <4>1. "d" \in {"number", "d"} /\ "d" # "number"
          BY Zenon
        <4>. QED
          BY <1>2, <2>6, <4>1, Zenon DEF IsTermText, AreDice
      <3>2. Term(text, 1) = DiceBody(text, 1, 1 + 1)
        BY <2>4, <2>6 DEF Term
      <3>. QED
        BY <1>2, <2>1, <2>3, <3>1, <3>2, DiceText
    <2>7. CASE text[1].what = "number" /\ TokenAt(text, 2) = "d"
      <3>1. 2 \in 1..l
        BY <2>1, <2>7 DEF TokenAt
      <3>2. text[2].what = "d" /\ l # 1
        BY <2>1, <2>7, <3>1 DEF TokenAt
      <3>3. IsTermText(text) <=> l > 2 /\ AreDice(text, text[1].n, 2)
        <4>1. "number" \in {"number", "d"} /\ "d" # "number"
          BY Zenon
        <4>. QED
          BY <1>2, <2>1, <2>7, <3>2, <4>1, Zenon DEF IsTermText, AreDice
      <3>4. AreDice(text, text[1].n, 2) => l > 2
        BY <2>1 DEF AreDice
      <3>5. Term(text, 1) = DiceBody(text, text[1].n, 2 + 1)
        BY <2>4, <2>5, <2>7 DEF Term
      <3>. QED
        BY <1>2, <2>1, <3>1, <3>3, <3>4, <3>5, DiceText
    <2>8. CASE text[1].what = "number" /\ TokenAt(text, 2) # "d"
      <3>1. PICK c : c = [const |-> text[1].n]
        OBVIOUS
      <3>2. Term(text, 1) = [read |-> c, at |-> 2]
        BY <2>4, <2>5, <2>8, <3>1 DEF Term, ConstTerm
      <3>3. [read |-> c, at |-> 2] # Refused
        <4>1. text[1] \in Token
          BY <2>1, <2>3, ElementOfSeq
        <4>2. text[1].n \in Nat
          BY <2>8, <4>1, TokenCases, SuffixCases
        <4>3. c \in Terms
          BY <3>1, <4>2 DEF Terms
        <4>. QED
          BY <4>3, ValuesAreRead DEF Values
      <3>4. AllRead(text, Term(text, 1)) <=> l = 1
        BY <2>1, <3>2, <3>3 DEF AllRead
      <3>5. IsTermText(text) <=> l = 1
        <4>1. "number" \in {"number", "d"} /\ "d" # "number"
          BY Zenon
        <4>2. l > 2 => text[2].what # "d"
          <5>1. l > 2 => 2 \in DOMAIN text
            BY <2>1
          <5>. QED
            BY <2>8, <5>1 DEF TokenAt
        <4>3. l = 1 => IsTermText(text)
          BY <1>2, <2>1, <2>8, <4>1, Zenon DEF IsTermText
        <4>4. IsTermText(text) => l = 1
          BY <1>2, <2>1, <2>8, <4>1, <4>2, Zenon DEF IsTermText
        <4>. QED
          BY <4>3, <4>4
      <3>. QED
        BY <1>2, <3>4, <3>5
    <2>9. CASE text[1].what \notin {"number", "d"}
      <3>1. ~IsTermText(text)
        BY <2>9, Zenon DEF IsTermText
      <3>2. Term(text, 1) = Refused
        BY <2>4, <2>9, Zenon DEF Term, ConstTerm
      <3>. QED
        BY <3>1, <3>2 DEF AllRead
    <2>. QED
      BY <2>6, <2>7, <2>8, <2>9
  <1>. QED
    BY <1>1, <1>2

\* No term and no operator can go on here, and it is not the end.
Stuck(in, q) == OpAt(in, q) \notin Ops /\ OpAt(in, q) # "end"

\* The text between two cuts.
IsGap(in, a, b) ==
  /\ a \in 0..Len(in) /\ b \in a + 1..Len(in) + 1
  /\ \A q \in a + 1..b - 1 : TokenAt(in, q) \notin Ops
  /\ TokenAt(in, b) \in Ops \/ TokenAt(in, b) = "end"

\* It is read as a term, up to the cut; or nothing is, or something is left over.
GapRead(in, p, text, b) ==
  /\ p \in 1..Len(in) + 1
  /\ IsTermText(text) => \E at \in 1..Len(in) + 1 :
       /\ Term(in, p) = [read |-> Term(text, 1).read, at |-> at]
       /\ Term(text, 1).read \in Terms
       /\ AfterBlanks(in, at) = b
  /\ ~IsTermText(text) => Term(in, p) = Refused \/ Stuck(in, Term(in, p).at)

\* The text between two cuts is read like this.
LEMMA PieceIsRead ==
  ASSUME NEW in \in Seq(Token), NEW a, NEW b, IsGap(in, a, b)
  PROVE  GapRead(in, AfterBlanks(in, a + 1), Piece(in, a, b), b)
PROOF
  <1>1. PICK n \in Nat : n = Len(in) /\ DOMAIN in = 1..n
    BY LenProperties
  <1>2. /\ a \in 0..n /\ b \in a + 1..n + 1 /\ b \in Nat /\ a \in Nat
        /\ a + 1 \in 1..n + 1 /\ b \in 1..n + 1
    BY <1>1 DEF IsGap
  <1>3. PICK p, text : p = AfterBlanks(in, a + 1) /\ text = Piece(in, a, b)
    OBVIOUS
  <1>4. ~Blank(in, b)
    BY Zenon DEF IsGap, Blank, Ops
  <1>. DEFINE inside == {i \in a + 1..b - 1 : in[i].what # " "}
  <1>5. \A i \in a + 1..b - 1 : i \in 1..n /\ (i \in inside <=> ~Blank(in, i))
    <2>. TAKE i \in a + 1..b - 1
    <2>1. i \in 1..n
      BY <1>2
    <2>2. TokenAt(in, i) = in[i].what
      BY <1>1, <2>1 DEF TokenAt
    <2>3. i \in inside <=> in[i].what # " "
      BY Zenon
    <2>. QED
      BY <2>1, <2>2, <2>3, Zenon DEF Blank
  <1>6. inside \subseteq a + 1..b - 1
    OBVIOUS
  <1>7. text = IF inside = {} THEN <<>> ELSE SubSeq(in, Min(inside), Max(inside))
    BY <1>3 DEF Piece
  <1>. HIDE DEF inside
  <1>8. CASE inside = {}
    <2>1. p = b
      <3>1. \A i \in a + 1..b - 1 : Blank(in, i)
        BY <1>5, <1>8
      <3>. QED
        BY <1>1, <1>2, <1>3, <1>4, <3>1, BlanksUpTo
    <2>2. TokenAt(in, b) # "d" /\ TokenAt(in, b) # "number"
      BY Zenon DEF IsGap, Ops
    <2>3. Term(in, p) = Refused
      BY <2>1, <2>2, Zenon DEF Term, ConstTerm
    <2>4. ~IsTermText(text)
      BY <1>7, <1>8 DEF IsTermText
    <2>. QED
      BY <1>1, <1>2, <1>3, <2>1, <2>3, <2>4 DEF GapRead
  <1>9. CASE inside # {}
    <2>1. PICK lo \in inside, hi \in inside :
            /\ lo = Min(inside) /\ hi = Max(inside)
            /\ \A i \in inside : lo <= i /\ i <= hi
      <3>1. inside \in SUBSET Nat /\ inside \in SUBSET (0..n + 1)
        BY <1>2, <1>6
      <3>2. Min(inside) \in inside /\ \A i \in inside : Min(inside) <= i
        BY <1>9, <3>1, LeastNumber
      <3>3. n + 1 \in Nat
        OBVIOUS
      <3>4. Max(inside) \in inside /\ \A i \in inside : Max(inside) >= i
        BY <1>9, <3>1, <3>3, GreatestNumber
      <3>5. \A i \in inside : i \in Nat
        BY <3>1
      <3>. QED
        BY <3>2, <3>4, <3>5
    <2>2. /\ lo \in a + 1..b - 1 /\ hi \in a + 1..b - 1 /\ lo <= hi
          /\ lo \in Nat \ {0} /\ hi \in Nat /\ hi + 1 \in Nat
      BY <1>2, <1>6, <2>1
    <2>3. p = lo
      <3>1. ~Blank(in, lo)
        BY <1>5, <2>1, <2>2
      <3>2. \A i \in a + 1..lo - 1 : Blank(in, i)
        <4>. TAKE i \in a + 1..lo - 1
        <4>1. i \in a + 1..b - 1 /\ ~(lo <= i)
          BY <1>2, <2>2
        <4>. QED
          BY <1>5, <2>1, <4>1
      <3>3. lo \in a + 1..n + 1
        BY <1>2, <2>2
      <3>. QED
        BY <1>1, <1>2, <1>3, <3>1, <3>2, <3>3, BlanksUpTo
    <2>4. \A i \in hi + 1..b - 1 : Blank(in, i)
      <3>. TAKE i \in hi + 1..b - 1
      <3>1. i \in a + 1..b - 1 /\ ~(i <= hi)
        BY <1>2, <2>2
      <3>. QED
        BY <1>5, <2>1, <3>1
    <2>5. AfterBlanks(in, hi + 1) = b /\ hi + 1 \in 1..n + 1
      <3>1. hi + 1 \in 1..n + 1 /\ b \in hi + 1..n + 1
        BY <1>2, <2>2
      <3>. QED
        BY <1>1, <1>4, <2>4, <3>1, BlanksUpTo
    <2>6. Closed(in, hi + 1)
      <3>1. CASE hi + 1 = b
        BY <3>1, Zenon DEF IsGap, Closed, Outside, Ops
      <3>2. CASE hi + 1 # b
        <4>1. hi + 1 \in hi + 1..b - 1
          BY <1>2, <2>2, <3>2
        <4>2. Blank(in, hi + 1)
          BY <2>4, <4>1
        <4>. QED
          BY <4>2, Zenon DEF Blank, Closed, Outside
      <3>. QED
        BY <3>1, <3>2
    <2>7. PICK d \in Nat, l \in Nat \ {0} : d = lo - 1 /\ l = hi - d /\ d + 1 = lo /\ d + l = hi
      <3>1. /\ lo - 1 \in Nat /\ hi - (lo - 1) \in Nat \ {0} /\ lo - 1 + 1 = lo
            /\ lo - 1 + (hi - (lo - 1)) = hi
        BY <2>2
      <3>. QED
        BY <3>1
    <2>8. /\ text \in Seq(Token) /\ Len(text) = l
          /\ \A k \in 1..l : text[k] = in[d + k]
      <3>1. text = SubSeq(in, lo, hi)
        BY <1>7, <1>9, <2>1
      <3>2. hi <= Len(in) /\ lo <= hi + 1 /\ hi + 1 - lo = l
        BY <1>1, <1>2, <2>2, <2>7
      <3>3. /\ text \in Seq(Token) /\ Len(text) = hi + 1 - lo
            /\ \A k \in 1..hi + 1 - lo : text[k] = in[lo + k - 1]
        BY <2>2, <3>1, <3>2, Cut
      <3>4. \A k \in 1..l : lo + k - 1 = d + k
        BY <2>7
      <3>. QED
        BY <3>2, <3>3, <3>4
    <2>9. StandsIn(text, in, d)
      <3>1. d + l <= Len(in) /\ d + l + 1 = hi + 1
        BY <1>1, <1>2, <2>2, <2>7
      <3>. QED
        BY <2>6, <2>7, <2>8, <3>1 DEF StandsIn
    <2>10. PICK r : r = Term(text, 1)
      OBVIOUS
    <2>11. r \in Reads(Terms, 2, l + 1)
      <3>1. 1 \in 1..Len(text) + 1 /\ 1 + 1 = 2
        BY <2>8
      <3>. QED
        BY <2>8, <2>10, <3>1, TermReads
    <2>12. Term(in, p) = Shift(d, r)
      BY <2>3, <2>7, <2>8, <2>9, <2>10, TermWithin
    <2>13. text # <<>>
      BY <2>8, EmptySeq
    <2>14. IsTermText(text) <=> r # Refused /\ r.at = l + 1
      BY <2>8, <2>10, <2>13, TextIsTerm DEF AllRead
    <2>15. p \in 1..n + 1
      BY <1>2, <2>2, <2>3
    <2>16. ASSUME IsTermText(text)
           PROVE  \E at \in 1..Len(in) + 1 :
                  /\ Term(in, p) = [read |-> r.read, at |-> at]
                  /\ r.read \in Terms
                  /\ AfterBlanks(in, at) = b
      <3>1. Term(in, p) = [read |-> r.read, at |-> d + (l + 1)]
        BY <2>12, <2>14, <2>16 DEF Shift
      <3>2. d + (l + 1) = hi + 1
        BY <2>7
      <3>3. r.read \in Terms
        BY <2>11, <2>14, <2>16 DEF Reads
      <3>. QED
        BY <1>1, <2>5, <3>1, <3>2, <3>3
    <2>17. ASSUME ~IsTermText(text)
           PROVE  Term(in, p) = Refused \/ Stuck(in, Term(in, p).at)
      <3>1. CASE r = Refused
        BY <2>12, <3>1 DEF Shift
      <3>2. CASE r # Refused
        <4>1. r.at \in 2..l + 1 /\ r.at # l + 1
          BY <2>11, <2>14, <2>17, <3>2 DEF Reads
        <4>2. PICK q \in lo + 1..hi : q = d + r.at
          <5>1. d + r.at \in lo + 1..hi
            BY <2>2, <2>7, <4>1
          <5>. QED
            BY <5>1
        <4>3. q = Term(in, p).at
          BY <2>12, <3>2, <4>2 DEF Shift
        <4>4. q \in 1..n + 1 /\ hi \in q..n + 1
          BY <1>2, <2>2, <4>2
        <4>5. ~Blank(in, hi)
          BY <1>5, <2>1, <2>2
        <4>6. PICK o : o = AfterBlanks(in, q)
          OBVIOUS
        <4>7. o \in q..hi /\ ~Blank(in, o)
          BY <1>1, <4>4, <4>5, <4>6, BlanksUpTo
        <4>8. o \in a + 1..b - 1 /\ o \in 1..n
          BY <1>2, <2>2, <4>2, <4>7
        <4>9. TokenAt(in, o) \notin Ops /\ TokenAt(in, o) # "end"
          BY <1>1, <4>8, TokensAreNoEnd DEF IsGap
        <4>. QED
          BY <4>3, <4>6, <4>9 DEF Stuck, OpAt
      <3>. QED
        BY <3>1, <3>2
    <2>. QED
      BY <1>1, <1>3, <2>10, <2>15, <2>16, <2>17 DEF GapRead
  <1>. QED
    BY <1>8, <1>9

------------------------------------------------------------------------------
(* Products one after another, and their terms. *)

\* A list with something in front.
LEMMA InFront ==
  ASSUME NEW S, NEW s \in S, NEW q \in Seq(S), NEW n \in Nat, n = Len(q)
  PROVE  LET w == <<s>> \o q
         IN  /\ w \in Seq(S) /\ Len(w) = n + 1 /\ w[1] = s
             /\ \A i \in 1..n : w[i + 1] = q[i]
PROOF
  <1>1. PICK f : f = <<s>>
    OBVIOUS
  <1>2. f \in Seq(S) /\ Len(f) = 1 /\ f[1] = s
    BY <1>1
  <1>3. PICK w : w = f \o q
    OBVIOUS
  <1>4. w \in Seq(S) /\ Len(w) = Len(f) + Len(q) /\ \A i \in 1..Len(f) + Len(q) :
          w[i] = IF i <= Len(f) THEN f[i] ELSE q[i - Len(f)]
    BY <1>2, <1>3, ConcatProperties
  <1>5. Len(w) = n + 1 /\ \A i \in 1..n + 1 : w[i] = IF i <= 1 THEN f[i] ELSE q[i - 1]
    BY <1>2, <1>4
  <1>6. \A i \in 1..n : i + 1 \in 1..n + 1 /\ ~(i + 1 <= 1) /\ i + 1 - 1 = i
    OBVIOUS
  <1>7. 1 \in 1..n + 1
    OBVIOUS
  <1>. QED
    BY <1>1, <1>2, <1>3, <1>4, <1>5, <1>6, <1>7

\* A product with its operator stands for the terms behind a up to c: they are x[i],
\* and the operators before them are o[i].
StandsFor(link, a, c, o, x) ==
  /\ c = a + Len(link.item)
  /\ \A r \in 1..Len(link.item) :
       link.item[r] = x[a + r] /\ o[a + r] = IF r = 1 THEN link.op ELSE "*"

Products == Link({"+", "-"}, ProductsOf(Terms))

\* A list of products stands for them one after another.
Layout(b, l, n, from, to, o, x) ==
  /\ l \in Seq(Products) /\ Len(l) = n
  /\ b \in [0..n -> Nat] /\ b[0] = from /\ b[n] = to
  /\ \A i \in 1..n : StandsFor(l[i], b[i - 1], b[i], o, x)

LaysOut(l, from, to, o, x) == \E n \in Nat : \E b : Layout(b, l, n, from, to, o, x)

\* No product stands for no terms.
LEMMA NothingLaidOut ==
  ASSUME NEW k \in Nat, NEW o, NEW x
  PROVE  LaysOut(<<>>, k, k, o, x)
PROOF
  <1>1. Layout([i \in 0..0 |-> k], <<>>, 0, k, k, o, x)
    BY EmptySeq DEF Layout
  <1>2. 0 \in Nat
    OBVIOUS
  <1>. QED
    BY <1>1, <1>2 DEF LaysOut

\* One more product in front.
LEMMA LaidInFront ==
  ASSUME NEW l, NEW from \in Nat, NEW to, NEW o, NEW x, LaysOut(l, from, to, o, x),
         NEW link \in Products, NEW k \in Nat, StandsFor(link, k, from, o, x)
  PROVE  LaysOut(<<link>> \o l, k, to, o, x)
PROOF
  <1>1. PICK n \in Nat : \E b : Layout(b, l, n, from, to, o, x)
    BY DEF LaysOut
  <1>2. PICK b : Layout(b, l, n, from, to, o, x)
    BY <1>1
  <1>3. /\ l \in Seq(Products) /\ Len(l) = n
        /\ b \in [0..n -> Nat] /\ b[0] = from /\ b[n] = to
        /\ \A i \in 1..n : StandsFor(l[i], b[i - 1], b[i], o, x)
    BY <1>2 DEF Layout
  <1>4. PICK w : w = <<link>> \o l
    OBVIOUS
  <1>5. /\ w \in Seq(Products) /\ Len(w) = n + 1 /\ w[1] = link
        /\ \A i \in 1..n : w[i + 1] = l[i]
    BY <1>3, <1>4, InFront
  <1>6. PICK a : a = [i \in 0..n + 1 |-> IF i = 0 THEN k ELSE b[i - 1]]
    OBVIOUS
  <1>7. /\ a[0] = k /\ a[1] = from /\ a[n + 1] = to
        /\ \A i \in 1..n : a[i] = b[i - 1] /\ a[i + 1] = b[i]
    BY <1>3, <1>6
  <1>8. a \in [0..n + 1 -> Nat]
    BY <1>3, <1>6
  <1>9. ASSUME NEW i \in 1..n + 1
        PROVE  StandsFor(w[i], a[i - 1], a[i], o, x)
    <2>1. CASE i = 1
      <3>1. i - 1 = 0
        BY <2>1
      <3>. QED
        BY <1>5, <1>7, <2>1, <3>1
    <2>2. CASE i # 1
      <3>1. PICK j \in 1..n : j = i - 1 /\ j + 1 = i
        BY <2>2
      <3>2. StandsFor(l[j], b[j - 1], b[j], o, x)
        BY <1>3
      <3>. QED
        BY <1>5, <1>7, <3>1, <3>2
    <2>. QED
      BY <2>1, <2>2
  <1>10. Layout(a, w, n + 1, k, to, o, x)
    BY <1>5, <1>7, <1>8, <1>9 DEF Layout
  <1>11. n + 1 \in Nat
    OBVIOUS
  <1>. QED
    BY <1>4, <1>10, <1>11 DEF LaysOut

\* Then it has that many terms, and they are these.
LEMMA LaidOutIsCounted ==
  ASSUME NEW e, NEW N \in Nat, NEW o, NEW x, LaysOut(e, 0, N, o, x)
  PROVE  TermCount(e) = N
PROOF
  <1>1. PICK n \in Nat : \E b : Layout(b, e, n, 0, N, o, x)
    BY DEF LaysOut
  <1>2. PICK b : Layout(b, e, n, 0, N, o, x)
    BY <1>1
  <1>3. /\ e \in Seq(Products) /\ Len(e) = n /\ DOMAIN e = 1..n
        /\ b \in [0..n -> Nat] /\ b[0] = 0 /\ b[n] = N
        /\ \A i \in 1..n : b[i] = b[i - 1] + Len(e[i].item)
    BY <1>2, LenProperties DEF Layout, StandsFor
  <1>4. \A i \in 1..n : e[i].item \in Seq(Terms)
    <2>. TAKE i \in 1..n
    <2>1. e[i] \in Products
      BY <1>3, ElementOfSeq
    <2>. QED
      BY <2>1 DEF Products, Link, ProductsOf
  <1>5. PICK p \in [0..n -> Nat] :
          /\ p[0] = 0
          /\ \A k \in 1..n : p[k] = p[k - 1] + Len(e[k].item)
          /\ p[n] = TermCount(e)
    BY <1>3, <1>4, CountUnfolds
  <1>. DEFINE T == {k \in 0..n : p[k] = b[k]}
  <1>6. 0 \in T
    BY <1>3, <1>5
  <1>7. \A k \in 1..n : k - 1 \in T => k \in T
    BY <1>3, <1>5
  <1>8. n \in T
    <2>1. n \in 0..n
      OBVIOUS
    <2>. HIDE DEF T
    <2>. QED
      BY <1>6, <1>7, <2>1, CountingUp
  <1>. QED
    BY <1>3, <1>5, <1>8

\* Flattened, the list is the terms with the operators before them.
LEMMA LaidOutIsFlat ==
  ASSUME NEW e, NEW N \in Nat, NEW o, NEW x, LaysOut(e, 0, N, o, x), e # <<>>,
         \A i \in 1..N : o[i] \in Ops /\ x[i] \in Terms
  PROVE  Flat(e) = [i \in 1..N |-> [op |-> o[i], term |-> x[i]]]
PROOF
  <1>1. PICK n \in Nat : \E b : Layout(b, e, n, 0, N, o, x)
    BY DEF LaysOut
  <1>2. PICK b : Layout(b, e, n, 0, N, o, x)
    BY <1>1
  <1>3. /\ e \in Seq(Products) /\ Len(e) = n /\ DOMAIN e = 1..n
        /\ b \in [0..n -> Nat] /\ b[0] = 0 /\ b[n] = N
        /\ \A i \in 1..n : StandsFor(e[i], b[i - 1], b[i], o, x)
    BY <1>2, LenProperties DEF Layout
  <1>4. n \in Nat \ {0}
    BY <1>3, EmptySeq
  <1>5. PICK S : S = [op : Ops, term : Terms]
    OBVIOUS
  <1>6. PICK ss : ss = [i \in DOMAIN e |->
                         [j \in DOMAIN e[i].item |->
                           [op |-> IF j = 1 THEN e[i].op ELSE "*", term |-> e[i].item[j]]]]
    OBVIOUS
  <1>7. Flat(e) = FlattenSeq(ss)
    BY <1>6 DEF Flat
  <1>8. \A i \in 1..n : e[i].item \in Seq(Terms) /\ e[i].op \in Ops
    <2>. TAKE i \in 1..n
    <2>1. e[i] \in Products
      BY <1>3, ElementOfSeq
    <2>2. e[i].op \in {"+", "-"} /\ e[i].item \in Seq(Terms)
      BY <2>1 DEF Products, Link, ProductsOf
    <2>. QED
      BY <2>2, Zenon DEF Ops
  <1>9. ASSUME NEW i \in 1..n
        PROVE  /\ ss[i] \in Seq(S) /\ Len(ss[i]) = Len(e[i].item) /\ Len(ss[i]) \in Nat
               /\ b[i] = b[i - 1] + Len(ss[i])
               /\ \A j \in 1..Len(ss[i]) :
                    ss[i][j] = [op |-> o[b[i - 1] + j], term |-> x[b[i - 1] + j]]
    <2>1. PICK m \in Nat, a \in Nat :
            m = Len(e[i].item) /\ DOMAIN e[i].item = 1..m /\ a = b[i - 1]
      <3>1. i - 1 \in 0..n
        OBVIOUS
      <3>. QED
        BY <1>3, <1>8, <3>1, LenProperties
    <2>2. PICK s : s = ss[i]
      OBVIOUS
    <2>3. s = [j \in 1..m |-> [op |-> IF j = 1 THEN e[i].op ELSE "*", term |-> e[i].item[j]]]
      BY <1>3, <1>6, <2>1, <2>2
    <2>4. b[i] = a + m /\ \A j \in 1..m : /\ e[i].item[j] = x[a + j]
                                         /\ o[a + j] = IF j = 1 THEN e[i].op ELSE "*"
      BY <1>3, <2>1 DEF StandsFor
    <2>5. \A j \in 1..m : s[j] = [op |-> o[a + j], term |-> x[a + j]]
      BY <2>3, <2>4
    <2>6. \A j \in 1..m : s[j] \in S
      <3>. TAKE j \in 1..m
      <3>1. e[i].item[j] \in Terms
        BY <1>8, <2>1, ElementOfSeq
      <3>2. o[a + j] \in Ops
        <4>1. "*" \in Ops
          BY Zenon DEF Ops
        <4>. QED
          BY <1>8, <2>4, <4>1
      <3>3. PICK op \in Ops, term \in Terms : op = o[a + j] /\ term = x[a + j]
        BY <2>4, <3>1, <3>2
      <3>4. s[j] = [op |-> op, term |-> term]
        BY <2>5, <3>3
      <3>. QED
        BY <1>5, <3>4
    <2>7. s = [j \in 1..m |-> s[j]]
      BY <2>3
    <2>8. s \in Seq(S) /\ Len(s) = m
      BY <2>6, <2>7
    <2>. QED
      BY <2>1, <2>2, <2>4, <2>5, <2>8
  <1>10. AreTexts(S, ss, n)
    <2>1. ss = [i \in 1..n |-> ss[i]]
      BY <1>3, <1>6
    <2>2. Len(ss) = n
      BY <2>1
    <2>. QED
      BY <1>9, <2>2 DEF AreTexts
  <1>11. PICK f : Joins(f, S, ss, n)
    BY <1>4, <1>10, TextsAreJoined
  <1>12. /\ f \in [0..n -> Seq(S)] /\ f[0] = <<>> /\ f[n] = FlattenSeq(ss)
         /\ \A k \in 1..n : f[k] = f[k - 1] \o ss[k]
    BY <1>11 DEF Joins
  <1>. DEFINE T == {k \in 0..n : /\ Len(f[k]) = b[k]
                                 /\ \A i \in 1..b[k] : f[k][i] = [op |-> o[i], term |-> x[i]]}
  <1>13. 0 \in T
    BY <1>3, <1>12
  <1>14. ASSUME NEW k \in 1..n, k - 1 \in T
         PROVE  k \in T
    <2>0. PICK u, v : u = f[k - 1] /\ v = ss[k]
      OBVIOUS
    <2>1. PICK a \in Nat, m \in Nat :
            u = f[k - 1] /\ v = ss[k] /\ a = b[k - 1] /\ m = Len(v)
      <3>1. k - 1 \in 0..n
        OBVIOUS
      <3>. QED
        BY <1>3, <1>9, <2>0, <3>1
    <2>2. u \in Seq(S) /\ v \in Seq(S)
      <3>1. k - 1 \in 0..n
        OBVIOUS
      <3>. QED
        BY <1>9, <1>12, <2>1, <3>1
    <2>3. Len(u) = a /\ \A i \in 1..a : u[i] = [op |-> o[i], term |-> x[i]]
      BY <1>14, <2>1
    <2>4. /\ b[k] = a + m
          /\ \A j \in 1..m : v[j] = [op |-> o[a + j], term |-> x[a + j]]
      BY <1>9, <2>1
    <2>5. PICK w : w = u \o v
      OBVIOUS
    <2>6. Len(w) = Len(u) + Len(v) /\ \A i \in 1..Len(u) + Len(v) :
            w[i] = IF i <= Len(u) THEN u[i] ELSE v[i - Len(u)]
      BY <2>2, <2>5, ConcatProperties
    <2>7. Len(w) = a + m /\ \A i \in 1..a + m : w[i] = IF i <= a THEN u[i] ELSE v[i - a]
      BY <2>1, <2>3, <2>6
    <2>8. \A i \in 1..a + m : w[i] = [op |-> o[i], term |-> x[i]]
      <3>. TAKE i \in 1..a + m
      <3>1. CASE i <= a
        BY <2>3, <2>7, <3>1
      <3>2. CASE ~(i <= a)
        <4>1. PICK j \in 1..m : j = i - a /\ a + j = i
          BY <3>2
        <4>. QED
          BY <2>4, <2>7, <3>2, <4>1
      <3>. QED
        BY <3>1, <3>2
    <2>9. f[k] = w
      BY <1>12, <2>1, <2>5
    <2>. QED
      BY <2>4, <2>7, <2>8, <2>9
  <1>15. n \in T
    <2>1. n \in 0..n
      OBVIOUS
    <2>. HIDE DEF T
    <2>. QED
      BY <1>13, <1>14, <2>1, CountingUp
  <1>16. PICK q : q = Flat(e)
    OBVIOUS
  <1>17. q \in Seq(S) /\ Len(q) = N /\ \A i \in 1..N : q[i] = [op |-> o[i], term |-> x[i]]
    BY <1>3, <1>7, <1>12, <1>15, <1>16
  <1>18. q = [i \in 1..N |-> q[i]]
    BY <1>17, LenProperties
  <1>19. [i \in 1..N |-> q[i]] = [i \in 1..N |-> [op |-> o[i], term |-> x[i]]]
    BY <1>17
  <1>. QED
    BY <1>16, <1>18, <1>19

------------------------------------------------------------------------------
(* The pieces are read from the last to the first. *)

\* Nothing was read, or something is left over.
Fails(in, r) == r = Refused \/ Stuck(in, r.at)

\* g is what Many reads from each position on.
IsList(g, in, ops, I, items) ==
  /\ in \in Seq(Token) /\ ops \subseteq Ops
  /\ ReadsItems(in, items, I) /\ Values(I) /\ Values(Seq(Link(ops, I)))
  /\ \A p \in 1..Len(in) + 1 : /\ g[p] = ManyAt(in, ops, items, g, p)
                               /\ g[p] \in Reads(Seq(Link(ops, I)), p, Len(in) + 1)

AreItems(in, ops, I, items) ==
  /\ in \in Seq(Token) /\ ops \subseteq Ops
  /\ ReadsItems(in, items, I) /\ Values(I) /\ Values(Seq(Link(ops, I)))

HasList(in, ops, I, items) ==
  \E g : /\ IsList(g, in, ops, I, items)
         /\ \A p \in 1..Len(in) + 1 : Many(in, p, ops, items) = g[p]

\* There is such a function g.
LEMMA ListExists ==
  ASSUME NEW in, NEW ops, NEW I, NEW items, AreItems(in, ops, I, items)
  PROVE  HasList(in, ops, I, items)
PROOF
  <1>. /\ in \in Seq(Token) /\ ops \subseteq Ops
       /\ ReadsItems(in, items, I) /\ Values(I) /\ Values(Seq(Link(ops, I)))
    BY DEF AreItems
  <1>1. "end" \notin ops
    BY Zenon DEF Ops
  <1>2. PICK g :
           /\ \A p \in 1..Len(in) + 1 : Many(in, p, ops, items) = g[p]
           /\ \A p \in 1..Len(in) + 1 : g[p] = ManyAt(in, ops, items, g, p)
           /\ \A p \in 1..Len(in) + 1 : g[p] \in Reads(Seq(Link(ops, I)), p, Len(in) + 1)
    BY <1>1, ManyUnfolds
  <1>. QED
    BY <1>2 DEF IsList, HasList

\* The list ends where no operator of it follows.
LEMMA ListEnds ==
  ASSUME NEW g, NEW in, NEW ops, NEW I, NEW items, IsList(g, in, ops, I, items),
         NEW p \in 1..Len(in) + 1, OpAt(in, p) \notin ops
  PROVE  g[p] = [read |-> <<>>, at |-> p]
PROOF
  BY DEF IsList, ManyAt

\* What is read with one more item, by what is read behind it.
GoesOn(in, ops, I, op, y, r, rest) ==
  /\ Fails(in, rest) => Fails(in, r)
  /\ \A q \in Seq(Link(ops, I)), e \in Nat :
       rest = [read |-> q, at |-> e] =>
         r = [read |-> <<[op |-> op, item |-> y]>> \o q, at |-> e]

\* The list goes on with an item that is read.
LEMMA ListGoesOn ==
  ASSUME NEW g, NEW in, NEW ops, NEW I, NEW items, IsList(g, in, ops, I, items),
         NEW p \in 1..Len(in) + 1, OpAt(in, p) \in ops,
         NEW y \in I, NEW z \in 1..Len(in) + 1,
         ItemAt(in, items, p) = [read |-> y, at |-> z]
  PROVE  GoesOn(in, ops, I, OpAt(in, p), y, g[p], g[z])
PROOF
  <1>. z \in Nat
    BY LenProperties DEF IsList
  <1>1. PICK item : item = [read |-> y, at |-> z]
    OBVIOUS
  <1>2. item # Refused /\ item.read = y /\ item.at = z
    BY <1>1 DEF IsList, Values
  <1>3. PICK op : op = OpAt(in, p)
    OBVIOUS
  <1>4. g[p] = Followed(op, item, g[z])
    BY <1>1, <1>2, <1>3 DEF IsList, ManyAt
  <1>5. PICK rest : rest = g[z]
    OBVIOUS
  <1>6. rest \in Reads(Seq(Link(ops, I)), z, Len(in) + 1)
    BY <1>5 DEF IsList
  <1>7. CASE rest = Refused
    <2>1. g[p] = Refused
      BY <1>4, <1>5, <1>7 DEF Followed
    <2>2. \A q \in Seq(Link(ops, I)), e \in Nat : g[z] # [read |-> q, at |-> e]
      BY <1>5, <1>7 DEF IsList, Values
    <2>. QED
      BY <1>5, <2>1, <2>2 DEF Fails, GoesOn
  <1>8. CASE rest # Refused
    <2>1. rest = [read |-> rest.read, at |-> rest.at]
      BY <1>6, <1>8 DEF Reads
    <2>2. PICK w : w = <<[op |-> op, item |-> y]>> \o rest.read
      OBVIOUS
    <2>3. g[p] = [rest EXCEPT !.read = w]
      BY <1>2, <1>4, <1>5, <1>8, <2>2 DEF Followed
    <2>4. g[p] = [read |-> w, at |-> rest.at]
      BY <2>1, <2>3
    <2>5. Fails(in, g[z]) => Fails(in, g[p])
      BY <1>5, <1>8, <2>4 DEF Fails
    <2>6. ASSUME NEW q, NEW e, rest = [read |-> q, at |-> e]
          PROVE  g[p] = [read |-> <<[op |-> op, item |-> y]>> \o q, at |-> e]
      <3>1. rest.read = q /\ rest.at = e
        BY <2>6
      <3>. QED
        BY <2>2, <2>4, <3>1
    <2>. QED
      BY <1>3, <1>5, <2>5, <2>6 DEF GoesOn
  <1>. QED
    BY <1>7, <1>8

\* Nothing goes on behind an item that fails.
LEMMA ListFails ==
  ASSUME NEW g, NEW in, NEW ops, NEW I, NEW items, IsList(g, in, ops, I, items),
         NEW p \in 1..Len(in) + 1, OpAt(in, p) \in ops, Fails(in, ItemAt(in, items, p))
  PROVE  Fails(in, g[p])
PROOF
  <1>1. PICK item : item = ItemAt(in, items, p)
    OBVIOUS
  <1>2. CASE item = Refused
    BY <1>1, <1>2 DEF IsList, ManyAt, Fails
  <1>3. CASE item # Refused
    <2>1. item \in Reads(I, p + 1, Len(in) + 1)
      <3>1. "end" \notin ops
        BY Zenon DEF IsList, Ops
      <3>. QED
        BY <1>1, <3>1, ItemsStandBehind DEF IsList
    <2>2. PICK y \in I, z \in p + 1..Len(in) + 1 : item = [read |-> y, at |-> z]
      BY <1>3, <2>1 DEF Reads
    <2>3. z \in 1..Len(in) + 1 /\ z \in Nat
      BY LenProperties DEF IsList
    <2>4. Stuck(in, z)
      BY <1>1, <1>3, <2>2 DEF Fails
    <2>5. g[z] = [read |-> <<>>, at |-> z]
      <3>1. OpAt(in, z) \notin ops
        BY <2>4 DEF Stuck, IsList
      <3>. QED
        BY <2>3, <3>1, ListEnds
    <2>6. g[z] = Refused \/ g[z].at = z
      BY <2>5
    <2>7. Fails(in, g[z])
      BY <2>4, <2>6 DEF Fails
    <2>8. ItemAt(in, items, p) = [read |-> y, at |-> z]
      BY <1>1, <2>2
    <2>9. GoesOn(in, ops, I, OpAt(in, p), y, g[p], g[z])
      BY <2>3, <2>8, ListGoesOn
    <2>. QED
      BY <2>7, <2>9 DEF GoesOn
  <1>. QED
    BY <1>2, <1>3

\* The pieces of an input: there are N, o are the operators before them and what is
\* behind, s the places where they begin.  Those in G are terms: x is read of them, and
\* t are the places where they end.  Of the others nothing is read, or not all.
IsLine(in, N, G, o, s, t, x) ==
  /\ in \in Seq(Token) /\ N \in Nat \ {0} /\ G \subseteq 1..N
  /\ o[1] = "+" /\ o[N + 1] = "end" /\ \A k \in 1..N : o[k] \in Ops
  /\ \A k \in 1..N : s[k] \in 1..Len(in) + 1
  /\ \A k \in G : /\ x[k] \in Terms /\ t[k] \in 1..Len(in) + 1
                  /\ Term(in, s[k]) = [read |-> x[k], at |-> t[k]]
                  /\ OpAt(in, t[k]) = o[k + 1]
                  /\ k # N => \A items : ItemAt(in, items, t[k]) = items[s[k + 1]]
  /\ \A k \in 1..N : k \notin G => Fails(in, Term(in, s[k]))

\* A product from k to j: terms, and it goes on as long as the operator is *.
IsRun(N, G, o, k, j) ==
  /\ j \in k..N
  /\ \A i \in k..j : i \in G
  /\ \A i \in k + 1..j : o[i] = "*"
  /\ o[j + 1] # "*"

Star == {"*"}

TermItems(in) == [q \in 1..Len(in) + 1 |-> Term(in, q)]

\* What is behind a term is read up to the end of the product, or fails.
TimesRead(in, N, G, o, t, x, k, r) ==
  \/ \E j \in k..N : \E l \in Seq(Link(Star, Terms)) :
       /\ IsRun(N, G, o, k, j)
       /\ Len(l) = j - k /\ \A i \in 1..j - k : l[i].item = x[k + i]
       /\ r = [read |-> l, at |-> t[j]]
  \/ G # 1..N /\ Fails(in, r)

\* The terms are such items.
LEMMA TermItemsRead ==
  ASSUME NEW in \in Seq(Token)
  PROVE  HasList(in, Star, Terms, TermItems(in))
PROOF
  <1>1. ReadsItems(in, TermItems(in), Terms)
    BY TermReads DEF ReadsItems, TermItems
  <1>2. Star \subseteq Ops
    BY Zenon DEF Ops, Star
  <1>3. Values(Terms) /\ Values(Seq(Link(Star, Terms)))
    BY ValuesAreRead DEF Star
  <1>4. AreItems(in, Star, Terms, TermItems(in))
    BY <1>1, <1>2, <1>3 DEF AreItems
  <1>. QED
    BY <1>4, ListExists

\* Of what is behind a term that holds, whatever its product is like.
LEMMA TimesLine ==
  ASSUME NEW in, NEW N, NEW G, NEW o, NEW s, NEW t, NEW x, IsLine(in, N, G, o, s, t, x),
         NEW k \in G
  PROVE  TimesRead(in, N, G, o, t, x, k, Many(in, t[k], Star, TermItems(in)))
PROOF
  <1>1. /\ in \in Seq(Token) /\ N \in Nat \ {0} /\ G \subseteq 1..N
        /\ o[N + 1] = "end"
    BY DEF IsLine
  <1>2. PICK g : /\ IsList(g, in, Star, Terms, TermItems(in))
                 /\ \A p \in 1..Len(in) + 1 : Many(in, p, Star, TermItems(in)) = g[p]
    BY <1>1, TermItemsRead DEF HasList
  <1>. DEFINE T == {i \in 1..N : i \in G => TimesRead(in, N, G, o, t, x, i, g[t[i]])}
  <1>3. ASSUME NEW i \in 1..N, \A j \in i + 1..N : j \in T
        PROVE  i \in T
    <2>. SUFFICES ASSUME i \in G PROVE TimesRead(in, N, G, o, t, x, i, g[t[i]])
      OBVIOUS
    <2>1. PICK p \in 1..Len(in) + 1 : p = t[i] /\ OpAt(in, p) = o[i + 1]
      BY DEF IsLine
    <2>2. CASE o[i + 1] # "*"
      <3>1. g[p] = [read |-> <<>>, at |-> p]
        <4>1. OpAt(in, p) \notin Star
          BY <2>1, <2>2 DEF Star
        <4>. QED
          BY <1>2, <4>1, ListEnds
      <3>2. IsRun(N, G, o, i, i)
        BY <1>1, <2>2 DEF IsRun
      <3>3. <<>> \in Seq(Link(Star, Terms)) /\ Len(<<>>) = i - i /\ i \in i..N /\ 1..i - i = {}
        BY <1>1, EmptySeq
      <3>. QED
        BY <2>1, <3>1, <3>2, <3>3 DEF TimesRead
    <2>3. CASE o[i + 1] = "*"
      <3>0. OpAt(in, p) \in Star
        BY <2>1, <2>3 DEF Star
      <3>1. i # N
        BY <1>1, <2>3
      <3>2. PICK n \in i + 1..N : n = i + 1
        BY <1>1, <3>1
      <3>3. n \in 1..N /\ n \in T
        BY <1>1, <1>3, <3>2
      <3>4. ItemAt(in, TermItems(in), p) = Term(in, s[n])
        <4>1. ItemAt(in, TermItems(in), p) = TermItems(in)[s[n]]
          BY <2>1, <3>1, <3>2 DEF IsLine
        <4>2. s[n] \in 1..Len(in) + 1
          BY <3>3 DEF IsLine
        <4>. QED
          BY <4>1, <4>2 DEF TermItems
      <3>5. CASE n \notin G
        <4>1. Fails(in, ItemAt(in, TermItems(in), p))
          BY <3>3, <3>4, <3>5 DEF IsLine
        <4>2. Fails(in, g[p])
          BY <1>2, <3>0, <4>1, ListFails
        <4>. QED
          BY <2>1, <3>3, <3>5, <4>2 DEF TimesRead
      <3>6. CASE n \in G
        <4>1. /\ x[n] \in Terms /\ t[n] \in 1..Len(in) + 1
              /\ ItemAt(in, TermItems(in), p) = [read |-> x[n], at |-> t[n]]
          BY <3>4, <3>6 DEF IsLine
        <4>2. GoesOn(in, Star, Terms, "*", x[n], g[p], g[t[n]])
          <5>1. GoesOn(in, Star, Terms, OpAt(in, p), x[n], g[p], g[t[n]])
            BY <1>2, <3>0, <4>1, ListGoesOn
          <5>. QED
            BY <2>1, <2>3, <5>1
        <4>3. TimesRead(in, N, G, o, t, x, n, g[t[n]])
          BY <3>3, <3>6
        <4>4. CASE G # 1..N /\ Fails(in, g[t[n]])
          BY <2>1, <4>2, <4>4 DEF TimesRead, GoesOn
        <4>5. CASE \E j \in n..N : \E l \in Seq(Link(Star, Terms)) :
                     /\ IsRun(N, G, o, n, j)
                     /\ Len(l) = j - n /\ \A h \in 1..j - n : l[h].item = x[n + h]
                     /\ g[t[n]] = [read |-> l, at |-> t[j]]
          <5>1. PICK j \in n..N : \E l \in Seq(Link(Star, Terms)) :
                     /\ IsRun(N, G, o, n, j)
                     /\ Len(l) = j - n /\ \A h \in 1..j - n : l[h].item = x[n + h]
                     /\ g[t[n]] = [read |-> l, at |-> t[j]]
            BY <4>5
          <5>2. PICK l \in Seq(Link(Star, Terms)) :
                     /\ IsRun(N, G, o, n, j)
                     /\ Len(l) = j - n /\ \A h \in 1..j - n : l[h].item = x[n + h]
                     /\ g[t[n]] = [read |-> l, at |-> t[j]]
            BY <5>1
          <5>3. j \in G /\ t[j] \in Nat
            <6>1. j \in G
              BY <3>3, <5>1, <5>2 DEF IsRun
            <6>2. t[j] \in 1..Len(in) + 1
              BY <6>1 DEF IsLine
            <6>. QED
              BY <1>1, <6>1, <6>2, LenProperties
          <5>4. PICK link : link = [op |-> "*", item |-> x[n]]
            OBVIOUS
          <5>5. link \in Link(Star, Terms) /\ link.item = x[n]
            BY <4>1, <5>4 DEF Link, Star
          <5>6. PICK w : w = <<link>> \o l
            OBVIOUS
          <5>7. g[p] = [read |-> w, at |-> t[j]]
            BY <4>2, <5>2, <5>3, <5>4, <5>6 DEF GoesOn
          <5>8. j - n \in Nat /\ j - n + 1 = j - i /\ j \in i..N
            BY <1>1, <3>2, <5>1
          <5>9. /\ w \in Seq(Link(Star, Terms)) /\ Len(w) = j - i /\ w[1] = link
                /\ \A h \in 1..j - n : w[h + 1] = l[h]
            <6>1. PICK d \in Nat : d = j - n /\ d + 1 = j - i
              BY <5>8
            <6>2. PICK S : S = Link(Star, Terms)
              OBVIOUS
            <6>3. l \in Seq(S) /\ link \in S /\ d = Len(l)
              BY <5>2, <5>5, <6>1, <6>2
            <6>4. /\ w \in Seq(S) /\ Len(w) = d + 1 /\ w[1] = link
                  /\ \A h \in 1..d : w[h + 1] = l[h]
              BY <5>6, <6>3, InFront
            <6>. QED
              BY <6>1, <6>2, <6>4
          <5>10. \A h \in 1..j - i : w[h].item = x[i + h]
            <6>. TAKE h \in 1..j - i
            <6>1. CASE h = 1
              BY <3>2, <5>5, <5>9, <6>1
            <6>2. CASE h # 1
              <7>1. PICK f \in 1..j - n : f = h - 1 /\ f + 1 = h /\ n + f = i + h
                <8>1. n \in Int /\ j \in Int /\ i \in Int /\ n = i + 1 /\ h \in 1..j - i
                  BY <3>2, <5>1
                <8>2. h - 1 \in 1..j - n /\ h - 1 + 1 = h /\ n + (h - 1) = i + h
                  BY <6>2, <8>1
                <8>. QED
                  BY <8>2
              <7>. QED
                BY <5>2, <5>9, <7>1
            <6>. QED
              BY <6>1, <6>2
          <5>11. IsRun(N, G, o, i, j)
            <6>1. /\ \A h \in n..j : h \in G
                  /\ \A h \in n + 1..j : o[h] = "*"
                  /\ o[j + 1] # "*"
              BY <5>2 DEF IsRun
            <6>2. ASSUME NEW h \in i..j PROVE h = i \/ h \in n..j
              BY <3>2, <5>1
            <6>3. ASSUME NEW h \in i + 1..j PROVE h = n \/ h \in n + 1..j
              BY <3>2, <5>1
            <6>. QED
              BY <2>3, <3>2, <5>8, <6>1, <6>2, <6>3 DEF IsRun
          <5>. QED
            BY <2>1, <5>7, <5>8, <5>9, <5>10, <5>11 DEF TimesRead
        <4>. QED
          BY <4>3, <4>4, <4>5 DEF TimesRead
      <3>. QED
        BY <3>5, <3>6
    <2>. QED
      BY <2>2, <2>3
  <1>4. k \in T
    <2>1. k \in 1..N /\ N \in Nat
      BY <1>1
    <2>. HIDE DEF T
    <2>. QED
      BY <1>3, <2>1, CountingDown
  <1>5. t[k] \in 1..Len(in) + 1
    BY DEF IsLine
  <1>. QED
    BY <1>2, <1>4, <1>5

\* All pieces are terms, and there are not too many.
Fits(N, G) == G = 1..N /\ N <= MaxTerms

\* What ProductOf and ExprOf make of what is behind.
LEMMA ProductFails ==
  ASSUME NEW in, NEW first, NEW Q, NEW from, NEW to, NEW more \in Reads(Q, from, to),
         Fails(in, more)
  PROVE  Fails(in, ProductOf(first, more))
PROOF
  <1>1. CASE ProductOf(first, more) = Refused
    BY <1>1 DEF Fails
  <1>2. CASE ProductOf(first, more) # Refused
    <2>1. PICK y : y = <<first>> \o [i \in DOMAIN more.read |-> more.read[i].item]
      OBVIOUS
    <2>2. more # Refused /\ ProductOf(first, more) = [more EXCEPT !.read = y]
      BY <1>2, <2>1 DEF ProductOf
    <2>3. more = [read |-> more.read, at |-> more.at]
      BY <2>2 DEF Reads
    <2>4. [more EXCEPT !.read = y].at = more.at
      BY <2>3
    <2>. QED
      BY <2>2, <2>4 DEF Fails
  <1>. QED
    BY <1>1, <1>2

\* So with an expression.
LEMMA ExprFails ==
  ASSUME NEW in, NEW first, NEW Q, NEW from, NEW to, NEW more \in Reads(Q, from, to),
         Fails(in, more)
  PROVE  Fails(in, ExprOf(first, more))
PROOF
  <1>1. CASE ExprOf(first, more) = Refused
    BY <1>1 DEF Fails
  <1>2. CASE ExprOf(first, more) # Refused
    <2>1. PICK y : y = AllOf(first, more.read)
      OBVIOUS
    <2>2. more # Refused /\ ExprOf(first, more) = [more EXCEPT !.read = y]
      BY <1>2, <2>1 DEF ExprOf
    <2>3. more = [read |-> more.read, at |-> more.at]
      BY <2>2 DEF Reads
    <2>4. [more EXCEPT !.read = y].at = more.at
      BY <2>3
    <2>. QED
      BY <2>2, <2>4 DEF Fails
  <1>. QED
    BY <1>1, <1>2

\* The product that begins at a piece is read up to its end, or fails.
ProductRead(in, N, G, o, t, x, k, r) ==
  \/ \E j \in k..N : \E y \in ProductsOf(Terms) :
       /\ IsRun(N, G, o, k, j)
       /\ Len(y) = j - k + 1 /\ \A i \in 1..j - k + 1 : y[i] = x[k - 1 + i]
       /\ r = [read |-> y, at |-> t[j]]
  \/ ~Fits(N, G) /\ Fails(in, r)

\* It holds at every piece.
LEMMA ProductLine ==
  ASSUME NEW in, NEW N, NEW G, NEW o, NEW s, NEW t, NEW x, IsLine(in, N, G, o, s, t, x),
         NEW k \in 1..N
  PROVE  ProductRead(in, N, G, o, t, x, k, Product(in, s[k]))
PROOF
  <1>1. in \in Seq(Token) /\ N \in Nat \ {0} /\ G \subseteq 1..N /\ s[k] \in 1..Len(in) + 1
    BY DEF IsLine
  <1>2. PICK n \in Nat : n = Len(in) + 1
    BY <1>1, LenProperties
  <1>3. PICK first : first = Term(in, s[k])
    OBVIOUS
  <1>4. Product(in, s[k]) = ProductFrom(in, first)
    BY <1>3 DEF Product
  <1>5. first \in Reads(Terms, s[k] + 1, n)
    BY <1>1, <1>2, <1>3, TermReads
  <1>6. PICK g : /\ IsList(g, in, Star, Terms, TermItems(in))
                 /\ \A p \in 1..n : Many(in, p, Star, TermItems(in)) = g[p]
    BY <1>1, <1>2, TermItemsRead DEF HasList
  <1>7. ASSUME first # Refused, NEW p \in 1..n, p = first.at
        PROVE  /\ ProductFrom(in, first) = ProductOf(first.read, g[p])
               /\ g[p] \in Reads(Seq(Link(Star, Terms)), p, n)
    <2>1. ProductFrom(in, first) = ProductOf(first.read, Many(in, first.at, Star, TermItems(in)))
      BY <1>7 DEF ProductFrom, Star, TermItems
    <2>. QED
      BY <1>2, <1>6, <1>7, <2>1 DEF IsList
  <1>8. CASE k \notin G
    <2>1. Fails(in, first)
      BY <1>3, <1>8 DEF IsLine
    <2>2. Fails(in, Product(in, s[k]))
      <3>1. CASE first = Refused
        BY <1>4, <3>1 DEF ProductFrom, Fails
      <3>2. CASE first # Refused
        <4>1. PICK p \in 1..n : p = first.at
          <5>1. first.at \in s[k] + 1..n
            BY <1>5, <3>2 DEF Reads
          <5>. QED
            BY <1>1, <1>2, <5>1
        <4>2. Stuck(in, p)
          BY <2>1, <3>2, <4>1 DEF Fails
        <4>3. OpAt(in, p) \notin Star
          BY <4>2 DEF Stuck, Ops, Star
        <4>4. g[p] = [read |-> <<>>, at |-> p]
          BY <1>2, <1>6, <4>3, ListEnds
        <4>5. Fails(in, g[p])
          BY <4>2, <4>4 DEF Fails
        <4>6. Fails(in, ProductOf(first.read, g[p]))
          BY <1>7, <3>2, <4>1, <4>5, ProductFails
        <4>. QED
          BY <1>4, <1>7, <3>2, <4>1, <4>6
      <3>. QED
        BY <3>1, <3>2
    <2>3. ~Fits(N, G)
      BY <1>8 DEF Fits
    <2>. QED
      BY <2>2, <2>3 DEF ProductRead
  <1>9. CASE k \in G
    <2>1. /\ first = [read |-> x[k], at |-> t[k]] /\ x[k] \in Terms /\ t[k] \in 1..n
      BY <1>2, <1>3, <1>9 DEF IsLine
    <2>2. first # Refused /\ first.read = x[k] /\ first.at = t[k]
      <3>1. t[k] \in Nat
        BY <1>2, <2>1
      <3>. QED
        BY <2>1, <3>1, ValuesAreRead DEF Values
    <2>3. PICK p \in 1..n : p = t[k]
      BY <2>1
    <2>4. PICK more : more = g[p]
      OBVIOUS
    <2>5. /\ Product(in, s[k]) = ProductOf(x[k], more)
          /\ more \in Reads(Seq(Link(Star, Terms)), p, n)
      BY <1>4, <1>7, <2>2, <2>3, <2>4
    <2>6. TimesRead(in, N, G, o, t, x, k, more)
      <3>1. TimesRead(in, N, G, o, t, x, k, Many(in, t[k], Star, TermItems(in)))
        BY <1>9, TimesLine
      <3>. QED
        BY <1>6, <2>3, <2>4, <3>1
    <2>7. CASE G # 1..N /\ Fails(in, more)
      <3>1. Fails(in, Product(in, s[k]))
        BY <2>5, <2>7, ProductFails
      <3>. QED
        BY <2>7, <3>1 DEF ProductRead, Fits
    <2>8. ASSUME NEW j \in k..N, NEW l \in Seq(Link(Star, Terms)),
                 IsRun(N, G, o, k, j),
                 Len(l) = j - k, \A i \in 1..j - k : l[i].item = x[k + i],
                 more = [read |-> l, at |-> t[j]]
          PROVE  ProductRead(in, N, G, o, t, x, k, Product(in, s[k]))
      <3>1. PICK m \in Nat : m = j - k /\ DOMAIN l = 1..m /\ Len(l) = m
        BY <1>1, <2>8, LenProperties
      <3>2. more.read = l /\ more.at = t[j]
        BY <2>8
      <3>3. more # Refused
        <4>1. j \in G
          BY <1>1, <2>8 DEF IsRun
        <4>2. t[j] \in Nat
          <5>1. t[j] \in 1..n
            BY <1>2, <4>1 DEF IsLine
          <5>. QED
            BY <5>1
        <4>. QED
          BY <2>8, <4>2, ValuesAreRead DEF Values, Star
      <3>4. CASE m + 1 > MaxTerms
        <4>1. ProductOf(x[k], more) = Refused
          BY <3>1, <3>2, <3>4 DEF ProductOf
        <4>2. ~(N <= MaxTerms)
          BY <1>1, <3>1, <3>4, ParseAssumption
        <4>. QED
          BY <2>5, <4>1, <4>2 DEF ProductRead, Fits, Fails
      <3>5. CASE ~(m + 1 > MaxTerms)
        <4>1. PICK q : q = [i \in DOMAIN l |-> l[i].item]
          OBVIOUS
        <4>2. q = [i \in 1..m |-> x[k + i]]
          BY <2>8, <3>1, <4>1
        <4>3. \A i \in 1..m : x[k + i] \in Terms
          <5>. TAKE i \in 1..m
          <5>1. k + i \in k..j
            BY <1>1, <3>1
          <5>2. k + i \in G
            BY <2>8, <5>1 DEF IsRun
          <5>. QED
            BY <5>2 DEF IsLine
        <4>4. q \in Seq(Terms) /\ Len(q) = m /\ \A i \in 1..m : q[i] = x[k + i]
          BY <4>2, <4>3
        <4>5. PICK y : y = <<x[k]>> \o q
          OBVIOUS
        <4>6. /\ y \in Seq(Terms) /\ Len(y) = m + 1 /\ y[1] = x[k]
              /\ \A i \in 1..m : y[i + 1] = q[i]
          BY <2>1, <4>4, <4>5, InFront
        <4>7. ProductOf(x[k], more) = [more EXCEPT !.read = y]
          BY <3>1, <3>2, <3>3, <3>5, <4>1, <4>5 DEF ProductOf
        <4>8. [more EXCEPT !.read = y] = [read |-> y, at |-> t[j]]
          BY <2>8
        <4>9. y \in ProductsOf(Terms)
          BY <3>1, <3>5, <4>6, ParseAssumption DEF ProductsOf
        <4>10. \A i \in 1..m + 1 : y[i] = x[k - 1 + i]
          <5>. TAKE i \in 1..m + 1
          <5>1. CASE i = 1
            <6>1. k - 1 + i = k
              BY <5>1
            <6>. QED
              BY <4>6, <5>1, <6>1
          <5>2. CASE i # 1
            <6>1. PICK h \in 1..m : h = i - 1 /\ h + 1 = i /\ k + h = k - 1 + i
              <7>1. i - 1 \in 1..m /\ i - 1 + 1 = i /\ k + (i - 1) = k - 1 + i
                BY <5>2
              <7>. QED
                BY <7>1
            <6>. QED
              BY <4>4, <4>6, <6>1
          <5>. QED
            BY <5>1, <5>2
        <4>11. m + 1 = j - k + 1
          BY <3>1
        <4>. QED
          BY <2>5, <2>8, <4>6, <4>7, <4>8, <4>9, <4>10, <4>11 DEF ProductRead
      <3>. QED
        BY <3>4, <3>5
    <2>. QED
      BY <2>6, <2>7, <2>8 DEF TimesRead
  <1>. QED
    BY <1>8, <1>9

PlusMinus == {"+", "-"}

ProductsAt(in) == [q \in 1..Len(in) + 1 |-> Product(in, q)]

\* The products are items of a list, too.
LEMMA ProductsAtRead ==
  ASSUME NEW in \in Seq(Token)
  PROVE  HasList(in, PlusMinus, ProductsOf(Terms), ProductsAt(in))
PROOF
  <1>1. ReadsItems(in, ProductsAt(in), ProductsOf(Terms))
    BY ProductReads DEF ReadsItems, ProductsAt
  <1>2. PlusMinus \subseteq Ops
    BY Zenon DEF Ops, PlusMinus
  <1>3. Values(ProductsOf(Terms)) /\ Values(Seq(Link(PlusMinus, ProductsOf(Terms))))
    BY ValuesAreRead DEF PlusMinus
  <1>4. AreItems(in, PlusMinus, ProductsOf(Terms), ProductsAt(in))
    BY <1>1, <1>2, <1>3 DEF AreItems
  <1>. QED
    BY <1>4, ListExists

\* The terms of a product stand for the pieces of its run.
LEMMA RunIsLaidOut ==
  ASSUME NEW N \in Nat, NEW G, NEW o, NEW x, NEW k \in 1..N, NEW j \in k..N,
         IsRun(N, G, o, k, j), NEW y \in ProductsOf(Terms),
         Len(y) = j - k + 1, \A i \in 1..j - k + 1 : y[i] = x[k - 1 + i]
  PROVE  StandsFor([op |-> o[k], item |-> y], k - 1, j, o, x)
PROOF
  <1>1. PICK link : link = [op |-> o[k], item |-> y]
    OBVIOUS
  <1>2. link.op = o[k] /\ link.item = y
    BY <1>1
  <1>3. PICK m \in Nat : m = j - k + 1 /\ k - 1 + m = j
    <2>1. j - k + 1 \in Nat /\ k - 1 + (j - k + 1) = j
      OBVIOUS
    <2>. QED
      BY <2>1
  <1>4. ASSUME NEW r \in 1..m
        PROVE  o[k - 1 + r] = IF r = 1 THEN o[k] ELSE "*"
    <2>1. CASE r = 1
      <3>1. k - 1 + r = k
        BY <2>1
      <3>. QED
        BY <2>1, <3>1
    <2>2. CASE r # 1
      <3>1. k - 1 + r \in k + 1..j
        BY <1>3, <2>2
      <3>. QED
        BY <2>2, <3>1 DEF IsRun
    <2>. QED
      BY <2>1, <2>2
  <1>5. /\ j = k - 1 + Len(link.item)
        /\ \A r \in 1..Len(link.item) : link.item[r] = x[k - 1 + r]
        /\ \A r \in 1..Len(link.item) : o[k - 1 + r] = IF r = 1 THEN link.op ELSE "*"
    BY <1>2, <1>3, <1>4
  <1>. QED
    BY <1>1, <1>5 DEF StandsFor

\* What is behind a product is read up to the end of the input, or fails.
PlusRead(in, N, G, o, t, x, j, r) ==
  \/ \E l \in Seq(Products) :
       /\ LaysOut(l, j, N, o, x)
       /\ \A i \in j + 1..N : i \in G
       /\ N \in G
       /\ r = [read |-> l, at |-> t[N]]
  \/ ~Fits(N, G) /\ Fails(in, r)

\* It holds where a product ends.
LEMMA PlusLine ==
  ASSUME NEW in, NEW N, NEW G, NEW o, NEW s, NEW t, NEW x, IsLine(in, N, G, o, s, t, x),
         NEW k \in G, o[k + 1] # "*"
  PROVE  PlusRead(in, N, G, o, t, x, k, Many(in, t[k], PlusMinus, ProductsAt(in)))
PROOF
  <1>1. /\ in \in Seq(Token) /\ N \in Nat \ {0} /\ G \subseteq 1..N
        /\ o[N + 1] = "end" /\ \A i \in 1..N : o[i] \in Ops
    BY DEF IsLine
  <1>2. PICK I : I = ProductsOf(Terms)
    OBVIOUS
  <1>3. PICK g : /\ IsList(g, in, PlusMinus, I, ProductsAt(in))
                 /\ \A p \in 1..Len(in) + 1 : Many(in, p, PlusMinus, ProductsAt(in)) = g[p]
    BY <1>1, <1>2, ProductsAtRead DEF HasList
  <1>4. Products = Link(PlusMinus, I)
    BY <1>2 DEF Products, PlusMinus
  <1>. DEFINE T == {i \in 1..N : i \in G /\ o[i + 1] # "*"
                                   => PlusRead(in, N, G, o, t, x, i, g[t[i]])}
  <1>5. ASSUME NEW i \in 1..N, \A j \in i + 1..N : j \in T
        PROVE  i \in T
    <2>. SUFFICES ASSUME i \in G, o[i + 1] # "*"
                  PROVE  PlusRead(in, N, G, o, t, x, i, g[t[i]])
      OBVIOUS
    <2>1. PICK p \in 1..Len(in) + 1 : p = t[i] /\ OpAt(in, p) = o[i + 1]
      BY DEF IsLine
    <2>2. CASE o[i + 1] = "end"
      <3>1. i = N
        <4>1. i + 1 \notin 1..N
          BY <1>1, <2>2, Zenon DEF Ops
        <4>. QED
          BY <1>1, <4>1
      <3>2. OpAt(in, p) \notin PlusMinus
        BY <2>1, <2>2, Zenon DEF PlusMinus
      <3>3. g[p] = [read |-> <<>>, at |-> p]
        BY <1>3, <3>2, ListEnds
      <3>4. <<>> \in Seq(Products) /\ LaysOut(<<>>, i, N, o, x) /\ i + 1..N = {}
        BY <1>1, <3>1, EmptySeq, NothingLaidOut
      <3>. QED
        BY <2>1, <3>1, <3>3, <3>4 DEF PlusRead
    <2>3. CASE o[i + 1] # "end"
      <3>1. i # N
        BY <1>1, <2>3
      <3>2. PICK n \in i + 1..N : n = i + 1
        BY <1>1, <3>1
      <3>3. n \in 1..N /\ i = n - 1 /\ o[n] \in PlusMinus /\ OpAt(in, p) = o[n]
        <4>1. n \in 1..N /\ i = n - 1
          BY <1>1, <3>2
        <4>2. o[n] \in Ops /\ o[n] # "*"
          BY <1>1, <3>2, <4>1
        <4>. QED
          BY <2>1, <3>2, <4>1, <4>2, Zenon DEF Ops, PlusMinus
      <3>4. PICK item : item = Product(in, s[n])
        OBVIOUS
      <3>5. ItemAt(in, ProductsAt(in), p) = item
        <4>1. ItemAt(in, ProductsAt(in), p) = ProductsAt(in)[s[n]]
          BY <2>1, <3>1, <3>2 DEF IsLine
        <4>2. s[n] \in 1..Len(in) + 1
          BY <3>3 DEF IsLine
        <4>. QED
          BY <3>4, <4>1, <4>2 DEF ProductsAt
      <3>6. ProductRead(in, N, G, o, t, x, n, item)
        BY <3>3, <3>4, ProductLine
      <3>7. CASE ~Fits(N, G) /\ Fails(in, item)
        <4>1. Fails(in, g[p])
          BY <1>3, <3>3, <3>5, <3>7, ListFails
        <4>. QED
          BY <2>1, <3>7, <4>1 DEF PlusRead
      <3>8. ASSUME NEW j \in n..N, NEW y \in I, IsRun(N, G, o, n, j),
                   Len(y) = j - n + 1, \A h \in 1..j - n + 1 : y[h] = x[n - 1 + h],
                   item = [read |-> y, at |-> t[j]]
            PROVE  PlusRead(in, N, G, o, t, x, i, g[t[i]])
        <4>1. j \in i + 1..N /\ j \in 1..N /\ j \in T
          BY <1>1, <1>5, <3>2
        <4>2. j \in G /\ o[j + 1] # "*" /\ t[j] \in 1..Len(in) + 1
          <5>1. j \in n..j
            BY <1>1, <3>3
          <5>2. j \in G /\ o[j + 1] # "*"
            BY <3>8, <5>1 DEF IsRun
          <5>. QED
            BY <5>2 DEF IsLine
        <4>3. PlusRead(in, N, G, o, t, x, j, g[t[j]])
          BY <4>1, <4>2
        <4>4. GoesOn(in, PlusMinus, I, o[n], y, g[p], g[t[j]])
          <5>1. ItemAt(in, ProductsAt(in), p) = [read |-> y, at |-> t[j]]
            BY <3>5, <3>8
          <5>2. GoesOn(in, PlusMinus, I, OpAt(in, p), y, g[p], g[t[j]])
            BY <1>3, <3>3, <4>2, <5>1, ListGoesOn
          <5>. QED
            BY <3>3, <5>2
        <4>5. CASE ~Fits(N, G) /\ Fails(in, g[t[j]])
          BY <2>1, <4>4, <4>5 DEF PlusRead, GoesOn
        <4>6. ASSUME NEW l \in Seq(Products), LaysOut(l, j, N, o, x),
                     \A h \in j + 1..N : h \in G, N \in G,
                     g[t[j]] = [read |-> l, at |-> t[N]]
              PROVE  PlusRead(in, N, G, o, t, x, i, g[t[i]])
          <5>1. PICK link : link = [op |-> o[n], item |-> y]
            OBVIOUS
          <5>2. link \in Products
            BY <1>4, <3>3, <5>1 DEF Link
          <5>3. PICK w : w = <<link>> \o l
            OBVIOUS
          <5>4. StandsFor(link, i, j, o, x)
            BY <1>1, <1>2, <3>3, <3>8, <5>1, RunIsLaidOut
          <5>5. i \in Nat /\ j \in Nat
            BY <1>1, <4>1
          <5>6. LaysOut(w, i, N, o, x)
            BY <4>6, <5>2, <5>3, <5>4, <5>5, LaidInFront
          <5>7. w \in Seq(Products)
            <6>1. PICK m \in Nat : m = Len(l)
              BY LenProperties
            <6>. QED
              BY <5>2, <5>3, <6>1, InFront
          <5>8. t[N] \in Nat
            <6>1. t[N] \in 1..Len(in) + 1
              BY <4>6 DEF IsLine
            <6>. QED
              BY <1>1, <6>1, LenProperties
          <5>9. g[p] = [read |-> w, at |-> t[N]]
            BY <1>4, <4>4, <4>6, <5>1, <5>3, <5>8 DEF GoesOn
          <5>10. \A h \in i + 1..N : h \in G
            <6>. TAKE h \in i + 1..N
            <6>1. h \in n..j \/ h \in j + 1..N
              BY <1>1, <3>2, <4>1
            <6>. QED
              BY <3>8, <4>6, <6>1 DEF IsRun
          <5>. QED
            BY <2>1, <4>6, <5>6, <5>7, <5>9, <5>10 DEF PlusRead
        <4>. QED
          BY <4>3, <4>5, <4>6 DEF PlusRead
      <3>. QED
        BY <1>2, <3>6, <3>7, <3>8 DEF ProductRead
    <2>. QED
      BY <2>2, <2>3
  <1>6. k \in T
    <2>1. k \in 1..N /\ N \in Nat
      BY <1>1
    <2>. HIDE DEF T
    <2>. QED
      BY <1>5, <2>1, CountingDown
  <1>7. t[k] \in 1..Len(in) + 1
    BY DEF IsLine
  <1>. QED
    BY <1>3, <1>6, <1>7

------------------------------------------------------------------------------
(* The whole input. *)

\* What is left over behind a term that is stuck is refused.
LEMMA WholeFails ==
  ASSUME NEW in \in Seq(Token), NEW r, Fails(in, r)
  PROVE  Whole(in, r) = Refused
PROOF
  <1>1. CASE r = Refused
    BY <1>1 DEF Whole
  <1>2. CASE r # Refused
    <2>1. PICK q : q = AfterBlanks(in, r.at)
      OBVIOUS
    <2>2. TokenAt(in, q) # "end"
      BY <1>2, <2>1 DEF Fails, Stuck, OpAt
    <2>3. q \in DOMAIN in
      BY <2>2 DEF TokenAt
    <2>4. q \in 1..Len(in)
      BY <2>3, LenProperties
    <2>5. q <= Len(in)
      BY <2>4
    <2>. QED
      BY <2>1, <2>5 DEF Whole
  <1>. QED
    BY <1>1, <1>2

\* An expression is not taken for a refusal.
LEMMA ExprIsValue ==
  ASSUME NEW e \in Seq(Products)
  PROVE  e # Refused
PROOF
  <1>1. TermOrConst \cup ProductItems \subseteq TermOrConst \cup ProductItems
    OBVIOUS
  <1>2. Terms \subseteq TermOrConst
    BY DEF Terms, SaneTerms, TermOrConst
  <1>3. ProductsOf(Terms) \subseteq ProductItems
    BY <1>2, SeqMonotonic DEF ProductsOf, ProductItems
  <1>4. PICK S : S = [op : {"+", "-", "*"}, item : TermOrConst \cup ProductItems]
    OBVIOUS
  <1>5. Products \subseteq S
    BY <1>3, <1>4 DEF Products, Link
  <1>6. e \in Seq(S)
    BY <1>5, SeqMonotonic
  <1>7. e \in ExprItems
    BY <1>4, <1>6 DEF ExprItems
  <1>. QED
    BY <1>7, ReadingAssumption

\* The whole input is accepted exactly if all its pieces are terms, and not too many.
LEMMA LineIsParsed ==
  ASSUME NEW in, NEW N, NEW G, NEW o, NEW s, NEW t, NEW x, IsLine(in, N, G, o, s, t, x),
         s[1] = AfterBlanks(in, 1), N \in G => AfterBlanks(in, t[N]) = Len(in) + 1
  PROVE  /\ ~Fits(N, G) => Parse(in) = Refused
         /\ Fits(N, G) =>
              /\ Parse(in) # Refused
              /\ Flat(Parse(in)) = [i \in 1..N |-> [op |-> o[i], term |-> x[i]]]
PROOF
  <1>1. /\ in \in Seq(Token) /\ N \in Nat \ {0} /\ G \subseteq 1..N
        /\ o[1] = "+" /\ \A i \in 1..N : o[i] \in Ops
        /\ \A i \in G : x[i] \in Terms
    BY DEF IsLine
  <1>2. PICK n \in Nat : n = Len(in) + 1
    BY <1>1, LenProperties
  <1>3. PICK first : first = Product(in, s[1])
    OBVIOUS
  <1>4. 1 \in 1..N /\ s[1] \in 1..n
    <2>1. 1 \in 1..N
      BY <1>1
    <2>. QED
      BY <1>2, <2>1 DEF IsLine
  <1>5. Parse(in) = Whole(in, ExprFrom(in, first))
    BY <1>3 DEF Parse, Expr
  <1>6. first \in Reads(ProductsOf(Terms), s[1] + 1, n)
    BY <1>1, <1>2, <1>3, <1>4, ProductReads
  <1>7. PICK g : /\ IsList(g, in, PlusMinus, ProductsOf(Terms), ProductsAt(in))
                 /\ \A p \in 1..n : Many(in, p, PlusMinus, ProductsAt(in)) = g[p]
    BY <1>1, <1>2, ProductsAtRead DEF HasList
  <1>8. ASSUME first # Refused, NEW p \in 1..n, p = first.at
        PROVE  /\ ExprFrom(in, first) = ExprOf(first.read, g[p])
               /\ g[p] \in Reads(Seq(Products), p, n)
    <2>1. ExprFrom(in, first) =
            ExprOf(first.read, Many(in, first.at, PlusMinus, ProductsAt(in)))
      BY <1>8 DEF ExprFrom, PlusMinus, ProductsAt
    <2>. QED
      BY <1>2, <1>7, <1>8, <2>1 DEF IsList, Products, PlusMinus
  <1>9. ProductRead(in, N, G, o, t, x, 1, first)
    BY <1>3, <1>4, ProductLine
  <1>10. CASE ~Fits(N, G) /\ Fails(in, first)
    <2>1. CASE first = Refused
      BY <1>5, <1>10, <2>1 DEF ExprFrom, Whole
    <2>2. CASE first # Refused
      <3>1. PICK p \in 1..n : p = first.at
        <4>1. first.at \in s[1] + 1..n
          BY <1>6, <2>2 DEF Reads
        <4>. QED
          BY <1>4, <4>1
      <3>2. Stuck(in, p)
        BY <1>10, <2>2, <3>1 DEF Fails
      <3>3. OpAt(in, p) \notin PlusMinus
        BY <3>2, Zenon DEF Stuck, Ops, PlusMinus
      <3>4. g[p] = [read |-> <<>>, at |-> p]
        BY <1>2, <1>7, <3>3, ListEnds
      <3>5. Fails(in, g[p])
        BY <3>2, <3>4 DEF Fails
      <3>6. Fails(in, ExprFrom(in, first))
        BY <1>8, <2>2, <3>1, <3>5, ExprFails
      <3>. QED
        BY <1>1, <1>5, <1>10, <3>6, WholeFails
    <2>. QED
      BY <2>1, <2>2
  <1>11. ASSUME NEW j \in 1..N, NEW y \in ProductsOf(Terms), IsRun(N, G, o, 1, j),
                Len(y) = j - 1 + 1, \A i \in 1..j - 1 + 1 : y[i] = x[1 - 1 + i],
                first = [read |-> y, at |-> t[j]]
         PROVE  /\ ~Fits(N, G) => Parse(in) = Refused
                /\ Fits(N, G) =>
                     /\ Parse(in) # Refused
                     /\ Flat(Parse(in)) = [i \in 1..N |-> [op |-> o[i], term |-> x[i]]]
    <2>1. j \in G /\ o[j + 1] # "*" /\ t[j] \in 1..n
      <3>1. j \in 1..j
        BY <1>1
      <3>2. j \in G /\ o[j + 1] # "*"
        BY <1>11, <3>1 DEF IsRun
      <3>. QED
        BY <1>2, <3>2 DEF IsLine
    <2>2. first # Refused /\ first.read = y /\ first.at = t[j]
      <3>1. t[j] \in Nat
        BY <2>1
      <3>. QED
        BY <1>11, <3>1, ValuesAreRead DEF Values
    <2>3. PICK p \in 1..n : p = t[j]
      BY <2>1
    <2>4. PICK more : more = g[p]
      OBVIOUS
    <2>5. ExprFrom(in, first) = ExprOf(y, more) /\ more \in Reads(Seq(Products), p, n)
      BY <1>8, <2>2, <2>3, <2>4
    <2>6. PlusRead(in, N, G, o, t, x, j, more)
      <3>1. PlusRead(in, N, G, o, t, x, j, Many(in, t[j], PlusMinus, ProductsAt(in)))
        BY <2>1, PlusLine
      <3>. QED
        BY <1>7, <2>3, <2>4, <3>1
    <2>7. CASE ~Fits(N, G) /\ Fails(in, more)
      <3>1. Fails(in, ExprFrom(in, first))
        BY <2>5, <2>7, ExprFails
      <3>. QED
        BY <1>1, <1>5, <2>7, <3>1, WholeFails
    <2>8. ASSUME NEW l \in Seq(Products), LaysOut(l, j, N, o, x),
                 \A i \in j + 1..N : i \in G, N \in G,
                 more = [read |-> l, at |-> t[N]]
          PROVE  /\ ~Fits(N, G) => Parse(in) = Refused
                 /\ Fits(N, G) =>
                      /\ Parse(in) # Refused
                      /\ Flat(Parse(in)) = [i \in 1..N |-> [op |-> o[i], term |-> x[i]]]
      <3>1. G = 1..N
        <4>1. ASSUME NEW i \in 1..N PROVE i \in G
          <5>1. i \in 1..j \/ i \in j + 1..N
            BY <1>1
          <5>. QED
            BY <1>11, <2>8, <5>1 DEF IsRun
        <4>. QED
          BY <1>1, <4>1
      <3>2. more.read = l /\ more.at = t[N] /\ more # Refused
        <4>1. t[N] \in Nat
          <5>1. t[N] \in 1..n
            BY <1>2, <2>8 DEF IsLine
          <5>. QED
            BY <5>1
        <4>2. Values(Seq(Products))
          BY ValuesAreRead DEF Products
        <4>. QED
          BY <2>8, <4>1, <4>2 DEF Values
      <3>3. PICK link : link = [op |-> o[1], item |-> y]
        OBVIOUS
      <3>4. link \in Products
        BY <1>1, <3>3, <1>11 DEF Products, Link
      <3>5. PICK e : e = <<link>> \o l
        OBVIOUS
      <3>6. AllOf(y, l) = e
        BY <1>1, <3>3, <3>5 DEF AllOf
      <3>7. e \in Seq(Products) /\ e # <<>>
        <4>1. PICK m \in Nat : m = Len(l)
          BY LenProperties
        <4>2. e \in Seq(Products) /\ Len(e) = m + 1
          BY <3>4, <3>5, <4>1, InFront
        <4>. QED
          BY <4>2, EmptySeq
      <3>8. LaysOut(e, 0, N, o, x)
        <4>1. StandsFor(link, 0, j, o, x)
          <5>1. StandsFor(link, 1 - 1, j, o, x)
            BY <1>1, <1>4, <1>11, <3>3, RunIsLaidOut
          <5>. QED
            BY <5>1
        <4>2. j \in Nat /\ 0 \in Nat
          BY <1>1
        <4>. QED
          BY <2>8, <3>4, <3>5, <4>1, <4>2, LaidInFront
      <3>9. TermCount(e) = N
        BY <1>1, <3>8, LaidOutIsCounted
      <3>10. CASE N > MaxTerms
        <4>1. ExprFrom(in, first) = Refused
          BY <2>5, <3>2, <3>6, <3>9, <3>10 DEF ExprOf
        <4>2. ~Fits(N, G)
          BY <1>1, <3>10, ParseAssumption DEF Fits
        <4>. QED
          BY <1>5, <4>1, <4>2 DEF Whole
      <3>11. CASE ~(N > MaxTerms)
        <4>1. Fits(N, G)
          BY <1>1, <3>1, <3>11, ParseAssumption DEF Fits
        <4>2. ExprFrom(in, first) = [more EXCEPT !.read = e]
          BY <2>5, <3>2, <3>6, <3>9, <3>11 DEF ExprOf
        <4>3. [more EXCEPT !.read = e] = [read |-> e, at |-> t[N]]
          BY <2>8
        <4>4. PICK r : r = [read |-> e, at |-> t[N]]
          OBVIOUS
        <4>5. r.read = e /\ r.at = t[N] /\ r # Refused
          <5>1. t[N] \in Nat
            <6>1. t[N] \in 1..n
              BY <1>2, <2>8 DEF IsLine
            <6>. QED
              BY <6>1
          <5>2. Values(Seq(Products))
            BY ValuesAreRead DEF Products
          <5>. QED
            BY <3>7, <4>4, <5>1, <5>2 DEF Values
        <4>6. ~(AfterBlanks(in, r.at) <= Len(in))
          <5>1. AfterBlanks(in, r.at) = Len(in) + 1
            BY <2>8, <4>5
          <5>2. Len(in) \in Nat
            BY <1>1, LenProperties
          <5>. QED
            BY <5>1, <5>2
        <4>7. Parse(in) = e
          BY <1>5, <4>2, <4>3, <4>4, <4>5, <4>6 DEF Whole
        <4>8. e # Refused
          BY <3>7, ExprIsValue
        <4>9. Flat(e) = [i \in 1..N |-> [op |-> o[i], term |-> x[i]]]
          BY <1>1, <3>1, <3>7, <3>8, LaidOutIsFlat
        <4>. QED
          BY <4>1, <4>7, <4>8, <4>9
      <3>. QED
        BY <3>10, <3>11
    <2>. QED
      BY <2>6, <2>7, <2>8 DEF PlusRead
  <1>. QED
    BY <1>9, <1>10, <1>11 DEF ProductRead

\* What belongs to the pieces between the cuts c.
AreCutOut(in, c, m, N, G, text, o, s, t, x) ==
  /\ in \in Seq(Token) /\ m \in Nat /\ AreCuts(in, c, m) /\ N = m + 1
  /\ \A i \in 1..N : text[i] = Piece(in, c[i - 1], c[i])
  /\ o = [i \in 1..N + 1 |-> IF i = 1 THEN "+" ELSE TokenAt(in, c[i - 1])]
  /\ s = [i \in 1..N |-> AfterBlanks(in, c[i - 1] + 1)]
  /\ t = [i \in 1..N |-> Term(in, s[i]).at]
  /\ x = [i \in 1..N |-> Term(text[i], 1).read]
  /\ G = {i \in 1..N : IsTermText(text[i])}

\* It is such a line.
LEMMA CutsAreLine ==
  ASSUME NEW in, NEW c, NEW m, NEW N, NEW G, NEW text, NEW o, NEW s, NEW t, NEW x,
         AreCutOut(in, c, m, N, G, text, o, s, t, x)
  PROVE  /\ IsLine(in, N, G, o, s, t, x)
         /\ s[1] = AfterBlanks(in, 1)
         /\ N \in G => AfterBlanks(in, t[N]) = Len(in) + 1
PROOF
  <1>. /\ in \in Seq(Token) /\ m \in Nat /\ AreCuts(in, c, m) /\ N = m + 1
       /\ \A i \in 1..N : text[i] = Piece(in, c[i - 1], c[i])
       /\ o = [i \in 1..N + 1 |-> IF i = 1 THEN "+" ELSE TokenAt(in, c[i - 1])]
       /\ s = [i \in 1..N |-> AfterBlanks(in, c[i - 1] + 1)]
       /\ t = [i \in 1..N |-> Term(in, s[i]).at]
       /\ x = [i \in 1..N |-> Term(text[i], 1).read]
       /\ G = {i \in 1..N : IsTermText(text[i])}
    BY DEF AreCutOut
  <1>1. PICK n \in Nat : n = Len(in) /\ DOMAIN in = 1..n
    BY LenProperties
  <1>2. /\ c \in [0..N -> 0..n + 1]
        /\ c[0] = 0 /\ c[N] = n + 1
        /\ \A k \in 1..m : c[k] \in 1..n /\ TokenAt(in, c[k]) \in Ops
        /\ \A k \in 0..m : /\ c[k] < c[k + 1]
                           /\ \A q \in c[k] + 1..c[k + 1] - 1 : TokenAt(in, q) \notin Ops
    BY <1>1 DEF AreCuts
  <1>3. N \in Nat \ {0}
    OBVIOUS
  <1>4. TokenAt(in, n + 1) = "end"
    <2>1. n + 1 \notin DOMAIN in
      BY <1>1
    <2>. QED
      BY <2>1 DEF TokenAt
  <1>5. \A k \in 1..N : k \in 1..m \/ k = N
    OBVIOUS
  <1>6. ASSUME NEW k \in 1..N
        PROVE  IsGap(in, c[k - 1], c[k]) /\ c[k] \in 1..n + 1
    <2>1. PICK h \in 0..m : h = k - 1 /\ h + 1 = k
      <3>1. k - 1 \in 0..m /\ k - 1 + 1 = k
        OBVIOUS
      <3>. QED
        BY <3>1
    <2>2. PICK a \in 0..n + 1, b \in 0..n + 1 : a = c[h] /\ b = c[k] /\ a < b
      <3>1. h \in 0..N /\ k \in 0..N
        OBVIOUS
      <3>. QED
        BY <1>2, <2>1, <3>1
    <2>3. a \in 0..n /\ b \in a + 1..n + 1 /\ b \in 1..n + 1
      BY <2>2
    <2>4. \A q \in a + 1..b - 1 : TokenAt(in, q) \notin Ops
      BY <1>2, <2>1, <2>2
    <2>5. TokenAt(in, b) \in Ops \/ TokenAt(in, b) = "end"
      BY <1>2, <1>4, <1>5, <2>2
    <2>6. IsGap(in, a, b)
      BY <1>1, <2>3, <2>4, <2>5 DEF IsGap
    <2>. QED
      BY <2>1, <2>2, <2>3, <2>6
  <1>7. ASSUME NEW k \in 1..N
        PROVE  /\ s[k] \in 1..n + 1
               /\ k \in G => /\ x[k] \in Terms /\ t[k] \in 1..n + 1
                             /\ Term(in, s[k]) = [read |-> x[k], at |-> t[k]]
                             /\ AfterBlanks(in, t[k]) = c[k]
               /\ k \notin G => Fails(in, Term(in, s[k]))
    <2>1. PICK a, b : a = c[k - 1] /\ b = c[k] /\ IsGap(in, a, b)
      BY <1>6
    <2>2. s[k] = AfterBlanks(in, a + 1) /\ text[k] = Piece(in, a, b)
      BY <2>1
    <2>3. /\ s[k] \in 1..n + 1
          /\ IsTermText(text[k]) => \E at \in 1..n + 1 :
               /\ Term(in, s[k]) = [read |-> Term(text[k], 1).read, at |-> at]
               /\ Term(text[k], 1).read \in Terms
               /\ AfterBlanks(in, at) = b
          /\ ~IsTermText(text[k]) => Term(in, s[k]) = Refused \/ Stuck(in, Term(in, s[k]).at)
      <3>1. GapRead(in, AfterBlanks(in, a + 1), Piece(in, a, b), b)
        BY <2>1, PieceIsRead
      <3>2. GapRead(in, s[k], text[k], b)
        BY <2>2, <3>1
      <3>. QED
        BY <1>1, <3>2 DEF GapRead
    <2>4. CASE IsTermText(text[k])
      <3>1. PICK at \in 1..n + 1 :
               /\ Term(in, s[k]) = [read |-> Term(text[k], 1).read, at |-> at]
               /\ Term(text[k], 1).read \in Terms
               /\ AfterBlanks(in, at) = b
        BY <2>3, <2>4
      <3>2. t[k] = at
        BY <3>1
      <3>3. x[k] = Term(text[k], 1).read
        OBVIOUS
      <3>4. k \in G
        BY <2>4
      <3>. QED
        BY <2>1, <2>3, <3>1, <3>2, <3>3, <3>4
    <2>5. CASE ~IsTermText(text[k])
      <3>1. k \notin G
        BY <2>5
      <3>. QED
        BY <2>3, <2>5, <3>1 DEF Fails
    <2>. QED
      BY <2>4, <2>5
  <1>8. \A k \in 1..N : /\ o[k + 1] = TokenAt(in, c[k])
                        /\ k # N => s[k + 1] = AfterBlanks(in, c[k] + 1)
    <2>. TAKE k \in 1..N
    <2>1. k + 1 \in 1..N + 1 /\ k + 1 # 1 /\ k + 1 - 1 = k
      BY <1>3
    <2>2. o[k + 1] = TokenAt(in, c[k])
      BY <2>1
    <2>3. k # N => k + 1 \in 1..N
      BY <1>3
    <2>. QED
      BY <2>1, <2>2, <2>3
  <1>9. o[1] = "+" /\ o[N + 1] = "end" /\ \A k \in 1..N : o[k] \in Ops
    <2>1. 1 \in 1..N + 1 /\ N \in 1..N
      BY <1>3
    <2>2. o[1] = "+"
      BY <2>1
    <2>3. o[N + 1] = "end"
      BY <1>2, <1>4, <1>8, <2>1
    <2>4. ASSUME NEW k \in 1..N PROVE o[k] \in Ops
      <3>1. CASE k = 1
        BY <2>2, <3>1, Zenon DEF Ops
      <3>2. CASE k # 1
        <4>1. PICK h \in 1..m : h = k - 1 /\ h + 1 = k /\ h \in 1..N
          <5>1. k - 1 \in 1..m /\ k - 1 + 1 = k /\ k - 1 \in 1..N
            BY <3>2
          <5>. QED
            BY <5>1
        <4>. QED
          BY <1>2, <1>8, <4>1
      <3>. QED
        BY <3>1, <3>2
    <2>. QED
      BY <2>2, <2>3, <2>4
  <1>10. G \subseteq 1..N
    OBVIOUS
  <1>11. \A k \in G : /\ OpAt(in, t[k]) = o[k + 1]
                      /\ k # N => \A items : ItemAt(in, items, t[k]) = items[s[k + 1]]
    <2>. TAKE k \in G
    <2>1. k \in 1..N /\ AfterBlanks(in, t[k]) = c[k]
      BY <1>7, <1>10
    <2>2. OpAt(in, t[k]) = o[k + 1]
      BY <1>8, <2>1 DEF OpAt
    <2>3. ASSUME k # N, NEW items
          PROVE  ItemAt(in, items, t[k]) = items[s[k + 1]]
      <3>1. s[k + 1] = AfterBlanks(in, c[k] + 1)
        BY <1>8, <2>1, <2>3
      <3>. QED
        BY <2>1, <3>1 DEF ItemAt
    <2>. QED
      BY <2>2, <2>3
  <1>12. IsLine(in, N, G, o, s, t, x)
    BY <1>1, <1>3, <1>7, <1>9, <1>10, <1>11 DEF IsLine
  <1>13. s[1] = AfterBlanks(in, 1)
    <2>1. 1 \in 1..N /\ 1 - 1 = 0 /\ 0 + 1 = 1
      BY <1>3
    <2>. QED
      BY <1>2, <2>1
  <1>14. N \in G => AfterBlanks(in, t[N]) = Len(in) + 1
    BY <1>1, <1>2, <1>7, <1>10
  <1>. QED
    BY <1>12, <1>13, <1>14

\* The input is accepted exactly if its pieces are terms, and its terms are theirs.
Agrees(in, e, pieces) ==
  /\ e # Refused <=> /\ Len(pieces) <= MaxTerms
                     /\ \A i \in DOMAIN pieces : IsTermText(pieces[i].text)
  /\ e # Refused => Flat(e) = [i \in DOMAIN pieces |->
                                [op |-> pieces[i].op,
                                 term |-> Term(pieces[i].text, 1).read]]

\* What parse returns agrees with the pieces.
LEMMA ParseAgrees ==
  ASSUME NEW in \in Seq(Token)
  PROVE  Agrees(in, Parse(in), Pieces(in))
PROOF
  <1>1. PICK m \in Nat : \E c :
           /\ AreCuts(in, c, m)
           /\ Pieces(in) = [i \in 1..m + 1 |->
                              [op |-> IF i = 1 THEN "+" ELSE TokenAt(in, c[i - 1]),
                               text |-> Piece(in, c[i - 1], c[i])]]
    BY PiecesAreCut
  <1>2. PICK c :
           /\ AreCuts(in, c, m)
           /\ Pieces(in) = [i \in 1..m + 1 |->
                              [op |-> IF i = 1 THEN "+" ELSE TokenAt(in, c[i - 1]),
                               text |-> Piece(in, c[i - 1], c[i])]]
    BY <1>1
  <1>3. PICK N \in Nat : N = m + 1
    OBVIOUS
  <1>4. PICK text : text = [i \in 1..N |-> Piece(in, c[i - 1], c[i])]
    OBVIOUS
  <1>5. PICK o : o = [i \in 1..N + 1 |-> IF i = 1 THEN "+" ELSE TokenAt(in, c[i - 1])]
    OBVIOUS
  <1>6. PICK s : s = [i \in 1..N |-> AfterBlanks(in, c[i - 1] + 1)]
    OBVIOUS
  <1>7. PICK t : t = [i \in 1..N |-> Term(in, s[i]).at]
    OBVIOUS
  <1>8. PICK x : x = [i \in 1..N |-> Term(text[i], 1).read]
    OBVIOUS
  <1>9. PICK G : G = {i \in 1..N : IsTermText(text[i])}
    OBVIOUS
  <1>10. \A i \in 1..N : text[i] = Piece(in, c[i - 1], c[i])
    BY <1>4
  <1>11. /\ IsLine(in, N, G, o, s, t, x)
         /\ s[1] = AfterBlanks(in, 1)
         /\ N \in G => AfterBlanks(in, t[N]) = Len(in) + 1
    <2>1. AreCutOut(in, c, m, N, G, text, o, s, t, x)
      BY <1>2, <1>3, <1>5, <1>6, <1>7, <1>8, <1>9, <1>10 DEF AreCutOut
    <2>. QED
      BY <2>1, CutsAreLine
  <1>12. /\ ~Fits(N, G) => Parse(in) = Refused
         /\ Fits(N, G) =>
              /\ Parse(in) # Refused
              /\ Flat(Parse(in)) = [i \in 1..N |-> [op |-> o[i], term |-> x[i]]]
    BY <1>11, LineIsParsed
  <1>13. PICK pieces : pieces = Pieces(in)
    OBVIOUS
  <1>14. /\ DOMAIN pieces = 1..N /\ Len(pieces) = N
         /\ \A i \in 1..N : pieces[i].op = o[i] /\ pieces[i].text = text[i]
    <2>1. pieces = [i \in 1..N |-> [op |-> IF i = 1 THEN "+" ELSE TokenAt(in, c[i - 1]),
                                    text |-> Piece(in, c[i - 1], c[i])]]
      BY <1>2, <1>3, <1>13
    <2>2. DOMAIN pieces = 1..N /\ Len(pieces) = N
      BY <2>1
    <2>3. ASSUME NEW i \in 1..N PROVE pieces[i].op = o[i] /\ pieces[i].text = text[i]
      <3>1. i \in 1..N + 1
        OBVIOUS
      <3>. QED
        BY <1>4, <1>5, <2>1, <3>1
    <2>. QED
      BY <2>2, <2>3
  <1>15. Fits(N, G) <=> /\ Len(pieces) <= MaxTerms
                        /\ \A i \in DOMAIN pieces : IsTermText(pieces[i].text)
    BY <1>9, <1>14 DEF Fits
  <1>16. [i \in 1..N |-> [op |-> o[i], term |-> x[i]]] =
           [i \in DOMAIN pieces |->
             [op |-> pieces[i].op, term |-> Term(pieces[i].text, 1).read]]
    <2>1. \A i \in 1..N : x[i] = Term(pieces[i].text, 1).read /\ o[i] = pieces[i].op
      BY <1>8, <1>14
    <2>. QED
      BY <1>14, <2>1
  <1>. QED
    BY <1>12, <1>13, <1>15, <1>16 DEF Agrees

\* Exactly the inputs of the grammar are accepted, each as the terms it is written with.
THEOREM GrammarIsAccepted == Spec => []AcceptsTheGrammar
PROOF
  <1>1. ParseInv => AcceptsTheGrammar
    <2>. SUFFICES ASSUME ParseInv PROVE AcceptsTheGrammar
      OBVIOUS
    <2>1. Agrees(input, parsed, Pieces(input))
      BY ParseAgrees DEF ParseInv
    <2>. QED
      BY <2>1, Zenon DEF Agrees, AcceptsTheGrammar, Accepted
  <1>. QED
    BY <1>1, InputIsParsed, PTL
==============================================================================
