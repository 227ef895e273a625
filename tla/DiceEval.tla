------------------------------- MODULE DiceEval -------------------------------
(****************************************************************************)
(* The evaluation of one dice term, eval_term in dice/src/lib.rs: roll the  *)
(* pool with its rerolls, explode, keep or drop, then sum or count          *)
(* successes.  A step is one call of the Roller, whose answer may be any    *)
(* face, or one of the passes over the pool.                                *)
(*                                                                          *)
(* Terms are what apply_suffix builds (module DiceTerm); module DiceExpr    *)
(* evaluates one after the other.  Sums of faces are far below 2^63 within  *)
(* the limits of a term, so the checked additions of a term never fail and  *)
(* its arithmetic is unbounded.                                             *)
(****************************************************************************)
EXTENDS Integers, SequencesExt, FiniteSetsExt

CONSTANTS
  Fate,         \* the Fate die, dF
  None,         \* the term has no such suffix
  MaxRerolls,   \* MAX_REROLLS_PER_DIE; 1,000 in the code
  MaxDepth      \* MAX_EXPLOSION_DEPTH; 20 in the code

ASSUME EvalAssumption ==
  /\ MaxRerolls \in Nat \ {0}
  /\ MaxDepth \in Nat
  /\ Fate \notin Nat

\* Terms as apply_suffix leaves them: only dice with numbered faces reroll and explode.
TermRecord ==
  {t \in [count : Nat \ {0}, sides : (Nat \ {0}) \cup {Fate},
          reroll : [kind : {"r", "ro"}, n : Nat] \cup {None}, explode : BOOLEAN,
          keep : [kind : {"kh", "kl", "dh", "dl"}, n : Nat] \cup {None},
          success : [cmp : {">=", "<=", ">", "<"}, n : Nat] \cup {None}] :
     t.sides = Fate => t.reroll = None /\ ~t.explode}

VARIABLES
  term,    \* the term under evaluation
  pc,      \* the pass it is in, the error it ended with, or idle
  dice,    \* the pool
  at,      \* the explosion pass: the die it looks at ...
  depth,   \* ... and how many dice that one has added
  value    \* the value of the term

evalVars == <<term, pc, dice, at, depth, value>>

\* roll_face.
Faces(sides) == IF sides = Fate THEN -1..1 ELSE 1..sides

Die(face, exploded) ==
  [value |-> face, rerolled |-> <<>>, exploded |-> exploded, dropped |-> FALSE,
   success |-> FALSE]

Threshold == term.reroll.n

\* The call of eval_term.
Begin(t) ==
  /\ term' = t
  /\ pc' = "start"
  /\ dice' = <<>>
  /\ at' = 1
  /\ depth' = 0
  /\ value' = 0

\* An indefinite reroll that covers every face is refused before anything is
\* rolled.
Start ==
  /\ pc = "start"
  /\ pc' = IF /\ term.reroll # None /\ term.sides # Fate
              /\ term.reroll.kind = "r"
              /\ Threshold >= term.sides
           THEN "RerollUnsatisfiable"
           ELSE "roll"
  /\ UNCHANGED <<term, dice, at, depth, value>>

------------------------------------------------------------------------------
(* 1. Initial pool and rerolls. *)

RollDie ==
  /\ pc = "roll"
  /\ Len(dice) < term.count
  /\ \E face \in Faces(term.sides) : dice' = Append(dice, Die(face, FALSE))
  /\ pc' = IF term.reroll = None THEN "roll" ELSE "reroll"
  /\ UNCHANGED <<term, at, depth, value>>

Newest == Last(dice)

MustRerollBelow ==
  /\ Newest.value < Threshold
  /\ term.reroll.kind = "ro" => Newest.rerolled = <<>>

\* The newest die shows a face that is to be rerolled.
MustReroll ==
  /\ Newest.value <= Threshold
  /\ term.reroll.kind = "ro" => Newest.rerolled = <<>>

Reroll ==
  /\ pc = "reroll"
  /\ MustReroll
  /\ Len(Newest.rerolled) < MaxRerolls
  /\ \E face \in Faces(term.sides) :
       dice' = [dice EXCEPT ![Len(dice)] =
         [Newest EXCEPT !.rerolled = Append(@, Newest.value), !.value = face]]
  /\ UNCHANGED <<term, pc, at, depth, value>>

RerollLimit ==
  /\ pc = "reroll"
  /\ MustReroll
  /\ Len(Newest.rerolled) >= MaxRerolls
  /\ pc' = "RerollLimit"
  /\ UNCHANGED <<term, dice, at, depth, value>>

RerollDone ==
  /\ pc = "reroll"
  /\ ~MustReroll
  /\ pc' = "roll"
  /\ UNCHANGED <<term, dice, at, depth, value>>

PoolDone ==
  /\ pc = "roll"
  /\ Len(dice) = term.count
  /\ pc' = IF term.explode /\ term.sides # Fate THEN "explode" ELSE "keep"
  /\ UNCHANGED <<term, dice, at, depth, value>>

------------------------------------------------------------------------------
(* 2. Explosions: a maximum face adds a die right behind it, again for the added *)
(* die, until a lower face or the depth limit; then on to the die behind. *)

GoesOn == dice[at + depth].value = term.sides /\ depth < MaxDepth

Explode ==
  /\ pc = "explode"
  /\ at <= Len(dice)
  /\ GoesOn
  /\ \E face \in Faces(term.sides) :
       dice' = InsertAt(dice, at + depth + 1, Die(face, TRUE))
  /\ depth' = depth + 1
  /\ UNCHANGED <<term, pc, at, value>>

NextDieTooFar ==
  /\ pc = "explode"
  /\ at <= Len(dice)
  /\ ~GoesOn
  /\ at' = at + depth + 2
  /\ depth' = 0
  /\ UNCHANGED <<term, pc, dice, value>>

NextDieOnlyAfterMaximum ==
  /\ pc = "explode"
  /\ at <= Len(dice)
  /\ ~GoesOn
  /\ at' = IF depth > 0 THEN at + depth + 1 ELSE at
  /\ depth' = 0
  /\ UNCHANGED <<term, pc, dice, value>>

NextDie ==
  /\ pc = "explode"
  /\ at <= Len(dice)
  /\ ~GoesOn
  /\ at' = at + depth + 1
  /\ depth' = 0
  /\ UNCHANGED <<term, pc, dice, value>>

Exploded ==
  /\ pc = "explode"
  /\ at > Len(dice)
  /\ pc' = "keep"
  /\ UNCHANGED <<term, dice, at, depth, value>>

------------------------------------------------------------------------------
(* 3. Keep or drop, over the whole pool. *)

\* Where a die stands in the pool sorted by face, counted from 0; ties by
\* position, as sort_by_key is stable.
Rank(i) ==
  Cardinality({j \in DOMAIN dice : \/ dice[j].value < dice[i].value
                                   \/ dice[j].value = dice[i].value /\ j < i})

Highest(n) == {i \in DOMAIN dice : Rank(i) >= Len(dice) - n}
Lowest(n) == {i \in DOMAIN dice : Rank(i) < n}

ChosenByKind(keep) ==
  IF keep.kind \in {"kh", "dl"} THEN Highest(keep.n) ELSE Lowest(keep.n)

\* The n highest or the n lowest, which are all of them if the pool is smaller.
Chosen(keep) ==
  IF keep.kind \in {"kh", "dh"} THEN Highest(keep.n) ELSE Lowest(keep.n)

Dropped(i) ==
  term.keep # None /\ ((i \in Chosen(term.keep)) # (term.keep.kind \in {"kh", "kl"}))

Keep ==
  /\ pc = "keep"
  /\ dice' = [i \in DOMAIN dice |-> [dice[i] EXCEPT !.dropped = Dropped(i)]]
  /\ pc' = "value"
  /\ UNCHANGED <<term, at, depth, value>>

------------------------------------------------------------------------------
(* 4. The value. *)

\* Cmp::test.
Test(cmp, face, target) ==
  CASE cmp = ">=" -> face >= target
    [] cmp = "<=" -> face <= target
    [] cmp = ">" -> face > target
    [] cmp = "<" -> face < target

Succeeds(die) == ~die.dropped /\ Test(term.success.cmp, die.value, term.success.n)

Kept == {i \in DOMAIN dice : ~dice[i].dropped}

Value ==
  /\ pc = "value"
  /\ IF term.success # None
     THEN /\ dice' = [i \in DOMAIN dice |-> [dice[i] EXCEPT !.success = Succeeds(dice[i])]]
          /\ value' = Cardinality({i \in DOMAIN dice : Succeeds(dice[i])})
     ELSE /\ value' = MapThenSumSet(LAMBDA i : dice[i].value, Kept)
          /\ UNCHANGED dice
  /\ pc' = "done"
  /\ UNCHANGED <<term, at, depth>>

------------------------------------------------------------------------------
EvalStep ==
  \/ Start
  \/ RollDie \/ Reroll \/ RerollLimit \/ RerollDone \/ PoolDone
  \/ Explode \/ NextDie \/ Exploded
  \/ Keep \/ Value

------------------------------------------------------------------------------
(* Properties. *)

Sum(S) == MapThenSumSet(LAMBDA i : dice[i].value, S)

\* How many dice the keep suffix leaves.
KeptCount ==
  LET n == Min({term.keep.n, Len(dice)})
  IN  IF term.keep.kind \in {"kh", "kl"} THEN n ELSE Len(dice) - n

\* The sums of every way to keep that many dice of the pool.
PossibleSums == {Sum(S) : S \in kSubset(KeptCount, DOMAIN dice)}

\* kh n and dl n leave the dice with the greatest sum, kl n and dh n those with
\* the smallest, among all ways to leave as many: "keep the n highest / lowest;
\* dh / dl drop them" (SPEC 8.2), also after explosions and among ties.
KeepsTheBest ==
  pc \in {"value", "done"} /\ term.keep # None =>
    /\ Cardinality(Kept) = KeptCount
    /\ Sum(Kept) = IF term.keep.kind \in {"kh", "dl"}
                   THEN Max(PossibleSums) ELSE Min(PossibleSums)

\* The dice that explosions added, behind the die i of the initial pool.
Chain(i) ==
  {j \in i + 1..Len(dice) : \A k \in i + 1..j : dice[k].exploded}

\* "A maximum face is rolled again and added, recursively" (SPEC 8.2) up to the
\* depth limit: a die of the initial pool is followed by a die for every maximum
\* face in a row, and by nothing more.
ExplosionsFollowMaxima ==
  pc \in {"keep", "value", "done"} /\ term.explode /\ term.sides # Fate =>
    /\ Cardinality({i \in DOMAIN dice : ~dice[i].exploded}) = term.count
    /\ \A i \in DOMAIN dice : ~dice[i].exploded =>
         LET chain == Chain(i)
             last == i + Cardinality(chain)
         IN  /\ Cardinality(chain) <= MaxDepth
             /\ \A j \in i..last - 1 : dice[j].value = term.sides
             /\ dice[last].value = term.sides => Cardinality(chain) = MaxDepth

\* A reroll discards only faces at or below the threshold, and not more of them than
\* the limit; an indefinite one leaves none such in the initial pool, a single one discards at most one, and
\* explosions are not rerolled.
RerollsStop ==
  pc \in {"explode", "keep", "value", "done"} /\ term.reroll # None =>
    \A i \in DOMAIN dice :
      /\ \A k \in DOMAIN dice[i].rerolled : dice[i].rerolled[k] <= Threshold
      /\ Len(dice[i].rerolled) <= MaxRerolls
      /\ term.reroll.kind = "ro" => Len(dice[i].rerolled) <= 1
      /\ term.reroll.kind = "r" /\ ~dice[i].exploded => dice[i].value > Threshold
      /\ dice[i].exploded => dice[i].rerolled = <<>>
=============================================================================
