------------------------------- MODULE DiceTerm -------------------------------
(****************************************************************************)
(* How a dice term is put together from what was written (dice/src/lib.rs): *)
(* dice_body starts with a count and a die and applies the suffixes one by  *)
(* one, in writing order; apply_suffix refuses a suffix that does not fit   *)
(* what the term already has, and the first refusal is the result: the      *)
(* error is cut, so nothing backtracks over it.  And how Display prints it. *)
(*                                                                          *)
(* The characters are left out: an integer is its value, a suffix a record, *)
(* and every error is the one outcome Refused.  So are the widths of the    *)
(* integers: a number that does not fit is refused before it gets here.     *)
(****************************************************************************)
EXTENDS Integers, Sequences, SequencesExt, FiniteSets

CONSTANTS
  Numbers,       \* integers written after a suffix's keyword
  Fate,          \* the Fate die, dF
  None,          \* the term has no such suffix
  Refused,       \* parse error
  MaxDice,       \* MAX_DICE_PER_TERM; 100 in the code
  MaxSides       \* MAX_SIDES; 10,000 in the code

\* Advantage rolls two dice and is printed as a keep of one.
ASSUME TermAssumption ==
  /\ Numbers \subseteq Nat
  /\ 1 \in Numbers
  /\ Fate \notin Nat
  /\ MaxDice \in Nat \ {0, 1}
  /\ MaxSides \in Nat

KeepKinds == {"kh", "kl", "dh", "dl"}

RerollSuffix == [kind : {"r", "ro"}, n : Numbers]
KeepSuffix == [kind : KeepKinds, n : Numbers]
SuccessSuffix == [cmp : {">=", "<=", ">", "<"}, n : Numbers]

TermRecord ==
  [count : 1..MaxDice, sides : (2..MaxSides) \cup {Fate}, reroll : RerollSuffix \cup {None},
   explode : BOOLEAN, keep : KeepSuffix \cup {None}, success : SuccessSuffix \cup {None}]

ASSUME OutcomeAssumption ==
  /\ None \notin Nat \cup {Fate} \cup RerollSuffix \cup KeepSuffix \cup SuccessSuffix
  /\ Refused \notin TermRecord

Suffix ==
  [what : {"keep"}, kind : KeepKinds, n : Numbers]
    \cup [what : {"advdis"}, kind : {"kh", "kl"}]
    \cup [what : {"reroll"}, kind : {"r", "ro"}, n : Numbers]
    \cup [what : {"explode"}]
    \cup [what : {"success"}, cmp : {">=", "<=", ">", "<"}, n : Numbers]

\* dice_body, before the suffixes, with the limits of faces; h has a count and sides.
Bare(h) ==
  IF h.count \notin 1..MaxDice \/ (h.sides # Fate /\ h.sides \notin 2..MaxSides)
  THEN Refused
  ELSE [count |-> h.count, sides |-> h.sides, reroll |-> None, explode |-> FALSE,
        keep |-> None, success |-> None]

ApplyKeep(t, s) ==
  IF t.keep # None \/ s.n \notin 1..t.count
  THEN Refused
  ELSE [t EXCEPT !.keep = [kind |-> s.kind, n |-> s.n]]

ApplyAdvDisOverKeep(t, s) ==
  IF t.count # 1
  THEN Refused
  ELSE [t EXCEPT !.count = 2, !.keep = [kind |-> s.kind, n |-> 1]]

ApplyAdvDis(t, s) ==
  IF t.count # 1 \/ t.keep # None
  THEN Refused
  ELSE [t EXCEPT !.count = 2, !.keep = [kind |-> s.kind, n |-> 1]]

ApplyReroll(t, s) ==
  IF t.sides = Fate \/ t.reroll # None
  THEN Refused
  ELSE [t EXCEPT !.reroll = [kind |-> s.kind, n |-> s.n]]

ApplyExplode(t) ==
  IF t.sides = Fate \/ t.explode THEN Refused ELSE [t EXCEPT !.explode = TRUE]

ApplySuccess(t, s) ==
  IF t.success # None
  THEN Refused
  ELSE [t EXCEPT !.success = [cmp |-> s.cmp, n |-> s.n]]

ApplySuffix(t, s) ==
  CASE s.what = "keep" -> ApplyKeep(t, s)
    [] s.what = "advdis" -> ApplyAdvDis(t, s)
    [] s.what = "reroll" -> ApplyReroll(t, s)
    [] s.what = "explode" -> ApplyExplode(t)
    [] s.what = "success" -> ApplySuccess(t, s)

\* dice_body as a whole: the loop over the suffixes, with its early return.
Read(t, s) == IF t = Refused THEN Refused ELSE ApplySuffix(t, s)

Parsed(h, suffixes) == FoldLeft(Read, Bare(h), suffixes)

------------------------------------------------------------------------------
(* Display for DiceTerm: the suffixes it prints, in the order it prints them. *)

CanonicalLosingRerollKind(t) ==
  (IF t.reroll = None THEN <<>> ELSE <<[what |-> "reroll", kind |-> "r", n |-> t.reroll.n]>>)
    \o (IF t.explode THEN <<[what |-> "explode"]>> ELSE <<>>)
    \o (IF t.keep = None THEN <<>>
        ELSE <<[what |-> "keep", kind |-> t.keep.kind, n |-> t.keep.n]>>)
    \o (IF t.success = None THEN <<>>
        ELSE <<[what |-> "success", cmp |-> t.success.cmp, n |-> t.success.n]>>)

Canonical(t) ==
  (IF t.reroll = None THEN <<>>
   ELSE <<[what |-> "reroll", kind |-> t.reroll.kind, n |-> t.reroll.n]>>)
    \o (IF t.explode THEN <<[what |-> "explode"]>> ELSE <<>>)
    \o (IF t.keep = None THEN <<>>
        ELSE <<[what |-> "keep", kind |-> t.keep.kind, n |-> t.keep.n]>>)
    \o (IF t.success = None THEN <<>>
        ELSE <<[what |-> "success", cmp |-> t.success.cmp, n |-> t.success.n]>>)
==============================================================================
