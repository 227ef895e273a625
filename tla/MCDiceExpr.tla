----------------------------- MODULE MCDiceExpr -----------------------------
(* DiceExpr on a small instance: every term over two small dice and the Fate *)
(* die that the parser can build (TermsAreSane of DiceParse), with numbers   *)
(* up to 3, as an expression of its own; and expressions of up to three of a *)
(* few terms, in up to three products.                                       *)
EXTENDS DiceExpr

Keeps == [kind : {"kh", "kl", "dh", "dl"}, n : 1..3] \cup {None}
Rerolls == [kind : {"r", "ro"}, n : 1..3] \cup {None}
Successes == [cmp : {">=", "<"}, n : {2}] \cup {None}

DiceTerms ==
  {t \in [count : 1..3, sides : {2, 3, Fate}, reroll : Rerolls, explode : BOOLEAN,
          keep : Keeps, success : Successes] :
     /\ t.keep # None => t.keep.n <= t.count
     /\ t.sides = Fate => t.reroll = None /\ ~t.explode
     /\ t.count = 3 => t.sides # 3 /\ ~t.explode}

Dice(count, sides, reroll, success) ==
  [count |-> count, sides |-> sides, reroll |-> reroll, explode |-> FALSE,
   keep |-> None, success |-> success]

\* 3, 7, d3, 2dF, d2r2, which is an error, and 2d2>=2.
FewTerms ==
  {[const |-> 3], [const |-> 7],
   Dice(1, 3, None, None),
   Dice(2, Fate, None, None),
   Dice(1, 2, [kind |-> "r", n |-> 2], None),
   Dice(2, 2, None, [cmp |-> ">=", n |-> 2])}

FewFactors == {<<t>> : t \in FewTerms}
FewProducts == FewFactors \cup (FewTerms \X FewTerms)

Add(p) == [op |-> "+", item |-> p]
Signed(ps) == [op : {"+", "-"}, item : ps]

MCExprs ==
  {<<Add(<<t>>)>> : t \in DiceTerms}
    \cup {<<Add(p)>> : p \in FewProducts \cup {<<s, t, s>> : s \in FewTerms, t \in FewTerms}}
    \cup {<<Add(p), s>> : p \in FewFactors, s \in Signed(FewProducts)}
    \cup {<<Add(p), s>> : p \in FewProducts, s \in Signed(FewFactors)}
    \cup {<<Add(p), s, t>> : p \in FewFactors, s \in Signed(FewFactors), t \in Signed(FewFactors)}
=============================================================================
