----------------------------- MODULE MCDiceParse -----------------------------
(* DiceParse on a small instance: whole expressions of up to six tokens, with  *)
(* one suffix and one number on each side of the limits, and single terms with *)
(* every combination of up to three suffixes.                                  *)
EXTENDS DiceParse

MCTokens ==
  {Char(c) : c \in {"d", "F", "%", "+", "-", "*", " "}} \cup {Num(n) : n \in {1, 2}}
    \cup {[what |-> "explode"]}

MCHeads == [count : {0, 1, 2, 4}, sides : {1, 3, Fate}]
=============================================================================
