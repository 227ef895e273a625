------------------------------ MODULE DiceParse ------------------------------
(****************************************************************************)
(* The expression parser, parse in dice/src/lib.rs, from the list of terms  *)
(* down to the single one, and Display for Expr.                            *)
(*                                                                          *)
(* The input is a sequence of tokens: a number, a suffix together with its  *)
(* number, or one of the characters d, F, %, +, -, * and the blank.  A      *)
(* character of no token and a keyword without its number are refused       *)
(* wherever they stand, so they are left out, and so are the columns and    *)
(* the texts of the errors.                                                 *)
(****************************************************************************)
EXTENDS DiceTerm, FiniteSetsExt

CONSTANTS
  Tokens,        \* bound: the tokens that whole expressions are written with ...
  MaxTokens,     \* ... and how many
  Heads,         \* bound: counts and sides of the terms written in all detail ...
  MaxSuffixes,   \* ... and how many suffixes they get
  Percent,       \* the sides of d%; 100 in the code
  MaxTerms       \* MAX_TERMS; 20 in the code

Token ==
  [what : {"number"}, n : Nat] \cup [what : {"d", "F", "%", "+", "-", "*", " "}] \cup Suffix

ASSUME ParseAssumption ==
  /\ Tokens \subseteq Token
  /\ Heads \subseteq [count : Nat, sides : Nat \cup {Fate}]
  /\ Percent \in 2..MaxSides
  /\ MaxTerms \in Nat \ {0}

\* A term, a product, an expression.
TermOrConst == TermRecord \cup [const : Nat]
ProductItems == Seq(TermOrConst)
ExprItems == Seq([op : {"+", "-", "*"}, item : TermOrConst \cup ProductItems])

ASSUME ReadingAssumption ==
  /\ Refused \notin ExprItems
  /\ Refused \notin [read : TermOrConst \cup ProductItems \cup ExprItems, at : Nat]

VARIABLES
  input,    \* what is written in the composer
  parsed    \* what parse makes of it: an Expr, or Refused

vars == <<input, parsed>>

Num(n) == [what |-> "number", n |-> n]
Char(c) == [what |-> c]

\* What stands at a position; behind the end, nothing.
TokenAt(in, p) == IF p \in DOMAIN in THEN in[p].what ELSE "end"

\* ws: the position behind the blanks.
AfterBlanks(in, p) == Min({q \in p..Len(in) + 1 : TokenAt(in, q) # " "})

------------------------------------------------------------------------------
(* One term.  A parser returns what it read and where it stopped, or Refused. *)

\* sides and faces, before the limits: the sides written at p, or None.
SidesAt(in, p) ==
  CASE TokenAt(in, p) = "F" -> Fate
    [] TokenAt(in, p) = "%" -> Percent
    [] TokenAt(in, p) = "number" -> in[p].n
    [] OTHER -> None

\* many0(suffix): every suffix from p on.
EndOfSuffixes(in, p) == Min({q \in p..Len(in) + 1 : q \notin DOMAIN in \/ in[q] \notin Suffix})

\* What was read, and where it stopped.
Stopped(read, at) == IF read = Refused THEN Refused ELSE [read |-> read, at |-> at]

DiceOf(head, suffixes) == IF head.sides = None THEN Refused ELSE Parsed(head, suffixes)

DiceUpTo(in, count, p, end) ==
  Stopped(DiceOf([count |-> count, sides |-> SidesAt(in, p)], SubSeq(in, p + 1, end - 1)), end)

DiceBody(in, count, p) == DiceUpTo(in, count, p, EndOfSuffixes(in, p + 1))

ConstTerm(in, p) ==
  IF TokenAt(in, p) = "number" THEN [read |-> [const |-> in[p].n], at |-> p + 1] ELSE Refused

TermConstantFirst(in, p) ==
  CASE TokenAt(in, p) = "number" -> ConstTerm(in, p)
    [] TokenAt(in, p) = "d" -> DiceBody(in, 1, p + 1)
    [] OTHER -> Refused

\* term and dice_term: with a d, behind a count or not, it is a dice term and
\* nothing else (cut); otherwise a number.
Term(in, p) ==
  CASE TokenAt(in, p) = "d" -> DiceBody(in, 1, p + 1)
    [] TokenAt(in, p) = "number" /\ TokenAt(in, p + 1) = "d" -> DiceBody(in, in[p].n, p + 2)
    [] OTHER -> ConstTerm(in, p)

------------------------------------------------------------------------------
(* Lists of terms, and lists of those. *)

\* many0 over an operator and what follows it: it stops before a blank that no
\* operator follows, and what follows an operator is cut; items: what the parser
\* of an item reads at each position.
Followed(op, item, rest) ==
  IF rest = Refused
  THEN Refused
  ELSE [rest EXCEPT !.read = <<[op |-> op, item |-> item.read]>> \o rest.read]

Many(in, from, ops, items) ==
  LET more[p \in 1..Len(in) + 1] ==
        LET o == AfterBlanks(in, p)
            item == items[AfterBlanks(in, o + 1)]
        IN  IF TokenAt(in, o) \notin ops THEN [read |-> <<>>, at |-> p]
            ELSE IF item = Refused THEN Refused
            ELSE Followed(TokenAt(in, o), item, more[item.at])
  IN  more[from]

\* product: a sequence of terms.
ProductOf(first, more) ==
  IF more = Refused \/ Len(more.read) + 1 > MaxTerms
  THEN Refused
  ELSE [more EXCEPT !.read = <<first>> \o [i \in DOMAIN more.read |-> more.read[i].item]]

ProductFrom(in, first) ==
  IF first = Refused
  THEN Refused
  ELSE ProductOf(first.read,
                 Many(in, first.at, {"*"}, [q \in 1..Len(in) + 1 |-> Term(in, q)]))

Product(in, p) == ProductFrom(in, Term(in, p))

ProductCount(e) == Len(e)

TermCount(e) == FoldLeft(LAMBDA n, x : n + Len(x.item), 0, e)

\* expr: a sequence of operators with their products.
AllOf(first, more) == <<[op |-> "+", item |-> first]>> \o more

ExprOf(first, more) ==
  IF more = Refused \/ TermCount(AllOf(first, more.read)) > MaxTerms
  THEN Refused
  ELSE [more EXCEPT !.read = AllOf(first, more.read)]

ExprFrom(in, first) ==
  IF first = Refused
  THEN Refused
  ELSE ExprOf(first.read,
              Many(in, first.at, {"+", "-"}, [q \in 1..Len(in) + 1 |-> Product(in, q)]))

Expr(in, p) == ExprFrom(in, Product(in, AfterBlanks(in, p)))

\* parse: nothing but blanks may be left over.
Whole(in, e) ==
  IF e = Refused \/ AfterBlanks(in, e.at) <= Len(in) THEN Refused ELSE e.read

Parse(in) == Whole(in, Expr(in, 1))

------------------------------------------------------------------------------
(* Display for Expr. *)

DisplayTerm(t) ==
  IF "const" \in DOMAIN t
  THEN <<Num(t.const)>>
  ELSE <<Num(t.count), Char("d"), IF t.sides = Fate THEN Char("F") ELSE Num(t.sides)>>
         \o Canonical(t)

Spaced(op) == <<Char(" "), Char(op), Char(" ")>>

DisplayProduct(terms) ==
  FlattenSeq([j \in DOMAIN terms |->
    (IF j > 1 THEN Spaced("*") ELSE <<>>) \o DisplayTerm(terms[j])])

Display(e) ==
  FlattenSeq([i \in DOMAIN e |->
    (CASE i = 1 /\ e[i].op = "+" -> <<>>
       [] i = 1 /\ e[i].op = "-" -> <<Char("-")>>
       [] OTHER -> Spaced(e[i].op)) \o DisplayProduct(e[i].item)])

------------------------------------------------------------------------------
(* Writing.  Two kinds of inputs are enumerated: all sequences of a few tokens, *)
(* and single dice terms with many different suffixes.                          *)

HeadText(h) ==
  <<Num(h.count), Char("d"), IF h.sides = Fate THEN Char("F") ELSE Num(h.sides)>>

Init ==
  /\ input \in {<<>>} \cup {HeadText(h) : h \in Heads}
  /\ parsed = Parse(input)

Write(token) ==
  /\ input' = Append(input, token)
  /\ parsed' = Parse(input')

WriteToken ==
  /\ Len(input) < MaxTokens
  /\ \A i \in DOMAIN input : input[i] \in Tokens
  /\ \E token \in Tokens : Write(token)

WriteSuffix ==
  /\ \E h \in Heads : IsPrefix(HeadText(h), input)
  /\ Len(input) < 3 + MaxSuffixes
  /\ \A i \in 4..Len(input) : input[i] \in Suffix
  /\ \E token \in Suffix : Write(token)

Next == WriteToken \/ WriteSuffix

Spec == Init /\ [][Next]_vars

------------------------------------------------------------------------------
(* Properties. *)

Accepted == parsed # Refused

TermsOf(e) == FoldLeft(LAMBDA ts, x : ts \o x.item, <<>>, e)

\* Every dice term that is accepted respects the limits of SPEC 8.4 and its own
\* count, and a Fate die is neither rerolled nor exploded: what eval_term relies on.
TermsAreSane ==
  Accepted =>
    /\ Len(TermsOf(parsed)) \in 1..MaxTerms
    /\ \A i \in DOMAIN TermsOf(parsed) :
         LET t == TermsOf(parsed)[i]
         IN  "const" \notin DOMAIN t =>
               /\ t.count \in 1..MaxDice
               /\ t.sides \in (2..MaxSides) \cup {Fate}
               /\ t.keep # None => t.keep.kind \in KeepKinds /\ t.keep.n \in 1..t.count
               /\ t.sides = Fate => t.reroll = None /\ ~t.explode

\* "A fixed semantic order governs evaluation, so 4d6kh3! and 4d6!kh3 produce the
\* same term" (lib.rs:403): two suffixes that stand side by side may be written
\* the other way round, and the expression is the same, or refused as well.
SuffixOrderIrrelevant ==
  \A i \in 1..Len(input) - 1 :
    input[i] \in Suffix /\ input[i + 1] \in Suffix =>
      Parse([input EXCEPT ![i] = input[i + 1], ![i + 1] = input[i]]) = parsed

\* What Display prints for an expression, and for a term as the label that is shown
\* with its faces, reads back as the same expression, sugar desugared.
PrintedFormReadsBack == Accepted => Parse(Display(parsed)) = parsed

\* Where the operators stand, in order.
Operators(in) ==
  FoldLeft(LAMBDA ps, i : IF in[i].what \in {"+", "-", "*"} THEN Append(ps, i) ELSE ps,
           <<>>, [i \in DOMAIN in |-> i])

\* The text between two neighbouring operators, or an operator and an end, without
\* the blanks around it.
Piece(in, from, to) ==
  LET inside == {i \in from + 1..to - 1 : in[i].what # " "}
  IN  IF inside = {} THEN <<>> ELSE SubSeq(in, Min(inside), Max(inside))

Pieces(in) ==
  LET cuts == <<0>> \o Operators(in) \o <<Len(in) + 1>>
  IN  [i \in 1..Len(cuts) - 1 |->
        [op |-> IF cuts[i] = 0 THEN "+" ELSE in[cuts[i]].what,
         text |-> Piece(in, cuts[i], cuts[i + 1])]]

\* The text of a constant, or of a dice term within its limits.
IsTermText(text) ==
  LET count == IF text[1].what = "d" THEN 1 ELSE text[1].n
      d == IF text[1].what = "d" THEN 1 ELSE 2
  IN  /\ text # <<>>
      /\ text[1].what \in {"number", "d"}
      /\ \/ Len(text) = 1 /\ text[1].what = "number"
         \/ /\ Len(text) > d
            /\ text[d].what = "d"
            /\ text[d + 1].what \in {"number", "F", "%"}
            /\ \A i \in d + 2..Len(text) : text[i] \in Suffix
            /\ Parsed([count |-> count, sides |-> SidesAt(text, d + 1)],
                      SubSeq(text, d + 2, Len(text))) # Refused

\* The terms of an expression, each with the operator before it.
Flat(e) ==
  FlattenSeq([i \in DOMAIN e |->
    [j \in DOMAIN e[i].item |->
      [op |-> IF j = 1 THEN e[i].op ELSE "*", term |-> e[i].item[j]]]])

\* The grammar of SPEC 8.1, read backwards: an input is accepted exactly if cutting
\* it at its operators leaves terms, at most MaxTerms of them; blanks are "permitted
\* around operators, not within a dice term"; and the expression has these terms
\* with these operators, a product going on as long as the operator is *.
AcceptsTheGrammar ==
  LET pieces == Pieces(input)
  IN  /\ Accepted <=> /\ Len(pieces) <= MaxTerms
                      /\ \A i \in DOMAIN pieces : IsTermText(pieces[i].text)
      /\ Accepted => Flat(parsed) = [i \in DOMAIN pieces |->
                                      [op |-> pieces[i].op,
                                       term |-> Term(pieces[i].text, 1).read]]
=============================================================================
