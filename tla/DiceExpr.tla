------------------------------- MODULE DiceExpr -------------------------------
(****************************************************************************)
(* The evaluation of a whole expression, Expr::eval in dice/src/lib.rs: the *)
(* terms in writing order, each by eval_term (module DiceEval), multiplied  *)
(* into products, the products added and subtracted, every operation        *)
(* checked.  The first error is the result.  And what the page shows of the *)
(* outcome, roll_view in server/src/view.rs.                                *)
(*                                                                          *)
(* Expressions are what the parser builds (module DiceParse).  The outcome  *)
(* travels from here to the page as JSON, which is read as it was written.  *)
(****************************************************************************)
EXTENDS DiceEval

CONSTANTS
  Exprs,   \* the expressions to evaluate
  MaxInt   \* the greatest i64; 2^63 - 1 in the code

ASSUME ExprAssumption ==
  /\ MaxInt \in Nat
  /\ Exprs \subseteq Seq([op : {"+", "-"}, item : Seq(TermRecord \cup [const : Nat])])
  /\ \A e \in Exprs : Len(e) > 0 /\ \A i \in DOMAIN e : Len(e[i].item) > 0

VARIABLES
  expr,       \* the expression: its operators and their products
  outcomes,   \* outcomes of the terms of the product under evaluation ...
  product,    \* ... multiplied
  products,   \* operators and outcomes of the products before it ...
  total,      \* ... added up
  result      \* running, ok or an error

exprVars == <<expr, outcomes, product, products, total, result>>

vars == <<evalVars, exprVars>>

Int64 == -MaxInt - 1..MaxInt

Init ==
  /\ expr \in Exprs
  /\ outcomes = <<>>
  /\ product = 1
  /\ products = <<>>
  /\ total = 0
  /\ result = "running"
  /\ term = None
  /\ pc = "idle"
  /\ dice = <<>>
  /\ at = 1
  /\ depth = 0
  /\ value = 0

Op == expr[Len(products) + 1].op
Terms == expr[Len(products) + 1].item

\* TermOutcome::value.
ValueOf(outcome) == IF "const" \in DOMAIN outcome THEN outcome.const ELSE outcome.value

\* The next term of the expression is to be evaluated.
TermIsNext ==
  /\ result = "running"
  /\ pc = "idle"
  /\ Len(products) < Len(expr)
  /\ Len(outcomes) < Len(Terms)

NextTerm == Terms[Len(outcomes) + 1]

Multiply(outcome) ==
  /\ IF product * ValueOf(outcome) \in Int64
     THEN /\ product' = product * ValueOf(outcome)
          /\ outcomes' = Append(outcomes, outcome)
          /\ UNCHANGED result
     ELSE /\ result' = "Overflow"
          /\ UNCHANGED <<product, outcomes>>
  /\ UNCHANGED <<expr, products, total>>

EvalConst ==
  /\ TermIsNext
  /\ "const" \in DOMAIN NextTerm
  /\ Multiply(NextTerm)
  /\ UNCHANGED evalVars

BeginDice ==
  /\ TermIsNext
  /\ "const" \notin DOMAIN NextTerm
  /\ Begin(NextTerm)
  /\ UNCHANGED exprVars

RollDice == EvalStep /\ UNCHANGED exprVars

EndDice ==
  /\ pc = "done"
  /\ Multiply([term |-> term, dice |-> dice, value |-> value])
  /\ pc' = "idle"
  /\ UNCHANGED <<term, dice, at, depth, value>>

\* The ? after eval_term.
EvalError ==
  /\ pc \in {"RerollUnsatisfiable", "RerollLimit"}
  /\ result = "running"
  /\ result' = pc
  /\ UNCHANGED <<expr, outcomes, product, products, total>>
  /\ UNCHANGED evalVars

\* checked_add and checked_sub, before the check.
AddUp(op) == IF op = "+" THEN total + product ELSE total - product

EndProductCarrying ==
  /\ result = "running"
  /\ pc = "idle"
  /\ Len(products) < Len(expr)
  /\ Len(outcomes) = Len(Terms)
  /\ IF AddUp(Op) \in Int64
     THEN /\ total' = AddUp(Op)
          /\ products' = Append(products, [op |-> Op, item |-> outcomes])
          /\ outcomes' = <<>>
          /\ UNCHANGED result
     ELSE /\ result' = "Overflow"
          /\ UNCHANGED <<total, products, outcomes>>
  /\ UNCHANGED <<expr, product>>
  /\ UNCHANGED evalVars

EndProduct ==
  /\ result = "running"
  /\ pc = "idle"
  /\ Len(products) < Len(expr)
  /\ Len(outcomes) = Len(Terms)
  /\ IF AddUp(Op) \in Int64
     THEN /\ total' = AddUp(Op)
          /\ products' = Append(products, [op |-> Op, item |-> outcomes])
          /\ outcomes' = <<>>
          /\ product' = 1
          /\ UNCHANGED result
     ELSE /\ result' = "Overflow"
          /\ UNCHANGED <<total, products, outcomes, product>>
  /\ UNCHANGED expr
  /\ UNCHANGED evalVars

Return ==
  /\ result = "running"
  /\ Len(products) = Len(expr)
  /\ result' = "ok"
  /\ UNCHANGED <<expr, outcomes, product, products, total>>
  /\ UNCHANGED evalVars

Next ==
  \/ EvalConst \/ BeginDice \/ RollDice \/ EndDice \/ EvalError
  \/ EndProduct \/ Return

Spec == Init /\ [][Next]_vars /\ WF_vars(Next)

------------------------------------------------------------------------------
(* What the page shows of an outcome: roll_view and roll_part.  A part is one *)
(* term with the operator in front of it.                                     *)

OpStrByProduct(i, j, op) ==
  CASE i = 1 /\ op = "+" -> ""
    [] j > 1 -> "*"
    [] OTHER -> op

OpStr(i, j, op) ==
  CASE j > 1 -> "*"
    [] i = 1 /\ j = 1 /\ op = "+" -> ""
    [] OTHER -> op

Part(op, outcome) ==
  IF "const" \in DOMAIN outcome
  THEN [op |-> op, value |-> outcome.const, dice |-> <<>>, is_const |-> TRUE,
        counts_successes |-> FALSE]
  ELSE [op |-> op, value |-> outcome.value, dice |-> outcome.dice, is_const |-> FALSE,
        counts_successes |-> outcome.term.success # None]

Parts ==
  FlattenSeq([i \in DOMAIN products |->
    [j \in DOMAIN products[i].item |->
      Part(OpStr(i, j, products[i].op), products[i].item[j])]])

------------------------------------------------------------------------------
(* Properties. *)

Product(os) == FoldLeft(LAMBDA n, o : n * ValueOf(o), 1, os)

\* The value of the first n products in unbounded arithmetic.
Exact(n) ==
  FoldLeft(LAMBDA s, x : IF x.op = "+" THEN s + Product(x.item) ELSE s - Product(x.item),
           0, SubSeq(products, 1, n))

\* A roll that succeeds has the value of its expression, and every product and sum
\* on the way fits an i64; a roll fails with an overflow only where one does not.
\* (Products and sums of terms can exceed 64 bits: the limits of SPEC 8.4 allow
\* twenty factors.)
ArithmeticIsExact ==
  /\ result = "ok" =>
       /\ Len(products) = Len(expr)
       /\ total = Exact(Len(products))
       /\ \A n \in DOMAIN products : Exact(n) \in Int64
       /\ \A n \in DOMAIN products : \A k \in DOMAIN products[n].item :
            Product(SubSeq(products[n].item, 1, k)) \in Int64
  /\ result = "Overflow" =>
       LET last == IF Len(outcomes) = Len(Terms) THEN 1
                   ELSE IF "const" \in DOMAIN NextTerm THEN NextTerm.const ELSE value
           all == Product(outcomes) * last
           before == Exact(Len(products))
       IN  {all, IF Op = "+" THEN before + all ELSE before - all} \ Int64 # {}

\* What the page shows of a roll, its terms with their operators, adds up to the
\* total that it shows, read as one reads such a line (a * binds tighter); and the
\* dice that it shows for a term, without the dropped ones, add up to what it shows as
\* the term's value, or are as many successes.
PartsAddUp ==
  LET Shown == FoldLeft(
        LAMBDA s, p :
          CASE p.op = "*" -> [s EXCEPT !.last = @ * p.value]
            [] p.op = "-" -> [sum |-> s.sum + s.last, last |-> -p.value]
            [] OTHER -> [sum |-> s.sum + s.last, last |-> p.value],
        [sum |-> 0, last |-> 0], Parts)
  IN  result = "ok" =>
        /\ Shown.sum + Shown.last = total
        /\ \A k \in DOMAIN Parts :
             LET p == Parts[k]
                 Counting(P(_)) == Cardinality({i \in DOMAIN p.dice : P(p.dice[i])})
             IN  ~p.is_const =>
                   p.value = IF p.counts_successes
                             THEN Counting(LAMBDA d : d.success /\ ~d.dropped)
                             ELSE FoldLeft(LAMBDA n, d : IF d.dropped THEN n ELSE n + d.value,
                                           0, p.dice)

\* Every evaluation ends, with a value or an error, also against a Roller that
\* keeps rolling the worst face.
Terminates == <>(result # "running")
=============================================================================
