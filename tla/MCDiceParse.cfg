\* Limits of 3 dice, 3 sides and 2 terms, and numbers on both sides of them.
CONSTANTS
  Numbers = {0, 1, 2}
  Fate = Fate
  None = None
  Refused = Refused
  MaxDice = 3
  MaxSides = 3
  Tokens <- MCTokens
  MaxTokens = 6
  Heads <- MCHeads
  MaxSuffixes = 3
  Percent = 2
  MaxTerms = 2
SPECIFICATION Spec
CHECK_DEADLOCK FALSE
INVARIANTS
  TermsAreSane
  SuffixOrderIrrelevant
  PrintedFormReadsBack
  AcceptsTheGrammar
