SPECIFICATION Spec
CONSTANTS
  NoFormula = "null"
  Formula <- TernaryFormula
  formula_parents <- TernaryParents
  conn <- TernaryConn
  isPre <- TernaryIsPre
  all_analyses <- TernaryAnalyses
INVARIANT DisjunctionNeedsOne
