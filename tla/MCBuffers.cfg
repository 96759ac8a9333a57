SPECIFICATION RuntimeSpec
CONSTANTS
  NoFormula = "null"
  Formula <- BufFormula
  formula_parents <- BufParents
  conn <- BufConn
  isPre <- BufIsPre
  all_analyses <- BufAnalyses
  operation <- BufOperation
  Call <- BufCall
  Access <- BufAccess
  returns <- BufReturns
  Nesting = {"user"}
  InitialMemory <- BufMemory
  MaxEvents = 4
  MaxDepth = 2
  PointerSize = 6
  NarrowSizes = {4}
INVARIANTS AllocExact ReleaseExact UndecidedStayRegistered CoverageComplete
PROPERTY Spec
