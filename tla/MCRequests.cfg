SPECIFICATION RuntimeSpec
CONSTANTS
  NoFormula = "null"
  Formula <- ReqFormula
  formula_parents <- ReqParents
  conn <- ReqConn
  isPre <- ReqIsPre
  all_analyses <- ReqAnalyses
  operation <- ReqOperation
  Call <- ReqCall
  Access = {}
  returns <- ReqReturns
  Nesting = {}
  InitialMemory <- ReqMemory
  MaxEvents = 5
  MaxDepth = 1
  PointerSize = 6
  NarrowSizes = {4}
INVARIANTS RuntimeTypeOK PreCallExact PostCallExact ReleaseExact
PROPERTY Spec
