SPECIFICATION RuntimeSpec
CONSTANTS
  NoFormula = "null"
  Formula <- EpoFormula
  formula_parents <- EpoParents
  conn <- EpoConn
  isPre <- EpoIsPre
  all_analyses <- EpoAnalyses
  operation <- EpoOperation
  Call <- EpoCall
  Access = {}
  returns <- EpoReturns
  Nesting = {}
  InitialMemory <- EpoMemory
  MaxEvents = 5
  MaxDepth = 1
  PointerSize = 6
  NarrowSizes = {4}
INVARIANTS PreCallExact ExclusivePreCalls UncalledContractsSilent
PROPERTY Spec
