SPECIFICATION FairSpec
CONSTANTS
  NoFormula = "null"
  Formula <- MixedFormula
  formula_parents <- MixedParents
  conn <- MixedConn
  isPre <- MixedIsPre
  all_analyses <- MixedAnalyses
INVARIANTS TypeOK Sound Complete ReportedExactlyOnce SecondaryNoted OnlyExitMissesReferences
PROPERTIES VerdictsAreFinal ExitCompletes ImplementsMonitor
