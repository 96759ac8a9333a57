SPECIFICATION PipelineSpec
CONSTANTS
  Program <- MCProgram
  Formula <- MCFormula
  Databases <- MCDatabases
  Elsewhere <- MCElsewhere
  MaxTouched = 1
  Processes = {p1, p2}
  Names = {n1, n2}
SYMMETRY Symmetry
CHECK_DEADLOCK FALSE
INVARIANTS
  StaticVerdict
  FaultsAreWatched
  CoverageAttainable
  Heard
  CoverageSound
  CoverageExact
