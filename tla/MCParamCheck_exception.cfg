SPECIFICATION ParamSpec
CONSTANTS
  PointerSize = 6
  NarrowSizes = {3, 4}
  Size = {3, 6}
  Sample <- Few
  Address <- FewAddress
  Named <- FewNames
  MaxRequirements = 2
  MaxSites = 1
  MaxCalls = 1
INVARIANT ExceptionOverrides
CHECK_DEADLOCK FALSE
