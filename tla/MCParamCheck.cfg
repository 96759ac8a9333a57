SPECIFICATION ParamSpec
CONSTANTS
  PointerSize = 6
  NarrowSizes = {3, 4}
  Size = {3, 6}
  Sample <- Few
  Address <- FewAddress
  Named <- FewNames
  MaxRequirements = 2
  MaxSites = 2
  MaxCalls = 2
INVARIANTS ParamMeaning StaticAlarmConfirmed ConstantViolationsAnnounced
CHECK_DEADLOCK FALSE
