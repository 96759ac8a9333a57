SPECIFICATION WrapperSpec
CONSTANTS
  Invocation = {i1, i2, i3}
  Jobs <- MCJobs
  SourceOf <- MCSourceOf
  NoFile = NoFile
SYMMETRY Symmetry
CHECK_DEADLOCK FALSE
INVARIANTS
  RightProgram
  StatusMeaning
PROPERTY LeavesNothing
