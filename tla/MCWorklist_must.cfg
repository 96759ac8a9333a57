SPECIFICATION WFairSpec
CONSTANTS
  IR <- MCIR
  Stack = {"s"}
  Shape <- MCShape
  EntryOf <- MCEntryOf
  BodyOf <- CallBodyOf
  Helper <- MCHelper
  Entry = 5
INVARIANT MustOnAllPaths
