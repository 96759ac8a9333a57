SPECIFICATION WFairSpec
CONSTANTS
  IR <- MCIR
  Stack = {"s"}
  Shape <- MCShape
  EntryOf <- MCEntryOf
  BodyOf <- MCBodyOf
  Helper <- MCHelper
  Entry = 5
INVARIANTS NoFalseAlarm StraightLineExact Covers
PROPERTY Terminates
