SPECIFICATION Spec
CONSTANTS
  N = 3
  FixLists <- FourInsertions
INVARIANTS AllOrNone
CHECK_DEADLOCK FALSE
