SPECIFICATION Spec
CONSTANTS
  NULL = NULL
  Lists <- MCLists
  Points <- MCPoints
  MaxItems = 5
  MaxId = 5
  MaxHead = 2
INVARIANTS
  InsertedOnce
CHECK_DEADLOCK FALSE
