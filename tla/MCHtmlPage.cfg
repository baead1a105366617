SPECIFICATION Spec
CONSTANTS
  MaxLists = 2
  MaxEntries = 1
INVARIANTS TypeOK ListsShown TablesBelowHeading
CHECK_DEADLOCK FALSE
