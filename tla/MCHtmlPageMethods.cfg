SPECIFICATION Spec
CONSTANTS
  MaxLists = 2
  MaxEntries = 1
INVARIANT MethodsShown
CHECK_DEADLOCK FALSE
