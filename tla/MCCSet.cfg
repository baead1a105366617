\* the low heap: addresses below Half
SPECIFICATION FairSpec
CONSTANTS
  Half = 8
  Objects = {1, 2, 5, 7}
  FirstWord <- NonzeroWords
  MaxN = 4
INVARIANTS TypeOK MemberCorrect
PROPERTIES ImplementsSet
CHECK_DEADLOCK FALSE
