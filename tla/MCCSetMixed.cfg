\* the mixed heap: 1 and 3 below Half = 4, 5 and 7 above; 1 starts with a zero word
SPECIFICATION Spec
CONSTANTS
  Half = 4
  Objects = {1, 3, 5, 7}
  FirstWord <- OneZeroWord
  MaxN = 4
INVARIANTS NoFalseMember ProbeInBounds StepsAgreeWithAnswer
PROPERTIES LookupHalves
CHECK_DEADLOCK FALSE
