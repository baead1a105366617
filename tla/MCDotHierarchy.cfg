SPECIFICATION FairSpec
CONSTANTS
  Infras = {"A", "B", "M", "N"}
  MixinClasses = {"M", "N"}
  MaxMixins = 2
  None = None
  IsMember <- Found
  Half = 16
  AddressOf <- Packed
INVARIANTS TypeOK EachOnce SuperAbove AllDumped OneTree
PROPERTIES Terminates
CHECK_DEADLOCK FALSE
