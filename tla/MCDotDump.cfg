SPECIFICATION FairSpec
CONSTANTS
  Infras = {"A", "M", "N"}
  MixinClasses = {"M", "N"}
  MaxMixins = 2
  None = None
  Tables <- AllTables
  OptionArguments <- Arguments
  IsMember <- Found
  Half = 16
INVARIANTS TypeOK DeclaredOnce EdgesLand OnlyRequestedInFull AllShown
PROPERTIES WorkShrinks Terminates
CHECK_DEADLOCK FALSE
