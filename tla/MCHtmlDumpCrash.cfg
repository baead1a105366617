SPECIFICATION Spec
CONSTANTS
  Infras = {"A", "M"}
  MixinClasses = {"M"}
  Markup = {}
  MaxMixins = 1
  None = None
  IsMember <- Found
  Half = 16
INVARIANT NoCrash
CHECK_DEADLOCK FALSE
