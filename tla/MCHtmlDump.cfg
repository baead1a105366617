SPECIFICATION FairSpec
CONSTANTS
  Infras = {"A", "M", "N"}
  MixinClasses = {"M", "N"}
  Markup = {"N"}
  MaxMixins = 1
  None = None
  IsMember <- Found
  Half = 16
INVARIANTS TypeOK LinksLand OnlyFailedMissing
PROPERTIES NoPageReplaced Terminates
CHECK_DEADLOCK FALSE
