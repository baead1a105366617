SPECIFICATION Spec
CONSTANTS
  Classes = {"A", "M", "B", "overview"}
  Super <- SuperOf
  Mixins <- MixinsOf
  Closed = {}
  Markup = {"M"}
  Methods <- MethodsOf
  MethodIds = {"m"}
  Cached = {"A"}
  None = None
  Errnos = {e0, e1}
  MaxDumps = 2
  MaxFailures = 1
  MaxStops = 1
SYMMETRY ErrnosAlike
INVARIANTS TypeOK LinksLand LookupsLeaveNoTrace
CHECK_DEADLOCK FALSE
