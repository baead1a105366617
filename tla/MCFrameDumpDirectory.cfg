SPECIFICATION Spec
CONSTANTS
  Threads = {t1, t2, t3}
  Directory = "frames"
  Cwd = "."
  MaxSettings <- Settings
  IntHalf = 4
  MaxCalls = 9
INVARIANT FrameInDirectory
CHECK_DEADLOCK FALSE
