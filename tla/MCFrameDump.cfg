SPECIFICATION Spec
CONSTANTS
  Threads = {t1, t2, t3}
  Directory = "frames"
  Cwd = "."
  MaxSettings <- Settings
  IntHalf = 4
  MaxCalls = 9
SYMMETRY AnyThread
INVARIANTS TypeOK FilmHasNoHoles
PROPERTIES NeverOverwritten
CHECK_DEADLOCK FALSE
