\* As in Fat.cfg.
SPECIFICATION Spec
CONSTANTS
  a = a
  b = b
  p = p
  Names = {a, b}
  NClusters = 3
  BPC = 2
  NEntries = 2
  Procs = {p}
  NFiles = 2
  MaxLen = 5
  Lengths = {1, 4}
  Unchecked = {}
INVARIANTS ReadComplete
CHECK_DEADLOCK FALSE
