SPECIFICATION Spec
CONSTANTS
  NFrames = 13
  WordSize = 4
  TableSize = 8
  NPages = 16
  KernelEnds = {3, 13}
  Stray = {9}
  Slots = {0, 1}
  UserPages = {9, 12, 13, 15}
INVARIANTS KernelFramesKept
CHECK_DEADLOCK FALSE
