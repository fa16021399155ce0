\* The first loop ends at page 5 and the heap at page 7, with the table of pages
\* 8-15 at page 6. Frames 5-8, 10 and 11 are left to programs of two slots that
\* touch four pages each; frame 9 has a bit left over by memset, frame 12 is in
\* the part of the bitmap that is not scanned.
SPECIFICATION Spec
CONSTANTS
  NFrames = 13
  WordSize = 4
  TableSize = 8
  NPages = 16
  KernelEnds = {3, 13}
  Stray = {9}
  Slots = {0, 1}
  UserPages = {9, 12, 13, 15}
INVARIANTS TypeOK FramesExclusive FramesAccounted KernelIdentity
\* A kernel that ends at page 13 leaves too little memory. PANIC stops the machine.
CHECK_DEADLOCK FALSE
