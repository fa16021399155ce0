\* Three clusters of two bytes, two entries, files of up to five bytes: two files
\* fill the disk, one file takes all of it, a write fails half-way.
SPECIFICATION Spec
CONSTANTS
  a = a
  b = b
  p = p
  Names = {a, b}
  NClusters = 3
  BPC = 2
  NEntries = 2
  Procs = {p}
  NFiles = 2
  MaxLen = 5
  Lengths = {1, 4}
  Unchecked = {}
INVARIANTS TypeOK TableSound DataInPlace ReadsInOrder ShortReads
PROPERTIES FilesKept
SYMMETRY Symmetry
CHECK_DEADLOCK FALSE
