SPECIFICATION Spec
CONSTANTS
  NSectors = 3
  Count = 2
  PollLimit = 2
  Tries = 2
  Junk <- MCJunk
  MaxFaults = 1
  Half = 4
  Base = 16
  SectorSize = 8
  FatSize = 2
  Types <- MCTypes
  MaxTasks = 4
INVARIANTS TypeOK RightSectors WriteLands TableKept
PROPERTIES FreeIsFree RequestEnds
CHECK_DEADLOCK FALSE
