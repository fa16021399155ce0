\* Three slots: a grandfather, a father and a son.
SPECIFICATION Spec
CONSTANTS
  NProcess = 3
  FileKinds = {"elf"}
  IrqPoints = {"launch_pid"}
INVARIANTS DeadFatherReleasesSons
CHECK_DEADLOCK FALSE
