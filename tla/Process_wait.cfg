\* Two slots: a father and the son it waits for.
SPECIFICATION Spec
CONSTANTS
  NProcess = 2
  FileKinds = {"elf"}
  IrqPoints = {"launch_pid"}
INVARIANTS WaitReportsReapedChild
CHECK_DEADLOCK FALSE
