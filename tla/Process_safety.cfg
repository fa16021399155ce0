\* Every file kind and every point of a launch; three slots.
SPECIFICATION Spec
CONSTANTS
  NProcess = 3
  FileKinds = {"elf", "other", "absent"}
  IrqPoints = {"launch_pid", "launch_proc", "launch_jump"}
INVARIANTS TypeOK RunningIsCurrent WaitingFrameOwned
PROPERTIES LifeCycle ZombieKept
\* The machine stops: kernel_main may loop for ever, and so may a lost context.
CHECK_DEADLOCK FALSE
