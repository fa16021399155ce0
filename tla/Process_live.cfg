\* Two slots, programs and missing files, no tick lost between the stores of a launch.
SPECIFICATION FairSpec
CONSTANTS
  NProcess = 2
  FileKinds = {"elf", "absent"}
  IrqPoints = {"launch_pid"}
INVARIANTS NeverCrashes
PROPERTIES SchedulerFindsWork  
\* The machine stops: kernel_main may loop for ever, and so may a lost context.
CHECK_DEADLOCK FALSE
