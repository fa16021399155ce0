---------------------------------- MODULE Ata ----------------------------------
(***************************************************************************)
(* The disk driver (ata_driver/ata_driver.c, and the retries of            *)
(* Ata_fat_system in fat_driver/fat_driver.cpp) and the device it polls,   *)
(* which is external: it is busy after a command and after each sector     *)
(* written to it, then asks for data, or has an error; it hears no command *)
(* while it is busy, and its error bit stays until the next one. The       *)
(* driver runs with interrupts off, so only the device moves with it.      *)
(***************************************************************************)
EXTENDS Integers, Sequences

CONSTANTS
  NSectors,   \* sectors of the disk that are looked at
  Count,      \* sectors of a request
  PollLimit,  \* polls before ata_read returns false, 1000 in the code
  Tries,      \* calls of ata_read for one read, 10 in the code
  Junk,       \* what a sector of a buffer that was never filled may hold
  MaxFaults   \* bound: errors of the device

ASSUME AtaAssumption ==
  /\ {NSectors, Count, PollLimit, Tries} \subseteq Nat \ {0} /\ MaxFaults \in Nat
  /\ Count <= NSectors

VARIABLES
  disk,   \* the sectors
  dev,    \* the device: its status bits, its command, where it is in it
  drv,    \* the driver: where it is in ata_read or ata_write, its locals and its result
  faults, \* history: errors of the device
  late    \* history: the read that gave up with the device still at it: no command was
          \* heard since

ata_vars == <<disk, dev, drv, faults, late>>

Sector == 0 .. NSectors - 1

NoRead == -1

DevIdle == [busy |-> FALSE, drq |-> FALSE, err |-> FALSE,
            op |-> "none", lba |-> 0, left |-> 0, data |-> <<>>]
DrvIdle == [pc |-> "idle", lba |-> 0, i |-> 0, n |-> 0, tries |-> 0, buf |-> <<>>, ok |-> TRUE]

AtaTypeOK ==
  /\ DOMAIN disk = Sector
  /\ {dev.busy, dev.drq, dev.err, drv.ok} \subseteq BOOLEAN
  /\ dev.op \in {"none", "read", "write", "flush"}
  /\ dev.left \in 0 .. Count /\ (dev.left > 0 => dev.lba \in Sector)
  /\ drv.pc \in {"idle", "r_wait", "r_poll", "read", "w_poll", "w_flush", "w_end", "written"}
  /\ drv.lba \in 0 .. NSectors - Count /\ drv.i \in 0 .. Count
  /\ drv.n \in 0 .. PollLimit /\ drv.tries \in 0 .. Tries
  /\ Len(drv.buf) \in 0 .. Count
  /\ faults \in 0 .. MaxFaults /\ late \in {NoRead} \cup 0 .. NSectors - Count

-----------------------------------------------------------------------------
(* The device.                                                             *)

\* A command, and the registers it takes.
Command(op, lba) ==
  IF dev.busy THEN dev
  ELSE [DevIdle EXCEPT !.busy = TRUE, !.op = op, !.lba = lba,
                       !.left = IF op = "flush" THEN 0 ELSE Count]

\* A read or a write that is heard ends the read that had given up.
Forget == late' = IF dev.busy THEN late ELSE NoRead

\* One sector is done.
Advance(d) ==
  IF d.left = 1 THEN DevIdle
  ELSE [d EXCEPT !.lba = @ + 1, !.left = @ - 1, !.data = <<>>]

DevReady ==
  /\ dev.busy
  /\ IF dev.data # <<>>
     THEN LET d == Advance(dev)
          IN /\ disk' = [disk EXCEPT ![dev.lba] = dev.data]
             /\ dev' = [d EXCEPT !.busy = FALSE, !.drq = d.left > 0]
     ELSE dev' = [dev EXCEPT !.busy = FALSE, !.drq = dev.left > 0] /\ UNCHANGED disk
  /\ UNCHANGED <<drv, faults, late>>

DevFail ==
  /\ dev.busy /\ faults < MaxFaults
  /\ dev' = [DevIdle EXCEPT !.err = TRUE]
  /\ faults' = faults + 1
  /\ UNCHANGED <<disk, drv, late>>

-----------------------------------------------------------------------------
(* ata_read, with the retries.                                             *)

StartRead(lba) == drv' = [DrvIdle EXCEPT !.pc = "r_wait", !.lba = lba]

\* status&(1<<7)!=0 is the error bit: the wait ends when there is none. The number of
\* polls is looked at only then.
ReadWait ==
  /\ drv.pc = "r_wait"
  /\ IF dev.err
     THEN /\ drv.n < PollLimit /\ drv' = [drv EXCEPT !.n = @ + 1]
          /\ UNCHANGED <<dev, late>>
     ELSE /\ dev' = Command("read", drv.lba) /\ Forget
          /\ drv' = [drv EXCEPT !.pc = "r_poll", !.n = 0, !.i = 0, !.buf = <<>>]
  /\ UNCHANGED <<disk, faults>>

\* ata_read returns false: it is called again, and at last the caller gets a buffer that
\* is not all filled.
TryAgain ==
  IF drv.tries + 1 < Tries
  THEN drv' = [drv EXCEPT !.pc = "r_wait", !.n = 0, !.tries = @ + 1] /\ UNCHANGED late
  ELSE /\ \E s \in Junk :
            drv' = [drv EXCEPT !.pc = "read", !.ok = FALSE, !.tries = @ + 1,
                               !.buf = @ \o [k \in 1 .. Count - Len(@) |-> s]]
       /\ late' = IF late = NoRead /\ dev.op # "none" THEN drv.lba ELSE late

\* A sector comes through the data port, which shows anything when the device has none.
TakeSector ==
  /\ \E s \in IF dev.drq THEN {disk[dev.lba]} ELSE Junk :
       drv' = [drv EXCEPT !.buf = Append(@, s), !.i = @ + 1, !.n = 0,
                          !.pc = IF drv.i + 1 = Count THEN "read" ELSE @]
  /\ dev' = IF dev.drq THEN [Advance(dev) EXCEPT !.busy = dev.left > 1, !.drq = FALSE] ELSE dev
  /\ UNCHANGED late

\* Faulty: the sector is taken also when the polls ran out.
ReadPollTakes ==
  /\ drv.pc = "r_poll"
  /\ \/ dev.err /\ TryAgain /\ UNCHANGED dev
     \/ ~dev.err /\ (drv.n = PollLimit \/ dev.drq) /\ TakeSector
     \/ /\ ~dev.err /\ ~dev.drq /\ drv.n < PollLimit
        /\ drv' = [drv EXCEPT !.n = @ + 1] /\ UNCHANGED <<dev, late>>
  /\ UNCHANGED <<disk, faults>>

ReadPoll ==
  /\ drv.pc = "r_poll"
  /\ \/ (dev.err \/ drv.n = PollLimit) /\ TryAgain /\ UNCHANGED dev
     \/ ~dev.err /\ drv.n < PollLimit /\ dev.drq /\ TakeSector
     \/ /\ ~dev.err /\ drv.n < PollLimit /\ ~dev.drq
        /\ drv' = [drv EXCEPT !.n = @ + 1] /\ UNCHANGED <<dev, late>>
  /\ UNCHANGED <<disk, faults>>

-----------------------------------------------------------------------------
(* ata_write.                                                              *)

StartWrite(lba, buf) ==
  /\ dev' = Command("write", lba) /\ Forget
  /\ drv' = [DrvIdle EXCEPT !.pc = "w_poll", !.lba = lba, !.buf = buf]

\* Faulty: one sector too many.
GiveSectorMore ==
  /\ drv' = [drv EXCEPT !.i = @ + 1, !.n = 0,
                        !.pc = IF drv.i = Count THEN "w_flush" ELSE @]
  /\ dev' = IF dev.drq /\ dev.op = "write"
            THEN [dev EXCEPT !.busy = TRUE, !.drq = FALSE, !.data = drv.buf[drv.i + 1]] ELSE dev

\* A sector goes through the data port, to a device that asks for it or not.
GiveSector ==
  /\ drv' = [drv EXCEPT !.i = @ + 1, !.n = 0,
                        !.pc = IF drv.i + 1 = Count THEN "w_flush" ELSE @]
  /\ dev' = IF dev.drq /\ dev.op = "write"
            THEN [dev EXCEPT !.busy = TRUE, !.drq = FALSE, !.data = drv.buf[drv.i + 1]] ELSE dev

\* The error bit is looked at only after the device was seen busy.
WritePoll ==
  /\ drv.pc = "w_poll"
  /\ \/ drv.n = 1 /\ dev.err /\ drv' = [drv EXCEPT !.pc = "written", !.ok = FALSE] /\ UNCHANGED dev
     \/ ~(drv.n = 1 /\ dev.err) /\ ~dev.busy /\ GiveSector
     \/ drv.n = 0 /\ dev.busy /\ drv' = [drv EXCEPT !.n = 1] /\ UNCHANGED dev
  /\ UNCHANGED <<disk, faults, late>>

WriteFlush ==
  /\ drv.pc = "w_flush"
  /\ dev' = Command("flush", 0)
  /\ drv' = [drv EXCEPT !.pc = "w_end"]
  /\ UNCHANGED <<disk, faults, late>>

\* Faulty: it does not wait for the device.
WriteEndAtOnce ==
  /\ drv.pc = "w_end"
  /\ drv' = [drv EXCEPT !.pc = "written", !.ok = ~dev.err]
  /\ UNCHANGED <<disk, dev, faults, late>>

\* Faulty: it waits for the other status bit.
WriteEndAsked ==
  /\ drv.pc = "w_end" /\ dev.drq
  /\ drv' = [drv EXCEPT !.pc = "written", !.ok = ~dev.err]
  /\ UNCHANGED <<disk, dev, faults, late>>

WriteEnd ==
  /\ drv.pc = "w_end" /\ ~dev.busy
  /\ drv' = [drv EXCEPT !.pc = "written", !.ok = ~dev.err]
  /\ UNCHANGED <<disk, dev, faults, late>>

Driver == ReadWait \/ ReadPoll \/ WritePoll \/ WriteFlush \/ WriteEnd

-----------------------------------------------------------------------------
(* Properties.                                                             *)

\* What the device sends to the driver: it is still at the read that gave up, as long as it
\* has heard no command since.
Answered == IF late = NoRead THEN drv.lba ELSE late

\* A read that returns true filled the buffer with the sectors it was asked for, though
\* the device may be answering the command of an earlier try; after a read that gave up,
\* which the device may still be at, with all the sectors of that one: never with some
\* of each, nor with what the data port shows when the device has nothing to send.
RightSectors ==
  drv.pc = "read" /\ drv.ok => \A k \in 1 .. Count : drv.buf[k] = disk[Answered + k - 1]

\* A write that returns true is on the disk, if the device has had no error and heard it:
\* it is not at a read that has given up.
WriteLands ==
  drv.pc = "written" /\ drv.ok /\ faults = 0 /\ late = NoRead =>
    \A k \in 1 .. Count : disk[drv.lba + k - 1] = drv.buf[k]

\* A request ends, but for a read after an error: it waits for ever for the error bit
\* to go, which only a command can do.
RequestEnds ==
  drv.pc \notin {"idle", "read", "written"} ~>
    drv.pc \in {"idle", "read", "written"} \/ (drv.pc = "r_wait" /\ dev.err)
================================================================================
