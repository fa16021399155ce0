------------------------------ MODULE DiskProofs -------------------------------
(***************************************************************************)
(* The table of clusters on the disk is what was set, for any number of    *)
(* sectors, of tries, of faults and of tasks.                              *)
(*                                                                         *)
(* The argument: DriverInv follows the device through a request: where it  *)
(* is among the sectors is where the driver is, or among those of a read   *)
(* that gave up, or it is behind and the read cannot end with success.     *)
(* TableInv says that what is in the buffer of a write agrees with what    *)
(* was set, so that each sector written keeps the table; it needs that two *)
(* clusters taken never have the same entry, hence that a cluster found    *)
(* free has none of them, hence the links. OwnedInv is what the search     *)
(* adds: an entry that is not zero, on the disk or in the buffer of a      *)
(* write, is of a cluster that is taken or in hand, and the search has     *)
(* gone past no other.                                                     *)
(***************************************************************************)
EXTENDS Disk, FatTableProofs, SequenceTheorems

SectorData == {s \in Seq(Byte) : Len(s) = SectorSize}

Pcs == {"idle", "r_wait", "r_poll", "read", "w_poll", "w_flush", "w_end", "written"}
WritePcs == {"w_poll", "w_flush", "w_end", "written"}

-----------------------------------------------------------------------------
(* The invariant of the driver and the device.                             *)

Shapes ==
  /\ disk \in [Sector -> SectorData]
  /\ dev \in [busy : BOOLEAN, drq : BOOLEAN, err : BOOLEAN,
              op : {"none", "read", "write", "flush"}, lba : Nat, left : 0 .. Count,
              data : SectorData \cup {<<>>}]
  /\ drv \in [pc : Pcs, lba : 0 .. NSectors - Count, i : 0 .. Count, n : 0 .. PollLimit,
              tries : 0 .. Tries, buf : Seq(SectorData), ok : BOOLEAN]
  /\ Len(drv.buf) <= Count
  /\ faults \in 0 .. MaxFaults /\ late \in {NoRead} \cup 0 .. NSectors - Count

Device ==
  /\ dev.op \in {"none", "flush"} => dev.left = 0 /\ dev.data = <<>> /\ ~dev.drq
  /\ dev.op = "none" => ~dev.busy
  /\ dev.op \in {"read", "write"} => /\ dev.left > 0 /\ dev.lba + dev.left <= NSectors
                                     /\ dev.busy <=> ~dev.drq
                                     /\ dev.drq => dev.data = <<>>
  /\ dev.op = "read" => dev.data = <<>>
  /\ dev.err => dev.op = "none"

Free == ~dev.busy /\ dev.op \in {"none", "flush"}

\* The device is at a sector of the request, with the last one still to do.
AtSector == dev.lba + dev.left = drv.lba + Count

Matches(m) == \A k \in 1 .. m : disk[drv.lba + k - 1] = drv.buf[k]

\* The device has the sectors before the i-th, and may be writing that one.
Given(i) ==
  /\ AtSector
  /\ dev.data = <<>> => dev.left = Count - i
  /\ dev.data # <<>> => dev.left = Count - i + 1 /\ dev.data = drv.buf[i]
  /\ Matches(Count - dev.left)

Excused == faults > 0 \/ late # NoRead

\* The device is at the read that gave up.
AtLate == dev.op = "read" /\ late # NoRead /\ dev.lba + dev.left = late + Count

\* The device is at the read it answers, and those sectors are in the buffer.
AtAnswer == dev.op = "read" /\ dev.lba + dev.left = Answered + Count
Sent(m)  == \A k \in 1 .. m : disk[Answered + k - 1] = drv.buf[k]

\* Only fat_next_cluster may get the answer of another read.
OwnAnswer == late # NoRead => task.op = "follow"

ReadInv ==
  /\ drv.pc = "idle" => (lost = {} => Free) /\ (~Free => AtLate)
  /\ drv.pc = "r_wait" => drv.tries < Tries /\ (Free \/ (AtAnswer /\ OwnAnswer))
  /\ drv.pc = "r_poll" =>
       /\ drv.tries < Tries /\ drv.i < Count /\ Len(drv.buf) = drv.i /\ OwnAnswer
       /\ \/ dev.op = "none"
          \/ /\ AtAnswer /\ drv.i + dev.left <= Count
             /\ drv.i + dev.left = Count => Sent(drv.i)
  /\ drv.pc = "read" =>
       /\ Len(drv.buf) = Count
       /\ drv.ok => Free /\ Sent(Count) /\ OwnAnswer
       /\ ~Free => AtLate

WriteInv ==
  /\ drv.pc \in WritePcs => Len(drv.buf) = Count
  /\ drv.pc = "w_poll" =>
       /\ drv.i < Count /\ dev.op # "flush"
       /\ dev.op = "none" => Excused
  /\ drv.pc \in {"w_poll", "w_flush", "w_end"} =>
       /\ dev.op = "write" => Given(drv.i)
       /\ dev.op = "read" => late # NoRead
  /\ drv.pc = "w_flush" =>
       /\ drv.i = Count /\ dev.op # "flush"
       /\ dev.op = "read" => ~dev.busy
       /\ dev.op = "none" => Matches(Count) \/ Excused
  /\ drv.pc = "w_end" =>
       /\ drv.i = Count /\ dev.op # "read"
       /\ dev.op # "write" => Matches(Count) \/ Excused
  /\ drv.pc = "written" => Free /\ (drv.ok => Matches(Count) \/ Excused)

DriverInv == Shapes /\ Device /\ ReadInv /\ WriteInv

-----------------------------------------------------------------------------
(* The invariant of the table.                                             *)

\* Each cluster of the table can be the value of an entry.
LinksFit == \A ty \in Types : \A c \in Clusters(ty) : c < fat_last_cluster(ty)

\* A cluster that is not taken, nor has the entry of one that is.
Fresh(c) == c \in Clusters(type) \ Taken /\ \A d \in Taken : ~Same(c, d)

Unlinked(c) == \A d \in Taken : want[d] # c

\* The second set of the growth of a directory: a link leads to the cluster already.
Pending == task.op = "extend_dir" /\ task.f = "set" /\ task.todo = <<>>

Links ==
  /\ want \in [Clusters(type) -> Int]
  /\ \A c \in Taken : want[c] \in 1 .. Values(type) - 1
  /\ \A c \in Taken : want[c] < LastCluster => want[c] \in Taken \/ (Pending /\ want[c] = task.c)
  /\ \A c, d \in Taken : want[c] = want[d] /\ want[c] < LastCluster => c = d
  /\ \A c, d \in Taken : Same(c, d) => c = d

Task == [op : {"none", "new", "extend", "extend_dir", "follow", "remove"},
         f : {"", "free", "next", "set"}, c : Int, v : Int, todo : Seq(Int \X Int), tail : Int]

TaskShape ==
  /\ type \in Types /\ lost \subseteq Sector /\ tasks \in 0 .. MaxTasks /\ task \in Task
  /\ (task.op = "none") <=> (drv.pc = "idle")
  /\ task.op = "none" => task = NoTask
  /\ task.op # "none" => task.c \in Clusters(type) /\ drv.lba = SectorOf(task.c)
                         /\ task.f \in {"free", "next", "set"}
  /\ task.f \in {"free", "next"} => /\ drv.pc \in {"r_wait", "r_poll", "read"}
                                    /\ task.op # "follow" => lost = {}
  /\ task.f = "free" => task.op \in {"new", "extend", "extend_dir"}
  /\ task.f = "next" => task.op \in {"follow", "remove"}

Goal ==
  /\ task.f = "free" /\ task.op # "new" => task.tail \in Tails
  /\ task.f = "next" => task.c \in Taken
  /\ task.f = "next" /\ task.op = "remove" => Unlinked(task.c)
  /\ task.f = "set" =>
       /\ \A d \in Taken \ {task.c} : ~Same(task.c, d)
       /\ \/ /\ task.op \in {"new", "extend_dir"} /\ task.todo = <<>>
             /\ Fresh(task.c) /\ task.v = -1
          \/ /\ task.op = "extend" /\ Fresh(task.c) /\ task.v = -1
             /\ task.tail \in Tails /\ task.todo = <<<<task.tail, task.c>>>>
          \/ /\ task.op = "extend" /\ task.todo = <<>>
             /\ task.c \in Tails /\ task.v \in Taken /\ Unlinked(task.v)
          \/ /\ task.op = "extend_dir" /\ task.c \in Tails
             /\ Fresh(task.v) /\ task.todo = <<<<task.v, -1>>>>
          \/ /\ task.op = "remove" /\ task.todo = <<>> /\ task.v = 0
             /\ task.c \in Taken /\ Unlinked(task.c) /\ task.tail = want[task.c]

\* The buffer of a write keeps the table.
BufferKept ==
  Writing =>
    /\ \A c \in Taken \ {task.c}, k \in 1 .. Count :
         SectorOf(c) = drv.lba + k - 1 /\ SectorOf(c) \notin lost => Entry(type, drv.buf[k], c) = want[c]
    /\ \A k \in 1 .. Count :
         drv.lba + k - 1 = FatSize /\ FatSize \notin lost => drv.buf[k] = After
    /\ Entry(type, drv.buf[1], task.c) = task.v % Values(type)

TableInv == TaskShape /\ Links /\ Goal /\ TableKept /\ BufferKept

Inv == DriverInv /\ TableInv

-----------------------------------------------------------------------------
(* The steps of the device and of the driver.                              *)

LEMMA Bounds ==
  /\ Count \in Nat \ {0} /\ NSectors \in Nat \ {0} /\ PollLimit \in Nat \ {0}
  /\ Tries \in Nat \ {0} /\ MaxFaults \in Nat /\ Count <= NSectors
  /\ Count = 2 /\ NSectors = FatSize + 1 /\ FatSize \in Nat \ {0} /\ SectorSize \in Nat
  /\ SectorSize >= 4
BY AtaAssumption, DiskAssumption, FatTableAssumption

LEMMA SectorNotEmpty == <<>> \notin SectorData
BY Bounds DEF SectorData

LEMMA JunkShape == Junk \subseteq SectorData
<1> SUFFICES ASSUME NEW s \in Junk PROVE s \in SectorData
  OBVIOUS
<1>1. s \in [1 .. SectorSize -> Byte]
  BY DiskAssumption DEF Byte
<1> QED BY <1>1, Bounds DEF SectorData

LEMMA Fields ==
  ASSUME Shapes
  PROVE  /\ dev.left \in 0 .. Count /\ dev.left \in Int /\ dev.lba \in Nat
         /\ drv.lba \in 0 .. NSectors - Count /\ drv.lba \in Nat
         /\ drv.i \in 0 .. Count /\ drv.i \in Nat /\ drv.pc \in Pcs
         /\ drv.buf \in Seq(SectorData) /\ Len(drv.buf) \in 0 .. Count
         /\ DOMAIN disk = Sector /\ Answered \in 0 .. NSectors - Count /\ Answered \in Nat
<1>1. dev.left \in 0 .. Count /\ dev.lba \in Nat
  BY DEF Shapes
<1>2. drv.lba \in 0 .. NSectors - Count /\ drv.i \in 0 .. Count /\ drv.pc \in Pcs
      /\ drv.buf \in Seq(SectorData)
  BY DEF Shapes
<1>3. Len(drv.buf) \in Nat /\ Len(drv.buf) <= Count
  BY <1>2 DEF Shapes
<1>4. DOMAIN disk = Sector
  BY DEF Shapes
<1>5. Count \in Nat /\ NSectors - Count \in Nat
  BY Bounds
<1>6. Answered \in 0 .. NSectors - Count
  BY <1>2 DEF Shapes, Answered
<1> QED BY <1>1, <1>2, <1>3, <1>4, <1>5, <1>6

LEMMA DevReadyKeeps ==
  ASSUME DriverInv, DevReady, UNCHANGED disk_vars
  PROVE  DriverInv'
<1> USE Bounds, SectorNotEmpty
<1>1. /\ dev.busy /\ drv' = drv /\ faults' = faults /\ late' = late /\ lost' = lost
      /\ task' = task
  BY DEF DevReady, disk_vars
<1>4. /\ dev.left \in Int /\ dev.lba \in Nat /\ drv.lba \in Nat /\ drv.i \in Nat
      /\ DOMAIN disk = Sector
  BY Fields DEF DriverInv
<1>2. CASE dev.data # <<>>
  <2>1. dev.op = "write" /\ dev.left > 0 /\ dev.data \in SectorData /\ ~dev.drq
        /\ dev.lba \in Sector
    <3>1. dev.data \in SectorData
      BY <1>2 DEF DriverInv, Shapes
    <3>2. dev.op = "write"
      BY <1>2 DEF DriverInv, Shapes, Device
    <3>3. dev.left > 0 /\ ~dev.drq
      BY <1>1, <3>2 DEF DriverInv, Shapes, Device
    <3>4. dev.lba \in Sector
      BY <3>2 DEF DriverInv, Shapes, Device, Sector
    <3> QED BY <3>1, <3>2, <3>3, <3>4
  <2>2. disk' = [disk EXCEPT ![dev.lba] = dev.data]
    BY <1>2 DEF DevReady
  <2>6. drv.pc \in {"w_poll", "w_flush", "w_end"} =>
          Given(drv.i) /\ drv.i = Count - dev.left + 1 /\ Matches(drv.i)'
    <3> SUFFICES ASSUME drv.pc \in {"w_poll", "w_flush", "w_end"}
                 PROVE  Given(drv.i) /\ drv.i = Count - dev.left + 1 /\ Matches(drv.i)'
      OBVIOUS
    <3>1. Given(drv.i)
      BY <2>1 DEF DriverInv, WriteInv
    <3>2. drv.i = Count - dev.left + 1 /\ dev.lba = drv.lba + drv.i - 1 /\ dev.data = drv.buf[drv.i]
          /\ drv.lba \in Nat /\ drv.i \in Nat
      <4>1. dev.left = Count - drv.i + 1 /\ dev.lba + dev.left = drv.lba + Count
        BY <1>2, <3>1 DEF Given, AtSector
      <4>2. dev.data = drv.buf[drv.i]
        BY <1>2, <3>1 DEF Given
      <4>3. drv.i = Count - dev.left + 1
        BY ONLY <1>4, <4>1, Bounds
      <4>4. dev.lba = drv.lba + drv.i - 1
        BY ONLY <1>4, <4>1, Bounds
      <4> QED BY ONLY <1>4, <4>2, <4>3, <4>4
    <3>3. \A k \in 1 .. drv.i - 1 : disk[drv.lba + k - 1] = drv.buf[k]
      BY <1>4, <3>1, <3>2 DEF Given, Matches
    <3>4. \A k \in 1 .. drv.i : disk'[drv.lba + k - 1] = drv.buf[k]
      <4> SUFFICES ASSUME NEW k \in 1 .. drv.i
                   PROVE  disk'[drv.lba + k - 1] = drv.buf[k]
        OBVIOUS
      <4>2. CASE k = drv.i
        BY <1>4, <2>1, <2>2, <3>2, <4>2
      <4>3. CASE k # drv.i
        <5>1. k \in 1 .. drv.i - 1 /\ drv.lba + k - 1 # dev.lba
          BY <1>4, <3>2, <4>3
        <5>2. disk'[drv.lba + k - 1] = disk[drv.lba + k - 1]
          BY <2>2, <5>1
        <5> QED BY <3>3, <5>1, <5>2
      <4> QED BY <4>2, <4>3
    <3> QED BY <1>1, <3>1, <3>2, <3>4 DEF Matches
  <2>3. CASE dev.left = 1
    <3>1. dev' = [busy |-> FALSE, drq |-> FALSE, err |-> FALSE,
                  op |-> "none", lba |-> 0, left |-> 0, data |-> <<>>]
      <4>1. Advance(dev) = DevIdle
        BY <2>3 DEF Advance
      <4>2. dev' = [DevIdle EXCEPT !.busy = FALSE, !.drq = DevIdle.left > 0]
        BY <1>2, <4>1 DEF DevReady
      <4>3. (DevIdle.left > 0) = FALSE
        BY DEF DevIdle
      <4> QED BY <4>2, <4>3 DEF DevIdle
    <3>2. Shapes'
      BY <1>1, <2>1, <2>2, <3>1 DEF DriverInv, Shapes
    <3>5. Device'
      BY <3>1 DEF Device
    <3>3. ReadInv'
      BY <1>1, <2>1, <2>2, <3>1 DEF DriverInv, Shapes, ReadInv, Free, DevIdle, Pcs, AtLate,
        AtAnswer, OwnAnswer
    <3>4. WriteInv'
      BY <1>1, <2>1, <2>3, <2>6, <3>1 DEF DriverInv, Shapes, WriteInv, Free, WritePcs, Excused
    <3> QED BY <3>2, <3>3, <3>4, <3>5 DEF DriverInv
  <2>4. CASE dev.left # 1
    <3>1. dev' = [busy |-> FALSE, drq |-> TRUE, err |-> dev.err, op |-> "write",
                  lba |-> dev.lba + 1, left |-> dev.left - 1, data |-> <<>>]
      <4>1. Advance(dev) = [dev EXCEPT !.lba = @ + 1, !.left = @ - 1, !.data = <<>>]
        BY <2>4 DEF Advance
      <4>2. dev' = [Advance(dev) EXCEPT !.busy = FALSE, !.drq = Advance(dev).left > 0]
        BY <1>2 DEF DevReady
      <4>3. dev \in [busy : BOOLEAN, drq : BOOLEAN, err : BOOLEAN,
                     op : {"none", "read", "write", "flush"}, lba : Nat, left : 0 .. Count,
                     data : SectorData \cup {<<>>}]
        BY DEF DriverInv, Shapes
      <4>4. Advance(dev).left = dev.left - 1 /\ (dev.left - 1 > 0) = TRUE
        BY <2>1, <2>4, <4>1, <4>3
      <4> QED BY <2>1, <4>1, <4>2, <4>3, <4>4
    <3>2. Shapes'
      BY <1>1, <2>1, <2>2, <2>4, <3>1 DEF DriverInv, Shapes
    <3>5. Device'
      BY <2>1, <2>4, <3>1 DEF DriverInv, Device, Shapes
    <3>3. ReadInv'
      BY <1>1, <2>1, <2>2, <3>1 DEF DriverInv, Shapes, ReadInv, Free, Pcs, AtLate,
        AtAnswer, OwnAnswer
    <3>4. WriteInv'
      <4>1. drv.pc \in {"w_poll", "w_flush", "w_end"} => Given(drv.i)'
        <5> SUFFICES ASSUME drv.pc \in {"w_poll", "w_flush", "w_end"} PROVE Given(drv.i)'
          OBVIOUS
        <5>1. dev'.left = dev.left - 1 /\ dev'.lba = dev.lba + 1 /\ dev'.data = <<>>
          BY <3>1
        <5>2. AtSector /\ drv.i = Count - dev.left + 1
          BY <2>6 DEF Given
        <5>3. AtSector' /\ dev'.left = Count - drv.i /\ Count - dev'.left = drv.i
          <6>1. dev.lba + dev.left = drv.lba + Count
            BY <5>2 DEF AtSector
          <6>2. dev'.lba + dev'.left = drv.lba + Count
            BY ONLY <1>4, <5>1, <6>1, Bounds
          <6>3. dev'.left = Count - drv.i /\ Count - dev'.left = drv.i
            BY ONLY <1>4, <5>1, <5>2, Bounds
          <6> QED BY <1>1, <6>2, <6>3 DEF AtSector
        <5> QED BY <1>1, <2>6, <5>1, <5>3 DEF Given
      <4> QED BY <1>1, <2>1, <2>4, <2>6, <3>1, <4>1 DEF DriverInv, Shapes, WriteInv, Free, WritePcs, Excused
    <3> QED BY <3>2, <3>3, <3>4, <3>5 DEF DriverInv
  <2> QED BY <2>3, <2>4
<1>3. CASE dev.data = <<>>
  <2>1. disk' = disk /\ dev' = [dev EXCEPT !.busy = FALSE, !.drq = dev.left > 0]
    BY <1>3 DEF DevReady
  <2>6. (dev.left > 0) \in BOOLEAN
    OBVIOUS
  <2>2. Shapes'
    BY <1>1, <1>3, <2>1, <2>6 DEF DriverInv, Shapes
  <2>5. Device'
    BY <1>1, <1>3, <2>1 DEF DriverInv, Device, Shapes
  <2>3. ReadInv'
    BY <1>1, <1>3, <2>1 DEF DriverInv, Shapes, Device, ReadInv, Free, AtLate, AtAnswer,
      OwnAnswer, Answered, Sent
  <2>4. WriteInv'
    BY <1>1, <1>3, <2>1 DEF DriverInv, Shapes, Device, WriteInv, Free, AtSector, Matches, Given,
      WritePcs, Excused
  <2> QED BY <2>2, <2>3, <2>4, <2>5 DEF DriverInv
<1> QED BY <1>2, <1>3

LEMMA DevFailKeeps ==
  ASSUME DriverInv, DevFail, UNCHANGED disk_vars
  PROVE  DriverInv'
<1>1. disk' = disk /\ drv' = drv /\ late' = late /\ lost' = lost /\ faults' = faults + 1
      /\ faults < MaxFaults /\ task' = task
  BY DEF DevFail, disk_vars
<1>2. dev' = [busy |-> FALSE, drq |-> FALSE, err |-> TRUE,
              op |-> "none", lba |-> 0, left |-> 0, data |-> <<>>]
  BY DEF DevFail, DevIdle
<1>3. faults' > 0 /\ faults' \in 0 .. MaxFaults
  BY <1>1, Bounds DEF DriverInv, Shapes
<1>4. Shapes'
  BY <1>1, <1>2, <1>3, Bounds DEF DriverInv, Shapes
<1>5. Device'
  BY <1>2 DEF Device
<1>6. ReadInv'
  BY <1>1, <1>2 DEF DriverInv, ReadInv, Free, OwnAnswer, Answered, Sent
<1>7. WriteInv'
  BY <1>1, <1>2, <1>3 DEF DriverInv, WriteInv, Free, Matches, Excused, WritePcs
<1> QED BY <1>4, <1>5, <1>6, <1>7 DEF DriverInv

\* A device that is busy hears no command; another starts anew.
LEMMA Commanded ==
  ASSUME Shapes, Device, NEW op \in {"read", "write"}, NEW lba \in 0 .. NSectors - Count
  PROVE  LET d == Command(op, lba)
         IN /\ d \in [busy : BOOLEAN, drq : BOOLEAN, err : BOOLEAN,
                      op : {"none", "read", "write", "flush"}, lba : Nat, left : 0 .. Count,
                      data : SectorData \cup {<<>>}]
            /\ dev.busy => d = dev
            /\ ~dev.busy => d = [busy |-> TRUE, drq |-> FALSE, err |-> FALSE, op |-> op,
                                 lba |-> lba, left |-> Count, data |-> <<>>]
<1>1. CASE dev.busy
  BY <1>1 DEF Command, Shapes
<1>2. CASE ~dev.busy
  <2>1. Command(op, lba) = [busy |-> TRUE, drq |-> FALSE, err |-> FALSE, op |-> op,
                            lba |-> lba, left |-> Count, data |-> <<>>]
    BY <1>2 DEF Command, DevIdle
  <2>2. lba \in Nat /\ Count \in 0 .. Count
    BY Bounds
  <2> QED BY <1>2, <2>1, <2>2
<1> QED BY <1>1, <1>2

LEMMA ReadWaitKeeps ==
  ASSUME DriverInv, ReadWait, UNCHANGED disk_vars
  PROVE  DriverInv'
<1>1. drv.pc = "r_wait" /\ disk' = disk /\ faults' = faults /\ lost' = lost /\ task' = task
  BY DEF ReadWait, disk_vars
<1>2. drv \in [pc : Pcs, lba : 0 .. NSectors - Count, i : 0 .. Count, n : 0 .. PollLimit,
               tries : 0 .. Tries, buf : Seq(SectorData), ok : BOOLEAN]
  BY DEF DriverInv, Shapes
<1>3. drv.tries < Tries /\ (Free \/ (AtAnswer /\ OwnAnswer))
  BY <1>1 DEF DriverInv, ReadInv
<1>4. CASE dev.err
  <2>1. drv' = [drv EXCEPT !.n = @ + 1] /\ drv.n < PollLimit /\ dev' = dev /\ late' = late
    BY <1>4 DEF ReadWait
  <2>2. drv.n + 1 \in 0 .. PollLimit
    BY <1>2, <2>1, Bounds
  <2>3. Shapes'
    BY <1>1, <1>2, <2>1, <2>2 DEF DriverInv, Shapes
  <2>4. Device'
    BY <2>1 DEF DriverInv, Device
  <2>5. drv'.pc = "r_wait" /\ drv'.tries = drv.tries /\ drv'.lba = drv.lba
    BY <1>1, <1>2, <2>1
  <2>6. ReadInv'
    BY <1>1, <1>3, <2>1, <2>5 DEF ReadInv, Free, AtAnswer, OwnAnswer, Answered
  <2>7. WriteInv'
    BY <2>5 DEF WriteInv, WritePcs
  <2> QED BY <2>3, <2>4, <2>6, <2>7 DEF DriverInv
<1>5. CASE ~dev.err
  <2>1. drv' = [drv EXCEPT !.pc = "r_poll", !.n = 0, !.i = 0, !.buf = <<>>]
        /\ dev' = Command("read", drv.lba) /\ late' = IF dev.busy THEN late ELSE NoRead
    BY <1>5 DEF ReadWait, Forget
  <2>2. /\ drv'.pc = "r_poll" /\ drv'.tries = drv.tries /\ drv'.lba = drv.lba
        /\ drv'.i = 0 /\ drv'.buf = <<>>
    BY <1>2, <2>1
  <2>3. drv' \in [pc : Pcs, lba : 0 .. NSectors - Count, i : 0 .. Count, n : 0 .. PollLimit,
                  tries : 0 .. Tries, buf : Seq(SectorData), ok : BOOLEAN]
    <3>1. <<>> \in Seq(SectorData) /\ 0 \in 0 .. Count /\ 0 \in 0 .. PollLimit /\ "r_poll" \in Pcs
      BY Bounds DEF Pcs
    <3> QED BY <1>2, <2>1, <3>1
  <2>4. Shapes'
    <3>1. Len(drv'.buf) <= Count
      BY <2>2, Bounds
    <3>2. dev' \in [busy : BOOLEAN, drq : BOOLEAN, err : BOOLEAN,
                    op : {"none", "read", "write", "flush"}, lba : Nat, left : 0 .. Count,
                    data : SectorData \cup {<<>>}]
      BY <1>2, <2>1, Commanded DEF DriverInv
    <3> QED BY <1>1, <2>1, <2>3, <3>1, <3>2 DEF DriverInv, Shapes
  <2>5. Device' /\ AtAnswer' /\ OwnAnswer' /\ dev'.left \in 1 .. Count
    <3>1. CASE dev.busy
      <4>1. dev' = dev /\ late' = late
        BY <1>2, <2>1, <3>1, Commanded DEF DriverInv
      <4>2. AtAnswer /\ OwnAnswer
        BY <1>3, <3>1 DEF Free
      <4>3. dev.left \in 1 .. Count
        BY <4>2, Fields DEF DriverInv, Device, AtAnswer
      <4> QED BY <1>1, <2>2, <4>1, <4>2, <4>3 DEF DriverInv, Device, AtAnswer, OwnAnswer, Answered
    <3>2. CASE ~dev.busy
      <4>1. dev' = [busy |-> TRUE, drq |-> FALSE, err |-> FALSE, op |-> "read",
                    lba |-> drv.lba, left |-> Count, data |-> <<>>]
        BY <1>2, <2>1, <3>2, Commanded DEF DriverInv
      <4>2. drv.lba + Count <= NSectors /\ Count \in 1 .. Count
        BY Fields, Bounds DEF DriverInv
      <4> QED BY <2>1, <2>2, <3>2, <4>1, <4>2 DEF Device, AtAnswer, OwnAnswer, Answered
    <3> QED BY <3>1, <3>2
  <2>6. ReadInv'
    <3>1. drv'.i < Count /\ Len(drv'.buf) = drv'.i /\ drv'.i + dev'.left <= Count
      BY <2>2, <2>5, Bounds
    <3>2. Sent(drv.i)'
      BY <2>2 DEF Sent
    <3> QED BY <1>3, <2>2, <2>5, <3>1, <3>2 DEF ReadInv
  <2>7. WriteInv'
    BY <2>2 DEF WriteInv, WritePcs
  <2> QED BY <2>4, <2>5, <2>6, <2>7 DEF DriverInv
<1> QED BY <1>4, <1>5

LEMMA ReadPollKeeps ==
  ASSUME DriverInv, ReadPoll, UNCHANGED disk_vars
  PROVE  DriverInv'
<1>1. drv.pc = "r_poll" /\ disk' = disk /\ faults' = faults /\ lost' = lost /\ task' = task
  BY DEF ReadPoll, disk_vars
<1>2. drv \in [pc : Pcs, lba : 0 .. NSectors - Count, i : 0 .. Count, n : 0 .. PollLimit,
               tries : 0 .. Tries, buf : Seq(SectorData), ok : BOOLEAN]
  BY DEF DriverInv, Shapes
<1>3. /\ drv.tries < Tries /\ drv.i < Count /\ Len(drv.buf) = drv.i /\ OwnAnswer
      /\ \/ dev.op = "none"
         \/ /\ AtAnswer /\ drv.i + dev.left <= Count
            /\ drv.i + dev.left = Count => Sent(drv.i)
  BY <1>1 DEF DriverInv, ReadInv
<1>4. Free \/ AtAnswer
  BY <1>3 DEF DriverInv, Device, Free
<1>5. CASE TryAgain /\ UNCHANGED dev
  <2>1. CASE drv.tries + 1 < Tries
    <3>1. drv' = [drv EXCEPT !.pc = "r_wait", !.n = 0, !.tries = @ + 1] /\ late' = late
      BY <1>5, <2>1 DEF TryAgain
    <3>2. drv'.pc = "r_wait" /\ drv'.tries = drv.tries + 1 /\ drv'.lba = drv.lba /\ drv'.buf = drv.buf
      BY <1>2, <3>1
    <3>3. drv' \in [pc : Pcs, lba : 0 .. NSectors - Count, i : 0 .. Count, n : 0 .. PollLimit,
                    tries : 0 .. Tries, buf : Seq(SectorData), ok : BOOLEAN]
      <4>1. drv.tries + 1 \in 0 .. Tries /\ 0 \in 0 .. PollLimit /\ "r_wait" \in Pcs
        BY <1>2, <2>1, Bounds DEF Pcs
      <4> QED BY <1>2, <3>1, <4>1
    <3>4. Shapes' /\ Device'
      BY <1>1, <1>5, <3>1, <3>2, <3>3 DEF DriverInv, Shapes, Device
    <3>5. ReadInv'
      BY <1>1, <1>3, <1>4, <1>5, <2>1, <3>1, <3>2 DEF ReadInv, Free, AtAnswer, OwnAnswer, Answered
    <3>6. WriteInv'
      BY <3>2 DEF WriteInv, WritePcs
    <3> QED BY <3>4, <3>5, <3>6 DEF DriverInv
  <2>2. CASE ~(drv.tries + 1 < Tries)
    <3>1. PICK s \in Junk :
            drv' = [drv EXCEPT !.pc = "read", !.ok = FALSE, !.tries = @ + 1,
                               !.buf = @ \o [k \in 1 .. Count - Len(@) |-> s]]
      BY <1>5, <2>2 DEF TryAgain
    <3>2. late' = IF late = NoRead /\ dev.op # "none" THEN drv.lba ELSE late
      BY <1>5, <2>2 DEF TryAgain
    <3> DEFINE rest == [k \in 1 .. Count - Len(drv.buf) |-> s]
    <3>3. rest \in Seq(SectorData) /\ Len(rest) = Count - Len(drv.buf)
      <4>1. s \in SectorData
        BY JunkShape
      <4>2. Len(drv.buf) \in 0 .. Count /\ Count \in Nat
        BY Fields, Bounds DEF DriverInv
      <4>3. Count - Len(drv.buf) \in Nat
        BY <4>2
      <4> QED BY <4>1, <4>3
    <3> HIDE DEF rest
    <3>4. drv' = [drv EXCEPT !.pc = "read", !.ok = FALSE, !.tries = drv.tries + 1,
                             !.buf = drv.buf \o rest]
      BY <1>2, <3>1 DEF rest
    <3>5. drv.buf \o rest \in Seq(SectorData) /\ Len(drv.buf \o rest) = Count
      <4>1. /\ drv.buf \o rest \in Seq(SectorData)
            /\ Len(drv.buf \o rest) = Len(drv.buf) + Len(rest)
        BY <1>2, <3>3, ConcatProperties
      <4>2. Len(drv.buf) \in Nat /\ Count \in Nat
        BY Fields, Bounds DEF DriverInv
      <4> QED BY <3>3, <4>1, <4>2
    <3>6. drv'.pc = "read" /\ drv'.ok = FALSE /\ drv'.lba = drv.lba /\ drv'.buf = drv.buf \o rest
      BY <1>2, <3>4
    <3>7. drv' \in [pc : Pcs, lba : 0 .. NSectors - Count, i : 0 .. Count, n : 0 .. PollLimit,
                    tries : 0 .. Tries, buf : Seq(SectorData), ok : BOOLEAN]
      <4>1. drv.tries + 1 \in 0 .. Tries /\ "read" \in Pcs
        BY <1>2, <1>3, Bounds DEF Pcs
      <4> QED BY <1>2, <3>4, <3>5, <4>1
    <3>8. Shapes' /\ Device'
      <4>1. Len(drv'.buf) <= Count /\ late' \in {NoRead} \cup 0 .. NSectors - Count
        BY <1>2, <3>2, <3>5, <3>6, Bounds DEF DriverInv, Shapes
      <4> QED BY <1>1, <1>5, <3>7, <4>1 DEF DriverInv, Shapes, Device
    <3>9. ReadInv'
      <4>1. drv.lba # NoRead
        BY Fields DEF DriverInv, NoRead
      <4>2. ~Free => dev.op = "read" /\ late' # NoRead /\ dev.lba + dev.left = late' + Count
        BY <1>4, <3>2, <4>1 DEF AtAnswer, Answered
      <4> QED BY <1>5, <3>5, <3>6, <4>2 DEF ReadInv, Free, AtLate
    <3>10. WriteInv'
      BY <3>6 DEF WriteInv, WritePcs
    <3> QED BY <3>8, <3>9, <3>10 DEF DriverInv
  <2> QED BY <2>1, <2>2
<1>6. CASE dev.drq /\ TakeSector
  <2>1. dev.op = "read" /\ dev.left \in 1 .. Count /\ dev.lba \in Sector /\ ~dev.busy /\ ~dev.err
        /\ dev.data = <<>> /\ dev.lba + dev.left <= NSectors
    <3>1. dev.op = "read"
      BY <1>3, <1>6 DEF DriverInv, Device, AtAnswer
    <3>2. dev.left > 0 /\ dev.left \in 0 .. Count /\ dev.lba \in Nat /\ dev.lba + dev.left <= NSectors
      BY <3>1, Fields DEF DriverInv, Device
    <3> QED BY <1>6, <3>1, <3>2, Bounds DEF DriverInv, Device, Sector
  <2>2. AtAnswer /\ drv.i + dev.left <= Count /\ (drv.i + dev.left = Count => Sent(drv.i))
    BY <1>3, <2>1
  <2>3. /\ drv' = [drv EXCEPT !.buf = Append(@, disk[dev.lba]), !.i = @ + 1, !.n = 0,
                              !.pc = IF drv.i + 1 = Count THEN "read" ELSE @]
        /\ dev' = [Advance(dev) EXCEPT !.busy = dev.left > 1, !.drq = FALSE]
        /\ late' = late
    BY <1>6 DEF TakeSector
  <2> DEFINE buf == Append(drv.buf, disk[dev.lba])
  <2>4. buf \in Seq(SectorData) /\ Len(buf) = drv.i + 1 /\ buf[drv.i + 1] = disk[dev.lba]
        /\ \A k \in 1 .. drv.i : buf[k] = drv.buf[k]
    <3>1. disk[dev.lba] \in SectorData
      BY <2>1 DEF DriverInv, Shapes
    <3> QED BY <1>2, <1>3, <3>1
  <2>5. /\ drv'.pc = (IF drv.i + 1 = Count THEN "read" ELSE "r_poll") /\ drv'.buf = buf
        /\ drv'.i = drv.i + 1 /\ drv'.lba = drv.lba /\ drv'.tries = drv.tries
    BY <1>1, <1>2, <2>3
  <2> HIDE DEF buf
  <2>6. drv' \in [pc : Pcs, lba : 0 .. NSectors - Count, i : 0 .. Count, n : 0 .. PollLimit,
                  tries : 0 .. Tries, buf : Seq(SectorData), ok : BOOLEAN]
    <3>1. drv.i + 1 \in 0 .. Count /\ 0 \in 0 .. PollLimit /\ {"read", "r_poll"} \subseteq Pcs
      BY <1>2, <1>3, Bounds DEF Pcs
    <3> QED BY <1>1, <1>2, <2>3, <2>4, <3>1 DEF buf
  <2>7. /\ drv.i \in Nat /\ Answered \in Nat /\ dev.left \in Nat /\ dev.lba \in Nat
        /\ dev.lba + dev.left = Answered + Count /\ Count \in Nat
    BY <2>2, Fields, Bounds DEF DriverInv, AtAnswer
  <2>13. Answered' = Answered /\ OwnAnswer'
    BY <1>1, <1>3, <2>3, <2>5 DEF Answered, OwnAnswer
  <2>8. drv.i + dev.left = Count => Sent(drv.i)'
    <3> SUFFICES ASSUME drv.i + dev.left = Count, NEW k \in 1 .. drv.i + 1
                 PROVE  disk[Answered + k - 1] = buf[k]
      BY <1>1, <2>5, <2>13 DEF Sent
    <3>1. CASE k = drv.i + 1
      <4>1. Answered + k - 1 = dev.lba
        BY <2>7, <3>1
      <4> QED BY <2>4, <3>1, <4>1
    <3>2. CASE k # drv.i + 1
      <4>1. k \in 1 .. drv.i
        BY <2>7, <3>2
      <4> QED BY <2>2, <2>4, <4>1 DEF Sent
    <3> QED BY <3>1, <3>2
  <2>9. Shapes' <=> /\ dev' \in [busy : BOOLEAN, drq : BOOLEAN, err : BOOLEAN,
                                 op : {"none", "read", "write", "flush"}, lba : Nat,
                                 left : 0 .. Count, data : SectorData \cup {<<>>}]
    <3>1. Len(drv'.buf) <= Count
      BY <1>3, <2>4, <2>5, <2>7
    <3> QED BY <1>1, <2>3, <2>6, <3>1 DEF DriverInv, Shapes
  <2>10. WriteInv'
    BY <2>5 DEF WriteInv, WritePcs
  <2>11. CASE dev.left = 1
    <3>1. dev' = [busy |-> FALSE, drq |-> FALSE, err |-> FALSE,
                  op |-> "none", lba |-> 0, left |-> 0, data |-> <<>>]
      <4>1. Advance(dev) = DevIdle
        BY <2>11 DEF Advance
      <4>2. (dev.left > 1) = FALSE
        BY <2>11
      <4>3. dev' = [DevIdle EXCEPT !.busy = FALSE, !.drq = FALSE]
        BY <2>3, <4>1, <4>2
      <4> QED BY <4>3 DEF DevIdle
    <3>2. Shapes' /\ Device'
      BY <2>7, <2>9, <3>1, Bounds DEF Device
    <3>3. Free'
      BY <3>1 DEF Free
    <3>4. ReadInv'
      <4>1. drv.i + 1 = Count => Sent(Count)'
        <5> SUFFICES ASSUME drv.i + 1 = Count PROVE Sent(Count)'
          OBVIOUS
        <5>1. Sent(drv.i)' /\ drv'.i = Count
          BY <2>5, <2>8, <2>11
        <5> QED BY <5>1 DEF Sent
      <4>2. drv.i + 1 # Count => drv.i + 1 < Count
        BY <1>3, <2>7
      <4> QED BY <1>3, <2>4, <2>5, <2>13, <3>1, <3>3, <4>1, <4>2 DEF ReadInv
    <3> QED BY <2>10, <3>2, <3>4 DEF DriverInv
  <2>12. CASE dev.left # 1
    <3>1. dev' = [busy |-> TRUE, drq |-> FALSE, err |-> FALSE, op |-> "read",
                  lba |-> dev.lba + 1, left |-> dev.left - 1, data |-> <<>>]
      <4>1. Advance(dev) = [dev EXCEPT !.lba = @ + 1, !.left = @ - 1, !.data = <<>>]
        BY <2>12 DEF Advance
      <4>2. (dev.left > 1) = TRUE
        BY <2>1, <2>12
      <4>3. dev \in [busy : BOOLEAN, drq : BOOLEAN, err : BOOLEAN,
                     op : {"none", "read", "write", "flush"}, lba : Nat, left : 0 .. Count,
                     data : SectorData \cup {<<>>}]
        BY DEF DriverInv, Shapes
      <4>4. dev' = [[dev EXCEPT !.lba = @ + 1, !.left = @ - 1, !.data = <<>>]
                      EXCEPT !.busy = TRUE, !.drq = FALSE]
        BY <2>3, <4>1, <4>2
      <4> QED BY <2>1, <4>3, <4>4
    <3>2. dev.left - 1 \in 1 .. Count /\ dev.lba + 1 \in Nat
          /\ (dev.lba + 1) + (dev.left - 1) = Answered + Count /\ dev.left - 1 <= Count
          /\ (dev.lba + 1) + (dev.left - 1) <= NSectors
      BY <2>1, <2>7, <2>12, Bounds
    <3>3. Shapes' /\ Device'
      <4>1. dev.left - 1 \in 0 .. Count
        BY <3>2
      <4> QED BY <2>9, <3>1, <3>2, <4>1 DEF Device
    <3>4. AtAnswer' /\ dev'.left = dev.left - 1
      BY <2>13, <3>1, <3>2 DEF AtAnswer
    <3>5. drv.i + 1 < Count
      BY <2>1, <2>2, <2>7, <2>12
    <3>6. /\ drv'.i + dev'.left <= Count
          /\ drv'.i + dev'.left = Count => Sent(drv.i)'
      BY <2>2, <2>5, <2>7, <2>8, <3>4 DEF Sent
    <3>7. ReadInv'
      <4>1. drv'.pc = "r_poll"
        BY <2>5, <2>7, <3>5
      <4> QED BY <1>3, <2>4, <2>5, <2>13, <3>4, <3>5, <3>6, <4>1 DEF ReadInv
    <3> QED BY <2>10, <3>3, <3>7 DEF DriverInv
  <2> QED BY <2>11, <2>12
<1>7. CASE drv.n < PollLimit /\ drv' = [drv EXCEPT !.n = @ + 1] /\ UNCHANGED <<dev, late>>
  <2>1. /\ drv'.pc = "r_poll" /\ drv'.tries = drv.tries /\ drv'.lba = drv.lba
        /\ drv'.i = drv.i /\ drv'.buf = drv.buf
    BY <1>1, <1>2, <1>7
  <2>2. drv' \in [pc : Pcs, lba : 0 .. NSectors - Count, i : 0 .. Count, n : 0 .. PollLimit,
                  tries : 0 .. Tries, buf : Seq(SectorData), ok : BOOLEAN]
    <3>1. drv.n + 1 \in 0 .. PollLimit
      BY <1>2, <1>7, Bounds
    <3> QED BY <1>2, <1>7, <3>1
  <2>3. Shapes' /\ Device'
    BY <1>1, <1>7, <2>1, <2>2 DEF DriverInv, Shapes, Device
  <2>4. ReadInv'
    BY <1>1, <1>3, <1>7, <2>1 DEF ReadInv, AtAnswer, OwnAnswer, Answered, Sent
  <2>5. WriteInv'
    BY <2>1 DEF WriteInv, WritePcs
  <2> QED BY <2>3, <2>4, <2>5 DEF DriverInv
<1> QED BY <1>5, <1>6, <1>7 DEF ReadPoll

LEMMA WritePollKeeps ==
  ASSUME DriverInv, WritePoll, UNCHANGED disk_vars
  PROVE  DriverInv'
<1>1. drv.pc = "w_poll" /\ disk' = disk /\ faults' = faults /\ late' = late /\ lost' = lost
  BY DEF WritePoll, disk_vars
<1>2. drv \in [pc : Pcs, lba : 0 .. NSectors - Count, i : 0 .. Count, n : 0 .. PollLimit,
               tries : 0 .. Tries, buf : Seq(SectorData), ok : BOOLEAN]
  BY DEF DriverInv, Shapes
<1>3. /\ Len(drv.buf) = Count /\ drv.i < Count /\ dev.op # "flush"
      /\ dev.op = "none" => Excused
      /\ dev.op = "write" => Given(drv.i)
      /\ dev.op = "read" => late # NoRead
  BY <1>1 DEF DriverInv, WriteInv, WritePcs
<1>4. CASE dev.err /\ drv' = [drv EXCEPT !.pc = "written", !.ok = FALSE] /\ UNCHANGED dev
  <2>1. drv'.pc = "written" /\ drv'.ok = FALSE /\ drv'.buf = drv.buf
    BY <1>2, <1>4
  <2>2. drv' \in [pc : Pcs, lba : 0 .. NSectors - Count, i : 0 .. Count, n : 0 .. PollLimit,
                  tries : 0 .. Tries, buf : Seq(SectorData), ok : BOOLEAN]
    BY <1>2, <1>4 DEF Pcs
  <2>3. Shapes' /\ Device'
    BY <1>1, <1>4, <2>1, <2>2 DEF DriverInv, Shapes, Device
  <2>4. ReadInv'
    BY <2>1 DEF ReadInv
  <2>5. Free'
    BY <1>4 DEF DriverInv, Device, Free
  <2>6. WriteInv'
    BY <1>3, <2>1, <2>5 DEF WriteInv
  <2> QED BY <2>3, <2>4, <2>6 DEF DriverInv
<1>5. CASE ~dev.busy /\ GiveSector
  <2>1. drv' = [drv EXCEPT !.i = @ + 1, !.n = 0,
                           !.pc = IF drv.i + 1 = Count THEN "w_flush" ELSE @]
    BY <1>5 DEF GiveSector
  <2>2. /\ drv'.pc = (IF drv.i + 1 = Count THEN "w_flush" ELSE "w_poll")
        /\ drv'.buf = drv.buf /\ drv'.lba = drv.lba /\ drv'.i = drv.i + 1
    BY <1>1, <1>2, <2>1
  <2>3. drv.i \in Nat /\ drv.lba \in Nat /\ dev.left \in Nat /\ Count \in Nat
    BY Fields, Bounds DEF DriverInv
  <2>4. drv' \in [pc : Pcs, lba : 0 .. NSectors - Count, i : 0 .. Count, n : 0 .. PollLimit,
                  tries : 0 .. Tries, buf : Seq(SectorData), ok : BOOLEAN]
    <3>1. drv.i + 1 \in 0 .. Count /\ 0 \in 0 .. PollLimit /\ {"w_flush", "w_poll"} \subseteq Pcs
      BY <1>2, <1>3, Bounds DEF Pcs
    <3> QED BY <1>1, <1>2, <2>1, <3>1
  <2>5. ReadInv'
    BY <2>2 DEF ReadInv
  <2>6. CASE dev.op = "write"
    <3>1. dev.drq /\ ~dev.err /\ dev.data = <<>> /\ dev.left > 0
      BY <1>5, <2>6 DEF DriverInv, Device
    <3>2. AtSector /\ dev.left = Count - drv.i /\ Matches(Count - dev.left)
      BY <1>3, <2>6, <3>1 DEF Given
    <3>3. dev' = [dev EXCEPT !.busy = TRUE, !.drq = FALSE, !.data = drv.buf[drv.i + 1]]
      BY <1>5, <2>6, <3>1 DEF GiveSector
    <3>4. drv.buf[drv.i + 1] \in SectorData
      <4>1. drv.i + 1 \in 1 .. Len(drv.buf)
        BY <1>3, <2>3
      <4> QED BY <1>2, <4>1
    <3>5. dev' \in [busy : BOOLEAN, drq : BOOLEAN, err : BOOLEAN,
                    op : {"none", "read", "write", "flush"}, lba : Nat, left : 0 .. Count,
                    data : SectorData \cup {<<>>}]
      BY <3>3, <3>4 DEF DriverInv, Shapes
    <3>6. /\ dev'.busy = TRUE /\ dev'.drq = FALSE /\ dev'.err = dev.err /\ dev'.op = dev.op
          /\ dev'.lba = dev.lba /\ dev'.left = dev.left /\ dev'.data = drv.buf[drv.i + 1]
      BY <3>3 DEF DriverInv, Shapes
    <3>7. Shapes'
      BY <1>1, <1>3, <2>2, <2>4, <3>5 DEF DriverInv, Shapes
    <3>8. Device'
      BY <2>6, <3>1, <3>6 DEF DriverInv, Device
    <3>9. Given(drv.i)'
      <4>1. AtSector' /\ Matches(Count - dev.left)'
        BY <1>1, <2>2, <3>2, <3>6 DEF AtSector, Matches
      <4>2. dev'.data # <<>>
        BY <3>4, <3>6, SectorNotEmpty
      <4>3. dev'.left = Count - drv'.i + 1 /\ dev'.data = drv'.buf[drv'.i]
        BY <2>2, <2>3, <3>2, <3>6
      <4> QED BY <4>1, <4>2, <4>3 DEF Given
    <3>10. WriteInv'
      BY <1>3, <2>2, <2>3, <2>6, <3>6, <3>9 DEF WriteInv, WritePcs
    <3> QED BY <2>5, <3>7, <3>8, <3>10 DEF DriverInv
  <2>7. CASE dev.op # "write"
    <3>1. dev' = dev
      BY <1>5, <2>7 DEF GiveSector
    <3>2. Shapes' /\ Device'
      BY <1>1, <1>3, <2>2, <2>4, <3>1 DEF DriverInv, Shapes, Device
    <3>3. WriteInv'
      BY <1>1, <1>3, <1>5, <2>2, <2>3, <2>7, <3>1 DEF WriteInv, WritePcs, Excused
    <3> QED BY <2>5, <3>2, <3>3 DEF DriverInv
  <2> QED BY <2>6, <2>7
<1>6. CASE drv' = [drv EXCEPT !.n = 1] /\ UNCHANGED dev
  <2>1. drv'.pc = "w_poll" /\ drv'.buf = drv.buf /\ drv'.lba = drv.lba /\ drv'.i = drv.i
    BY <1>1, <1>2, <1>6
  <2>2. drv' \in [pc : Pcs, lba : 0 .. NSectors - Count, i : 0 .. Count, n : 0 .. PollLimit,
                  tries : 0 .. Tries, buf : Seq(SectorData), ok : BOOLEAN]
    <3>1. 1 \in 0 .. PollLimit
      BY Bounds
    <3> QED BY <1>2, <1>6, <3>1
  <2>3. Shapes' /\ Device'
    BY <1>1, <1>6, <2>1, <2>2 DEF DriverInv, Shapes, Device
  <2>4. ReadInv'
    BY <2>1 DEF ReadInv
  <2>5. dev.op = "write" => Given(drv.i)'
    BY <1>1, <1>3, <1>6, <2>1 DEF Given, AtSector, Matches
  <2>6. WriteInv'
    BY <1>1, <1>3, <1>6, <2>1, <2>5 DEF WriteInv, WritePcs, Excused
  <2> QED BY <2>3, <2>4, <2>6 DEF DriverInv
<1> QED BY <1>4, <1>5, <1>6 DEF WritePoll

LEMMA WriteFlushKeeps ==
  ASSUME DriverInv, WriteFlush, UNCHANGED disk_vars
  PROVE  DriverInv'
<1>1. drv.pc = "w_flush" /\ disk' = disk /\ faults' = faults /\ late' = late /\ lost' = lost
      /\ drv' = [drv EXCEPT !.pc = "w_end"] /\ dev' = Command("flush", 0)
  BY DEF WriteFlush, disk_vars
<1>2. drv \in [pc : Pcs, lba : 0 .. NSectors - Count, i : 0 .. Count, n : 0 .. PollLimit,
               tries : 0 .. Tries, buf : Seq(SectorData), ok : BOOLEAN]
  BY DEF DriverInv, Shapes
<1>3. /\ Len(drv.buf) = Count /\ drv.i = Count /\ dev.op # "flush"
      /\ dev.op = "none" => Matches(Count) \/ Excused
      /\ dev.op = "write" => Given(drv.i)
      /\ dev.op = "read" => ~dev.busy /\ late # NoRead
  BY <1>1 DEF DriverInv, WriteInv, WritePcs
<1>4. drv'.pc = "w_end" /\ drv'.buf = drv.buf /\ drv'.lba = drv.lba /\ drv'.i = drv.i
  BY <1>1, <1>2
<1>5. drv' \in [pc : Pcs, lba : 0 .. NSectors - Count, i : 0 .. Count, n : 0 .. PollLimit,
                tries : 0 .. Tries, buf : Seq(SectorData), ok : BOOLEAN]
  BY <1>1, <1>2 DEF Pcs
<1>6. ReadInv'
  BY <1>4 DEF ReadInv
<1>7. CASE dev.busy
  <2>1. dev' = dev /\ dev.op = "write"
    BY <1>1, <1>3, <1>7 DEF Command, DriverInv, Device, Shapes
  <2>2. Shapes' /\ Device'
    BY <1>1, <1>4, <1>5, <2>1 DEF DriverInv, Shapes, Device
  <2>3. Given(drv.i)'
    BY <1>1, <1>3, <1>4, <2>1 DEF Given, AtSector, Matches
  <2>4. WriteInv'
    BY <1>3, <1>4, <2>1, <2>3 DEF WriteInv, WritePcs
  <2> QED BY <1>6, <2>2, <2>4 DEF DriverInv
<1>8. CASE ~dev.busy
  <2>1. dev' = [busy |-> TRUE, drq |-> FALSE, err |-> FALSE, op |-> "flush",
                lba |-> 0, left |-> 0, data |-> <<>>]
    BY <1>1, <1>8 DEF Command, DevIdle
  <2>2. Shapes' /\ Device'
    <3>1. 0 \in 0 .. Count
      BY Bounds
    <3>4. dev' \in [busy : BOOLEAN, drq : BOOLEAN, err : BOOLEAN,
                    op : {"none", "read", "write", "flush"}, lba : Nat, left : 0 .. Count,
                    data : SectorData \cup {<<>>}]
      BY <2>1, <3>1
    <3>2. Shapes'
      BY <1>1, <1>4, <1>5, <3>4 DEF DriverInv, Shapes
    <3>3. Device'
      BY <2>1 DEF Device
    <3> QED BY <3>2, <3>3
  <2>3. Matches(Count) \/ Excused
    <3>1. CASE dev.op = "none"
      BY <1>3, <3>1
    <3>2. CASE dev.op = "read"
      BY <1>3, <3>2 DEF Excused
    <3>3. CASE dev.op = "write"
      <4>1. dev.data = <<>> /\ dev.left > 0
        BY <1>8, <3>3 DEF DriverInv, Device
      <4>2. dev.left = Count - Count
        BY <1>3, <3>3, <4>1 DEF Given
      <4> QED BY <4>1, <4>2, Bounds
    <3> QED BY <1>3, <3>1, <3>2, <3>3 DEF DriverInv, Shapes
  <2>4. (Matches(Count) \/ Excused)'
    BY <1>1, <1>4, <2>3 DEF Matches, Excused
  <2>5. WriteInv'
    BY <1>3, <1>4, <2>1, <2>4 DEF WriteInv, WritePcs
  <2> QED BY <1>6, <2>2, <2>5 DEF DriverInv
<1> QED BY <1>7, <1>8

LEMMA WriteEndKeeps ==
  ASSUME DriverInv, WriteEnd, UNCHANGED disk_vars
  PROVE  DriverInv'
<1>1. drv.pc = "w_end" /\ UNCHANGED <<disk, dev, faults, late, lost>> /\ ~dev.busy
      /\ drv' = [drv EXCEPT !.pc = "written", !.ok = ~dev.err]
  BY DEF WriteEnd, disk_vars
<1>2. drv \in [pc : Pcs, lba : 0 .. NSectors - Count, i : 0 .. Count, n : 0 .. PollLimit,
               tries : 0 .. Tries, buf : Seq(SectorData), ok : BOOLEAN]
  BY DEF DriverInv, Shapes
<1>3. /\ Len(drv.buf) = Count /\ drv.i = Count /\ dev.op # "read"
      /\ dev.op # "write" => Matches(Count) \/ Excused
      /\ dev.op = "write" => Given(drv.i)
  BY <1>1 DEF DriverInv, WriteInv, WritePcs
<1>4. drv'.pc = "written" /\ drv'.buf = drv.buf /\ drv'.lba = drv.lba
  BY <1>1, <1>2
<1>5. drv' \in [pc : Pcs, lba : 0 .. NSectors - Count, i : 0 .. Count, n : 0 .. PollLimit,
                tries : 0 .. Tries, buf : Seq(SectorData), ok : BOOLEAN]
  <2>1. (~dev.err) \in BOOLEAN
    OBVIOUS
  <2> QED BY <1>1, <1>2, <2>1 DEF Pcs
<1>6. dev.op # "write"
  <2> SUFFICES ASSUME dev.op = "write" PROVE FALSE
    OBVIOUS
  <2>1. dev.data = <<>> /\ dev.left > 0
    BY <1>1 DEF DriverInv, Device
  <2>2. dev.left = Count - Count
    BY <1>3, <2>1 DEF Given
  <2> QED BY <2>1, <2>2, Bounds
<1>7. Free'
  BY <1>1, <1>3, <1>6 DEF Free, DriverInv, Shapes
<1>8. (Matches(Count) \/ Excused)'
  BY <1>1, <1>3, <1>4, <1>6 DEF Matches, Excused
<1>9. Shapes' /\ Device'
  BY <1>1, <1>3, <1>4, <1>5 DEF DriverInv, Shapes, Device
<1>10. ReadInv' /\ WriteInv'
  BY <1>3, <1>4, <1>7, <1>8 DEF ReadInv, WriteInv, WritePcs
<1> QED BY <1>9, <1>10 DEF DriverInv

-----------------------------------------------------------------------------
(* The driver in the steps of the file system.                             *)

LEMMA StartReadKeeps ==
  ASSUME DriverInv, Free \/ (AtLate /\ task'.op = "follow"),
         NEW lba \in 0 .. NSectors - Count, StartRead(lba), UNCHANGED <<disk, dev, faults, late>>
  PROVE  DriverInv'
<1>1. drv' = [pc |-> "r_wait", lba |-> lba, i |-> 0, n |-> 0, tries |-> 0, buf |-> <<>>, ok |-> TRUE]
  BY DEF StartRead, DrvIdle
<1>2. 0 \in 0 .. Count /\ 0 \in 0 .. PollLimit /\ 0 \in 0 .. Tries /\ 0 < Tries
      /\ <<>> \in Seq(SectorData) /\ Len(<<>>) <= Count
  BY Bounds
<1>3. Shapes' /\ Device'
  BY <1>1, <1>2 DEF DriverInv, Shapes, Device, Pcs
<1>4. ReadInv' /\ WriteInv'
  BY <1>1, <1>2 DEF ReadInv, WriteInv, WritePcs, Free, AtLate, AtAnswer, OwnAnswer, Answered
<1> QED BY <1>3, <1>4 DEF DriverInv

LEMMA StopKeeps ==
  ASSUME DriverInv, drv' = DrvIdle, UNCHANGED <<disk, dev, faults, late>>,
         lost' = {} => Free, ~Free => AtLate
  PROVE  DriverInv'
<1>1. drv' = [pc |-> "idle", lba |-> 0, i |-> 0, n |-> 0, tries |-> 0, buf |-> <<>>, ok |-> TRUE]
  BY DEF DrvIdle
<1>2. 0 \in 0 .. Count /\ 0 \in 0 .. PollLimit /\ 0 \in 0 .. Tries /\ 0 \in 0 .. NSectors - Count
      /\ <<>> \in Seq(SectorData) /\ Len(<<>>) <= Count
  BY Bounds
<1>3. Shapes' /\ Device'
  BY <1>1, <1>2 DEF DriverInv, Shapes, Device, Pcs
<1>4. ReadInv' /\ WriteInv'
  BY <1>1, <1>2 DEF ReadInv, WriteInv, WritePcs, Free, AtLate
<1> QED BY <1>3, <1>4 DEF DriverInv

LEMMA StartWriteKeeps ==
  ASSUME DriverInv, drv.pc = "read", NEW buf \in Seq(SectorData), Len(buf) = Count,
         StartWrite(drv.lba, buf), UNCHANGED <<disk, faults>>
  PROVE  DriverInv'
<1>1. drv' = [pc |-> "w_poll", lba |-> drv.lba, i |-> 0, n |-> 0, tries |-> 0, buf |-> buf, ok |-> TRUE]
      /\ dev' = Command("write", drv.lba) /\ late' = IF dev.busy THEN late ELSE NoRead
  BY DEF StartWrite, Forget, DrvIdle
<1>2. 0 \in 0 .. Count /\ 0 \in 0 .. PollLimit /\ 0 \in 0 .. Tries /\ 0 < Count
  BY Bounds
<1>3. drv.lba \in 0 .. NSectors - Count /\ drv.lba + Count <= NSectors /\ Count - Count = 0
  BY Fields, Bounds DEF DriverInv
<1>4. ~Free => dev.op = "read" /\ late # NoRead
  BY DEF DriverInv, ReadInv, AtLate
<1>5. dev' \in [busy : BOOLEAN, drq : BOOLEAN, err : BOOLEAN,
                op : {"none", "read", "write", "flush"}, lba : Nat, left : 0 .. Count,
                data : SectorData \cup {<<>>}]
  BY <1>1, <1>3, Commanded DEF DriverInv
<1>6. Shapes'
  BY <1>1, <1>2, <1>3, <1>5 DEF DriverInv, Shapes, Pcs
<1>7. ReadInv'
  BY <1>1 DEF ReadInv
<1>8. CASE dev.busy
  <2>1. dev' = dev /\ dev.op = "read" /\ late # NoRead /\ late' = late
    BY <1>1, <1>3, <1>4, <1>8, Commanded DEF DriverInv, Free
  <2>2. Device'
    BY <2>1 DEF DriverInv, Device
  <2>3. WriteInv'
    BY <1>1, <1>2, <2>1 DEF WriteInv, WritePcs
  <2> QED BY <1>6, <1>7, <2>2, <2>3 DEF DriverInv
<1>9. CASE ~dev.busy
  <2>1. dev' = [busy |-> TRUE, drq |-> FALSE, err |-> FALSE, op |-> "write",
                lba |-> drv.lba, left |-> Count, data |-> <<>>]
    BY <1>1, <1>3, <1>9, Commanded DEF DriverInv
  <2>2. Device'
    BY <1>2, <1>3, <2>1 DEF Device
  <2>3. Given(drv.i)'
    <3>1. AtSector' /\ dev'.left = Count - drv'.i /\ dev'.data = <<>>
      BY <1>1, <1>3, <2>1, Bounds DEF AtSector
    <3>2. Matches(Count - dev.left)'
      BY <1>3, <2>1 DEF Matches
    <3> QED BY <3>1, <3>2 DEF Given
  <2>4. WriteInv'
    BY <1>1, <1>2, <2>1, <2>3 DEF WriteInv, WritePcs
  <2> QED BY <1>6, <1>7, <2>2, <2>4 DEF DriverInv
<1> QED BY <1>8, <1>9

-----------------------------------------------------------------------------
(* Sectors and entries.                                                    *)

LEMMA ClusterShape ==
  ASSUME NEW ty \in FatTypes, NEW c \in Clusters(ty)
  PROVE  c \in Nat /\ c > 0 /\ sector_offset(ty, c) \in 0 .. FatSize - 1
<1>1. c \in Nat /\ c > 0 /\ sector_offset(ty, c) < FatSize
  BY Bounds DEF Clusters
<1>2. entry_no(ty, c) \in Nat /\ byte_per_entry(ty) \in Nat
  BY <1>1, EntrySize DEF entry_no
<1>3. sector_offset(ty, c) \in Int /\ sector_offset(ty, c) >= 0
  <2>1. entry_no(ty, c) * byte_per_entry(ty) \in Int /\ entry_no(ty, c) * byte_per_entry(ty) >= 0
    BY <1>2
  <2> QED BY <2>1, Quotient, Bounds DEF sector_offset
<1> QED BY <1>1, <1>3, Bounds

LEMMA SectorShape ==
  ASSUME NEW s \in SectorData
  PROVE  s \in Buffers /\ Len(s) = SectorSize /\ \A n \in 1 .. SectorSize : s[n] \in Byte
BY Bounds DEF SectorData, Buffers

\* An entry is in the first of the sectors of a buffer.
LEMMA FirstSector ==
  ASSUME NEW ty \in FatTypes, NEW s \in Buffers, NEW b \in Buffers, NEW c \in Nat,
         \A n \in 1 .. SectorSize : b[n] = s[n]
  PROVE  Entry(ty, b, c) = Entry(ty, s, c)
<1>1. entry_offset(ty, c) \in Nat /\ entry_offset(ty, c) + byte_per_entry(ty) <= SectorSize
      /\ byte_per_entry(ty) \in 2 .. 4 /\ SectorSize \in Nat
  BY InSector, EntrySize
<1>2. ASSUME NEW k \in 0 .. byte_per_entry(ty) - 1
      PROVE  Bytes(ty, b, c)[k] = Bytes(ty, s, c)[k]
  <2>1. entry_offset(ty, c) + k + 1 \in 1 .. SectorSize
    BY <1>1
  <2>2. Bytes(ty, b, c)[k] = b[entry_offset(ty, c) + k + 1]
    BY BytesRead
  <2>3. Bytes(ty, s, c)[k] = s[entry_offset(ty, c) + k + 1]
    BY BytesRead
  <2> QED BY <2>1, <2>2, <2>3
<1>3. entry_val(ty, b, c) = entry_val(ty, s, c)
  <2>1. Number(ty, Bytes(ty, b, c)) = Number(ty, Bytes(ty, s, c))
    BY <1>2, NumberSame
  <2> QED BY <2>1, BytesRead
<1> QED BY <1>3 DEF Entry

LEMMA SameEntry ==
  ASSUME NEW c, NEW d, Same(c, d), NEW s
  PROVE  Entry(type, s, c) = Entry(type, s, d)
<1>1. entry_offset(type, c) = entry_offset(type, d) /\ High(type, c) = High(type, d)
  BY DEF Same
<1>2. entry_val(type, s, c) = entry_val(type, s, d)
  BY <1>1 DEF entry_val
<1> QED BY <1>1, <1>2 DEF Entry

LEMMA BufferShape ==
  ASSUME Shapes, Len(drv.buf) = Count
  PROVE  /\ drv.buf[1] \in SectorData /\ drv.buf[2] \in SectorData
         /\ Buffer \in Buffers /\ Len(Buffer) = SectorSize + SectorSize
         /\ \A n \in 1 .. SectorSize : Buffer[n] = drv.buf[1][n]
         /\ \A n \in 1 .. SectorSize : Buffer[SectorSize + n] = drv.buf[2][n]
<1>1. drv.buf[1] \in SectorData /\ drv.buf[2] \in SectorData
  <2>1. drv.buf \in Seq(SectorData) /\ 1 \in 1 .. Len(drv.buf) /\ 2 \in 1 .. Len(drv.buf)
    BY Fields, Bounds
  <2> QED BY <2>1
<1>2. /\ drv.buf[1] \in Seq(Byte) /\ drv.buf[2] \in Seq(Byte)
      /\ Len(drv.buf[1]) = SectorSize /\ Len(drv.buf[2]) = SectorSize
  BY <1>1 DEF SectorData
<1>3. /\ Buffer \in Seq(Byte) /\ Len(Buffer) = SectorSize + SectorSize
      /\ \A n \in 1 .. SectorSize + SectorSize :
           Buffer[n] = IF n <= SectorSize THEN drv.buf[1][n] ELSE drv.buf[2][n - SectorSize]
  <2> DEFINE x == drv.buf[1]
             y == drv.buf[2]
  <2>1. Buffer = x \o y /\ x \in Seq(Byte) /\ y \in Seq(Byte) /\ Len(x) = SectorSize
        /\ Len(y) = SectorSize
    BY <1>2 DEF Buffer
  <2> HIDE DEF x, y
  <2>2. /\ x \o y \in Seq(Byte) /\ Len(x \o y) = SectorSize + SectorSize
        /\ \A n \in 1 .. SectorSize + SectorSize :
             (x \o y)[n] = IF n <= SectorSize THEN x[n] ELSE y[n - SectorSize]
    <3>1. /\ x \o y \in Seq(Byte) /\ Len(x \o y) = Len(x) + Len(y)
          /\ \A n \in 1 .. Len(x) + Len(y) :
               (x \o y)[n] = IF n <= Len(x) THEN x[n] ELSE y[n - Len(x)]
      BY <2>1, ConcatProperties
    <3> QED BY <2>1, <3>1
  <2> QED BY <2>1, <2>2 DEF x, y
<1>4. ASSUME NEW n \in 1 .. SectorSize
      PROVE  Buffer[n] = drv.buf[1][n] /\ Buffer[SectorSize + n] = drv.buf[2][n]
  <2>1. n \in 1 .. SectorSize + SectorSize /\ n <= SectorSize
        /\ SectorSize + n \in 1 .. SectorSize + SectorSize /\ ~(SectorSize + n <= SectorSize)
        /\ (SectorSize + n) - SectorSize = n
    BY Bounds
  <2> QED BY <1>3, <2>1
<1> QED BY <1>1, <1>3, <1>4, Bounds DEF Buffers

LEMMA Halves ==
  ASSUME NEW b \in Seq(Byte), Len(b) = SectorSize + SectorSize
  PROVE  LET s == SubSeq(b, 1, SectorSize)
             t == SubSeq(b, SectorSize + 1, Len(b))
         IN /\ s \in SectorData /\ t \in SectorData
            /\ \A n \in 1 .. SectorSize : s[n] = b[n]
            /\ \A n \in 1 .. SectorSize : t[n] = b[SectorSize + n]
<1> DEFINE s == SubSeq(b, 1, SectorSize)
           t == SubSeq(b, SectorSize + 1, SectorSize + SectorSize)
<1>1. \A n \in 1 .. SectorSize + SectorSize : b[n] \in Byte
  BY Bounds
<1>2. /\ s \in Seq(Byte) /\ Len(s) = SectorSize
      /\ \A n \in 1 .. SectorSize : s[n] = b[n]
  <2>1. \A n \in 1 .. SectorSize : b[n] \in Byte
    BY <1>1, Bounds
  <2>2. /\ s \in Seq(Byte) /\ Len(s) = IF 1 <= SectorSize THEN SectorSize - 1 + 1 ELSE 0
        /\ \A n \in 1 .. SectorSize - 1 + 1 : s[n] = b[1 + n - 1]
    BY <2>1, SubSeqProperties, Bounds
  <2> HIDE DEF s
  <2>3. SectorSize - 1 + 1 = SectorSize /\ 1 <= SectorSize /\ \A n \in 1 .. SectorSize : 1 + n - 1 = n
    BY Bounds
  <2> QED BY <2>2, <2>3
<1>3. /\ t \in Seq(Byte) /\ Len(t) = SectorSize
      /\ \A n \in 1 .. SectorSize : t[n] = b[SectorSize + n]
  <2> DEFINE m == SectorSize + 1
             e == SectorSize + SectorSize
  <2>1. m \in Int /\ e \in Int /\ \A n \in m .. e : b[n] \in Byte
    BY <1>1, Bounds
  <2>2. e - m + 1 = SectorSize /\ m <= e /\ \A n \in 1 .. SectorSize : m + n - 1 = SectorSize + n
    BY Bounds
  <2>4. t = SubSeq(b, m, e)
    OBVIOUS
  <2> HIDE DEF m, e, t
  <2>3. /\ t \in Seq(Byte) /\ Len(t) = IF m <= e THEN e - m + 1 ELSE 0
        /\ \A n \in 1 .. e - m + 1 : t[n] = b[m + n - 1]
    BY <2>1, <2>4, SubSeqProperties
  <2> QED BY <2>2, <2>3
<1> QED BY <1>2, <1>3 DEF SectorData

\* The values that are set fit, and an end is not a link.
LEMMA ValueShape ==
  ASSUME NEW ty \in FatTypes
  PROVE  /\ Values(ty) \in Nat /\ fat_last_cluster(ty) \in 1 .. Values(ty) - 1
         /\ (-1) % Values(ty) = Values(ty) - 1
         /\ \A v \in Nat : v < fat_last_cluster(ty) => v % Values(ty) = v
<1>1. Values(ty) \in Nat \ {0}
  BY LimitSplit
<1>2. Values(ty) > Half \div 2 /\ Half \div 2 \in Nat /\ Half \div 2 >= 1
  <2>1. Half \in Nat /\ Half > 1 /\ Base \in Nat /\ Base = Half * Half
    BY FatTableAssumption
  <2>2. Half \div 2 \in Nat /\ Half \div 2 >= 1 /\ Half \div 2 < Half
    BY <2>1
  <2>3. Base >= Half
    <3>1. Half * 1 <= Half * Half
      BY <2>1, TimesGrows
    <3> QED BY <2>1, <3>1
  <2>4. \A n \in Nat : n > 0 => Base * n >= Base
    <3> SUFFICES ASSUME NEW n \in Nat, n > 0 PROVE Base * n >= Base
      OBVIOUS
    <3>1. Base * 1 <= Base * n
      BY <2>1, TimesGrows
    <3> QED BY <2>1, <3>1
  <2>5. Values(ty) >= Base
    <3>1. CASE ty = 12
      BY <2>1, <2>4, <3>1 DEF Values
    <3>2. CASE ty = 16
      BY <2>1, <2>3, <2>4, <3>2 DEF Values
    <3>3. CASE ty = 32
      <4>1. Values(ty) = Base * (Base * (Base * Half))
        BY <2>1, <3>3 DEF Values
      <4>2. Base * Half \in Nat /\ Base * Half >= Base
        BY <2>1, <2>4
      <4>3. Base * (Base * Half) \in Nat /\ Base * (Base * Half) >= Base
        BY <2>1, <2>3, <2>4, <4>2
      <4> QED BY <2>1, <2>3, <2>4, <4>1, <4>3
    <3> QED BY <3>1, <3>2, <3>3 DEF FatTypes
  <2> QED BY <1>1, <2>1, <2>2, <2>3, <2>5
<1>3. (-1) % Values(ty) = Values(ty) - 1
  <2>1. Values(ty) * (-1) + (Values(ty) - 1) = -1
    BY <1>1
  <2> QED BY <1>1, <2>1, QuotientUnique
<1> QED BY <1>1, <1>2, <1>3 DEF fat_last_cluster

-----------------------------------------------------------------------------
(* The table while the driver and the device move.                         *)

LEMMA TypeIsFat ==
  ASSUME TaskShape
  PROVE  type \in FatTypes /\ type \in Types
BY DiskAssumption DEF TaskShape

LEMMA WritesSet ==
  ASSUME TaskShape
  PROVE  /\ Writing <=> drv.pc \in WritePcs
         /\ Writing => task.op # "none" /\ task.f = "set"
BY DEF TaskShape, Writing, WritePcs, NoTask

\* Nothing of it changes but the place of the driver in its request.
LEMMA TableStill ==
  ASSUME TableInv, UNCHANGED <<disk, disk_vars>>, drv'.lba = drv.lba,
         drv.pc # "idle", drv'.pc # "idle", drv'.pc \in Pcs,
         drv.pc \in WritePcs <=> drv'.pc \in WritePcs,
         drv.pc \in WritePcs => drv'.buf = drv.buf
  PROVE  TableInv'
<1>1. /\ disk' = disk /\ type' = type /\ task' = task /\ want' = want /\ lost' = lost
      /\ tasks' = tasks
  BY DEF disk_vars
<1>2. TaskShape'
  BY <1>1 DEF TableInv, TaskShape, SectorOf, WritePcs, Pcs
<1>3. Taken' = Taken /\ LastCluster' = LastCluster
  BY <1>1 DEF Taken, LastCluster
<1>4. Tails' = Tails
  BY <1>1, <1>3 DEF Tails
<1>5. Writing' <=> Writing
  BY <1>2, WritesSet DEF TableInv, TaskShape, Writing, WritePcs, NoTask
<1>6. Links'
  BY <1>1, <1>3 DEF TableInv, Links, Pending, Same, SectorOf
<1>7. Goal'
  BY <1>1, <1>3, <1>4 DEF TableInv, Goal, Fresh, Unlinked, Same, SectorOf
<1>8. TableKept'
  BY <1>1, <1>3, <1>5 DEF TableInv, TableKept, SectorOf
<1>9. BufferKept'
  <2> SUFFICES ASSUME Writing' PROVE BufferKept'
    BY DEF BufferKept
  <2>1. Writing /\ drv'.buf = drv.buf
    BY <1>5, WritesSet DEF TableInv
  <2> QED BY <1>1, <1>3, <2>1 DEF TableInv, BufferKept, SectorOf
<1> QED BY <1>2, <1>6, <1>7, <1>8, <1>9 DEF TableInv

\* The sector that the device writes.
LEMMA DeviceWrites ==
  ASSUME DriverInv, TaskShape, dev.data # <<>>
  PROVE  /\ drv.pc \in {"w_poll", "w_flush", "w_end"} /\ drv.i \in 1 .. Count
         /\ dev.lba = drv.lba + drv.i - 1 /\ dev.data = drv.buf[drv.i]
<1>1. dev.op = "write" /\ dev.left > 0
  BY DEF DriverInv, Shapes, Device
<1>2. ~Free
  BY <1>1 DEF Free
<1>3. drv.pc \in {"w_poll", "w_flush", "w_end"}
  BY <1>1, <1>2, Fields DEF DriverInv, ReadInv, WriteInv, AtLate, AtAnswer, Pcs
<1>4. dev.left = Count - drv.i + 1 /\ dev.lba + dev.left = drv.lba + Count /\ dev.data = drv.buf[drv.i]
  BY <1>1, <1>3 DEF DriverInv, WriteInv, Given, AtSector
<1>5. /\ dev.left \in 0 .. Count /\ dev.lba \in Nat /\ drv.lba \in Nat /\ drv.i \in 0 .. Count
      /\ Count \in Nat
  BY Fields, Bounds DEF DriverInv
<1>6. drv.i = Count - dev.left + 1 /\ drv.i >= 1
  BY ONLY <1>1, <1>4, <1>5
<1>7. drv.i \in 1 .. Count
  BY ONLY <1>5, <1>6
<1>8. dev.lba = drv.lba + drv.i - 1
  <2>1. dev.left \in Int /\ dev.lba \in Int /\ drv.lba \in Int /\ drv.i \in Int /\ Count \in Int
    BY ONLY <1>5
  <2>2. dev.left = Count - drv.i + 1 /\ dev.lba + dev.left = drv.lba + Count
    BY ONLY <1>4
  <2> QED BY ONLY <2>1, <2>2
<1> QED BY ONLY <1>3, <1>4, <1>7, <1>8

LEMMA DevReadyTable ==
  ASSUME DriverInv, TableInv, DevReady, UNCHANGED disk_vars
  PROVE  TableInv'
<1>1. /\ type' = type /\ task' = task /\ want' = want /\ lost' = lost
      /\ tasks' = tasks /\ drv' = drv
  BY DEF DevReady, disk_vars
<1>2. CASE dev.data = <<>>
  <2>1. disk' = disk
    BY <1>2 DEF DevReady
  <2>2. CASE drv.pc = "idle"
    BY <1>1, <2>1, <2>2 DEF TableInv, TaskShape, Links, Goal, TableKept, BufferKept, Taken, Tails,
      LastCluster, Fresh, Unlinked, Same, SectorOf, Writing, Pending
  <2>3. CASE drv.pc # "idle"
    BY <1>1, <2>1, <2>3, TableStill, Fields DEF disk_vars, DriverInv
  <2> QED BY <2>2, <2>3
<1>3. CASE dev.data # <<>>
  <2>1. /\ drv.pc \in {"w_poll", "w_flush", "w_end"} /\ drv.i \in 1 .. Count
        /\ dev.lba = drv.lba + drv.i - 1 /\ dev.data = drv.buf[drv.i]
    BY <1>3, DeviceWrites DEF TableInv
  <2>2. disk' = [disk EXCEPT ![dev.lba] = drv.buf[drv.i]]
    BY <1>3, <2>1 DEF DevReady
  <2>3. Writing
    BY <2>1, WritesSet DEF TableInv, WritePcs
  <2>4. Taken' = Taken /\ LastCluster' = LastCluster
    BY <1>1 DEF Taken, LastCluster
  <2>5. Tails' = Tails
    BY <1>1, <2>4 DEF Tails
  <2>6. TaskShape' /\ Links' /\ Goal' /\ (Writing' <=> Writing)
    BY <1>1, <2>4, <2>5 DEF TableInv, TaskShape, Links, Pending, Goal, Fresh, Unlinked, Same,
      SectorOf, Writing
  <2>7. BufferKept'
    BY <1>1, <2>4, <2>6 DEF TableInv, BufferKept, SectorOf
  <2>8. ASSUME NEW c \in Taken, SectorOf(c) \notin lost, c # task.c
        PROVE  Entry(type, disk'[SectorOf(c)], c) = want[c]
    <3>1. Entry(type, disk[SectorOf(c)], c) = want[c]
      BY <2>8 DEF TableInv, TableKept
    <3>2. SectorOf(c) \in Sector
      BY TypeIsFat, ClusterShape, Bounds DEF TableInv, Taken, SectorOf, Sector
    <3>3. CASE SectorOf(c) = dev.lba
      <4>1. Entry(type, drv.buf[drv.i], c) = want[c]
        BY <2>1, <2>3, <2>8, <3>3 DEF TableInv, BufferKept
      <4> QED BY <2>2, <3>2, <3>3, <4>1, Fields DEF DriverInv
    <3>4. CASE SectorOf(c) # dev.lba
      BY <2>2, <3>1, <3>4
    <3> QED BY <3>3, <3>4
  <2>9. FatSize \notin lost => disk'[FatSize] = After
    <3> SUFFICES ASSUME FatSize \notin lost PROVE disk'[FatSize] = After
      OBVIOUS
    <3>1. disk[FatSize] = After /\ FatSize \in Sector
      BY Bounds DEF TableInv, TableKept, Sector
    <3>2. dev.lba = FatSize => drv.buf[drv.i] = After
      BY <2>1, <2>3 DEF TableInv, BufferKept
    <3> QED BY <2>2, <3>1, <3>2, Fields DEF DriverInv
  <2>10. TableKept'
    BY <1>1, <2>3, <2>4, <2>6, <2>8, <2>9 DEF TableKept, SectorOf, After
  <2> QED BY <2>6, <2>7, <2>10 DEF TableInv
<1> QED BY <1>2, <1>3

LEMMA DrivingTable ==
  ASSUME DriverInv, TableInv, DevFail \/ Driver, UNCHANGED disk_vars
  PROVE  TableInv'
<1>1. drv \in [pc : Pcs, lba : 0 .. NSectors - Count, i : 0 .. Count, n : 0 .. PollLimit,
               tries : 0 .. Tries, buf : Seq(SectorData), ok : BOOLEAN]
  BY DEF DriverInv, Shapes
<1>2. CASE DevFail
  <2>1. /\ disk' = disk /\ drv' = drv /\ type' = type /\ task' = task /\ want' = want
        /\ lost' = lost /\ tasks' = tasks
    BY <1>2 DEF DevFail, disk_vars
  <2>2. CASE drv.pc = "idle"
    BY <2>1, <2>2 DEF TableInv, TaskShape, Links, Goal, TableKept, BufferKept, Taken, Tails,
      LastCluster, Fresh, Unlinked, Same, SectorOf, Writing, Pending
  <2>3. CASE drv.pc # "idle"
    BY <2>1, <2>3, TableStill, Fields DEF disk_vars, DriverInv
  <2> QED BY <2>2, <2>3
<1>3. CASE ReadWait
  BY <1>1, <1>3, TableStill DEF ReadWait, WritePcs, Pcs
<1>4. CASE ReadPoll
  <2>1. drv.pc = "r_poll" /\ disk' = disk
    BY <1>4 DEF ReadPoll
  <2>2. drv'.pc \in {"r_wait", "r_poll", "read"} /\ drv'.lba = drv.lba
    BY <1>1, <1>4 DEF ReadPoll, TryAgain, TakeSector
  <2> QED BY <2>1, <2>2, TableStill DEF WritePcs, Pcs
<1>5. CASE WritePoll
  <2>1. drv.pc = "w_poll" /\ disk' = disk
    BY <1>5 DEF WritePoll
  <2>2. drv'.pc \in {"w_poll", "w_flush", "written"} /\ drv'.lba = drv.lba /\ drv'.buf = drv.buf
    BY <1>1, <1>5 DEF WritePoll, GiveSector
  <2> QED BY <2>1, <2>2, TableStill DEF WritePcs, Pcs
<1>6. CASE WriteFlush
  BY <1>1, <1>6, TableStill DEF WriteFlush, WritePcs, Pcs
<1>7. CASE WriteEnd
  BY <1>1, <1>7, TableStill DEF WriteEnd, WritePcs, Pcs
<1> QED BY <1>2, <1>3, <1>4, <1>5, <1>6, <1>7 DEF Driver

-----------------------------------------------------------------------------
(* The steps of the file system.                                           *)

LEMMA FirstSectors == \A c \in Clusters(type) : type \in FatTypes => SectorOf(c) \in 0 .. NSectors - Count
<1> SUFFICES ASSUME NEW c \in Clusters(type), type \in FatTypes
             PROVE  SectorOf(c) \in 0 .. NSectors - Count
  OBVIOUS
<1>1. SectorOf(c) \in 0 .. FatSize - 1
  BY ClusterShape DEF SectorOf
<1> QED BY <1>1, Bounds

\* A call begins.
LEMMA Calling ==
  ASSUME NEW t \in Task, DriverInv, TaskShape, Free \/ (AtLate /\ t.op = "follow"),
         t.op # "none", t.f \in {"free", "next", "set"},
         t.c \in Clusters(type), Call(t), UNCHANGED <<disk, faults, type>>,
         lost' \subseteq Sector, tasks' \in 0 .. MaxTasks,
         t.f \in {"free", "next"} /\ t.op # "follow" => lost' = {},
         t.f = "free" => t.op \in {"new", "extend", "extend_dir"},
         t.f = "next" => t.op \in {"follow", "remove"}
  PROVE  DriverInv' /\ TaskShape' /\ BufferKept' /\ ~Writing' /\ task' = t
<1>1. task' = t /\ dev' = dev /\ late' = late /\ StartRead(SectorOf(t.c))
  BY DEF Call
<1>2. drv'.pc = "r_wait" /\ drv'.lba = SectorOf(t.c)
  BY <1>1 DEF StartRead, DrvIdle
<1>3. DriverInv'
  BY <1>1, FirstSectors, TypeIsFat, StartReadKeeps
<1>4. TaskShape'
  BY <1>1, <1>2 DEF TaskShape, SectorOf
<1>5. ~Writing'
  BY <1>2 DEF Writing
<1> QED BY <1>1, <1>3, <1>4, <1>5 DEF BufferKept

LEMMA Ending ==
  ASSUME DriverInv, TaskShape, End, UNCHANGED <<disk, faults, type, tasks>>,
         lost' \subseteq Sector, lost' = {} => Free, ~Free => AtLate
  PROVE  DriverInv' /\ TaskShape' /\ BufferKept' /\ ~Writing' /\ task' = NoTask
<1>1. task' = NoTask /\ dev' = dev /\ late' = late /\ drv' = DrvIdle
  BY DEF End
<1>2. drv'.pc = "idle"
  BY <1>1 DEF DrvIdle
<1>3. DriverInv'
  BY <1>1, StopKeeps
<1>4. NoTask \in Task /\ NoTask.op = "none" /\ NoTask.f = ""
  BY DEF NoTask, Task
<1>5. TaskShape'
  BY <1>1, <1>2, <1>4 DEF TaskShape
<1>6. ~Writing'
  BY <1>2 DEF Writing
<1> QED BY <1>1, <1>3, <1>5, <1>6 DEF BufferKept

\* The sectors that were asked for are in the buffer, but for fat_next_cluster.
LEMMA ReadSent ==
  ASSUME DriverInv, drv.pc = "read", drv.ok, task.op # "follow"
  PROVE  late = NoRead /\ Matches(Count)
<1>1. Sent(Count) /\ late = NoRead
  BY DEF DriverInv, ReadInv, OwnAnswer
<1> QED BY <1>1 DEF Sent, Matches, Answered

LEMMA SetIsNoFollow ==
  ASSUME TableInv, task.f = "set"
  PROVE  task.op # "follow"
BY DEF TableInv, Goal

\* The table that is not being written stays, if nothing is set.
LEMMA KeptStill ==
  ASSUME TableKept, ~Writing, UNCHANGED <<disk, type, want>>, lost \subseteq lost'
  PROVE  TableKept'
<1>1. Taken' = Taken
  BY DEF Taken
<1> QED BY <1>1 DEF TableKept, SectorOf, After

LEMMA LinksStill ==
  ASSUME Links, ~Pending, UNCHANGED <<type, want>>
  PROVE  Links'
<1>1. Taken' = Taken /\ LastCluster' = LastCluster
  BY DEF Taken, LastCluster
<1> QED BY <1>1 DEF Links, Same, SectorOf

LEMMA TakenStill ==
  ASSUME UNCHANGED <<type, want>>
  PROVE  /\ Taken' = Taken /\ Tails' = Tails
         /\ \A c : (Fresh(c) <=> Fresh(c)') /\ (Unlinked(c) <=> Unlinked(c)')
         /\ \A c, d : Same(c, d) <=> Same(c, d)'
<1>1. Taken' = Taken /\ LastCluster' = LastCluster
  BY DEF Taken, LastCluster
<1>2. \A c, d : Same(c, d) <=> Same(c, d)'
  BY DEF Same, SectorOf
<1> QED BY <1>1, <1>2 DEF Tails, Fresh, Unlinked

LEMMA BeginKeeps ==
  ASSUME DriverInv, TableInv, NEW t \in Task, Begin(t),
         t.c \in Clusters(type),
         \/ /\ t.f = "free" /\ t.op \in {"new", "extend", "extend_dir"}
            /\ t.op # "new" => t.tail \in Tails
         \/ /\ t.f = "next" /\ t.op \in {"follow", "remove"} /\ t.c \in Taken
            /\ t.op = "remove" => Unlinked(t.c)
  PROVE  Inv'
<1>1. /\ task.op = "none" /\ (lost = {} \/ t.op = "follow") /\ tasks < MaxTasks /\ Call(t)
      /\ tasks' = tasks + 1 /\ UNCHANGED <<disk, faults, type, want, lost>>
  BY DEF Begin
<1>2. drv.pc = "idle" /\ (Free \/ (AtLate /\ t.op = "follow")) /\ task = NoTask
  BY <1>1 DEF TableInv, TaskShape, DriverInv, ReadInv
<1>3. tasks' \in 0 .. MaxTasks /\ lost' \subseteq Sector
  BY <1>1, DiskAssumption DEF TableInv, TaskShape
<1>4. DriverInv' /\ TaskShape' /\ BufferKept' /\ ~Writing' /\ task' = t
  BY <1>1, <1>2, <1>3, Calling DEF TableInv
<1>5. Links'
  BY <1>1, <1>2, LinksStill DEF TableInv, Pending, NoTask
<1>6. TableKept'
  BY <1>1, <1>2, KeptStill DEF TableInv, Writing, NoTask
<1>7. Goal'
  BY <1>1, <1>4, TakenStill DEF Goal
<1> QED BY <1>4, <1>5, <1>6, <1>7 DEF Inv, TableInv

LEMMA FileSystemKeeps ==
  ASSUME DriverInv, TableInv, FileSystem
  PROVE  Inv'
<1>1. type \in FatTypes /\ 2 \in Clusters(type)
  BY TypeIsFat, DiskAssumption DEF TableInv
<1>2. ASSUME NEW op \in {"new", "extend", "extend_dir"}, NEW tail \in Int, Take(op, tail),
             op # "new" => tail \in Tails
      PROVE  Inv'
  <2> DEFINE t == [NoTask EXCEPT !.op = op, !.f = "free", !.c = 2, !.tail = tail]
  <2>1. t \in Task /\ t.op = op /\ t.f = "free" /\ t.c = 2 /\ t.tail = tail
    <3>1. NoTask \in Task
      BY DEF Task, NoTask
    <3>3. op \in {"none", "new", "extend", "extend_dir", "follow", "remove"} /\ 2 \in Int
          /\ tail \in Int /\ "free" \in {"", "free", "next", "set"}
      OBVIOUS
    <3>2. t \in Task
      BY ONLY <3>1, <3>3 DEF Task
    <3> QED BY <3>1, <3>2 DEF Task
  <2>2. Begin(t)
    BY <1>2 DEF Take
  <2> HIDE DEF t
  <2> QED BY <1>1, <1>2, <2>1, <2>2, BeginKeeps
<1>3. ASSUME NEW op \in {"follow", "remove"}, NEW c \in Taken, op = "remove" => Unlinked(c),
             Begin([NoTask EXCEPT !.op = op, !.f = "next", !.c = c])
      PROVE  Inv'
  <2> DEFINE t == [NoTask EXCEPT !.op = op, !.f = "next", !.c = c]
  <2>1. c \in Clusters(type) /\ c \in Int
    BY <1>1, ClusterShape DEF Taken
  <2>2. t \in Task /\ t.op = op /\ t.f = "next" /\ t.c = c
    <3>1. NoTask \in Task
      BY DEF Task, NoTask
    <3> QED BY <2>1, <3>1 DEF Task
  <2>3. Begin(t)
    BY <1>3
  <2> HIDE DEF t
  <2> QED BY <1>3, <2>1, <2>2, <2>3, BeginKeeps
<1>4. CASE New
  BY <1>2, <1>4 DEF New
<1>5. ASSUME NEW c \in Taken, Extend(c) \/ ExtendDir(c)
      PROVE  Inv'
  <2>1. c \in Int
    BY <1>1, ClusterShape DEF Taken
  <2> QED BY <1>2, <1>5, <2>1 DEF Extend, ExtendDir
<1>6. ASSUME NEW c \in Taken, Follow(c)
      PROVE  Inv'
  BY <1>3, <1>6 DEF Follow
<1>7. ASSUME NEW c \in Taken, RemoveChain(c)
      PROVE  Inv'
  BY <1>3, <1>7 DEF RemoveChain, Heads, Unlinked
<1> QED BY <1>4, <1>5, <1>6, <1>7 DEF FileSystem

\* The set that comes first of those left.
LEMMA SetNextFirst ==
  ASSUME NEW t \in Task, Head(t.todo) \in Int \X Int, Tail(t.todo) \in Seq(Int \X Int), SetNext(t)
  PROVE  \E u \in Task : /\ Call(u) /\ u.op = t.op /\ u.tail = t.tail /\ u.f = "set"
                         /\ u.c = Head(t.todo)[1] /\ u.v = Head(t.todo)[2] /\ u.todo = Tail(t.todo)
<1> DEFINE u == [t EXCEPT !.f = "set", !.c = Head(t.todo)[1], !.v = Head(t.todo)[2], !.todo = Tail(@)]
<1>1. Call(u)
  BY DEF SetNext
<1>2. Head(t.todo)[1] \in Int /\ Head(t.todo)[2] \in Int
  OBVIOUS
<1>3. "set" \in {"", "free", "next", "set"} /\ Tail(t.todo) \in Seq(Int \X Int)
  OBVIOUS
<1>4. u.op = t.op /\ u.tail = t.tail /\ u.f = "set" /\ u.c = Head(t.todo)[1]
      /\ u.v = Head(t.todo)[2] /\ u.todo = Tail(t.todo)
  BY DEF Task
<1>5. u \in Task
  BY <1>2, <1>3 DEF Task
<1> QED BY <1>1, <1>4, <1>5

LEMMA SetNextOne ==
  ASSUME NEW t \in Task, NEW c \in Int, NEW v \in Int, t.todo = <<<<c, v>>>>, SetNext(t)
  PROVE  \E u \in Task : /\ Call(u) /\ u.op = t.op /\ u.tail = t.tail
                         /\ u.f = "set" /\ u.c = c /\ u.v = v /\ u.todo = <<>>
<1>1. Head(t.todo) = <<c, v>> /\ Tail(t.todo) = <<>>
  OBVIOUS
<1>2. Head(t.todo) \in Int \X Int /\ Tail(t.todo) \in Seq(Int \X Int)
  BY <1>1
<1>3. PICK u \in Task : /\ Call(u) /\ u.op = t.op /\ u.tail = t.tail /\ u.f = "set"
                        /\ u.c = Head(t.todo)[1] /\ u.v = Head(t.todo)[2] /\ u.todo = Tail(t.todo)
  BY <1>2, SetNextFirst
<1> QED BY <1>1, <1>3

-----------------------------------------------------------------------------
(* What was read.                                                          *)

\* Entries with the same place in their sectors.
SamePlaceOf(ty, c, d) == entry_offset(ty, c) = entry_offset(ty, d) /\ High(ty, c) = High(ty, d)
SamePlace(c, d)       == SamePlaceOf(type, c, d)

\* What a set writes back: the first sector with its entry, and the second as it was read.
LEMMA SetBuffer ==
  ASSUME DriverInv, TableInv, ReadDone, task.f = "set"
  PROVE  \E s \in SectorData :
           /\ StartWrite(drv.lba, <<s, drv.buf[2]>>)
           /\ Entry(type, s, task.c) = task.v % Values(type)
           /\ \A c \in Clusters(type) :
                ~SamePlace(task.c, c) => Entry(type, s, c) = Entry(type, drv.buf[1], c)
<1> DEFINE b == SetEntry(type, Buffer, task.c, task.v)
           s == SubSeq(b, 1, SectorSize)
           t == SubSeq(b, SectorSize + 1, Len(b))
<1>1. /\ drv.pc = "read" /\ StartWrite(drv.lba, <<s, t>>) /\ task' = task
      /\ lost' = lost \cup IF drv.ok THEN {} ELSE {drv.lba, drv.lba + 1}
      /\ UNCHANGED <<disk, faults, type, want, tasks>>
  BY DEF ReadDone
<1>2. Len(drv.buf) = Count
  BY <1>1 DEF DriverInv, ReadInv
<1>3. /\ type \in FatTypes /\ task.c \in Clusters(type) /\ task.c \in Nat /\ task.v \in Int
      /\ drv.lba = SectorOf(task.c) /\ task.op # "none"
  <2>1. type \in FatTypes /\ task.op # "none" /\ task.v \in Int
    <3>1. NoTask.f = ""
      BY DEF NoTask
    <3>2. task.op # "none"
      BY <3>1 DEF TableInv, TaskShape
    <3>3. task.v \in Int
      BY DEF TableInv, TaskShape, Task
    <3> QED BY <3>2, <3>3, TypeIsFat DEF TableInv
  <2> QED BY <2>1, ClusterShape DEF TableInv, TaskShape
<1>4. /\ drv.buf[1] \in SectorData /\ drv.buf[2] \in SectorData
      /\ Buffer \in Buffers /\ Len(Buffer) = SectorSize + SectorSize
      /\ \A n \in 1 .. SectorSize : Buffer[n] = drv.buf[1][n]
      /\ \A n \in 1 .. SectorSize : Buffer[SectorSize + n] = drv.buf[2][n]
  BY <1>2, BufferShape DEF DriverInv
<1>5. /\ b \in Buffers /\ Len(b) = SectorSize + SectorSize
      /\ Entry(type, b, task.c) = task.v % Values(type)
      /\ \A n \in SectorSize + 1 .. SectorSize + SectorSize : b[n] = Buffer[n]
  <2>1. /\ b \in Buffers /\ Len(b) = Len(Buffer)
        /\ \A n \in 1 .. Len(Buffer) \ (entry_offset(type, task.c) + 1
                                          .. entry_offset(type, task.c) + byte_per_entry(type)) :
             b[n] = Buffer[n]
    BY <1>3, <1>4, BytesSet
  <2>2. Entry(type, b, task.c) = task.v % Values(type)
    BY <1>3, <1>4, Set_Then_Get
  <2>3. /\ entry_offset(type, task.c) \in Nat /\ byte_per_entry(type) \in 2 .. 4
        /\ entry_offset(type, task.c) + byte_per_entry(type) <= SectorSize
    BY <1>3, InSector, EntrySize
  <2> HIDE DEF b
  <2>4. \A n \in SectorSize + 1 .. SectorSize + SectorSize :
          n \in 1 .. Len(Buffer) \ (entry_offset(type, task.c) + 1
                                      .. entry_offset(type, task.c) + byte_per_entry(type))
    BY <1>4, <2>3, Bounds
  <2> QED BY <1>4, <2>1, <2>2, <2>4
<1>6. /\ s \in SectorData /\ t \in SectorData
      /\ \A n \in 1 .. SectorSize : s[n] = b[n]
      /\ \A n \in 1 .. SectorSize : t[n] = b[SectorSize + n]
  BY <1>5, Halves DEF Buffers
<1> HIDE DEF b
<1> HIDE DEF s, t
<1>7. t = drv.buf[2]
  <2>1. ASSUME NEW n \in 1 .. SectorSize PROVE t[n] = drv.buf[2][n]
    <3>1. SectorSize + n \in SectorSize + 1 .. SectorSize + SectorSize
      BY Bounds
    <3> QED BY <1>4, <1>5, <1>6, <3>1
  <2>2. t \in Seq(Byte) /\ drv.buf[2] \in Seq(Byte) /\ Len(t) = SectorSize /\ Len(drv.buf[2]) = SectorSize
    BY <1>4, <1>6 DEF SectorData
  <2> QED BY <2>1, <2>2, SeqEqual
<1>8. ASSUME NEW c \in Clusters(type)
      PROVE  Entry(type, s, c) = Entry(type, b, c) /\ Entry(type, Buffer, c) = Entry(type, drv.buf[1], c)
  BY <1>3, <1>4, <1>5, <1>6, ClusterShape, SectorShape, FirstSector
<1>9. StartWrite(drv.lba, <<s, drv.buf[2]>>)
  BY <1>1, <1>7
<1>10. Entry(type, s, task.c) = task.v % Values(type)
  BY <1>3, <1>5, <1>8
<1>11. ASSUME NEW c \in Clusters(type), ~SamePlace(task.c, c)
       PROVE  Entry(type, s, c) = Entry(type, drv.buf[1], c)
  <2>1. Entry(type, b, c) = Entry(type, Buffer, c)
    BY <1>3, <1>4, <1>11, ClusterShape, Set_Keeps DEF b, SamePlace, SamePlaceOf
  <2> QED BY <1>8, <2>1
<1> QED BY <1>6, <1>9, <1>10, <1>11

\* A set puts in the buffer the entries as they are to be on the disk.
LEMMA ReadDoneSets ==
  ASSUME DriverInv, TableInv, ReadDone, task.f = "set"
  PROVE  Inv'
<1>1. PICK s \in SectorData :
        /\ StartWrite(drv.lba, <<s, drv.buf[2]>>)
        /\ Entry(type, s, task.c) = task.v % Values(type)
        /\ \A c \in Clusters(type) :
             ~SamePlace(task.c, c) => Entry(type, s, c) = Entry(type, drv.buf[1], c)
  BY SetBuffer
<1> DEFINE t == drv.buf[2]
<1>2. /\ drv.pc = "read" /\ task' = task
      /\ lost' = lost \cup IF drv.ok THEN {} ELSE {drv.lba, drv.lba + 1}
      /\ UNCHANGED <<disk, faults, type, want, tasks>>
  BY DEF ReadDone
<1>3. Len(drv.buf) = Count /\ (drv.ok => Matches(Count))
  BY <1>2, SetIsNoFollow, ReadSent DEF DriverInv, ReadInv
<1>4. /\ type \in FatTypes /\ task.c \in Clusters(type) /\ task.op # "none"
      /\ drv.lba = SectorOf(task.c)
  <2>1. NoTask.f = ""
    BY DEF NoTask
  <2> QED BY <2>1, TypeIsFat DEF TableInv, TaskShape
<1>5. t \in SectorData
  BY <1>3, BufferShape DEF DriverInv
<1> HIDE DEF t
<1>9. <<s, t>> \in Seq(SectorData) /\ Len(<<s, t>>) = Count /\ <<s, t>>[1] = s /\ <<s, t>>[2] = t
  BY <1>5, Bounds
<1>10. DriverInv'
  BY <1>1, <1>2, <1>9, StartWriteKeeps DEF t
<1>11. drv'.pc = "w_poll" /\ drv'.lba = drv.lba /\ drv'.buf = <<s, t>>
  BY <1>1 DEF StartWrite, DrvIdle, t
<1>12. lost \subseteq lost' /\ lost' \subseteq Sector
  <2>1. drv.lba \in Sector /\ drv.lba + 1 \in Sector
    BY Fields, Bounds DEF DriverInv, Sector
  <2> QED BY <1>2, <2>1 DEF TableInv, TaskShape
<1>13. TaskShape'
  BY <1>2, <1>4, <1>11, <1>12 DEF TableInv, TaskShape, SectorOf
<1>14. Taken' = Taken /\ LastCluster' = LastCluster
  BY <1>2 DEF Taken, LastCluster
<1>15. Links'
  BY <1>2, <1>14 DEF TableInv, Links, Same, SectorOf, Pending
<1>16. Goal'
  BY <1>2, TakenStill DEF TableInv, Goal
<1>17. ~Writing /\ Writing'
  BY <1>2, <1>11 DEF Writing
<1>18. TableKept'
  BY <1>2, <1>12, <1>14, <1>17 DEF TableInv, TableKept, SectorOf, After
<1>19. ASSUME NEW c \in Taken \ {task.c}, NEW k \in 1 .. Count,
              SectorOf(c) = drv.lba + k - 1, SectorOf(c) \notin lost'
       PROVE  Entry(type, <<s, t>>[k], c) = want[c]
  <2>1. drv.ok /\ SectorOf(c) \notin lost
    <3>1. SectorOf(c) \in {drv.lba, drv.lba + 1}
      BY <1>19, Fields, Bounds DEF DriverInv
    <3> QED BY <1>2, <1>19, <3>1
  <2>2. Entry(type, disk[SectorOf(c)], c) = want[c]
    BY <1>17, <2>1 DEF TableInv, TableKept
  <2>3. disk[SectorOf(c)] = drv.buf[k]
    BY <1>3, <1>19, <2>1 DEF Matches
  <2>4. c \in Clusters(type)
    BY DEF Taken
  <2>5. CASE k = 1
    <3>1. SectorOf(c) = SectorOf(task.c)
      BY <1>4, <1>19, <2>5, Fields DEF DriverInv
    <3>2. ~Same(task.c, c)
      BY DEF TableInv, Goal
    <3>3. ~SamePlace(task.c, c)
      BY <3>1, <3>2 DEF Same, SamePlace, SamePlaceOf
    <3> QED BY <1>1, <1>9, <2>2, <2>3, <2>4, <2>5, <3>3
  <2>6. CASE k = 2
    BY <1>9, <2>2, <2>3, <2>6 DEF t
  <2> QED BY <2>5, <2>6, Bounds
<1>20. ASSUME NEW k \in 1 .. Count, drv.lba + k - 1 = FatSize, FatSize \notin lost'
       PROVE  <<s, t>>[k] = After
  <2>1. drv.lba \in 0 .. FatSize - 1 /\ k \in {1, 2}
    BY Fields, Bounds DEF DriverInv
  <2>2. k = 2 /\ drv.lba + 1 = FatSize
    BY <1>20, <2>1, Bounds
  <2>3. drv.ok /\ FatSize \notin lost
    BY <1>2, <1>20, <2>2
  <2>4. disk[FatSize] = After
    BY <2>3 DEF TableInv, TableKept
  <2>5. disk[FatSize] = drv.buf[2]
    BY <1>3, <1>20, <2>2, <2>3 DEF Matches
  <2> QED BY <1>9, <2>2, <2>4, <2>5 DEF t
<1>21. BufferKept'
  <2>1. \A c \in Taken' \ {task'.c}, k \in 1 .. Count :
          SectorOf(c)' = drv'.lba + k - 1 /\ SectorOf(c)' \notin lost' =>
            Entry(type', drv'.buf[k], c) = want'[c]
    BY <1>2, <1>11, <1>14, <1>19 DEF SectorOf
  <2>2. \A k \in 1 .. Count :
          drv'.lba + k - 1 = FatSize /\ FatSize \notin lost' => drv'.buf[k] = After
    BY <1>11, <1>20
  <2>3. Entry(type', drv'.buf[1], task'.c) = task'.v % Values(type')
    BY <1>1, <1>2, <1>9, <1>11
  <2> QED BY <2>1, <2>2, <2>3 DEF BufferKept, After
<1> QED BY <1>10, <1>13, <1>15, <1>16, <1>18, <1>21 DEF Inv, TableInv

\* Nothing is set while the table is looked at.
LEMMA Looking ==
  ASSUME DriverInv, TableInv, drv.pc = "read", task.f # "set"
  PROVE  /\ ~Writing /\ ~Pending /\ (task.op # "follow" => lost = {})
         /\ task.op # "none" /\ task.f \in {"free", "next"}
         /\ task.c \in Clusters(type) /\ drv.lba = SectorOf(task.c) /\ type \in FatTypes
         /\ task \in Task
BY TypeIsFat DEF TableInv, TaskShape, Writing, Pending

\* A read that succeeded shows the entries of its first sector.
LEMMA EntryRead ==
  ASSUME DriverInv, TableInv, drv.pc = "read", drv.ok, task.f # "set", task.op # "follow"
  PROVE  /\ Free
         /\ \A c \in Clusters(type) : SectorOf(c) = drv.lba =>
              /\ Entry(type, Buffer, c) = Entry(type, disk[drv.lba], c)
              /\ c \in Taken => Entry(type, Buffer, c) = want[c]
<1>1. Free /\ Matches(Count) /\ Len(drv.buf) = Count
  BY ReadSent DEF DriverInv, ReadInv
<1>2. ~Writing /\ lost = {} /\ type \in FatTypes
  BY Looking
<1>3. disk[drv.lba] = drv.buf[1]
  <2>1. 1 \in 1 .. Count /\ drv.lba + 1 - 1 = drv.lba
    BY Fields, Bounds DEF DriverInv
  <2> QED BY <1>1, <2>1 DEF Matches
<1>4. drv.buf[1] \in SectorData /\ Buffer \in Buffers
      /\ \A n \in 1 .. SectorSize : Buffer[n] = drv.buf[1][n]
  BY <1>1, BufferShape DEF DriverInv
<1>5. ASSUME NEW c \in Clusters(type), SectorOf(c) = drv.lba
      PROVE  Entry(type, Buffer, c) = Entry(type, disk[drv.lba], c)
  BY <1>2, <1>3, <1>4, ClusterShape, SectorShape, FirstSector
<1>6. ASSUME NEW c \in Taken, SectorOf(c) = drv.lba
      PROVE  Entry(type, disk[drv.lba], c) = want[c]
  BY <1>2, <1>6 DEF TableInv, TableKept
<1> QED BY <1>1, <1>5, <1>6

\* An entry that is zero is of no cluster that is taken.
LEMMA ZeroIsFresh ==
  ASSUME DriverInv, TableInv, drv.pc = "read", drv.ok, task.f # "set", task.op # "follow",
         NEW c \in Clusters(type), SectorOf(c) = drv.lba, Entry(type, Buffer, c) = 0
  PROVE  Fresh(c)
<1>1. ASSUME NEW d \in Taken, Same(c, d)
      PROVE  FALSE
  <2>1. SectorOf(d) = drv.lba /\ d \in Clusters(type)
    BY <1>1 DEF Same, Taken
  <2>2. Entry(type, Buffer, d) = want[d]
    BY <2>1, EntryRead
  <2>3. Entry(type, Buffer, d) = 0
    BY <1>1, SameEntry
  <2>4. want[d] >= 1
    BY LimitSplit DEF TableInv, Links
  <2> QED BY <2>2, <2>3, <2>4
<1>2. Same(c, c)
  BY DEF Same
<1> QED BY <1>1, <1>2 DEF Fresh

LEMMA ReadDoneFails ==
  ASSUME DriverInv, TableInv, drv.pc = "read", task.f # "set", End,
         UNCHANGED <<disk, faults, type, want, tasks>>,
         lost' = lost \cup IF drv.ok THEN {} ELSE {drv.lba, drv.lba + 1}
  PROVE  Inv'
<1>1. drv.ok => Free
  BY DEF DriverInv, ReadInv
<1>2. lost \subseteq lost' /\ lost' \subseteq Sector
  <2>1. drv.lba \in Sector /\ drv.lba + 1 \in Sector
    BY Fields, Bounds DEF DriverInv, Sector
  <2> QED BY <2>1 DEF TableInv, TaskShape
<1>3. lost' = {} => Free
  BY <1>1
<1>4. ~Free => AtLate
  BY DEF DriverInv, ReadInv
<1>5. DriverInv' /\ TaskShape' /\ BufferKept' /\ ~Writing' /\ task' = NoTask
  BY <1>2, <1>3, <1>4, Ending DEF TableInv
<1>6. Links' /\ TableKept'
  BY <1>2, Looking, LinksStill, KeptStill DEF TableInv
<1>7. Goal'
  <2>1. NoTask.f = ""
    BY DEF NoTask
  <2> QED BY <1>5, <2>1 DEF Goal
<1> QED BY <1>5, <1>6, <1>7 DEF Inv, TableInv

LEMMA ReadDoneFinds ==
  ASSUME DriverInv, TableInv, drv.pc = "read", drv.ok, task.f = "free", Found,
         UNCHANGED <<disk, faults, type, want, tasks, lost>>
  PROVE  Inv'
<1> DEFINE zero == {c \in InBuffer : Entry(type, Buffer, c) = 0}
           more == {c \in Clusters(type) : c >= task.c} \ InBuffer
<1>2. task.op \in {"new", "extend", "extend_dir"} /\ (task.op # "new" => task.tail \in Tails)
  BY DEF TableInv, TaskShape, Goal
<1>1. /\ ~Writing /\ ~Pending /\ lost = {} /\ task.op # "none" /\ type \in FatTypes
      /\ task.c \in Clusters(type) /\ drv.lba = SectorOf(task.c) /\ task \in Task
  BY <1>2, Looking
<1>3. Free
  BY <1>2, EntryRead
<1>4. lost' \subseteq Sector /\ tasks' \in 0 .. MaxTasks /\ lost' = {}
  BY <1>1 DEF TableInv, TaskShape
<1>5. Links' /\ TableKept'
  BY <1>1, LinksStill, KeptStill DEF TableInv
<1>6. \A d \in Taken : d \in Clusters(type)
  BY DEF Taken
<1>7. CASE zero # {}
  <2> DEFINE c == Min(zero)
             t == [task EXCEPT !.todo = Sets(task, c)]
  <2>1. zero \subseteq Nat
    BY <1>1, ClusterShape DEF InBuffer
  <2>2. c \in zero
    BY <1>7, <2>1, MinIn
  <2>3. c \in Clusters(type) /\ SectorOf(c) = drv.lba /\ Entry(type, Buffer, c) = 0 /\ c \in Int
    BY <2>1, <2>2 DEF InBuffer
  <2>4. SetNext(t)
    BY <1>7 DEF Found
  <2> HIDE DEF c
  <2>5. Fresh(c)
    BY <1>2, <2>3, ZeroIsFresh
  <2>6. \A d \in Taken \ {c} : ~Same(c, d)
    BY <2>5 DEF Fresh
  <2>7. CASE task.op = "new"
    <3>1. t.todo = <<<<c, -1>>>> /\ t \in Task /\ t.op = "new"
      <4>1. <<<<c, -1>>>> \in Seq(Int \X Int)
        BY <2>3
      <4>2. Sets(task, c) = <<<<c, -1>>>>
        BY <2>7 DEF Sets
      <4> HIDE DEF t
      <4>3. t = [task EXCEPT !.todo = <<<<c, -1>>>>]
        BY <4>2 DEF t
      <4> QED BY <1>1, <2>7, <4>1, <4>3 DEF Task
    <3> HIDE DEF t
    <3>2. PICK u \in Task : /\ Call(u) /\ u.op = "new"
                            /\ u.f = "set" /\ u.c = c /\ u.v = -1 /\ u.todo = <<>>
      BY <2>3, <2>4, <3>1, SetNextOne
    <3>3. DriverInv' /\ TaskShape' /\ BufferKept' /\ task' = u
      BY <1>3, <1>4, <2>3, <3>2, Calling DEF TableInv
    <3>4. Goal'
      BY <2>5, <2>6, <3>2, <3>3, TakenStill DEF Goal
    <3> QED BY <1>5, <3>3, <3>4 DEF Inv, TableInv
  <2>8. CASE task.op = "extend"
    <3>1. /\ t.todo = <<<<c, -1>>, <<task.tail, c>>>> /\ t \in Task /\ t.op = "extend"
          /\ t.tail = task.tail /\ task.tail \in Int
      <4>1. task.tail \in Int
        BY <1>1 DEF Task
      <4>2. <<<<c, -1>>, <<task.tail, c>>>> \in Seq(Int \X Int)
        BY <2>3, <4>1
      <4>3. Sets(task, c) = <<<<c, -1>>, <<task.tail, c>>>>
        BY <2>8 DEF Sets
      <4> HIDE DEF t
      <4>4. t = [task EXCEPT !.todo = <<<<c, -1>>, <<task.tail, c>>>>]
        BY <4>3 DEF t
      <4> QED BY <1>1, <2>8, <4>1, <4>2, <4>4 DEF Task
    <3> HIDE DEF t
    <3>5. /\ Head(t.todo) = <<c, -1>> /\ Tail(t.todo) = <<<<task.tail, c>>>>
          /\ <<c, -1>> \in Int \X Int /\ <<<<task.tail, c>>>> \in Seq(Int \X Int)
      BY <2>3, <3>1
    <3>6. PICK u \in Task : /\ Call(u) /\ u.op = t.op /\ u.tail = t.tail /\ u.f = "set"
                            /\ u.c = Head(t.todo)[1] /\ u.v = Head(t.todo)[2]
                            /\ u.todo = Tail(t.todo)
      BY <2>4, <3>1, <3>5, SetNextFirst
    <3>2. /\ Call(u) /\ u.op = "extend" /\ u.tail = task.tail
          /\ u.f = "set" /\ u.c = c /\ u.v = -1 /\ u.todo = <<<<task.tail, c>>>>
      BY <3>1, <3>5, <3>6
    <3>3. DriverInv' /\ TaskShape' /\ BufferKept' /\ task' = u
      BY <1>3, <1>4, <2>3, <3>2, Calling DEF TableInv
    <3>4. Goal'
      BY <1>2, <2>5, <2>6, <2>8, <3>2, <3>3, TakenStill DEF Goal
    <3> QED BY <1>5, <3>3, <3>4 DEF Inv, TableInv
  <2>9. CASE task.op = "extend_dir"
    <3>1. /\ t.todo = <<<<task.tail, c>>, <<c, -1>>>> /\ t \in Task /\ t.op = "extend_dir"
          /\ task.tail \in Int
      <4>1. task.tail \in Int
        BY <1>1 DEF Task
      <4>2. <<<<task.tail, c>>, <<c, -1>>>> \in Seq(Int \X Int)
        BY <2>3, <4>1
      <4>3. Sets(task, c) = <<<<task.tail, c>>, <<c, -1>>>>
        BY <2>9 DEF Sets
      <4> HIDE DEF t
      <4>4. t = [task EXCEPT !.todo = <<<<task.tail, c>>, <<c, -1>>>>]
        BY <4>3 DEF t
      <4> QED BY <1>1, <2>9, <4>1, <4>2, <4>4 DEF Task
    <3> HIDE DEF t
    <3>7. /\ Head(t.todo) = <<task.tail, c>> /\ Tail(t.todo) = <<<<c, -1>>>>
          /\ <<task.tail, c>> \in Int \X Int /\ <<<<c, -1>>>> \in Seq(Int \X Int)
      BY <2>3, <3>1
    <3>8. PICK u \in Task : /\ Call(u) /\ u.op = t.op /\ u.tail = t.tail /\ u.f = "set"
                            /\ u.c = Head(t.todo)[1] /\ u.v = Head(t.todo)[2]
                            /\ u.todo = Tail(t.todo)
      BY <2>4, <3>1, <3>7, SetNextFirst
    <3>2. /\ Call(u) /\ u.op = "extend_dir"
          /\ u.f = "set" /\ u.c = task.tail /\ u.v = c /\ u.todo = <<<<c, -1>>>>
      BY <3>1, <3>7, <3>8
    <3>3. task.tail \in Tails /\ task.tail \in Taken
      BY <1>2, <2>9 DEF Tails
    <3>4. DriverInv' /\ TaskShape' /\ BufferKept' /\ task' = u
      BY <1>3, <1>4, <1>6, <3>2, <3>3, Calling DEF TableInv
    <3>5. \A d \in Taken \ {task.tail} : ~Same(task.tail, d)
      BY <3>3 DEF TableInv, Links
    <3>6. Goal'
      BY <2>5, <3>2, <3>3, <3>4, <3>5, TakenStill DEF Goal
    <3> QED BY <1>5, <3>4, <3>6 DEF Inv, TableInv
  <2> QED BY <1>2, <2>7, <2>8, <2>9
<1>8. CASE zero = {} /\ more # {}
  <2> DEFINE c == Min(more)
             t == [task EXCEPT !.c = c]
  <2>1. more \subseteq Nat
    BY <1>1, ClusterShape
  <2>2. c \in more
    BY <1>8, <2>1, MinIn
  <2>3. c \in Clusters(type) /\ c \in Int
    BY <2>1, <2>2
  <2>4. Call(t)
    BY <1>8 DEF Found
  <2> HIDE DEF c
  <2>5. t \in Task /\ t.op = task.op /\ t.f = "free" /\ t.c = c /\ t.tail = task.tail
    BY <1>1, <2>3 DEF Task
  <2> HIDE DEF t
  <2>6. DriverInv' /\ TaskShape' /\ BufferKept' /\ task' = t
    BY <1>1, <1>2, <1>3, <1>4, <2>3, <2>4, <2>5, Calling DEF TableInv
  <2>7. Goal'
    BY <1>2, <2>5, <2>6, TakenStill DEF Goal
  <2> QED BY <1>5, <2>6, <2>7 DEF Inv, TableInv
<1>9. CASE zero = {} /\ more = {}
  <2>1. End
    BY <1>9 DEF Found
  <2> QED BY <2>1, ReadDoneFails
<1> QED BY <1>7, <1>8, <1>9

LEMMA ReadDoneFollows ==
  ASSUME DriverInv, TableInv, drv.pc = "read", drv.ok, task.f = "next", Followed,
         UNCHANGED <<disk, faults, type, want, tasks, lost>>
  PROVE  Inv'
<1>1. /\ ~Writing /\ ~Pending /\ task.op # "none" /\ type \in FatTypes
      /\ task.c \in Clusters(type) /\ drv.lba = SectorOf(task.c) /\ task \in Task
  BY Looking
<1>2. /\ task.op \in {"follow", "remove"} /\ task.c \in Taken
      /\ task.op = "remove" => Unlinked(task.c)
  BY DEF TableInv, TaskShape, Goal
<1>3. CASE task.op = "remove"
  <2> DEFINE next == Entry(type, Buffer, task.c)
             t == [task EXCEPT !.todo = <<<<task.c, 0>>>>, !.tail = next]
  <2>1. SetNext(t)
    BY <1>3 DEF Followed
  <2>2. next = want[task.c] /\ next \in Int
    <3>1. next = want[task.c]
      BY <1>1, <1>2, <1>3, EntryRead
    <3> QED BY <1>1, <3>1 DEF TableInv, Links
  <2> HIDE DEF next
  <2>3. /\ t \in Task /\ t.todo = <<<<task.c, 0>>>> /\ t.op = "remove" /\ t.tail = next
        /\ task.c \in Int
    <3>1. task.c \in Int
      BY <1>1 DEF Task
    <3>2. <<<<task.c, 0>>>> \in Seq(Int \X Int)
      BY <3>1
    <3> QED BY <1>1, <1>3, <2>2, <3>1, <3>2 DEF Task
  <2> HIDE DEF t
  <2>4. PICK u \in Task : /\ Call(u) /\ u.op = "remove" /\ u.tail = next
                          /\ u.f = "set" /\ u.c = task.c /\ u.v = 0 /\ u.todo = <<>>
    BY <2>1, <2>3, SetNextOne
  <2>5. lost' \subseteq Sector /\ tasks' \in 0 .. MaxTasks /\ Free
    BY <1>3, EntryRead DEF TableInv, TaskShape
  <2>6. DriverInv' /\ TaskShape' /\ BufferKept' /\ task' = u
    BY <1>1, <2>4, <2>5, Calling DEF TableInv
  <2>7. Links' /\ TableKept'
    BY <1>1, LinksStill, KeptStill DEF TableInv
  <2>8. \A d \in Taken \ {task.c} : ~Same(task.c, d)
    BY <1>2 DEF TableInv, Links
  <2>9. Goal'
    BY <1>2, <1>3, <2>2, <2>4, <2>6, <2>8, TakenStill DEF Goal
  <2> QED BY <2>6, <2>7, <2>9 DEF Inv, TableInv
<1>4. CASE task.op # "remove"
  <2>1. End
    BY <1>4 DEF Followed
  <2> QED BY <2>1, ReadDoneFails
<1> QED BY <1>3, <1>4

LEMMA ReadDoneKeeps ==
  ASSUME DriverInv, TableInv, ReadDone
  PROVE  Inv'
<1>1. CASE task.f = "set"
  BY <1>1, ReadDoneSets
<1>2. CASE task.f # "set" /\ ~drv.ok
  BY <1>2, ReadDoneFails DEF ReadDone
<1>3. CASE task.f = "free" /\ drv.ok
  BY <1>3, ReadDoneFinds DEF ReadDone
<1>4. CASE task.f = "next" /\ drv.ok
  BY <1>4, ReadDoneFollows DEF ReadDone
<1>5. task.f # "set" => task.f \in {"free", "next"}
  BY Looking DEF ReadDone
<1> QED BY <1>1, <1>2, <1>3, <1>4, <1>5

-----------------------------------------------------------------------------
(* A set is done.                                                          *)

LEMMA Written ==
  ASSUME DriverInv, TableInv, WriteDone
  PROVE  /\ type \in FatTypes /\ type \in Types /\ task \in Task /\ task.f = "set" /\ task.op # "none"
         /\ task.c \in Clusters(type) /\ task.c \in Int /\ task.v \in Int /\ Free
         /\ drv.lba = SectorOf(task.c) /\ Writing
         /\ lost' \subseteq Sector /\ lost \subseteq lost' /\ tasks' \in 0 .. MaxTasks
         /\ UNCHANGED <<disk, faults, type, tasks>>
         /\ LastCluster' = LastCluster /\ LastCluster \in 1 .. Values(type) - 1
         /\ \A d \in Clusters(type) \ {task.c} : want'[d] = want[d]
         /\ task.v # 0 => /\ want'[task.c] = task.v % Values(type)
                          /\ Taken' = Taken \cup {task.c}
         /\ task.v = 0 => Taken' = Taken \ {task.c}
         /\ want' \in [Clusters(type) -> Int]
         /\ \A d, e : Same(d, e)' <=> Same(d, e)
         /\ \A d, e \in Taken' : Same(d, e) => d = e
<1>1. /\ drv.pc = "written" /\ UNCHANGED <<disk, faults, type, tasks>>
      /\ want' = [want EXCEPT ![task.c] = IF task.v = 0 THEN Untaken ELSE task.v % Values(type)]
      /\ lost' = lost \cup IF drv.ok /\ faults = 0 /\ late = NoRead THEN {} ELSE {drv.lba, drv.lba + 1}
  BY DEF WriteDone
<1>2. type \in FatTypes /\ type \in Types
  BY TypeIsFat DEF TableInv
<1>3. task.f = "set" /\ task.op # "none" /\ Writing
  <2>1. Writing
    BY <1>1, WritesSet DEF TableInv, WritePcs
  <2> QED BY <2>1, WritesSet DEF TableInv
<1>4. task.c \in Clusters(type) /\ drv.lba = SectorOf(task.c) /\ task \in Task
  BY <1>3 DEF TableInv, TaskShape
<1>5. task.c \in Int /\ task.v \in Int
  BY <1>4 DEF Task
<1>6. Free
  BY <1>1 DEF DriverInv, WriteInv
<1>7. lost \subseteq lost' /\ lost' \subseteq Sector /\ tasks' \in 0 .. MaxTasks
  <2>1. drv.lba \in Sector /\ drv.lba + 1 \in Sector
    BY Fields, Bounds DEF DriverInv, Sector
  <2> QED BY <1>1, <2>1 DEF TableInv, TaskShape
<1>8. LastCluster' = LastCluster /\ LastCluster \in 1 .. Values(type) - 1 /\ Values(type) \in Nat \ {0}
  BY <1>1, <1>2, ValueShape, LimitSplit DEF LastCluster
<1>9. want \in [Clusters(type) -> Int]
  BY DEF TableInv, Links
<1>10. \A d \in Clusters(type) \ {task.c} : want'[d] = want[d]
  BY <1>1, <1>4, <1>9
<1>11. task.v # 0 => want'[task.c] = task.v % Values(type) /\ Taken' = Taken \cup {task.c}
  <2> SUFFICES ASSUME task.v # 0
               PROVE  want'[task.c] = task.v % Values(type) /\ Taken' = Taken \cup {task.c}
    OBVIOUS
  <2>1. want'[task.c] = task.v % Values(type)
    BY <1>1, <1>4, <1>9
  <2>2. task.v % Values(type) # Untaken
    BY <1>5, <1>8 DEF Untaken
  <2> QED BY <1>1, <1>4, <1>10, <2>1, <2>2 DEF Taken
<1>12. task.v = 0 => Taken' = Taken \ {task.c}
  <2> SUFFICES ASSUME task.v = 0 PROVE Taken' = Taken \ {task.c}
    OBVIOUS
  <2>1. want'[task.c] = Untaken
    BY <1>1, <1>4, <1>9
  <2> QED BY <1>1, <1>4, <1>10, <2>1 DEF Taken, Untaken
<1>13. want' \in [Clusters(type) -> Int]
  <2>1. (IF task.v = 0 THEN Untaken ELSE task.v % Values(type)) \in Int
    BY <1>5, <1>8 DEF Untaken
  <2> QED BY <1>1, <1>9, <2>1
<1>14. \A d, e : Same(d, e)' <=> Same(d, e)
  BY <1>1 DEF Same, SectorOf
<1>15. \A d, e \in Taken' : Same(d, e) => d = e
  <2>1. Taken' \subseteq Taken \cup {task.c}
    BY <1>11, <1>12
  <2>2. \A d \in Taken \ {task.c} : ~Same(task.c, d) /\ ~Same(d, task.c)
    BY <1>3 DEF TableInv, Goal, Same
  <2>3. \A d, e \in Taken : Same(d, e) => d = e
    BY DEF TableInv, Links
  <2> QED BY <2>1, <2>2, <2>3
<1> QED BY <1>1, <1>2, <1>3, <1>4, <1>5, <1>6, <1>7, <1>8, <1>10, <1>11, <1>12, <1>13, <1>14, <1>15

\* The entry that was set is on the disk, and the others are as they were.
LEMMA WrittenTable ==
  ASSUME DriverInv, TableInv, WriteDone, ~Writing'
  PROVE  TableKept'
<1>1. ASSUME NEW d \in Taken', SectorOf(d) \notin lost'
      PROVE  Entry(type, disk[SectorOf(d)], d) = want'[d]
  <2>1. CASE d # task.c
    <3>1. d \in Taken /\ d \in Clusters(type) /\ SectorOf(d) \notin lost /\ want'[d] = want[d]
      <4>1. d \in Taken /\ SectorOf(d) \notin lost
        BY <1>1, <2>1, Written
      <4>2. d \in Clusters(type)
        BY <4>1 DEF Taken
      <4> QED BY <2>1, <4>1, <4>2, Written
    <3> QED BY <2>1, <3>1 DEF TableInv, TableKept
  <2>2. CASE d = task.c
    <3>1. task.v # 0 /\ want'[task.c] = task.v % Values(type)
      BY <2>2, Written
    <3>2. drv.ok /\ faults = 0 /\ late = NoRead
      BY <1>1, <2>2, Written DEF WriteDone
    <3>3. Matches(Count)
      BY <3>2 DEF WriteDone, DriverInv, WriteInv, Excused
    <3>4. disk[drv.lba] = drv.buf[1]
      <4>1. 1 \in 1 .. Count /\ drv.lba + 1 - 1 = drv.lba
        BY Fields, Bounds DEF DriverInv
      <4> QED BY <3>3, <4>1 DEF Matches
    <3>5. Entry(type, drv.buf[1], task.c) = task.v % Values(type)
      BY Written DEF TableInv, BufferKept
    <3> QED BY <2>2, <3>1, <3>4, <3>5, Written
  <2> QED BY <2>1, <2>2
<1>2. FatSize \notin lost' => disk[FatSize] = After
  BY Written DEF TableInv, TableKept
<1> QED BY <1>1, <1>2, Written DEF TableKept, SectorOf, After

\* What the links need of the value that was set.
LEMMA WrittenLinks ==
  ASSUME DriverInv, TableInv, WriteDone,
         task.v = 0 \/ task.v % Values(type) \in 1 .. Values(type) - 1,
         \A d \in Taken' : want'[d] < LastCluster =>
           want'[d] \in Taken' \/ (Pending' /\ want'[d] = task'.c),
         \A d, e \in Taken' : want'[d] = want'[e] /\ want'[d] < LastCluster => d = e
  PROVE  Links'
<1>1. \A d \in Taken' : want'[d] \in 1 .. Values(type) - 1
  <2> SUFFICES ASSUME NEW d \in Taken' PROVE want'[d] \in 1 .. Values(type) - 1
    OBVIOUS
  <2>1. CASE d = task.c
    BY <2>1, Written
  <2>2. CASE d # task.c
    <3>1. d \in Taken
      BY <2>2, Written
    <3>2. d \in Clusters(type)
      BY <3>1 DEF Taken
    <3> QED BY <2>2, <3>1, <3>2, Written DEF TableInv, Links
  <2> QED BY <2>1, <2>2
<1>2. type' = type /\ LastCluster' = LastCluster /\ want' \in [Clusters(type) -> Int]
      /\ \A d, e \in Taken' : Same(d, e)' => d = e
  BY Written
<1> QED BY <1>1, <1>2 DEF Links

\* A cluster that was found free ends its chain.
LEMMA WrittenEnd ==
  ASSUME DriverInv, TableInv, WriteDone, Fresh(task.c), task.v = -1
  PROVE  /\ Links' /\ Taken' = Taken \cup {task.c}
         /\ want'[task.c] = Values(type) - 1 /\ task.c \notin Taken
         /\ \A d \in Taken : want'[d] = want[d] /\ d # task.c
<1>1. /\ type \in FatTypes /\ Taken' = Taken \cup {task.c} /\ want'[task.c] = task.v % Values(type)
      /\ LastCluster \in 1 .. Values(type) - 1
  BY Written
<1>2. Values(type) \in Nat /\ task.v % Values(type) = Values(type) - 1
  BY <1>1, ValueShape
<1>3. task.c \notin Taken
  BY DEF Fresh
<1>4. \A d \in Taken : want'[d] = want[d] /\ d # task.c
  <2> SUFFICES ASSUME NEW d \in Taken PROVE want'[d] = want[d] /\ d # task.c
    OBVIOUS
  <2>1. d \in Clusters(type)
    BY DEF Taken
  <2> QED BY <1>3, <2>1, Written
<1>5. ~(want'[task.c] < LastCluster)
  BY <1>1, <1>2
<1>6. \A d \in Taken' : want'[d] < LastCluster => want'[d] \in Taken'
  <2> SUFFICES ASSUME NEW d \in Taken', want'[d] < LastCluster PROVE want'[d] \in Taken'
    OBVIOUS
  <2>1. d \in Taken /\ want'[d] = want[d]
    BY <1>1, <1>4, <1>5
  <2> QED BY <1>1, <2>1 DEF TableInv, Links
<1>7. \A d, e \in Taken' : want'[d] = want'[e] /\ want'[d] < LastCluster => d = e
  <2> SUFFICES ASSUME NEW d \in Taken', NEW e \in Taken', want'[d] = want'[e], want'[d] < LastCluster
               PROVE  d = e
    OBVIOUS
  <2>1. d \in Taken /\ e \in Taken /\ want'[d] = want[d] /\ want'[e] = want[e]
    BY <1>1, <1>4, <1>5
  <2> QED BY <2>1 DEF TableInv, Links
<1>8. task.v % Values(type) \in 1 .. Values(type) - 1
  BY <1>1, <1>2
<1>9. Links'
  BY <1>6, <1>7, <1>8, WrittenLinks
<1> QED BY <1>1, <1>2, <1>3, <1>4, <1>9

\* The call ends.
LEMMA WriteStops ==
  ASSUME DriverInv, TableInv, WriteDone, End, Links'
  PROVE  Inv'
<1>1. DriverInv' /\ TaskShape' /\ BufferKept' /\ ~Writing' /\ task' = NoTask
  <2>1. ~Free => AtLate
    BY Written
  <2> QED BY <2>1, Written, Ending DEF TableInv
<1>2. TableKept'
  BY <1>1, WrittenTable
<1>3. Goal'
  <2>1. NoTask.f = ""
    BY DEF NoTask
  <2> QED BY <1>1, <2>1 DEF Goal
<1> QED BY <1>1, <1>2, <1>3 DEF Inv, TableInv

LEMMA WriteDoneKeeps ==
  ASSUME DriverInv, TableInv, LinksFit, WriteDone
  PROVE  Inv'
<1>1. /\ type \in FatTypes /\ type \in Types /\ task \in Task /\ task.f = "set" /\ task.op # "none"
      /\ task.c \in Clusters(type) /\ task.c \in Int /\ task.v \in Int /\ Free
      /\ lost' \subseteq Sector /\ tasks' \in 0 .. MaxTasks
      /\ UNCHANGED <<disk, faults, type, tasks>>
      /\ LastCluster' = LastCluster /\ LastCluster \in 1 .. Values(type) - 1
      /\ Values(type) \in Nat /\ Writing
  BY Written, ValueShape
<1>2. \A c \in Clusters(type) : c < LastCluster /\ c \in Int /\ c >= 2
  <2>1. \A c \in Clusters(type) : c < fat_last_cluster(type)
    BY <1>1 DEF LinksFit
  <2>2. \A c \in Clusters(type) : c \in Int /\ c >= 2
    BY Bounds DEF Clusters
  <2> QED BY <2>1, <2>2 DEF LastCluster
<1>3. Taken \subseteq Clusters(type)
  BY DEF Taken
<1>4. \A d, e : Same(d, e)' <=> Same(d, e)
  BY Written
\* The call goes on.
<1>5. ASSUME NEW u \in Task, Call(u), u.op # "none", u.c \in Clusters(type), Links', Goal',
             \/ u.f = "set"
             \/ u.f = "next" /\ u.op = "remove" /\ lost' = {}
      PROVE  Inv'
  <2>1. DriverInv' /\ TaskShape' /\ BufferKept' /\ ~Writing'
    BY <1>1, <1>5, Calling DEF TableInv
  <2> QED BY <1>5, <2>1, WrittenTable DEF Inv, TableInv
\* The values that are left, while a link is set.
<1>6. \A d \in Taken : d # task.c => want'[d] = want[d]
  BY <1>3, Written
<1>7. CASE task.op \in {"new", "extend_dir"} /\ task.todo = <<>> /\ Fresh(task.c) /\ task.v = -1
  <2>1. Links'
    BY <1>7, WrittenEnd
  <2>2. End
    BY <1>7 DEF WriteDone
  <2> QED BY <2>1, <2>2, WriteStops
<1>8. CASE /\ task.op = "extend" /\ Fresh(task.c) /\ task.v = -1
           /\ task.tail \in Tails /\ task.todo = <<<<task.tail, task.c>>>>
  <2>1. /\ Links' /\ Taken' = Taken \cup {task.c} /\ want'[task.c] = Values(type) - 1
        /\ task.c \notin Taken /\ \A d \in Taken : want'[d] = want[d] /\ d # task.c
    BY <1>8, WrittenEnd
  <2>2. SetNext(task)
    BY <1>8 DEF WriteDone
  <2>3. task.tail \in Taken /\ want[task.tail] >= LastCluster /\ task.tail \in Clusters(type)
        /\ task.tail \in Int
    <3>1. task.tail \in Taken /\ want[task.tail] >= LastCluster
      BY <1>8 DEF Tails
    <3> QED BY <1>2, <1>3, <3>1
  <2>4. PICK u \in Task : /\ Call(u) /\ u.op = task.op /\ u.tail = task.tail
                          /\ u.f = "set" /\ u.c = task.tail /\ u.v = task.c /\ u.todo = <<>>
    BY <1>1, <1>8, <2>2, <2>3, SetNextOne
  <2>5. task' = u
    BY <2>4 DEF Call
  <2>6. \A d \in Taken' : want'[d] # task.c
    <3> SUFFICES ASSUME NEW d \in Taken', want'[d] = task.c PROVE FALSE
      OBVIOUS
    <3>1. task.c < LastCluster /\ LastCluster < Values(type)
      BY <1>1, <1>2
    <3>2. d # task.c
      BY <1>1, <2>1, <3>1
    <3>3. d \in Taken /\ want[d] = task.c /\ want[d] < LastCluster
      BY <2>1, <3>1, <3>2
    <3>4. ~Pending
      BY <1>8 DEF Pending
    <3>5. task.c \in Taken
      BY <3>3, <3>4 DEF TableInv, Links
    <3> QED BY <2>1, <3>5
  <2>7. task.tail \in Tails'
    BY <1>1, <2>1, <2>3 DEF Tails
  <2>8. \A d \in Taken' \ {task.tail} : ~Same(task.tail, d)
    BY <2>1, <2>3, Written
  <2>9. Goal'
    BY <1>4, <1>8, <2>1, <2>4, <2>5, <2>6, <2>7, <2>8 DEF Goal, Unlinked
  <2> QED BY <1>5, <1>8, <2>1, <2>3, <2>4, <2>9
<1>9. CASE /\ task.op = "extend" /\ task.todo = <<>>
           /\ task.c \in Tails /\ task.v \in Taken /\ Unlinked(task.v)
  <2>1. End
    BY <1>9 DEF WriteDone
  <2>2. task.c \in Taken /\ task.v \in Nat /\ task.v >= 2 /\ task.v < LastCluster
    BY <1>1, <1>2, <1>3, <1>9 DEF Tails
  <2>3. task.v % Values(type) = task.v
    BY <1>1, <2>2, ValueShape DEF LastCluster
  <2>4. want'[task.c] = task.v /\ Taken' = Taken
    <3>1. task.v # 0
      BY <2>2
    <3>2. want'[task.c] = task.v % Values(type) /\ Taken' = Taken \cup {task.c}
      BY <3>1, Written
    <3> QED BY <2>2, <2>3, <3>2
  <2>5. ~Pending
    BY <1>9 DEF Pending
  <2>6. \A d \in Taken' : want'[d] < LastCluster => want'[d] \in Taken'
    <3> SUFFICES ASSUME NEW d \in Taken', want'[d] < LastCluster PROVE want'[d] \in Taken'
      OBVIOUS
    <3>1. CASE d = task.c
      BY <1>9, <2>4, <3>1
    <3>2. CASE d # task.c
      BY <1>6, <2>4, <2>5, <3>2 DEF TableInv, Links
    <3> QED BY <3>1, <3>2
  <2>7. \A d, e \in Taken' : want'[d] = want'[e] /\ want'[d] < LastCluster => d = e
    <3> SUFFICES ASSUME NEW d \in Taken', NEW e \in Taken', want'[d] = want'[e],
                        want'[d] < LastCluster, d # e
                 PROVE  FALSE
      OBVIOUS
    <3>1. CASE d = task.c
      <4>1. want[e] = task.v
        BY <1>6, <2>4, <3>1
      <4> QED BY <1>9, <2>4, <4>1 DEF Unlinked
    <3>2. CASE e = task.c
      <4>1. want[d] = task.v
        BY <1>6, <2>4, <3>2
      <4> QED BY <1>9, <2>4, <4>1 DEF Unlinked
    <3>3. CASE d # task.c /\ e # task.c
      BY <1>6, <2>4, <3>3 DEF TableInv, Links
    <3> QED BY <3>1, <3>2, <3>3
  <2>8. task.v % Values(type) \in 1 .. Values(type) - 1
    BY <1>1, <2>2, <2>3
  <2>9. Links'
    BY <2>6, <2>7, <2>8, WrittenLinks
  <2> QED BY <2>1, <2>9, WriteStops
<1>10. CASE /\ task.op = "extend_dir" /\ task.c \in Tails
            /\ Fresh(task.v) /\ task.todo = <<<<task.v, -1>>>>
  <2>1. SetNext(task)
    BY <1>10 DEF WriteDone
  <2>2. /\ task.c \in Taken /\ task.v \in Clusters(type) /\ task.v \notin Taken
        /\ task.v \in Nat /\ task.v >= 2 /\ task.v < LastCluster
    <3>1. task.c \in Taken /\ task.v \in Clusters(type) /\ task.v \notin Taken
      BY <1>10 DEF Tails, Fresh
    <3> QED BY <1>1, <1>2, <3>1
  <2>3. task.v % Values(type) = task.v
    BY <1>1, <2>2, ValueShape DEF LastCluster
  <2>4. want'[task.c] = task.v /\ Taken' = Taken
    <3>1. task.v # 0
      BY <2>2
    <3>2. want'[task.c] = task.v % Values(type) /\ Taken' = Taken \cup {task.c}
      BY <3>1, Written
    <3> QED BY <2>2, <2>3, <3>2
  <2>5. ~Pending
    BY <1>10 DEF Pending
  <2>6. PICK u \in Task : /\ Call(u) /\ u.op = task.op /\ u.tail = task.tail
                          /\ u.f = "set" /\ u.c = task.v /\ u.v = -1 /\ u.todo = <<>>
    <3>1. -1 \in Int
      OBVIOUS
    <3> QED BY <1>1, <1>10, <2>1, <3>1, SetNextOne
  <2>7. task' = u /\ Pending'
    <3>1. task' = u
      BY <2>6 DEF Call
    <3> QED BY <1>10, <2>6, <3>1 DEF Pending
  <2>8. \A d \in Taken : want[d] # task.v
    BY <2>2, <2>5 DEF TableInv, Links
  <2>9. \A d \in Taken' : want'[d] < LastCluster =>
          want'[d] \in Taken' \/ (Pending' /\ want'[d] = task'.c)
    <3> SUFFICES ASSUME NEW d \in Taken', want'[d] < LastCluster
                 PROVE  want'[d] \in Taken' \/ (Pending' /\ want'[d] = task'.c)
      OBVIOUS
    <3>1. CASE d = task.c
      BY <2>4, <2>6, <2>7, <3>1
    <3>2. CASE d # task.c
      BY <1>6, <2>4, <2>5, <3>2 DEF TableInv, Links
    <3> QED BY <3>1, <3>2
  <2>10. \A d, e \in Taken' : want'[d] = want'[e] /\ want'[d] < LastCluster => d = e
    <3> SUFFICES ASSUME NEW d \in Taken', NEW e \in Taken', want'[d] = want'[e],
                        want'[d] < LastCluster, d # e
                 PROVE  FALSE
      OBVIOUS
    <3>1. CASE d = task.c
      BY <1>6, <2>4, <2>8, <3>1
    <3>2. CASE e = task.c
      BY <1>6, <2>4, <2>8, <3>2
    <3>3. CASE d # task.c /\ e # task.c
      BY <1>6, <2>4, <3>3 DEF TableInv, Links
    <3> QED BY <3>1, <3>2, <3>3
  <2>11. task.v % Values(type) \in 1 .. Values(type) - 1
    BY <1>1, <2>2, <2>3
  <2>12. Links'
    BY <2>9, <2>10, <2>11, WrittenLinks
  <2>13. Fresh(u.c)' /\ \A d \in Taken' \ {u.c} : ~Same(u.c, d)'
    <3>1. \A d \in Taken : ~Same(u.c, d)
      BY <1>10, <2>6 DEF Fresh
    <3>2. Clusters(type') = Clusters(type) /\ u.c \in Clusters(type) /\ u.c \notin Taken'
      BY <1>1, <2>2, <2>4, <2>6
    <3>3. \A d \in Taken' : ~Same(u.c, d)'
      BY <1>4, <2>4, <3>1
    <3> QED BY <3>2, <3>3 DEF Fresh
  <2>14. Goal'
    BY <1>10, <2>6, <2>7, <2>13 DEF Goal
  <2> QED BY <1>5, <1>10, <2>2, <2>6, <2>12, <2>14
<1>11. CASE /\ task.op = "remove" /\ task.todo = <<>> /\ task.v = 0
            /\ task.c \in Taken /\ Unlinked(task.c) /\ task.tail = want[task.c]
  <2>1. Taken' = Taken \ {task.c}
    BY <1>11, Written
  <2>2. ~Pending
    BY <1>11 DEF Pending
  <2>3. \A d \in Taken' : want'[d] < LastCluster => want'[d] \in Taken'
    BY <1>6, <1>11, <2>1, <2>2 DEF TableInv, Links, Unlinked
  <2>4. \A d, e \in Taken' : want'[d] = want'[e] /\ want'[d] < LastCluster => d = e
    BY <1>6, <2>1 DEF TableInv, Links
  <2>5. Links'
    BY <1>11, <2>3, <2>4, WrittenLinks
  <2>6. CASE task.tail < LastCluster /\ lost' = {}
    <3> DEFINE u == [task EXCEPT !.f = "next", !.c = task.tail]
    <3>1. Call(u)
      BY <1>11, <2>6 DEF WriteDone
    <3>2. task.tail \in Taken'
      BY <1>11, <2>1, <2>2, <2>6 DEF TableInv, Links, Unlinked
    <3>3. task.tail \in Clusters(type) /\ task.tail \in Int
      BY <1>2, <1>3, <2>1, <3>2
    <3>4. u \in Task /\ u.op = "remove" /\ u.f = "next" /\ u.c = task.tail
      BY <1>1, <1>11, <3>3 DEF Task
    <3> HIDE DEF u
    <3>5. task' = u
      BY <3>1 DEF Call
    <3>6. \A d \in Taken' : want'[d] # task.tail
      <4> SUFFICES ASSUME NEW d \in Taken', want'[d] = task.tail PROVE FALSE
        OBVIOUS
      <4>1. d \in Taken /\ d # task.c /\ want[d] = want[task.c] /\ want[d] < LastCluster
        BY <1>6, <1>11, <2>1, <2>6
      <4> QED BY <1>11, <4>1 DEF TableInv, Links
    <3>7. Goal'
      BY <3>2, <3>4, <3>5, <3>6 DEF Goal, Unlinked
    <3> QED BY <1>5, <2>5, <2>6, <3>1, <3>3, <3>4, <3>7
  <2>7. CASE ~(task.tail < LastCluster /\ lost' = {})
    <3>1. End
      BY <1>11, <2>7 DEF WriteDone
    <3> QED BY <2>5, <3>1, WriteStops
  <2> QED BY <2>6, <2>7
<1> QED BY <1>1, <1>7, <1>8, <1>9, <1>10, <1>11 DEF TableInv, Goal

-----------------------------------------------------------------------------
(* The invariant of the specification.                                     *)

LEMMA FirstTable ==
  ASSUME Init
  PROVE  disk \in [Sector -> SectorData] /\ disk[FatSize] = After
<1>1. type \in FatTypes
  BY DiskAssumption DEF Init
<1>2. Zero \in SectorData /\ Zero \in Buffers /\ After \in SectorData
  <2>1. 0 \in Byte /\ 1 \in Byte
    BY BaseType, FatTableAssumption, TimesGrows DEF Byte
  <2>2. Zero \in [1 .. SectorSize -> Byte] /\ After \in [1 .. SectorSize -> Byte]
    BY <2>1 DEF Zero, After
  <2>3. Zero \in SectorData /\ After \in SectorData
    BY <2>2, Bounds DEF SectorData
  <2> QED BY <2>3, SectorShape
<1> DEFINE one == SetEntry(type, Zero, 0, -1)
           two == SetEntry(type, one, 1, -1)
<1>3. one \in Buffers /\ Len(one) = Len(Zero)
  BY <1>1, <1>2, BytesSet
<1> HIDE DEF one
<1>4. two \in Buffers /\ Len(two) = Len(one)
  BY <1>1, <1>3, BytesSet
<1>5. disk = [s \in Sector |-> IF s = 0 THEN two ELSE IF s < FatSize THEN Zero ELSE After]
  BY DEF Init, one
<1> HIDE DEF two
<1>6. two \in SectorData
  BY <1>2, <1>3, <1>4 DEF SectorData, Buffers
<1>7. FatSize \in Sector /\ FatSize # 0 /\ ~(FatSize < FatSize)
  BY Bounds DEF Sector
<1> QED BY <1>2, <1>5, <1>6, <1>7

LEMMA InitInv ==
  ASSUME Init
  PROVE  Inv
<1>1. /\ type \in Types /\ dev = DevIdle /\ drv = DrvIdle /\ faults = 0 /\ late = NoRead
      /\ task = NoTask /\ want = [c \in Clusters(type) |-> Untaken] /\ lost = {} /\ tasks = 0
  BY DEF Init
<1>2. Taken = {}
  BY <1>1 DEF Taken
<1>3. NoTask \in Task /\ NoTask.op = "none" /\ NoTask.f = ""
  BY DEF NoTask, Task
<1>4. Shapes
  <2>1. DevIdle \in [busy : BOOLEAN, drq : BOOLEAN, err : BOOLEAN,
              op : {"none", "read", "write", "flush"}, lba : Nat, left : 0 .. Count,
              data : SectorData \cup {<<>>}]
    BY Bounds DEF DevIdle
  <2>2. 0 \in 0 .. NSectors - Count /\ 0 \in 0 .. Count /\ 0 \in 0 .. PollLimit /\ 0 \in 0 .. Tries
    BY Bounds
  <2>3. "idle" \in Pcs /\ <<>> \in Seq(SectorData)
    BY DEF Pcs
  <2>4. DrvIdle \in [pc : Pcs, lba : 0 .. NSectors - Count, i : 0 .. Count, n : 0 .. PollLimit,
               tries : 0 .. Tries, buf : Seq(SectorData), ok : BOOLEAN]
    BY <2>2, <2>3 DEF DrvIdle
  <2>5. Len(drv.buf) <= Count
    BY <1>1, Bounds DEF DrvIdle
  <2>6. faults \in 0 .. MaxFaults /\ late \in {NoRead} \cup 0 .. NSectors - Count
    <3>1. faults = 0 /\ late = NoRead
      BY DEF Init
    <3>2. 0 \in 0 .. MaxFaults
      BY Bounds
    <3> QED BY ONLY <3>1, <3>2
  <2>7. disk \in [Sector -> SectorData]
    BY FirstTable
  <2>8. dev \in [busy : BOOLEAN, drq : BOOLEAN, err : BOOLEAN,
              op : {"none", "read", "write", "flush"}, lba : Nat, left : 0 .. Count,
              data : SectorData \cup {<<>>}]
    BY <1>1, <2>1
  <2>9. drv \in [pc : Pcs, lba : 0 .. NSectors - Count, i : 0 .. Count, n : 0 .. PollLimit,
               tries : 0 .. Tries, buf : Seq(SectorData), ok : BOOLEAN]
    BY <1>1, <2>4
  <2> QED BY <2>5, <2>6, <2>7, <2>8, <2>9 DEF Shapes
<1>5. Device /\ Free
  BY <1>1 DEF Device, Free, DevIdle
<1>6. drv.pc = "idle"
  BY <1>1 DEF DrvIdle
<1>7. ReadInv /\ WriteInv
  BY <1>5, <1>6 DEF ReadInv, WriteInv, WritePcs
<1>8. TaskShape
  <2>1. lost \subseteq Sector /\ tasks \in 0 .. MaxTasks /\ task \in Task
    <3>1. 0 \in 0 .. MaxTasks
      BY ONLY DiskAssumption
    <3>2. lost = {} /\ tasks = 0 /\ task = NoTask
      BY ONLY <1>1
    <3> QED BY ONLY <1>3, <3>1, <3>2
  <2>2. task.op = "none" /\ task.f = "" /\ task = NoTask
    BY <1>1, <1>3
  <2> QED BY <1>1, <1>6, <2>1, <2>2 DEF TaskShape
<1>9. Links
  <2>1. want \in [Clusters(type) -> Int]
    BY <1>1 DEF Untaken
  <2> QED BY <1>2, <2>1 DEF Links
<1>10. Goal
  BY <1>1, <1>3 DEF Goal
<1>11. TableKept /\ BufferKept
  BY <1>2, <1>6, FirstTable DEF TableKept, BufferKept, Writing
<1> QED BY <1>4, <1>5, <1>7, <1>8, <1>9, <1>10, <1>11 DEF Inv, DriverInv, TableInv

LEMMA DrivingKeeps ==
  ASSUME DriverInv, TableInv, Driving
  PROVE  Inv'
<1>1. UNCHANGED disk_vars /\ (DevReady \/ DevFail \/ Driver)
  BY DEF Driving
<1>2. DriverInv'
  BY <1>1, DevReadyKeeps, DevFailKeeps, ReadWaitKeeps, ReadPollKeeps, WritePollKeeps,
    WriteFlushKeeps, WriteEndKeeps DEF Driver
<1>3. TableInv'
  BY <1>1, DevReadyTable, DrivingTable
<1> QED BY <1>2, <1>3 DEF Inv

LEMMA InvNext ==
  ASSUME LinksFit
  PROVE  Inv /\ [Next]_vars => Inv'
<1> SUFFICES ASSUME Inv, [Next]_vars PROVE Inv'
  OBVIOUS
<1>1. DriverInv /\ TableInv
  BY DEF Inv
<1>2. CASE FileSystem
  BY <1>1, <1>2, FileSystemKeeps
<1>3. CASE Driving
  BY <1>1, <1>3, DrivingKeeps
<1>4. CASE ReadDone
  BY <1>1, <1>4, ReadDoneKeeps
<1>5. CASE WriteDone
  BY <1>1, <1>5, WriteDoneKeeps
<1>6. CASE UNCHANGED vars
  <2>1. /\ disk' = disk /\ dev' = dev /\ drv' = drv /\ faults' = faults /\ late' = late
        /\ type' = type /\ task' = task /\ want' = want /\ lost' = lost /\ tasks' = tasks
    BY <1>6 DEF vars, ata_vars, disk_vars
  <2>2. Shapes' /\ Device' /\ ReadInv' /\ WriteInv'
    BY <1>1, <2>1 DEF DriverInv, Shapes, Device, ReadInv, WriteInv, Free, AtSector, Given, Matches,
      Excused, AtLate, AtAnswer, OwnAnswer, Answered, Sent
  <2>3. TaskShape' /\ Links'
    BY <1>1, <2>1 DEF TableInv, TaskShape, Links, Taken, LastCluster, Same, SectorOf, Pending
  <2>4. Goal'
    BY <1>1, <2>1, TakenStill DEF TableInv, Goal
  <2>5. TableKept' /\ BufferKept'
    BY <1>1, <2>1 DEF TableInv, TableKept, BufferKept, Taken, SectorOf, Writing, After
  <2> QED BY <2>2, <2>3, <2>4, <2>5 DEF Inv, DriverInv, TableInv
<1> QED BY <1>2, <1>3, <1>4, <1>5, <1>6 DEF Next

LEMMA Invariant ==
  ASSUME LinksFit
  PROVE  Spec => []Inv
<1>1. Init => Inv
  BY InitInv
<1>2. Inv /\ [Next]_vars => Inv'
  BY InvNext
<1> QED BY <1>1, <1>2, PTL DEF Spec

-----------------------------------------------------------------------------
(* What is found free: entries that are not zero are of what is taken.     *)

\* A cluster of S, or one of the first two entries, has the entry of c.
Has(c, S) == \E d \in S \cup {0, 1} : Same(c, d)

InHand == IF Writing THEN {task.c} ELSE {}

\* What is taken once the set is done.
TakenThen == IF task.v = 0 THEN Taken \ {task.c} ELSE Taken \cup {task.c}

OnDisk ==
  \A c \in Clusters(type) :
    SectorOf(c) \notin lost /\ Entry(type, disk[SectorOf(c)], c) # 0 => Has(c, Taken \cup InHand)

InWrite ==
  Writing =>
    \A c \in Clusters(type), k \in 1 .. Count :
      SectorOf(c) = drv.lba + k - 1 /\ SectorOf(c) \notin lost /\ Entry(type, drv.buf[k], c) # 0
        => Has(c, TakenThen)

\* The entries that the search has gone past.
LookedAt == task.f = "free" => \A c \in Clusters(type) : c < task.c => Has(c, Taken)

OwnedInv == OnDisk /\ InWrite /\ LookedAt

LEMMA HasMore ==
  ASSUME NEW c, NEW S, NEW T, S \subseteq T, Has(c, S)
  PROVE  Has(c, T)
BY DEF Has

LEMMA HasStill ==
  ASSUME UNCHANGED type, NEW c, NEW S
  PROVE  Has(c, S)' <=> Has(c, S')
<1>1. \A a, d : Same(a, d)' <=> Same(a, d)
  BY DEF Same, SectorOf
<1> QED BY <1>1 DEF Has

\* A step that changes neither the table nor the write.
LEMMA OwnedStill ==
  ASSUME OwnedInv, UNCHANGED <<disk, type, task, want, lost>>, Writing' <=> Writing,
         Writing => drv'.buf = drv.buf /\ drv'.lba = drv.lba
  PROVE  OwnedInv'
<1>1. Taken' = Taken /\ InHand' = InHand /\ TakenThen' = TakenThen
  BY DEF Taken, InHand, TakenThen
<1>2. \A c, d : Same(c, d)' <=> Same(c, d)
  BY DEF Same, SectorOf
<1> QED BY <1>1, <1>2 DEF OwnedInv, OnDisk, InWrite, LookedAt, Has, SectorOf

\* A step that sets nothing, when nothing is being written.
LEMMA OwnedIdle ==
  ASSUME OwnedInv, ~Writing, ~Writing', UNCHANGED <<disk, type, want>>, lost \subseteq lost',
         LookedAt'
  PROVE  OwnedInv'
<1>1. Taken' = Taken /\ InHand' = {} /\ InHand = {}
  BY DEF Taken, InHand
<1>2. \A c, d : Same(c, d)' <=> Same(c, d)
  BY DEF Same, SectorOf
<1>3. OnDisk'
  BY <1>1, <1>2 DEF OwnedInv, OnDisk, Has, SectorOf
<1> QED BY <1>3 DEF OwnedInv, InWrite

LEMMA OwnedDriving ==
  ASSUME DriverInv, TableInv, Inv', OwnedInv, Driving
  PROVE  OwnedInv'
<1>1. /\ type' = type /\ task' = task /\ want' = want /\ lost' = lost
  BY DEF Driving, disk_vars
<1>2. (Writing <=> drv.pc \in WritePcs) /\ (Writing' <=> drv'.pc \in WritePcs)
  <2>1. TaskShape /\ TaskShape'
    BY DEF TableInv, Inv
  <2>2. (TaskShape => (Writing <=> drv.pc \in WritePcs))'
    BY WritesSet, PTL
  <2> QED BY <2>1, <2>2, WritesSet
<1>3. drv \in [pc : Pcs, lba : 0 .. NSectors - Count, i : 0 .. Count, n : 0 .. PollLimit,
               tries : 0 .. Tries, buf : Seq(SectorData), ok : BOOLEAN]
  BY DEF DriverInv, Shapes
<1>4. CASE DevReady /\ dev.data # <<>>
  <2>1. /\ drv.pc \in {"w_poll", "w_flush", "w_end"} /\ drv.i \in 1 .. Count
        /\ dev.lba = drv.lba + drv.i - 1 /\ dev.data = drv.buf[drv.i]
    BY <1>4, DeviceWrites DEF TableInv
  <2>2. disk' = [disk EXCEPT ![dev.lba] = drv.buf[drv.i]] /\ drv' = drv
    BY <1>4, <2>1 DEF DevReady
  <2>3. Writing /\ Writing'
    BY <1>2, <2>1, <2>2 DEF WritePcs
  <2>4. Taken' = Taken /\ InHand' = InHand /\ TakenThen' = TakenThen /\ InHand = {task.c}
    BY <1>1, <2>3 DEF Taken, InHand, TakenThen
  <2>5. \A c, d : Same(c, d)' <=> Same(c, d)
    BY <1>1 DEF Same, SectorOf
  <2>6. ASSUME NEW c \in Clusters(type), SectorOf(c) \notin lost,
               Entry(type, disk'[SectorOf(c)], c) # 0
        PROVE  Has(c, Taken \cup InHand)
    <3>1. CASE SectorOf(c) = dev.lba
      <4>1. SectorOf(c) \in Sector
        BY TypeIsFat, ClusterShape, Bounds DEF TableInv, SectorOf, Sector
      <4>2. Entry(type, drv.buf[drv.i], c) # 0
        BY <2>2, <2>6, <3>1, <4>1, Fields DEF DriverInv
      <4>3. Has(c, TakenThen)
        BY <2>1, <2>3, <2>6, <3>1, <4>2 DEF OwnedInv, InWrite
      <4>4. TakenThen \subseteq Taken \cup InHand
        BY <2>4 DEF TakenThen
      <4> QED BY <4>3, <4>4, HasMore
    <3>2. CASE SectorOf(c) # dev.lba
      <4>1. SectorOf(c) \in Sector
        BY TypeIsFat, ClusterShape, Bounds DEF TableInv, SectorOf, Sector
      <4>2. disk'[SectorOf(c)] = disk[SectorOf(c)]
        BY <2>2, <3>2, <4>1, Fields DEF DriverInv
      <4> QED BY <2>6, <4>2 DEF OwnedInv, OnDisk
    <3> QED BY <3>1, <3>2
  <2>7. OnDisk'
    BY <1>1, <2>4, <2>5, <2>6 DEF OnDisk, Has, SectorOf
  <2>8. InWrite' /\ LookedAt'
    BY <1>1, <2>2, <2>3, <2>4, <2>5 DEF OwnedInv, InWrite, LookedAt, Has, SectorOf
  <2> QED BY <2>7, <2>8 DEF OwnedInv
<1>5. CASE DevReady /\ dev.data = <<>>
  <2>1. disk' = disk /\ drv' = drv
    BY <1>5 DEF DevReady
  <2> QED BY <1>1, <1>2, <2>1, OwnedStill
<1>6. CASE DevFail
  <2>1. disk' = disk /\ drv' = drv
    BY <1>6 DEF DevFail
  <2> QED BY <1>1, <1>2, <2>1, OwnedStill
<1>7. CASE Driver
  <2>1. /\ disk' = disk /\ drv'.lba = drv.lba
        /\ drv.pc \in WritePcs <=> drv'.pc \in WritePcs
        /\ drv.pc \in WritePcs => drv'.buf = drv.buf
    <3>1. CASE ReadWait
      BY <1>3, <3>1 DEF ReadWait, WritePcs
    <3>2. CASE ReadPoll
      <4>1. drv.pc = "r_poll" /\ disk' = disk
        BY <3>2 DEF ReadPoll
      <4>2. drv'.pc \in {"r_wait", "r_poll", "read"} /\ drv'.lba = drv.lba
        BY <1>3, <3>2 DEF ReadPoll, TryAgain, TakeSector
      <4> QED BY <4>1, <4>2 DEF WritePcs
    <3>3. CASE WritePoll
      <4>1. drv.pc = "w_poll" /\ disk' = disk
        BY <3>3 DEF WritePoll
      <4>2. drv'.pc \in {"w_poll", "w_flush", "written"} /\ drv'.lba = drv.lba /\ drv'.buf = drv.buf
        BY <1>3, <3>3 DEF WritePoll, GiveSector
      <4> QED BY <4>1, <4>2 DEF WritePcs
    <3>4. CASE WriteFlush
      BY <1>3, <3>4 DEF WriteFlush, WritePcs
    <3>5. CASE WriteEnd
      BY <1>3, <3>5 DEF WriteEnd, WritePcs
    <3> QED BY <1>7, <3>1, <3>2, <3>3, <3>4, <3>5 DEF Driver
  <2> QED BY <1>1, <1>2, <2>1, OwnedStill
<1> QED BY <1>4, <1>5, <1>6, <1>7 DEF Driving

\* A search begins with the first cluster.
LEMMA OwnedBegin ==
  ASSUME DriverInv, TableInv, Inv', OwnedInv, FileSystem
  PROVE  OwnedInv'
<1>1. PICK t : Begin(t) /\ (t.f = "free" => t.c = 2)
  <2>1. ASSUME NEW op, NEW tail, Take(op, tail)
        PROVE  \E t : Begin(t) /\ (t.f = "free" => t.c = 2)
    <3> DEFINE t == [NoTask EXCEPT !.op = op, !.f = "free", !.c = 2, !.tail = tail]
    <3>1. t.c = 2
      BY DEF NoTask
    <3>2. Begin(t)
      BY <2>1 DEF Take
    <3> HIDE DEF t
    <3> QED BY <3>1, <3>2
  <2>2. ASSUME NEW op, NEW c, Begin([NoTask EXCEPT !.op = op, !.f = "next", !.c = c])
        PROVE  \E t : Begin(t) /\ (t.f = "free" => t.c = 2)
    <3> DEFINE t == [NoTask EXCEPT !.op = op, !.f = "next", !.c = c]
    <3>1. t.f = "next"
      BY DEF NoTask
    <3>2. Begin(t)
      BY <2>2
    <3> HIDE DEF t
    <3> QED BY <3>1, <3>2
  <2> QED BY <2>1, <2>2 DEF FileSystem, New, Extend, ExtendDir, Follow, RemoveChain
<1>2. /\ task.op = "none" /\ Call(t) /\ UNCHANGED <<disk, type, want, lost>>
  BY <1>1 DEF Begin
<1>3. task' = t /\ drv'.pc = "r_wait"
  BY <1>2 DEF Call, StartRead, DrvIdle
<1>4. ~Writing /\ ~Writing'
  BY <1>2, <1>3 DEF TableInv, TaskShape, Writing
<1>5. \A c \in Clusters(type') : ~(c < 2)
  BY Bounds DEF Clusters
<1>6. LookedAt'
  BY <1>1, <1>3, <1>5 DEF LookedAt
<1> QED BY <1>2, <1>4, <1>6, OwnedIdle

\* A call begins with a wait, and the end of one leaves nothing to do.
LEMMA CallWaits ==
  /\ \A t : Call(t) => drv'.pc = "r_wait" /\ task' = t
  /\ \A t : SetNext(t) => drv'.pc = "r_wait"
  /\ End => drv'.pc = "idle" /\ task'.f = ""
<1>1. \A t : Call(t) => drv'.pc = "r_wait" /\ task' = t
  BY DEF Call, StartRead, DrvIdle
<1>2. \A t : SetNext(t) => drv'.pc = "r_wait"
  BY <1>1 DEF SetNext
<1>3. End => drv'.pc = "idle" /\ task'.f = ""
  <2>1. End => drv' = DrvIdle /\ task' = NoTask
    BY DEF End
  <2>2. DrvIdle.pc = "idle"
    BY DEF DrvIdle
  <2>3. NoTask.f = ""
    BY DEF NoTask
  <2> QED BY <2>1, <2>2, <2>3
<1> QED BY <1>1, <1>2, <1>3

\* What a search finds in the sector it has read: a cluster that is free, or nothing,
\* and then all that it has gone past is taken.
LEMMA FoundIs ==
  ASSUME DriverInv, TableInv, OwnedInv, drv.pc = "read", drv.ok, task.f = "free", Found,
         UNCHANGED <<type, want>>
  PROVE  \/ /\ task'.f = "set"
            /\ (IF task.op = "extend_dir" THEN task'.v ELSE task'.c) \in Clusters(type) \ Taken
         \/ /\ task'.f = "free"
            /\ \A c \in Clusters(type) : c < task'.c => Has(c, Taken)
         \/ /\ task'.f = ""
            /\ \A c \in Clusters(type) : Has(c, Taken)
<1> DEFINE zero == {c \in InBuffer : Entry(type, Buffer, c) = 0}
           more == {c \in Clusters(type) : c >= task.c} \ InBuffer
<1>1. /\ ~Writing /\ (task.op # "follow" => lost = {}) /\ task.op # "none" /\ type \in FatTypes
      /\ task.c \in Clusters(type) /\ drv.lba = SectorOf(task.c) /\ task \in Task
  BY Looking
<1>2. /\ task.op \in {"new", "extend", "extend_dir"} /\ task.tail \in Int /\ task.c \in Int
      /\ task.op # "follow" /\ lost = {}
  BY <1>1 DEF TableInv, TaskShape, Task
<1>3. Clusters(type) \subseteq Nat
  BY <1>1, ClusterShape
<1>4. ASSUME NEW c \in Clusters(type), c \notin zero, c \notin more
      PROVE  Has(c, Taken)
  <2>1. CASE c < task.c
    BY <2>1 DEF OwnedInv, LookedAt
  <2>2. CASE c >= task.c
    <3>1. c \in InBuffer /\ Entry(type, Buffer, c) # 0
      BY <1>4, <2>2
    <3>2. SectorOf(c) = drv.lba
      BY <3>1 DEF InBuffer
    <3>3. Entry(type, disk[SectorOf(c)], c) # 0
      BY <1>2, <3>1, <3>2, EntryRead
    <3>4. InHand = {}
      BY <1>1 DEF InHand
    <3>5. Has(c, Taken \cup InHand)
      BY <1>2, <3>3 DEF OwnedInv, OnDisk
    <3>6. Taken \cup InHand = Taken
      BY <3>4
    <3> QED BY <3>5, <3>6
  <2> QED BY <1>2, <1>3, <2>1, <2>2
<1>5. CASE zero # {}
  <2> DEFINE c == Min(zero)
             t == [task EXCEPT !.todo = Sets(task, c)]
  <2>1. zero \subseteq Nat
    BY <1>3 DEF InBuffer
  <2>2. c \in zero
    BY <1>5, <2>1, MinIn
  <2>3. c \in Clusters(type) /\ SectorOf(c) = drv.lba /\ Entry(type, Buffer, c) = 0 /\ c \in Int
    BY <2>1, <2>2 DEF InBuffer
  <2>4. SetNext(t)
    BY <1>5 DEF Found
  <2> HIDE DEF c
  <2>5. c \notin Taken
    BY <1>2, <2>3, ZeroIsFresh DEF Fresh
  <2>6. ASSUME NEW a \in Int, NEW v \in Int, NEW todo \in Seq(Int \X Int),
               Sets(task, c) = <<<<a, v>>>> \o todo
        PROVE  task'.f = "set" /\ task'.c = a /\ task'.v = v
    <3>1. <<<<a, v>>>> \o todo \in Seq(Int \X Int) /\ Head(<<<<a, v>>>> \o todo) = <<a, v>>
          /\ Tail(<<<<a, v>>>> \o todo) \in Seq(Int \X Int)
      BY <2>6
    <3> DEFINE all == <<<<a, v>>>> \o todo
    <3>2. t = [task EXCEPT !.todo = all]
      BY <2>6
    <3>3. all \in Seq(Int \X Int) /\ Head(all) = <<a, v>> /\ Tail(all) \in Seq(Int \X Int)
      BY <3>1
    <3> HIDE DEF t, all
    <3>4. t \in Task /\ t.todo = all
      BY <1>1, <3>2, <3>3 DEF Task
    <3>5. <<a, v>> \in Int \X Int
      OBVIOUS
    <3>6. PICK u \in Task : /\ Call(u) /\ u.op = t.op /\ u.tail = t.tail /\ u.f = "set"
                            /\ u.c = Head(t.todo)[1] /\ u.v = Head(t.todo)[2]
                            /\ u.todo = Tail(t.todo)
      BY <2>4, <3>3, <3>4, <3>5, SetNextFirst
    <3>7. task' = u
      BY <3>6 DEF Call
    <3> QED BY <3>3, <3>4, <3>6, <3>7
  <2>7. CASE task.op = "extend_dir"
    <3>1. Sets(task, c) = <<<<task.tail, c>>>> \o <<<<c, -1>>>>
      BY <2>7 DEF Sets
    <3>2. <<<<c, -1>>>> \in Seq(Int \X Int)
      BY <2>3
    <3>3. task'.f = "set" /\ task'.v = c
      BY <1>2, <2>3, <2>6, <3>1, <3>2
    <3> QED BY <2>3, <2>5, <2>7, <3>3
  <2>8. CASE task.op = "new"
    <3>1. Sets(task, c) = <<<<c, -1>>>> \o <<>>
      BY <2>8 DEF Sets
    <3>2. <<>> \in Seq(Int \X Int) /\ -1 \in Int
      OBVIOUS
    <3>3. task'.f = "set" /\ task'.c = c
      BY <2>3, <2>6, <3>1, <3>2
    <3> QED BY <2>3, <2>5, <2>8, <3>3
  <2>9. CASE task.op = "extend"
    <3>1. Sets(task, c) = <<<<c, -1>>>> \o <<<<task.tail, c>>>>
      BY <2>9 DEF Sets
    <3>2. <<<<task.tail, c>>>> \in Seq(Int \X Int) /\ -1 \in Int
      BY <1>2, <2>3
    <3>3. task'.f = "set" /\ task'.c = c
      BY <2>3, <2>6, <3>1, <3>2
    <3> QED BY <2>3, <2>5, <2>9, <3>3
  <2> QED BY <1>2, <2>7, <2>8, <2>9
<1>6. CASE zero = {} /\ more # {}
  <2> DEFINE c == Min(more)
             t == [task EXCEPT !.c = c]
  <2>1. more \subseteq Nat
    BY <1>3
  <2>2. c \in more /\ \A d \in more : c <= d
    BY <1>6, <2>1, MinIn
  <2>3. c \in Int /\ \A d \in Clusters(type) : d < c => d \notin more
    BY <1>3, <2>1, <2>2
  <2>4. Call(t)
    BY <1>6 DEF Found
  <2>5. t.f = "free" /\ t.c = c
    <3> HIDE DEF c
    <3> QED BY <1>1, <2>3 DEF Task
  <2> HIDE DEF c, t
  <2>6. task' = t
    BY <2>4 DEF Call
  <2> QED BY <1>4, <1>6, <2>3, <2>5, <2>6
<1>7. CASE zero = {} /\ more = {}
  <2>1. End
    BY <1>7 DEF Found
  <2>2. task'.f = ""
    BY <2>1 DEF End, NoTask
  <2> QED BY <1>4, <1>7, <2>2
<1> QED BY <1>5, <1>6, <1>7

\* A set puts its own entry in the buffer.
LEMMA OwnedSets ==
  ASSUME DriverInv, TableInv, OwnedInv, ReadDone, task.f = "set"
  PROVE  OwnedInv'
<1>1. PICK s \in SectorData :
        /\ StartWrite(drv.lba, <<s, drv.buf[2]>>)
        /\ Entry(type, s, task.c) = task.v % Values(type)
        /\ \A c \in Clusters(type) :
             ~SamePlace(task.c, c) => Entry(type, s, c) = Entry(type, drv.buf[1], c)
  BY SetBuffer
<1>2. /\ drv.pc = "read" /\ UNCHANGED <<disk, type, task, want>>
      /\ lost' = lost \cup IF drv.ok THEN {} ELSE {drv.lba, drv.lba + 1}
  BY DEF ReadDone
<1>3. drv'.pc = "w_poll" /\ drv'.lba = drv.lba /\ drv'.buf = <<s, drv.buf[2]>>
  BY <1>1 DEF StartWrite, DrvIdle
<1>4. ~Writing /\ Writing'
  BY <1>2, <1>3 DEF Writing
<1>5. Taken' = Taken /\ TakenThen' = TakenThen /\ InHand = {}
  BY <1>2, <1>4 DEF Taken, TakenThen, InHand
<1>6. \A c, d : Same(c, d)' <=> Same(c, d)
  BY <1>2 DEF Same, SectorOf
<1>7. type \in FatTypes /\ drv.lba = SectorOf(task.c) /\ task.v \in Int
  <2>1. NoTask.f = ""
    BY DEF NoTask
  <2> QED BY <2>1, TypeIsFat DEF TableInv, TaskShape, Task
<1>8. OnDisk'
  <2>1. \A c \in Clusters(type) :
          SectorOf(c) \notin lost' /\ Entry(type, disk[SectorOf(c)], c) # 0 => Has(c, Taken)
    BY <1>2, <1>5 DEF OwnedInv, OnDisk
  <2> QED BY <1>2, <1>5, <1>6, <2>1 DEF OnDisk, Has, SectorOf
<1>9. ASSUME NEW c \in Clusters(type), NEW k \in 1 .. Count, SectorOf(c) = drv.lba + k - 1,
             SectorOf(c) \notin lost', Entry(type, <<s, drv.buf[2]>>[k], c) # 0
      PROVE  Has(c, TakenThen)
  <2>1. drv.ok /\ SectorOf(c) \notin lost
    <3>1. SectorOf(c) \in {drv.lba, drv.lba + 1}
      BY <1>9, Fields, Bounds DEF DriverInv
    <3> QED BY <1>2, <1>9, <3>1
  <2>2. disk[SectorOf(c)] = drv.buf[k]
    BY <1>2, <1>9, <2>1, ReadSent, SetIsNoFollow DEF Matches
  <2>3. ASSUME ~Same(c, task.c), Entry(type, drv.buf[k], c) # 0
        PROVE  Has(c, TakenThen)
    <3>1. Has(c, Taken \cup {})
      BY <1>5, <2>1, <2>2, <2>3 DEF OwnedInv, OnDisk
    <3>2. PICK d \in Taken \cup {0, 1} : Same(c, d)
      BY <3>1 DEF Has
    <3>3. d # task.c
      BY <2>3, <3>2
    <3> QED BY <3>2, <3>3 DEF Has, TakenThen
  <2>4. CASE k = 1 /\ SamePlace(task.c, c)
    <3>1. SectorOf(c) = SectorOf(task.c)
      BY <1>7, <1>9, <2>4, Fields DEF DriverInv
    <3>2. Same(c, task.c)
      BY <2>4, <3>1 DEF SamePlace, SamePlaceOf, Same
    <3>3. Entry(type, s, c) = task.v % Values(type)
      BY <1>1, <3>2, SameEntry
    <3>4. task.v # 0
      <4>1. 0 % Values(type) = 0
        BY <1>7, LimitSplit
      <4> QED BY <1>9, <2>4, <3>3, <4>1
    <3> QED BY <3>2, <3>4 DEF Has, TakenThen
  <2>5. CASE k = 1 /\ ~SamePlace(task.c, c)
    <3>1. ~Same(c, task.c)
      BY <2>5 DEF SamePlace, SamePlaceOf, Same
    <3>2. Entry(type, drv.buf[k], c) # 0
      BY <1>1, <1>9, <2>5
    <3> QED BY <2>3, <3>1, <3>2
  <2>6. CASE k = 2
    <3>1. SectorOf(c) # SectorOf(task.c)
      BY <1>7, <1>9, <2>6, Fields DEF DriverInv
    <3>2. ~Same(c, task.c)
      BY <3>1 DEF Same
    <3>3. Entry(type, drv.buf[k], c) # 0
      BY <1>9, <2>6
    <3> QED BY <2>3, <3>2, <3>3
  <2> QED BY <2>4, <2>5, <2>6, Bounds
<1>10. InWrite'
  BY <1>2, <1>3, <1>5, <1>6, <1>9 DEF InWrite, Has, SectorOf
<1>11. LookedAt'
  BY <1>2 DEF LookedAt
<1> QED BY <1>8, <1>10, <1>11 DEF OwnedInv

LEMMA OwnedReadDone ==
  ASSUME DriverInv, TableInv, OwnedInv, ReadDone
  PROVE  OwnedInv'
<1>1. CASE task.f = "set"
  BY <1>1, OwnedSets
<1>2. CASE task.f # "set"
  <2>1. /\ drv.pc = "read" /\ UNCHANGED <<disk, type, want>> /\ lost \subseteq lost'
    BY DEF ReadDone
  <2>2. ~Writing /\ task.f \in {"free", "next"}
    BY <1>2, <2>1, Looking
  <2>3. drv'.pc \in {"idle", "r_wait"}
    <3>1. \/ End
          \/ \E t : SetNext(t)
          \/ \E t : Call(t)
      BY <1>2 DEF ReadDone, Found, Followed
    <3> QED BY <3>1, CallWaits
  <2>4. ~Writing'
    BY <2>3 DEF Writing
  <2>5. LookedAt'
    <3> SUFFICES ASSUME task'.f = "free" PROVE LookedAt'
      BY DEF LookedAt
    <3>1. ~End
      BY CallWaits
    <3>2. drv.ok
      BY <1>2, <3>1 DEF ReadDone
    <3>3. CASE task.f = "free"
      <4>1. Found
        BY <3>2, <3>3 DEF ReadDone
      <4>2. \A c \in Clusters(type) : c < task'.c => Has(c, Taken)
        BY <2>1, <3>2, <3>3, <4>1, FoundIs
      <4>3. Taken' = Taken /\ \A c : Has(c, Taken)' <=> Has(c, Taken)
        <5>1. Taken' = Taken
          BY <2>1 DEF Taken
        <5> QED BY <2>1, <5>1, HasStill DEF Has
      <4> QED BY <2>1, <4>2, <4>3 DEF LookedAt
    <3>4. CASE task.f = "next"
      <4>1. Followed
        BY <3>2, <3>4 DEF ReadDone
      <4> DEFINE t == [task EXCEPT !.todo = <<<<task.c, 0>>>>, !.tail = Entry(type, Buffer, task.c)]
      <4>2. task.op = "remove" /\ SetNext(t)
        BY <3>1, <4>1 DEF Followed
      <4>3. task' = [t EXCEPT !.f = "set", !.c = Head(t.todo)[1], !.v = Head(t.todo)[2],
                              !.todo = Tail(@)]
        BY <4>2 DEF SetNext, Call
      <4>4. task \in Task
        BY DEF TableInv, TaskShape
      <4>5. task'.f = "set"
        BY <4>3, <4>4 DEF Task
      <4> QED BY <4>5
    <3> QED BY <2>2, <3>3, <3>4
  <2> QED BY <2>1, <2>2, <2>4, <2>5, OwnedIdle
<1> QED BY <1>1, <1>2

\* What is taken is what was to be taken.
LEMMA OwnedWriteDone ==
  ASSUME DriverInv, TableInv, OwnedInv, WriteDone
  PROVE  OwnedInv'
<1>1. /\ task \in Task /\ task.f = "set" /\ Writing /\ drv.lba = SectorOf(task.c)
      /\ UNCHANGED <<disk, type>> /\ lost \subseteq lost' /\ type \in FatTypes
  BY Written
<1>2. Taken' = TakenThen
  BY Written DEF TakenThen
<1>3. drv'.pc \in {"idle", "r_wait"}
  BY CallWaits DEF WriteDone
<1>4. ~Writing'
  BY <1>3 DEF Writing
<1>5. task'.f # "free"
  <2>1. CASE End
    BY <2>1 DEF End, NoTask
  <2>2. CASE SetNext(task)
    <3>1. task' = [task EXCEPT !.f = "set", !.c = Head(task.todo)[1], !.v = Head(task.todo)[2],
                               !.todo = Tail(@)]
      BY <2>2 DEF SetNext, Call
    <3> QED BY <1>1, <3>1 DEF Task
  <2>3. CASE Call([task EXCEPT !.f = "next", !.c = task.tail])
    <3>1. task' = [task EXCEPT !.f = "next", !.c = task.tail]
      BY <2>3 DEF Call
    <3> QED BY <1>1, <3>1 DEF Task
  <2> QED BY <2>1, <2>2, <2>3 DEF WriteDone
<1>6. ASSUME NEW c \in Clusters(type), SectorOf(c) \notin lost',
             Entry(type, disk[SectorOf(c)], c) # 0
      PROVE  Has(c, TakenThen)
  <2>1. SectorOf(c) \notin lost /\ SectorOf(c) \in Nat /\ drv.lba \in Nat
    BY <1>1, <1>6, ClusterShape, Bounds, Fields DEF SectorOf, DriverInv
  <2>2. CASE SectorOf(c) \in {drv.lba, drv.lba + 1}
    <3>1. drv.ok /\ faults = 0 /\ late = NoRead
      BY <1>6, <2>2 DEF WriteDone
    <3>2. Matches(Count)
      BY <3>1 DEF WriteDone, DriverInv, WriteInv, Excused
    <3>3. PICK k \in 1 .. Count : SectorOf(c) = drv.lba + k - 1
      <4>1. 1 \in 1 .. Count /\ 2 \in 1 .. Count /\ drv.lba = drv.lba + 1 - 1
            /\ drv.lba + 1 = drv.lba + 2 - 1
        BY <2>1, Bounds
      <4> QED BY <2>2, <4>1
    <3>4. disk[SectorOf(c)] = drv.buf[k]
      BY <3>2, <3>3 DEF Matches
    <3> QED BY <1>1, <1>6, <2>1, <3>3, <3>4 DEF OwnedInv, InWrite
  <2>3. CASE SectorOf(c) \notin {drv.lba, drv.lba + 1}
    <3>1. Has(c, Taken \cup {task.c})
      BY <1>1, <1>6, <2>1 DEF OwnedInv, OnDisk, InHand
    <3>2. PICK d \in Taken \cup {task.c} \cup {0, 1} : Same(c, d)
      BY <3>1 DEF Has
    <3>3. d # task.c
      BY <1>1, <2>3, <3>2 DEF Same
    <3> QED BY <3>2, <3>3 DEF Has, TakenThen
  <2> QED BY <2>2, <2>3
<1>7. \A c, d : Same(c, d)' <=> Same(c, d)
  BY <1>1 DEF Same, SectorOf
<1>8. OnDisk'
  <2>1. InHand' = {} /\ Taken' \cup InHand' = TakenThen
    BY <1>2, <1>4 DEF InHand
  <2> QED BY <1>1, <1>6, <1>7, <2>1 DEF OnDisk, Has, SectorOf
<1>9. InWrite' /\ LookedAt'
  BY <1>4, <1>5 DEF InWrite, LookedAt
<1> QED BY <1>8, <1>9 DEF OwnedInv

\* The entries of an empty table are zero.
LEMMA ZeroEntry ==
  ASSUME NEW ty \in FatTypes, NEW c \in Nat, Zero \in Buffers
  PROVE  Entry(ty, Zero, c) = 0
<1> DEFINE none == [k \in 0 .. 3 |-> 0]
<1>1. /\ byte_per_entry(ty) \in 2 .. 4 /\ SectorSize \in Nat /\ entry_offset(ty, c) \in Nat
      /\ entry_offset(ty, c) + byte_per_entry(ty) <= SectorSize
  BY EntrySize, InSector
<1>2. ASSUME NEW k \in 0 .. byte_per_entry(ty) - 1
      PROVE  Bytes(ty, Zero, c)[k] = none[k]
  <2>1. entry_offset(ty, c) + k + 1 \in 1 .. SectorSize /\ k \in 0 .. 3
    BY <1>1
  <2>2. Bytes(ty, Zero, c)[k] = Zero[entry_offset(ty, c) + k + 1]
    BY BytesRead
  <2> QED BY <2>1, <2>2 DEF Zero
<1>3. Number(ty, none) = 0
  <2>1. none[0] = 0 /\ none[1] = 0 /\ none[2] = 0 /\ none[3] = 0
    OBVIOUS
  <2> HIDE DEF none
  <2> QED BY <2>1, BaseType DEF Number, FatTypes
<1>4. entry_val(ty, Zero, c) = 0
  <2>1. Number(ty, Bytes(ty, Zero, c)) = Number(ty, none)
    BY <1>2, NumberSame
  <2> QED BY <1>3, <2>1, BytesRead
<1>5. 0 % Values(ty) = 0 /\ 0 \div Values(12) = 0
  <2>1. Values(ty) \in Nat \ {0} /\ Values(12) \in Nat \ {0}
    BY LimitSplit DEF FatTypes
  <2> QED BY <2>1
<1> QED BY <1>4, <1>5 DEF Entry

\* The first two entries are in the first sector, unless all entries have the same place.
LEMMA FirstPlaces ==
  ASSUME NEW ty \in FatTypes
  PROVE  /\ sector_offset(ty, 0) = 0
         /\ sector_offset(ty, 1) = 0 \/ SamePlaceOf(ty, 1, 0)
<1>1. SectorSize \in Nat /\ SectorSize >= 4
  BY Bounds
<1>2. ASSUME NEW n \in 0 .. SectorSize - 1 PROVE n \div SectorSize = 0
  <2>1. (SectorSize * 0 + n) \div SectorSize = 0
    BY <1>1, QuotientUnique
  <2>2. SectorSize * 0 + n = n
    BY <1>1
  <2> QED BY <2>1, <2>2
<1>3. sector_offset(ty, 0) = 0
  <2>1. entry_no(ty, 0) * byte_per_entry(ty) = 0
    BY EntrySize DEF entry_no
  <2> QED BY <1>1, <1>2, <2>1 DEF sector_offset
<1>4. CASE ty = 12
  <2>1. entry_no(ty, 1) * byte_per_entry(ty) = 0
    BY <1>4, EntrySize DEF entry_no
  <2> QED BY <1>1, <1>2, <1>3, <2>1 DEF sector_offset
<1>5. CASE ty = 16
  <2>1. entry_no(ty, 1) * byte_per_entry(ty) = 2
    BY <1>5 DEF entry_no, byte_per_entry
  <2> QED BY <1>1, <1>2, <1>3, <2>1 DEF sector_offset
<1>6. CASE ty = 32
  <2>1. entry_no(ty, 1) * byte_per_entry(ty) = 4 /\ byte_per_entry(ty) = 4
    BY <1>6 DEF entry_no, byte_per_entry
  <2>2. CASE SectorSize > 4
    BY <1>1, <1>2, <1>3, <2>1, <2>2 DEF sector_offset
  <2>3. CASE SectorSize = 4
    <3>1. entry_offset(ty, 1) = 0 /\ entry_offset(ty, 0) = 0
      BY <1>6, <2>1, <2>3 DEF entry_offset, entry_no
    <3> QED BY <1>3, <1>6, <3>1 DEF SamePlaceOf, High
  <2> QED BY <1>1, <2>2, <2>3
<1> QED BY <1>4, <1>5, <1>6 DEF FatTypes

\* A table begins with its first two entries.
LEMMA OwnedFirst ==
  ASSUME Init
  PROVE  OwnedInv
<1>1. type \in FatTypes /\ task = NoTask /\ drv.pc = "idle"
  BY DiskAssumption DEF Init, DrvIdle
<1>2. Zero \in Buffers
  <2>1. 0 \in Byte
    BY BaseType, FatTableAssumption, TimesGrows DEF Byte
  <2>2. Zero \in [1 .. SectorSize -> Byte]
    BY <2>1 DEF Zero
  <2>3. Zero \in SectorData
    BY <2>2, Bounds DEF SectorData
  <2> QED BY <2>3, SectorShape
<1> DEFINE one == SetEntry(type, Zero, 0, -1)
           two == SetEntry(type, one, 1, -1)
<1>8. type \in FatTypes
  BY <1>1
<1>3. one \in Buffers /\ Len(one) = Len(Zero)
  BY <1>2, <1>8, BytesSet
<1>4. disk = [s \in Sector |-> IF s = 0 THEN two ELSE IF s < FatSize THEN Zero ELSE After]
  BY DEF Init
<1>5. ASSUME NEW c \in Nat, ~SamePlace(0, c), ~SamePlace(1, c)
      PROVE  Entry(type, two, c) = 0
  <2>1. Entry(type, one, c) = Entry(type, Zero, c)
    BY <1>1, <1>2, <1>5, Set_Keeps DEF SamePlace, SamePlaceOf
  <2> HIDE DEF one
  <2>2. Entry(type, two, c) = Entry(type, one, c)
    BY <1>1, <1>3, <1>5, Set_Keeps DEF SamePlace, SamePlaceOf
  <2> QED BY <1>1, <1>2, <2>1, <2>2, ZeroEntry
<1> HIDE DEF one, two
<1>6. ASSUME NEW c \in Clusters(type), Entry(type, disk[SectorOf(c)], c) # 0
      PROVE  Has(c, Taken \cup InHand)
  <2>1. c \in Nat /\ SectorOf(c) \in 0 .. FatSize - 1
    BY <1>1, ClusterShape DEF SectorOf
  <2>2. SectorOf(c) \in Sector /\ SectorOf(c) < FatSize
    BY <2>1, Bounds DEF Sector
  <2>3. disk[SectorOf(c)] = IF SectorOf(c) = 0 THEN two ELSE Zero
    BY <1>4, <2>2
  <2>4. SectorOf(c) = 0 /\ (SamePlace(0, c) \/ SamePlace(1, c))
    BY <1>1, <1>2, <1>5, <1>6, <2>1, <2>3, ZeroEntry
  <2>5. SectorOf(0) = 0 /\ (SectorOf(1) = 0 \/ SamePlace(1, 0))
    BY <1>1, FirstPlaces DEF SectorOf, SamePlace
  <2>6. Same(c, 0) \/ Same(c, 1)
    <3>1. SamePlace(0, c) => Same(c, 0)
      BY <2>4, <2>5 DEF SamePlace, SamePlaceOf, Same
    <3>2. SamePlace(1, c) /\ SectorOf(1) = 0 => Same(c, 1)
      BY <2>4 DEF SamePlace, SamePlaceOf, Same
    <3>3. SamePlace(1, c) /\ SamePlace(1, 0) => SamePlace(0, c)
      BY DEF SamePlace, SamePlaceOf
    <3> QED BY <2>4, <2>5, <3>1, <3>2, <3>3
  <2> QED BY <2>6 DEF Has
<1>7. ~Writing /\ task.f # "free"
  BY <1>1 DEF Writing, NoTask
<1> QED BY <1>6, <1>7 DEF OwnedInv, OnDisk, InWrite, LookedAt

LEMMA OwnedInvariant ==
  ASSUME LinksFit
  PROVE  Spec => [](Inv /\ OwnedInv)
<1>1. Init => OwnedInv
  BY OwnedFirst
<1>2. Inv /\ Inv' /\ OwnedInv /\ [Next]_vars => OwnedInv'
  <2> SUFFICES ASSUME Inv, Inv', OwnedInv, [Next]_vars PROVE OwnedInv'
    OBVIOUS
  <2>1. DriverInv /\ TableInv
    BY DEF Inv
  <2>2. CASE UNCHANGED vars
    <3>1. UNCHANGED <<disk, type, task, want, lost, drv>> /\ (Writing' <=> Writing)
      BY <2>2 DEF vars, ata_vars, disk_vars, Writing
    <3> QED BY <3>1, OwnedStill
  <2> QED BY <2>1, <2>2, OwnedBegin, OwnedDriving, OwnedReadDone, OwnedWriteDone DEF Next
<1> QED BY <1>1, <1>2, Invariant, PTL DEF Spec

-----------------------------------------------------------------------------
(* The theorems.                                                           *)

\* The driver, the device and the file system stay within the request and the table.
THEOREM Disk_Typing == LinksFit => (Spec => []TypeOK)
<1> SUFFICES ASSUME LinksFit PROVE Spec => []TypeOK
  OBVIOUS
<1>1. Inv => TypeOK
  <2> SUFFICES ASSUME Inv PROVE TypeOK
    OBVIOUS
  <2>1. Shapes /\ Device /\ TaskShape /\ Links
    BY DEF Inv, DriverInv, TableInv
  <2>2. dev.left > 0 => dev.lba \in Sector
    BY <2>1, Fields, Bounds DEF Shapes, Device, Sector
  <2>3. AtaTypeOK
    BY <2>1, <2>2, Fields DEF Shapes, AtaTypeOK, Pcs
  <2>4. \A s \in Sector : Len(disk[s]) = SectorSize
    BY <2>1 DEF Shapes, SectorData
  <2>5. DOMAIN want = Clusters(type)
    BY <2>1 DEF Links
  <2> QED BY <2>1, <2>3, <2>4, <2>5 DEF TypeOK, TaskShape, Task
<1> QED BY <1>1, Invariant, PTL

\* A read that returns true gave the sectors it was asked for, though the device was at the
\* answer of an earlier try; or, if a read has given up and the device has heard no command
\* since, those of that one: whatever the faults, the tries and the polls.
THEOREM Right_Sectors == LinksFit => (Spec => []RightSectors)
<1> SUFFICES ASSUME LinksFit PROVE Spec => []RightSectors
  OBVIOUS
<1>1. Inv => RightSectors
  <2> SUFFICES ASSUME Inv, drv.pc = "read", drv.ok, NEW k \in 1 .. Count
               PROVE  drv.buf[k] = disk[Answered + k - 1]
    BY DEF RightSectors
  <2> QED BY DEF Inv, DriverInv, ReadInv, Sent
<1> QED BY <1>1, Invariant, PTL

\* A write that returns true is on the disk, with no error and a device that heard it.
THEOREM Write_Lands == LinksFit => (Spec => []WriteLands)
<1> SUFFICES ASSUME LinksFit PROVE Spec => []WriteLands
  OBVIOUS
<1>1. Inv => WriteLands
  <2> SUFFICES ASSUME Inv, drv.pc = "written", drv.ok, faults = 0, late = NoRead, NEW k \in 1 .. Count
               PROVE  disk[drv.lba + k - 1] = drv.buf[k]
    BY DEF WriteLands
  <2>1. ~Excused
    BY DEF Inv, DriverInv, Shapes, Excused
  <2> QED BY <2>1 DEF Inv, DriverInv, WriteInv, Matches
<1> QED BY <1>1, Invariant, PTL

\* The entries of the clusters that are taken are on the disk what was last set, where no
\* request failed: for any number of sectors, of faults, and of sets that share a sector.
THEOREM Table_Kept == LinksFit => (Spec => []TableKept)
<1> SUFFICES ASSUME LinksFit PROVE Spec => []TableKept
  OBVIOUS
<1>1. Inv => TableKept
  BY DEF Inv, TableInv
<1> QED BY <1>1, Invariant, PTL

\* A cluster that the search finds is in the table and in no chain, and it finds none only
\* when each entry is of a cluster that is taken or is one of the first two: for the three
\* kinds of table, whatever was set and freed before.
THEOREM Free_Is_Free == LinksFit => (Spec => FreeIsFree)
<1> SUFFICES ASSUME LinksFit PROVE Spec => FreeIsFree
  OBVIOUS
<1> DEFINE Finds ==
      task.f = "free" /\ task'.f # "free" /\ lost' = {} =>
        IF task'.f = "set"
        THEN (IF task.op = "extend_dir" THEN task'.v ELSE task'.c) \in Clusters(type) \ Taken
        ELSE \A c \in Clusters(type) : \E d \in Taken \cup {0, 1} : Same(c, d)
<1>1. Inv /\ OwnedInv /\ [Next]_vars => [Finds]_vars
  <2> SUFFICES ASSUME Inv, OwnedInv, [Next]_vars, task.f = "free", task'.f # "free", lost' = {}
               PROVE  IF task'.f = "set"
                      THEN (IF task.op = "extend_dir" THEN task'.v ELSE task'.c)
                             \in Clusters(type) \ Taken
                      ELSE \A c \in Clusters(type) : \E d \in Taken \cup {0, 1} : Same(c, d)
    OBVIOUS
  <2>1. DriverInv /\ TableInv
    BY DEF Inv
  <2>2. task' # task
    OBVIOUS
  <2>3. CASE ReadDone
    <3>1. drv.pc = "read" /\ UNCHANGED <<type, want>>
      BY <2>3 DEF ReadDone
    <3>2. drv.ok
      BY <2>3 DEF ReadDone
    <3>3. Found
      BY <2>3, <3>2 DEF ReadDone
    <3>4. \/ /\ task'.f = "set"
             /\ (IF task.op = "extend_dir" THEN task'.v ELSE task'.c) \in Clusters(type) \ Taken
          \/ /\ task'.f = ""
             /\ \A c \in Clusters(type) : Has(c, Taken)
      BY <2>1, <3>1, <3>2, <3>3, FoundIs
    <3> QED BY <3>4 DEF Has
  <2>4. CASE WriteDone
    <3>1. task.f = "set"
      BY <2>1, <2>4, Written
    <3> QED BY <3>1
  <2>5. CASE FileSystem
    <3>1. task.op = "none"
      BY <2>5 DEF FileSystem, New, Extend, ExtendDir, Follow, RemoveChain, Take, Begin
    <3>2. task = NoTask
      BY <2>1, <3>1 DEF TableInv, TaskShape
    <3> QED BY <3>2 DEF NoTask
  <2>6. CASE Driving \/ UNCHANGED vars
    BY <2>2, <2>6 DEF Driving, vars, disk_vars
  <2> QED BY <2>3, <2>4, <2>5, <2>6 DEF Next
<1>2. Spec => [][Finds]_vars
  BY <1>1, OwnedInvariant, PTL DEF Spec
<1> QED BY <1>2 DEF FreeIsFree
================================================================================
