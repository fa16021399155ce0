--------------------------------- MODULE Disk ----------------------------------
(***************************************************************************)
(* The table of clusters on the disk: what the file system asks of it to   *)
(* take a cluster, to lengthen a chain, to follow it and to free it, each  *)
(* a sequence of calls that read two sectors, and maybe write them back,   *)
(* through the driver. The table is at the start of the disk, one sector   *)
(* follows it. Interrupts are off in all of a system call.                 *)
(***************************************************************************)
EXTENDS Ata, FatTable

CONSTANTS
  Types,    \* kinds of file system
  MaxTasks  \* bound: what the file system asks

ASSUME DiskAssumption ==
  /\ Count = 2 /\ NSectors = FatSize + 1 /\ Types \subseteq FatTypes /\ MaxTasks \in Nat
  /\ Junk \subseteq [1 .. SectorSize -> 0 .. Base - 1]
  /\ \A t \in Types : 2 \in Clusters(t)

VARIABLES
  type,   \* infos->fat_type
  task,   \* what is asked: the call it is in, and those it has still to make
  want,   \* history: the value last set for each cluster that is taken
  lost,   \* history: sectors of a request that failed
  tasks   \* history: how many were begun

disk_vars == <<type, task, want, lost, tasks>>
vars == <<ata_vars, disk_vars>>

Zero  == [k \in 1 .. SectorSize |-> 0]
Ones  == [k \in 1 .. SectorSize |-> Base - 1]
After == [k \in 1 .. SectorSize |-> 1]

Untaken == -1
LastCluster    == fat_last_cluster(type)
Taken   == {c \in Clusters(type) : want[c] # Untaken}
Tails   == {c \in Taken : want[c] >= LastCluster}
Heads   == {c \in Taken : \A d \in Taken : want[d] # c}

NoTask == [op |-> "none", f |-> "", c |-> 0, v |-> 0, todo |-> <<>>, tail |-> 0]

TypeOK ==
  /\ AtaTypeOK
  /\ \A s \in Sector : Len(disk[s]) = SectorSize
  /\ type \in Types
  /\ task.op \in {"none", "new", "extend", "extend_dir", "follow", "remove"}
  /\ task.f \in {"", "free", "next", "set"}
  /\ task.op # "none" => task.c \in Clusters(type)
  /\ DOMAIN want = Clusters(type)
  /\ lost \subseteq Sector
  /\ tasks \in 0 .. MaxTasks

\* The first two entries of a new table are not zero.
Init ==
  /\ type \in Types
  /\ disk = [s \in Sector |->
               IF s = 0 THEN SetEntry(type, SetEntry(type, Zero, 0, -1), 1, -1)
               ELSE IF s < FatSize THEN Zero ELSE After]
  /\ dev = DevIdle /\ drv = DrvIdle /\ faults = 0 /\ late = NoRead
  /\ task = NoTask
  /\ want = [c \in Clusters(type) |-> Untaken]
  /\ lost = {} /\ tasks = 0

-----------------------------------------------------------------------------
(* The calls.                                                              *)

SectorOf(c) == sector_offset(type, c)

\* A call begins with the read of the two sectors from that of the entry.
Call(t) == task' = t /\ StartRead(SectorOf(t.c)) /\ UNCHANGED <<dev, late>>

End == task' = NoTask /\ drv' = DrvIdle /\ UNCHANGED <<dev, late>>

\* After a request that failed only fat_next_cluster is asked for: what the file system
\* would then set in the table is left out.
Begin(t) ==
  /\ task.op = "none" /\ (lost = {} \/ t.op = "follow") /\ tasks < MaxTasks
  /\ Call(t)
  /\ tasks' = tasks + 1
  /\ UNCHANGED <<disk, faults, type, want, lost>>

\* add_entry and write_data look for a free cluster first.
Take(op, tail) == Begin([NoTask EXCEPT !.op = op, !.f = "free", !.c = 2, !.tail = tail])

New           == Take("new", 0)
Extend(c)     == c \in Tails /\ Take("extend", c)
ExtendDir(c)  == c \in Tails /\ Take("extend_dir", c)
Follow(c)     == c \in Taken /\ Begin([NoTask EXCEPT !.op = "follow", !.f = "next", !.c = c])
RemoveChain(c)     == c \in Heads /\ Begin([NoTask EXCEPT !.op = "remove", !.f = "next", !.c = c])

\* What is set once cluster c was found: its end, and the link to it, which add_entry
\* sets first when it lengthens a directory. The value of an end is 0xFFFFFFFF.
Sets(t, c) ==
  CASE t.op = "new"        -> <<<<c, -1>>>>
    [] t.op = "extend"     -> <<<<c, -1>>, <<t.tail, c>>>>
    [] t.op = "extend_dir" -> <<<<t.tail, c>>, <<c, -1>>>>

\* The first of the sets that are left.
SetNext(t) == Call([t EXCEPT !.f = "set", !.c = Head(t.todo)[1], !.v = Head(t.todo)[2],
                             !.todo = Tail(@)])

Buffer == drv.buf[1] \o drv.buf[2]

\* Faulty: the first sector is used for the others.
InBufferStale == {c \in Clusters(type) : c >= task.c}

\* The clusters that fat_free_cluster still has to look at, in the sector it has read.
InBuffer == {c \in Clusters(type) : c >= task.c /\ SectorOf(c) = drv.lba}

\* fat_free_cluster, with one sector of the table read.
Found ==
  LET zero == {c \in InBuffer : Entry(type, Buffer, c) = 0}
      more == {c \in Clusters(type) : c >= task.c} \ InBuffer
  IN IF zero # {} THEN SetNext([task EXCEPT !.todo = Sets(task, Min(zero))])
     ELSE IF more # {} THEN Call([task EXCEPT !.c = Min(more)])
     ELSE End

\* fat_next_cluster: delete_entry frees a cluster once it knows the next one.
Followed ==
  LET next == Entry(type, Buffer, task.c)
  IN IF task.op = "remove" THEN SetNext([task EXCEPT !.todo = <<<<task.c, 0>>>>, !.tail = next])
     ELSE End

\* What was read. set_fat_cluster uses it also when the read failed. So do the others, but
\* where a chain leads from there is left out.
ReadDone ==
  /\ drv.pc = "read"
  /\ IF task.f = "set"
     THEN LET b == SetEntry(type, Buffer, task.c, task.v)
          IN /\ StartWrite(drv.lba, <<SubSeq(b, 1, SectorSize), SubSeq(b, SectorSize + 1, Len(b))>>)
             /\ UNCHANGED task
     ELSE IF ~drv.ok THEN End
     ELSE IF task.f = "free" THEN Found ELSE Followed
  /\ lost' = lost \cup IF drv.ok THEN {} ELSE {drv.lba, drv.lba + 1}
  /\ UNCHANGED <<disk, faults, type, want, tasks>>

\* set_fat_cluster returns true, whatever the write did.
WriteDone ==
  /\ drv.pc = "written"
  /\ want' = [want EXCEPT ![task.c] = IF task.v = 0 THEN Untaken ELSE task.v % Values(type)]
  /\ lost' = lost \cup IF drv.ok /\ faults = 0 /\ late = NoRead THEN {} ELSE {drv.lba, drv.lba + 1}
  /\ IF task.todo # <<>> THEN SetNext(task)
     ELSE IF task.op = "remove" /\ task.tail < LastCluster /\ lost' = {}
       THEN Call([task EXCEPT !.f = "next", !.c = task.tail])
     ELSE End
  /\ UNCHANGED <<disk, faults, type, tasks>>

-----------------------------------------------------------------------------
FileSystem ==
  \/ New
  \/ \E c \in Taken : Extend(c) \/ ExtendDir(c) \/ Follow(c) \/ RemoveChain(c)

Driving == (DevReady \/ DevFail \/ Driver) /\ UNCHANGED disk_vars

Next == FileSystem \/ Driving \/ ReadDone \/ WriteDone

\* The device answers in the end, and the processor runs.
Fairness ==
  /\ WF_vars(DevReady /\ UNCHANGED disk_vars)
  /\ WF_vars(Driver /\ UNCHANGED disk_vars)
  /\ WF_vars(ReadDone) /\ WF_vars(WriteDone)

Spec == Init /\ [][Next]_vars /\ Fairness

-----------------------------------------------------------------------------
(* Properties.                                                             *)

\* The call changed nothing yet, or its write is under way.
Writing == task.f = "set" /\ drv.pc \in {"w_poll", "w_flush", "w_end", "written"}

\* Each entry that is taken has on the disk the value last set for it, and the sector
\* after the table is as it was: a set keeps the entry that shares its bytes, the rest
\* of the two sectors, and the entries that have the same place in FAT12.
TableKept ==
  /\ \A c \in Taken : SectorOf(c) \notin lost /\ ~(Writing /\ c = task.c) =>
       Entry(type, disk[SectorOf(c)], c) = want[c]
  /\ FatSize \notin lost => disk[FatSize] = After

\* Clusters of the same entry: in FAT12, where SectorSize is not a multiple of three.
Same(c, d) == /\ SectorOf(c) = SectorOf(d) /\ High(type, c) = High(type, d)
              /\ entry_offset(type, c) = entry_offset(type, d)

\* A cluster that is found free is in the table and in no chain; none is found only
\* when the entries are all taken, or those that have the same place.
FreeIsFree ==
  [][task.f = "free" /\ task'.f # "free" /\ lost' = {} =>
       IF task'.f = "set"
       THEN (IF task.op = "extend_dir" THEN task'.v ELSE task'.c) \in Clusters(type) \ Taken
       ELSE \A c \in Clusters(type) : \E d \in Taken \cup {0, 1} : Same(c, d)]_vars
================================================================================
