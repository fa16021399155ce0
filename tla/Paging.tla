-------------------------------- MODULE Paging --------------------------------
(***************************************************************************)
(* The page frames of the machine: the bitmap of frames, the identity map  *)
(* made at boot, the page directories of the process slots, the page fault *)
(* handler and free_dir (common/paging.c, common/kheap.c, and the calls    *)
(* that kernel/process.cpp and kernel/syscall.cpp make to them).           *)
(*                                                                         *)
(* Addresses are counted in pages. A page entry whose frame is 0 is free:  *)
(* this is the test alloc_frame makes. The loops of init_paging are one    *)
(* step per page, since they move the limit they run to.                   *)
(***************************************************************************)
EXTENDS Integers, FiniteSets

CONSTANTS
  NFrames,      \* nframes
  WordSize,     \* bits of the words of the bitmap (32)
  TableSize,    \* pages of a page table (1024)
  NPages,       \* pages of a virtual address space
  KernelEnds,   \* where placement_adress may be when init_paging starts its loops
  Stray,        \* bits that memset leaves set: it clears a quarter of the bitmap
  Slots,        \* process slots
  UserPages     \* the pages a program touches outside the kernel's

ASSUME PagingAssumption ==
  /\ {NFrames, WordSize, TableSize, NPages} \subseteq Nat \ {0}
  /\ KernelEnds \subseteq Nat \ {0}
  /\ NFrames <= NPages
  /\ Stray \subseteq {f \in 0 .. NFrames - 1 :
                        f \div WordSize >= (NFrames \div WordSize) \div 4}
  /\ Slots \subseteq Nat
  /\ UserPages \subseteq 0 .. NPages - 1

Frame  == 0 .. NFrames - 1
Page   == 0 .. NPages - 1
Table  == 0 .. NPages \div TableSize
Kernel == -1                  \* kernel_directory, among the slots

VARIABLES
  phase,      \* "alloc" and "identity" (the loops), "run", "panic"
  i,          \* the page the loops of init_paging have come to
  placement,  \* placement_adress
  first_end,  \* history: the page where the first loop ended
  ktable,     \* the page that holds each table of kernel_directory, 0 if none
  kdir,       \* kernel_directory: the frame of each page
  frames,     \* the bitmap, as the set of the frames whose bit is set
  dir,        \* the directories of the slots
  alive,      \* the slots whose process has not exited
  current_directory

boot == <<i, placement, first_end, ktable, kdir>>
vars == <<phase, boot, frames, dir, alive, current_directory>>

TypeOK ==
  /\ phase \in {"alloc", "identity", "run", "panic"}
  /\ i \in Nat /\ placement \in Nat /\ first_end \in Nat
  /\ ktable \in [Table -> Nat]
  /\ kdir \in [Page -> Page]
  /\ frames \subseteq Frame
  /\ dir \in [Slots -> [Page -> Nat]]
  /\ alive \subseteq Slots
  /\ current_directory \in Slots \cup {Kernel}

Init ==
  /\ phase = "alloc" /\ i = 0
  /\ placement \in KernelEnds /\ first_end = 0
  /\ ktable = [t \in Table |-> 0] /\ kdir = [v \in Page |-> 0]
  /\ frames = Stray
  /\ dir = [p \in Slots |-> [v \in Page |-> 0]]
  /\ alive = {} /\ current_directory = Kernel

-----------------------------------------------------------------------------
(* The frames and the kernel's heap.                                       *)

\* What first_frame scans: whole words only, the last NFrames % WordSize frames
\* are never found.
Scanned == 0 .. (NFrames \div WordSize) * WordSize - 1

\* Faulty: the search goes down.
IsLastFrame(f) ==
  /\ f \in Scanned \ frames
  /\ \A g \in Scanned \ frames : g <= f

IsFirstFrame(f) ==
  /\ f \in Scanned \ frames
  /\ \A g \in Scanned \ frames : f <= g

NoFreeFrame == Scanned \subseteq frames

\* get_page on kernel_directory: the table of page v is made if it is missing.
\* kmalloc_int skips to the next page even from an aligned address, so that a
\* table takes the page after the next one.
HasTable(v) == ktable[v \div TableSize] # 0

GetPage(v) ==
  IF HasTable(v)
  THEN UNCHANGED <<ktable, placement>>
  ELSE /\ ktable' = [ktable EXCEPT ![v \div TableSize] = placement + 1]
       /\ placement' = placement + 2

-----------------------------------------------------------------------------
(* init_paging.                                                            *)

\* The first loop: the pages below placement_adress get the first free frame.
BootAlloc ==
  /\ phase = "alloc" /\ i < placement /\ i < NPages
  /\ GetPage(i)
  /\ \E f \in Frame :
       /\ IsFirstFrame(f)
       /\ frames' = frames \cup {f}
       /\ kdir' = [kdir EXCEPT ![i] = f]
  /\ i' = i + 1
  /\ UNCHANGED <<phase, first_end, dir, alive, current_directory>>

\* No frame is left: the machine stops in PANIC.
BootPanic ==
  /\ phase = "alloc" /\ i < placement /\ NoFreeFrame
  /\ phase' = "panic"
  /\ UNCHANGED <<boot, frames, dir, alive, current_directory>>

BootFirstEnds ==
  /\ phase = "alloc" /\ i >= placement
  /\ phase' = "identity" /\ first_end' = i
  /\ UNCHANGED <<i, placement, ktable, kdir, frames, dir, alive, current_directory>>

\* The second loop: the rest of the memory is mapped to itself, and no bit is
\* set; the tables this takes still come from the kernel's heap.
BootIdentity ==
  /\ phase = "identity" /\ i < NFrames
  /\ GetPage(i)
  /\ kdir' = [kdir EXCEPT ![i] = i]
  /\ i' = i + 1
  /\ UNCHANGED <<phase, first_end, frames, dir, alive, current_directory>>

BootEnds ==
  /\ phase = "identity" /\ i >= NFrames
  /\ phase' = "run"
  /\ UNCHANGED <<boot, frames, dir, alive, current_directory>>

-----------------------------------------------------------------------------
(* Process slots.                                                          *)

\* load_process maps the kernel in the directory of the slot, as alloc_frame does
\* for an identity page: an entry that has a frame is left alone, no bit is set.
WithKernel(d) == [v \in Page |-> IF v < placement /\ d[v] = 0 THEN v ELSE d[v]]

Exec(p) ==
  /\ phase = "run" /\ p \notin alive
  /\ dir' = [dir EXCEPT ![p] = WithKernel(@)]
  /\ alive' = alive \cup {p}
  /\ current_directory' = p
  /\ UNCHANGED <<phase, boot, frames>>

\* The scheduler resumes another living process.
Switch(p) ==
  /\ phase = "run" /\ p \in alive
  /\ current_directory' = p
  /\ UNCHANGED <<phase, boot, frames, dir, alive>>

\* Faulty: the bit of the page is set, not that of the frame.
MapVirtual(p, v, f) ==
  /\ dir' = [dir EXCEPT ![p][v] = f]
  /\ frames' = frames \cup {v}

\* Faulty: the bit is not set.
MapNoBit(p, v, f) ==
  /\ dir' = [dir EXCEPT ![p][v] = f]
  /\ UNCHANGED frames

Map(p, v, f) ==
  /\ dir' = [dir EXCEPT ![p][v] = f]
  /\ frames' = frames \cup {f}

\* Page 0 is present, in frame 0.
Faults(v) ==
  /\ phase = "run" /\ current_directory \in Slots
  /\ dir[current_directory][v] = 0 /\ v # 0

\* The running process touches a page it has no frame for.
PageFault(v) ==
  /\ Faults(v)
  /\ \E f \in Frame : IsFirstFrame(f) /\ Map(current_directory, v, f)
  /\ UNCHANGED <<phase, boot, alive, current_directory>>

PageFaultPanic(v) ==
  /\ Faults(v) /\ NoFreeFrame
  /\ phase' = "panic"
  /\ UNCHANGED <<boot, frames, dir, alive, current_directory>>

\* The entries that free_dir clears: those whose frame lies beyond the kernel's
\* heap, the first of which is not counted (the comparison is strict).
Freed(d) == {v \in Page : d[v] > placement}

\* Faulty: the entries are not cleared.
FreeDirKeepsEntries(p) ==
  /\ frames' = frames \ {dir[p][v] : v \in Freed(dir[p])}
  /\ UNCHANGED dir

FreeDir(p) ==
  /\ frames' = frames \ {dir[p][v] : v \in Freed(dir[p])}
  /\ dir' = [dir EXCEPT ![p] = [v \in Page |-> IF v \in Freed(@) THEN 0 ELSE @[v]]]

\* The system call exit, from the kernel's directory.
Exit ==
  /\ phase = "run" /\ current_directory \in alive
  /\ FreeDir(current_directory)
  /\ alive' = alive \ {current_directory}
  /\ current_directory' = Kernel
  /\ UNCHANGED <<phase, boot>>

-----------------------------------------------------------------------------
Boot == BootAlloc \/ BootPanic \/ BootFirstEnds \/ BootIdentity \/ BootEnds

Next ==
  \/ Boot \/ Exit
  \/ \E p \in Slots : Exec(p) \/ Switch(p)
  \/ \E v \in UserPages : PageFault(v) \/ PageFaultPanic(v)

Spec == Init /\ [][Next]_vars

-----------------------------------------------------------------------------
(* Properties.                                                             *)

\* The pages mapped for programs: all but the kernel's.
Mapped == {m \in Slots \X Page : m[2] >= placement /\ dir[m[1]][m[2]] # 0}
FrameOf(m) == dir[m[1]][m[2]]

\* Two pages of programs never share a frame, whatever the sequence of faults,
\* exits and reuses of a slot.
FramesExclusive ==
  phase = "run" => \A m, n \in Mapped : FrameOf(m) = FrameOf(n) => m = n

\* The bitmap counts every frame once: the bit of a frame is set if it was given to
\* the kernel by the first loop, left over by memset, or is mapped in a program
\* that uses it or used it; otherwise the frame can be given again.
FramesAccounted ==
  phase = "run" =>
    frames = {kdir[v] : v \in 0 .. first_end - 1} \cup Stray \cup {FrameOf(m) : m \in Mapped}

\* What init_paging needs for the map to be the identity: the first loop, which
\* starts with placement_adress at the end of the kernel and makes a table each time
\* it enters one, two pages further, meets no bit left set. A kernel that ends past
\* the words first_frame scans is no matter: the boot stops.
StrayAbove ==
  \A e \in KernelEnds :
    \/ e > (NFrames \div WordSize) * WordSize
    \/ \A f \in Stray : e + 2 * (NPages \div TableSize + 1) <= f

\* The kernel runs at the same addresses in its own directory and in that of every
\* living process, so that changing directory does not move the code or the stack
\* under the processor.
KernelIdentity ==
  phase = "run" =>
    \A v \in Page : v < placement =>
      /\ v < NFrames => kdir[v] = v
      /\ \A p \in alive : dir[p][v] = v

\* What the code says of the boot ("On doit identifier et allouer les frames du
\* kernel"): no page of a program is in a frame of the kernel's tables.
KernelFramesKept ==
  phase = "run" =>
    \A m \in Mapped : FrameOf(m) \notin {ktable[t] : t \in Table}
=============================================================================
