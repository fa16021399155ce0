----------------------------- MODULE PagingProofs -----------------------------
(***************************************************************************)
(* What holds of the page frames for every size of memory and every number *)
(* of slots.                                                               *)
(*                                                                         *)
(* The argument: the entries of a directory below placement_adress are 0 or *)
(* the identity, so that free_dir, which frees frames beyond it, never      *)
(* touches them; and a frame mapped for a program is never one of those the *)
(* first loop of init_paging or memset have left set, so that clearing its  *)
(* bit gives back that frame and no other.                                  *)
(***************************************************************************)
EXTENDS Paging, FiniteSetTheorems, TLAPS

Booting == phase \in {"alloc", "identity"}

\* The frames whose bit is set before any program runs.
Base(end) == {kdir[v] : v \in 0 .. end - 1} \cup Stray

BootInv ==
  /\ Booting => /\ alive = {} /\ current_directory = Kernel
                /\ dir = [p \in Slots |-> [v \in Page |-> 0]]
  /\ phase = "alloc" => frames = Base(i) /\ i <= NPages
  /\ phase = "identity" => frames = Base(first_end) /\ first_end <= i
  /\ current_directory \in Slots => current_directory \in alive

\* Below the kernel's heap an entry is free or the identity, and it is the identity
\* as long as a process lives in the slot.
BelowInv ==
  \A p \in Slots, v \in Page : v < placement =>
    /\ dir[p][v] \in {0, v}
    /\ p \in alive => dir[p][v] = v

\* Frame 0, which marks the free entries, is never given to a program.
ZeroInv ==
  /\ phase = "alloc" => (i = 0 /\ placement > 0) \/ 0 \in frames
  /\ phase \in {"identity", "run"} => 0 \in frames

\* No program has one of the base frames.
MappedInv ==
  phase = "run" =>
    \A p \in Slots, v \in Page : v >= placement /\ dir[p][v] # 0 =>
      dir[p][v] \in Frame \ Base(first_end)

\* Which bits are set.
BitsInv ==
  phase = "run" =>
    \A f : f \in frames <=>
      \/ f \in Base(first_end)
      \/ \E p \in Slots, v \in Page : v >= placement /\ dir[p][v] = f /\ f # 0

ExclusiveInv ==
  \A p, q \in Slots, v, w \in Page :
    v >= placement /\ w >= placement /\ dir[p][v] # 0 /\ dir[p][v] = dir[q][w]
      => p = q /\ v = w

IInv == TypeOK /\ BootInv /\ BelowInv /\ ZeroInv /\ MappedInv /\ BitsInv /\ ExclusiveInv

LEMMA Facts ==
  /\ Frame \subseteq Page /\ Frame \subseteq Nat /\ Page \subseteq Nat
  /\ Stray \subseteq Frame /\ Kernel \notin Slots
BY PagingAssumption DEF Frame, Page, Kernel

LEMMA TableFact == \A v \in Page : v \div TableSize \in Table
<1> SUFFICES ASSUME NEW v \in Page PROVE v \div TableSize \in Table
  OBVIOUS
<1>1. NPages \in Nat /\ TableSize \in Nat \ {0} /\ v \in Nat /\ v <= NPages
  BY PagingAssumption DEF Page
<1>2. v \div TableSize \in Nat /\ NPages \div TableSize \in Nat
  BY <1>1
<1>3. v \div TableSize <= NPages \div TableSize
  BY <1>1
<1> QED BY <1>2, <1>3 DEF Table

-----------------------------------------------------------------------------
LEMMA InitIInv == Init => IInv
<1> SUFFICES ASSUME Init PROVE IInv
  OBVIOUS
<1> USE Facts, PagingAssumption DEF Init
<1>1. TypeOK BY DEF TypeOK, Page
<1>2. BootInv BY DEF BootInv, Booting, Base
<1>3. BelowInv BY DEF BelowInv
<1>4. ZeroInv /\ MappedInv /\ BitsInv /\ ExclusiveInv
  BY DEF ZeroInv, MappedInv, BitsInv, ExclusiveInv
<1> QED BY <1>1, <1>2, <1>3, <1>4 DEF IInv

LEMMA GetPageType ==
  ASSUME TypeOK, NEW v \in Page, GetPage(v)
  PROVE  ktable' \in [Table -> Nat] /\ placement' \in Nat
BY TableFact DEF TypeOK, GetPage

\* While the machine boots every directory is empty, so that the facts on programs
\* hold whatever placement_adress becomes.
LEMMA EmptyDirs ==
  ASSUME IInv, Booting, UNCHANGED <<dir, alive>>
  PROVE  BelowInv' /\ ExclusiveInv'
BY Facts DEF IInv, BootInv, BelowInv, ExclusiveInv, Booting

LEMMA BootStep == ASSUME IInv, Boot PROVE IInv'
<1> USE Facts DEF IInv
<1>1. CASE BootAlloc
  <2>1. i \in Page BY <1>1, PagingAssumption DEF BootAlloc, TypeOK, Page
  <2>2. PICK f \in Frame : frames' = frames \cup {f} /\ kdir' = [kdir EXCEPT ![i] = f]
    BY <1>1 DEF BootAlloc
  <2>3. TypeOK' BY <1>1, <2>1, <2>2, GetPageType DEF BootAlloc, TypeOK
  <2>4. frames' = Base(i)'
    <3>1. {kdir'[v] : v \in 0 .. i' - 1} = {kdir[v] : v \in 0 .. i - 1} \cup {f}
      <4>1. i \in Nat /\ i' = i + 1 /\ i \in Page BY <1>1, <2>1 DEF BootAlloc, TypeOK
      <4>2. 0 .. i' - 1 = (0 .. i - 1) \cup {i} BY <4>1
      <4>3. \A v \in 0 .. i - 1 : kdir'[v] = kdir[v]
        BY <2>2, <4>1, PagingAssumption DEF TypeOK, Page
      <4>4. kdir'[i] = f BY <2>2, <4>1 DEF TypeOK
      <4> QED BY <4>2, <4>3, <4>4
    <3> QED BY <1>1, <2>2, <3>1 DEF Base, BootInv, BootAlloc
  <2>5. BootInv' BY <1>1, <2>1, <2>4, PagingAssumption DEF BootAlloc, BootInv, Booting, Page
  <2>6. 0 \in frames'
    <3>1. PICK g \in Frame : IsFirstFrame(g) /\ frames' = frames \cup {g}
      BY <1>1 DEF BootAlloc
    <3>2. 0 \in Scanned
      <4>1. (NFrames \div WordSize) * WordSize \in Int BY PagingAssumption
      <4> QED BY <3>1, <4>1 DEF IsFirstFrame, Scanned
    <3>3. \A h \in Scanned : h >= 0 BY DEF Scanned
    <3>4. CASE 0 \in frames BY <3>1, <3>4
    <3>5. CASE 0 \notin frames
      <4>1. g <= 0 /\ g \in Nat BY <3>1, <3>2, <3>5 DEF IsFirstFrame
      <4> QED BY <3>1, <4>1
    <3> QED BY <3>4, <3>5
  <2> QED BY <1>1, <2>3, <2>5, <2>6, EmptyDirs
      DEF BootAlloc, Booting, ZeroInv, MappedInv, BitsInv
<1>2. CASE BootPanic
  <2>1. TypeOK' /\ BootInv' /\ ZeroInv' /\ MappedInv' /\ BitsInv'
    BY <1>2 DEF BootPanic, boot, TypeOK, BootInv, Booting, ZeroInv, MappedInv, BitsInv
  <2> QED BY <1>2, <2>1, EmptyDirs DEF BootPanic, Booting
<1>3. CASE BootFirstEnds
  <2>1. TypeOK' /\ ZeroInv' /\ MappedInv' /\ BitsInv'
    BY <1>3 DEF BootFirstEnds, TypeOK, ZeroInv, MappedInv, BitsInv
  <2>2. BootInv' BY <1>3 DEF BootFirstEnds, BootInv, Booting, Base, TypeOK
  <2> QED BY <1>3, <2>1, <2>2, EmptyDirs DEF BootFirstEnds, Booting
<1>4. CASE BootIdentity
  <2>1. i \in Page BY <1>4, PagingAssumption DEF BootIdentity, TypeOK, Page
  <2>2. TypeOK' BY <1>4, <2>1, GetPageType DEF BootIdentity, TypeOK
  <2>3. Base(first_end)' = Base(first_end)
    <3>1. first_end \in Nat /\ i \in Nat /\ first_end <= i /\ i < NPages
      BY <1>4, PagingAssumption DEF BootIdentity, BootInv, TypeOK
    <3>2. \A v \in 0 .. first_end - 1 : v # i /\ v \in Page
      BY <3>1, PagingAssumption DEF Page
    <3>3. \A v \in 0 .. first_end - 1 : kdir'[v] = kdir[v]
      BY <1>4, <3>2 DEF BootIdentity, TypeOK
    <3> QED BY <1>4, <3>3 DEF Base, BootIdentity
  <2>4. BootInv' BY <1>4, <2>3 DEF BootIdentity, BootInv, Booting, TypeOK
  <2> QED BY <1>4, <2>2, <2>4, EmptyDirs
      DEF BootIdentity, Booting, ZeroInv, MappedInv, BitsInv
<1>5. CASE BootEnds
  <2>1. TypeOK' /\ BootInv' BY <1>5 DEF BootEnds, boot, TypeOK, BootInv, Booting
  <2>2. ZeroInv' /\ MappedInv' /\ BitsInv'
    <3>1. \A p \in Slots, v \in Page : dir'[p][v] = 0
      BY <1>5 DEF BootEnds, BootInv, Booting
    <3>2. frames' = Base(first_end)' BY <1>5 DEF BootEnds, boot, BootInv, Base
    <3>3. 0 \in frames' BY <1>5 DEF BootEnds, ZeroInv
    <3> QED BY <1>5, <3>1, <3>2, <3>3 DEF BootEnds, ZeroInv, MappedInv, BitsInv
  <2> QED BY <1>5, <2>1, <2>2, EmptyDirs DEF BootEnds, Booting
<1> QED BY <1>1, <1>2, <1>3, <1>4, <1>5 DEF Boot

-----------------------------------------------------------------------------
(* Once booted, placement_adress and the base frames are fixed.             *)

LEMMA ExecStep == ASSUME IInv, NEW p \in Slots, Exec(p) PROVE IInv'
<1> USE Facts DEF IInv, Exec, boot
<1>1. \A q \in Slots, v \in Page :
        dir'[q][v] = IF q = p /\ v < placement /\ dir[p][v] = 0 THEN v ELSE dir[q][v]
  BY DEF WithKernel, TypeOK
<1>2. dir' \in [Slots -> [Page -> Nat]]
  <2>1. WithKernel(dir[p]) \in [Page -> Nat] BY DEF WithKernel, TypeOK
  <2> QED BY <2>1 DEF TypeOK
<1>3. TypeOK' BY <1>2 DEF TypeOK
<1>4. BootInv' BY DEF BootInv, Booting
<1>5. BelowInv' BY <1>1 DEF BelowInv
<1>6. \A q \in Slots, v \in Page : v >= placement => dir'[q][v] = dir[q][v]
  BY <1>1 DEF TypeOK
<1>7. ZeroInv' /\ MappedInv' /\ BitsInv' BY <1>6 DEF ZeroInv, MappedInv, BitsInv, Base
<1>8. ExclusiveInv' BY <1>6 DEF ExclusiveInv
<1> QED BY <1>3, <1>4, <1>5, <1>7, <1>8

LEMMA PageFaultStep == ASSUME IInv, NEW v \in UserPages, PageFault(v) PROVE IInv'
<1> USE Facts DEF IInv, PageFault, Faults, boot
<1>1. PICK f \in Frame : IsFirstFrame(f) /\ Map(current_directory, v, f)
  OBVIOUS
<1> DEFINE c == current_directory
<1>2. c \in Slots /\ c \in alive /\ v \in Page
  BY PagingAssumption DEF BootInv, Page
<1>3. v >= placement BY <1>2 DEF BelowInv, TypeOK
<1>4. f \notin frames /\ frames' = frames \cup {f} BY <1>1 DEF IsFirstFrame, Map
<1>5. \A q \in Slots, w \in Page :
        dir'[q][w] = IF q = c /\ w = v THEN f ELSE dir[q][w]
  BY <1>1, <1>2 DEF Map, TypeOK
<1>6. dir' \in [Slots -> [Page -> Nat]] BY <1>1, <1>2 DEF Map, TypeOK
<1>7. TypeOK' BY <1>4, <1>6 DEF TypeOK
<1>8. BootInv' BY DEF BootInv, Booting
<1>9. BelowInv' BY <1>3, <1>5 DEF BelowInv, TypeOK
<1>10. f \notin Base(first_end) BY <1>4 DEF BitsInv
<1>11. Base(first_end)' = Base(first_end) BY DEF Base
<1>12. ZeroInv' /\ f # 0 BY <1>4 DEF ZeroInv
<1>13. MappedInv' BY <1>5, <1>10, <1>11 DEF MappedInv
<1>14. BitsInv'
  <2>1. ASSUME NEW g
        PROVE  g \in frames' <=>
          \/ g \in Base(first_end)
          \/ \E p \in Slots, w \in Page : w >= placement /\ dir'[p][w] = g /\ g # 0
    <3>1. CASE g = f BY <1>2, <1>3, <1>4, <1>5, <1>12, <3>1
    <3>2. CASE g # f
      <4>1. \A p \in Slots, w \in Page : w >= placement /\ dir[p][w] = g /\ g # 0 =>
              dir'[p][w] = g
        BY <1>2, <1>5 DEF Faults
      <4>2. \A p \in Slots, w \in Page : dir'[p][w] = g => dir[p][w] = g
        BY <1>5, <3>2
      <4>3. g \in frames' <=> g \in frames BY <1>4, <3>2
      <4> QED BY <4>1, <4>2, <4>3 DEF BitsInv
    <3> QED BY <3>1, <3>2
  <2> QED BY <1>11, <2>1 DEF BitsInv
<1>15. ExclusiveInv'
  <2>1. \A p \in Slots, w \in Page : w >= placement => dir[p][w] # f
    BY <1>4, <1>12 DEF BitsInv
  <2> QED BY <1>5, <2>1 DEF ExclusiveInv
<1> QED BY <1>7, <1>8, <1>9, <1>12, <1>13, <1>14, <1>15

LEMMA ExitStep == ASSUME IInv, Exit PROVE IInv'
<1> USE Facts DEF IInv, Exit, boot
<1> DEFINE c == current_directory
           cleared == {dir[c][v] : v \in Freed(dir[c])}
<1>1. c \in Slots BY DEF TypeOK
<1>2. frames' = frames \ cleared BY DEF FreeDir
<1>3. \A q \in Slots, v \in Page :
        dir'[q][v] = IF q = c /\ dir[c][v] > placement THEN 0 ELSE dir[q][v]
  BY <1>1 DEF FreeDir, Freed, TypeOK
<1>4. \A v \in Page : dir[c][v] > placement => v >= placement /\ dir[c][v] # 0
  BY <1>1 DEF BelowInv, TypeOK
<1>5. TypeOK'
  <2>1. [v \in Page |-> IF v \in Freed(dir[c]) THEN 0 ELSE dir[c][v]] \in [Page -> Nat]
    BY <1>1 DEF TypeOK
  <2>2. dir' \in [Slots -> [Page -> Nat]] BY <1>1, <2>1 DEF FreeDir, TypeOK
  <2> QED BY <1>2, <2>2 DEF TypeOK
<1>6. BootInv' BY DEF BootInv, Booting
<1>7. BelowInv' BY <1>3, <1>4 DEF BelowInv
<1>8. Base(first_end)' = Base(first_end) BY DEF Base
<1>9. \A q \in Slots, v \in Page : dir'[q][v] # 0 => dir'[q][v] = dir[q][v]
  BY <1>3
<1>10. ZeroInv' BY <1>2 DEF ZeroInv, Freed, TypeOK
<1>11. MappedInv' BY <1>8, <1>9 DEF MappedInv
<1>12. BitsInv'
  <2>1. ASSUME NEW g
        PROVE  g \in frames' <=>
          \/ g \in Base(first_end)
          \/ \E p \in Slots, w \in Page : w >= placement /\ dir'[p][w] = g /\ g # 0
    <3>1. CASE g \in cleared
      <4>1. PICK v \in Page : dir[c][v] > placement /\ dir[c][v] = g
        BY <3>1 DEF Freed
      <4>2. v >= placement /\ g # 0 BY <1>4, <4>1
      <4>3. g \notin Base(first_end) BY <1>1, <4>1, <4>2 DEF MappedInv
      <4>4. \A p \in Slots, w \in Page : w >= placement /\ dir[p][w] = g => p = c /\ w = v
        BY <1>1, <4>1, <4>2 DEF ExclusiveInv
      <4>5. \A p \in Slots, w \in Page : w >= placement => dir'[p][w] # g
        BY <1>3, <1>9, <4>1, <4>2, <4>4
      <4>6. g \notin frames' BY <1>2, <3>1
      <4> HIDE DEF cleared, c
      <4> QED BY <4>3, <4>5, <4>6
    <3>2. CASE g \notin cleared
      <4>1. g \in frames' <=> g \in frames BY <1>2, <3>2
      <4>2. \A p \in Slots, w \in Page : dir[p][w] = g => dir'[p][w] = g
        BY <1>1, <1>3, <3>2 DEF Freed
      <4>3. \A p \in Slots, w \in Page : g # 0 /\ dir'[p][w] = g => dir[p][w] = g
        BY <1>9
      <4> HIDE DEF cleared, c
      <4> QED BY <4>1, <4>2, <4>3 DEF BitsInv
    <3> QED BY <3>1, <3>2
  <2> QED BY <1>8, <2>1 DEF BitsInv
<1>13. ExclusiveInv' BY <1>9 DEF ExclusiveInv
<1> QED BY <1>5, <1>6, <1>7, <1>10, <1>11, <1>12, <1>13

LEMMA NextIInv == IInv /\ [Next]_vars => IInv'
<1> SUFFICES ASSUME IInv, [Next]_vars PROVE IInv'
  OBVIOUS
<1>1. CASE Boot BY <1>1, BootStep
<1>2. CASE Exit BY <1>2, ExitStep
<1>3. ASSUME NEW p \in Slots, Exec(p) PROVE IInv' BY <1>3, ExecStep
<1>4. ASSUME NEW p \in Slots, Switch(p) PROVE IInv'
  BY <1>4 DEF Switch, boot, IInv, TypeOK, BootInv, Booting, BelowInv, ZeroInv, MappedInv,
     BitsInv, Base, ExclusiveInv
<1>5. ASSUME NEW v \in UserPages, PageFault(v) PROVE IInv' BY <1>5, PageFaultStep
<1>6. ASSUME NEW v \in UserPages, PageFaultPanic(v) PROVE IInv'
  BY <1>6 DEF PageFaultPanic, Faults, boot, IInv, TypeOK, BootInv, Booting, BelowInv,
     ZeroInv, MappedInv, BitsInv, Base, ExclusiveInv
<1>7. CASE UNCHANGED vars
  BY <1>7 DEF vars, boot, IInv, TypeOK, BootInv, Booting, BelowInv, ZeroInv, MappedInv,
     BitsInv, Base, ExclusiveInv
<1> QED BY <1>1, <1>2, <1>3, <1>4, <1>5, <1>6, <1>7 DEF Next

-----------------------------------------------------------------------------
\* Type correctness.
THEOREM Typing == Spec => []TypeOK
<1>1. IInv => TypeOK BY DEF IInv
<1> QED BY InitIInv, NextIInv, <1>1, PTL DEF Spec

\* Two pages of programs never share a frame (paging.c, alloc_frame and free_dir).
THEOREM Frames_Exclusive == Spec => []FramesExclusive
<1>1. IInv => FramesExclusive
  BY DEF IInv, ExclusiveInv, FramesExclusive, Mapped, FrameOf
<1> QED BY InitIInv, NextIInv, <1>1, PTL DEF Spec

\* The bitmap counts every frame once (paging.c, set_frame and clear_frame).
THEOREM Frames_Accounted == Spec => []FramesAccounted
<1>1. IInv => FramesAccounted
  <2> SUFFICES ASSUME IInv, phase = "run" PROVE
        frames = Base(first_end) \cup {FrameOf(m) : m \in Mapped}
    BY DEF FramesAccounted, Base
  <2>1. \A f : f \in {FrameOf(m) : m \in Mapped} <=>
          \E p \in Slots, v \in Page : v >= placement /\ dir[p][v] = f /\ f # 0
    <3> SUFFICES ASSUME NEW f PROVE f \in {FrameOf(m) : m \in Mapped} <=>
          \E p \in Slots, v \in Page : v >= placement /\ dir[p][v] = f /\ f # 0
      OBVIOUS
    <3>1. ASSUME NEW p \in Slots, NEW v \in Page, v >= placement, dir[p][v] = f, f # 0
          PROVE  f \in {FrameOf(m) : m \in Mapped}
      <4>1. <<p, v>> \in Mapped BY <3>1 DEF Mapped
      <4>2. FrameOf(<<p, v>>) = f BY <3>1 DEF FrameOf
      <4> QED BY <4>1, <4>2
    <3>2. ASSUME NEW m \in Mapped
          PROVE  /\ m[1] \in Slots /\ m[2] \in Page /\ m[2] >= placement
                 /\ FrameOf(m) = dir[m[1]][m[2]] /\ dir[m[1]][m[2]] # 0
      BY DEF Mapped, FrameOf
    <3> QED BY <3>1, <3>2
  <2> QED BY <2>1 DEF IInv, BitsInv
<1> QED BY InitIInv, NextIInv, <1>1, PTL DEF Spec

-----------------------------------------------------------------------------
(* The kernel's identity map. init_paging clears a quarter of the bitmap, and  *)
(* the first loop takes the frames in order as long as it meets no bit left    *)
(* set: its limit, placement_adress, moves by two pages for each table it has  *)
(* made, and there are at most NPages \div TableSize + 1 of them.              *)

Made == {t \in Table : ktable[t] # 0}

\* The kernel ended at e and the loop meets no bit left set.
LoopFrom(e) ==
  /\ \A f \in Stray : e + 2 * (NPages \div TableSize + 1) <= f
  /\ placement = e + 2 * Cardinality(Made)
  /\ phase = "alloc" => frames = (0 .. i - 1) \cup Stray /\ i <= NFrames
  /\ \A v \in 0 .. i - 1 : v < NFrames => kdir[v] = v
  /\ phase = "run" => i >= NFrames

\* The kernel ended past what first_frame scans: the loop does not end.
LoopStops(e) ==
  /\ e > (NFrames \div WordSize) * WordSize
  /\ placement >= e
  /\ phase \in {"alloc", "panic"}
  /\ phase = "alloc" => 0 .. i - 1 \subseteq frames /\ i <= (NFrames \div WordSize) * WordSize

IdentityInv == \E e \in KernelEnds : LoopFrom(e) \/ LoopStops(e)

LEMMA TablesNat == NPages \div TableSize \in Nat
<1>1. NPages \in Nat /\ TableSize \in Nat \ {0} BY PagingAssumption
<1> QED BY <1>1

\* The quarter that memset clears is enough as soon as the kernel and its tables fit
\* in it (paging.c, init_paging).
LEMMA Cleared_Enough ==
  ASSUME \A e \in KernelEnds : e + 2 * (NPages \div TableSize + 1)
                                 <= WordSize * ((NFrames \div WordSize) \div 4)
  PROVE  StrayAbove
<1> SUFFICES ASSUME NEW e \in KernelEnds, NEW f \in Stray
             PROVE  e + 2 * (NPages \div TableSize + 1) <= f
  BY DEF StrayAbove
<1>1. PICK q, n, w \in Nat : q = (NFrames \div WordSize) \div 4 /\ w = WordSize /\ n = f \div w
  <2>1. f \in Nat /\ WordSize \in Nat \ {0} /\ NFrames \in Nat BY Facts, PagingAssumption
  <2>2. f \div WordSize \in Nat /\ NFrames \div WordSize \in Nat BY <2>1
  <2> QED BY <2>1, <2>2
<1>2. q <= n /\ w > 0 /\ f \in Nat BY <1>1, Facts, PagingAssumption
<1>3. w * n <= f
  <2>1. f = w * (f \div w) + (f % w) /\ f % w \in 0 .. w - 1 BY <1>2
  <2> QED BY <1>1, <1>2, <2>1
<1>4. w * q <= w * n BY <1>2, q >= 0
<1>5. e + 2 * (NPages \div TableSize + 1) <= w * q BY <1>1
<1>6. w * q \in Nat /\ w * n \in Nat
  OBVIOUS
<1>7. e \in Nat /\ NPages \div TableSize \in Nat
  BY TablesNat, PagingAssumption
<1> QED BY <1>2, <1>3, <1>4, <1>5, <1>6, <1>7

LEMMA MadeBound ==
  ASSUME TypeOK
  PROVE  /\ IsFiniteSet(Made) /\ Cardinality(Made) \in Nat
         /\ Cardinality(Made) <= NPages \div TableSize + 1
<1>1. NPages \div TableSize \in Nat BY TablesNat
<1>2. IsFiniteSet(Table) /\ Cardinality(Table) = NPages \div TableSize + 1
  BY <1>1, FS_Interval DEF Table
<1>3. Made \in SUBSET Table BY DEF Made
<1> QED BY <1>2, <1>3, FS_Subset, FS_CardinalityType

LEMMA GetPageMade ==
  ASSUME TypeOK, NEW v \in Page, GetPage(v), NEW e \in Nat,
         placement = e + 2 * Cardinality(Made)
  PROVE  placement' = e + 2 * Cardinality(Made')
<1> DEFINE t == v \div TableSize
<1>1. t \in Table BY TableFact
<1>2. CASE HasTable(v) BY <1>2 DEF GetPage, Made
<1>3. CASE ~HasTable(v)
  <2>1. placement \in Nat /\ t \notin Made BY <1>3 DEF TypeOK, HasTable, Made
  <2>2. Made' = Made \cup {t} BY <1>1, <1>3, <2>1 DEF GetPage, Made, TypeOK
  <2> HIDE DEF t
  <2>3. Cardinality(Made \cup {t}) = Cardinality(Made) + 1
    BY <2>1, MadeBound, FS_AddElement
  <2>4. placement' = placement + 2 BY <1>3 DEF GetPage
  <2> QED BY <2>2, <2>3, <2>4, MadeBound
<1> QED BY <1>2, <1>3

\* The first free frame is the one the loop has come to, if no bit is left there.
LEMMA NextFrame ==
  ASSUME TypeOK, NEW f \in Frame, IsFirstFrame(f), 0 .. i - 1 \subseteq frames
  PROVE  /\ i <= f /\ i < (NFrames \div WordSize) * WordSize
         /\ i \notin frames => f = i
<1>1. (NFrames \div WordSize) * WordSize \in Int BY PagingAssumption
<1>2. f \notin 0 .. i - 1 /\ f \in Scanned /\ f \in Nat /\ i \in Nat
  BY DEF TypeOK, IsFirstFrame, Frame
<1>3. i <= f BY <1>2
<1>4. i \in Scanned BY <1>1, <1>2, <1>3 DEF Scanned
<1>5. i \notin frames => f <= i BY <1>4 DEF IsFirstFrame
<1> QED BY <1>1, <1>2, <1>3, <1>4, <1>5 DEF Scanned

LEMMA LoopFromStep ==
  ASSUME NEW e \in KernelEnds, IInv, LoopFrom(e), Boot
  PROVE  LoopFrom(e)'
<1> USE DEF IInv, TypeOK
<1>1. e \in Nat BY PagingAssumption
<1>2. CASE BootAlloc
  <2>1. PICK f \in Frame :
          IsFirstFrame(f) /\ frames' = frames \cup {f} /\ kdir' = [kdir EXCEPT ![i] = f]
    BY <1>2 DEF BootAlloc
  <2>2. i \in Page BY <1>2, PagingAssumption DEF BootAlloc, Page
  <2>3. placement <= e + 2 * (NPages \div TableSize + 1)
    <3>1. PICK c, n \in Nat : c = Cardinality(Made) /\ n = NPages \div TableSize /\ c <= n + 1
      <4>1. NPages \div TableSize \in Nat BY TablesNat
      <4> HIDE DEF IInv, TypeOK
      <4> QED BY <4>1, MadeBound DEF IInv
    <3> QED BY <1>1, <3>1 DEF LoopFrom
  <2>4. i \notin frames
    <3>1. \A g \in Stray : placement <= g
      <4> SUFFICES ASSUME NEW g \in Stray PROVE placement <= g
        OBVIOUS
      <4>1. e + 2 * (NPages \div TableSize + 1) <= g BY DEF LoopFrom
      <4>2. NPages \div TableSize \in Nat /\ g \in Nat BY TablesNat, Facts
      <4> QED BY <1>1, <2>3, <4>1, <4>2
    <3>2. i \notin Stray BY <1>2, <3>1 DEF BootAlloc
    <3> QED BY <1>2, <3>2 DEF BootAlloc, LoopFrom
  <2>5. f = i BY <1>2, <2>1, <2>4, NextFrame DEF BootAlloc, LoopFrom
  <2>6. i < NFrames BY <2>5, PagingAssumption DEF Frame
  <2>7. frames' = (0 .. i' - 1) \cup Stray
    <3>1. i \in Nat /\ i' = i + 1 BY <1>2 DEF BootAlloc
    <3>2. 0 .. i' - 1 = (0 .. i - 1) \cup {i}
      <4> HIDE DEF IInv, TypeOK
      <4> QED BY <3>1
    <3> QED BY <1>2, <2>1, <2>5, <3>2 DEF BootAlloc, LoopFrom
  <2>8. \A v \in 0 .. i' - 1 : kdir'[v] = v
    <3> SUFFICES ASSUME NEW v \in 0 .. i PROVE kdir'[v] = v
      BY <1>2 DEF BootAlloc
    <3>1. CASE v = i BY <2>1, <2>2, <2>5, <3>1
    <3>2. CASE v # i
      <4>1. v \in 0 .. i - 1 /\ v < NFrames BY <2>6, <3>2, PagingAssumption
      <4> QED BY <2>1, <2>5, <3>2, <4>1 DEF LoopFrom
    <3> QED BY <3>1, <3>2
  <2>9. placement' = e + 2 * Cardinality(Made')
    BY <1>1, <1>2, <2>2, GetPageMade DEF BootAlloc, LoopFrom
  <2> QED BY <1>2, <2>6, <2>7, <2>8, <2>9, PagingAssumption DEF BootAlloc, LoopFrom
<1>3. CASE BootPanic BY <1>3 DEF BootPanic, boot, LoopFrom, Made
<1>4. CASE BootFirstEnds BY <1>4 DEF BootFirstEnds, LoopFrom, Made
<1>5. CASE BootIdentity
  <2>1. i \in Page BY <1>5, PagingAssumption DEF BootIdentity, Page
  <2>2. placement' = e + 2 * Cardinality(Made')
    BY <1>1, <1>5, <2>1, GetPageMade DEF BootIdentity, LoopFrom
  <2>3. \A v \in 0 .. i' - 1 : v < NFrames => kdir'[v] = v
    BY <1>5, <2>1 DEF BootIdentity, LoopFrom
  <2> QED BY <1>5, <2>2, <2>3 DEF BootIdentity, LoopFrom
<1>6. CASE BootEnds BY <1>6 DEF BootEnds, boot, LoopFrom, Made
<1> QED BY <1>2, <1>3, <1>4, <1>5, <1>6 DEF Boot

LEMMA LoopStopsStep ==
  ASSUME NEW e \in KernelEnds, IInv, LoopStops(e), Boot
  PROVE  LoopStops(e)'
<1> USE DEF IInv, TypeOK
<1>1. e \in Nat /\ (NFrames \div WordSize) * WordSize \in Int BY PagingAssumption
<1>2. CASE BootAlloc
  <2>1. PICK f \in Frame : IsFirstFrame(f) /\ frames' = frames \cup {f}
    BY <1>2 DEF BootAlloc
  <2>2. i <= f /\ i < (NFrames \div WordSize) * WordSize /\ (i \notin frames => f = i)
    BY <1>2, <2>1, NextFrame DEF BootAlloc, LoopStops
  <2>3. 0 .. i' - 1 = (0 .. i - 1) \cup {i}
    <3>1. i \in Nat /\ i' = i + 1 BY <1>2 DEF BootAlloc
    <3> HIDE DEF IInv, TypeOK
    <3> QED BY <3>1
  <2>4. 0 .. i' - 1 \subseteq frames'
    <3>1. 0 .. i - 1 \subseteq frames BY <1>2 DEF BootAlloc, LoopStops
    <3> HIDE DEF IInv, TypeOK
    <3>2. i \in frames' BY <2>1, <2>2
    <3> QED BY <2>1, <2>3, <3>1, <3>2
  <2>5. placement' >= placement /\ placement' \in Nat BY <1>2 DEF BootAlloc, GetPage
  <2> QED BY <1>1, <1>2, <2>2, <2>4, <2>5 DEF BootAlloc, LoopStops
<1>3. CASE BootPanic BY <1>3 DEF BootPanic, boot, LoopStops
<1>4. CASE BootFirstEnds BY <1>1, <1>4 DEF BootFirstEnds, LoopStops
<1>5. CASE BootIdentity BY <1>5 DEF BootIdentity, LoopStops
<1>6. CASE BootEnds BY <1>6 DEF BootEnds, LoopStops
<1> QED BY <1>2, <1>3, <1>4, <1>5, <1>6 DEF Boot

\* The kernel is at the same addresses in every directory in use (paging.c,
\* init_paging, and the loop of load_process), whatever the bits left set above the
\* pages the first loop may come to.
THEOREM Kernel_Identity == StrayAbove => (Spec => []KernelIdentity)
<1> SUFFICES ASSUME StrayAbove PROVE Spec => []KernelIdentity
  OBVIOUS
<1>1. Init => IdentityInv
  <2> SUFFICES ASSUME Init PROVE LoopFrom(placement) \/ LoopStops(placement)
    BY DEF Init, IdentityInv
  <2>1. placement \in KernelEnds /\ placement \in Nat BY PagingAssumption DEF Init
  <2>2. Made = {} BY DEF Init, Made
  <2>3. Cardinality(Made) = 0 BY <2>2, FS_EmptySet
  <2>4. (NFrames \div WordSize) * WordSize \in Nat
    <3>1. NFrames \div WordSize \in Nat /\ WordSize \in Nat BY PagingAssumption
    <3> QED BY <3>1
  <2>5. CASE placement > (NFrames \div WordSize) * WordSize
    BY <2>1, <2>4, <2>5 DEF Init, LoopStops
  <2>6. CASE \A f \in Stray : placement + 2 * (NPages \div TableSize + 1) <= f
    BY <2>1, <2>3, <2>6, PagingAssumption DEF Init, LoopFrom
  <2> QED BY <2>1, <2>5, <2>6 DEF StrayAbove
<1>2. IInv /\ IdentityInv /\ [Next]_vars => IdentityInv'
  <2> SUFFICES ASSUME IInv, IdentityInv, [Next]_vars PROVE IdentityInv'
    OBVIOUS
  <2>1. PICK e \in KernelEnds : LoopFrom(e) \/ LoopStops(e) BY DEF IdentityInv
  <2> SUFFICES LoopFrom(e)' \/ LoopStops(e)'
    BY DEF IdentityInv
  <2>2. CASE Boot BY <2>1, <2>2, LoopFromStep, LoopStopsStep
  <2>3. CASE Exit BY <2>1, <2>3 DEF Exit, boot, LoopFrom, LoopStops, Made
  <2>4. ASSUME NEW p \in Slots, Exec(p) \/ Switch(p) PROVE LoopFrom(e)' \/ LoopStops(e)'
    BY <2>1, <2>4 DEF Exec, Switch, boot, LoopFrom, LoopStops, Made
  <2>5. ASSUME NEW v \in UserPages, PageFault(v) \/ PageFaultPanic(v)
        PROVE  LoopFrom(e)' \/ LoopStops(e)'
    BY <2>1, <2>5 DEF PageFault, PageFaultPanic, Faults, boot, LoopFrom, LoopStops, Made
  <2>6. CASE UNCHANGED vars BY <2>1, <2>6 DEF vars, boot, LoopFrom, LoopStops, Made
  <2> QED BY <2>2, <2>3, <2>4, <2>5, <2>6 DEF Next
<1>3. IInv /\ IdentityInv => KernelIdentity
  <2> SUFFICES ASSUME IInv, IdentityInv, phase = "run", NEW v \in Page, v < placement
               PROVE  /\ v < NFrames => kdir[v] = v
                      /\ \A p \in alive : dir[p][v] = v
    BY DEF KernelIdentity
  <2>1. PICK e \in KernelEnds : LoopFrom(e) BY DEF IdentityInv, LoopStops
  <2>2. v < NFrames => kdir[v] = v
    <3>1. v \in Nat /\ NFrames \in Nat /\ i \in Nat /\ i >= NFrames
      BY <2>1, PagingAssumption, Facts DEF IInv, TypeOK, LoopFrom
    <3>2. v < NFrames => v \in 0 .. i - 1 BY <3>1
    <3> QED BY <2>1, <3>2 DEF LoopFrom
  <2>3. \A p \in alive : dir[p][v] = v
    BY DEF IInv, TypeOK, BelowInv
  <2> QED BY <2>2, <2>3
<1> QED BY InitIInv, NextIInv, <1>1, <1>2, <1>3, PTL DEF Spec
=============================================================================
