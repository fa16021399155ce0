---------------------------------- MODULE Fat ----------------------------------
(***************************************************************************)
(* Files on the disk: the table of clusters, a directory and the           *)
(* descriptors of the processes (fat_driver/fat_driver.cpp, and the calls  *)
(* open, read, write, mkdir, rm and exec of kernel/syscall.cpp). A system  *)
(* call runs with interrupts off, so each is one step.                     *)
(*                                                                         *)
(* There is one directory, the root of FAT12/16. What a cluster holds is   *)
(* the name of each byte, <<slot, k>> for the k-th byte given to the file  *)
(* of that slot of the directory, Blank for anything else; the bytes of a  *)
(* cluster that is freed are no longer told apart. The place of an entry   *)
(* in the sectors of the table is abstracted.                              *)
(***************************************************************************)
EXTENDS Integers, SequencesExt

CONSTANTS
  Names,
  NClusters,   \* clusters of the data area
  BPC,         \* byte_per_cluster
  NEntries,    \* entries of the directory
  Procs,
  NFiles,      \* files a process may open besides STDOUT and STDIN
  MaxLen,      \* bound: bytes given to a file
  Lengths,     \* bound: bytes a call asks for
  Unchecked    \* uses of the descriptors that the kernel does not keep programs from

ASSUME FatAssumption ==
  /\ {NClusters, BPC, NEntries, NFiles, MaxLen} \subseteq Nat \ {0}
  /\ Lengths \subseteq 1 .. MaxLen
  /\ Unchecked \subseteq {"removed", "outdated", "reread"}
  /\ "" \notin Names

Free    == 0
End     == NClusters + 2              \* fat_last_cluster: this value and those above
Cluster == 2 .. NClusters + 1
Slot    == 1 .. NEntries
File    == 1 .. NFiles
Offset  == 0 .. BPC - 1
Blank   == <<>>
Byte    == {Blank} \cup (Slot \X (0 .. MaxLen - 1))
NoName  == ""

Empty   == [kind |-> "empty", name |-> NoName, first |-> 0, size |-> 0]
Deleted == [Empty EXCEPT !.kind = "deleted"]
Closed  == [type |-> "CLOSED_FILE"]

VARIABLES
  fat,   \* the table: the next cluster, End, or Free
  data,  \* the bytes of each cluster
  root,  \* the entries of the directory
  fd     \* opened_files of each process

vars == <<fat, data, root, fd>>

Files == {s \in Slot : root[s].kind = "file"}
Used  == {s \in Slot : root[s].kind \in {"file", "dir"}}

Descriptor ==
  [type : {"FAT_ENTRY"}, slot : Slot, first : Cluster, current : Cluster \cup {End},
   size : 0 .. MaxLen, cursor : 0 .. MaxLen, buff : [Offset -> Byte],
   use : {"fresh", "written", "removed"}]  \* history: what happened since open

TypeOK ==
  /\ fat \in [0 .. NClusters + 1 -> {Free, End} \cup Cluster]
  /\ data \in [Cluster -> [Offset -> Byte]]
  /\ root \in [Slot -> [kind : {"file", "dir", "empty", "deleted"},
                        name : Names \cup {NoName}, first : Cluster \cup {0},
                        size : 0 .. MaxLen]]
  /\ \A p \in Procs : \A i \in File :
       fd[p][i] # Closed => fd[p][i] \in Descriptor /\ fd[p][i].cursor <= fd[p][i].size

Init ==
  /\ fat = [c \in 0 .. NClusters + 1 |-> IF c \in Cluster THEN Free ELSE End]
  /\ data = [c \in Cluster |-> [o \in Offset |-> Blank]]
  /\ root = [s \in Slot |-> Empty]
  /\ fd = [p \in Procs |-> [i \in File |-> Closed]]

-----------------------------------------------------------------------------
(* The table.                                                              *)

\* The clusters from c to the end of its chain in the table f, which has no more of them
\* than entries.
Chain(f, c) ==
  LET Longer == [ch \in Seq(DOMAIN f) |->
                   IF f[Last(ch)] = End THEN ch ELSE Append(ch, f[Last(ch)])]
      walk[k \in Nat] == IF k = 0 THEN <<c>> ELSE Longer[walk[k - 1]]
  IN walk[NClusters + 1]

\* A file has a cluster from the start.
Clusters(size) == IF size = 0 THEN 1 ELSE (size + BPC - 1) \div BPC

FreeClusters(f) == {c \in Cluster : f[c] = Free}

\* fat_free_cluster, End when the disk is full.
FreeCluster(f) == IF FreeClusters(f) = {} THEN End ELSE Min(FreeClusters(f))

-----------------------------------------------------------------------------
(* The directory.                                                          *)

\* The entries that open, open_dir and delete_entry look at: they stop at the first
\* entry never used, and skip those that are deleted.
Listed == {s \in Used : \A t \in 1 .. s : root[t].kind # "empty"}

\* The first entry of that name, 0 if there is none.
Lookup(name) ==
  LET Same == {s \in Listed : root[s].name = name}
  IN IF Same = {} THEN 0 ELSE Min(Same)

\* Faulty: the last entry is taken when there is none.
FreeEntryOrLast == IF Used = Slot THEN NEntries ELSE Min(Slot \ Used)

\* Where add_entry puts an entry, 0 if the directory is full.
FreeEntry == IF Used = Slot THEN 0 ELSE Min(Slot \ Used)

\* Faulty: the disk is not checked to be full.
AddFailsNoEntry == FreeEntry = 0

AddFails == FreeEntry = 0 \/ FreeClusters(fat) = {}

AddEntry(name, kind) ==
  LET c == FreeCluster(fat)
  IN /\ root' = [root EXCEPT ![FreeEntry] =
                    [kind |-> kind, name |-> name, first |-> c, size |-> 0]]
     /\ fat' = [fat EXCEPT ![c] = End]

-----------------------------------------------------------------------------
(* Descriptors.                                                            *)

\* The first descriptor that is closed, 0 if there is none.
FreeFile(p) ==
  LET Shut == {i \in File : fd[p][i] = Closed} IN IF Shut = {} THEN 0 ELSE Min(Shut)

\* The buffer is filled before it is read.
NewDescriptor(s, first, size) ==
  [type |-> "FAT_ENTRY", slot |-> s, first |-> first, current |-> first, size |-> size,
   cursor |-> 0, buff |-> [o \in Offset |-> Blank], use |-> "fresh"]

\* open of a file that is there.
OpenFile(p, name) ==
  LET i == FreeFile(p)  s == Lookup(name)
  IN /\ i # 0 /\ s \in Files
     /\ fd' = [fd EXCEPT ![p][i] = NewDescriptor(s, root[s].first, root[s].size)]
     /\ UNCHANGED <<fat, data, root>>

\* open of anything else creates a file, also if there is a directory of that name.
OpenNew(p, name) ==
  LET i == FreeFile(p)
  IN /\ i # 0 /\ Lookup(name) \notin Files /\ ~AddFails
     /\ AddEntry(name, "file")
     /\ fd' = [fd EXCEPT ![p][i] = NewDescriptor(FreeEntry, FreeCluster(fat), 0)]
     /\ UNCHANGED data

Mkdir(name) ==
  /\ Lookup(name) \in Files \cup {0}
  /\ ~AddFails
  /\ AddEntry(name, "dir")
  /\ UNCHANGED <<data, fd>>

\* Faulty: the chain is not followed.
FreedFirst(s) == {root[s].first}

\* The clusters delete_entry frees.
Freed(s) == ToSet(Chain(fat, root[s].first))

\* delete_entry: the entry is marked and its chain is freed.
Rm(name) ==
  LET s == Lookup(name)
      Gone == Freed(s)
  IN /\ s # 0
     /\ root' = [root EXCEPT ![s] = Deleted]
     /\ fat' = [c \in DOMAIN fat |-> IF c \in Gone THEN Free ELSE fat[c]]
     /\ data' = [c \in Cluster |-> IF c \in Gone THEN [o \in Offset |-> Blank] ELSE data[c]]
     /\ fd' = [p \in Procs |-> [i \in File |->
                 IF fd[p][i] # Closed /\ fd[p][i].slot = s
                   THEN [fd[p][i] EXCEPT !.use = "removed"] ELSE fd[p][i]]]

\* A slot of the process table is taken again by exec, the one place where the
\* descriptors are closed.
Exec(p) ==
  /\ fd' = [fd EXCEPT ![p] = [i \in File |-> Closed]]
  /\ UNCHANGED <<fat, data, root>>

-----------------------------------------------------------------------------
(* write_data. The state of the loop is what it changes, and the index     *)
(* m_current_cluster of the cluster that is written.                       *)

\* Faulty: the first cluster of an empty file is not used.
GrowsEmpty(size) == size % BPC = 0

\* A cluster is added when the last one is full.
Grows(size) == size % BPC = 0 /\ size # 0

\* One turn of the loop.
WriteByte(st, byte) ==
  LET grow == Grows(st.size)
      new  == FreeCluster(st.fat)
      cur  == IF grow THEN new ELSE st.current
  IN IF ~st.ok \/ (grow /\ new = End)
       THEN [st EXCEPT !.ok = FALSE]
       ELSE [fat     |-> IF grow THEN [st.fat EXCEPT ![new] = End, ![st.current] = new] ELSE st.fat,
             data    |-> [st.data EXCEPT ![cur][st.size % BPC] = byte],
             current |-> cur, size |-> st.size + 1, ok |-> TRUE]

\* The directory holds the size of the file.
SizeStored(d) == d.use # "removed" /\ root[d.slot].size = d.size

\* What the program must see to, since the kernel does not: not to use a file that
\* was removed, nor to append through a descriptor older than the last append or to
\* a file whose last append failed, though write() gives a program no status to
\* know that by.
MayAppend(d) ==
  /\ d.use = "removed" => "removed" \in Unchecked
  /\ d.use # "removed" =>
       \/ SizeStored(d) /\ Len(Chain(fat, d.first)) = Clusters(d.size)
       \/ "outdated" \in Unchecked

\* The state after n turns.
Turns(d, n) ==
  LET after[k \in Nat] ==
        IF k = 0
        THEN [fat |-> fat, data |-> data, current |-> Last(Chain(fat, d.first)),
              size |-> d.size, ok |-> TRUE]
        ELSE WriteByte(after[k - 1], <<d.slot, root[d.slot].size + k - 1>>)
  IN after[n]

\* Appends n bytes. When the disk is full the loop returns before the size is stored.
Write(p, i, n) ==
  LET d    == fd[p][i]
      done == Turns(d, n)
  IN /\ d # Closed /\ MayAppend(d)
     /\ root[d.slot].size + n <= MaxLen /\ d.size + n <= MaxLen
     /\ ToSet(Chain(fat, d.first)) \subseteq Cluster  \* else the disk is written outside the data area
     /\ fat' = done.fat /\ data' = done.data
     /\ fd' = [fd EXCEPT ![p][i].current = done.current, ![p][i].size = done.size,
                          ![p][i].use = IF @ = "removed" THEN @ ELSE "written"]
     /\ root' = IF done.ok /\ root[d.slot].kind \in {"file", "dir"}
                  THEN [root EXCEPT ![d.slot].size = done.size] ELSE root

-----------------------------------------------------------------------------
(* read, and read_data under it.                                           *)

Least(a, b) == IF a < b THEN a ELSE b

\* The first n bytes of the clusters of ch.
Bytes(ch, n) == [k \in 1 .. n |-> data[ch[(k - 1) \div BPC + 1]][(k - 1) % BPC]]

\* Faulty: the last cluster does not count.
LastPartNone(size) == 0

\* What read_data counts of the last cluster of a chain.
LastPart(size) == size % BPC

\* read_data: the bytes it says it read, and the cluster it stops at.
ReadData(current, size, count) ==
  LET ch == Chain(fat, current)
      m  == Least(count, Len(ch))
  IN IF current = End \/ count = 0 THEN [bytes |-> <<>>, current |-> current]
     ELSE IF m = Len(ch)
       THEN [bytes |-> Bytes(ch, (m - 1) * BPC + LastPart(size)), current |-> End]
       ELSE [bytes |-> Bytes(ch, count * BPC), current |-> ch[m + 1]]

\* Faulty: the buffer is read from its start.
BufferedFromStart(buff, at, n) == [k \in 1 .. n |-> buff[k - 1]]

\* The n bytes of the buffer from that of position at.
Buffered(buff, at, n) == [k \in 1 .. n |-> buff[(at + k - 1) % BPC]]

\* What is left in the buffer, then whole clusters, then a part of a cluster that goes
\* through the buffer.
ReadResult(d, asked) ==
  LET all   == Least(asked, d.size - d.cursor)
      o     == d.cursor % BPC
      lead  == IF o = 0 THEN 0 ELSE Least(all, BPC - o)
      count == (all - lead) \div BPC
      whole == ReadData(d.current, d.size, count)
      left  == all - lead - Len(whole.bytes)
      some  == Buffered(d.buff, d.cursor, lead) \o whole.bytes
      rest  == ReadData(whole.current, d.size, 1)
      buff  == IF whole.current = End THEN d.buff ELSE data[whole.current]
      tail  == Buffered(buff, d.cursor + Len(some), Least(left, Len(rest.bytes)))
  IN IF Len(some) \div BPC # count \/ left = 0
       THEN [bytes |-> some, current |-> whole.current, buff |-> d.buff]
       ELSE [bytes |-> some \o tail, current |-> rest.current, buff |-> buff]

\* What the program must see to: not to read through a descriptor that has written,
\* nor a file that was removed.
MayRead(d) ==
  /\ d.use = "written" => "reread" \in Unchecked
  /\ d.use = "removed" => "removed" \in Unchecked

Read(p, i, asked) ==
  LET d == fd[p][i]
      r == ReadResult(d, asked)
  IN /\ d # Closed /\ MayRead(d)
     /\ ToSet(Chain(fat, d.first)) \subseteq Cluster
     /\ fd' = [fd EXCEPT ![p][i].cursor = @ + Len(r.bytes), ![p][i].current = r.current,
                          ![p][i].buff = r.buff]
     /\ UNCHANGED <<fat, data, root>>

-----------------------------------------------------------------------------
Next ==
  \/ \E p \in Procs, name \in Names : OpenFile(p, name) \/ OpenNew(p, name)
  \/ \E name \in Names : Mkdir(name) \/ Rm(name)
  \/ \E p \in Procs : Exec(p)
  \/ \E p \in Procs, i \in File, n \in Lengths : Write(p, i, n) \/ Read(p, i, n)

Spec == Init /\ [][Next]_vars

-----------------------------------------------------------------------------
(* Properties.                                                             *)

\* The chains of the entries end, share no cluster, and hold all the clusters that are
\* not free, also after a write that failed half-way on a full disk or the reuse of a
\* deleted entry; no entry is hidden behind one that was never used.
TableSound ==
  LET Held(s) == ToSet(Chain(fat, root[s].first))
  IN /\ \A s \in Used : Held(s) \subseteq Cluster /\ fat[Last(Chain(fat, root[s].first))] = End
     /\ \A s, t \in Used : s # t => Held(s) \cap Held(t) = {}
     /\ UNION {Held(s) : s \in Used} = Cluster \ FreeClusters(fat)
     /\ Listed = Used

\* The file of every entry holds the bytes it was given, in order, at the place where
\* the size stored in the directory says.
DataInPlace ==
  \A s \in Files :
    LET ch == Chain(fat, root[s].first)
    IN /\ Len(ch) >= Clusters(root[s].size)
       /\ Bytes(ch, root[s].size) = [k \in 1 .. root[s].size |-> <<s, k - 1>>]

\* The reads that may come next, of n bytes, each with what it returns.
Reads(Holds(_, _, _)) ==
  \A p \in Procs, i \in File, n \in 1 .. MaxLen :
    LET d == fd[p][i]
    IN d # Closed /\ MayRead(d) =>
         Holds(d, ReadResult(d, n).bytes, Least(n, d.size - d.cursor))

\* A read returns the bytes that follow those of the last read, whatever the sizes of
\* the reads, through the buffer or not.
ReadsInOrder ==
  Reads(LAMBDA d, bytes, n :
          bytes = [k \in 1 .. Len(bytes) |-> <<d.slot, d.cursor + k - 1>>])

\* A read falls short of what is asked and left only in the last cluster of a file
\* whose last cluster is full.
ShortReads ==
  Reads(LAMBDA d, bytes, n :
          Len(bytes) < n => /\ d.size % BPC = 0
                            /\ d.cursor + Len(bytes) >= d.size - BPC)

\* What the comment of read_data says: a read that falls short has come to the end of
\* the file.
ReadComplete ==
  Reads(LAMBDA d, bytes, n : Len(bytes) < n => d.cursor + Len(bytes) = d.size)

\* The store of files that the disk stands for.
Stored ==
  [s \in Slot |->
     IF s \notin Used THEN [kind |-> "none", name |-> NoName, bytes |-> <<>>]
     ELSE [kind |-> root[s].kind, name |-> root[s].name,
           bytes |-> Bytes(Chain(fat, root[s].first), root[s].size)]]

Store == INSTANCE FileStore WITH store <- Stored

\* The table, the clusters and the directory implement a store of files: a call changes
\* one entry only, and of a file only its end, whatever clusters it takes or frees.
FilesKept == Store!Spec
=============================================================================
