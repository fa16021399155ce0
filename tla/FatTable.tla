-------------------------------- MODULE FatTable -------------------------------
(***************************************************************************)
(* Where the entries of the table of clusters are in its sectors, and how  *)
(* they are read and changed there (fat_next_cluster, fat_free_cluster and *)
(* set_fat_cluster of fat_driver/fat_driver.cpp). A byte has Base values,  *)
(* 256 in the code; the square root of Base is half a byte.                *)
(***************************************************************************)
EXTENDS Integers, SequencesExt

CONSTANTS
  Half, Base,   \* values of half a byte, and of a byte
  SectorSize,
  FatSize       \* sectors of the table

ASSUME FatTableAssumption ==
  /\ {Half, Base, SectorSize, FatSize} \subseteq Nat
  /\ Half > 1 /\ Base = Half * Half /\ SectorSize >= 4 /\ FatSize > 0

FatTypes == {12, 16, 32}

byte_per_entry(type) == IF type = 12 THEN 3 ELSE type \div 8

\* The values of an entry, and the first of those that end a chain: fat_last_cluster.
Values(type) == CASE type = 12 -> Base * Half
                  [] type = 16 -> Base * Base
                  [] type = 32 -> Base * Base * Base * Half
fat_last_cluster(type) == Values(type) - Half \div 2

\* In FAT12 two entries share three bytes.
entry_no(type, c) == IF type = 12 THEN c \div 2 ELSE c

sector_offset(type, c) == (entry_no(type, c) * byte_per_entry(type)) \div SectorSize

\* The bytes of a sector that hold no whole entry are not used, though sector_offset
\* counts them.
entry_offset(type, c) ==
  (entry_no(type, c) % (SectorSize \div byte_per_entry(type))) * byte_per_entry(type)

Clusters(type) == {c \in 2 .. SectorSize * FatSize : sector_offset(type, c) < FatSize}

Shifted(n, k) == n * (CASE k = 0 -> 1 [] k = 1 -> Base [] k = 2 -> Base * Base
                        [] k = 3 -> Base * Base * Base)

\* The bytes of the entry, as a number.
entry_val(type, buf, c) ==
  LET Part(k) == IF k < byte_per_entry(type)
                 THEN Shifted(buf[entry_offset(type, c) + k + 1], k) ELSE 0
  IN Part(0) + Part(1) + Part(2) + Part(3)

\* The second entry of a pair is in the high half of its bytes.
High(type, c) == type = 12 /\ c % 2 = 1

Entry(type, buf, c) ==
  IF High(type, c) THEN entry_val(type, buf, c) \div Values(12)
  ELSE entry_val(type, buf, c) % Values(type)

\* Faulty: the other half of the bytes is not kept.
SetEntryAlone(type, buf, c, v) ==
  LET w == (v % Values(type)) * IF High(type, c) THEN Values(12) ELSE 1
      at == entry_offset(type, c)
  IN [n \in DOMAIN buf |-> IF n \in at + 1 .. at + byte_per_entry(type)
                           THEN (w \div Shifted(1, n - at - 1)) % Base ELSE buf[n]]

\* The rest of the bytes of the entry stays.
SetEntry(type, buf, c, v) ==
  LET old == entry_val(type, buf, c)
      new == IF High(type, c)
             THEN (old % Values(12)) + (v % Values(12)) * Values(12)
             ELSE (old - (old % Values(type))) + (v % Values(type))
      at  == entry_offset(type, c)
  IN [n \in DOMAIN buf |-> IF n \in at + 1 .. at + byte_per_entry(type)
                           THEN (new \div Shifted(1, n - at - 1)) % Base ELSE buf[n]]
================================================================================
