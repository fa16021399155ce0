------------------------------- MODULE FileStore -------------------------------
(***************************************************************************)
(* What the file system promises: a directory whose entries come and go    *)
(* one at a time, and files that only grow at their end, by a part of what *)
(* they are given when the disk is full. The byte number k given to the    *)
(* file of slot s is <<s, k>>.                                             *)
(***************************************************************************)
EXTENDS Integers, SequencesExt

CONSTANTS Slot, Names

VARIABLE store   \* the entry of each slot

Absent == [kind |-> "none", name |-> "", bytes |-> <<>>]
New    == [kind : {"file", "dir"}, name : Names, bytes : {<<>>}]

Init == \A s \in Slot : store[s] = Absent

Grows(s, old, new) ==
  /\ old.kind = "file" /\ new = [old EXCEPT !.bytes = new.bytes]
  /\ IsStrictPrefix(old.bytes, new.bytes)
  /\ \A k \in Len(old.bytes) + 1 .. Len(new.bytes) : new.bytes[k] = <<s, k - 1>>

Change(s, old, new) ==
  \/ old = Absent /\ new \in New
  \/ old # Absent /\ new = Absent
  \/ Grows(s, old, new)

Next ==
  \E s \in Slot : /\ \A r \in Slot \ {s} : store'[r] = store[r]
                  /\ Change(s, store[s], store'[s])

Spec == Init /\ [][Next]_store
================================================================================
