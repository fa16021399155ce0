--------------------------------- MODULE Lists ---------------------------------
(***************************************************************************)
(* The doubly linked lists of the editor (mini-vim/structures.c). A heap   *)
(* is a sequence of nodes with the fields prev and next, and a node is     *)
(* named by its place in the heap. Nothing is freed, so a deleted node     *)
(* keeps its links; malloc is Append.                                      *)
(***************************************************************************)
EXTENDS Integers, SequencesExt

Null == 0

SetNext(heap, n, v) == IF n = Null THEN heap ELSE [heap EXCEPT ![n].next = v]
SetPrev(heap, n, v) == IF n = Null THEN heap ELSE [heap EXCEPT ![n].prev = v]

\* b comes after a; one of them may be missing.
Link(heap, a, b) == SetPrev(SetNext(heap, a, b), b, a)

\* The node new is put after, or before, the node el.
InsertAfter(heap, el, new)  == Link(Link(heap, el, new), new, heap[el].next)
InsertBefore(heap, el, new) == Link(Link(heap, heap[el].prev, new), new, el)

\* Faulty: the link back is left as it was.
DeleteNodeForward(heap, el) == SetNext(heap, heap[el].prev, heap[el].next)

\* The neighbours of el are linked to each other.
DeleteNode(heap, el) == Link(heap, heap[el].prev, heap[el].next)

\* The nodes met from el in the direction "next" or "prev", el first. A list has no more
\* of them than the heap.
Along(heap, el, dir) ==
  LET from[k \in Nat] ==
        [n \in DOMAIN heap |->
          IF k = 0 \/ heap[n][dir] = Null THEN <<n>>
          ELSE <<n>> \o from[k - 1][heap[n][dir]]]
  IN IF el = Null THEN <<>> ELSE from[Len(heap)][el]

\* The whole list el is in.
ListOf(heap, el) ==
  IF el = Null THEN <<>>
  ELSE Reverse(Along(heap, el, "prev")) \o Tail(Along(heap, el, "next"))

\* k_shift: k nodes further, backwards if k is negative, not beyond the end.
KShift(heap, el, k) ==
  LET s == Along(heap, el, IF k > 0 THEN "next" ELSE "prev")
      n == IF k > 0 THEN k ELSE -k
  IN s[IF n < Len(s) THEN n + 1 ELSE Len(s)]

\* The links of the list el is in agree, and it ends on both sides.
Linked(heap, el) ==
  LET s == ListOf(heap, el)
  IN /\ heap[s[1]].prev = Null /\ heap[Last(s)].next = Null
     /\ \A i \in 1 .. Len(s) - 1 : heap[s[i]].next = s[i + 1] /\ heap[s[i + 1]].prev = s[i]
     /\ IsInjective(s)
=============================================================================
