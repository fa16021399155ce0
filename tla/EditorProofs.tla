------------------------------ MODULE EditorProofs -----------------------------
(***************************************************************************)
(* What holds of the editor, for every height of the screen, every number  *)
(* of lines and cells, and all characters and files.                       *)
(*                                                                         *)
(* The argument has four parts. Of the lists: IsList says which nodes, in  *)
(* which order, follow each other on the heap, the first k of them having  *)
(* no link back from those after them (the deletion of the first line      *)
(* leaves file_buffer on such a one); each operation of structures.c makes *)
(* one list of another. Of the document: Sound gives the text that it      *)
(* shows, with the lists of its lines and of the cells of each; Rows keeps *)
(* the row that is counted for the cursor near the real one. Of the keys:  *)
(* each handler makes of a sound document one that is sound for an edited  *)
(* text, or Wild, so that Inv is an invariant and the text a refinement of *)
(* Text. Of the colours: the links of the automaton lead to what the       *)
(* characters before end with, so that what it finds was in the text.      *)
(***************************************************************************)
EXTENDS Editor, Numbers, FiniteSetTheorems, SequenceTheorems

-----------------------------------------------------------------------------
(* Sequences.                                                              *)

LEMMA InsertAtIs ==
  ASSUME NEW S, NEW s \in Seq(S), NEW i \in 1 .. Len(s) + 1, NEW e \in S
  PROVE  /\ InsertAt(s, i, e) \in Seq(S) /\ Len(InsertAt(s, i, e)) = Len(s) + 1
         /\ \A j \in 1 .. Len(s) + 1 :
              InsertAt(s, i, e)[j] = IF j < i THEN s[j] ELSE IF j = i THEN e ELSE s[j - 1]
<1> DEFINE a == SubSeq(s, 1, i - 1)
           b == SubSeq(s, i, Len(s))
<1>1. /\ a \in Seq(S) /\ Len(a) = i - 1
      /\ \A j \in 1 .. i - 1 : a[j] = s[j]
  OBVIOUS
<1>2. /\ b \in Seq(S) /\ Len(b) = Len(s) + 1 - i
      /\ \A j \in 1 .. Len(s) + 1 - i : b[j] = s[i + j - 1]
  OBVIOUS
<1> HIDE DEF a, b
<1> DEFINE c == a \o <<e>>
<1>3. /\ c \in Seq(S) /\ Len(c) = i
      /\ \A j \in 1 .. i : c[j] = IF j < i THEN s[j] ELSE e
  BY <1>1
<1> HIDE DEF c
<1>4. /\ c \o b \in Seq(S) /\ Len(c \o b) = Len(s) + 1
      /\ \A j \in 1 .. Len(s) + 1 : (c \o b)[j] = IF j <= i THEN c[j] ELSE b[j - i]
  <2>1. /\ Len(c \o b) = Len(c) + Len(b) /\ c \o b \in Seq(S)
        /\ \A j \in 1 .. Len(c) + Len(b) :
             (c \o b)[j] = IF j <= Len(c) THEN c[j] ELSE b[j - Len(c)]
    BY <1>2, <1>3, ConcatProperties
  <2> QED BY <1>2, <1>3, <2>1
<1>5. InsertAt(s, i, e) = c \o b
  BY DEF InsertAt, a, b, c
<1>6. ASSUME NEW j \in 1 .. Len(s) + 1, j > i PROVE b[j - i] = s[j - 1]
  <2>1. j - i \in 1 .. Len(s) + 1 - i /\ i + (j - i) - 1 = j - 1
    BY <1>6
  <2> QED BY <2>1, <1>2
<1> QED BY <1>3, <1>4, <1>5, <1>6

LEMMA RemoveAtIs ==
  ASSUME NEW S, NEW s \in Seq(S), NEW i \in 1 .. Len(s)
  PROVE  /\ RemoveAt(s, i) \in Seq(S) /\ Len(RemoveAt(s, i)) = Len(s) - 1
         /\ \A j \in 1 .. Len(s) - 1 :
              RemoveAt(s, i)[j] = IF j < i THEN s[j] ELSE s[j + 1]
<1> DEFINE a == SubSeq(s, 1, i - 1)
           b == SubSeq(s, i + 1, Len(s))
<1>1. /\ a \in Seq(S) /\ Len(a) = i - 1
      /\ \A j \in 1 .. i - 1 : a[j] = s[j]
  OBVIOUS
<1>2. /\ b \in Seq(S) /\ Len(b) = Len(s) - i
      /\ \A j \in 1 .. Len(s) - i : b[j] = s[i + j]
  OBVIOUS
<1> HIDE DEF a, b
<1>4. /\ a \o b \in Seq(S) /\ Len(a \o b) = Len(s) - 1
      /\ \A j \in 1 .. Len(s) - 1 : (a \o b)[j] = IF j < i THEN a[j] ELSE b[j - i + 1]
  <2>1. /\ Len(a \o b) = Len(a) + Len(b) /\ a \o b \in Seq(S)
        /\ \A j \in 1 .. Len(a) + Len(b) :
             (a \o b)[j] = IF j <= Len(a) THEN a[j] ELSE b[j - Len(a)]
    BY <1>1, <1>2, ConcatProperties
  <2>2. Len(a) = i - 1 /\ Len(a) + Len(b) = Len(s) - 1
    BY <1>1, <1>2
  <2>3. \A j \in 1 .. Len(s) - 1 : (j <= Len(a) <=> j < i) /\ j - Len(a) = j - i + 1
    BY <2>2
  <2> HIDE DEF a, b
  <2> QED BY <2>1, <2>2, <2>3
<1>5. RemoveAt(s, i) = a \o b
  BY DEF RemoveAt, a, b
<1>6. ASSUME NEW j \in 1 .. Len(s) - 1, j >= i PROVE b[j - i + 1] = s[j + 1]
  <2>1. j - i + 1 \in 1 .. Len(s) - i /\ i + (j - i + 1) = j + 1
    BY <1>6
  <2> QED BY <2>1, <1>2
<1> QED BY <1>1, <1>4, <1>5, <1>6

-----------------------------------------------------------------------------
(* The links of a heap of nodes of the set R.                              *)

NodeSet(R) ==
  \A r \in R : /\ "prev" \in DOMAIN r /\ "next" \in DOMAIN r
               /\ \A v \in Nat : [r EXCEPT !.next = v] \in R /\ [r EXCEPT !.prev = v] \in R

\* What is not a link.
SameData(g, h) ==
  \A m \in 1 .. Len(h) : /\ g[m].c = h[m].c /\ g[m].cursor = h[m].cursor
                         /\ g[m].buffer = h[m].buffer /\ g[m].size = h[m].size

LEMMA SetNextIs ==
  ASSUME NEW R, NodeSet(R), NEW h \in Seq(R), NEW n \in 0 .. Len(h), NEW v \in Nat
  PROVE  /\ SetNext(h, n, v) \in Seq(R) /\ Len(SetNext(h, n, v)) = Len(h)
         /\ \A m \in 1 .. Len(h) :
              /\ SetNext(h, n, v)[m].next = IF m = n THEN v ELSE h[m].next
              /\ SetNext(h, n, v)[m].prev = h[m].prev
         /\ SameData(SetNext(h, n, v), h)
<1>1. CASE n = Null
  BY <1>1 DEF SetNext, SameData, Null
<1>2. CASE n # Null
  <2> DEFINE r == [h[n] EXCEPT !.next = v]
             g == [h EXCEPT ![n] = r]
  <2>1. n \in 1 .. Len(h) /\ h[n] \in R
    BY <1>2 DEF Null
  <2>2. r \in R /\ "next" \in DOMAIN h[n]
    BY <2>1 DEF NodeSet
  <2>3. /\ r.next = v /\ r.prev = h[n].prev /\ r.c = h[n].c /\ r.cursor = h[n].cursor
        /\ r.buffer = h[n].buffer /\ r.size = h[n].size
    BY <2>2
  <2> HIDE DEF r
  <2>4. /\ g \in Seq(R) /\ Len(g) = Len(h)
        /\ \A m \in 1 .. Len(h) : g[m] = IF m = n THEN r ELSE h[m]
    BY <2>1, <2>2
  <2>5. SetNext(h, n, v) = g
    BY <1>2 DEF SetNext, r
  <2> HIDE DEF g
  <2> QED BY <2>1, <2>3, <2>4, <2>5 DEF SameData
<1> QED BY <1>1, <1>2

LEMMA SetPrevIs ==
  ASSUME NEW R, NodeSet(R), NEW h \in Seq(R), NEW n \in 0 .. Len(h), NEW v \in Nat
  PROVE  /\ SetPrev(h, n, v) \in Seq(R) /\ Len(SetPrev(h, n, v)) = Len(h)
         /\ \A m \in 1 .. Len(h) :
              /\ SetPrev(h, n, v)[m].prev = IF m = n THEN v ELSE h[m].prev
              /\ SetPrev(h, n, v)[m].next = h[m].next
         /\ SameData(SetPrev(h, n, v), h)
<1>1. CASE n = Null
  BY <1>1 DEF SetPrev, SameData, Null
<1>2. CASE n # Null
  <2> DEFINE r == [h[n] EXCEPT !.prev = v]
             g == [h EXCEPT ![n] = r]
  <2>1. n \in 1 .. Len(h) /\ h[n] \in R
    BY <1>2 DEF Null
  <2>2. r \in R /\ "prev" \in DOMAIN h[n]
    BY <2>1 DEF NodeSet
  <2>3. /\ r.prev = v /\ r.next = h[n].next /\ r.c = h[n].c /\ r.cursor = h[n].cursor
        /\ r.buffer = h[n].buffer /\ r.size = h[n].size
    BY <2>2
  <2> HIDE DEF r
  <2>4. /\ g \in Seq(R) /\ Len(g) = Len(h)
        /\ \A m \in 1 .. Len(h) : g[m] = IF m = n THEN r ELSE h[m]
    BY <2>1, <2>2
  <2>5. SetPrev(h, n, v) = g
    BY <1>2 DEF SetPrev, r
  <2> HIDE DEF g
  <2> QED BY <2>1, <2>3, <2>4, <2>5 DEF SameData
<1> QED BY <1>1, <1>2

\* In g, b comes after a.
Follows(g, h, R, a, b) ==
  /\ g \in Seq(R) /\ Len(g) = Len(h)
  /\ \A m \in 1 .. Len(h) : /\ g[m].next = IF m = a THEN b ELSE h[m].next
                            /\ g[m].prev = IF m = b THEN a ELSE h[m].prev
  /\ SameData(g, h)

LEMMA LinkIs ==
  ASSUME NEW R, NodeSet(R), NEW h \in Seq(R), NEW a \in 0 .. Len(h), NEW b \in 0 .. Len(h)
  PROVE  Follows(Link(h, a, b), h, R, a, b)
<1> DEFINE e == SetNext(h, a, b)
<1>1. /\ e \in Seq(R) /\ Len(e) = Len(h) /\ SameData(e, h)
      /\ \A m \in 1 .. Len(h) : e[m].next = (IF m = a THEN b ELSE h[m].next)
                                /\ e[m].prev = h[m].prev
  BY SetNextIs
<1>2. Link(h, a, b) = SetPrev(e, b, a)
  BY DEF Link
<1> HIDE DEF e
<1>3. /\ SetPrev(e, b, a) \in Seq(R) /\ Len(SetPrev(e, b, a)) = Len(e)
      /\ SameData(SetPrev(e, b, a), e)
      /\ \A m \in 1 .. Len(e) :
           /\ SetPrev(e, b, a)[m].prev = IF m = b THEN a ELSE e[m].prev
           /\ SetPrev(e, b, a)[m].next = e[m].next
  BY <1>1, SetPrevIs
<1> QED BY <1>1, <1>2, <1>3 DEF SameData, Follows

LEMMA InsertAfterIs ==
  ASSUME NEW R, NodeSet(R), NEW h \in Seq(R), NEW el \in 1 .. Len(h), NEW new \in 1 .. Len(h),
         h[el].next \in 0 .. Len(h), new # el, new # h[el].next
  PROVE  LET g == InsertAfter(h, el, new)
         IN /\ g \in Seq(R) /\ Len(g) = Len(h) /\ SameData(g, h)
            /\ \A m \in 1 .. Len(h) :
                 /\ g[m].next = IF m = el THEN new ELSE IF m = new THEN h[el].next ELSE h[m].next
                 /\ g[m].prev = IF m = new THEN el ELSE IF m = h[el].next THEN new ELSE h[m].prev
<1>0. el \in 0 .. Len(h) /\ new \in 0 .. Len(h)
  OBVIOUS
<1> DEFINE e == Link(h, el, new)
           n == h[el].next
           g == Link(e, new, n)
<1>1. Follows(e, h, R, el, new)
  BY <1>0, LinkIs
<1>2. InsertAfter(h, el, new) = g
  BY DEF InsertAfter
<1> HIDE DEF e, n
<1>3. n \in 0 .. Len(h) /\ n = h[el].next
  BY DEF n
<1>4. Follows(g, e, R, new, n)
  <2>1. e \in Seq(R) /\ new \in 0 .. Len(e) /\ n \in 0 .. Len(e)
    BY <1>0, <1>1, <1>3 DEF Follows
  <2> QED BY <2>1, LinkIs
<1> HIDE DEF g
<1>5. \A m \in 1 .. Len(h) :
        /\ g[m].next = IF m = el THEN new ELSE IF m = new THEN n ELSE h[m].next
        /\ g[m].prev = IF m = new THEN el ELSE IF m = n THEN new ELSE h[m].prev
  BY <1>1, <1>3, <1>4 DEF Follows
<1>6. g \in Seq(R) /\ Len(g) = Len(h) /\ SameData(g, h)
  BY <1>1, <1>4 DEF Follows, SameData
<1> QED BY <1>2, <1>3, <1>5, <1>6

LEMMA InsertBeforeIs ==
  ASSUME NEW R, NodeSet(R), NEW h \in Seq(R), NEW el \in 1 .. Len(h), NEW new \in 1 .. Len(h),
         h[el].prev \in 0 .. Len(h), new # el, new # h[el].prev
  PROVE  LET g == InsertBefore(h, el, new)
         IN /\ g \in Seq(R) /\ Len(g) = Len(h) /\ SameData(g, h)
            /\ \A m \in 1 .. Len(h) :
                 /\ g[m].next = IF m = new THEN el ELSE IF m = h[el].prev THEN new ELSE h[m].next
                 /\ g[m].prev = IF m = el THEN new ELSE IF m = new THEN h[el].prev ELSE h[m].prev
<1>0. el \in 0 .. Len(h) /\ new \in 0 .. Len(h)
  OBVIOUS
<1> DEFINE p == h[el].prev
           e == Link(h, p, new)
           g == Link(e, new, el)
<1>1. p \in 0 .. Len(h) /\ p = h[el].prev /\ InsertBefore(h, el, new) = g
  BY DEF InsertBefore
<1> HIDE DEF p
<1>2. Follows(e, h, R, p, new)
  BY <1>0, <1>1, LinkIs
<1> HIDE DEF e
<1>3. Follows(g, e, R, new, el)
  <2>1. e \in Seq(R) /\ new \in 0 .. Len(e) /\ el \in 0 .. Len(e)
    BY <1>0, <1>2 DEF Follows
  <2> QED BY <2>1, LinkIs
<1> HIDE DEF g
<1>4. \A m \in 1 .. Len(h) :
        /\ g[m].next = IF m = new THEN el ELSE IF m = p THEN new ELSE h[m].next
        /\ g[m].prev = IF m = el THEN new ELSE IF m = new THEN p ELSE h[m].prev
  BY <1>1, <1>2, <1>3 DEF Follows
<1>5. g \in Seq(R) /\ Len(g) = Len(h) /\ SameData(g, h)
  BY <1>2, <1>3 DEF Follows, SameData
<1> QED BY <1>1, <1>4, <1>5

LEMMA DeleteNodeIs ==
  ASSUME NEW R, NodeSet(R), NEW h \in Seq(R), NEW el \in 1 .. Len(h),
         h[el].prev \in 0 .. Len(h), h[el].next \in 0 .. Len(h)
  PROVE  LET g == DeleteNode(h, el)
         IN /\ g \in Seq(R) /\ Len(g) = Len(h) /\ SameData(g, h)
            /\ \A m \in 1 .. Len(h) :
                 /\ g[m].next = IF m = h[el].prev THEN h[el].next ELSE h[m].next
                 /\ g[m].prev = IF m = h[el].next THEN h[el].prev ELSE h[m].prev
<1> DEFINE p == h[el].prev
           n == h[el].next
<1>1. p \in 0 .. Len(h) /\ n \in 0 .. Len(h) /\ DeleteNode(h, el) = Link(h, p, n)
  BY DEF DeleteNode
<1> HIDE DEF p, n
<1>2. Follows(DeleteNode(h, el), h, R, p, n)
  BY <1>1, LinkIs
<1> QED BY <1>2 DEF Follows, p, n

-----------------------------------------------------------------------------
(* Lists. The nodes of s follow each other, and the first k of them are    *)
(* the ones that were deleted: no link leads back to them.                 *)

Injective(s) == \A i, j \in 1 .. Len(s) : s[i] = s[j] => i = j

Following(h, s) == \A i \in 1 .. Len(s) : h[s[i]].next = IF i = Len(s) THEN Null ELSE s[i + 1]

Preceding(h, s, k) ==
  \A i \in k + 1 .. Len(s) : h[s[i]].prev = IF i = k + 1 THEN Null ELSE s[i - 1]

IsList(h, s, k) ==
  /\ s \in Seq(1 .. Len(h)) /\ k \in 0 .. Len(s) - 1
  /\ Injective(s) /\ Following(h, s) /\ Preceding(h, s, k)

\* All the links of a heap lead into it.
Linking(h) == \A m \in 1 .. Len(h) : h[m].prev \in 0 .. Len(h) /\ h[m].next \in 0 .. Len(h)

Outside(s, n) == \A i \in 1 .. Len(s) : s[i] # n

LEMMA ListFacts ==
  ASSUME NEW h, Len(h) \in Nat, NEW s, NEW k, IsList(h, s, k)
  PROVE  /\ Len(s) \in Nat /\ Len(s) >= 1 /\ k \in Nat /\ k < Len(s)
         /\ s \in Seq(1 .. Len(h))
         /\ \A i \in 1 .. Len(s) : s[i] \in 1 .. Len(h)
BY DEF IsList

\* Links that no node of the list has to do with.
LEMMA ListKept ==
  ASSUME NEW h, Len(h) \in Nat, NEW g, Len(g) \in Nat, Len(h) <= Len(g),
         NEW s, NEW k, IsList(h, s, k),
         \A i \in 1 .. Len(s) : g[s[i]].next = h[s[i]].next,
         \A i \in k + 1 .. Len(s) : g[s[i]].prev = h[s[i]].prev
  PROVE  IsList(g, s, k)
<1>1. s \in Seq(1 .. Len(g))
  BY DEF IsList
<1>2. Following(g, s)
  BY DEF IsList, Following
<1>3. Preceding(g, s, k)
  BY DEF IsList, Preceding
<1> QED BY <1>1, <1>2, <1>3 DEF IsList

LEMMA InsertInjective ==
  ASSUME NEW N \in Nat, NEW s \in Seq(1 .. N), Injective(s), NEW new \in 1 .. N,
         Outside(s, new), NEW p \in 1 .. Len(s) + 1
  PROVE  Injective(InsertAt(s, p, new))
<1> DEFINE t == InsertAt(s, p, new)
<1>1. /\ Len(t) = Len(s) + 1
      /\ \A j \in 1 .. Len(s) + 1 :
           t[j] = IF j < p THEN s[j] ELSE IF j = p THEN new ELSE s[j - 1]
  BY InsertAtIs
<1>2. Len(s) \in Nat
  OBVIOUS
<1> HIDE DEF t
<1> DEFINE old(j) == IF j < p THEN j ELSE j - 1
<1>3. ASSUME NEW j \in 1 .. Len(s) + 1, j # p
      PROVE  old(j) \in 1 .. Len(s) /\ t[j] = s[old(j)] /\ t[j] # new
  <2>1. old(j) \in 1 .. Len(s) /\ t[j] = s[old(j)]
    BY <1>1, <1>2, <1>3
  <2> HIDE DEF old
  <2> QED BY <2>1 DEF Outside
<1>4. t[p] = new
  BY <1>1, <1>2
<1>5. ASSUME NEW a \in 1 .. Len(t), NEW b \in 1 .. Len(t), t[a] = t[b] PROVE a = b
  <2>1. CASE a = p
    BY <2>1, <1>1, <1>3, <1>4, <1>5
  <2>2. CASE b = p
    BY <2>2, <1>1, <1>3, <1>4, <1>5
  <2>3. CASE a # p /\ b # p
    <3>1. old(a) = old(b)
      <4> HIDE DEF old
      <4>1. old(a) \in 1 .. Len(s) /\ t[a] = s[old(a)]
        BY <2>3, <1>1, <1>3
      <4>2. old(b) \in 1 .. Len(s) /\ t[b] = s[old(b)]
        BY <2>3, <1>1, <1>3
      <4> QED BY <4>1, <4>2, <1>5 DEF Injective
    <3> QED BY <3>1, <2>3, <1>1, <1>2
  <2> QED BY <2>1, <2>2, <2>3
<1>6. Injective(t)
  BY <1>5 DEF Injective
<1> QED BY <1>6 DEF t

LEMMA RemoveInjective ==
  ASSUME NEW N \in Nat, NEW s \in Seq(1 .. N), Injective(s), NEW p \in 1 .. Len(s)
  PROVE  Injective(RemoveAt(s, p)) /\ Outside(RemoveAt(s, p), s[p])
<1> DEFINE t == RemoveAt(s, p)
<1>1. /\ Len(t) = Len(s) - 1
      /\ \A j \in 1 .. Len(s) - 1 : t[j] = IF j < p THEN s[j] ELSE s[j + 1]
  BY RemoveAtIs
<1>2. Len(s) \in Nat
  OBVIOUS
<1> HIDE DEF t
<1> DEFINE old(j) == IF j < p THEN j ELSE j + 1
<1>3. ASSUME NEW j \in 1 .. Len(t)
      PROVE  old(j) \in 1 .. Len(s) /\ t[j] = s[old(j)] /\ old(j) # p
  BY <1>1, <1>2
<1>5. ASSUME NEW a \in 1 .. Len(t), NEW b \in 1 .. Len(t), t[a] = t[b] PROVE a = b
  <2>1. old(a) = old(b)
    <3> HIDE DEF old
    <3> QED BY <1>3, <1>5 DEF Injective
  <2> QED BY <2>1, <1>1, <1>2, SMTT(30)
<1>6. Injective(t) /\ Outside(t, s[p])
  <2> HIDE DEF old
  <2> QED BY <1>3, <1>5 DEF Injective, Outside
<1> QED BY <1>6 DEF t

LEMMA ListInsertAfter ==
  ASSUME NEW R, NodeSet(R), NEW h \in Seq(R), Linking(h), NEW s, NEW k, IsList(h, s, k),
         NEW i \in k + 1 .. Len(s), NEW new \in 1 .. Len(h), Outside(s, new)
  PROVE  LET g == InsertAfter(h, s[i], new)
         IN /\ g \in Seq(R) /\ Len(g) = Len(h) /\ SameData(g, h) /\ Linking(g)
            /\ IsList(g, InsertAt(s, i + 1, new), k)
            /\ \A m \in 1 .. Len(h) : m # new /\ Outside(s, m) =>
                 g[m].next = h[m].next /\ g[m].prev = h[m].prev
<1> DEFINE g == InsertAfter(h, s[i], new)
           t == InsertAt(s, i + 1, new)
           n == h[s[i]].next
<1>20. s \in Seq(1 .. Len(h)) /\ Injective(s)
  BY DEF IsList
<1>0. Len(h) \in Nat /\ Len(s) \in Nat /\ k \in 0 .. Len(s) - 1 /\ i \in 1 .. Len(s)
  BY DEF IsList
<1>1. \A j \in 1 .. Len(s) : s[j] \in 1 .. Len(h) /\ s[j] # new
  BY <1>20 DEF Outside
<1>2. \A a, b \in 1 .. Len(s) : s[a] = s[b] => a = b
  BY DEF IsList, Injective
<1>3. \A j \in 1 .. Len(s) : h[s[j]].next = IF j = Len(s) THEN Null ELSE s[j + 1]
  BY DEF IsList, Following
<1>4. \A j \in k + 1 .. Len(s) : h[s[j]].prev = IF j = k + 1 THEN Null ELSE s[j - 1]
  BY DEF IsList, Preceding
<1>5. n = (IF i = Len(s) THEN Null ELSE s[i + 1])
  BY <1>0, <1>3
<1>6. n \in 0 .. Len(h) /\ new # s[i] /\ new # n
  BY <1>0, <1>1, <1>5 DEF Null
<1>7. /\ g \in Seq(R) /\ Len(g) = Len(h) /\ SameData(g, h)
      /\ \A m \in 1 .. Len(h) :
           /\ g[m].next = IF m = s[i] THEN new ELSE IF m = new THEN n ELSE h[m].next
           /\ g[m].prev = IF m = new THEN s[i] ELSE IF m = n THEN new ELSE h[m].prev
  BY <1>0, <1>1, <1>6, InsertAfterIs
<1>21. i + 1 \in 1 .. Len(s) + 1
  BY <1>0
<1>8. /\ Len(t) = Len(s) + 1
      /\ \A j \in 1 .. Len(s) + 1 :
           t[j] = IF j < i + 1 THEN s[j] ELSE IF j = i + 1 THEN new ELSE s[j - 1]
  <2> DEFINE S == 1 .. Len(h)
             p == i + 1
  <2>1. s \in Seq(S) /\ new \in S /\ p \in 1 .. Len(s) + 1
    BY <1>20, <1>21
  <2> HIDE DEF S, p
  <2>2. /\ Len(InsertAt(s, p, new)) = Len(s) + 1
        /\ \A j \in 1 .. Len(s) + 1 :
             InsertAt(s, p, new)[j] = IF j < p THEN s[j] ELSE IF j = p THEN new ELSE s[j - 1]
    BY <2>1, InsertAtIs
  <2> QED BY <2>2 DEF p
<1>9. t \in Seq(1 .. Len(h)) /\ Injective(t)
  <2> DEFINE S == 1 .. Len(h)
  <2>1. s \in Seq(S) /\ new \in S
    BY <1>20
  <2>2. t \in Seq(S)
    <3> HIDE DEF S
    <3> QED BY <2>1, <1>21, InsertAtIs
  <2> QED BY <2>2, <1>21, <1>20, <1>0, InsertInjective
<1> HIDE DEF g, t, n
<1>22. Len(t) = Len(s) + 1
  BY <1>8
<1>10. ASSUME NEW j \in 1 .. Len(t) PROVE g[t[j]].next = IF j = Len(t) THEN Null ELSE t[j + 1]
  <2>1. CASE j < i
    <3>1. j \in 1 .. Len(s) /\ t[j] = s[j] /\ t[j + 1] = s[j + 1] /\ j # Len(t) /\ j # Len(s)
      BY <2>1, <1>0, <1>8
    <3>2. s[j] # s[i] /\ s[j] # new /\ s[j] \in 1 .. Len(h) /\ h[s[j]].next = s[j + 1]
      BY <2>1, <3>1, <1>0, <1>1, <1>2, <1>3
    <3> QED BY <3>1, <3>2, <1>7
  <2>2. CASE j = i
    <3>1. t[j] = s[i] /\ t[j + 1] = new /\ j # Len(t)
      BY <2>2, <1>0, <1>8
    <3> QED BY <3>1, <1>0, <1>1, <1>7
  <2>3. CASE j = i + 1
    <3>1. t[j] = new /\ (j # Len(t) => t[j + 1] = s[i + 1]) /\ (j = Len(t) <=> i = Len(s))
      BY <2>3, <1>0, <1>8
    <3> QED BY <3>1, <1>5, <1>6, <1>7
  <2>4. CASE j > i + 1
    <3>1. /\ t[j] = s[j - 1] /\ j - 1 \in 1 .. Len(s) /\ j - 1 # i
          /\ (j = Len(t) <=> j - 1 = Len(s)) /\ (j - 1) + 1 = j
      BY <2>4, <1>0, <1>8
    <3>4. ASSUME j # Len(t) PROVE t[j + 1] = s[j]
      <4>1. j + 1 \in 1 .. Len(s) + 1 /\ ~(j + 1 < i + 1) /\ j + 1 # i + 1 /\ (j + 1) - 1 = j
        BY <2>4, <3>4, <1>0, <1>22
      <4> QED BY <4>1, <1>8
    <3>2. s[j - 1] # s[i] /\ s[j - 1] # new /\ s[j - 1] \in 1 .. Len(h)
      BY <3>1, <1>0, <1>1, <1>2
    <3>3. h[s[j - 1]].next = IF j - 1 = Len(s) THEN Null ELSE s[j]
      BY <3>1, <1>3
    <3> QED BY <3>1, <3>2, <3>3, <3>4, <1>7
  <2> QED BY <2>1, <2>2, <2>3, <2>4, <1>0, <1>8
<1>11. ASSUME NEW j \in k + 1 .. Len(t)
       PROVE  g[t[j]].prev = IF j = k + 1 THEN Null ELSE t[j - 1]
  <2>1. CASE j <= i
    <3>1. t[j] = s[j] /\ j \in k + 1 .. Len(s) /\ j \in 1 .. Len(s)
          /\ (j # k + 1 => t[j - 1] = s[j - 1])
      BY <2>1, <1>0, <1>8
    <3>2. s[j] # n /\ s[j] # new /\ s[j] \in 1 .. Len(h)
      <4>1. CASE i = Len(s)
        BY <4>1, <3>1, <1>1, <1>5 DEF Null
      <4>2. CASE i # Len(s)
        <5>1. i + 1 \in 1 .. Len(s) /\ j # i + 1 /\ n = s[i + 1]
          BY <4>2, <2>1, <1>0, <1>5
        <5> QED BY <5>1, <3>1, <1>1, <1>2
      <4> QED BY <4>1, <4>2
    <3>3. h[s[j]].prev = IF j = k + 1 THEN Null ELSE s[j - 1]
      BY <3>1, <1>4
    <3> QED BY <3>1, <3>2, <3>3, <1>7
  <2>2. CASE j = i + 1
    <3>1. t[j] = new /\ t[j - 1] = s[i] /\ j # k + 1
      BY <2>2, <1>0, <1>8
    <3> QED BY <3>1, <1>7
  <2>3. CASE j = i + 2
    <3>1. t[j] = s[i + 1] /\ t[j - 1] = new /\ i + 1 \in 1 .. Len(s) /\ i # Len(s) /\ j # k + 1
      BY <2>3, <1>0, <1>8
    <3>2. n = s[i + 1] /\ s[i + 1] # new /\ s[i + 1] \in 1 .. Len(h)
      BY <3>1, <1>1, <1>5
    <3> QED BY <3>1, <3>2, <1>7
  <2>4. CASE j > i + 2
    <3>1. /\ t[j] = s[j - 1] /\ j - 1 \in k + 1 .. Len(s) /\ j - 1 \in 1 .. Len(s)
          /\ j - 1 # k + 1 /\ t[j - 1] = s[(j - 1) - 1] /\ j # k + 1
          /\ j - 1 # i + 1 /\ i + 1 \in 1 .. Len(s) /\ i # Len(s)
      BY <2>4, <1>0, <1>8
    <3>2. s[j - 1] # n /\ s[j - 1] # new /\ s[j - 1] \in 1 .. Len(h)
      BY <3>1, <1>1, <1>2, <1>5
    <3>3. h[s[j - 1]].prev = s[(j - 1) - 1]
      BY <3>1, <1>4
    <3> QED BY <3>1, <3>2, <3>3, <1>7
  <2> QED BY <2>1, <2>2, <2>3, <2>4, <1>0, <1>8
<1>12. IsList(g, t, k)
  <2>1. Following(g, t) /\ Preceding(g, t, k)
    BY <1>10, <1>11 DEF Following, Preceding
  <2>2. k \in 0 .. Len(t) - 1 /\ t \in Seq(1 .. Len(g))
    BY <1>0, <1>7, <1>8, <1>9
  <2> QED BY <2>1, <2>2, <1>9 DEF IsList
<1>13. Linking(g)
  <2>1. ASSUME NEW m \in 1 .. Len(h) PROVE g[m].prev \in 0 .. Len(h) /\ g[m].next \in 0 .. Len(h)
    <3>1. h[m].prev \in 0 .. Len(h) /\ h[m].next \in 0 .. Len(h)
      BY DEF Linking
    <3>2. s[i] \in 0 .. Len(h) /\ new \in 0 .. Len(h)
      BY <1>0, <1>1
    <3> QED BY <3>1, <3>2, <1>6, <1>7
  <2> QED BY <2>1, <1>7 DEF Linking
<1>14. ASSUME NEW m \in 1 .. Len(h), m # new, Outside(s, m)
       PROVE  g[m].next = h[m].next /\ g[m].prev = h[m].prev
  <2>1. m # s[i] /\ m # n
    BY <1>14, <1>0, <1>5 DEF Outside, Null
  <2> QED BY <1>14, <2>1, <1>7
<1> QED BY <1>7, <1>12, <1>13, <1>14 DEF g, t

LEMMA ListInsertBefore ==
  ASSUME NEW R, NodeSet(R), NEW h \in Seq(R), Linking(h), NEW s, IsList(h, s, 0),
         NEW i \in 1 .. Len(s), NEW new \in 1 .. Len(h), Outside(s, new)
  PROVE  LET g == InsertBefore(h, s[i], new)
         IN /\ g \in Seq(R) /\ Len(g) = Len(h) /\ SameData(g, h) /\ Linking(g)
            /\ IsList(g, InsertAt(s, i, new), 0)
            /\ \A m \in 1 .. Len(h) : m # new /\ Outside(s, m) =>
                 g[m].next = h[m].next /\ g[m].prev = h[m].prev
<1> DEFINE g == InsertBefore(h, s[i], new)
           t == InsertAt(s, i, new)
           p == h[s[i]].prev
<1>20. s \in Seq(1 .. Len(h)) /\ Injective(s)
  BY DEF IsList
<1>0. Len(h) \in Nat /\ Len(s) \in Nat
  BY DEF IsList
<1>1. \A j \in 1 .. Len(s) : s[j] \in 1 .. Len(h) /\ s[j] # new
  BY <1>20 DEF Outside
<1>2. \A a, b \in 1 .. Len(s) : s[a] = s[b] => a = b
  BY DEF IsList, Injective
<1>3. \A j \in 1 .. Len(s) : h[s[j]].next = IF j = Len(s) THEN Null ELSE s[j + 1]
  BY DEF IsList, Following
<1>4. \A j \in 1 .. Len(s) : h[s[j]].prev = IF j = 1 THEN Null ELSE s[j - 1]
  BY DEF IsList, Preceding
<1>5. p = (IF i = 1 THEN Null ELSE s[i - 1])
  BY <1>0, <1>4
<1>6. p \in 0 .. Len(h) /\ new # s[i] /\ new # p
  BY <1>0, <1>1, <1>5 DEF Null
<1>7. /\ g \in Seq(R) /\ Len(g) = Len(h) /\ SameData(g, h)
      /\ \A m \in 1 .. Len(h) :
           /\ g[m].next = IF m = new THEN s[i] ELSE IF m = p THEN new ELSE h[m].next
           /\ g[m].prev = IF m = s[i] THEN new ELSE IF m = new THEN p ELSE h[m].prev
  BY <1>0, <1>1, <1>6, InsertBeforeIs
<1>21. i \in 1 .. Len(s) + 1
  BY <1>0
<1>8. /\ Len(t) = Len(s) + 1
      /\ \A j \in 1 .. Len(s) + 1 :
           t[j] = IF j < i THEN s[j] ELSE IF j = i THEN new ELSE s[j - 1]
  <2> DEFINE S == 1 .. Len(h)
  <2>1. s \in Seq(S) /\ new \in S
    BY <1>20
  <2> HIDE DEF S
  <2> QED BY <2>1, <1>21, InsertAtIs
<1>9. t \in Seq(1 .. Len(h)) /\ Injective(t)
  <2> DEFINE S == 1 .. Len(h)
  <2>1. s \in Seq(S) /\ new \in S
    BY <1>20
  <2>2. t \in Seq(S)
    <3> HIDE DEF S
    <3> QED BY <2>1, <1>21, InsertAtIs
  <2> QED BY <2>2, <1>21, <1>20, <1>0, InsertInjective
<1> HIDE DEF g, t, p
<1>22. Len(t) = Len(s) + 1
  BY <1>8
<1>10. ASSUME NEW j \in 1 .. Len(t) PROVE g[t[j]].next = IF j = Len(t) THEN Null ELSE t[j + 1]
  <2>1. CASE j < i - 1
    <3>1. j \in 1 .. Len(s) /\ t[j] = s[j] /\ t[j + 1] = s[j + 1] /\ j # Len(t) /\ j # Len(s)
          /\ i - 1 \in 1 .. Len(s) /\ j # i - 1 /\ i # 1
      BY <2>1, <1>0, <1>8
    <3>2. s[j] # p /\ s[j] # new /\ s[j] \in 1 .. Len(h) /\ h[s[j]].next = s[j + 1]
      BY <3>1, <1>1, <1>2, <1>3, <1>5
    <3> QED BY <3>1, <3>2, <1>7
  <2>2. CASE j = i - 1
    <3>1. t[j] = s[j] /\ t[j + 1] = new /\ j # Len(t) /\ j \in 1 .. Len(s) /\ i # 1
      BY <2>2, <1>0, <1>8
    <3>2. p = s[j] /\ s[j] # new /\ s[j] \in 1 .. Len(h)
      BY <3>1, <2>2, <1>1, <1>5
    <3> QED BY <3>1, <3>2, <1>7
  <2>3. CASE j = i
    <3>1. t[j] = new /\ t[j + 1] = s[i] /\ j # Len(t)
      BY <2>3, <1>0, <1>8
    <3> QED BY <3>1, <1>7
  <2>4. CASE j > i
    <3>1. /\ t[j] = s[j - 1] /\ j - 1 \in 1 .. Len(s)
          /\ (j = Len(t) <=> j - 1 = Len(s)) /\ (j - 1) + 1 = j
      BY <2>4, <1>0, <1>8
    <3>2. s[j - 1] # p /\ s[j - 1] # new /\ s[j - 1] \in 1 .. Len(h)
      <4>1. CASE i = 1
        BY <4>1, <3>1, <1>1, <1>5 DEF Null
      <4>2. CASE i # 1
        <5>1. i - 1 \in 1 .. Len(s) /\ j - 1 # i - 1
          BY <4>2, <2>4, <1>0, <1>22
        <5> QED BY <5>1, <4>2, <3>1, <1>1, <1>2, <1>5
      <4> QED BY <4>1, <4>2
    <3>3. h[s[j - 1]].next = IF j - 1 = Len(s) THEN Null ELSE s[j]
      BY <3>1, <1>3
    <3>4. ASSUME j # Len(t) PROVE t[j + 1] = s[j]
      <4>1. j + 1 \in 1 .. Len(s) + 1 /\ ~(j + 1 < i) /\ j + 1 # i /\ (j + 1) - 1 = j
        BY <2>4, <3>4, <1>0, <1>22
      <4> QED BY <4>1, <1>8
    <3> QED BY <3>1, <3>2, <3>3, <3>4, <1>7
  <2> QED BY <2>1, <2>2, <2>3, <2>4, <1>0, <1>22
<1>11. ASSUME NEW j \in 1 .. Len(t)
       PROVE  g[t[j]].prev = IF j = 1 THEN Null ELSE t[j - 1]
  <2>1. CASE j < i
    <3>1. t[j] = s[j] /\ j \in 1 .. Len(s) /\ j # i /\ (j # 1 => t[j - 1] = s[j - 1])
      BY <2>1, <1>0, <1>8
    <3>2. s[j] # s[i] /\ s[j] # new /\ s[j] \in 1 .. Len(h)
      BY <3>1, <1>1, <1>2
    <3>3. h[s[j]].prev = IF j = 1 THEN Null ELSE s[j - 1]
      BY <3>1, <1>4
    <3> QED BY <3>1, <3>2, <3>3, <1>7
  <2>2. CASE j = i
    <3>1. t[j] = new /\ (j # 1 => t[j - 1] = s[i - 1])
      BY <2>2, <1>0, <1>8
    <3> QED BY <3>1, <2>2, <1>5, <1>6, <1>7
  <2>3. CASE j = i + 1
    <3>1. t[j] = s[i] /\ t[j - 1] = new /\ j # 1
      BY <2>3, <1>0, <1>8
    <3> QED BY <3>1, <1>0, <1>1, <1>7
  <2>4. CASE j > i + 1
    <3>1. /\ t[j] = s[j - 1] /\ j - 1 \in 1 .. Len(s)
          /\ j - 1 # 1 /\ t[j - 1] = s[(j - 1) - 1] /\ j # 1 /\ j - 1 # i
      BY <2>4, <1>0, <1>8
    <3>2. s[j - 1] # s[i] /\ s[j - 1] # new /\ s[j - 1] \in 1 .. Len(h)
      BY <3>1, <1>1, <1>2
    <3>3. h[s[j - 1]].prev = s[(j - 1) - 1]
      BY <3>1, <1>4
    <3> QED BY <3>1, <3>2, <3>3, <1>7
  <2> QED BY <2>1, <2>2, <2>3, <2>4, <1>0, <1>22
<1>12. IsList(g, t, 0)
  <2>1. Following(g, t) /\ Preceding(g, t, 0)
    BY <1>10, <1>11 DEF Following, Preceding
  <2>2. 0 \in 0 .. Len(t) - 1 /\ t \in Seq(1 .. Len(g))
    BY <1>0, <1>7, <1>8, <1>9
  <2> QED BY <2>1, <2>2, <1>9 DEF IsList
<1>13. Linking(g)
  <2>1. ASSUME NEW m \in 1 .. Len(h) PROVE g[m].prev \in 0 .. Len(h) /\ g[m].next \in 0 .. Len(h)
    <3>1. h[m].prev \in 0 .. Len(h) /\ h[m].next \in 0 .. Len(h)
      BY DEF Linking
    <3>2. s[i] \in 0 .. Len(h) /\ new \in 0 .. Len(h)
      BY <1>0, <1>1
    <3> QED BY <3>1, <3>2, <1>6, <1>7
  <2> QED BY <2>1, <1>7 DEF Linking
<1>14. ASSUME NEW m \in 1 .. Len(h), m # new, Outside(s, m)
       PROVE  g[m].next = h[m].next /\ g[m].prev = h[m].prev
  <2>1. m # s[i] /\ m # p
    <3>1. i # 1 => i - 1 \in 1 .. Len(s)
      BY <1>0
    <3> QED BY <3>1, <1>14, <1>0, <1>5 DEF Outside, Null
  <2> QED BY <1>14, <2>1, <1>7
<1> QED BY <1>7, <1>12, <1>13, <1>14 DEF g, t

\* The links that a deletion makes.
LEMMA DeletedLinks ==
  ASSUME NEW R, NodeSet(R), NEW h \in Seq(R), Linking(h), NEW s, NEW k, IsList(h, s, k),
         NEW i \in k + 1 .. Len(s)
  PROVE  LET g == DeleteNode(h, s[i])
             p == IF i = k + 1 THEN Null ELSE s[i - 1]
             n == IF i = Len(s) THEN Null ELSE s[i + 1]
         IN /\ g \in Seq(R) /\ Len(g) = Len(h) /\ SameData(g, h) /\ Linking(g)
            /\ \A m \in 1 .. Len(h) : /\ g[m].next = IF m = p THEN n ELSE h[m].next
                                      /\ g[m].prev = IF m = n THEN p ELSE h[m].prev
            /\ \A m \in 1 .. Len(h) : Outside(s, m) =>
                 g[m].next = h[m].next /\ g[m].prev = h[m].prev
<1> DEFINE g == DeleteNode(h, s[i])
           p == IF i = k + 1 THEN Null ELSE s[i - 1]
           n == IF i = Len(s) THEN Null ELSE s[i + 1]
<1>20. s \in Seq(1 .. Len(h))
  BY DEF IsList
<1>0. Len(h) \in Nat /\ Len(s) \in Nat /\ k \in 0 .. Len(s) - 1 /\ i \in 1 .. Len(s)
  BY DEF IsList
<1>1. \A j \in 1 .. Len(s) : s[j] \in 1 .. Len(h)
  BY <1>20
<1>2. h[s[i]].next = n
  BY <1>0 DEF IsList, Following
<1>3. h[s[i]].prev = p
  BY <1>0 DEF IsList, Preceding
<1>4. i # k + 1 => i - 1 \in 1 .. Len(s)
  BY <1>0
<1>5. i # Len(s) => i + 1 \in 1 .. Len(s)
  BY <1>0
<1>6. p \in 0 .. Len(h) /\ n \in 0 .. Len(h)
  BY <1>0, <1>1, <1>4, <1>5 DEF Null
<1> HIDE DEF p, n
<1>7. /\ g \in Seq(R) /\ Len(g) = Len(h) /\ SameData(g, h)
      /\ \A m \in 1 .. Len(h) : /\ g[m].next = IF m = p THEN n ELSE h[m].next
                                /\ g[m].prev = IF m = n THEN p ELSE h[m].prev
  <2> DEFINE el == s[i]
  <2>1. el \in 1 .. Len(h) /\ h[el].next = n /\ h[el].prev = p
    BY <1>0, <1>1, <1>2, <1>3
  <2> HIDE DEF el
  <2>2. LET e == DeleteNode(h, el)
        IN /\ e \in Seq(R) /\ Len(e) = Len(h) /\ SameData(e, h)
           /\ \A m \in 1 .. Len(h) :
                /\ e[m].next = IF m = h[el].prev THEN h[el].next ELSE h[m].next
                /\ e[m].prev = IF m = h[el].next THEN h[el].prev ELSE h[m].prev
    BY <2>1, <1>6, DeleteNodeIs
  <2> QED BY <2>1, <2>2 DEF el
<1> HIDE DEF g
<1>8. ASSUME NEW m \in 1 .. Len(h) PROVE g[m].prev \in 0 .. Len(h) /\ g[m].next \in 0 .. Len(h)
  <2>1. h[m].prev \in 0 .. Len(h) /\ h[m].next \in 0 .. Len(h)
    BY DEF Linking
  <2> QED BY <2>1, <1>6, <1>7
<1>9. Linking(g)
  BY <1>7, <1>8 DEF Linking
<1>10. ASSUME NEW m \in 1 .. Len(h), Outside(s, m)
       PROVE  g[m].next = h[m].next /\ g[m].prev = h[m].prev
  <2>1. m # p /\ m # n
    BY <1>10, <1>0, <1>4, <1>5 DEF Outside, Null, p, n
  <2> QED BY <1>10, <2>1, <1>7
<1> QED BY <1>7, <1>9, <1>10 DEF g, p, n

\* A node that is deleted, but for the first one after other deleted ones.
LEMMA ListRemove ==
  ASSUME NEW R, NodeSet(R), NEW h \in Seq(R), Linking(h), NEW s, NEW k, IsList(h, s, k),
         NEW i \in k + 1 .. Len(s), k = 0 \/ i # k + 1, Len(s) > k + 1
  PROVE  IsList(DeleteNode(h, s[i]), RemoveAt(s, i), k)
<1> DEFINE g == DeleteNode(h, s[i])
           t == RemoveAt(s, i)
           p == IF i = k + 1 THEN Null ELSE s[i - 1]
           n == IF i = Len(s) THEN Null ELSE s[i + 1]
<1>20. s \in Seq(1 .. Len(h)) /\ Injective(s)
  BY DEF IsList
<1>0. Len(h) \in Nat /\ Len(s) \in Nat /\ k \in 0 .. Len(s) - 1 /\ i \in 1 .. Len(s)
  BY DEF IsList
<1>1. \A j \in 1 .. Len(s) : s[j] \in 1 .. Len(h)
  BY <1>20
<1>2. \A a, b \in 1 .. Len(s) : s[a] = s[b] => a = b
  BY DEF IsList, Injective
<1>3. \A j \in 1 .. Len(s) : h[s[j]].next = IF j = Len(s) THEN Null ELSE s[j + 1]
  BY DEF IsList, Following
<1>4. \A j \in k + 1 .. Len(s) : h[s[j]].prev = IF j = k + 1 THEN Null ELSE s[j - 1]
  BY DEF IsList, Preceding
<1>7. /\ Len(g) = Len(h)
      /\ \A m \in 1 .. Len(h) : /\ g[m].next = IF m = p THEN n ELSE h[m].next
                                /\ g[m].prev = IF m = n THEN p ELSE h[m].prev
  BY DeletedLinks
<1>8. /\ Len(t) = Len(s) - 1
      /\ \A j \in 1 .. Len(s) - 1 : t[j] = IF j < i THEN s[j] ELSE s[j + 1]
  <2> DEFINE S == 1 .. Len(h)
  <2>1. s \in Seq(S)
    BY <1>20
  <2> HIDE DEF S
  <2> QED BY <2>1, <1>0, RemoveAtIs
<1>9. t \in Seq(1 .. Len(h)) /\ Injective(t)
  <2> DEFINE S == 1 .. Len(h)
  <2>1. s \in Seq(S)
    BY <1>20
  <2>2. t \in Seq(S)
    <3> HIDE DEF S
    <3> QED BY <2>1, <1>0, RemoveAtIs
  <2> QED BY <2>2, <1>20, <1>0, RemoveInjective
<1> HIDE DEF g, t
<1>22. Len(t) = Len(s) - 1
  BY <1>8
<1>10. ASSUME NEW j \in 1 .. Len(t) PROVE g[t[j]].next = IF j = Len(t) THEN Null ELSE t[j + 1]
  <2>1. CASE j < i - 1
    <3>1. j \in 1 .. Len(s) /\ t[j] = s[j] /\ t[j + 1] = s[j + 1] /\ j # Len(t) /\ j # Len(s)
          /\ i - 1 \in 1 .. Len(s) /\ j # i - 1
      BY <2>1, <1>0, <1>8
    <3>2. s[j] # p /\ s[j] \in 1 .. Len(h) /\ h[s[j]].next = s[j + 1]
      BY <3>1, <1>1, <1>2, <1>3 DEF Null
    <3> QED BY <3>1, <3>2, <1>7
  <2>2. CASE j = i - 1
    <3>1. t[j] = s[j] /\ j \in 1 .. Len(s) /\ i # 1 /\ i # k + 1 /\ i - 1 = j
      BY <2>2, <1>0, <1>8
    <3>2. p = s[j] /\ s[j] \in 1 .. Len(h)
      BY <3>1, <1>1
    <3>3. j = Len(t) <=> i = Len(s)
      BY <2>2, <1>0, <1>22
    <3>4. ASSUME j # Len(t) PROVE t[j + 1] = s[i + 1]
      <4>1. j + 1 \in 1 .. Len(s) - 1 /\ ~(j + 1 < i) /\ j + 1 = i
        BY <2>2, <3>4, <1>0, <1>22
      <4> QED BY <4>1, <1>8
    <3> QED BY <3>1, <3>2, <3>3, <3>4, <1>7
  <2>4. CASE j >= i
    <3>1. /\ t[j] = s[j + 1] /\ j + 1 \in 1 .. Len(s)
          /\ (j = Len(t) <=> j + 1 = Len(s))
      BY <2>4, <1>0, <1>8
    <3>2. s[j + 1] # p /\ s[j + 1] \in 1 .. Len(h)
      <4>1. CASE i = k + 1
        BY <4>1, <3>1, <1>1 DEF Null
      <4>2. CASE i # k + 1
        <5>1. i - 1 \in 1 .. Len(s) /\ j + 1 # i - 1
          BY <4>2, <2>4, <1>0, <1>22
        <5> QED BY <5>1, <4>2, <3>1, <1>1, <1>2
      <4> QED BY <4>1, <4>2
    <3>3. h[s[j + 1]].next = IF j + 1 = Len(s) THEN Null ELSE s[(j + 1) + 1]
      BY <3>1, <1>3
    <3>4. ASSUME j # Len(t) PROVE t[j + 1] = s[(j + 1) + 1]
      <4>1. j + 1 \in 1 .. Len(s) - 1 /\ ~(j + 1 < i)
        BY <2>4, <3>4, <1>0, <1>22
      <4> QED BY <4>1, <1>8
    <3> QED BY <3>1, <3>2, <3>3, <3>4, <1>7
  <2> QED BY <2>1, <2>2, <2>4, <1>0, <1>22
<1>11. ASSUME NEW j \in k + 1 .. Len(t)
       PROVE  g[t[j]].prev = IF j = k + 1 THEN Null ELSE t[j - 1]
  <2>1. CASE j < i
    <3>1. /\ t[j] = s[j] /\ j \in 1 .. Len(s) /\ j \in k + 1 .. Len(s)
          /\ (j # k + 1 => t[j - 1] = s[j - 1])
      BY <2>1, <1>0, <1>8
    <3>2. s[j] # n /\ s[j] \in 1 .. Len(h)
      <4>1. CASE i = Len(s)
        BY <4>1, <3>1, <1>1 DEF Null
      <4>2. CASE i # Len(s)
        <5>1. i + 1 \in 1 .. Len(s) /\ j # i + 1
          BY <4>2, <2>1, <1>0
        <5> QED BY <5>1, <4>2, <3>1, <1>1, <1>2
      <4> QED BY <4>1, <4>2
    <3>3. h[s[j]].prev = IF j = k + 1 THEN Null ELSE s[j - 1]
      BY <3>1, <1>4
    <3> QED BY <3>1, <3>2, <3>3, <1>7
  <2>2. CASE j = i
    <3>1. /\ t[j] = s[i + 1] /\ i + 1 \in 1 .. Len(s) /\ i # Len(s)
          /\ (j # k + 1 => t[j - 1] = s[i - 1])
      BY <2>2, <1>0, <1>8
    <3> QED BY <3>1, <2>2, <1>1, <1>7
  <2>3. CASE j > i
    <3>1. /\ t[j] = s[j + 1] /\ j + 1 \in k + 1 .. Len(s) /\ j + 1 \in 1 .. Len(s)
          /\ j # k + 1 /\ (j + 1) - 1 = j /\ j + 1 # k + 1
      BY <2>3, <1>0, <1>8
    <3>2. s[j + 1] # n /\ s[j + 1] \in 1 .. Len(h)
      <4>1. i + 1 \in 1 .. Len(s) /\ j + 1 # i + 1 /\ i # Len(s)
        BY <2>3, <1>0, <1>22
      <4> QED BY <4>1, <3>1, <1>1, <1>2
    <3>3. h[s[j + 1]].prev = s[j]
      BY <3>1, <1>4
    <3>4. t[j - 1] = s[j]
      <4>1. j - 1 \in 1 .. Len(s) - 1 /\ ~(j - 1 < i) /\ (j - 1) + 1 = j
        BY <2>3, <1>0, <1>22
      <4> QED BY <4>1, <1>8
    <3> QED BY <3>1, <3>2, <3>3, <3>4, <1>7
  <2> QED BY <2>1, <2>2, <2>3, <1>0, <1>22
<1>12. IsList(g, t, k)
  <2>1. Following(g, t) /\ Preceding(g, t, k)
    BY <1>10, <1>11 DEF Following, Preceding
  <2>2. k \in 0 .. Len(t) - 1 /\ t \in Seq(1 .. Len(g))
    <3>1. k \in 0 .. Len(t) - 1
      BY <1>0, <1>22
    <3> QED BY <3>1, <1>7, <1>9
  <2> QED BY <2>1, <2>2, <1>9 DEF IsList
<1> QED BY <1>12 DEF g, t

\* The first node is deleted: the one before it, if any, still leads to it.
LEMMA ListRemoveFirst ==
  ASSUME NEW R, NodeSet(R), NEW h \in Seq(R), Linking(h), NEW s, NEW k, IsList(h, s, k),
         Len(s) > k + 1
  PROVE  IsList(DeleteNode(h, s[k + 1]), s, k + 1)
<1> DEFINE g == DeleteNode(h, s[k + 1])
<1>20. s \in Seq(1 .. Len(h)) /\ Injective(s)
  BY DEF IsList
<1>0. Len(h) \in Nat /\ Len(s) \in Nat /\ k \in 0 .. Len(s) - 1 /\ k + 1 \in k + 1 .. Len(s)
      /\ k + 1 \in 1 .. Len(s) /\ k + 1 # Len(s) /\ (k + 1) + 1 \in 1 .. Len(s)
  BY DEF IsList
<1>1. \A j \in 1 .. Len(s) : s[j] \in 1 .. Len(h)
  BY <1>20
<1>2. \A a, b \in 1 .. Len(s) : s[a] = s[b] => a = b
  BY DEF IsList, Injective
<1>3. \A j \in 1 .. Len(s) : h[s[j]].next = IF j = Len(s) THEN Null ELSE s[j + 1]
  BY DEF IsList, Following
<1>4. \A j \in k + 1 .. Len(s) : h[s[j]].prev = IF j = k + 1 THEN Null ELSE s[j - 1]
  BY DEF IsList, Preceding
<1> DEFINE n == s[(k + 1) + 1]
<1>7. /\ Len(g) = Len(h)
      /\ \A m \in 1 .. Len(h) : /\ g[m].next = IF m = Null THEN n ELSE h[m].next
                                /\ g[m].prev = IF m = n THEN Null ELSE h[m].prev
  BY <1>0, DeletedLinks
<1> HIDE DEF g
<1>8. Following(g, s)
  <2>1. ASSUME NEW j \in 1 .. Len(s) PROVE g[s[j]].next = IF j = Len(s) THEN Null ELSE s[j + 1]
    <3>1. s[j] # Null
      BY <1>1 DEF Null
    <3> QED BY <3>1, <1>1, <1>3, <1>7
  <2> QED BY <2>1 DEF Following
<1>9. ASSUME NEW j \in (k + 1) + 1 .. Len(s)
      PROVE  g[s[j]].prev = IF j = (k + 1) + 1 THEN Null ELSE s[j - 1]
  <2>1. j \in 1 .. Len(s) /\ j \in k + 1 .. Len(s) /\ j # k + 1
    BY <1>0
  <2>2. s[j] = n => j = (k + 1) + 1
    BY <2>1, <1>0, <1>2
  <2>3. h[s[j]].prev = s[j - 1] /\ s[j] \in 1 .. Len(h)
    BY <2>1, <1>1, <1>4
  <2> QED BY <2>2, <2>3, <1>7
<1>10. Preceding(g, s, k + 1)
  BY <1>9 DEF Preceding
<1>11. k + 1 \in 0 .. Len(s) - 1 /\ s \in Seq(1 .. Len(g))
  BY <1>0, <1>7, <1>20
<1>12. IsList(g, s, k + 1)
  BY <1>8, <1>10, <1>11, <1>20 DEF IsList
<1> QED BY <1>12 DEF g

-----------------------------------------------------------------------------
(* What a walk along the links finds.                                      *)

\* The links of the direction dir lead into the heap.
Directed(h, dir) ==
  DOMAIN h = 1 .. Len(h) /\ \A m \in 1 .. Len(h) : h[m][dir] \in 0 .. Len(h)

Trail(h, s, dir) ==
  /\ s \in Seq(1 .. Len(h)) /\ s # <<>> /\ Injective(s)
  /\ \A i \in 1 .. Len(s) : h[s[i]][dir] = IF i = Len(s) THEN Null ELSE s[i + 1]

LEMMA InjectiveShort ==
  ASSUME NEW N \in Nat, NEW s \in Seq(1 .. N), Injective(s)
  PROVE  Len(s) <= N
<1>1. s \in [1 .. Len(s) -> 1 .. N] /\ Len(s) \in Nat
  OBVIOUS
<1>2. IsFiniteSet(1 .. N) /\ Cardinality(1 .. N) = N
  <2>1. IsFiniteSet(1 .. N) /\ Cardinality(1 .. N) = IF 1 > N THEN 0 ELSE N - 1 + 1
    BY FS_Interval
  <2> QED BY <2>1
<1>3. IsFiniteSet(1 .. Len(s)) /\ Cardinality(1 .. Len(s)) = Len(s)
  <2> DEFINE L == Len(s)
  <2>0. L \in Nat
    BY <1>1
  <2> HIDE DEF L
  <2>1. IsFiniteSet(1 .. L) /\ Cardinality(1 .. L) = IF 1 > L THEN 0 ELSE L - 1 + 1
    BY <2>0, FS_Interval
  <2>2. IsFiniteSet(1 .. L) /\ Cardinality(1 .. L) = L
    BY <2>0, <2>1
  <2> QED BY <2>2 DEF L
<1>4. ~(Cardinality(1 .. N) < Cardinality(1 .. Len(s)))
  BY <1>1, <1>2, <1>3, FS_PigeonHole DEF Injective
<1> QED BY <1>1, <1>2, <1>3, <1>4

LEMMA RestOf ==
  ASSUME NEW S, NEW s \in Seq(S), NEW i \in 1 .. Len(s)
  PROVE  /\ i = Len(s) => SubSeq(s, i, Len(s)) = <<s[i]>>
         /\ i # Len(s) => SubSeq(s, i, Len(s)) = <<s[i]>> \o SubSeq(s, i + 1, Len(s))
<1>1. CASE i = Len(s)
  <2>1. SubSeq(s, i, Len(s)) \in Seq(S) /\ Len(SubSeq(s, i, Len(s))) = 1
        /\ SubSeq(s, i, Len(s))[1] = s[i]
    BY <1>1
  <2>2. <<s[i]>> \in Seq(S) /\ Len(<<s[i]>>) = 1 /\ <<s[i]>>[1] = s[i]
    OBVIOUS
  <2> DEFINE a == SubSeq(s, i, Len(s))
             b == <<s[i]>>
  <2>3. a \in Seq(S) /\ b \in Seq(S) /\ Len(a) = Len(b) /\ \A j \in 1 .. Len(a) : a[j] = b[j]
    BY <2>1, <2>2
  <2>4. a = b
    <3> HIDE DEF a, b
    <3> QED BY <2>3, SeqEqual
  <2> QED BY <1>1, <2>4
<1>2. CASE i # Len(s)
  <2> DEFINE a == SubSeq(s, i, Len(s))
             b == SubSeq(s, i + 1, Len(s))
  <2>1. a \in Seq(S) /\ Len(a) = Len(s) + 1 - i /\ \A j \in 1 .. Len(a) : a[j] = s[i + j - 1]
    OBVIOUS
  <2>2. b \in Seq(S) /\ Len(b) = Len(s) - i /\ \A j \in 1 .. Len(b) : b[j] = s[i + j]
    BY <1>2
  <2> HIDE DEF a, b
  <2>3. /\ <<s[i]>> \o b \in Seq(S) /\ Len(<<s[i]>> \o b) = Len(b) + 1
        /\ \A j \in 1 .. Len(b) + 1 : (<<s[i]>> \o b)[j] = IF j = 1 THEN s[i] ELSE b[j - 1]
    <3> DEFINE c == <<s[i]>>
    <3>1. c \in Seq(S) /\ Len(c) = 1 /\ c[1] = s[i] /\ Len(b) \in Nat
      BY <2>2
    <3> HIDE DEF c
    <3>2. /\ c \o b \in Seq(S) /\ Len(c \o b) = Len(c) + Len(b)
          /\ \A j \in 1 .. Len(c) + Len(b) :
               (c \o b)[j] = IF j <= Len(c) THEN c[j] ELSE b[j - Len(c)]
      BY <2>2, <3>1, ConcatProperties
    <3>3. /\ c \o b \in Seq(S) /\ Len(c \o b) = Len(b) + 1
          /\ \A j \in 1 .. Len(b) + 1 : (c \o b)[j] = IF j = 1 THEN s[i] ELSE b[j - 1]
      BY <3>1, <3>2
    <3> QED BY <3>3 DEF c
  <2>4. ASSUME NEW j \in 1 .. Len(a) PROVE a[j] = (<<s[i]>> \o b)[j]
    <3>1. CASE j = 1
      BY <3>1, <2>1, <2>2, <2>3
    <3>2. CASE j # 1
      <4>1. j - 1 \in 1 .. Len(b) /\ i + (j - 1) = i + j - 1 /\ j \in 1 .. Len(b) + 1
        BY <3>2, <2>1, <2>2
      <4> QED BY <4>1, <3>2, <2>1, <2>2, <2>3
    <3> QED BY <3>1, <3>2
  <2>5. Len(a) = Len(<<s[i]>> \o b)
    BY <2>1, <2>2, <2>3
  <2>6. a = <<s[i]>> \o b
    BY <2>1, <2>3, <2>4, <2>5, SeqEqual
  <2> QED BY <1>2, <2>6 DEF a, b
<1> QED BY <1>1, <1>2

\* Along finds the trail.
LEMMA AlongIs ==
  ASSUME NEW h, Len(h) \in Nat, NEW dir, Directed(h, dir), NEW s, Trail(h, s, dir)
  PROVE  Along(h, s[1], dir) = s
<1> DEFINE N == 1 .. Len(h)
           S == [N -> Seq(N)]
           More(f) == [n \in N |-> IF h[n][dir] = Null THEN <<n>> ELSE <<n>> \o f[h[n][dir]]]
           F == [x \in Nat \X S |-> More(x[2])]
           one == [n \in N |-> <<n>>]
           from == CHOOSE w : w = [k \in Nat |->
                     [n \in DOMAIN h |->
                       IF k = 0 \/ h[n][dir] = Null THEN <<n>>
                       ELSE <<n>> \o w[k - 1][h[n][dir]]]]
<1>0. /\ DOMAIN h = N /\ s \in Seq(N) /\ Len(s) \in Nat /\ Len(s) >= 1
      /\ \A m \in N : h[m][dir] = Null \/ h[m][dir] \in N
      /\ \A i \in 1 .. Len(s) : s[i] \in N
      /\ \A i \in 1 .. Len(s) : h[s[i]][dir] = IF i = Len(s) THEN Null ELSE s[i + 1]
  BY DEF Directed, Trail, Null
<1>00. Null \notin N
  BY DEF Null
<1> HIDE DEF N
<1>1. ASSUME NEW f \in S PROVE More(f) \in S
  <2>1. ASSUME NEW n \in N
        PROVE  (IF h[n][dir] = Null THEN <<n>> ELSE <<n>> \o f[h[n][dir]]) \in Seq(N)
    <3>1. CASE h[n][dir] = Null
      BY <3>1
    <3>2. CASE h[n][dir] # Null
      <4>1. f[h[n][dir]] \in Seq(N)
        BY <3>2, <1>0
      <4> QED BY <4>1, <3>2
    <3> QED BY <3>1, <3>2
  <2> QED BY <2>1
<1>2. one \in S
  OBVIOUS
<1>3. Steps(S, F)
  <2> HIDE DEF S, More
  <2> QED BY <1>1 DEF Steps
<1>4. PICK g \in [Nat -> S] : g[0] = one /\ \A n \in Nat : g[n + 1] = F[<<n + 1, g[n]>>]
  <2> HIDE DEF F, S, one
  <2> QED BY <1>2, <1>3, RecursionExists
<1>5. ASSUME NEW n \in Nat PROVE g[n + 1] = More(g[n])
  <2>1. g[n + 1] = F[<<n + 1, g[n]>>] /\ g[n] \in S /\ n + 1 \in Nat
    <3> HIDE DEF F, S
    <3> QED BY <1>4
  <2> HIDE DEF S, More
  <2> QED BY <2>1
<1> DEFINE Body(w, k) == [n \in N |-> IF k = 0 \/ h[n][dir] = Null THEN <<n>>
                                      ELSE <<n>> \o w[k - 1][h[n][dir]]]
<1>6. ASSUME NEW k \in Nat PROVE g[k] = Body(g, k)
  <2>1. CASE k = 0
    BY <2>1, <1>4
  <2>2. CASE k # 0
    <3>1. k - 1 \in Nat /\ (k - 1) + 1 = k
      BY <2>2
    <3>2. g[k] = More(g[k - 1])
      <4> HIDE DEF More
      <4> QED BY <3>1, <1>5
    <3> QED BY <3>2, <2>2
  <2> QED BY <2>1, <2>2
<1>7. g = [k \in Nat |-> Body(g, k)]
  <2> HIDE DEF Body, S
  <2> QED BY <1>4, <1>6
<1>8. from = [k \in Nat |-> Body(from, k)]
  <2> DEFINE Rec(w) == w = [k \in Nat |-> Body(w, k)]
  <2>1. Rec(g)
    BY <1>7
  <2>2. from = CHOOSE w : Rec(w)
    BY <1>0
  <2>3. Rec(CHOOSE w : Rec(w))
    <3> HIDE DEF Rec
    <3> QED BY <2>1
  <2>4. Rec(from)
    <3> HIDE DEF from, Rec
    <3> QED BY <2>2, <2>3
  <2> HIDE DEF from, Body
  <2> QED BY <2>4
<1>9. Along(h, s[1], dir) = from[Len(h)][s[1]]
  <2>1. s[1] # Null
    BY <1>0, <1>00
  <2> QED BY <2>1 DEF Along
<1> HIDE DEF from
<1>10. ASSUME NEW k \in Nat, NEW n \in N
       PROVE  from[k][n] = IF k = 0 \/ h[n][dir] = Null THEN <<n>>
                           ELSE <<n>> \o from[k - 1][h[n][dir]]
  <2>1. from[k] = Body(from, k)
    <3> HIDE DEF Body
    <3> QED BY <1>8
  <2> QED BY <2>1
<1> DEFINE Good == {k \in Nat : \A i \in 1 .. Len(s) :
                      Len(s) - i <= k => from[k][s[i]] = SubSeq(s, i, Len(s))}
<1>11. 0 \in Good
  <2>1. ASSUME NEW i \in 1 .. Len(s), Len(s) - i <= 0 PROVE from[0][s[i]] = SubSeq(s, i, Len(s))
    <3>1. i = Len(s)
      BY <2>1, <1>0
    <3>2. from[0][s[i]] = <<s[i]>>
      BY <1>0, <1>10
    <3> QED BY <3>1, <3>2, <1>0, RestOf
  <2> QED BY <2>1
<1>12. ASSUME NEW k \in Nat, k \in Good PROVE k + 1 \in Good
  <2>1. ASSUME NEW i \in 1 .. Len(s), Len(s) - i <= k + 1
        PROVE  from[k + 1][s[i]] = SubSeq(s, i, Len(s))
    <3>0. k + 1 \in Nat /\ k + 1 # 0 /\ (k + 1) - 1 = k /\ s[i] \in N
      BY <1>0
    <3>1. CASE i = Len(s)
      <4>1. from[k + 1][s[i]] = <<s[i]>>
        BY <3>0, <3>1, <1>0, <1>10
      <4> QED BY <4>1, <3>1, <1>0, RestOf
    <3>2. CASE i # Len(s)
      <4>1. i + 1 \in 1 .. Len(s) /\ Len(s) - (i + 1) <= k
        BY <3>2, <2>1, <1>0
      <4>2. h[s[i]][dir] = s[i + 1] /\ s[i + 1] \in N
        BY <3>2, <4>1, <1>0
      <4>3. from[k][s[i + 1]] = SubSeq(s, i + 1, Len(s))
        BY <4>1, <1>12
      <4>4. from[k + 1][s[i]] = <<s[i]>> \o from[k][s[i + 1]]
        <5>1. from[k + 1][s[i]] = IF k + 1 = 0 \/ h[s[i]][dir] = Null THEN <<s[i]>>
                                  ELSE <<s[i]>> \o from[(k + 1) - 1][h[s[i]][dir]]
          BY <3>0, <1>10
        <5>2. s[i + 1] # Null
          BY <4>2, <1>00
        <5> QED BY <5>1, <5>2, <3>0, <4>2
      <4> QED BY <4>3, <4>4, <3>2, <1>0, RestOf
    <3> QED BY <3>1, <3>2
  <2> QED BY <2>1
<1>13. Len(h) \in Good
  <2> HIDE DEF Good
  <2> QED BY <1>11, <1>12, SetInduction
<1>14. Len(s) - 1 <= Len(h) /\ 1 \in 1 .. Len(s)
  <2>1. Len(s) <= Len(h)
    BY InjectiveShort DEF Trail
  <2> QED BY <2>1, <1>0
<1>15. from[Len(h)][s[1]] = SubSeq(s, 1, Len(s))
  BY <1>13, <1>14
<1>16. SubSeq(s, 1, Len(s)) = s
  BY <1>0
<1> QED BY <1>9, <1>15, <1>16

LEMMA HeapDirected ==
  ASSUME NEW R, NEW h \in Seq(R), Linking(h)
  PROVE  Directed(h, "next") /\ Directed(h, "prev") /\ Len(h) \in Nat
BY DEF Directed, Linking

LEMMA AlongNext ==
  ASSUME NEW R, NEW h \in Seq(R), Linking(h), NEW s, NEW k, IsList(h, s, k),
         NEW i \in 1 .. Len(s)
  PROVE  Along(h, s[i], "next") = SubSeq(s, i, Len(s))
<1> DEFINE t == SubSeq(s, i, Len(s))
           N == 1 .. Len(h)
<1>1. Directed(h, "next") /\ Len(h) \in Nat
  BY HeapDirected
<1>2. s \in Seq(N) /\ Len(s) \in Nat /\ Injective(s)
  BY DEF IsList
<1>3. \A j \in 1 .. Len(s) : h[s[j]].next = IF j = Len(s) THEN Null ELSE s[j + 1]
  BY DEF IsList, Following
<1> HIDE DEF N
<1>4. /\ t \in Seq(N) /\ Len(t) = Len(s) + 1 - i
      /\ \A j \in 1 .. Len(s) + 1 - i : t[j] = s[i + j - 1]
  BY <1>2
<1> HIDE DEF t
<1>5. t # <<>> /\ Len(t) \in Nat /\ t[1] = s[i]
  BY <1>2, <1>4
<1>6. ASSUME NEW j \in 1 .. Len(t)
      PROVE  i + j - 1 \in 1 .. Len(s) /\ t[j] = s[i + j - 1]
  BY <1>2, <1>4
<1>7. Injective(t)
  <2>1. ASSUME NEW a \in 1 .. Len(t), NEW b \in 1 .. Len(t), t[a] = t[b] PROVE a = b
    <3>1. i + a - 1 = i + b - 1
      BY <2>1, <1>2, <1>6 DEF Injective
    <3> QED BY <3>1, <1>5
  <2> QED BY <2>1 DEF Injective
<1>8. ASSUME NEW j \in 1 .. Len(t) PROVE h[t[j]].next = IF j = Len(t) THEN Null ELSE t[j + 1]
  <2>1. CASE j = Len(t)
    <3>1. i + j - 1 = Len(s)
      BY <2>1, <1>2, <1>4
    <3> QED BY <3>1, <2>1, <1>3, <1>6
  <2>2. CASE j # Len(t)
    <3>0. PICK m \in Nat, n \in Nat : m = Len(s) /\ n = Len(t) /\ n = m + 1 - i
      BY <1>2, <1>4, <1>5
    <3>1. j + 1 \in 1 .. Len(t) /\ i + (j + 1) - 1 = (i + j - 1) + 1 /\ i + j - 1 # Len(s)
      BY <3>0, <2>2
    <3> QED BY <3>1, <2>2, <1>3, <1>6
  <2> QED BY <2>1, <2>2
<1>9. Trail(h, t, "next")
  BY <1>4, <1>5, <1>7, <1>8 DEF Trail, N
<1>10. Along(h, t[1], "next") = t
  BY <1>1, <1>9, AlongIs
<1> QED BY <1>5, <1>10 DEF t

\* The nodes before s[i], from the last one to the first that was not deleted.
LEMMA AlongPrev ==
  ASSUME NEW R, NEW h \in Seq(R), Linking(h), NEW s, NEW k, IsList(h, s, k),
         NEW i \in k + 1 .. Len(s)
  PROVE  Along(h, s[i], "prev") = [j \in 1 .. i - k |-> s[i + 1 - j]]
<1> DEFINE t == [j \in 1 .. i - k |-> s[i + 1 - j]]
           N == 1 .. Len(h)
<1>1. Directed(h, "prev") /\ Len(h) \in Nat
  BY HeapDirected
<1>2. s \in Seq(N) /\ Len(s) \in Nat /\ Injective(s) /\ k \in 0 .. Len(s) - 1
  BY DEF IsList
<1>3. \A j \in k + 1 .. Len(s) : h[s[j]].prev = IF j = k + 1 THEN Null ELSE s[j - 1]
  BY DEF IsList, Preceding
<1>20. \A j \in 1 .. Len(s) : s[j] \in N
  BY <1>2
<1>21. Len(s) \in Nat /\ k \in 0 .. Len(s) - 1
  BY <1>2
<1> HIDE DEF N
<1>6. ASSUME NEW j \in 1 .. i - k
      PROVE  i + 1 - j \in k + 1 .. Len(s) /\ i + 1 - j \in 1 .. Len(s) /\ t[j] = s[i + 1 - j]
  BY <1>21
<1>4. t \in Seq(N) /\ Len(t) = i - k
  <2>0. i - k \in Nat
    BY <1>21
  <2>1. t \in [1 .. i - k -> N]
    <3> HIDE DEF t
    <3>1. t = [j \in 1 .. i - k |-> t[j]]
      BY DEF t
    <3>2. \A j \in 1 .. i - k : t[j] \in N
      BY <1>6, <1>20
    <3> QED BY <3>1, <3>2
  <2> HIDE DEF t
  <2> QED BY <2>0, <2>1
<1> HIDE DEF t
<1>5. t # <<>> /\ Len(t) \in Nat /\ t[1] = s[i]
  <2>1. 1 \in 1 .. i - k /\ i + 1 - 1 = i
    BY <1>21
  <2>2. Len(t) >= 1 /\ Len(t) \in Nat
    BY <1>4, <1>21
  <2> QED BY <2>1, <2>2, <1>6
<1>7. Injective(t)
  <2>1. ASSUME NEW a \in 1 .. Len(t), NEW b \in 1 .. Len(t), t[a] = t[b] PROVE a = b
    <3>1. i + 1 - a = i + 1 - b
      BY <2>1, <1>2, <1>4, <1>6 DEF Injective
    <3> QED BY <3>1, <1>5
  <2> QED BY <2>1 DEF Injective
<1>8. ASSUME NEW j \in 1 .. Len(t) PROVE h[t[j]].prev = IF j = Len(t) THEN Null ELSE t[j + 1]
  <2>0. j \in 1 .. i - k
    BY <1>4
  <2>1. CASE j = Len(t)
    <3>1. i + 1 - j = k + 1
      BY <2>1, <1>21, <1>4
    <3> QED BY <3>1, <2>0, <2>1, <1>3, <1>6
  <2>2. CASE j # Len(t)
    <3>1. j + 1 \in 1 .. i - k /\ i + 1 - (j + 1) = (i + 1 - j) - 1 /\ i + 1 - j # k + 1
      BY <2>2, <2>0, <1>21, <1>4
    <3> QED BY <3>1, <2>0, <2>2, <1>3, <1>6
  <2> QED BY <2>1, <2>2
<1>9. Trail(h, t, "prev")
  BY <1>4, <1>5, <1>7, <1>8 DEF Trail, N
<1>10. Along(h, t[1], "prev") = t
  BY <1>1, <1>9, AlongIs
<1> QED BY <1>5, <1>10 DEF t

LEMMA ListOfIs ==
  ASSUME NEW R, NEW h \in Seq(R), Linking(h), NEW s, NEW k, IsList(h, s, k),
         NEW i \in k + 1 .. Len(s)
  PROVE  ListOf(h, s[i]) = SubSeq(s, k + 1, Len(s))
<1> DEFINE N == 1 .. Len(h)
           a == Along(h, s[i], "prev")
           b == Along(h, s[i], "next")
           c == SubSeq(s, k + 1, Len(s))
<1>1. s \in Seq(N) /\ Len(s) \in Nat /\ k \in 0 .. Len(s) - 1 /\ i \in 1 .. Len(s)
  BY DEF IsList
<1>2. s[i] # Null
  BY <1>1 DEF Null
<1>3. a = [j \in 1 .. i - k |-> s[i + 1 - j]] /\ b = SubSeq(s, i, Len(s))
  <2>1. a = [j \in 1 .. i - k |-> s[i + 1 - j]]
    BY AlongPrev
  <2>2. b = SubSeq(s, i, Len(s))
    BY <1>1, AlongNext
  <2> QED BY <2>1, <2>2
<1> HIDE DEF N, a, b
<1>4. ListOf(h, s[i]) = Reverse(a) \o Tail(b)
  BY <1>2 DEF ListOf, a, b
<1>20. Len(s) \in Nat /\ k \in 0 .. Len(s) - 1 /\ i \in 1 .. Len(s) /\ i - k \in Nat /\ i - k >= 1
  BY <1>1
<1>21. \A j \in 1 .. Len(s) : s[j] \in N
  BY <1>1
<1>22. Len(a) = i - k /\ \A j \in 1 .. i - k : a[j] = s[i + 1 - j]
  BY <1>3, <1>20
<1> DEFINE r == Reverse(a)
           q == Tail(b)
<1>5. r \in Seq(N) /\ Len(r) = i - k /\ \A j \in 1 .. i - k : r[j] = s[k + j]
  <2>1. r = [j \in 1 .. i - k |-> a[((i - k) - j) + 1]]
    BY <1>22 DEF Reverse
  <2>2. ASSUME NEW j \in 1 .. i - k
        PROVE  a[((i - k) - j) + 1] = s[k + j] /\ s[k + j] \in N
    <3>1. ((i - k) - j) + 1 \in 1 .. i - k /\ i + 1 - (((i - k) - j) + 1) = k + j
          /\ k + j \in 1 .. Len(s)
      BY <1>20
    <3> QED BY <3>1, <1>21, <1>22
  <2>3. r \in [1 .. i - k -> N] /\ \A j \in 1 .. i - k : r[j] = s[k + j]
    <3> HIDE DEF r
    <3> QED BY <2>1, <2>2
  <2> HIDE DEF r
  <2> QED BY <2>3, <1>20
<1>6. b \in Seq(N) /\ Len(b) = Len(s) + 1 - i /\ \A j \in 1 .. Len(s) + 1 - i : b[j] = s[i + j - 1]
  BY <1>1, <1>3
<1>7. q \in Seq(N) /\ Len(q) = Len(s) - i /\ \A j \in 1 .. Len(s) - i : q[j] = s[i + j]
  <2>1. b # <<>>
    BY <1>6, <1>20
  <2>2. q \in Seq(N) /\ Len(q) = Len(b) - 1 /\ \A j \in 1 .. Len(b) - 1 : q[j] = b[j + 1]
    BY <2>1, <1>6, HeadTailProperties
  <2> HIDE DEF q
  <2>3. Len(b) - 1 = Len(s) - i
    BY <1>6, <1>20
  <2>4. ASSUME NEW j \in 1 .. Len(s) - i PROVE q[j] = s[i + j]
    <3>1. j + 1 \in 1 .. Len(s) + 1 - i /\ i + (j + 1) - 1 = i + j
      BY <1>20
    <3> QED BY <3>1, <2>2, <2>3, <1>6
  <2> QED BY <2>2, <2>3, <2>4
<1> HIDE DEF r, q
<1>8. /\ r \o q \in Seq(N) /\ Len(r \o q) = Len(r) + Len(q)
      /\ \A j \in 1 .. Len(r) + Len(q) :
           (r \o q)[j] = IF j <= Len(r) THEN r[j] ELSE q[j - Len(r)]
  BY <1>5, <1>7, ConcatProperties
<1>9. c \in Seq(N) /\ Len(c) = Len(s) - k /\ \A j \in 1 .. Len(s) - k : c[j] = s[k + j]
  <2>1. c \in Seq(N) /\ Len(c) = Len(s) - k /\ \A j \in 1 .. Len(s) - k : c[j] = s[(k + 1) + j - 1]
    BY <1>1
  <2> HIDE DEF c
  <2>2. \A j \in 1 .. Len(s) - k : (k + 1) + j - 1 = k + j
    BY <1>20
  <2> QED BY <2>1, <2>2
<1> HIDE DEF c
<1>10. Len(r \o q) = Len(c)
  BY <1>5, <1>7, <1>8, <1>9, <1>20
<1>11. ASSUME NEW j \in 1 .. Len(r \o q) PROVE (r \o q)[j] = c[j]
  <2>1. j \in 1 .. Len(s) - k /\ c[j] = s[k + j]
    BY <1>9, <1>10
  <2>2. CASE j <= i - k
    <3>1. j \in 1 .. i - k /\ j \in 1 .. Len(r) + Len(q)
      BY <2>1, <2>2, <1>5, <1>7, <1>20
    <3> QED BY <3>1, <2>1, <2>2, <1>5, <1>8
  <2>3. CASE j > i - k
    <3>1. j - (i - k) \in 1 .. Len(s) - i /\ i + (j - (i - k)) = k + j
      BY <2>1, <2>3, <1>20
    <3>2. (r \o q)[j] = q[j - (i - k)]
      BY <2>1, <2>3, <1>5, <1>8, <1>20
    <3> QED BY <3>1, <3>2, <2>1, <1>7
  <2> QED BY <2>1, <2>2, <2>3, <1>20
<1>12. r \o q = c
  BY <1>8, <1>9, <1>10, <1>11, SeqEqual
<1> QED BY <1>4, <1>12 DEF r, q, c

LEMMA LinkedIs ==
  ASSUME NEW R, NEW h \in Seq(R), Linking(h), NEW s, NEW k, IsList(h, s, k),
         NEW i \in k + 1 .. Len(s)
  PROVE  Linked(h, s[i])
<1> DEFINE c == SubSeq(s, k + 1, Len(s))
<1>1. s \in Seq(1 .. Len(h)) /\ Len(s) \in Nat /\ k \in 0 .. Len(s) - 1 /\ Injective(s)
  BY DEF IsList
<1>2. \A j \in 1 .. Len(s) : h[s[j]].next = IF j = Len(s) THEN Null ELSE s[j + 1]
  BY DEF IsList, Following
<1>3. \A j \in k + 1 .. Len(s) : h[s[j]].prev = IF j = k + 1 THEN Null ELSE s[j - 1]
  BY DEF IsList, Preceding
<1>4. ListOf(h, s[i]) = c
  BY ListOfIs
<1>5. DOMAIN c = 1 .. Len(s) - k /\ Len(c) = Len(s) - k
      /\ \A j \in 1 .. Len(s) - k : c[j] = s[k + j]
  <2> DEFINE N == 1 .. Len(h)
  <2>0. s \in Seq(N) /\ Len(s) \in Nat /\ k \in 0 .. Len(s) - 1
    BY <1>1
  <2> HIDE DEF N
  <2>1. DOMAIN c = 1 .. Len(c) /\ Len(c) = Len(s) - k
        /\ \A j \in 1 .. Len(s) - k : c[j] = s[(k + 1) + j - 1]
    BY <2>0
  <2> HIDE DEF c
  <2>2. \A j \in 1 .. Len(s) - k : (k + 1) + j - 1 = k + j
    BY <1>1
  <2> QED BY <2>1, <2>2
<1>20. Len(s) \in Nat /\ k \in 0 .. Len(s) - 1
  BY <1>1
<1> HIDE DEF c
<1>6. h[c[1]].prev = Null
  <2>1. 1 \in 1 .. Len(s) - k /\ k + 1 \in k + 1 .. Len(s)
    BY <1>20
  <2> QED BY <2>1, <1>3, <1>5
<1>7. h[Last(c)].next = Null
  <2>1. Len(s) - k \in 1 .. Len(s) - k /\ k + (Len(s) - k) = Len(s) /\ Len(s) \in 1 .. Len(s)
    BY <1>20
  <2> QED BY <2>1, <1>2, <1>5 DEF Last
<1>8. ASSUME NEW j \in 1 .. Len(c) - 1
      PROVE  h[c[j]].next = c[j + 1] /\ h[c[j + 1]].prev = c[j]
  <2>0. Len(c) = Len(s) - k
    BY <1>5
  <2>1. /\ j \in 1 .. Len(s) - k /\ j + 1 \in 1 .. Len(s) - k /\ k + (j + 1) = (k + j) + 1
        /\ k + j \in 1 .. Len(s) /\ k + j # Len(s) /\ (k + j) + 1 \in k + 1 .. Len(s)
        /\ (k + j) + 1 # k + 1 /\ ((k + j) + 1) - 1 = k + j
    BY <1>20, <2>0
  <2>2. c[j] = s[k + j] /\ c[j + 1] = s[(k + j) + 1]
    BY <2>1, <1>5
  <2> QED BY <2>1, <2>2, <1>2, <1>3
<1>9. IsInjective(c)
  <2>1. ASSUME NEW a \in DOMAIN c, NEW b \in DOMAIN c, c[a] = c[b] PROVE a = b
    <3>1. k + a \in 1 .. Len(s) /\ k + b \in 1 .. Len(s) /\ s[k + a] = s[k + b]
      BY <2>1, <1>5, <1>20
    <3>2. k + a = k + b
      BY <3>1, <1>1 DEF Injective
    <3> QED BY <3>2, <1>5, <1>20
  <2> QED BY <2>1 DEF IsInjective
<1> QED BY <1>4, <1>6, <1>7, <1>8, <1>9 DEF Linked

\* KShift stays in the list.
LEMMA KShiftIs ==
  ASSUME NEW R, NEW h \in Seq(R), Linking(h), NEW s, IsList(h, s, 0), NEW x \in Int
  PROVE  \E j \in 1 .. Len(s) : KShift(h, s[1], x) = s[j]
<1>1. Len(s) \in Nat /\ 1 \in 1 .. Len(s) /\ 1 \in 0 + 1 .. Len(s) /\ s \in Seq(1 .. Len(h))
  BY DEF IsList
<1>2. CASE x > 0
  <2> DEFINE t == Along(h, s[1], "next")
             j == IF x < Len(t) THEN x + 1 ELSE Len(t)
  <2>1. t = SubSeq(s, 1, Len(s))
    BY <1>1, AlongNext
  <2>2. t = s
    BY <2>1, <1>1
  <2>3. KShift(h, s[1], x) = t[j]
    BY <1>2 DEF KShift
  <2> HIDE DEF t
  <2>4. j \in 1 .. Len(s)
    BY <2>2, <1>1, <1>2
  <2> QED BY <2>2, <2>3, <2>4
<1>3. CASE ~(x > 0)
  <2> DEFINE t == Along(h, s[1], "prev")
             j == IF -x < Len(t) THEN -x + 1 ELSE Len(t)
  <2>0. PICK z : z = 0
    OBVIOUS
  <2>1. t = [m \in 1 .. 1 - z |-> s[1 + 1 - m]]
    <3>1. IsList(h, s, z) /\ 1 \in z + 1 .. Len(s)
      BY <2>0, <1>1
    <3> QED BY <3>1, AlongPrev
  <2>2. Len(t) = 1 /\ t[1] = s[1]
    <3>1. t = [m \in 1 .. 1 |-> s[1 + 1 - m]]
      BY <2>0, <2>1
    <3> HIDE DEF t
    <3> QED BY <3>1, <1>1
  <2>3. KShift(h, s[1], x) = t[j]
    BY <1>3 DEF KShift
  <2> HIDE DEF t
  <2>4. j = 1
    BY <2>2, <1>3
  <2> QED BY <2>2, <2>3, <2>4, <1>1
<1> QED BY <1>2, <1>3

-----------------------------------------------------------------------------
(* The fields of a document.                                               *)

AllChars == Letters \cup {Space} \cup FileLetters
CellSet  == [prev : Nat, next : Nat, c : AllChars, cursor : BOOLEAN]
LineSet  == [prev : Nat, next : Nat, buffer : Nat, size : Nat]
CellHeap == Seq(CellSet)
LineHeap == Seq(LineSet)

DocSet ==
  [lines : LineHeap, cells : CellHeap, file_buffer : Nat, screen_start : Nat,
   current_line : Nat, current_text : Nat, cursorX : Int, cursorY : Int, wild : BOOLEAN]

\* The two heaps differ in the flags of the cursor only.
SameText(g, h) ==
  /\ Len(g) = Len(h)
  /\ \A m \in 1 .. Len(h) : g[m].prev = h[m].prev /\ g[m].next = h[m].next /\ g[m].c = h[m].c

\* What a movement leaves alone.
SameFrame(e, d) ==
  /\ e.lines = d.lines /\ e.file_buffer = d.file_buffer /\ e.wild = d.wild

\* The cursor goes to a cell of a line; the rest is as it was.
Moved(e, d, line, cell) ==
  /\ e \in DocSet /\ SameFrame(e, d) /\ SameText(e.cells, d.cells)
  /\ e.current_line = line /\ e.current_text = cell
  /\ \A m \in 1 .. Len(d.cells) :
       e.cells[m].cursor = IF m = cell THEN TRUE
                           ELSE IF m = d.current_text THEN FALSE ELSE d.cells[m].cursor

LEMMA NodeSets == NodeSet(CellSet) /\ NodeSet(LineSet)
BY DEF NodeSet, CellSet, LineSet

LEMMA HeapFacts ==
  /\ \A h \in CellHeap : /\ Len(h) \in Nat /\ DOMAIN h = 1 .. Len(h)
                         /\ \A m \in 1 .. Len(h) : h[m] \in CellSet
  /\ \A h \in LineHeap : /\ Len(h) \in Nat /\ DOMAIN h = 1 .. Len(h)
                         /\ \A m \in 1 .. Len(h) : h[m] \in LineSet
BY DEF CellHeap, LineHeap

LEMMA FlagCells ==
  ASSUME NEW h \in CellHeap, NEW n \in 1 .. Len(h), NEW on \in BOOLEAN
  PROVE  LET g == [h EXCEPT ![n].cursor = on]
         IN /\ g \in CellHeap /\ SameText(g, h)
            /\ \A m \in 1 .. Len(h) : g[m].cursor = IF m = n THEN on ELSE h[m].cursor
<1> DEFINE r == [h[n] EXCEPT !.cursor = on]
           g == [h EXCEPT ![n] = r]
<1>1. h[n] \in CellSet
  BY HeapFacts
<1>2. /\ r \in CellSet /\ r.cursor = on /\ r.prev = h[n].prev /\ r.next = h[n].next
      /\ r.c = h[n].c
  BY <1>1 DEF CellSet
<1> HIDE DEF r
<1>3. g \in CellHeap /\ Len(g) = Len(h) /\ \A m \in 1 .. Len(h) : g[m] = IF m = n THEN r ELSE h[m]
  BY <1>2 DEF CellHeap
<1>4. [h EXCEPT ![n].cursor = on] = g
  BY DEF r
<1> HIDE DEF g
<1>5. SameText(g, h)
  BY <1>2, <1>3 DEF SameText
<1>6. \A m \in 1 .. Len(h) : g[m].cursor = IF m = n THEN on ELSE h[m].cursor
  BY <1>2, <1>3
<1> QED BY <1>3, <1>4, <1>5, <1>6

LEMMA FlagIs ==
  ASSUME NEW d \in DocSet, d.current_text \in 1 .. Len(d.cells), NEW on \in BOOLEAN
  PROVE  LET e == Flag(d, on)
         IN /\ e \in DocSet /\ SameFrame(e, d) /\ SameText(e.cells, d.cells)
            /\ e.current_line = d.current_line /\ e.current_text = d.current_text
            /\ e.screen_start = d.screen_start /\ e.cursorX = d.cursorX /\ e.cursorY = d.cursorY
            /\ \A m \in 1 .. Len(d.cells) :
                 e.cells[m].cursor = IF m = d.current_text THEN on ELSE d.cells[m].cursor
<1> DEFINE g == [d.cells EXCEPT ![d.current_text].cursor = on]
           e == [d EXCEPT !.cells = g]
<1>1. d.cells \in CellHeap
  BY DEF DocSet
<1>2. /\ g \in CellHeap /\ SameText(g, d.cells)
      /\ \A m \in 1 .. Len(d.cells) :
           g[m].cursor = IF m = d.current_text THEN on ELSE d.cells[m].cursor
  <2>1. PICK h \in CellHeap : h = d.cells
    BY <1>1
  <2>2. PICK n \in 1 .. Len(h) : n = d.current_text
    BY <2>1
  <2>3. LET w == [h EXCEPT ![n].cursor = on]
        IN /\ w \in CellHeap /\ SameText(w, h)
           /\ \A m \in 1 .. Len(h) : w[m].cursor = IF m = n THEN on ELSE h[m].cursor
    BY FlagCells
  <2> QED BY <2>1, <2>2, <2>3
<1>3. Flag(d, on) = e
  BY DEF Flag
<1> HIDE DEF g
<1>4. /\ e \in DocSet /\ SameFrame(e, d) /\ e.cells = g
      /\ e.current_line = d.current_line /\ e.current_text = d.current_text
      /\ e.screen_start = d.screen_start /\ e.cursorX = d.cursorX /\ e.cursorY = d.cursorY
  BY <1>2 DEF DocSet, SameFrame
<1> HIDE DEF e
<1> QED BY <1>2, <1>3, <1>4

LEMMA MoveToIs ==
  ASSUME NEW d \in DocSet, d.current_text \in 1 .. Len(d.cells), NEW cell \in 1 .. Len(d.cells)
  PROVE  LET e == MoveTo(d, cell)
         IN /\ Moved(e, d, d.current_line, cell)
            /\ e.screen_start = d.screen_start /\ e.cursorX = d.cursorX /\ e.cursorY = d.cursorY
<1> DEFINE f == Flag(d, FALSE)
           m0 == [f EXCEPT !.current_text = cell]
           e == Flag(m0, TRUE)
<1>1. /\ f \in DocSet /\ SameFrame(f, d) /\ SameText(f.cells, d.cells)
      /\ f.current_line = d.current_line
      /\ f.screen_start = d.screen_start /\ f.cursorX = d.cursorX /\ f.cursorY = d.cursorY
      /\ \A m \in 1 .. Len(d.cells) :
           f.cells[m].cursor = IF m = d.current_text THEN FALSE ELSE d.cells[m].cursor
  BY FlagIs
<1> HIDE DEF f
<1>0. cell \in Nat
  BY HeapFacts DEF DocSet
<1>2. /\ m0 \in DocSet /\ SameFrame(m0, d) /\ m0.cells = f.cells
      /\ m0.current_line = d.current_line /\ m0.current_text = cell
      /\ m0.screen_start = d.screen_start /\ m0.cursorX = d.cursorX /\ m0.cursorY = d.cursorY
  BY <1>0, <1>1 DEF DocSet, SameFrame
<1> HIDE DEF m0
<1>3. cell \in 1 .. Len(m0.cells)
  BY <1>1, <1>2 DEF SameText
<1>4. /\ e \in DocSet /\ SameFrame(e, m0) /\ SameText(e.cells, m0.cells)
      /\ e.current_line = m0.current_line /\ e.current_text = m0.current_text
      /\ e.screen_start = m0.screen_start /\ e.cursorX = m0.cursorX /\ e.cursorY = m0.cursorY
      /\ \A m \in 1 .. Len(m0.cells) :
           e.cells[m].cursor = IF m = m0.current_text THEN TRUE ELSE m0.cells[m].cursor
  BY <1>2, <1>3, FlagIs
<1>5. MoveTo(d, cell) = e
  BY DEF MoveTo, f, m0
<1> HIDE DEF e
<1>6. SameFrame(e, d)
  BY <1>2, <1>4 DEF SameFrame
<1>7. SameText(e.cells, d.cells)
  BY <1>1, <1>2, <1>4 DEF SameText
<1>8. ASSUME NEW m \in 1 .. Len(d.cells)
      PROVE  e.cells[m].cursor = IF m = cell THEN TRUE
                                 ELSE IF m = d.current_text THEN FALSE ELSE d.cells[m].cursor
  <2>1. m \in 1 .. Len(m0.cells)
    BY <1>1, <1>2 DEF SameText
  <2>2. e.cells[m].cursor = IF m = m0.current_text THEN TRUE ELSE m0.cells[m].cursor
    BY <2>1, <1>4
  <2>3. m0.cells[m].cursor = IF m = d.current_text THEN FALSE ELSE d.cells[m].cursor
    BY <1>1, <1>2
  <2> QED BY <2>2, <2>3, <1>2
<1>9. Moved(e, d, d.current_line, cell)
  BY <1>2, <1>4, <1>6, <1>7, <1>8 DEF Moved
<1> QED BY <1>2, <1>4, <1>5, <1>9

-----------------------------------------------------------------------------
(* The document and the text it shows. fs are the lines met from           *)
(* file_buffer on, the first k of them deleted; cs gives each line its     *)
(* cells.                                                                  *)

TextSet == [lines : Seq(Seq(AllChars)), row : Nat, col : Nat]

LastEmpty(a) == a.lines[Len(a.lines)] = <<>>

\* The last line has no characters, and is at most n lines under the cursor.
Below(a, n) == LastEmpty(a) /\ Len(a.lines) <= a.row + n
\* Only the last line may have no characters.
Filled(a) == \A i \in 1 .. Len(a.lines) - 1 : a.lines[i] # <<>>

CellLists(h, cs) ==
  /\ cs \in Seq(Seq(1 .. Len(h)))
  /\ \A l \in 1 .. Len(cs) : cs[l] = <<>> \/ IsList(h, cs[l], 0)
  /\ \A l, m \in 1 .. Len(cs) : \A p \in 1 .. Len(cs[l]), q \in 1 .. Len(cs[m]) :
       cs[l][p] = cs[m][q] => l = m

Buffers(lines, cs) ==
  /\ Len(cs) = Len(lines)
  /\ \A l \in 1 .. Len(lines) : lines[l].buffer = IF cs[l] = <<>> THEN Null ELSE cs[l][1]

Reads(h, lines, fs, k, cs) ==
  /\ Len(lines) = Len(fs) - k
  /\ \A i \in 1 .. Len(lines) :
       /\ Len(lines[i]) = Len(cs[fs[k + i]])
       /\ \A q \in 1 .. Len(lines[i]) : lines[i][q] = h[cs[fs[k + i]][q]].c

InPlace(d, a, fs, k, cs) ==
  /\ a.row \in 1 .. Len(a.lines) /\ d.current_line = fs[k + a.row]
  /\ a.col \in 1 .. Len(a.lines[a.row]) /\ d.current_text = cs[d.current_line][a.col]

\* No cell of the text but the current one has the flag.
OneFlag(d, fs, k, cs) ==
  \A i \in 1 .. Len(fs) - k : \A q \in 1 .. Len(cs[fs[k + i]]) :
    d.cells[cs[fs[k + i]][q]].cursor => cs[fs[k + i]][q] = d.current_text

Sound(d, a, fs, k, cs) ==
  /\ d \in DocSet /\ Linking(d.lines) /\ Linking(d.cells)
  /\ d.screen_start \in 0 .. Len(d.lines)
  /\ IsList(d.lines, fs, k) /\ d.file_buffer = fs[1]
  /\ CellLists(d.cells, cs) /\ Buffers(d.lines, cs)
  /\ a \in TextSet /\ Filled(a) /\ Reads(d.cells, a.lines, fs, k, cs)
  /\ InPlace(d, a, fs, k, cs) /\ OneFlag(d, fs, k, cs)

Shows(d, a) == \E fs, k, cs : Sound(d, a, fs, k, cs)

On(d) == d.cells[d.current_text].cursor

\* The row counted for the cursor: never so far above the real one as to leave the
\* bounds, whatever the lines above it.
Rows(d, row) == Len(d.lines) <= NLines /\ d.cursorY <= Height /\ d.cursorY - row >= -NLines

\* The screen is lost, and would go on at the next row.
Off(d) == d.screen_start = Null /\ d.cursorY + 1 >= Height

\* e shows b, after d showed a.
Edited(e, b, d, a) ==
  /\ Shows(e, b) /\ On(e) /\ ~e.wild
  /\ Rows(d, a.row) => Rows(e, b.row)

LEMMA TextOperators ==
  /\ \A s, i, e : Texts!InsertAt(s, i, e) = InsertAt(s, i, e)
  /\ \A s, i : Texts!RemoveAt(s, i) = RemoveAt(s, i)
  /\ \A s : Texts!Front(s) = Front(s) /\ Texts!ToSet(s) = ToSet(s)
BY DEF Texts!InsertAt, InsertAt, Texts!RemoveAt, RemoveAt, Texts!Front, Front, Texts!ToSet, ToSet

LEMMA EditorSizes ==
  /\ NLines \in Nat /\ NLines >= 1 /\ Height \in Nat /\ Height >= 1
BY EditorAssumption

LEMMA SoundNumbers ==
  ASSUME NEW d, NEW a, NEW fs, NEW k, NEW cs, Sound(d, a, fs, k, cs)
  PROVE  /\ d.lines \in Seq(LineSet) /\ d.cells \in Seq(CellSet)
         /\ Len(d.lines) \in Nat /\ Len(d.cells) \in Nat
         /\ Len(fs) \in Nat /\ k \in 0 .. Len(fs) - 1 /\ Len(fs) <= Len(d.lines)
         /\ Len(cs) = Len(d.lines) /\ Len(a.lines) = Len(fs) - k
         /\ a.row \in 1 .. Len(a.lines) /\ a.col \in 1 .. Len(a.lines[a.row])
         /\ \A i \in 1 .. Len(a.lines) :
              /\ k + i \in 1 .. Len(fs) /\ fs[k + i] \in 1 .. Len(d.lines)
              /\ Len(a.lines[i]) \in Nat /\ Len(cs[fs[k + i]]) = Len(a.lines[i])
              /\ a.lines[i] = <<>> <=> cs[fs[k + i]] = <<>>
         /\ \A l \in 1 .. Len(cs) :
              /\ cs[l] \in Seq(1 .. Len(d.cells)) /\ Len(cs[l]) \in Nat
              /\ \A q \in 1 .. Len(cs[l]) : cs[l][q] \in 1 .. Len(d.cells)
<1>1. d.lines \in Seq(LineSet) /\ d.cells \in Seq(CellSet)
  BY DEF Sound, DocSet, LineHeap, CellHeap
<1>2. Len(d.lines) \in Nat /\ Len(d.cells) \in Nat
  BY <1>1
<1>3. fs \in Seq(1 .. Len(d.lines)) /\ k \in 0 .. Len(fs) - 1 /\ Injective(fs)
  BY DEF Sound, IsList
<1>4. Len(fs) \in Nat /\ \A i \in 1 .. Len(fs) : fs[i] \in 1 .. Len(d.lines)
  BY <1>3
<1>5. Len(fs) <= Len(d.lines)
  BY <1>2, <1>3, InjectiveShort
<1>6. /\ Len(a.lines) = Len(fs) - k
      /\ \A i \in 1 .. Len(a.lines) : Len(a.lines[i]) = Len(cs[fs[k + i]])
  BY DEF Sound, Reads
<1>7. Len(cs) = Len(d.lines) /\ cs \in Seq(Seq(1 .. Len(d.cells)))
  BY DEF Sound, Buffers, CellLists
<1>8. \A l \in 1 .. Len(cs) : cs[l] \in Seq(1 .. Len(d.cells))
  BY <1>7
<1>9. ASSUME NEW l \in 1 .. Len(cs)
      PROVE  /\ cs[l] \in Seq(1 .. Len(d.cells)) /\ Len(cs[l]) \in Nat
             /\ \A q \in 1 .. Len(cs[l]) : cs[l][q] \in 1 .. Len(d.cells)
  BY <1>8
<1>10. a.lines \in Seq(Seq(AllChars))
  BY DEF Sound, TextSet
<1>11. ASSUME NEW i \in 1 .. Len(a.lines)
       PROVE  /\ k + i \in 1 .. Len(fs) /\ fs[k + i] \in 1 .. Len(d.lines)
              /\ Len(a.lines[i]) \in Nat /\ Len(cs[fs[k + i]]) = Len(a.lines[i])
              /\ a.lines[i] = <<>> <=> cs[fs[k + i]] = <<>>
  <2>1. k + i \in 1 .. Len(fs)
    BY <1>3, <1>4, <1>6
  <2>2. fs[k + i] \in 1 .. Len(d.lines)
    BY <2>1, <1>4
  <2>3. a.lines[i] \in Seq(AllChars) /\ cs[fs[k + i]] \in Seq(1 .. Len(d.cells))
    BY <2>2, <1>7, <1>8, <1>10
  <2>4. Len(cs[fs[k + i]]) = Len(a.lines[i])
    BY <1>6
  <2>5. (a.lines[i] = <<>> <=> Len(a.lines[i]) = 0) /\ Len(a.lines[i]) \in Nat
    BY <2>3
  <2>6. cs[fs[k + i]] = <<>> <=> Len(cs[fs[k + i]]) = 0
    BY <2>3
  <2> QED BY <2>1, <2>2, <2>4, <2>5, <2>6
<1>12. a.row \in 1 .. Len(a.lines) /\ a.col \in 1 .. Len(a.lines[a.row])
  BY DEF Sound, InPlace
<1> QED BY <1>1, <1>2, <1>3, <1>4, <1>5, <1>6, <1>7, <1>9, <1>11, <1>12

\* The line of a row: its cells and its neighbours.
LEMMA RowFacts ==
  ASSUME NEW d, NEW a, NEW fs, NEW k, NEW cs, Sound(d, a, fs, k, cs),
         NEW r \in 1 .. Len(a.lines)
  PROVE  LET l == fs[k + r]
         IN /\ l \in 1 .. Len(d.lines) /\ l # Null
            /\ d.lines[l].prev = IF r = 1 THEN Null ELSE fs[k + (r - 1)]
            /\ d.lines[l].next = IF r = Len(a.lines) THEN Null ELSE fs[k + (r + 1)]
            /\ d.lines[l].buffer = IF a.lines[r] = <<>> THEN Null ELSE cs[l][1]
            /\ a.lines[r] # <<>> => IsList(d.cells, cs[l], 0)
<1>1. /\ Len(fs) \in Nat /\ k \in 0 .. Len(fs) - 1 /\ Len(cs) = Len(d.lines)
      /\ Len(a.lines) = Len(fs) - k /\ k + r \in 1 .. Len(fs)
      /\ fs[k + r] \in 1 .. Len(d.lines) /\ (a.lines[r] = <<>> <=> cs[fs[k + r]] = <<>>)
  BY SoundNumbers
<1>2. /\ d.lines[fs[k + r]].next = IF k + r = Len(fs) THEN Null ELSE fs[(k + r) + 1]
      /\ d.lines[fs[k + r]].prev = IF k + r = k + 1 THEN Null ELSE fs[(k + r) - 1]
  <2>1. k + r \in k + 1 .. Len(fs)
    BY <1>1
  <2> QED BY <2>1, <1>1 DEF Sound, IsList, Following, Preceding
<1>3. /\ (k + r = Len(fs) <=> r = Len(a.lines)) /\ (k + r = k + 1 <=> r = 1)
      /\ (k + r) + 1 = k + (r + 1) /\ (k + r) - 1 = k + (r - 1)
  BY <1>1
<1>4. d.lines[fs[k + r]].buffer = IF cs[fs[k + r]] = <<>> THEN Null ELSE cs[fs[k + r]][1]
  BY <1>1 DEF Sound, Buffers
<1>5. a.lines[r] # <<>> => IsList(d.cells, cs[fs[k + r]], 0)
  BY <1>1 DEF Sound, CellLists
<1> QED BY <1>1, <1>2, <1>3, <1>4, <1>5 DEF Null

\* The neighbours of the p-th cell of a line.
CellAt(d, s, p) ==
  /\ d.cells[s[p]].prev = IF p = 1 THEN Null ELSE s[p - 1]
  /\ d.cells[s[p]].next = IF p = Len(s) THEN Null ELSE s[p + 1]

\* The cell of a column.
LEMMA ColumnFacts ==
  ASSUME NEW d, NEW a, NEW fs, NEW k, NEW cs, Sound(d, a, fs, k, cs),
         NEW r \in 1 .. Len(a.lines), NEW p \in 1 .. Len(a.lines[r])
  PROVE  LET s == cs[fs[k + r]]
         IN /\ s[p] \in 1 .. Len(d.cells) /\ a.lines[r][p] = d.cells[s[p]].c
            /\ Len(s) = Len(a.lines[r]) /\ a.lines[r] # <<>> /\ IsList(d.cells, s, 0)
            /\ CellAt(d, s, p)
<1> DEFINE l == fs[k + r]
<1>0. /\ Len(cs) = Len(d.lines) /\ l \in 1 .. Len(d.lines)
      /\ Len(a.lines[r]) \in Nat /\ Len(cs[l]) = Len(a.lines[r])
      /\ \A m \in 1 .. Len(cs) : \A q \in 1 .. Len(cs[m]) : cs[m][q] \in 1 .. Len(d.cells)
  BY SoundNumbers
<1> HIDE DEF l
<1>6. \A q \in 1 .. Len(cs[l]) : cs[l][q] \in 1 .. Len(d.cells)
  BY <1>0
<1>1. /\ Len(cs) = Len(d.lines) /\ fs[k + r] \in 1 .. Len(d.lines)
      /\ Len(a.lines[r]) \in Nat /\ Len(cs[fs[k + r]]) = Len(a.lines[r])
      /\ \A q \in 1 .. Len(cs[fs[k + r]]) : cs[fs[k + r]][q] \in 1 .. Len(d.cells)
  BY <1>0, <1>6 DEF l
<1>2. a.lines[r] # <<>>
  BY <1>1
<1>3. IsList(d.cells, cs[fs[k + r]], 0)
  BY <1>2, RowFacts
<1>4. a.lines[r][p] = d.cells[cs[fs[k + r]][p]].c
  BY DEF Sound, Reads
<1>5. CellAt(d, cs[fs[k + r]], p)
  <2> DEFINE s == cs[fs[k + r]]
  <2>1. p \in 1 .. Len(s) /\ p \in 0 + 1 .. Len(s) /\ IsList(d.cells, s, 0)
    BY <1>1, <1>3
  <2> HIDE DEF s
  <2>2. /\ d.cells[s[p]].prev = IF p = 0 + 1 THEN Null ELSE s[p - 1]
        /\ d.cells[s[p]].next = IF p = Len(s) THEN Null ELSE s[p + 1]
    BY <2>1 DEF IsList, Following, Preceding
  <2> QED BY <2>2 DEF s, CellAt
<1> QED BY <1>1, <1>2, <1>3, <1>4, <1>5

\* The same for one line.
LEMMA LineNumbers ==
  ASSUME NEW d, NEW a, NEW fs, NEW k, NEW cs, Sound(d, a, fs, k, cs),
         NEW r \in 1 .. Len(a.lines)
  PROVE  /\ k + r \in 1 .. Len(fs) /\ fs[k + r] \in 1 .. Len(d.lines) /\ fs[k + r] \in 1 .. Len(cs)
         /\ Len(a.lines[r]) \in Nat /\ Len(cs[fs[k + r]]) = Len(a.lines[r])
         /\ \A q \in 1 .. Len(cs[fs[k + r]]) : cs[fs[k + r]][q] \in 1 .. Len(d.cells)
<1>1. \A i \in 1 .. Len(a.lines) :
        /\ k + i \in 1 .. Len(fs) /\ fs[k + i] \in 1 .. Len(d.lines)
        /\ Len(a.lines[i]) \in Nat /\ Len(cs[fs[k + i]]) = Len(a.lines[i])
  BY SoundNumbers
<1>2. /\ Len(cs) = Len(d.lines)
      /\ \A m \in 1 .. Len(cs) : \A q \in 1 .. Len(cs[m]) : cs[m][q] \in 1 .. Len(d.cells)
  BY SoundNumbers
<1>3. PICK l : l = fs[k + r]
  OBVIOUS
<1>4. /\ k + r \in 1 .. Len(fs) /\ l \in 1 .. Len(d.lines)
      /\ Len(a.lines[r]) \in Nat /\ Len(cs[l]) = Len(a.lines[r])
  BY <1>1, <1>3
<1>5. l \in 1 .. Len(cs) /\ \A q \in 1 .. Len(cs[l]) : cs[l][q] \in 1 .. Len(d.cells)
  BY <1>2, <1>4
<1> QED BY <1>3, <1>4, <1>5

LEMMA SoundLengths ==
  ASSUME NEW d, NEW a, NEW fs, NEW k, NEW cs, Sound(d, a, fs, k, cs)
  PROVE  /\ Len(d.lines) \in Nat /\ Len(d.cells) \in Nat /\ Len(fs) \in Nat
         /\ k \in 0 .. Len(fs) - 1 /\ Len(fs) <= Len(d.lines) /\ Len(cs) = Len(d.lines)
         /\ Len(a.lines) = Len(fs) - k /\ a.row \in 1 .. Len(a.lines)
         /\ a.col \in 1 .. Len(a.lines[a.row]) /\ Len(a.lines[a.row]) \in Nat
         /\ d.lines \in LineHeap /\ d.cells \in CellHeap
<1>1. a.row \in 1 .. Len(a.lines)
  BY SoundNumbers
<1>2. Len(a.lines[a.row]) \in Nat
  BY <1>1, LineNumbers
<1> QED BY <1>1, <1>2, SoundNumbers DEF LineHeap, CellHeap

\* The current line, and the current cell.
RowLine(a, fs, k) == fs[k + a.row]

LEMMA RowNumbers ==
  ASSUME NEW d, NEW a, NEW fs, NEW k, NEW cs, Sound(d, a, fs, k, cs)
  PROVE  LET L == RowLine(a, fs, k)
         IN /\ L \in 1 .. Len(cs) /\ L \in 1 .. Len(d.lines)
            /\ Len(cs[L]) = Len(a.lines[a.row]) /\ Len(cs[L]) \in Nat /\ a.col \in 1 .. Len(cs[L])
            /\ \A q \in 1 .. Len(cs[L]) : cs[L][q] \in 1 .. Len(d.cells)
            /\ IsList(d.cells, cs[L], 0) /\ CellAt(d, cs[L], a.col)
            /\ d.current_line = L /\ d.current_text = cs[L][a.col]
<1>1. PICK r : r = a.row
  OBVIOUS
<1>2. PICK p : p = a.col
  OBVIOUS
<1> DEFINE L == fs[k + r]
<1>3. r \in 1 .. Len(a.lines) /\ p \in 1 .. Len(a.lines[r])
  BY <1>1, <1>2, SoundLengths
<1>4. /\ L \in 1 .. Len(cs) /\ L \in 1 .. Len(d.lines)
      /\ Len(cs[L]) = Len(a.lines[r]) /\ Len(cs[L]) \in Nat
  BY <1>3, LineNumbers
<1>5. \A q \in 1 .. Len(cs[L]) : cs[L][q] \in 1 .. Len(d.cells)
  BY <1>3, LineNumbers
<1>6. IsList(d.cells, cs[L], 0) /\ CellAt(d, cs[L], p)
  BY <1>3, ColumnFacts
<1>7. d.current_line = fs[k + a.row] /\ d.current_text = cs[d.current_line][a.col]
  BY DEF Sound, InPlace
<1>8. L = RowLine(a, fs, k)
  BY <1>1 DEF RowLine
<1>9. d.current_line = L
  BY <1>1, <1>7
<1> HIDE DEF L
<1> QED BY <1>1, <1>2, <1>3, <1>4, <1>5, <1>6, <1>7, <1>8, <1>9

-----------------------------------------------------------------------------
(* Movements.                                                              *)

\* What does not depend on the flags.
LEMMA SameTextKept ==
  ASSUME NEW h \in CellHeap, NEW g \in CellHeap, SameText(g, h), Linking(h),
         NEW cs, CellLists(h, cs)
  PROVE  /\ Linking(g) /\ CellLists(g, cs)
         /\ \A lines, fs, k : /\ Reads(h, lines, fs, k, cs)
                              /\ \A i \in 1 .. Len(lines) : fs[k + i] \in 1 .. Len(cs)
                              => Reads(g, lines, fs, k, cs)
<1>1. /\ Len(g) = Len(h) /\ Len(h) \in Nat
      /\ \A m \in 1 .. Len(h) : g[m].prev = h[m].prev /\ g[m].next = h[m].next /\ g[m].c = h[m].c
  BY HeapFacts DEF SameText
<1>2. Linking(g)
  BY <1>1 DEF Linking
<1>3. cs \in Seq(Seq(1 .. Len(h)))
  BY DEF CellLists
<1>4. \A l \in 1 .. Len(cs) : cs[l] \in Seq(1 .. Len(h))
  BY <1>3
<1>5. \A l \in 1 .. Len(cs) : \A q \in 1 .. Len(cs[l]) : cs[l][q] \in 1 .. Len(h)
  BY <1>4
<1>6. ASSUME NEW l \in 1 .. Len(cs), cs[l] # <<>> PROVE IsList(g, cs[l], 0)
  <2>1. IsList(h, cs[l], 0)
    BY <1>6 DEF CellLists
  <2>2. /\ \A i \in 1 .. Len(cs[l]) : g[cs[l][i]].next = h[cs[l][i]].next
        /\ \A i \in 0 + 1 .. Len(cs[l]) : g[cs[l][i]].prev = h[cs[l][i]].prev
    BY <1>1, <1>5
  <2> QED BY <2>1, <2>2, <1>1, ListKept
<1>7. CellLists(g, cs)
  BY <1>1, <1>3, <1>6 DEF CellLists
<1>8. ASSUME NEW lines, NEW fs, NEW k, Reads(h, lines, fs, k, cs),
             \A i \in 1 .. Len(lines) : fs[k + i] \in 1 .. Len(cs)
      PROVE  Reads(g, lines, fs, k, cs)
  <2>1. ASSUME NEW i \in 1 .. Len(lines), NEW q \in 1 .. Len(lines[i])
        PROVE  lines[i][q] = g[cs[fs[k + i]][q]].c
    <3>1. Len(lines[i]) = Len(cs[fs[k + i]]) /\ lines[i][q] = h[cs[fs[k + i]][q]].c
      BY <1>8 DEF Reads
    <3>2. cs[fs[k + i]][q] \in 1 .. Len(h)
      BY <1>5, <1>8, <3>1
    <3> QED BY <3>1, <3>2, <1>1
  <2> QED BY <2>1, <1>8 DEF Reads
<1> QED BY <1>2, <1>7, <1>8

LEMMA MovedSound ==
  ASSUME NEW d, NEW a, NEW fs, NEW k, NEW cs, Sound(d, a, fs, k, cs),
         NEW r \in 1 .. Len(a.lines), NEW p \in 1 .. Len(a.lines[r]),
         NEW e, Moved(e, d, fs[k + r], cs[fs[k + r]][p]), e.screen_start \in 0 .. Len(d.lines)
  PROVE  Sound(e, [a EXCEPT !.row = r, !.col = p], fs, k, cs) /\ On(e)
<1> DEFINE b == [a EXCEPT !.row = r, !.col = p]
           cell == cs[fs[k + r]][p]
<1>1. /\ e \in DocSet /\ d \in DocSet /\ e.lines = d.lines /\ e.file_buffer = d.file_buffer
      /\ SameText(e.cells, d.cells)
      /\ e.current_line = fs[k + r] /\ e.current_text = cell
  BY DEF Moved, Sound, SameFrame
<1>2. e.cells \in CellHeap /\ d.cells \in CellHeap /\ Len(e.cells) = Len(d.cells)
  BY <1>1 DEF DocSet, SameText
<1>3. /\ Linking(d.lines) /\ Linking(d.cells) /\ IsList(d.lines, fs, k) /\ d.file_buffer = fs[1]
      /\ CellLists(d.cells, cs) /\ Buffers(d.lines, cs)
      /\ a \in TextSet /\ Filled(a) /\ Reads(d.cells, a.lines, fs, k, cs)
      /\ OneFlag(d, fs, k, cs)
  BY DEF Sound
<1>4. /\ Len(cs) = Len(d.lines) /\ Len(a.lines) = Len(fs) - k
      /\ \A i \in 1 .. Len(a.lines) : fs[k + i] \in 1 .. Len(cs)
  BY SoundLengths, LineNumbers
<1>5. Linking(e.cells) /\ CellLists(e.cells, cs) /\ Reads(e.cells, a.lines, fs, k, cs)
  BY <1>1, <1>2, <1>3, <1>4, SameTextKept
<1>6. cell \in 1 .. Len(d.cells)
  BY ColumnFacts
<1>7. /\ b \in TextSet /\ b.lines = a.lines /\ b.row = r /\ b.col = p
  <2>1. r \in Nat /\ p \in Nat
    BY SoundNumbers
  <2> QED BY <2>1, <1>3 DEF TextSet
<1> HIDE DEF b
<1>8. InPlace(e, b, fs, k, cs)
  BY <1>1, <1>7 DEF InPlace
<1>9. OneFlag(e, fs, k, cs)
  <2>1. ASSUME NEW i \in 1 .. Len(fs) - k, NEW q \in 1 .. Len(cs[fs[k + i]]),
               e.cells[cs[fs[k + i]][q]].cursor
        PROVE  cs[fs[k + i]][q] = cell
    <3>1. cs[fs[k + i]][q] \in 1 .. Len(d.cells)
      <4>1. i \in 1 .. Len(a.lines)
        BY <1>4
      <4> QED BY <4>1, LineNumbers
    <3>2. e.cells[cs[fs[k + i]][q]].cursor =
            IF cs[fs[k + i]][q] = cell THEN TRUE
            ELSE IF cs[fs[k + i]][q] = d.current_text THEN FALSE
            ELSE d.cells[cs[fs[k + i]][q]].cursor
      BY <3>1 DEF Moved
    <3> QED BY <3>2, <2>1, <1>3 DEF OneFlag
  <2> QED BY <2>1, <1>1 DEF OneFlag
<1>10. Filled(b)
  BY <1>3, <1>7 DEF Filled
<1>11. Sound(e, b, fs, k, cs)
  BY <1>1, <1>3, <1>5, <1>7, <1>8, <1>9, <1>10 DEF Sound
<1>12. On(e)
  <2>1. e.cells[cell].cursor = TRUE
    BY <1>6 DEF Moved
  <2> QED BY <2>1, <1>1 DEF On
<1> QED BY <1>11, <1>12 DEF b

\* The same cells, lines and places: the rest does not matter to what is shown.
LEMMA SoundSame ==
  ASSUME NEW d, NEW a, NEW fs, NEW k, NEW cs, Sound(d, a, fs, k, cs), NEW e \in DocSet,
         e.lines = d.lines, e.cells = d.cells, e.file_buffer = d.file_buffer,
         e.current_line = d.current_line, e.current_text = d.current_text,
         e.screen_start \in 0 .. Len(d.lines)
  PROVE  Sound(e, a, fs, k, cs)
<1>1. InPlace(e, a, fs, k, cs) /\ OneFlag(e, fs, k, cs)
  BY DEF Sound, InPlace, OneFlag
<1> QED BY <1>1 DEF Sound

LEMMA SoundCurrent ==
  ASSUME NEW d, NEW a, NEW fs, NEW k, NEW cs, Sound(d, a, fs, k, cs)
  PROVE  /\ d \in DocSet /\ a \in TextSet /\ Filled(a) /\ d.screen_start \in 0 .. Len(d.lines)
         /\ d.current_line = fs[k + a.row] /\ d.current_text = cs[fs[k + a.row]][a.col]
         /\ d.current_line \in 1 .. Len(d.lines) /\ d.current_text \in 1 .. Len(d.cells)
<1>1. /\ d \in DocSet /\ a \in TextSet /\ Filled(a) /\ d.screen_start \in 0 .. Len(d.lines)
      /\ d.current_line = fs[k + a.row] /\ d.current_text = cs[fs[k + a.row]][a.col]
  BY DEF Sound, InPlace
<1>2. a.row \in 1 .. Len(a.lines) /\ a.col \in 1 .. Len(a.lines[a.row])
  BY SoundLengths
<1>3. fs[k + a.row] \in 1 .. Len(d.lines)
  BY <1>2, LineNumbers
<1>4. cs[fs[k + a.row]][a.col] \in 1 .. Len(d.cells)
  BY <1>2, ColumnFacts
<1> QED BY <1>1, <1>3, <1>4

Placed(a, r, p) == [a EXCEPT !.row = r, !.col = p]

Entered(e, b, d, fs, k, cs) ==
  /\ Sound(e, b, fs, k, cs) /\ On(e) /\ e.lines = d.lines /\ e.wild = d.wild
  /\ e.screen_start = d.screen_start /\ e.cursorY = d.cursorY

LEMMA WildFlag == Wild.wild
BY DEF Wild, NewFile, Blank

LEMMA EnterLineIs ==
  ASSUME NEW d, NEW a, NEW fs, NEW k, NEW cs, Sound(d, a, fs, k, cs),
         NEW r \in 1 .. Len(a.lines)
  PROVE  LET e == EnterLine(d, fs[k + r])
         IN /\ a.lines[r] = <<>> => e = Wild
            /\ a.lines[r] # <<>> =>
                 \E p \in 1 .. Len(a.lines[r]) : Entered(e, Placed(a, r, p), d, fs, k, cs)
<1> DEFINE line == fs[k + r]
           x == Clamp(d.cursorX, d.lines[line].size)
           m == [d EXCEPT !.current_line = line, !.cursorX = x]
           cell == KShift(d.cells, d.lines[line].buffer, x)
<1>1. /\ line \in 1 .. Len(d.lines) /\ line # Null
      /\ d.lines[line].buffer = IF a.lines[r] = <<>> THEN Null ELSE cs[line][1]
      /\ a.lines[r] # <<>> => IsList(d.cells, cs[line], 0)
  BY RowFacts
<1>2. /\ d \in DocSet /\ d.current_text \in 1 .. Len(d.cells)
      /\ d.screen_start \in 0 .. Len(d.lines)
  BY SoundCurrent
<1>30. d.lines \in LineHeap /\ d.cells \in CellHeap /\ Len(d.lines) \in Nat /\ Len(d.cells) \in Nat
  BY SoundLengths
<1>31. /\ Len(cs[line]) = Len(a.lines[r]) /\ Len(a.lines[r]) \in Nat
       /\ \A q \in 1 .. Len(cs[line]) : cs[line][q] \in 1 .. Len(d.cells)
  BY LineNumbers
<1>3. /\ d.lines \in LineHeap /\ d.cells \in CellHeap /\ Len(d.lines) \in Nat
      /\ d.cells \in Seq(CellSet) /\ Len(cs[line]) = Len(a.lines[r])
      /\ \A q \in 1 .. Len(cs[line]) : cs[line][q] \in 1 .. Len(d.cells)
  BY <1>30, <1>31 DEF CellHeap
<1>4. x \in Int
  <2>1. d.lines[line] \in LineSet
    BY <1>1, <1>3, HeapFacts
  <2>2. d.lines[line].size \in Int /\ d.cursorX \in Int
    BY <2>1, <1>2 DEF LineSet, DocSet
  <2> QED BY <2>2 DEF Clamp
<1> HIDE DEF x
<1>5. CASE a.lines[r] = <<>>
  <2>1. EnterLine(d, line) = Wild
    BY <1>1, <1>5 DEF EnterLine
  <2> QED BY <2>1, <1>5
<1>6. CASE a.lines[r] # <<>>
  <2>0. cs[line][1] # Null
    <3>1. Len(cs[line]) >= 1 /\ Len(cs[line]) \in Nat
      BY <1>1, <1>6, <1>30, ListFacts
    <3> QED BY <3>1, <1>3 DEF Null
  <2>1. EnterLine(d, line) = MoveTo(m, cell)
    BY <1>1, <1>6, <2>0 DEF EnterLine, x
  <2>2. PICK p \in 1 .. Len(cs[line]) : cell = cs[line][p]
    <3>1. Linking(d.cells)
      BY DEF Sound
    <3>2. \E p \in 1 .. Len(cs[line]) : KShift(d.cells, cs[line][1], x) = cs[line][p]
      <4>1. d.cells \in Seq(CellSet) /\ IsList(d.cells, cs[line], 0)
        BY <1>1, <1>3, <1>6
      <4>2. PICK s : s = cs[line]
        OBVIOUS
      <4>3. IsList(d.cells, s, 0)
        BY <4>1, <4>2
      <4>4. \E p \in 1 .. Len(s) : KShift(d.cells, s[1], x) = s[p]
        BY <3>1, <4>1, <4>3, <1>4, KShiftIs
      <4> QED BY <4>2, <4>4
    <3> QED BY <3>2, <1>1, <1>6
  <2>3. cell \in 1 .. Len(d.cells)
    BY <2>2, <1>3
  <2> HIDE DEF cell
  <2>4. /\ m \in DocSet /\ SameFrame(m, d) /\ m.cells = d.cells /\ m.current_text = d.current_text
        /\ m.current_line = line /\ m.screen_start = d.screen_start /\ m.cursorY = d.cursorY
    <3>1. line \in Nat
      BY <1>1, <1>3
    <3> HIDE DEF line
    <3> QED BY <3>1, <1>2, <1>4 DEF DocSet, SameFrame
  <2> HIDE DEF m
  <2> DEFINE e == MoveTo(m, cell)
  <2>5. /\ Moved(e, m, m.current_line, cell)
        /\ e.screen_start = m.screen_start /\ e.cursorY = m.cursorY
    <3>1. m.current_text \in 1 .. Len(m.cells) /\ cell \in 1 .. Len(m.cells)
      BY <2>3, <2>4, <1>2
    <3>2. m \in DocSet
      BY <2>4
    <3> QED BY <3>1, <3>2, MoveToIs
  <2> HIDE DEF e
  <2>6. Moved(e, d, line, cs[line][p])
    <3> HIDE DEF line
    <3>1. SameFrame(e, d)
      BY <2>4, <2>5 DEF Moved, SameFrame
    <3>2. /\ e \in DocSet /\ SameText(e.cells, d.cells) /\ e.current_line = line
          /\ e.current_text = cs[line][p]
      BY <2>2, <2>4, <2>5 DEF Moved
    <3>3. \A n \in 1 .. Len(d.cells) :
            e.cells[n].cursor = IF n = cell THEN TRUE
                                ELSE IF n = d.current_text THEN FALSE ELSE d.cells[n].cursor
      BY <2>4, <2>5 DEF Moved
    <3> QED BY <2>2, <3>1, <3>2, <3>3 DEF Moved
  <2>7. p \in 1 .. Len(a.lines[r])
    BY <1>3
  <2>8. e.screen_start \in 0 .. Len(d.lines)
    BY <2>4, <2>5, <1>2
  <2>9. Sound(e, [a EXCEPT !.row = r, !.col = p], fs, k, cs) /\ On(e)
    BY <2>6, <2>7, <2>8, MovedSound
  <2>10. /\ e.lines = d.lines /\ e.wild = d.wild
         /\ e.screen_start = d.screen_start /\ e.cursorY = d.cursorY
    BY <2>4, <2>5 DEF SameFrame, Moved
  <2>11. Entered(e, Placed(a, r, p), d, fs, k, cs)
    BY <2>9, <2>10 DEF Entered, Placed
  <2> QED BY <2>1, <2>7, <2>11, <1>6 DEF e
<1> QED BY <1>5, <1>6

ScrolledTo(e, d, y, n) ==
  /\ e \in DocSet /\ e.lines = d.lines /\ e.cells = d.cells /\ e.file_buffer = d.file_buffer
  /\ e.current_line = d.current_line /\ e.current_text = d.current_text
  /\ e.screen_start = n /\ e.wild = d.wild /\ e.cursorY = y

LEMMA Scrolled ==
  ASSUME NEW d \in DocSet, NEW y \in Int, NEW n \in Nat
  PROVE  ScrolledTo([d EXCEPT !.cursorY = y, !.screen_start = n], d, y, n)
BY DEF DocSet, ScrolledTo

LEMMA ScrollUpIs ==
  ASSUME NEW d, NEW a, NEW fs, NEW k, NEW cs, Sound(d, a, fs, k, cs), On(d)
  PROVE  LET e == ScrollUp(d)
         IN /\ Sound(e, a, fs, k, cs) /\ On(e) /\ e.wild = d.wild /\ e.lines = d.lines
            /\ e.cursorY = IF d.cursorY > 0 THEN d.cursorY - 1 ELSE 0
<1> DEFINE e == ScrollUp(d)
<1>1. /\ d \in DocSet /\ d.screen_start \in 0 .. Len(d.lines)
      /\ d.current_line \in 1 .. Len(d.lines) /\ Len(d.lines) \in Nat
  BY SoundCurrent, SoundLengths
<1>2. /\ e \in DocSet /\ e.lines = d.lines /\ e.cells = d.cells /\ e.file_buffer = d.file_buffer
      /\ e.current_line = d.current_line /\ e.current_text = d.current_text
      /\ e.screen_start \in 0 .. Len(d.lines) /\ e.wild = d.wild
      /\ e.cursorY = IF d.cursorY > 0 THEN d.cursorY - 1 ELSE 0
  <2> DEFINE y == IF d.cursorY > 0 THEN d.cursorY - 1 ELSE 0
             n == IF d.cursorY > 0 THEN d.screen_start ELSE d.current_line
  <2>1. y \in Int /\ n \in 0 .. Len(d.lines) /\ n \in Nat
    BY <1>1 DEF DocSet
  <2> DEFINE g == [d EXCEPT !.cursorY = y, !.screen_start = n]
  <2>2. e = g
    BY <1>1 DEF ScrollUp, DocSet
  <2>3. y = IF d.cursorY > 0 THEN d.cursorY - 1 ELSE 0
    OBVIOUS
  <2> HIDE DEF y, n, e
  <2>4. ScrolledTo(g, d, y, n)
    BY <2>1, <1>1, Scrolled
  <2> HIDE DEF g
  <2> QED BY <2>1, <2>2, <2>3, <2>4 DEF ScrolledTo
<1> HIDE DEF e
<1>3. Sound(e, a, fs, k, cs)
  BY <1>2, SoundSame
<1> QED BY <1>2, <1>3 DEF e, On

LEMMA ScrollDownIs ==
  ASSUME NEW d, NEW a, NEW fs, NEW k, NEW cs, Sound(d, a, fs, k, cs), On(d)
  PROVE  LET e == ScrollDown(d)
         IN \/ e = Wild /\ Off(d)
            \/ /\ Sound(e, a, fs, k, cs) /\ On(e) /\ e.wild = d.wild /\ e.lines = d.lines
               /\ e.cursorY = IF d.cursorY + 1 < Height THEN d.cursorY + 1 ELSE Height
<1> DEFINE e == ScrollDown(d)
<1>1. /\ d \in DocSet /\ d.screen_start \in 0 .. Len(d.lines) /\ Len(d.lines) \in Nat
      /\ Linking(d.lines)
  BY SoundCurrent, SoundLengths DEF Sound
<1>2. CASE d.cursorY + 1 >= Height /\ d.screen_start = Null
  <2>1. d.cursorY \in Int
    BY <1>1 DEF DocSet
  <2>2. e = Wild
    BY <1>2, <2>1, EditorSizes DEF ScrollDown
  <2> QED BY <1>2, <2>2 DEF Off
<1>3. CASE ~(d.cursorY + 1 >= Height /\ d.screen_start = Null)
  <2>1. /\ e \in DocSet /\ e.lines = d.lines /\ e.cells = d.cells
        /\ e.file_buffer = d.file_buffer
        /\ e.current_line = d.current_line /\ e.current_text = d.current_text
        /\ e.screen_start \in 0 .. Len(d.lines) /\ e.wild = d.wild
        /\ e.cursorY = IF d.cursorY + 1 < Height THEN d.cursorY + 1 ELSE Height
    <3> DEFINE y == IF d.cursorY + 1 < Height THEN d.cursorY + 1 ELSE Height
               n == IF d.cursorY + 1 < Height THEN d.screen_start
                    ELSE d.lines[d.screen_start].next
    <3>1. d.cursorY \in Int
      BY <1>1 DEF DocSet
    <3>2. d.cursorY + 1 < Height \/ d.screen_start # Null
      BY <3>1, <1>3, EditorSizes
    <3>3. y \in Int /\ n \in 0 .. Len(d.lines) /\ n \in Nat
      <4>1. d.screen_start # Null => d.lines[d.screen_start].next \in 0 .. Len(d.lines)
        BY <1>1 DEF Linking, Null
      <4> QED BY <4>1, <3>1, <3>2, <1>1, EditorSizes
    <3> DEFINE g == [d EXCEPT !.cursorY = y, !.screen_start = n]
    <3>4. e = g
      <4>1. CASE d.cursorY + 1 < Height
        <5>1. [d EXCEPT !.screen_start = d.screen_start] = d
          BY <1>1 DEF DocSet
        <5> QED BY <4>1, <5>1, <1>1 DEF ScrollDown, DocSet
      <4>2. CASE ~(d.cursorY + 1 < Height)
        BY <4>2, <3>2 DEF ScrollDown
      <4> QED BY <4>1, <4>2
    <3>5. y = IF d.cursorY + 1 < Height THEN d.cursorY + 1 ELSE Height
      OBVIOUS
    <3> HIDE DEF y, n, e
    <3>6. ScrolledTo(g, d, y, n)
      BY <3>3, <1>1, Scrolled
    <3> HIDE DEF g
    <3> QED BY <3>3, <3>4, <3>5, <3>6 DEF ScrolledTo
  <2> HIDE DEF e
  <2>2. Sound(e, a, fs, k, cs)
    BY <2>1, SoundSame
  <2> QED BY <2>1, <2>2 DEF e, On
<1> QED
  <2>1. d.cursorY \in Int
    BY <1>1 DEF DocSet
  <2> QED BY <1>2, <1>3

LEMMA MoveUp ==
  ASSUME NEW d, NEW a, Shows(d, a), On(d), ~d.wild
  PROVE  \E b \in Texts!Up(a) : Edited(ApplyMove(d, "UP"), b, d, a)
<1> DEFINE e == ApplyMove(d, "UP")
<1>1. PICK fs, k, cs : Sound(d, a, fs, k, cs)
  BY DEF Shows
<1>2. /\ d.current_line = fs[k + a.row] /\ Filled(a) /\ a \in TextSet
      /\ a.row \in 1 .. Len(a.lines) /\ Len(a.lines) \in Nat
  <2>1. Len(fs) \in Nat /\ k \in 0 .. Len(fs) - 1 /\ Len(a.lines) = Len(fs) - k
    BY <1>1, SoundLengths
  <2>2. Len(a.lines) \in Nat
    BY <2>1
  <2> QED BY <2>2, <1>1, SoundCurrent, SoundLengths
<1>3. /\ d.lines[d.current_line].prev = IF a.row = 1 THEN Null ELSE fs[k + (a.row - 1)]
  BY <1>1, <1>2, RowFacts
<1>4. CASE a.row = 1
  <2>1. e = d
    BY <1>3, <1>4 DEF ApplyMove
  <2>2. Edited(d, a, d, a)
    BY DEF Edited
  <2>3. a \in Texts!Up(a)
    BY <1>4 DEF Texts!Up
  <2> QED BY <2>1, <2>2, <2>3
<1>5. CASE a.row # 1
  <2> DEFINE r == a.row - 1
             f == EnterLine(d, fs[k + r])
  <2>1. r \in 1 .. Len(a.lines) /\ r \in 1 .. Len(a.lines) - 1 /\ a.row \in Nat /\ r = a.row - 1
    BY <1>2, <1>5
  <2>2. a.lines[r] # <<>>
    BY <2>1, <1>2 DEF Filled
  <2> HIDE DEF r
  <2>3. fs[k + r] # Null
    BY <1>1, <2>1, RowFacts
  <2>4. e = Then(f, ScrollUp)
    BY <1>3, <1>5, <2>1, <2>3 DEF ApplyMove
  <2>5. PICK p \in 1 .. Len(a.lines[r]) : Entered(f, Placed(a, r, p), d, fs, k, cs)
    BY <1>1, <2>1, <2>2, EnterLineIs
  <2> DEFINE b == Placed(a, r, p)
             g == ScrollUp(f)
  <2>6. b \in Texts!Up(a)
    BY <1>2, <1>5, <2>1, <2>2 DEF Texts!Up, Texts!At, Texts!Columns, Placed
  <2>7. b.lines = a.lines /\ b.row = r
    BY <1>2 DEF TextSet, Placed
  <2> HIDE DEF b, f
  <2>8. e = g
    BY <2>4, <2>5 DEF Then, Entered
  <2>9. /\ Sound(g, b, fs, k, cs) /\ On(g) /\ g.wild = f.wild /\ g.lines = f.lines
        /\ g.cursorY = IF f.cursorY > 0 THEN f.cursorY - 1 ELSE 0
    <3>1. Sound(f, b, fs, k, cs) /\ On(f)
      BY <2>5 DEF b, Entered
    <3> QED BY <3>1, ScrollUpIs
  <2> HIDE DEF g
  <2>10. Rows(d, a.row) => Rows(g, b.row)
    <3>1. d.cursorY \in Int /\ Len(a.lines) <= Len(d.lines) /\ Len(d.lines) \in Nat
      <4>1. d.cursorY \in Int
        BY <1>1, SoundCurrent DEF DocSet
      <4>2. /\ Len(fs) \in Nat /\ k \in 0 .. Len(fs) - 1 /\ Len(a.lines) = Len(fs) - k
            /\ Len(fs) <= Len(d.lines) /\ Len(d.lines) \in Nat
        BY <1>1, SoundLengths
      <4> QED BY <4>1, <4>2
    <3>2. g.lines = d.lines /\ g.cursorY = IF d.cursorY > 0 THEN d.cursorY - 1 ELSE 0
      BY <2>5, <2>9 DEF Entered
    <3>3. a.row \in 1 .. Len(a.lines) /\ Len(a.lines) \in Nat /\ b.row = a.row - 1
      BY <1>2, <2>1, <2>7
    <3> QED BY <3>1, <3>2, <3>3, EditorSizes DEF Rows
  <2>11. Edited(g, b, d, a)
    BY <2>5, <2>9, <2>10 DEF Edited, Shows, Entered
  <2> QED BY <2>6, <2>8, <2>11
<1> QED BY <1>4, <1>5

LEMMA TextLengths ==
  ASSUME NEW d, NEW a, NEW fs, NEW k, NEW cs, Sound(d, a, fs, k, cs)
  PROVE  /\ a.row \in 1 .. Len(a.lines) /\ Len(a.lines) \in Nat /\ Len(a.lines) >= 1
         /\ Len(a.lines) <= Len(d.lines) /\ Len(d.lines) \in Nat
         /\ d.cursorY \in Int
<1>1. /\ Len(d.lines) \in Nat /\ Len(fs) \in Nat /\ k \in 0 .. Len(fs) - 1
      /\ Len(fs) <= Len(d.lines) /\ Len(a.lines) = Len(fs) - k /\ a.row \in 1 .. Len(a.lines)
  BY SoundLengths
<1>2. d.cursorY \in Int
  BY SoundCurrent DEF DocSet
<1> QED BY <1>1, <1>2

LEMMA MoveDown ==
  ASSUME NEW d, NEW a, Shows(d, a), ~d.wild, On(d) \/ a.row # Len(a.lines)
  PROVE  LET e == ApplyMove(d, "DOWN")
         IN \/ e = Wild /\ (Below(a, 1) \/ Off(d))
            \/ e.lines = d.lines /\ \E b \in Texts!Down(a) : Edited(e, b, d, a)
<1> DEFINE e == ApplyMove(d, "DOWN")
<1>1. PICK fs, k, cs : Sound(d, a, fs, k, cs)
  BY DEF Shows
<1>2. /\ a.row \in 1 .. Len(a.lines) /\ Len(a.lines) \in Nat
      /\ Len(a.lines) <= Len(d.lines) /\ Len(d.lines) \in Nat /\ d.cursorY \in Int
  BY <1>1, TextLengths
<1>3. d.current_line = fs[k + a.row] /\ Filled(a) /\ a \in TextSet
  BY <1>1, SoundCurrent
<1>4. d.lines[d.current_line].next = IF a.row = Len(a.lines) THEN Null ELSE fs[k + (a.row + 1)]
  BY <1>1, <1>2, <1>3, RowFacts
<1>5. CASE a.row = Len(a.lines)
  <2>1. e = d
    BY <1>4, <1>5 DEF ApplyMove
  <2>2. Edited(d, a, d, a)
    BY <1>5 DEF Edited
  <2>3. a \in Texts!Down(a)
    BY <1>5 DEF Texts!Down
  <2> QED BY <2>1, <2>2, <2>3
<1>6. CASE a.row # Len(a.lines)
  <2> DEFINE r == a.row + 1
             f == EnterLine(d, fs[k + r])
  <2>1. r \in 1 .. Len(a.lines) /\ a.row \in Nat /\ r = a.row + 1
    BY <1>2, <1>6
  <2> HIDE DEF r
  <2>2. fs[k + r] # Null
    BY <1>1, <2>1, RowFacts
  <2>3. e = Then(f, ScrollDown)
    BY <1>4, <1>6, <2>1, <2>2 DEF ApplyMove
  <2>4. CASE a.lines[r] = <<>>
    <3>1. f = Wild
      BY <1>1, <2>1, <2>4, EnterLineIs
    <3>2. e = Wild
      BY <2>3, <3>1, WildFlag DEF Then
    <3>3. Below(a, 1)
      <4>1. r = Len(a.lines)
        BY <2>4, <2>1, <1>2, <1>3 DEF Filled
      <4>2. Len(a.lines) <= a.row + 1
        BY <4>1, <2>1, <1>2
      <4> QED BY <4>1, <4>2, <2>4 DEF Below, LastEmpty
    <3> QED BY <3>2, <3>3
  <2>5. CASE a.lines[r] # <<>>
    <3>1. PICK p \in 1 .. Len(a.lines[r]) : Entered(f, Placed(a, r, p), d, fs, k, cs)
      BY <1>1, <2>1, <2>5, EnterLineIs
    <3> DEFINE b == Placed(a, r, p)
               g == ScrollDown(f)
    <3>2. b \in Texts!Down(a)
      BY <1>2, <1>6, <2>1, <2>5 DEF Texts!Down, Texts!At, Texts!Columns, Placed
    <3>3. b.lines = a.lines /\ b.row = r
      BY <1>3 DEF TextSet, Placed
    <3> HIDE DEF b, f
    <3>4. e = g
      BY <2>3, <3>1 DEF Then, Entered
    <3>5. Sound(f, b, fs, k, cs) /\ On(f)
      BY <3>1 DEF Entered, b
    <3>6. \/ g = Wild /\ Off(f)
          \/ /\ Sound(g, b, fs, k, cs) /\ On(g) /\ g.wild = f.wild /\ g.lines = f.lines
             /\ g.cursorY = IF f.cursorY + 1 < Height THEN f.cursorY + 1 ELSE Height
      BY <3>5, ScrollDownIs
    <3> HIDE DEF g
    <3>7. CASE g = Wild /\ Off(f)
      BY <3>7, <3>1, <3>4 DEF Entered, Off
    <3>8. CASE /\ Sound(g, b, fs, k, cs) /\ On(g) /\ g.wild = f.wild /\ g.lines = f.lines
               /\ g.cursorY = IF f.cursorY + 1 < Height THEN f.cursorY + 1 ELSE Height
      <4>1. /\ g.lines = d.lines
            /\ g.cursorY = IF d.cursorY + 1 < Height THEN d.cursorY + 1 ELSE Height
        BY <3>1, <3>8 DEF Entered
      <4>2. a.row + 1 <= Len(a.lines) /\ b.row = a.row + 1 /\ a.row \in Nat
        BY <1>2, <2>1, <3>3
      <4>3. Rows(d, a.row) => Rows(g, b.row)
        <5>1. ASSUME Rows(d, a.row) PROVE Rows(g, b.row)
          <6>1. Len(g.lines) <= NLines /\ a.row + 1 <= NLines /\ d.cursorY - a.row >= -NLines
            BY <5>1, <1>2, <4>1, <4>2, EditorSizes DEF Rows
          <6>2. /\ g.cursorY <= Height /\ g.cursorY \in Int
                /\ g.cursorY = d.cursorY + 1 \/ g.cursorY = Height
            BY <1>2, <4>1, EditorSizes
          <6>3. g.cursorY - b.row >= -NLines
            BY <6>1, <6>2, <4>2, <1>2, EditorSizes
          <6> QED BY <6>1, <6>2, <6>3 DEF Rows
        <5> QED BY <5>1
      <4>4. Edited(g, b, d, a)
        BY <3>1, <3>8, <4>3 DEF Edited, Shows, Entered
      <4> QED BY <3>2, <3>4, <4>1, <4>4
    <3> QED BY <3>6, <3>7, <3>8
  <2> QED BY <2>4, <2>5
<1> QED BY <1>5, <1>6

\* One column aside.
LEMMA MoveAside ==
  ASSUME NEW d, NEW a, NEW fs, NEW k, NEW cs, Sound(d, a, fs, k, cs), ~d.wild,
         NEW p \in 1 .. Len(a.lines[a.row]), NEW x \in Int
  PROVE  LET e == MoveTo([d EXCEPT !.cursorX = x], cs[fs[k + a.row]][p])
         IN e.lines = d.lines /\ Edited(e, Placed(a, a.row, p), d, a)
<1> DEFINE m == [d EXCEPT !.cursorX = x]
           cell == cs[fs[k + a.row]][p]
           e == MoveTo(m, cell)
<1>1. a.row \in 1 .. Len(a.lines)
  BY TextLengths
<1>2. cell \in 1 .. Len(d.cells)
  BY <1>1, ColumnFacts
<1>3. /\ d \in DocSet /\ d.screen_start \in 0 .. Len(d.lines) /\ a \in TextSet
      /\ d.current_line = fs[k + a.row] /\ d.current_text \in 1 .. Len(d.cells)
  BY SoundCurrent
<1>4. /\ m \in DocSet /\ SameFrame(m, d) /\ m.cells = d.cells /\ m.current_text = d.current_text
      /\ m.current_line = d.current_line /\ m.screen_start = d.screen_start
      /\ m.cursorY = d.cursorY
  BY <1>3 DEF DocSet, SameFrame
<1> HIDE DEF m, cell
<1>5. m.current_text \in 1 .. Len(m.cells) /\ cell \in 1 .. Len(m.cells)
  BY <1>2, <1>3, <1>4
<1>6. /\ Moved(e, m, m.current_line, cell)
      /\ e.screen_start = m.screen_start /\ e.cursorY = m.cursorY
  BY <1>4, <1>5, MoveToIs
<1> HIDE DEF e
<1>7. Moved(e, d, fs[k + a.row], cell)
  BY <1>3, <1>4, <1>6 DEF Moved, SameFrame
<1>8. e.screen_start \in 0 .. Len(d.lines)
  BY <1>3, <1>4, <1>6
<1>9. Sound(e, Placed(a, a.row, p), fs, k, cs) /\ On(e)
  BY <1>1, <1>7, <1>8, MovedSound DEF cell, Placed
<1>10. e.lines = d.lines /\ e.wild = d.wild /\ e.cursorY = d.cursorY
  BY <1>4, <1>6, <1>7 DEF Moved, SameFrame
<1>11. Placed(a, a.row, p).lines = a.lines /\ Placed(a, a.row, p).row = a.row
  BY <1>3 DEF Placed, TextSet
<1>12. Edited(e, Placed(a, a.row, p), d, a)
  BY <1>9, <1>10, <1>11 DEF Edited, Shows, Rows
<1> QED BY <1>10, <1>12 DEF e, m, cell

LEMMA MoveLeftRight ==
  ASSUME NEW d, NEW a, Shows(d, a), On(d), ~d.wild
  PROVE  /\ \E b \in Texts!Left(a) : Edited(ApplyMove(d, "LEFT"), b, d, a)
         /\ \E b \in Texts!Right(a) : Edited(ApplyMove(d, "RIGHT"), b, d, a)
<1>1. PICK fs, k, cs : Sound(d, a, fs, k, cs)
  BY DEF Shows
<1> DEFINE s == cs[fs[k + a.row]]
<1>2. /\ d.current_text = s[a.col] /\ a \in TextSet /\ d \in DocSet
  BY <1>1, SoundCurrent
<1>3. /\ a.row \in 1 .. Len(a.lines) /\ a.col \in 1 .. Len(a.lines[a.row])
      /\ Len(a.lines[a.row]) \in Nat
  BY <1>1, SoundLengths
<1>4. /\ Len(s) = Len(a.lines[a.row])
      /\ d.cells[d.current_text].prev = IF a.col = 1 THEN Null ELSE s[a.col - 1]
      /\ d.cells[d.current_text].next = IF a.col = Len(s) THEN Null ELSE s[a.col + 1]
  <2>1. Len(s) = Len(a.lines[a.row]) /\ CellAt(d, s, a.col)
    BY <1>1, <1>3, ColumnFacts
  <2> HIDE DEF s
  <2> QED BY <2>1, <1>2 DEF CellAt
<1>5. \A p \in 1 .. Len(s) : s[p] # Null
  <2>1. \A p \in 1 .. Len(s) : s[p] \in 1 .. Len(d.cells)
    BY <1>1, <1>3, LineNumbers
  <2> QED BY <2>1 DEF Null
<1>6. Edited(d, a, d, a)
  BY DEF Edited
<1>7. d.cursorX - 1 \in Int /\ d.cursorX + 1 \in Int
  BY <1>2 DEF DocSet
<1>8. [a EXCEPT !.col = a.col] = a /\ \A p : Placed(a, a.row, p) = [a EXCEPT !.col = p]
  BY <1>2 DEF Placed, TextSet
<1> HIDE DEF s
<1>9. \E b \in Texts!Left(a) : Edited(ApplyMove(d, "LEFT"), b, d, a)
  <2>1. CASE a.col = 1
    <3>1. ApplyMove(d, "LEFT") = d
      BY <2>1, <1>4 DEF ApplyMove
    <3>2. a \in Texts!Left(a)
      BY <2>1, <1>8 DEF Texts!Left
    <3> QED BY <3>1, <3>2, <1>6
  <2>2. CASE a.col # 1
    <3>1. a.col - 1 \in 1 .. Len(s) /\ a.col - 1 \in 1 .. Len(a.lines[a.row])
      BY <2>2, <1>3, <1>4
    <3>2. ApplyMove(d, "LEFT") = MoveTo([d EXCEPT !.cursorX = d.cursorX - 1], s[a.col - 1])
      BY <2>2, <3>1, <1>4, <1>5 DEF ApplyMove
    <3>3. Placed(a, a.row, a.col - 1) \in Texts!Left(a)
      BY <2>2, <1>8 DEF Texts!Left
    <3>4. Edited(ApplyMove(d, "LEFT"), Placed(a, a.row, a.col - 1), d, a)
      BY <3>1, <3>2, <1>1, <1>7, MoveAside DEF s
    <3> QED BY <3>3, <3>4
  <2> QED BY <2>1, <2>2
<1>10. \E b \in Texts!Right(a) : Edited(ApplyMove(d, "RIGHT"), b, d, a)
  <2>1. CASE a.col = Len(s)
    <3>1. ApplyMove(d, "RIGHT") = d
      BY <2>1, <1>4 DEF ApplyMove
    <3>2. a \in Texts!Right(a)
      BY <2>1, <1>4, <1>8 DEF Texts!Right, Texts!Line
    <3> QED BY <3>1, <3>2, <1>6
  <2>2. CASE a.col # Len(s)
    <3>1. a.col + 1 \in 1 .. Len(s) /\ a.col + 1 \in 1 .. Len(a.lines[a.row])
      BY <2>2, <1>3, <1>4
    <3>2. ApplyMove(d, "RIGHT") = MoveTo([d EXCEPT !.cursorX = d.cursorX + 1], s[a.col + 1])
      BY <2>2, <3>1, <1>4, <1>5 DEF ApplyMove
    <3>3. Placed(a, a.row, a.col + 1) \in Texts!Right(a)
      BY <2>2, <1>4, <1>8 DEF Texts!Right, Texts!Line
    <3>4. Edited(ApplyMove(d, "RIGHT"), Placed(a, a.row, a.col + 1), d, a)
      BY <3>1, <3>2, <1>1, <1>7, MoveAside DEF s
    <3> QED BY <3>3, <3>4
  <2> QED BY <2>1, <2>2
<1> QED BY <1>9, <1>10

-----------------------------------------------------------------------------
(* Insertions in a line. The heap h grows by a cell, which goes to the     *)
(* place q of the list s.                                                  *)

Grown(g, h, s, q, c) ==
  /\ Len(g) = Len(h) + 1 /\ Linking(g)
  /\ IsList(g, InsertAt(s, q, Len(h) + 1), 0)
  /\ \A m \in 1 .. Len(h) : g[m].c = h[m].c /\ g[m].cursor = h[m].cursor
  /\ \A m \in 1 .. Len(h) : Outside(s, m) => g[m].next = h[m].next /\ g[m].prev = h[m].prev
  /\ g[Len(h) + 1].c = c /\ g[Len(h) + 1].cursor = FALSE

LEMMA AppendedCell ==
  ASSUME NEW h \in CellHeap, Linking(h), NEW c \in AllChars
  PROVE  LET g == Append(h, Cell(c))
         IN /\ g \in Seq(CellSet) /\ g \in CellHeap /\ Len(g) = Len(h) + 1 /\ Linking(g)
            /\ \A m \in 1 .. Len(h) : g[m] = h[m]
            /\ g[Len(h) + 1] = Cell(c)
<1> DEFINE g == Append(h, Cell(c))
<1>1. Cell(c) \in CellSet /\ Cell(c).prev = 0 /\ Cell(c).next = 0
  BY DEF Cell, CellSet, Null
<1>2. h \in Seq(CellSet) /\ Len(h) \in Nat
  BY DEF CellHeap
<1>3. /\ g \in Seq(CellSet) /\ Len(g) = Len(h) + 1 /\ \A m \in 1 .. Len(h) : g[m] = h[m]
      /\ g[Len(h) + 1] = Cell(c)
  BY <1>1, <1>2
<1> HIDE DEF g
<1>4. Linking(g)
  <2>1. ASSUME NEW m \in 1 .. Len(g) PROVE g[m].prev \in 0 .. Len(g) /\ g[m].next \in 0 .. Len(g)
    <3>1. CASE m = Len(h) + 1
      BY <3>1, <1>1, <1>2, <1>3
    <3>2. CASE m # Len(h) + 1
      <4>1. m \in 1 .. Len(h)
        BY <3>2, <1>2, <1>3
      <4>2. g[m] = h[m] /\ h[m].prev \in 0 .. Len(h) /\ h[m].next \in 0 .. Len(h)
        BY <4>1, <1>3 DEF Linking
      <4> QED BY <4>2, <1>2, <1>3
    <3> QED BY <3>1, <3>2
  <2> QED BY <2>1 DEF Linking
<1> QED BY <1>3, <1>4 DEF g, CellHeap

\* What an insertion of the new cell in the grown heap makes of the list.
LEMMA GrownCell ==
  ASSUME NEW h \in CellHeap, Linking(h), NEW c \in AllChars, NEW s, NEW q,
         NEW g \in Seq(CellSet), Len(g) = Len(h) + 1, SameData(g, Append(h, Cell(c))),
         Linking(g), IsList(g, InsertAt(s, q, Len(h) + 1), 0),
         \A m \in 1 .. Len(h) + 1 : m # Len(h) + 1 /\ Outside(s, m) =>
           /\ g[m].next = Append(h, Cell(c))[m].next
           /\ g[m].prev = Append(h, Cell(c))[m].prev
  PROVE  g \in CellHeap /\ Grown(g, h, s, q, c)
<1> DEFINE n == Append(h, Cell(c))
<1>1. /\ Len(n) = Len(h) + 1 /\ \A m \in 1 .. Len(h) : n[m] = h[m]
      /\ n[Len(h) + 1] = Cell(c)
  BY AppendedCell
<1>2. Len(h) \in Nat
  BY HeapFacts
<1>3. Cell(c).c = c /\ Cell(c).cursor = FALSE
  BY DEF Cell
<1>4. /\ SameData(g, n)
      /\ \A m \in 1 .. Len(h) + 1 : m # Len(h) + 1 /\ Outside(s, m) =>
           g[m].next = n[m].next /\ g[m].prev = n[m].prev
  OBVIOUS
<1> HIDE DEF n
<1>5. \A m \in 1 .. Len(h) + 1 : g[m].c = n[m].c /\ g[m].cursor = n[m].cursor
  BY <1>1, <1>4 DEF SameData
<1>6. \A m \in 1 .. Len(h) : m \in 1 .. Len(h) + 1 /\ m # Len(h) + 1
  BY <1>2
<1>7. Len(h) + 1 \in 1 .. Len(h) + 1
  BY <1>2
<1>8. \A m \in 1 .. Len(h) : g[m].c = h[m].c /\ g[m].cursor = h[m].cursor
  BY <1>1, <1>5, <1>6
<1>9. \A m \in 1 .. Len(h) : Outside(s, m) => g[m].next = h[m].next /\ g[m].prev = h[m].prev
  BY <1>1, <1>4, <1>6
<1>10. g[Len(h) + 1].c = c /\ g[Len(h) + 1].cursor = FALSE
  BY <1>1, <1>3, <1>5, <1>7
<1> QED BY <1>8, <1>9, <1>10 DEF Grown, CellHeap

LEMMA AppendedList ==
  ASSUME NEW h \in CellHeap, Linking(h), NEW c \in AllChars, NEW s, IsList(h, s, 0)
  PROVE  LET g == Append(h, Cell(c))
         IN IsList(g, s, 0) /\ Outside(s, Len(g)) /\ Len(g) \in 1 .. Len(g) /\ Len(g) = Len(h) + 1
<1> DEFINE g == Append(h, Cell(c))
<1>1. Len(g) = Len(h) + 1 /\ \A m \in 1 .. Len(h) : g[m] = h[m]
  BY AppendedCell
<1>2. Len(h) \in Nat
  BY HeapFacts
<1> HIDE DEF g
<1>3. \A i \in 1 .. Len(s) : s[i] \in 1 .. Len(h)
  BY <1>2, ListFacts
<1>4. Len(g) \in Nat /\ Len(h) <= Len(g)
  BY <1>1, <1>2
<1>5. \A i \in 1 .. Len(s) : g[s[i]].next = h[s[i]].next
  BY <1>1, <1>3
<1>6. \A i \in 0 + 1 .. Len(s) : g[s[i]].prev = h[s[i]].prev
  BY <1>1, <1>3
<1>7. IsList(g, s, 0)
  BY <1>2, <1>4, <1>5, <1>6, ListKept
<1>8. Outside(s, Len(g))
  BY <1>1, <1>2, <1>3 DEF Outside
<1>9. Len(g) \in 1 .. Len(g)
  BY <1>1, <1>2
<1> QED BY <1>1, <1>7, <1>8, <1>9 DEF g

LEMMA CellBefore ==
  ASSUME NEW h \in CellHeap, Linking(h), NEW c \in AllChars, NEW s, IsList(h, s, 0),
         NEW i \in 1 .. Len(s)
  PROVE  LET n == Append(h, Cell(c))
             g == InsertBefore(n, s[i], Len(n))
         IN g \in CellHeap /\ Grown(g, h, s, i, c)
<1> DEFINE n == Append(h, Cell(c))
           g == InsertBefore(n, s[i], Len(n))
<1>1. n \in Seq(CellSet) /\ Linking(n)
  BY AppendedCell
<1>2. IsList(n, s, 0) /\ Outside(s, Len(n)) /\ Len(n) \in 1 .. Len(n) /\ Len(n) = Len(h) + 1
  BY AppendedList
<1>3. NodeSet(CellSet)
  BY NodeSets
<1> HIDE DEF n
<1>4. /\ g \in Seq(CellSet) /\ Len(g) = Len(n) /\ SameData(g, n) /\ Linking(g)
      /\ IsList(g, InsertAt(s, i, Len(n)), 0)
      /\ \A m \in 1 .. Len(n) : m # Len(n) /\ Outside(s, m) =>
           g[m].next = n[m].next /\ g[m].prev = n[m].prev
  BY <1>1, <1>2, <1>3, ListInsertBefore
<1> HIDE DEF g
<1>5. g \in CellHeap /\ Grown(g, h, s, i, c)
  BY <1>2, <1>4, GrownCell DEF n
<1> QED BY <1>5 DEF g, n

LEMMA CellAfter ==
  ASSUME NEW h \in CellHeap, Linking(h), NEW c \in AllChars, NEW s, IsList(h, s, 0),
         NEW i \in 1 .. Len(s)
  PROVE  LET n == Append(h, Cell(c))
             g == InsertAfter(n, s[i], Len(n))
         IN g \in CellHeap /\ Grown(g, h, s, i + 1, c)
<1> DEFINE n == Append(h, Cell(c))
           g == InsertAfter(n, s[i], Len(n))
<1>1. n \in Seq(CellSet) /\ Linking(n)
  BY AppendedCell
<1>2. IsList(n, s, 0) /\ Outside(s, Len(n)) /\ Len(n) \in 1 .. Len(n) /\ Len(n) = Len(h) + 1
  BY AppendedList
<1>3. NodeSet(CellSet)
  BY NodeSets
<1>6. i \in 0 + 1 .. Len(s)
  OBVIOUS
<1> HIDE DEF n
<1>4. /\ g \in Seq(CellSet) /\ Len(g) = Len(n) /\ SameData(g, n) /\ Linking(g)
      /\ IsList(g, InsertAt(s, i + 1, Len(n)), 0)
      /\ \A m \in 1 .. Len(n) : m # Len(n) /\ Outside(s, m) =>
           g[m].next = n[m].next /\ g[m].prev = n[m].prev
  <2>1. PICK z : z = 0
    OBVIOUS
  <2>2. IsList(n, s, z) /\ i \in z + 1 .. Len(s)
    BY <2>1, <1>2, <1>6
  <2>3. /\ g \in Seq(CellSet) /\ Len(g) = Len(n) /\ SameData(g, n) /\ Linking(g)
        /\ IsList(g, InsertAt(s, i + 1, Len(n)), z)
        /\ \A m \in 1 .. Len(n) : m # Len(n) /\ Outside(s, m) =>
             g[m].next = n[m].next /\ g[m].prev = n[m].prev
    BY <2>2, <1>1, <1>2, <1>3, ListInsertAfter
  <2> QED BY <2>1, <2>3
<1> HIDE DEF g
<1>5. g \in CellHeap /\ Grown(g, h, s, i + 1, c)
  BY <1>2, <1>4, GrownCell DEF n
<1> QED BY <1>5 DEF g, n

LEMMA CellListFacts ==
  ASSUME NEW h \in CellHeap, NEW cs, CellLists(h, cs)
  PROVE  /\ Len(cs) \in Nat /\ DOMAIN cs = 1 .. Len(cs)
         /\ \A l \in 1 .. Len(cs) : /\ cs[l] \in Seq(1 .. Len(h)) /\ Len(cs[l]) \in Nat
                                    /\ \A q \in 1 .. Len(cs[l]) : cs[l][q] \in 1 .. Len(h)
<1>1. cs \in Seq(Seq(1 .. Len(h)))
  BY DEF CellLists
<1>2. \A l \in 1 .. Len(cs) : cs[l] \in Seq(1 .. Len(h))
  BY <1>1
<1>3. ASSUME NEW l \in 1 .. Len(cs)
      PROVE  /\ cs[l] \in Seq(1 .. Len(h)) /\ Len(cs[l]) \in Nat
             /\ \A q \in 1 .. Len(cs[l]) : cs[l][q] \in 1 .. Len(h)
  BY <1>2
<1> QED BY <1>1, <1>3

\* The list L of cs becomes t.
Replaced(n, cs, L, t) ==
  Len(n) = Len(cs) /\ \A l \in 1 .. Len(cs) : n[l] = IF l = L THEN t ELSE cs[l]

LEMMA GrownLists ==
  ASSUME NEW h \in CellHeap, NEW g \in CellHeap, NEW cs, CellLists(h, cs),
         NEW L \in 1 .. Len(cs), NEW q \in 1 .. Len(cs[L]) + 1, NEW c,
         Grown(g, h, cs[L], q, c)
  PROVE  LET t == InsertAt(cs[L], q, Len(h) + 1)
             n == [cs EXCEPT ![L] = t]
         IN CellLists(g, n) /\ Replaced(n, cs, L, t)
<1> DEFINE s == cs[L]
           t == InsertAt(s, q, Len(h) + 1)
           n == [cs EXCEPT ![L] = t]
<1>1. /\ Len(cs) \in Nat /\ DOMAIN cs = 1 .. Len(cs) /\ cs \in Seq(Seq(1 .. Len(h)))
      /\ \A l \in 1 .. Len(cs) : /\ cs[l] \in Seq(1 .. Len(h))
                                 /\ \A p \in 1 .. Len(cs[l]) : cs[l][p] \in 1 .. Len(h)
  BY CellListFacts DEF CellLists
<1>2. Len(h) \in Nat /\ Len(g) = Len(h) + 1
  BY HeapFacts DEF Grown
<1>3. IsList(g, t, 0)
  BY DEF Grown
<1>4. /\ s \in Seq(1 .. Len(h) + 1) /\ Len(h) + 1 \in 1 .. Len(h) + 1 /\ Len(s) \in Nat
      /\ q \in 1 .. Len(s) + 1
  BY <1>1, <1>2
<1>5. /\ t \in Seq(1 .. Len(h) + 1) /\ Len(t) = Len(s) + 1
      /\ \A j \in 1 .. Len(s) + 1 :
           t[j] = IF j < q THEN s[j] ELSE IF j = q THEN Len(h) + 1 ELSE s[j - 1]
  <2>1. q \in 1 .. Len(s) + 1
    OBVIOUS
  <2> DEFINE N == 1 .. Len(h) + 1
             x == Len(h) + 1
  <2>2. s \in Seq(N) /\ x \in N
    BY <1>4
  <2> HIDE DEF s, N, x
  <2>3. /\ InsertAt(s, q, x) \in Seq(N) /\ Len(InsertAt(s, q, x)) = Len(s) + 1
        /\ \A j \in 1 .. Len(s) + 1 :
             InsertAt(s, q, x)[j] = IF j < q THEN s[j] ELSE IF j = q THEN x ELSE s[j - 1]
    BY <2>1, <2>2, InsertAtIs
  <2> QED BY <2>3 DEF N, x
<1>6. \A l, m \in 1 .. Len(cs) : \A p \in 1 .. Len(cs[l]), r \in 1 .. Len(cs[m]) :
        cs[l][p] = cs[m][r] => l = m
  BY DEF CellLists
\* A cell of t is the new one, or one of s.
<1>7. ASSUME NEW p \in 1 .. Len(t)
      PROVE  t[p] = Len(h) + 1 \/ \E j \in 1 .. Len(s) : t[p] = s[j]
  <2> HIDE DEF s, t
  <2>1. CASE p < q
    <3>1. p \in 1 .. Len(s) /\ p \in 1 .. Len(s) + 1
      BY <2>1, <1>4, <1>5
    <3> QED BY <3>1, <2>1, <1>5
  <2>2. CASE p = q
    BY <2>2, <1>4, <1>5
  <2>3. CASE p > q
    <3>1. p - 1 \in 1 .. Len(s) /\ p \in 1 .. Len(s) + 1 /\ ~(p < q) /\ p # q
      BY <2>3, <1>4, <1>5
    <3> QED BY <3>1, <1>5
  <2> QED BY <2>1, <2>2, <2>3, <1>4, <1>5
<1> HIDE DEF t
<1>8. /\ n \in Seq(Seq(1 .. Len(h) + 1)) /\ Len(n) = Len(cs)
      /\ \A l \in 1 .. Len(cs) : n[l] = IF l = L THEN t ELSE cs[l]
  <2>1. \A l \in 1 .. Len(cs) : cs[l] \in Seq(1 .. Len(h) + 1)
    <3>1. ASSUME NEW l \in 1 .. Len(cs) PROVE cs[l] \in Seq(1 .. Len(h) + 1)
      BY <1>1, <1>2
    <3> QED BY <3>1
  <2> DEFINE S == Seq(1 .. Len(h) + 1)
  <2>2. t \in S /\ \A l \in 1 .. Len(cs) : cs[l] \in S
    BY <1>5, <2>1
  <2>3. DOMAIN cs = 1 .. Len(cs) /\ Len(cs) \in Nat
    BY <1>1
  <2> HIDE DEF S, s
  <2>4. n \in [1 .. Len(cs) -> S] /\ \A l \in 1 .. Len(cs) : n[l] = IF l = L THEN t ELSE cs[l]
    <3>1. cs \in Seq(Seq(1 .. Len(h)))
      BY <1>1
    <3> QED BY <2>2, <2>3, <3>1
  <2> HIDE DEF n
  <2>5. n \in Seq(S) /\ Len(n) = Len(cs)
    BY <2>3, <2>4
  <2> QED BY <2>4, <2>5 DEF S
<1> HIDE DEF n
<1>9. ASSUME NEW l \in 1 .. Len(n) PROVE n[l] = <<>> \/ IsList(g, n[l], 0)
  <2>1. CASE l = L
    BY <2>1, <1>3, <1>8
  <2>2. CASE l # L /\ cs[l] # <<>>
    <3>1. n[l] = cs[l] /\ IsList(h, cs[l], 0) /\ l \in 1 .. Len(cs)
      BY <2>2, <1>8 DEF CellLists
    <3>2. ASSUME NEW i \in 1 .. Len(cs[l])
          PROVE  cs[l][i] \in 1 .. Len(h) /\ Outside(s, cs[l][i])
      <4>1. cs[l][i] \in 1 .. Len(h)
        BY <1>1, <3>1
      <4>2. ASSUME NEW j \in 1 .. Len(s) PROVE s[j] # cs[l][i]
        BY <1>6, <3>1, <2>2
      <4> QED BY <4>1, <4>2 DEF Outside
    <3> HIDE DEF s
    <3>3. \A i \in 1 .. Len(cs[l]) : /\ g[cs[l][i]].next = h[cs[l][i]].next
                                     /\ g[cs[l][i]].prev = h[cs[l][i]].prev
      BY <3>2 DEF Grown, s
    <3>4. \A i \in 1 .. Len(cs[l]) : g[cs[l][i]].next = h[cs[l][i]].next
      BY <3>3
    <3>5. \A i \in 0 + 1 .. Len(cs[l]) : g[cs[l][i]].prev = h[cs[l][i]].prev
      BY <3>3
    <3>6. Len(g) \in Nat /\ Len(h) <= Len(g)
      BY <1>2
    <3> QED BY <1>2, <3>1, <3>4, <3>5, <3>6, ListKept
  <2>3. CASE l # L /\ cs[l] = <<>>
    BY <2>3, <1>8
  <2> QED BY <2>1, <2>2, <2>3
<1>10. ASSUME NEW l \in 1 .. Len(n), NEW m \in 1 .. Len(n),
              NEW p \in 1 .. Len(n[l]), NEW r \in 1 .. Len(n[m]), n[l][p] = n[m][r]
       PROVE  l = m
  <2>0. l \in 1 .. Len(cs) /\ m \in 1 .. Len(cs)
    BY <1>8
  <2>1. CASE l # L /\ m # L
    <3>1. n[l] = cs[l] /\ n[m] = cs[m]
      BY <2>0, <2>1, <1>8
    <3> QED BY <3>1, <2>0, <1>6, <1>10
  <2>2. CASE l = L /\ m # L
    <3>1. n[l] = t /\ n[m] = cs[m] /\ cs[m][r] \in 1 .. Len(h) /\ r \in 1 .. Len(cs[m])
      BY <2>0, <2>2, <1>1, <1>8
    <3>2. t[p] # Len(h) + 1
      <4>1. t[p] \in 1 .. Len(h)
        BY <3>1, <1>10
      <4> QED BY <4>1, <1>2
    <3>3. PICK j \in 1 .. Len(s) : t[p] = s[j]
      BY <3>1, <3>2, <1>7
    <3> QED BY <3>1, <3>3, <2>0, <2>2, <1>6, <1>10
  <2>3. CASE l # L /\ m = L
    <3>1. n[m] = t /\ n[l] = cs[l] /\ cs[l][p] \in 1 .. Len(h) /\ p \in 1 .. Len(cs[l])
      BY <2>0, <2>3, <1>1, <1>8
    <3>2. t[r] # Len(h) + 1
      BY <3>1, <1>2, <1>10
    <3>3. PICK j \in 1 .. Len(s) : t[r] = s[j]
      BY <3>1, <3>2, <1>7
    <3> QED BY <3>1, <3>3, <2>0, <2>3, <1>6, <1>10
  <2> QED BY <2>1, <2>2, <2>3
<1>11. CellLists(g, n)
  BY <1>2, <1>8, <1>9, <1>10 DEF CellLists
<1>12. Replaced(n, cs, L, t)
  BY <1>8 DEF Replaced
<1> QED BY <1>11, <1>12 DEF n, t

-----------------------------------------------------------------------------
(* A line whose characters change: its cells were cs[L], they are t.       *)

SameLinks(g, h) ==
  Len(g) = Len(h) /\ \A m \in 1 .. Len(h) : g[m].prev = h[m].prev /\ g[m].next = h[m].next

Retyped(a, line, col) == [a EXCEPT !.lines[a.row] = line, !.col = col]

Retypes(e, d, L, cs, n, t, line, col) ==
  /\ e \in DocSet /\ Linking(e.cells) /\ CellLists(e.cells, n)
  /\ Replaced(n, cs, L, t)
  /\ line \in Seq(AllChars) /\ Len(t) = Len(line) /\ col \in 1 .. Len(line)
  /\ \A q \in 1 .. Len(line) : line[q] = e.cells[t[q]].c
  /\ \A m \in 1 .. Len(d.cells) : Outside(cs[L], m) =>
       e.cells[m].c = d.cells[m].c /\ e.cells[m].cursor = d.cells[m].cursor
  /\ \A q \in 1 .. Len(t) : e.cells[t[q]].cursor => t[q] = e.current_text
  /\ SameLinks(e.lines, d.lines)
  /\ \A l \in 1 .. Len(d.lines) : e.lines[l].buffer = IF l = L THEN t[1] ELSE d.lines[l].buffer
  /\ e.file_buffer = d.file_buffer /\ e.current_line = L /\ e.current_text = t[col]
  /\ e.screen_start \in 0 .. Len(d.lines)

IsRetyped(b, a, line, col) ==
  /\ b \in TextSet /\ b.row = a.row /\ b.col = col /\ Len(b.lines) = Len(a.lines)
  /\ \A i \in 1 .. Len(a.lines) : b.lines[i] = IF i = a.row THEN line ELSE a.lines[i]
  /\ Filled(a) => Filled(b)

LEMMA RetypedIs ==
  ASSUME NEW a \in TextSet, a.row \in 1 .. Len(a.lines), Len(a.lines) \in Nat,
         NEW line \in Seq(AllChars), line # <<>>, NEW col \in Nat
  PROVE  IsRetyped(Retyped(a, line, col), a, line, col)
<1> DEFINE new == [a.lines EXCEPT ![a.row] = line]
           b == [a EXCEPT !.lines = new, !.col = col]
           S == Seq(AllChars)
<1>1. a.lines \in Seq(S) /\ line \in S
  BY DEF TextSet
<1> HIDE DEF S
<1>2. /\ new \in Seq(S) /\ Len(new) = Len(a.lines)
      /\ \A i \in 1 .. Len(a.lines) : new[i] = IF i = a.row THEN line ELSE a.lines[i]
  BY <1>1
<1>3. Retyped(a, line, col) = b
  BY DEF Retyped
<1> HIDE DEF new
<1>4. b \in TextSet /\ b.row = a.row /\ b.col = col /\ b.lines = new
  BY <1>2 DEF TextSet, S
<1> HIDE DEF b
<1>5. Filled(a) => Filled(b)
  BY <1>2, <1>4 DEF Filled
<1> QED BY <1>2, <1>3, <1>4, <1>5 DEF IsRetyped

LEMMA SameLinksKept ==
  ASSUME NEW h, Len(h) \in Nat, NEW g, SameLinks(g, h), Linking(h),
         NEW s, NEW k, IsList(h, s, k)
  PROVE  Linking(g) /\ IsList(g, s, k)
<1>1. Linking(g) /\ Len(g) = Len(h)
  BY DEF Linking, SameLinks
<1>2. \A i \in 1 .. Len(s) : s[i] \in 1 .. Len(h)
  BY ListFacts
<1>3. k \in Nat
  BY ListFacts
<1>4. \A i \in 1 .. Len(s) : g[s[i]].next = h[s[i]].next
  BY <1>2 DEF SameLinks
<1>5. \A i \in k + 1 .. Len(s) : g[s[i]].prev = h[s[i]].prev
  BY <1>2, <1>3 DEF SameLinks
<1>6. Len(g) \in Nat /\ Len(h) <= Len(g)
  BY <1>1
<1> QED BY <1>1, <1>4, <1>5, <1>6, ListKept

LEMMA RetypedSound ==
  ASSUME NEW d, NEW a, NEW fs, NEW k, NEW cs, Sound(d, a, fs, k, cs),
         NEW e, NEW n, NEW t, NEW line, NEW col,
         Retypes(e, d, RowLine(a, fs, k), cs, n, t, line, col)
  PROVE  /\ Sound(e, Retyped(a, line, col), fs, k, n)
         /\ Retyped(a, line, col).row = a.row
<1> DEFINE L == fs[k + a.row]
           b == Retyped(a, line, col)
<1>1. /\ Len(fs) \in Nat /\ k \in 0 .. Len(fs) - 1 /\ Len(cs) = Len(d.lines)
      /\ Len(d.lines) \in Nat /\ Len(a.lines) = Len(fs) - k /\ a.row \in 1 .. Len(a.lines)
  BY SoundLengths
<1>2. /\ a \in TextSet /\ Filled(a) /\ d.current_line = L /\ d.current_text = cs[L][a.col]
      /\ d \in DocSet
  BY SoundCurrent
<1>3. /\ Linking(d.lines) /\ IsList(d.lines, fs, k) /\ d.file_buffer = fs[1]
      /\ CellLists(d.cells, cs) /\ Buffers(d.lines, cs)
      /\ Reads(d.cells, a.lines, fs, k, cs) /\ OneFlag(d, fs, k, cs)
  BY DEF Sound
<1>20. L \in 1 .. Len(cs) /\ a.col \in 1 .. Len(cs[L])
  BY RowNumbers DEF RowLine
<1> HIDE DEF L
<1>4. Retypes(e, d, L, cs, n, t, line, col)
  BY DEF L, RowLine
<1>5. line # <<>> /\ col \in Nat /\ Len(line) \in Nat /\ Len(t) \in Nat /\ 1 \in 1 .. Len(t)
  BY <1>4 DEF Retypes, Replaced
<1>6. /\ b \in TextSet /\ b.row = a.row /\ b.col = col /\ Len(b.lines) = Len(a.lines)
      /\ \A i \in 1 .. Len(a.lines) : b.lines[i] = IF i = a.row THEN line ELSE a.lines[i]
      /\ Filled(b)
  <2>1. Len(a.lines) \in Nat
    BY <1>1
  <2>2. line \in Seq(AllChars)
    BY <1>4 DEF Retypes, Replaced
  <2>3. IsRetyped(b, a, line, col)
    BY <2>1, <2>2, <1>1, <1>2, <1>5, RetypedIs
  <2> HIDE DEF b
  <2> QED BY <2>3, <1>2 DEF IsRetyped
<1> HIDE DEF b
<1>7. Linking(e.lines) /\ IsList(e.lines, fs, k)
  BY <1>1, <1>3, <1>4, SameLinksKept DEF Retypes, Replaced
<1>8. Len(e.lines) = Len(d.lines)
  BY <1>4 DEF Retypes, Replaced, SameLinks
<1>9. Buffers(e.lines, n)
  <2>1. ASSUME NEW l \in 1 .. Len(e.lines)
        PROVE  e.lines[l].buffer = IF n[l] = <<>> THEN Null ELSE n[l][1]
    <3>1. l \in 1 .. Len(cs) /\ l \in 1 .. Len(d.lines)
      BY <1>1, <1>8
    <3>2. CASE l = L
      <4>1. t # <<>>
        BY <1>5
      <4> QED BY <3>1, <3>2, <4>1, <1>4 DEF Retypes, Replaced
    <3>3. CASE l # L
      BY <3>1, <3>3, <1>3, <1>4 DEF Retypes, Replaced, Buffers
    <3> QED BY <3>2, <3>3
  <2> QED BY <2>1, <1>1, <1>4, <1>8 DEF Buffers, Retypes, Replaced
\* The lines of the text.
<1>10. ASSUME NEW i \in 1 .. Len(a.lines)
       PROVE  fs[k + i] \in 1 .. Len(cs) /\ (fs[k + i] = L <=> i = a.row)
  <2>1. fs[k + i] \in 1 .. Len(cs) /\ k + i \in 1 .. Len(fs) /\ k + a.row \in 1 .. Len(fs)
    BY <1>1, LineNumbers
  <2>2. fs[k + i] = L => k + i = k + a.row
    BY <2>1, <1>3 DEF L, IsList, Injective
  <2>3. (k + i = k + a.row <=> i = a.row) /\ (i = a.row => fs[k + i] = L)
    BY <1>1 DEF L
  <2> QED BY <2>1, <2>2, <2>3
\* The cells of the other lines.
<1>11. ASSUME NEW l \in 1 .. Len(cs), l # L, NEW q \in 1 .. Len(cs[l])
       PROVE  /\ cs[l][q] \in 1 .. Len(d.cells) /\ Outside(cs[L], cs[l][q])
              /\ e.cells[cs[l][q]].c = d.cells[cs[l][q]].c
              /\ e.cells[cs[l][q]].cursor = d.cells[cs[l][q]].cursor
  <2>1. cs[l][q] \in 1 .. Len(d.cells)
    <3>1. d.cells \in CellHeap
      BY <1>2 DEF DocSet
    <3> QED BY <3>1, <1>3, CellListFacts
  <2>2. ASSUME NEW p \in 1 .. Len(cs[L]) PROVE cs[L][p] # cs[l][q]
    BY <1>3, <1>11, <1>20 DEF CellLists
  <2>3. Outside(cs[L], cs[l][q])
    BY <2>2 DEF Outside
  <2> QED BY <2>1, <2>3, <1>4 DEF Retypes, Replaced
<1>12. Reads(e.cells, b.lines, fs, k, n)
  <2>1. ASSUME NEW i \in 1 .. Len(b.lines)
        PROVE  /\ Len(b.lines[i]) = Len(n[fs[k + i]])
               /\ \A q \in 1 .. Len(b.lines[i]) : b.lines[i][q] = e.cells[n[fs[k + i]][q]].c
    <3>1. i \in 1 .. Len(a.lines)
      BY <1>6
    <3>2. CASE i = a.row
      <4>1. b.lines[i] = line /\ n[fs[k + i]] = t
        BY <3>1, <3>2, <1>4, <1>6, <1>10 DEF Retypes, Replaced
      <4> QED BY <4>1, <1>4 DEF Retypes, Replaced
    <3>3. CASE i # a.row
      <4>1. b.lines[i] = a.lines[i] /\ n[fs[k + i]] = cs[fs[k + i]] /\ fs[k + i] \in 1 .. Len(cs)
            /\ fs[k + i] # L
        BY <3>1, <3>3, <1>4, <1>6, <1>10 DEF Retypes, Replaced
      <4>2. /\ Len(a.lines[i]) = Len(cs[fs[k + i]])
            /\ \A q \in 1 .. Len(a.lines[i]) : a.lines[i][q] = d.cells[cs[fs[k + i]][q]].c
        BY <3>1, <1>3 DEF Reads
      <4> QED BY <4>1, <4>2, <1>11, SMTT(30)
    <3> QED BY <3>2, <3>3
  <2> QED BY <2>1, <1>1, <1>6 DEF Reads
<1>13. InPlace(e, b, fs, k, n)
  <2>1. b.lines[b.row] = line /\ n[L] = t /\ fs[k + b.row] = L
    BY <1>1, <1>4, <1>6, <1>20 DEF Retypes, Replaced, L
  <2> QED BY <2>1, <1>1, <1>4, <1>6 DEF InPlace, Retypes, Replaced
<1>14. OneFlag(e, fs, k, n)
  <2>1. ASSUME NEW i \in 1 .. Len(fs) - k, NEW q \in 1 .. Len(n[fs[k + i]]),
               e.cells[n[fs[k + i]][q]].cursor
        PROVE  n[fs[k + i]][q] = e.current_text
    <3>1. i \in 1 .. Len(a.lines)
      BY <1>1
    <3>2. CASE i = a.row
      <4>1. n[fs[k + i]] = t
        BY <3>1, <3>2, <1>4, <1>10 DEF Retypes, Replaced
      <4> QED BY <4>1, <2>1, <1>4 DEF Retypes, Replaced
    <3>3. CASE i # a.row
      <4> DEFINE l == fs[k + i]
      <4>1. n[l] = cs[l] /\ l \in 1 .. Len(cs) /\ l # L
        BY <3>1, <3>3, <1>4, <1>10 DEF Retypes, Replaced
      <4>2. q \in 1 .. Len(cs[l]) /\ Outside(cs[L], cs[l][q]) /\ d.cells[cs[l][q]].cursor
        BY <4>1, <2>1, <1>11
      <4>3. cs[l][q] = d.current_text
        BY <4>2, <1>3 DEF OneFlag
      <4> QED BY <4>2, <4>3, <1>20, <1>2 DEF Outside
    <3> QED BY <3>2, <3>3
  <2> QED BY <2>1 DEF OneFlag
<1>15. /\ e \in DocSet /\ Linking(e.cells) /\ CellLists(e.cells, n)
       /\ e.file_buffer = fs[1] /\ e.screen_start \in 0 .. Len(e.lines)
  BY <1>3, <1>4, <1>8 DEF Retypes, Replaced
<1>16. Sound(e, b, fs, k, n)
  BY <1>6, <1>7, <1>9, <1>12, <1>13, <1>14, <1>15 DEF Sound
<1> QED BY <1>6, <1>16 DEF b

LEMMA GrownRetypes ==
  ASSUME NEW d, NEW a, NEW fs, NEW k, NEW cs, Sound(d, a, fs, k, cs), NEW c \in AllChars,
         NEW q \in 1 .. Len(a.lines[a.row]) + 1, NEW e \in DocSet,
         Grown(e.cells, d.cells, cs[RowLine(a, fs, k)], q, c), SameLinks(e.lines, d.lines),
         \A l \in 1 .. Len(d.lines) :
           e.lines[l].buffer = IF l = RowLine(a, fs, k) /\ q = 1 THEN Len(d.cells) + 1
                               ELSE d.lines[l].buffer,
         e.file_buffer = d.file_buffer, e.current_line = d.current_line,
         e.current_text = d.current_text, e.screen_start = d.screen_start
  PROVE  \E n, t : Retypes(e, d, RowLine(a, fs, k), cs, n, t, InsertAt(a.lines[a.row], q, c),
                           IF q <= a.col THEN a.col + 1 ELSE a.col)
<1> DEFINE L == fs[k + a.row]
           s == cs[L]
           N == Len(d.cells) + 1
           t == InsertAt(s, q, N)
           n == [cs EXCEPT ![L] = t]
           old == a.lines[a.row]
           line == InsertAt(old, q, c)
           col == IF q <= a.col THEN a.col + 1 ELSE a.col
<1>1. /\ a.row \in 1 .. Len(a.lines) /\ a.col \in 1 .. Len(old) /\ Len(old) \in Nat
      /\ d.cells \in CellHeap /\ Len(cs) = Len(d.lines) /\ Len(d.cells) \in Nat
  BY SoundLengths
<1>2. L \in 1 .. Len(cs) /\ Len(s) = Len(old) /\ \A j \in 1 .. Len(s) : s[j] \in 1 .. Len(d.cells)
  <2>1. L \in 1 .. Len(cs) /\ Len(s) = Len(old)
    BY <1>1, LineNumbers, SMTT(20)
  <2>2. \A j \in 1 .. Len(s) : s[j] \in 1 .. Len(d.cells)
    BY <1>1, LineNumbers, SMTT(20)
  <2> QED BY <2>1, <2>2
<1>3. /\ d.current_line = L /\ d.current_text = s[a.col] /\ d.screen_start \in 0 .. Len(d.lines)
      /\ a \in TextSet
  BY SoundCurrent
<1>4. /\ CellLists(d.cells, cs) /\ Buffers(d.lines, cs) /\ Reads(d.cells, a.lines, fs, k, cs)
      /\ OneFlag(d, fs, k, cs)
  BY DEF Sound
<1>5. old \in Seq(AllChars)
  <2> DEFINE S == Seq(AllChars)
  <2>1. a.lines \in Seq(S)
    BY <1>3 DEF TextSet
  <2> HIDE DEF S
  <2>2. a.lines[a.row] \in S
    BY <2>1, <1>1
  <2> QED BY <2>2 DEF S
<1>6. \A j \in 1 .. Len(s) : old[j] = d.cells[s[j]].c
  BY <1>1, <1>2, <1>4 DEF Reads
<1>7. \A j \in 1 .. Len(s) : d.cells[s[j]].cursor => s[j] = d.current_text
  <2>1. a.row \in 1 .. Len(fs) - k
    BY <1>1, SoundLengths
  <2> QED BY <2>1, <1>4 DEF OneFlag
<1>8. d.lines[L].buffer = s[1]
  <2>1. s # <<>>
    BY <1>1, <1>2
  <2> QED BY <2>1, <1>1, <1>2, <1>4 DEF Buffers
<1>9. e.cells \in CellHeap /\ Grown(e.cells, d.cells, s, q, c) /\ Linking(e.cells)
  BY DEF DocSet, Grown, RowLine
<1>10. CellLists(e.cells, n) /\ Replaced(n, cs, L, t)
  <2>1. q \in 1 .. Len(cs[L]) + 1
    BY <1>2
  <2> HIDE DEF L
  <2> QED BY <2>1, <1>1, <1>2, <1>4, <1>9, GrownLists
<1>11. /\ line \in Seq(AllChars) /\ Len(line) = Len(old) + 1
       /\ \A j \in 1 .. Len(old) + 1 :
            line[j] = IF j < q THEN old[j] ELSE IF j = q THEN c ELSE old[j - 1]
  <2>1. q \in 1 .. Len(old) + 1
    OBVIOUS
  <2> HIDE DEF old
  <2> QED BY <2>1, <1>5, InsertAtIs
<1>12. /\ Len(t) = Len(s) + 1
       /\ \A j \in 1 .. Len(s) + 1 :
            t[j] = IF j < q THEN s[j] ELSE IF j = q THEN N ELSE s[j - 1]
  <2> DEFINE S == Nat
  <2>1. s \in Seq(S) /\ N \in S /\ q \in 1 .. Len(s) + 1
    <3>1. s \in Seq(1 .. Len(d.cells))
      BY <1>1, <1>2, <1>4, CellListFacts
    <3>2. s \in Seq(Nat)
      BY <3>1
    <3> QED BY <3>2, <1>1, <1>2
  <2> HIDE DEF s, N, S
  <2> QED BY <2>1, InsertAtIs
<1>13. \A m \in 1 .. Len(d.cells) :
         e.cells[m].c = d.cells[m].c /\ e.cells[m].cursor = d.cells[m].cursor
  BY <1>9 DEF Grown
<1>14. e.cells[N].c = c /\ e.cells[N].cursor = FALSE
  BY <1>9 DEF Grown
<1> HIDE DEF L, s, N, t, n, old, line
<1>15. ASSUME NEW j \in 1 .. Len(t)
       PROVE  line[j] = e.cells[t[j]].c /\ (e.cells[t[j]].cursor => t[j] = e.current_text)
  <2>1. CASE j < q
    <3>1. j \in 1 .. Len(s) /\ t[j] = s[j] /\ line[j] = old[j]
      BY <2>1, <1>1, <1>2, <1>11, <1>12 DEF old
    <3> QED BY <3>1, <1>2, <1>6, <1>7, <1>13
  <2>2. CASE j = q
    <3>1. t[j] = N /\ line[j] = c
      BY <2>2, <1>1, <1>2, <1>11, <1>12 DEF old
    <3> QED BY <3>1, <1>14
  <2>3. CASE j > q
    <3>1. j - 1 \in 1 .. Len(s) /\ t[j] = s[j - 1] /\ line[j] = old[j - 1]
      BY <2>3, <1>1, <1>2, <1>11, <1>12 DEF old
    <3> QED BY <3>1, <1>2, <1>6, <1>7, <1>13
  <2> QED BY <2>1, <2>2, <2>3, <1>1, <1>2, <1>12 DEF old
<1>16. Len(t) = Len(line) /\ col \in 1 .. Len(line) /\ t[col] = s[a.col]
  <2>0. q \in 1 .. Len(s) + 1 /\ a.col \in 1 .. Len(s) /\ Len(s) \in Nat /\ Len(line) = Len(s) + 1
    BY <1>1, <1>2, <1>11 DEF old
  <2>1. CASE q <= a.col
    <3>1. col = a.col + 1 /\ col - 1 = a.col /\ col \in 1 .. Len(s) + 1 /\ col > q
      BY <2>0, <2>1
    <3> QED BY <3>1, <2>0, <1>12
  <2>2. CASE ~(q <= a.col)
    <3>1. col = a.col /\ col \in 1 .. Len(s) + 1 /\ col < q
      BY <2>0, <2>2
    <3> QED BY <3>1, <2>0, <1>12
  <2> QED BY <2>1, <2>2
<1>17. t[1] = IF q = 1 THEN N ELSE s[1]
  <2>0. q \in 1 .. Len(s) + 1 /\ Len(s) \in Nat
    BY <1>1, <1>2 DEF old
  <2> QED BY <2>0, <1>12
<1>18. \A l \in 1 .. Len(d.lines) : e.lines[l].buffer = IF l = L THEN t[1] ELSE d.lines[l].buffer
  BY <1>8, <1>17 DEF L, N, RowLine
<1> HIDE DEF col
<1>19. Retypes(e, d, L, cs, n, t, line, col)
  BY <1>3, <1>9, <1>10, <1>11, <1>13, <1>15, <1>16, <1>18 DEF Retypes
<1> QED BY <1>19 DEF L, line, old, col, RowLine

\* A line gets a size and a first cell, and the document its cells.
OtherFields(e, d) ==
  /\ e.file_buffer = d.file_buffer /\ e.screen_start = d.screen_start
  /\ e.current_line = d.current_line /\ e.current_text = d.current_text
  /\ e.cursorY = d.cursorY /\ e.wild = d.wild

Sized(e, d, L, g, buffer) ==
  /\ e \in DocSet /\ e.cells = g /\ OtherFields(e, d) /\ SameLinks(e.lines, d.lines)
  /\ \A l \in 1 .. Len(d.lines) : e.lines[l].buffer = IF l = L THEN buffer ELSE d.lines[l].buffer

LEMMA SizedIs ==
  ASSUME NEW d \in DocSet, NEW L \in 1 .. Len(d.lines), NEW size \in Nat, NEW buffer \in Nat,
         NEW g \in CellHeap
  PROVE  LET r == [d.lines[L] EXCEPT !.size = size, !.buffer = buffer]
         IN Sized([d EXCEPT !.cells = g, !.lines[L] = r], d, L, g, buffer)
<1> DEFINE r == [d.lines[L] EXCEPT !.size = size, !.buffer = buffer]
           ls == [d.lines EXCEPT ![L] = r]
           e == [d EXCEPT !.cells = g, !.lines = ls]
<1>1. d.lines \in Seq(LineSet) /\ d.lines[L] \in LineSet
  <2>1. d.lines \in LineHeap
    BY DEF DocSet
  <2> QED BY <2>1, HeapFacts DEF LineHeap
<1>2. /\ r \in LineSet /\ r.prev = d.lines[L].prev /\ r.next = d.lines[L].next /\ r.buffer = buffer
  BY <1>1 DEF LineSet
<1> HIDE DEF r
<1>3. [d EXCEPT !.cells = g, !.lines[L] = r] = e
  BY DEF DocSet
<1>4. /\ ls \in Seq(LineSet) /\ Len(ls) = Len(d.lines)
      /\ \A l \in 1 .. Len(d.lines) : ls[l] = IF l = L THEN r ELSE d.lines[l]
  BY <1>1, <1>2
<1> HIDE DEF ls
<1>5. e \in DocSet /\ e.lines = ls /\ e.cells = g /\ OtherFields(e, d)
  BY <1>4 DEF DocSet, OtherFields, LineHeap
<1> HIDE DEF e
<1>6. SameLinks(e.lines, d.lines)
  BY <1>2, <1>4, <1>5 DEF SameLinks
<1>7. \A l \in 1 .. Len(d.lines) : e.lines[l].buffer = IF l = L THEN buffer ELSE d.lines[l].buffer
  BY <1>2, <1>4, <1>5
<1>8. Sized(e, d, L, g, buffer)
  BY <1>5, <1>6, <1>7 DEF Sized
<1> QED BY <1>3, <1>8 DEF r

\* A cell more in the current line.
LEMMA GrownSound ==
  ASSUME NEW d, NEW a, NEW fs, NEW k, NEW cs, Sound(d, a, fs, k, cs), ~d.wild, On(d),
         NEW c \in AllChars, NEW q \in 1 .. Len(a.lines[a.row]) + 1, NEW e, NEW buffer,
         Grown(e.cells, d.cells, cs[RowLine(a, fs, k)], q, c),
         Sized(e, d, RowLine(a, fs, k), e.cells, buffer),
         buffer = IF q = 1 THEN Len(d.cells) + 1 ELSE d.lines[RowLine(a, fs, k)].buffer
  PROVE  Edited(e, Retyped(a, InsertAt(a.lines[a.row], q, c),
                           IF q <= a.col THEN a.col + 1 ELSE a.col), d, a)
<1> DEFINE L == RowLine(a, fs, k)
           line == InsertAt(a.lines[a.row], q, c)
           col == IF q <= a.col THEN a.col + 1 ELSE a.col
           b == Retyped(a, line, col)
<1>1. /\ e \in DocSet /\ OtherFields(e, d) /\ SameLinks(e.lines, d.lines)
      /\ \A l \in 1 .. Len(d.lines) :
           e.lines[l].buffer = IF l = L /\ q = 1 THEN Len(d.cells) + 1 ELSE d.lines[l].buffer
  BY DEF Sized
<1>2. /\ e.file_buffer = d.file_buffer /\ e.screen_start = d.screen_start
      /\ e.current_line = d.current_line /\ e.current_text = d.current_text
      /\ e.cursorY = d.cursorY /\ e.wild = d.wild
  BY <1>1 DEF OtherFields
<1>3. PICK n, t : Retypes(e, d, L, cs, n, t, line, col)
  BY <1>1, <1>2, GrownRetypes
<1> HIDE DEF line, col
<1>4. Sound(e, b, fs, k, n) /\ b.row = a.row
  BY <1>3, RetypedSound
<1> HIDE DEF b
<1>5. On(e)
  <2>1. d.current_text \in 1 .. Len(d.cells)
    BY SoundCurrent
  <2> QED BY <1>2, <2>1 DEF On, Grown
<1>6. Len(e.lines) = Len(d.lines)
  BY <1>1 DEF SameLinks
<1> QED BY <1>2, <1>4, <1>5, <1>6 DEF Edited, Shows, Rows, b, line, col

LEMMA InsertCharIs ==
  ASSUME NEW d, NEW a, Shows(d, a), On(d), ~d.wild, NEW c \in AllChars
  PROVE  \E b \in Texts!InsertChar(a, c) : Edited(InsertChar(d, c), b, d, a)
<1>0. PICK fs, k, cs : Sound(d, a, fs, k, cs)
  BY DEF Shows
<1> DEFINE L == RowLine(a, fs, k)
           s == cs[L]
           n == Append(d.cells, Cell(c))
           g == InsertBefore(n, s[a.col], Len(n))
           w == IF a.col = 1 THEN Len(d.cells) + 1 ELSE d.lines[L].buffer
           size == d.lines[L].size + 1
           e == [d EXCEPT !.cells = g,
                          !.lines[L] = [d.lines[L] EXCEPT !.size = size, !.buffer = w]]
           old == a.lines[a.row]
<1>1. /\ a.row \in 1 .. Len(a.lines) /\ a.col \in 1 .. Len(old) /\ Len(old) \in Nat
      /\ d.cells \in CellHeap /\ d.lines \in LineHeap /\ Len(d.cells) \in Nat
  BY <1>0, SoundLengths
<1>2. /\ d.current_line = L /\ d.current_text = s[a.col] /\ d \in DocSet /\ a \in TextSet
      /\ d.screen_start \in 0 .. Len(d.lines) /\ L \in 1 .. Len(d.lines)
  BY <1>0, SoundCurrent DEF RowLine
<1>3. /\ Len(s) = Len(old) /\ IsList(d.cells, s, 0) /\ CellAt(d, s, a.col)
  BY <1>0, <1>1, ColumnFacts DEF RowLine
<1>30. \A q \in 1 .. Len(s) : s[q] # Null
  <2>1. \A q \in 1 .. Len(s) : s[q] \in 1 .. Len(d.cells)
    BY <1>0, <1>1, LineNumbers DEF RowLine
  <2> QED BY <2>1 DEF Null
<1>4. Linking(d.cells)
  BY <1>0 DEF Sound
<1>5. g \in CellHeap /\ Grown(g, d.cells, s, a.col, c) /\ Len(n) = Len(d.cells) + 1
  <2>1. a.col \in 1 .. Len(s)
    BY <1>1, <1>3
  <2> HIDE DEF s
  <2>2. g \in CellHeap /\ Grown(g, d.cells, s, a.col, c)
    BY <2>1, <1>1, <1>3, <1>4, CellBefore
  <2>3. Len(n) = Len(d.cells) + 1
    BY <1>1, <1>4, AppendedCell
  <2> QED BY <2>2, <2>3
<1>6. size \in Nat /\ w \in Nat
  <2>1. d.lines[L] \in LineSet
    BY <1>1, <1>2, HeapFacts
  <2>2. d.lines[L].size \in Nat /\ d.lines[L].buffer \in Nat
    BY <2>1 DEF LineSet
  <2> QED BY <2>2, <1>1
<1>7. InsertChar(d, c) = e
  <2>1. d.cells[d.current_text].prev = Null <=> a.col = 1
    <3>1. a.col # 1 => a.col - 1 \in 1 .. Len(s)
      BY <1>1, <1>3
    <3> HIDE DEF s
    <3> QED BY <3>1, <1>2, <1>3, <1>30 DEF CellAt
  <2> QED BY <2>1, <1>2, <1>5 DEF InsertChar, AppendCell
<1> HIDE DEF g, size, w
<1>8. Sized(e, d, L, g, w)
  BY <1>2, <1>5, <1>6, SizedIs
<1> HIDE DEF e, s
<1>9. a.col \in 1 .. Len(old) + 1 /\ a.col <= a.col /\ a.col \in Nat
  BY <1>1
<1> DEFINE b == Retyped(a, InsertAt(old, a.col, c), a.col + 1)
<1>10. Edited(e, b, d, a)
  <2>1. e.cells = g
    BY <1>8 DEF Sized
  <2>2. Edited(e, Retyped(a, InsertAt(old, a.col, c),
                          IF a.col <= a.col THEN a.col + 1 ELSE a.col), d, a)
    BY <2>1, <1>0, <1>5, <1>8, <1>9, GrownSound DEF s, w
  <2> QED BY <2>2, <1>9
<1>11. b \in Texts!InsertChar(a, c)
  BY <1>2, TextOperators DEF Texts!InsertChar, Retyped, TextSet
<1> QED BY <1>7, <1>10, <1>11

LEMMA EditedChain ==
  ASSUME NEW d, NEW a, NEW e, NEW b, NEW f, NEW c, Edited(e, b, d, a), Edited(f, c, e, b)
  PROVE  Edited(f, c, d, a)
BY DEF Edited

LEMMA Spaces == Space \in AllChars /\ Texts!Space = Space
<1>1. Texts!Space = Space
  BY Zenon DEF Space, Texts!Space
<1> QED BY <1>1 DEF AllChars

\* Nothing shown depends on cursorX.
LEMMA ColumnCounted ==
  ASSUME NEW d, NEW a, NEW e, NEW b, Edited(e, b, d, a), NEW x \in Int
  PROVE  Edited([e EXCEPT !.cursorX = x], b, d, a)
<1> DEFINE f == [e EXCEPT !.cursorX = x]
<1>1. PICK fs, k, cs : Sound(e, b, fs, k, cs)
  BY DEF Edited, Shows
<1>2. e \in DocSet /\ e.screen_start \in 0 .. Len(e.lines)
  BY <1>1, SoundCurrent
<1>3. /\ f \in DocSet /\ f.lines = e.lines /\ f.cells = e.cells /\ f.file_buffer = e.file_buffer
      /\ f.current_line = e.current_line /\ f.current_text = e.current_text
      /\ f.screen_start = e.screen_start /\ f.cursorY = e.cursorY /\ f.wild = e.wild
  BY <1>2 DEF DocSet
<1> HIDE DEF f
<1>4. Sound(f, b, fs, k, cs)
  BY <1>1, <1>2, <1>3, SoundSame
<1>5. Shows(e, b) /\ On(e) /\ ~e.wild /\ (Rows(d, a.row) => Rows(e, b.row))
  BY DEF Edited
<1>6. Rows(f, b.row) <=> Rows(e, b.row)
  BY <1>3 DEF Rows
<1>7. On(f)
  BY <1>3, <1>5 DEF On
<1> QED BY <1>3, <1>4, <1>5, <1>6, <1>7 DEF Edited, Shows, f

LEMMA EditedDoc ==
  ASSUME NEW e, NEW a, Shows(e, a)
  PROVE  e \in DocSet /\ a \in TextSet
<1>1. PICK fs, k, cs : Sound(e, a, fs, k, cs)
  BY DEF Shows
<1> QED BY <1>1, SoundCurrent

LEMMA InsertSpaceIs ==
  ASSUME NEW d, NEW a, Shows(d, a), On(d), ~d.wild
  PROVE  \E b \in Texts!InsertChar(a, Space) : Edited(InsertSpace(d), b, d, a)
<1>1. PICK b \in Texts!InsertChar(a, Space) : Edited(InsertChar(d, Space), b, d, a)
  BY Spaces, InsertCharIs
<1> DEFINE e == InsertChar(d, Space)
<1>2. e \in DocSet
  BY <1>1, EditedDoc DEF Edited
<1> HIDE DEF e
<1>3. e.cursorX + 1 \in Int
  BY <1>2 DEF DocSet
<1>4. Edited([e EXCEPT !.cursorX = e.cursorX + 1], b, d, a)
  BY <1>1, <1>3, ColumnCounted DEF e
<1>5. InsertSpace(d) = [e EXCEPT !.cursorX = e.cursorX + 1]
  BY DEF InsertSpace, e
<1> QED BY <1>1, <1>4, <1>5

LEMMA InsertTabIs ==
  ASSUME NEW d, NEW a, Shows(d, a), On(d), ~d.wild
  PROVE  \E b \in Texts!Then(Texts!InsertChar(a, Space), LAMBDA c : Texts!InsertChar(c, Space)) :
           Edited(InsertSpace(InsertSpace(d)), b, d, a)
<1>1. PICK b \in Texts!InsertChar(a, Space) : Edited(InsertSpace(d), b, d, a)
  BY InsertSpaceIs
<1> DEFINE e == InsertSpace(d)
<1>2. Shows(e, b) /\ On(e) /\ ~e.wild
  BY <1>1 DEF Edited
<1>3. PICK c \in Texts!InsertChar(b, Space) : Edited(InsertSpace(e), c, e, b)
  BY <1>2, InsertSpaceIs
<1>4. Edited(InsertSpace(e), c, d, a)
  BY <1>1, <1>3, EditedChain
<1>5. c \in Texts!Then(Texts!InsertChar(a, Space), LAMBDA x : Texts!InsertChar(x, Space))
  BY <1>1, <1>3 DEF Texts!Then
<1> QED BY <1>4, <1>5

LEMMA InsertAtEnd ==
  ASSUME NEW S, NEW s \in Seq(S), NEW e \in S
  PROVE  InsertAt(s, Len(s) + 1, e) = Append(s, e)
<1>1. Len(s) \in Nat /\ Len(s) + 1 \in 1 .. Len(s) + 1
  OBVIOUS
<1>0. \A i \in 1 .. Len(s) + 1 :
        /\ InsertAt(s, i, e) \in Seq(S) /\ Len(InsertAt(s, i, e)) = Len(s) + 1
        /\ \A j \in 1 .. Len(s) + 1 :
             InsertAt(s, i, e)[j] = IF j < i THEN s[j] ELSE IF j = i THEN e ELSE s[j - 1]
  BY InsertAtIs
<1> DEFINE t == InsertAt(s, Len(s) + 1, e)
           u == Append(s, e)
<1>2. /\ t \in Seq(S) /\ Len(t) = Len(s) + 1
      /\ \A j \in 1 .. Len(s) + 1 :
           t[j] = IF j < Len(s) + 1 THEN s[j] ELSE IF j = Len(s) + 1 THEN e ELSE s[j - 1]
  BY <1>0, <1>1
<1>3. u \in Seq(S) /\ Len(u) = Len(s) + 1 /\ \A j \in 1 .. Len(s) : u[j] = s[j]
  OBVIOUS
<1>4. u[Len(s) + 1] = e
  OBVIOUS
<1> HIDE DEF t, u
<1>5. \A j \in 1 .. Len(t) : t[j] = u[j]
  <2>1. ASSUME NEW j \in 1 .. Len(t) PROVE t[j] = u[j]
    <3>1. CASE j = Len(s) + 1
      BY <3>1, <1>1, <1>2, <1>4
    <3>2. CASE j # Len(s) + 1
      BY <3>2, <1>1, <1>2, <1>3
    <3> QED BY <3>1, <3>2
  <2> QED BY <2>1
<1>6. t = u
  BY <1>2, <1>3, <1>5, SeqEqual
<1> QED BY <1>6 DEF t, u

LEMMA CellsSized ==
  ASSUME NEW d \in DocSet, NEW L, NEW g \in CellHeap
  PROVE  Sized([d EXCEPT !.cells = g], d, L, g, d.lines[L].buffer)
<1> DEFINE e == [d EXCEPT !.cells = g]
<1>1. e \in DocSet /\ e.cells = g /\ e.lines = d.lines /\ OtherFields(e, d)
  BY DEF DocSet, OtherFields
<1> HIDE DEF e
<1>2. SameLinks(e.lines, d.lines)
  BY <1>1 DEF SameLinks
<1> QED BY <1>1, <1>2 DEF Sized, e

LEMMA ExtendIs ==
  ASSUME NEW d, NEW a, Shows(d, a), On(d), ~d.wild
  PROVE  \E b \in Texts!Extend(a) : Edited(ApplyInsert(d, "RIGHT"), b, d, a)
<1>0. PICK fs, k, cs : Sound(d, a, fs, k, cs)
  BY DEF Shows
<1> DEFINE L == RowLine(a, fs, k)
           s == cs[L]
           old == a.lines[a.row]
<1>1. /\ L \in 1 .. Len(cs) /\ Len(s) = Len(old) /\ Len(s) \in Nat /\ a.col \in 1 .. Len(s)
      /\ \A q \in 1 .. Len(s) : s[q] \in 1 .. Len(d.cells)
      /\ IsList(d.cells, s, 0) /\ CellAt(d, s, a.col) /\ d.current_text = s[a.col]
  BY <1>0, RowNumbers
<1>2. d.cells \in CellHeap /\ d \in DocSet /\ a \in TextSet /\ Linking(d.cells)
      /\ Len(d.cells) \in Nat
  BY <1>0, SoundCurrent, SoundLengths DEF Sound
<1>3. d.cells[d.current_text].next = Null <=> a.col = Len(s)
  <2>1. a.col # Len(s) => a.col + 1 \in 1 .. Len(s)
    BY <1>1
  <2>2. d.cells[d.current_text].next = IF a.col = Len(s) THEN Null ELSE s[a.col + 1]
    BY <1>1 DEF CellAt
  <2>3. a.col # Len(s) => s[a.col + 1] # Null
    BY <1>1, <2>1 DEF Null
  <2> HIDE DEF s
  <2> QED BY <2>2, <2>3
<1>4. CASE a.col = Len(s)
  <2> DEFINE n == Append(d.cells, Cell(Space))
             g == InsertAfter(n, s[a.col], Len(n))
             e == [d EXCEPT !.cells = g]
             b == Retyped(a, InsertAt(old, a.col + 1, Space), a.col)
  <2>1. g \in CellHeap /\ Grown(g, d.cells, s, a.col + 1, Space) /\ Len(n) = Len(d.cells) + 1
    <3> HIDE DEF s
    <3>1. g \in CellHeap /\ Grown(g, d.cells, s, a.col + 1, Space)
      BY <1>1, <1>2, Spaces, CellAfter
    <3>2. Len(n) = Len(d.cells) + 1
      BY <1>2, Spaces, AppendedCell
    <3> QED BY <3>1, <3>2
  <2>2. ApplyInsert(d, "RIGHT") = e
    BY <1>1, <1>3, <1>4, <2>1 DEF ApplyInsert, AppendCell
  <2> HIDE DEF g
  <2>3. Sized(e, d, L, g, d.lines[L].buffer) /\ e.cells = g
    BY <1>2, <2>1, CellsSized DEF Sized
  <2> HIDE DEF e
  <2>4. a.col + 1 \in 1 .. Len(old) + 1 /\ a.col + 1 # 1 /\ ~(a.col + 1 <= a.col)
    BY <1>1, <1>4
  <2>5. Edited(e, Retyped(a, InsertAt(old, a.col + 1, Space),
                          IF a.col + 1 <= a.col THEN a.col + 1 ELSE a.col), d, a)
    <3> DEFINE q == a.col + 1
               w == d.lines[L].buffer
    <3>1. /\ q \in 1 .. Len(a.lines[a.row]) + 1
          /\ Grown(e.cells, d.cells, cs[RowLine(a, fs, k)], q, Space)
      BY <2>1, <2>3, <2>4
    <3>2. /\ Sized(e, d, RowLine(a, fs, k), e.cells, w)
          /\ w = IF q = 1 THEN Len(d.cells) + 1 ELSE d.lines[RowLine(a, fs, k)].buffer
      BY <2>3, <2>4
    <3> HIDE DEF q, w
    <3>3. Edited(e, Retyped(a, InsertAt(a.lines[a.row], q, Space),
                            IF q <= a.col THEN a.col + 1 ELSE a.col), d, a)
      BY <1>0, <3>1, <3>2, Spaces, GrownSound
    <3> QED BY <3>3 DEF q
  <2>6. Edited(e, b, d, a)
    BY <2>4, <2>5
  <2>7. b \in Texts!Extend(a)
    <3>1. InsertAt(old, a.col + 1, Space) = Append(old, Space)
      <4> DEFINE S == Seq(AllChars)
      <4>1. a.lines \in Seq(S) /\ a.row \in 1 .. Len(a.lines)
        BY <1>0, <1>2, SoundLengths DEF TextSet
      <4>2. old \in S
        <5> HIDE DEF S
        <5> QED BY <4>1
      <4>3. a.col = Len(old)
        BY <1>1, <1>4
      <4> HIDE DEF old
      <4> QED BY <4>2, <4>3, Spaces, InsertAtEnd
    <3>2. a.col = Len(old)
      BY <1>1, <1>4
    <3> QED BY <3>1, <3>2, <1>2, Spaces DEF Texts!Extend, Texts!Line, Retyped, TextSet
  <2> QED BY <2>2, <2>6, <2>7
<1>5. CASE a.col # Len(s)
  <2>1. ApplyInsert(d, "RIGHT") = d
    BY <1>3, <1>5 DEF ApplyInsert
  <2>2. a \in Texts!Extend(a)
    BY <1>1, <1>5 DEF Texts!Extend, Texts!Line
  <2> QED BY <2>1, <2>2 DEF Edited
<1> QED BY <1>4, <1>5

-----------------------------------------------------------------------------
(* A line more.                                                            *)

LEMMA AppendedLine ==
  ASSUME NEW h \in LineHeap, Linking(h), NEW buffer \in Nat, NEW s, NEW k, IsList(h, s, k)
  PROVE  LET n == Append(h, LineNode(buffer, 1))
         IN /\ n \in Seq(LineSet) /\ Len(n) = Len(h) + 1 /\ Linking(n) /\ IsList(n, s, k)
            /\ Len(n) \in 1 .. Len(n) /\ Outside(s, Len(n))
            /\ \A m \in 1 .. Len(h) : n[m] = h[m]
            /\ n[Len(h) + 1].buffer = buffer
<1> DEFINE r == LineNode(buffer, 1)
           n == Append(h, r)
<1>1. r \in LineSet /\ r.prev = 0 /\ r.next = 0 /\ r.buffer = buffer
  BY DEF LineNode, LineSet, Null
<1>2. h \in Seq(LineSet) /\ Len(h) \in Nat
  BY DEF LineHeap
<1> HIDE DEF r
<1>3. /\ n \in Seq(LineSet) /\ Len(n) = Len(h) + 1 /\ \A m \in 1 .. Len(h) : n[m] = h[m]
      /\ n[Len(h) + 1] = r
  BY <1>1, <1>2
<1> HIDE DEF n
<1>4. Linking(n)
  <2>1. ASSUME NEW m \in 1 .. Len(n) PROVE n[m].prev \in 0 .. Len(n) /\ n[m].next \in 0 .. Len(n)
    <3>1. CASE m = Len(h) + 1
      BY <3>1, <1>1, <1>2, <1>3
    <3>2. CASE m # Len(h) + 1
      <4>1. m \in 1 .. Len(h)
        BY <3>2, <1>2, <1>3
      <4>2. n[m] = h[m] /\ h[m].prev \in 0 .. Len(h) /\ h[m].next \in 0 .. Len(h)
        BY <4>1, <1>3 DEF Linking
      <4> QED BY <4>2, <1>2, <1>3
    <3> QED BY <3>1, <3>2
  <2> QED BY <2>1 DEF Linking
<1>5. \A i \in 1 .. Len(s) : s[i] \in 1 .. Len(h)
  BY <1>2, ListFacts
<1>6. k \in Nat
  BY <1>2, ListFacts
<1>7. \A i \in 1 .. Len(s) : n[s[i]].next = h[s[i]].next
  BY <1>3, <1>5
<1>8. \A i \in k + 1 .. Len(s) : n[s[i]].prev = h[s[i]].prev
  BY <1>3, <1>5, <1>6
<1>9. Len(n) \in Nat /\ Len(h) <= Len(n)
  BY <1>2, <1>3
<1>10. IsList(n, s, k)
  BY <1>2, <1>7, <1>8, <1>9, ListKept
<1>11. Outside(s, Len(n)) /\ Len(n) \in 1 .. Len(n)
  BY <1>2, <1>3, <1>5 DEF Outside
<1> QED BY <1>1, <1>3, <1>4, <1>10, <1>11 DEF n, r

LEMMA NewCellLists ==
  ASSUME NEW h \in CellHeap, Linking(h), NEW c \in AllChars, NEW cs, CellLists(h, cs)
  PROVE  LET n == Append(cs, <<Len(h) + 1>>)
         IN /\ CellLists(Append(h, Cell(c)), n) /\ Len(n) = Len(cs) + 1
            /\ \A l \in 1 .. Len(cs) : n[l] = cs[l]
            /\ n[Len(cs) + 1] = <<Len(h) + 1>>
<1> DEFINE g == Append(h, Cell(c))
           N == Len(h) + 1
           S == Seq(1 .. N)
           n == Append(cs, <<N>>)
<1>1. /\ g \in CellHeap /\ Len(g) = Len(h) + 1
      /\ \A m \in 1 .. Len(h) : g[m] = h[m]
      /\ g[N] = Cell(c)
  BY AppendedCell
<1>2. /\ Len(cs) \in Nat /\ Len(h) \in Nat
      /\ \A l \in 1 .. Len(cs) : /\ cs[l] \in Seq(1 .. Len(h))
                                 /\ \A p \in 1 .. Len(cs[l]) : cs[l][p] \in 1 .. Len(h)
  BY CellListFacts, HeapFacts
<1>3. \A l \in 1 .. Len(cs) : cs[l] \in S
  <2>1. ASSUME NEW l \in 1 .. Len(cs) PROVE cs[l] \in S
    BY <1>2
  <2> QED BY <2>1
<1>4. <<N>> \in S /\ Len(<<N>>) = 1 /\ <<N>>[1] = N
  BY <1>2
<1>5. cs \in Seq(S)
  <2>1. cs \in Seq(Seq(1 .. Len(h)))
    BY DEF CellLists
  <2>2. cs \in [1 .. Len(cs) -> S]
    <3>1. DOMAIN cs = 1 .. Len(cs) /\ cs = [l \in 1 .. Len(cs) |-> cs[l]]
      BY <2>1
    <3> HIDE DEF S
    <3> QED BY <3>1, <1>3
  <2> HIDE DEF S
  <2> QED BY <2>2, <1>2
<1> HIDE DEF S
<1> DEFINE one == <<N>>
<1>20. one \in S /\ Len(one) = 1 /\ one[1] = N
  BY <1>4
<1> HIDE DEF one
<1>6. /\ Append(cs, one) \in Seq(S) /\ Len(Append(cs, one)) = Len(cs) + 1
      /\ \A l \in 1 .. Len(cs) : Append(cs, one)[l] = cs[l]
      /\ Append(cs, one)[Len(cs) + 1] = one
  BY <1>5, <1>20
<1>7. n = Append(cs, one)
  BY DEF one
<1> HIDE DEF n, g, N
<1>21. /\ Len(n) = Len(cs) + 1 /\ \A l \in 1 .. Len(cs) : n[l] = cs[l]
       /\ n[Len(cs) + 1] = one
  BY <1>6, <1>7
<1>8. ASSUME NEW l \in 1 .. Len(n) PROVE n[l] = <<>> \/ IsList(g, n[l], 0)
  <2>1. CASE l = Len(cs) + 1
    <3>1. n[l] = one
      BY <2>1, <1>6, <1>7
    <3>2. one \in Seq(1 .. Len(g)) /\ 0 \in 0 .. Len(one) - 1
      BY <1>1, <1>20 DEF S, N
    <3>3. Injective(one)
      BY <1>20 DEF Injective
    <3>4. Following(g, one) /\ Preceding(g, one, 0)
      <4>1. g[N].next = Null /\ g[N].prev = Null
        BY <1>1 DEF Cell
      <4> QED BY <4>1, <1>20 DEF Following, Preceding
    <3> QED BY <3>1, <3>2, <3>3, <3>4 DEF IsList
  <2>2. CASE l # Len(cs) + 1 /\ n[l] # <<>>
    <3>1. l \in 1 .. Len(cs)
      BY <2>2, <1>2, <1>6, <1>7
    <3>2. n[l] = cs[l]
      BY <3>1, <1>6, <1>7
    <3>3. IsList(h, cs[l], 0)
      BY <3>1, <3>2, <2>2 DEF CellLists
    <3>4. IsList(g, cs[l], 0)
      BY <3>3, AppendedList DEF g
    <3> QED BY <3>2, <3>4
  <2> QED BY <2>1, <2>2
<1>22. ASSUME NEW x \in 1 .. Len(n), NEW j \in 1 .. Len(n[x])
       PROVE  IF x = Len(cs) + 1 THEN n[x][j] = N
              ELSE x \in 1 .. Len(cs) /\ n[x] = cs[x] /\ n[x][j] # N
  <2>1. CASE x = Len(cs) + 1
    <3>1. n[x] = one
      BY <2>1, <1>21
    <3>2. j = 1
      BY <3>1, <1>20
    <3> QED BY <2>1, <3>1, <3>2, <1>20
  <2>2. CASE x # Len(cs) + 1
    <3>1. x \in 1 .. Len(cs)
      BY <2>2, <1>2, <1>21
    <3>2. n[x] = cs[x]
      BY <3>1, <1>21
    <3>3. n[x][j] \in 1 .. Len(h)
      BY <3>1, <3>2, <1>2
    <3> QED BY <2>2, <3>1, <3>2, <3>3, <1>2 DEF N
  <2> QED BY <2>1, <2>2
<1>9. ASSUME NEW l \in 1 .. Len(n), NEW m \in 1 .. Len(n),
             NEW p \in 1 .. Len(n[l]), NEW r \in 1 .. Len(n[m]), n[l][p] = n[m][r]
      PROVE  l = m
  <2>2. CASE l # Len(cs) + 1 /\ m # Len(cs) + 1
    <3>1. l \in 1 .. Len(cs) /\ m \in 1 .. Len(cs) /\ n[l] = cs[l] /\ n[m] = cs[m]
      BY <2>2, <1>22
    <3> QED BY <3>1, <1>9 DEF CellLists
  <2> QED BY <2>2, <1>9, <1>22
<1>10. CellLists(g, n)
  BY <1>1, <1>6, <1>7, <1>8, <1>9 DEF CellLists, S, N
<1> QED BY <1>6, <1>7, <1>10 DEF n, g, one, N

\* What a new line leaves as it was.
Lengthened(e, b, d, a) ==
  /\ Shows(e, b) /\ ~e.wild /\ (On(d) => On(e))
  /\ ~Below(b, 1) /\ b.row = a.row /\ b.row # Len(b.lines)
  /\ e.cursorY = d.cursorY /\ e.screen_start = d.screen_start
  /\ e.current_text = d.current_text

\* The text with a line of one space after that of the row.
WithLine(a) == [a EXCEPT !.lines = InsertAt(a.lines, a.row + 1, <<Space>>)]

LEMMA WithLineIs ==
  ASSUME NEW a \in TextSet, a.row \in 1 .. Len(a.lines), Len(a.lines) \in Nat,
         a.lines[a.row] # <<>>
  PROVE  LET b == WithLine(a)
         IN /\ b \in TextSet /\ b \in Texts!NewLine(a) /\ b.row = a.row /\ b.col = a.col
            /\ Len(b.lines) = Len(a.lines) + 1
            /\ \A i \in 1 .. Len(b.lines) :
                 b.lines[i] = IF i < a.row + 1 THEN a.lines[i]
                              ELSE IF i = a.row + 1 THEN <<Space>> ELSE a.lines[i - 1]
            /\ Filled(a) => Filled(b)
            /\ ~Below(b, 1)
<1> DEFINE S == Seq(AllChars)
           one == <<Space>>
           n == a.row + 1
           new == InsertAt(a.lines, n, one)
           b == [a EXCEPT !.lines = new]
<1>1. one \in S /\ one # <<>>
  <2>1. \A c \in AllChars : <<c>> \in Seq(AllChars) /\ <<c>> # <<>>
    OBVIOUS
  <2> QED BY <2>1, Spaces
<1> HIDE DEF S, one
<1>2. a.lines \in Seq(S) /\ n \in 1 .. Len(a.lines) + 1
  BY DEF TextSet, S
<1>3. /\ new \in Seq(S) /\ Len(new) = Len(a.lines) + 1
      /\ \A i \in 1 .. Len(a.lines) + 1 :
           new[i] = IF i < n THEN a.lines[i] ELSE IF i = n THEN one ELSE a.lines[i - 1]
  <2> DEFINE s == a.lines
  <2>1. s \in Seq(S) /\ n \in 1 .. Len(s) + 1 /\ new = InsertAt(s, n, one)
    BY <1>2
  <2> HIDE DEF n, s, new
  <2>2. /\ InsertAt(s, n, one) \in Seq(S) /\ Len(InsertAt(s, n, one)) = Len(s) + 1
        /\ \A i \in 1 .. Len(s) + 1 :
             InsertAt(s, n, one)[i] = IF i < n THEN s[i] ELSE IF i = n THEN one ELSE s[i - 1]
    BY <1>1, <2>1, InsertAtIs
  <2>3. /\ new \in Seq(S) /\ Len(new) = Len(s) + 1
        /\ \A i \in 1 .. Len(s) + 1 :
             new[i] = IF i < n THEN s[i] ELSE IF i = n THEN one ELSE s[i - 1]
    BY <2>1, <2>2
  <2> QED BY <2>3 DEF s
<1> HIDE DEF new
<1>4. b \in TextSet /\ b.lines = new /\ b.row = a.row /\ b.col = a.col
  BY <1>3 DEF TextSet, S
<1> HIDE DEF b
<1>6. \A i \in 1 .. Len(a.lines) + 1 :
        b.lines[i] = IF i < n THEN a.lines[i] ELSE IF i = n THEN one ELSE a.lines[i - 1]
  BY <1>3, <1>4
<1>7. Len(b.lines) = Len(a.lines) + 1
  BY <1>3, <1>4
<1>5. ASSUME Filled(a) PROVE Filled(b)
  <2>1. ASSUME NEW i \in 1 .. Len(b.lines) - 1 PROVE b.lines[i] # <<>>
    <3>1. i \in 1 .. Len(a.lines) /\ i \in 1 .. Len(a.lines) + 1
      BY <1>7
    <3>2. CASE i < n
      <4>1. i \in 1 .. Len(a.lines) - 1 \/ i = a.row
        BY <3>1, <3>2
      <4>2. b.lines[i] = a.lines[i]
        BY <3>1, <3>2, <1>6
      <4> QED BY <4>1, <4>2, <1>5 DEF Filled
    <3>3. CASE i = n
      BY <3>1, <3>3, <1>1, <1>6
    <3>4. CASE i > n
      <4>1. i - 1 \in 1 .. Len(a.lines) - 1 /\ ~(i < n) /\ i # n
        BY <3>1, <3>4
      <4>2. b.lines[i] = a.lines[i - 1]
        BY <3>1, <4>1, <1>6
      <4> QED BY <4>1, <4>2, <1>5 DEF Filled
    <3> QED BY <3>1, <3>2, <3>3, <3>4
  <2> QED BY <2>1 DEF Filled
\* The last line is the new one, or more than one line under the cursor.
<1>8. ~Below(b, 1)
  <2>1. SUFFICES ASSUME Len(b.lines) <= b.row + 1 PROVE b.lines[Len(b.lines)] # <<>>
    BY DEF Below, LastEmpty
  <2>2. Len(a.lines) + 1 = n /\ n \in 1 .. Len(a.lines) + 1
    BY <2>1, <1>4, <1>7
  <2>3. b.lines[n] = one
    BY <2>2, <1>6
  <2> QED BY <2>2, <2>3, <1>1, <1>7
<1>9. b = WithLine(a) /\ b \in Texts!NewLine(a)
  BY Spaces, TextOperators DEF WithLine, Texts!NewLine, b, new, one
<1> QED BY <1>4, <1>5, <1>6, <1>7, <1>8, <1>9 DEF one

LEMMA NewLineIs ==
  ASSUME NEW d, NEW a, Shows(d, a), ~d.wild
  PROVE  LET e == InsertAfterLine(d)
         IN Lengthened(e, WithLine(a), d, a) /\ WithLine(a) \in Texts!NewLine(a)
<1>0. PICK fs, k, cs : Sound(d, a, fs, k, cs)
  BY DEF Shows
<1> DEFINE L == RowLine(a, fs, k)
           N == Len(d.cells) + 1
           g == Append(d.cells, Cell(Space))
           h == Append(d.lines, LineNode(N, 1))
           M == Len(d.lines) + 1
           i == k + a.row
           ls == InsertAfter(h, fs[i], M)
           e == [d EXCEPT !.cells = g, !.lines = ls]
           one == <<N>>
           n == Append(cs, one)
           fn == InsertAt(fs, i + 1, M)
           b == WithLine(a)
<1>1. /\ Len(d.lines) \in Nat /\ Len(d.cells) \in Nat /\ Len(fs) \in Nat
      /\ k \in 0 .. Len(fs) - 1 /\ Len(cs) = Len(d.lines)
      /\ Len(a.lines) = Len(fs) - k /\ a.row \in 1 .. Len(a.lines)
      /\ a.col \in 1 .. Len(a.lines[a.row]) /\ Len(a.lines[a.row]) \in Nat
      /\ d.lines \in LineHeap /\ d.cells \in CellHeap
  BY <1>0, SoundLengths
<1>2. /\ Linking(d.lines) /\ Linking(d.cells) /\ IsList(d.lines, fs, k) /\ d.file_buffer = fs[1]
      /\ CellLists(d.cells, cs) /\ Buffers(d.lines, cs)
      /\ Reads(d.cells, a.lines, fs, k, cs) /\ OneFlag(d, fs, k, cs)
      /\ a \in TextSet /\ Filled(a) /\ d \in DocSet /\ d.screen_start \in 0 .. Len(d.lines)
  BY <1>0 DEF Sound
<1>3. /\ d.current_line = L /\ d.current_text = cs[L][a.col] /\ L \in 1 .. Len(cs)
      /\ a.col \in 1 .. Len(cs[L]) /\ \A q \in 1 .. Len(cs[L]) : cs[L][q] \in 1 .. Len(d.cells)
  BY <1>0, RowNumbers
<1>4. L = fs[i] /\ i \in k + 1 .. Len(fs) /\ i \in 1 .. Len(fs)
  BY <1>1 DEF RowLine
\* The cells.
<1>5. /\ g \in CellHeap /\ Len(g) = N /\ Linking(g)
      /\ \A m \in 1 .. Len(d.cells) : g[m] = d.cells[m]
      /\ g[N] = Cell(Space)
  BY <1>1, <1>2, Spaces, AppendedCell
<1>6. /\ CellLists(g, n) /\ Len(n) = Len(cs) + 1
      /\ \A l \in 1 .. Len(cs) : n[l] = cs[l]
      /\ n[Len(cs) + 1] = one
  BY <1>1, <1>2, Spaces, NewCellLists
\* The lines.
<1>7. /\ h \in Seq(LineSet) /\ Len(h) = M /\ Linking(h) /\ IsList(h, fs, k)
      /\ Len(h) \in 1 .. Len(h) /\ Outside(fs, Len(h))
      /\ \A m \in 1 .. Len(d.lines) : h[m] = d.lines[m]
      /\ h[M] .buffer = N
  <2>1. N \in Nat
    BY <1>1
  <2> HIDE DEF N
  <2> QED BY <2>1, <1>1, <1>2, AppendedLine
<1> HIDE DEF h, i, M, N, L, g, n
<1>8. /\ ls \in Seq(LineSet) /\ Len(ls) = Len(h) /\ SameData(ls, h) /\ Linking(ls)
      /\ IsList(ls, fn, k)
  BY <1>4, <1>7, NodeSets, ListInsertAfter
<1>9. /\ Len(fn) = Len(fs) + 1
      /\ \A j \in 1 .. Len(fs) + 1 :
           fn[j] = IF j < i + 1 THEN fs[j] ELSE IF j = i + 1 THEN M ELSE fs[j - 1]
  <2> DEFINE S == 1 .. Len(h)
             x == i + 1
  <2>1. fs \in Seq(S) /\ M \in S
    BY <1>7 DEF IsList
  <2>2. x \in 1 .. Len(fs) + 1
    BY <1>1, <1>4
  <2> HIDE DEF S, x
  <2>3. /\ Len(InsertAt(fs, x, M)) = Len(fs) + 1
        /\ \A j \in 1 .. Len(fs) + 1 :
             InsertAt(fs, x, M)[j] = IF j < x THEN fs[j] ELSE IF j = x THEN M ELSE fs[j - 1]
    BY <2>1, <2>2, InsertAtIs
  <2> QED BY <2>3 DEF x
<1>10. InsertAfterLine(d) = e
  BY <1>3, <1>4 DEF InsertAfterLine, AppendCell, AppendLine, g, h, M, N
<1> HIDE DEF ls, fn
<1>11. /\ e \in DocSet /\ e.lines = ls /\ e.cells = g /\ OtherFields(e, d)
  BY <1>2, <1>5, <1>8 DEF DocSet, OtherFields, LineHeap
<1> HIDE DEF e
\* The text.
<1>12. a.lines[a.row] # <<>>
  BY <1>1
<1>13. /\ b \in TextSet /\ b \in Texts!NewLine(a) /\ b.row = a.row /\ b.col = a.col
       /\ Len(b.lines) = Len(a.lines) + 1
       /\ \A j \in 1 .. Len(b.lines) :
            b.lines[j] = IF j < a.row + 1 THEN a.lines[j]
                         ELSE IF j = a.row + 1 THEN <<Space>> ELSE a.lines[j - 1]
       /\ Filled(b)
       /\ ~Below(b, 1)
  <2>1. Len(a.lines) \in Nat
    BY <1>1
  <2> QED BY <2>1, <1>1, <1>2, <1>12, WithLineIs
<1> DEFINE sp == <<Space>>
<1>14. \A j \in 1 .. Len(b.lines) :
         b.lines[j] = IF j < a.row + 1 THEN a.lines[j]
                      ELSE IF j = a.row + 1 THEN sp ELSE a.lines[j - 1]
  BY <1>13
<1>15. Len(sp) = 1 /\ sp[1] = Space /\ Len(one) = 1 /\ one[1] = N /\ one # <<>>
  <2>1. \A c : Len(<<c>>) = 1 /\ <<c>>[1] = c /\ <<c>> # <<>>
    OBVIOUS
  <2> QED BY <2>1
<1> HIDE DEF b, sp, one
\* The line of each row: one of before, or the new one.
<1>16. ASSUME NEW j \in 1 .. Len(b.lines)
       PROVE  \/ j = a.row + 1 /\ fn[k + j] = M /\ b.lines[j] = sp
              \/ \E o \in 1 .. Len(a.lines) : /\ fn[k + j] = fs[k + o] /\ b.lines[j] = a.lines[o]
                                              /\ (j = a.row => o = a.row)
  <2>0. /\ a.row \in Nat /\ k \in Nat /\ i = k + a.row /\ Len(fs) + 1 = k + (Len(a.lines) + 1)
        /\ k + j \in 1 .. Len(fs) + 1 /\ Len(a.lines) \in Nat /\ j \in 1 .. Len(a.lines) + 1
        /\ j \in Nat /\ a.row <= Len(a.lines)
    <3>1. \A x, y, r, z : x \in Nat /\ y \in Nat /\ z \in 0 .. x - 1 /\ y = x - z /\ r \in 1 .. y
            => /\ r \in Nat /\ z \in Nat /\ x + 1 = z + (y + 1) /\ r <= y
               /\ \A w \in 1 .. y + 1 : z + w \in 1 .. x + 1 /\ w \in Nat
      OBVIOUS
    <3>2. j \in 1 .. Len(a.lines) + 1 /\ Len(a.lines) \in Nat
      BY <1>1, <1>13
    <3>3. i = k + a.row
      BY DEF i
    <3> QED BY <3>1, <3>2, <3>3, <1>1
  <2>1. CASE j < a.row + 1
    <3>0. \A z, w, r, y : /\ z \in Nat /\ w \in Nat /\ r \in Nat /\ y \in Nat /\ w \in 1 .. y + 1
                          /\ w < r + 1 /\ r <= y
                          => z + w < (z + r) + 1 /\ w \in 1 .. y
      OBVIOUS
    <3>1. k + j < i + 1 /\ j \in 1 .. Len(a.lines)
      BY <2>0, <2>1, <3>0
    <3>2. fn[k + j] = fs[k + j] /\ b.lines[j] = a.lines[j]
      BY <2>0, <2>1, <3>1, <1>9, <1>14
    <3> QED BY <3>1, <3>2
  <2>2. CASE j = a.row + 1
    <3>1. k + j = i + 1 /\ ~(k + j < i + 1) /\ ~(j < a.row + 1)
      BY <2>0, <2>2
    <3>2. fn[k + j] = M
      BY <2>0, <3>1, <1>9
    <3>3. b.lines[j] = sp
      BY <3>1, <2>2, <1>14
    <3> QED BY <2>2, <3>2, <3>3
  <2>3. CASE j > a.row + 1
    <3>1. /\ k + j # i + 1 /\ ~(k + j < i + 1) /\ j - 1 \in 1 .. Len(a.lines)
          /\ (k + j) - 1 = k + (j - 1) /\ ~(j < a.row + 1) /\ j # a.row + 1 /\ j # a.row
      BY <2>0, <2>3
    <3>2. fn[k + j] = fs[(k + j) - 1]
      BY <2>0, <3>1, <1>9
    <3>3. b.lines[j] = a.lines[j - 1]
      BY <3>1, <1>14
    <3>4. fn[k + j] = fs[k + (j - 1)]
      BY <3>1, <3>2
    <3> QED BY <3>1, <3>3, <3>4
  <2> QED BY <2>0, <2>1, <2>2, <2>3
<1>17. ASSUME NEW o \in 1 .. Len(a.lines)
       PROVE  /\ fs[k + o] \in 1 .. Len(cs) /\ n[fs[k + o]] = cs[fs[k + o]]
              /\ Len(cs[fs[k + o]]) = Len(a.lines[o])
              /\ \A q \in 1 .. Len(a.lines[o]) :
                   /\ cs[fs[k + o]][q] \in 1 .. Len(d.cells)
                   /\ g[cs[fs[k + o]][q]] = d.cells[cs[fs[k + o]][q]]
  <2>1. /\ fs[k + o] \in 1 .. Len(cs) /\ Len(cs[fs[k + o]]) = Len(a.lines[o])
        /\ \A q \in 1 .. Len(cs[fs[k + o]]) : cs[fs[k + o]][q] \in 1 .. Len(d.cells)
    BY <1>0, LineNumbers
  <2> QED BY <2>1, <1>5, <1>6
<1>18. n[M] = one /\ M \in 1 .. Len(ls)
  BY <1>1, <1>6, <1>7, <1>8 DEF M
<1>19. Reads(g, b.lines, fn, k, n)
  <2>1. Len(b.lines) = Len(fn) - k
    BY <1>1, <1>9, <1>13
  <2>2. ASSUME NEW j \in 1 .. Len(b.lines)
        PROVE  /\ Len(b.lines[j]) = Len(n[fn[k + j]])
               /\ \A q \in 1 .. Len(b.lines[j]) : b.lines[j][q] = g[n[fn[k + j]][q]].c
    <3>1. CASE j = a.row + 1 /\ fn[k + j] = M /\ b.lines[j] = sp
      <4>1. g[N].c = Space
        BY <1>5 DEF Cell
      <4>2. b.lines[j] = sp /\ n[fn[k + j]] = one
        BY <3>1, <1>18
      <4> QED BY <4>1, <4>2, <1>15
    <3>2. ASSUME NEW o \in 1 .. Len(a.lines), fn[k + j] = fs[k + o], b.lines[j] = a.lines[o]
          PROVE  /\ Len(b.lines[j]) = Len(n[fn[k + j]])
                 /\ \A q \in 1 .. Len(b.lines[j]) : b.lines[j][q] = g[n[fn[k + j]][q]].c
      <4>1. n[fn[k + j]] = cs[fs[k + o]] /\ Len(cs[fs[k + o]]) = Len(a.lines[o])
        BY <3>2, <1>17
      <4>2. \A q \in 1 .. Len(a.lines[o]) : a.lines[o][q] = d.cells[cs[fs[k + o]][q]].c
        BY <1>2 DEF Reads
      <4>3. \A q \in 1 .. Len(a.lines[o]) : a.lines[o][q] = g[cs[fs[k + o]][q]].c
        BY <4>2, <1>17
      <4> QED BY <4>1, <4>3, <3>2
    <3> QED BY <3>1, <3>2, <1>16
  <2> QED BY <2>1, <2>2 DEF Reads
<1>20. Buffers(ls, n)
  <2>1. \A l \in 1 .. Len(h) : ls[l].buffer = h[l].buffer
    BY <1>8 DEF SameData
  <2>2. ASSUME NEW l \in 1 .. Len(ls)
        PROVE  ls[l].buffer = IF n[l] = <<>> THEN Null ELSE n[l][1]
    <3>1. CASE l = M
      <4>1. ls[l].buffer = N
        BY <2>1, <3>1, <1>7, <1>8
      <4> QED BY <4>1, <3>1, <1>15, <1>18
    <3>2. CASE l # M
      <4>1. l \in 1 .. Len(d.lines) /\ l \in 1 .. Len(cs)
        BY <3>2, <1>1, <1>7, <1>8 DEF M
      <4>2. ls[l].buffer = d.lines[l].buffer
        BY <2>1, <4>1, <1>7, <1>8
      <4>3. n[l] = cs[l]
        BY <4>1, <1>6
      <4>4. d.lines[l].buffer = IF cs[l] = <<>> THEN Null ELSE cs[l][1]
        BY <4>1, <1>2 DEF Buffers
      <4> QED BY <4>2, <4>3, <4>4
    <3> QED BY <3>1, <3>2
  <2>3. Len(n) = Len(ls)
    BY <1>1, <1>6, <1>7, <1>8 DEF M
  <2> QED BY <2>2, <2>3 DEF Buffers
<1>21. /\ e.file_buffer = fn[1] /\ e.current_line = L /\ e.current_text = d.current_text
       /\ e.screen_start = d.screen_start /\ e.cursorY = d.cursorY /\ e.wild = d.wild
       /\ fn[k + a.row] = L
  <2>1. 1 < i + 1 /\ 1 \in 1 .. Len(fs) + 1 /\ i \in 1 .. Len(fs) + 1 /\ i < i + 1
    BY <1>1, <1>4
  <2>2. fn[1] = fs[1] /\ fn[i] = fs[i]
    BY <2>1, <1>9
  <2> QED BY <2>2, <1>2, <1>3, <1>4, <1>11 DEF OtherFields, i
<1>22. b.lines[a.row] = a.lines[a.row] /\ n[L] = cs[L] /\ a.row \in 1 .. Len(b.lines)
  <2>1. a.row \in 1 .. Len(b.lines) /\ a.row < a.row + 1
    BY <1>1, <1>13
  <2> QED BY <2>1, <1>3, <1>6, <1>14
<1>23. InPlace(e, b, fn, k, n)
  BY <1>1, <1>3, <1>13, <1>21, <1>22 DEF InPlace
<1>24. OneFlag(e, fn, k, n)
  <2>1. ASSUME NEW j \in 1 .. Len(fn) - k, NEW q \in 1 .. Len(n[fn[k + j]]),
               g[n[fn[k + j]][q]].cursor
        PROVE  n[fn[k + j]][q] = d.current_text
    <3>0. j \in 1 .. Len(b.lines)
      BY <1>1, <1>9, <1>13
    <3>1. CASE fn[k + j] = M
      <4>0. n[fn[k + j]] = one
        BY <3>1, <1>18
      <4>3. q = 1
        BY <4>0, <1>15
      <4>1. n[fn[k + j]][q] = N
        BY <4>0, <4>3, <1>15
      <4>2. g[N].cursor = FALSE
        BY <1>5 DEF Cell
      <4> QED BY <4>1, <4>2, <2>1
    <3>2. ASSUME NEW o \in 1 .. Len(a.lines), fn[k + j] = fs[k + o]
          PROVE  n[fn[k + j]][q] = d.current_text
      <4>1. /\ n[fn[k + j]] = cs[fs[k + o]] /\ q \in 1 .. Len(a.lines[o])
            /\ q \in 1 .. Len(cs[fs[k + o]])
        BY <3>2, <1>17
      <4>2. d.cells[cs[fs[k + o]][q]].cursor
        BY <4>1, <2>1, <1>17
      <4>3. o \in 1 .. Len(fs) - k
        BY <1>1
      <4> QED BY <4>1, <4>2, <4>3, <1>2 DEF OneFlag
    <3> QED BY <3>0, <3>1, <3>2, <1>16
  <2> QED BY <2>1, <1>11, <1>21 DEF OneFlag
<1>25. e.screen_start \in 0 .. Len(e.lines)
  BY <1>1, <1>2, <1>7, <1>8, <1>11, <1>21 DEF M
<1>26. Sound(e, b, fn, k, n)
  BY <1>5, <1>6, <1>8, <1>11, <1>13, <1>19, <1>20, <1>21, <1>23, <1>24, <1>25 DEF Sound
<1>27. On(d) => On(e)
  <2>1. d.current_text \in 1 .. Len(d.cells)
    BY <1>3
  <2> QED BY <2>1, <1>5, <1>11, <1>21 DEF On
<1>28. b.row # Len(b.lines)
  BY <1>1, <1>13
<1>29. Lengthened(e, b, d, a)
  BY <1>13, <1>21, <1>26, <1>27, <1>28 DEF Lengthened, Shows
<1> QED BY <1>10, <1>13, <1>29 DEF b

-----------------------------------------------------------------------------
(* Deletions in a line.                                                    *)

\* The heap g is h without the q-th cell of the line s.
Shrunk(g, h, s, q) ==
  /\ Len(g) = Len(h) /\ Linking(g) /\ IsList(g, RemoveAt(s, q), 0)
  /\ \A m \in 1 .. Len(h) : m # s[q] => g[m].c = h[m].c /\ g[m].cursor = h[m].cursor
  /\ \A m \in 1 .. Len(h) : Outside(s, m) => g[m].next = h[m].next /\ g[m].prev = h[m].prev

LEMMA ShrunkCell ==
  ASSUME NEW h \in CellHeap, Linking(h), NEW s, IsList(h, s, 0), NEW i \in 1 .. Len(s),
         Len(s) > 1
  PROVE  LET g == DeletedCell(h, s[i])
         IN g \in CellHeap /\ Shrunk(g, h, s, i)
<1> DEFINE f == DeleteNode(h, s[i])
           blank == Cell(Space)
           t == RemoveAt(s, i)
<1>1. /\ h \in Seq(CellSet) /\ Len(h) \in Nat /\ Len(s) \in Nat /\ s \in Seq(1 .. Len(h))
      /\ \A j \in 1 .. Len(s) : s[j] \in 1 .. Len(h)
  <2>1. h \in Seq(CellSet) /\ Len(h) \in Nat
    BY HeapFacts DEF CellHeap
  <2> QED BY <2>1, ListFacts
<1>2. i \in 0 + 1 .. Len(s) /\ Len(s) > 0 + 1
  BY <1>1
<1>3. /\ f \in Seq(CellSet) /\ Len(f) = Len(h) /\ SameData(f, h) /\ Linking(f)
      /\ \A m \in 1 .. Len(h) : Outside(s, m) =>
           f[m].next = h[m].next /\ f[m].prev = h[m].prev
  <2>1. NodeSet(CellSet) /\ h \in Seq(CellSet) /\ i \in 0 + 1 .. Len(s)
    BY <1>1, <1>2, NodeSets
  <2> HIDE DEF f
  <2>2. /\ f \in Seq(CellSet) /\ Len(f) = Len(h) /\ SameData(f, h) /\ Linking(f)
    BY <2>1, DeletedLinks DEF f
  <2>3. \A m \in 1 .. Len(h) : Outside(s, m) =>
           f[m].next = h[m].next /\ f[m].prev = h[m].prev
    BY <2>1, DeletedLinks DEF f
  <2> QED BY <2>2, <2>3
<1>4. IsList(f, t, 0)
  BY <1>1, <1>2, NodeSets, ListRemove
<1>5. /\ blank \in CellSet /\ blank.prev = 0 /\ blank.next = 0
  BY Spaces DEF Cell, CellSet, Null
<1>6. Outside(t, s[i])
  <2>1. Injective(s)
    BY DEF IsList
  <2> QED BY <2>1, <1>1, RemoveInjective
<1> HIDE DEF f, blank, t
<1>7. PICK n : n = s[i]
  OBVIOUS
<1> DEFINE g == [f EXCEPT ![n] = blank]
<1>8. /\ n \in 1 .. Len(h) /\ g \in Seq(CellSet) /\ Len(g) = Len(h)
      /\ \A m \in 1 .. Len(h) : g[m] = IF m = n THEN blank ELSE f[m]
  <2>1. n \in 1 .. Len(h)
    BY <1>1, <1>7
  <2> QED BY <2>1, <1>1, <1>3, <1>5
<1>9. DeletedCell(h, s[i]) = g
  BY <1>7 DEF DeletedCell, f, blank
<1> HIDE DEF g
<1>10. Linking(g)
  <2>1. ASSUME NEW m \in 1 .. Len(g) PROVE g[m].prev \in 0 .. Len(g) /\ g[m].next \in 0 .. Len(g)
    <3>1. m \in 1 .. Len(f) /\ m \in 1 .. Len(h)
      BY <1>3, <1>8
    <3>2. f[m].prev \in 0 .. Len(f) /\ f[m].next \in 0 .. Len(f)
      BY <3>1, <1>3 DEF Linking
    <3>3. 0 \in 0 .. Len(g)
      BY <1>1, <1>8
    <3> QED BY <3>1, <3>2, <3>3, <1>3, <1>5, <1>8
  <2> QED BY <2>1 DEF Linking
<1>11. IsList(g, t, 0)
  <2>1. /\ Len(f) \in Nat /\ Len(g) \in Nat /\ Len(f) <= Len(g)
    BY <1>1, <1>3, <1>8
  <2>2. \A j \in 1 .. Len(t) : t[j] \in 1 .. Len(h) /\ t[j] # n
    <3>1. \A j \in 1 .. Len(t) : t[j] \in 1 .. Len(f)
      BY <1>4, <2>1, ListFacts
    <3> QED BY <3>1, <1>3, <1>6, <1>7 DEF Outside
  <2>3. \A j \in 1 .. Len(t) : g[t[j]] = f[t[j]]
    BY <2>2, <1>8
  <2>4. /\ \A j \in 1 .. Len(t) : g[t[j]].next = f[t[j]].next
        /\ \A j \in 0 + 1 .. Len(t) : g[t[j]].prev = f[t[j]].prev
    BY <2>3
  <2> QED BY <2>1, <2>4, <1>4, ListKept
<1>12. \A m \in 1 .. Len(h) : m # s[i] => g[m].c = h[m].c /\ g[m].cursor = h[m].cursor
  <2>1. ASSUME NEW m \in 1 .. Len(h), m # s[i]
        PROVE  g[m].c = h[m].c /\ g[m].cursor = h[m].cursor
    <3>1. g[m] = f[m]
      BY <2>1, <1>7, <1>8
    <3> QED BY <3>1, <1>3 DEF SameData
  <2> QED BY <2>1
<1>13. \A m \in 1 .. Len(h) : Outside(s, m) => g[m].next = h[m].next /\ g[m].prev = h[m].prev
  <2>1. ASSUME NEW m \in 1 .. Len(h), Outside(s, m)
        PROVE  g[m].next = h[m].next /\ g[m].prev = h[m].prev
    <3>1. m # n
      BY <2>1, <1>7 DEF Outside
    <3> QED BY <3>1, <2>1, <1>3, <1>8
  <2> QED BY <2>1
<1>14. Shrunk(g, h, s, i)
  BY <1>8, <1>10, <1>11, <1>12, <1>13 DEF Shrunk, t
<1> QED BY <1>8, <1>9, <1>14 DEF CellHeap

\* The sequence t is s without its q-th element.
OneLess(t, s, q) ==
  Len(t) = Len(s) - 1 /\ \A j \in 1 .. Len(t) : t[j] = IF j < q THEN s[j] ELSE s[j + 1]

LEMMA ShrunkLists ==
  ASSUME NEW h \in CellHeap, NEW g \in CellHeap, NEW cs, CellLists(h, cs),
         NEW L \in 1 .. Len(cs), NEW q \in 1 .. Len(cs[L]), Shrunk(g, h, cs[L], q)
  PROVE  LET t == RemoveAt(cs[L], q)
             n == [cs EXCEPT ![L] = t]
         IN CellLists(g, n) /\ Replaced(n, cs, L, t) /\ OneLess(t, cs[L], q)
<1> DEFINE s == cs[L]
           t == RemoveAt(s, q)
           n == [cs EXCEPT ![L] = t]
           S == 1 .. Len(h)
<1>1. /\ Len(cs) \in Nat /\ DOMAIN cs = 1 .. Len(cs) /\ cs \in Seq(Seq(S))
      /\ \A l \in 1 .. Len(cs) : /\ cs[l] \in Seq(S) /\ Len(cs[l]) \in Nat
                                 /\ \A p \in 1 .. Len(cs[l]) : cs[l][p] \in S
  BY CellListFacts DEF CellLists
<1>2. Len(h) \in Nat /\ Len(g) = Len(h)
  BY HeapFacts DEF Shrunk
<1>3. IsList(g, t, 0)
  BY DEF Shrunk
<1>4. s \in Seq(S) /\ Len(s) \in Nat /\ q \in 1 .. Len(s)
  BY <1>1
<1>5. /\ t \in Seq(S) /\ Len(t) = Len(s) - 1
      /\ \A j \in 1 .. Len(s) - 1 : t[j] = IF j < q THEN s[j] ELSE s[j + 1]
  <2> HIDE DEF s, S
  <2> QED BY <1>4, RemoveAtIs
<1>6. \A l, m \in 1 .. Len(cs) : \A p \in 1 .. Len(cs[l]), r \in 1 .. Len(cs[m]) :
        cs[l][p] = cs[m][r] => l = m
  BY DEF CellLists
<1>7. ASSUME NEW p \in 1 .. Len(t)
      PROVE  \E j \in 1 .. Len(s) : t[p] = s[j]
  <2> HIDE DEF s, t
  <2>1. CASE p < q
    <3>1. p \in 1 .. Len(s) /\ p \in 1 .. Len(s) - 1
      BY <2>1, <1>4, <1>5
    <3> QED BY <3>1, <2>1, <1>5
  <2>2. CASE ~(p < q)
    <3>1. p + 1 \in 1 .. Len(s) /\ p \in 1 .. Len(s) - 1
      BY <2>2, <1>4, <1>5
    <3> QED BY <3>1, <2>2, <1>5
  <2> QED BY <2>1, <2>2
<1> HIDE DEF t
<1>8. /\ n \in Seq(Seq(S)) /\ Len(n) = Len(cs)
      /\ \A l \in 1 .. Len(cs) : n[l] = IF l = L THEN t ELSE cs[l]
  <2> DEFINE T == Seq(S)
  <2>1. t \in T /\ cs \in Seq(T) /\ DOMAIN cs = 1 .. Len(cs) /\ Len(cs) \in Nat
    BY <1>1, <1>5
  <2> HIDE DEF T, s
  <2> QED BY <2>1 DEF T
<1> HIDE DEF n
<1>9. ASSUME NEW l \in 1 .. Len(n) PROVE n[l] = <<>> \/ IsList(g, n[l], 0)
  <2>1. CASE l = L
    BY <2>1, <1>3, <1>8
  <2>2. CASE l # L /\ cs[l] # <<>>
    <3>1. n[l] = cs[l] /\ IsList(h, cs[l], 0) /\ l \in 1 .. Len(cs)
      BY <2>2, <1>8 DEF CellLists
    <3>2. ASSUME NEW i \in 1 .. Len(cs[l])
          PROVE  cs[l][i] \in 1 .. Len(h) /\ Outside(s, cs[l][i])
      <4>1. cs[l][i] \in 1 .. Len(h)
        BY <1>1, <3>1
      <4>2. ASSUME NEW j \in 1 .. Len(s) PROVE s[j] # cs[l][i]
        BY <1>6, <3>1, <2>2
      <4> QED BY <4>1, <4>2 DEF Outside
    <3> HIDE DEF s
    <3>3. \A i \in 1 .. Len(cs[l]) : /\ g[cs[l][i]].next = h[cs[l][i]].next
                                     /\ g[cs[l][i]].prev = h[cs[l][i]].prev
      BY <3>2 DEF Shrunk, s
    <3>4. \A i \in 1 .. Len(cs[l]) : g[cs[l][i]].next = h[cs[l][i]].next
      BY <3>3
    <3>5. \A i \in 0 + 1 .. Len(cs[l]) : g[cs[l][i]].prev = h[cs[l][i]].prev
      BY <3>3
    <3>6. Len(g) \in Nat /\ Len(h) <= Len(g)
      BY <1>2
    <3> QED BY <1>2, <3>1, <3>4, <3>5, <3>6, ListKept
  <2>3. CASE l # L /\ cs[l] = <<>>
    BY <2>3, <1>8
  <2> QED BY <2>1, <2>2, <2>3
\* Each cell of a line of n is one of the same line of cs.
<1>0. ASSUME NEW l \in 1 .. Len(cs), NEW p \in 1 .. Len(n[l])
      PROVE  \E j \in 1 .. Len(cs[l]) : n[l][p] = cs[l][j]
  BY <1>7, <1>8
<1>10. ASSUME NEW l \in 1 .. Len(n), NEW m \in 1 .. Len(n),
              NEW p \in 1 .. Len(n[l]), NEW r \in 1 .. Len(n[m]), n[l][p] = n[m][r]
       PROVE  l = m
  <2>0. l \in 1 .. Len(cs) /\ m \in 1 .. Len(cs)
    BY <1>8
  <2>1. PICK i \in 1 .. Len(cs[l]) : n[l][p] = cs[l][i]
    BY <2>0, <1>0
  <2>2. PICK j \in 1 .. Len(cs[m]) : n[m][r] = cs[m][j]
    BY <2>0, <1>0
  <2> QED BY <2>0, <2>1, <2>2, <1>6, <1>10
<1>11. CellLists(g, n)
  BY <1>2, <1>8, <1>9, <1>10 DEF CellLists, S
<1>12. Replaced(n, cs, L, t)
  BY <1>8 DEF Replaced
<1>13. OneLess(t, s, q)
  BY <1>5 DEF OneLess
<1> QED BY <1>11, <1>12, <1>13 DEF n, t

\* A cell less in the current line, the cursor being shown on another one of it.
LEMMA ShrunkRetypes ==
  ASSUME NEW d, NEW a, NEW fs, NEW k, NEW cs, Sound(d, a, fs, k, cs),
         NEW g \in CellHeap, Shrunk(g, d.cells, cs[RowLine(a, fs, k)], a.col),
         NEW e \in DocSet, SameText(e.cells, g),
         \A m \in 1 .. Len(g) :
           e.cells[m].cursor = IF m = e.current_text THEN TRUE ELSE g[m].cursor,
         SameLinks(e.lines, d.lines),
         NEW t, t = RemoveAt(cs[RowLine(a, fs, k)], a.col),
         \A l \in 1 .. Len(d.lines) :
           e.lines[l].buffer = IF l = RowLine(a, fs, k) THEN t[1] ELSE d.lines[l].buffer,
         NEW col \in 1 .. Len(t), e.current_text = t[col],
         e.file_buffer = d.file_buffer, e.current_line = d.current_line,
         e.screen_start \in 0 .. Len(d.lines)
  PROVE  \E n : Retypes(e, d, RowLine(a, fs, k), cs, n, t, RemoveAt(a.lines[a.row], a.col), col)
<1> DEFINE L == RowLine(a, fs, k)
           s == cs[L]
           n == [cs EXCEPT ![L] = t]
           old == a.lines[a.row]
           line == RemoveAt(old, a.col)
           p == a.col
<1>1. /\ a.row \in 1 .. Len(a.lines) /\ p \in 1 .. Len(old) /\ Len(old) \in Nat
      /\ d.cells \in CellHeap /\ Len(cs) = Len(d.lines) /\ Len(d.cells) \in Nat
  BY SoundLengths
<1>2. L \in 1 .. Len(cs) /\ Len(s) = Len(old) /\ d.current_line = L /\ d.current_text = s[p]
  BY RowNumbers
<1>30. \A j \in 1 .. Len(s) : s[j] \in 1 .. Len(d.cells)
  BY RowNumbers
<1>3. a \in TextSet
  BY SoundCurrent
<1>4. /\ CellLists(d.cells, cs) /\ Reads(d.cells, a.lines, fs, k, cs) /\ OneFlag(d, fs, k, cs)
  BY DEF Sound
<1>5. old \in Seq(AllChars)
  <2> DEFINE S == Seq(AllChars)
  <2>1. a.lines \in Seq(S)
    BY <1>3 DEF TextSet
  <2> HIDE DEF S
  <2>2. a.lines[a.row] \in S
    BY <2>1, <1>1
  <2> QED BY <2>2 DEF S
<1>6. \A j \in 1 .. Len(s) : old[j] = d.cells[s[j]].c
  <2>1. PICK r \in 1 .. Len(a.lines) : r = a.row
    BY <1>1
  <2>2. fs[k + r] = L
    BY <2>1 DEF RowLine
  <2> HIDE DEF L
  <2>3. \A j \in 1 .. Len(a.lines[r]) : a.lines[r][j] = d.cells[cs[L][j]].c
    BY <2>2, <1>4 DEF Reads
  <2> QED BY <2>1, <2>3, <1>2
<1>7. \A j \in 1 .. Len(s) : d.cells[s[j]].cursor => s[j] = d.current_text
  <2>1. PICK r \in 1 .. Len(fs) - k : r = a.row
    BY <1>1, SoundLengths
  <2>2. fs[k + r] = L
    BY <2>1 DEF RowLine
  <2> HIDE DEF L
  <2> QED BY <2>1, <2>2, <1>4 DEF OneFlag
<1>8. Injective(s)
  <2>1. IsList(d.cells, s, 0)
    BY RowNumbers
  <2> QED BY <2>1 DEF IsList
<1>9. p \in 1 .. Len(s)
  BY <1>1, <1>2
<1>10. /\ CellLists(g, n) /\ Replaced(n, cs, L, t) /\ Len(t) = Len(s) - 1
       /\ \A j \in 1 .. Len(t) : t[j] = IF j < p THEN s[j] ELSE s[j + 1]
  <2>1. Shrunk(g, d.cells, cs[L], p) /\ t = RemoveAt(cs[L], p)
    OBVIOUS
  <2> DEFINE u == RemoveAt(cs[L], p)
             v == [cs EXCEPT ![L] = u]
  <2>2. p \in 1 .. Len(cs[L])
    BY <1>9
  <2> HIDE DEF L, p
  <2>3. CellLists(g, v) /\ Replaced(v, cs, L, u) /\ OneLess(u, cs[L], p)
    BY <2>1, <2>2, <1>1, <1>2, <1>4, ShrunkLists
  <2>4. u = t
    BY <2>1
  <2> HIDE DEF u
  <2> QED BY <2>3, <2>4 DEF OneLess
<1>11. /\ line \in Seq(AllChars) /\ Len(line) = Len(old) - 1
       /\ \A j \in 1 .. Len(old) - 1 : line[j] = IF j < p THEN old[j] ELSE old[j + 1]
  <2>1. p \in 1 .. Len(old)
    BY <1>1
  <2> HIDE DEF old, p
  <2> QED BY <2>1, <1>5, RemoveAtIs DEF p
<1>12. /\ Len(g) = Len(d.cells) /\ Linking(g)
       /\ \A m \in 1 .. Len(d.cells) : m # s[p] =>
            g[m].c = d.cells[m].c /\ g[m].cursor = d.cells[m].cursor
  BY DEF Shrunk
<1>13. CellLists(e.cells, n) /\ Linking(e.cells) /\ Len(e.cells) = Len(d.cells)
  <2>1. e.cells \in CellHeap
    BY DEF DocSet
  <2> HIDE DEF n
  <2>2. CellLists(e.cells, n) /\ Linking(e.cells)
    BY <2>1, <1>10, <1>12, SameTextKept
  <2>3. Len(e.cells) = Len(d.cells)
    BY <1>12 DEF SameText
  <2> QED BY <2>2, <2>3
<1>14. ASSUME NEW m \in 1 .. Len(d.cells), m # s[p]
       PROVE  /\ e.cells[m].c = d.cells[m].c
              /\ e.cells[m].cursor = IF m = e.current_text THEN TRUE ELSE d.cells[m].cursor
  <2>1. m \in 1 .. Len(g)
    BY <1>12
  <2>2. e.cells[m].c = g[m].c
    BY <2>1 DEF SameText
  <2> QED BY <2>1, <2>2, <1>12, <1>14
<1> HIDE DEF L, s, n, line
\* A cell of t, and where it was.
<1>15. ASSUME NEW j \in 1 .. Len(t)
       PROVE  \E o \in 1 .. Len(s) : o # p /\ t[j] = s[o] /\ line[j] = old[o]
  <2>0. j \in 1 .. Len(s) - 1 /\ Len(s) \in Nat /\ p \in 1 .. Len(s) /\ j \in 1 .. Len(old) - 1
    BY <1>1, <1>2, <1>9, <1>10
  <2>1. CASE j < p
    <3>1. j \in 1 .. Len(s) /\ j # p
      BY <2>0, <2>1
    <3> QED BY <3>1, <2>0, <2>1, <1>10, <1>11
  <2>2. CASE ~(j < p)
    <3>1. j + 1 \in 1 .. Len(s) /\ j + 1 # p
      BY <2>0, <2>2
    <3> QED BY <3>1, <2>0, <2>2, <1>10, <1>11
  <2> QED BY <2>1, <2>2
<1>16. ASSUME NEW j \in 1 .. Len(t)
       PROVE  line[j] = e.cells[t[j]].c /\ (e.cells[t[j]].cursor => t[j] = e.current_text)
  <2>1. PICK o \in 1 .. Len(s) : o # p /\ t[j] = s[o] /\ line[j] = old[o]
    BY <1>15
  <2>2. s[o] \in 1 .. Len(d.cells) /\ s[o] # s[p]
    BY <2>1, <1>8, <1>9, <1>30 DEF Injective
  <2>3. ~d.cells[s[o]].cursor
    BY <2>2, <1>2, <1>7
  <2> QED BY <2>1, <2>2, <2>3, <1>6, <1>14
<1>17. Len(t) = Len(line) /\ col \in 1 .. Len(line)
  BY <1>2, <1>10, <1>11
<1>18. ASSUME NEW m \in 1 .. Len(d.cells), Outside(s, m)
       PROVE  e.cells[m].c = d.cells[m].c /\ e.cells[m].cursor = d.cells[m].cursor
  <2>1. m # s[p]
    BY <1>9, <1>18 DEF Outside
  <2>2. m # e.current_text
    <3>1. PICK o \in 1 .. Len(s) : t[col] = s[o]
      BY <1>15
    <3> QED BY <3>1, <1>18 DEF Outside
  <2> QED BY <2>1, <2>2, <1>14
<1>19. \A l \in 1 .. Len(d.lines) : e.lines[l].buffer = IF l = L THEN t[1] ELSE d.lines[l].buffer
  BY DEF L
<1>20. Retypes(e, d, L, cs, n, t, line, col)
  BY <1>2, <1>10, <1>11, <1>13, <1>16, <1>17, <1>18, <1>19 DEF Retypes, s
<1> QED BY <1>20 DEF L, line, old

\* What a deletion in a line writes: the heap g but for the flag of the cursor, which is
\* at cell now, and the first cell of the line.
Gone(e, d, L, g, cell, first) ==
  /\ Sized(e, [d EXCEPT !.current_text = cell], L, e.cells, first)
  /\ SameText(e.cells, g)
  /\ \A m \in 1 .. Len(g) : e.cells[m].cursor = IF m = cell THEN TRUE ELSE g[m].cursor

LEMMA CellGone ==
  ASSUME NEW d \in DocSet, NEW L \in 1 .. Len(d.lines), NEW g \in CellHeap,
         NEW cell \in 1 .. Len(g), NEW first \in Nat
  PROVE  /\ Gone(Flag([d EXCEPT !.cells = g, !.current_text = cell], TRUE),
                 d, L, g, cell, d.lines[L].buffer)
         /\ Gone(Flag([d EXCEPT !.cells = g, !.current_text = cell,
                                !.lines[L].buffer = first], TRUE), d, L, g, cell, first)
<1> DEFINE dc == [d EXCEPT !.current_text = cell]
           r == [d.lines[L] EXCEPT !.buffer = first]
           ls == [d.lines EXCEPT ![L] = r]
           x == [d EXCEPT !.cells = g, !.current_text = cell]
           y == [d EXCEPT !.cells = g, !.current_text = cell, !.lines = ls]
<1>1. /\ d.lines \in Seq(LineSet) /\ d.lines[L] \in LineSet
      /\ cell \in Nat
  <2>1. d.lines \in LineHeap
    BY DEF DocSet
  <2> QED BY <2>1, HeapFacts DEF LineHeap
<1>2. /\ r \in LineSet /\ r.prev = d.lines[L].prev /\ r.next = d.lines[L].next /\ r.buffer = first
  BY <1>1 DEF LineSet
<1> HIDE DEF r
<1>3. /\ ls \in Seq(LineSet) /\ Len(ls) = Len(d.lines)
      /\ \A l \in 1 .. Len(d.lines) : ls[l] = IF l = L THEN r ELSE d.lines[l]
  BY <1>1, <1>2
<1>4. [d EXCEPT !.cells = g, !.current_text = cell, !.lines[L].buffer = first] = y
  BY DEF r, DocSet
<1> HIDE DEF ls
<1>5. /\ x \in DocSet /\ x.lines = d.lines /\ x.cells = g
      /\ OtherFields(x, dc) /\ x.current_text = cell
      /\ y \in DocSet /\ y.lines = ls /\ y.cells = g /\ OtherFields(y, dc) /\ y.current_text = cell
      /\ dc.lines = d.lines
  BY <1>1, <1>3 DEF DocSet, OtherFields, LineHeap
<1> HIDE DEF x, y, dc
<1>6. ASSUME NEW z \in DocSet, z.cells = g, OtherFields(z, dc), z.current_text = cell
      PROVE  LET e == Flag(z, TRUE)
             IN /\ e \in DocSet /\ e.lines = z.lines /\ OtherFields(e, dc) /\ SameText(e.cells, g)
                /\ \A m \in 1 .. Len(g) : e.cells[m].cursor = IF m = cell THEN TRUE ELSE g[m].cursor
  <2> DEFINE e == Flag(z, TRUE)
  <2>1. /\ e \in DocSet /\ SameFrame(e, z) /\ SameText(e.cells, z.cells)
        /\ e.current_line = z.current_line /\ e.current_text = z.current_text
        /\ e.screen_start = z.screen_start /\ e.cursorX = z.cursorX /\ e.cursorY = z.cursorY
        /\ \A m \in 1 .. Len(z.cells) :
             e.cells[m].cursor = IF m = z.current_text THEN TRUE ELSE z.cells[m].cursor
    BY <1>6, FlagIs
  <2> HIDE DEF e
  <2>2. OtherFields(e, dc) /\ e.lines = z.lines
    BY <2>1, <1>6 DEF OtherFields, SameFrame
  <2> QED BY <2>1, <2>2, <1>6 DEF e
<1>7. /\ SameLinks(d.lines, dc.lines) /\ SameLinks(ls, dc.lines)
  BY <1>2, <1>3, <1>5 DEF SameLinks
<1>8. /\ \A l \in 1 .. Len(dc.lines) :
           d.lines[l].buffer = IF l = L THEN d.lines[L].buffer ELSE dc.lines[l].buffer
      /\ \A l \in 1 .. Len(dc.lines) :
           ls[l].buffer = IF l = L THEN first ELSE dc.lines[l].buffer
  BY <1>2, <1>3, <1>5
<1> DEFINE ex == Flag(x, TRUE)
           ey == Flag(y, TRUE)
<1>9. /\ ex \in DocSet /\ ex.lines = d.lines /\ OtherFields(ex, dc) /\ SameText(ex.cells, g)
      /\ \A m \in 1 .. Len(g) : ex.cells[m].cursor = IF m = cell THEN TRUE ELSE g[m].cursor
  BY <1>5, <1>6
<1>10. /\ ey \in DocSet /\ ey.lines = ls /\ OtherFields(ey, dc) /\ SameText(ey.cells, g)
       /\ \A m \in 1 .. Len(g) : ey.cells[m].cursor = IF m = cell THEN TRUE ELSE g[m].cursor
  BY <1>5, <1>6
<1> HIDE DEF ex, ey
<1>11. Sized(ex, dc, L, ex.cells, d.lines[L].buffer)
  BY <1>7, <1>8, <1>9 DEF Sized
<1>12. Sized(ey, dc, L, ey.cells, first)
  BY <1>7, <1>8, <1>10 DEF Sized
<1>13. Gone(ex, d, L, g, cell, d.lines[L].buffer) /\ Gone(ey, d, L, g, cell, first)
  BY <1>9, <1>10, <1>11, <1>12 DEF Gone, dc
<1> QED BY <1>4, <1>13 DEF ex, ey, x, y

\* The document after such a deletion: cell is the current one then, at the column col.
LEMMA ShrunkSound ==
  ASSUME NEW d, NEW a, NEW fs, NEW k, NEW cs, Sound(d, a, fs, k, cs), ~d.wild,
         NEW g \in CellHeap, Shrunk(g, d.cells, cs[RowLine(a, fs, k)], a.col),
         NEW cell \in 1 .. Len(g), NEW e, NEW buffer,
         Gone(e, d, RowLine(a, fs, k), g, cell, buffer),
         NEW t, t = RemoveAt(cs[RowLine(a, fs, k)], a.col), buffer = t[1],
         NEW col \in 1 .. Len(t), cell = t[col]
  PROVE  Edited(e, Retyped(a, RemoveAt(a.lines[a.row], a.col), col), d, a)
<1> DEFINE L == RowLine(a, fs, k)
           line == RemoveAt(a.lines[a.row], a.col)
           b == Retyped(a, line, col)
           dc == [d EXCEPT !.current_text = cell]
<1>1. d \in DocSet /\ d.screen_start \in 0 .. Len(d.lines)
  BY SoundCurrent
<1>2. /\ dc.lines = d.lines /\ dc.file_buffer = d.file_buffer /\ dc.screen_start = d.screen_start
      /\ dc.current_line = d.current_line /\ dc.current_text = cell
      /\ dc.cursorY = d.cursorY /\ dc.wild = d.wild
  BY <1>1 DEF DocSet
<1> HIDE DEF dc
<1>3. /\ e \in DocSet /\ OtherFields(e, dc) /\ SameLinks(e.lines, dc.lines)
      /\ \A l \in 1 .. Len(dc.lines) :
           e.lines[l].buffer = IF l = L THEN buffer ELSE dc.lines[l].buffer
  BY DEF Gone, Sized, dc
<1>30. /\ SameText(e.cells, g)
       /\ \A m \in 1 .. Len(g) : e.cells[m].cursor = IF m = cell THEN TRUE ELSE g[m].cursor
  BY DEF Gone
<1>4. /\ SameLinks(e.lines, d.lines)
      /\ \A l \in 1 .. Len(d.lines) : e.lines[l].buffer = IF l = L THEN t[1] ELSE d.lines[l].buffer
  BY <1>2, <1>3
<1>5. /\ e.file_buffer = d.file_buffer /\ e.screen_start = d.screen_start
      /\ e.current_line = d.current_line /\ e.current_text = cell
      /\ e.cursorY = d.cursorY /\ e.wild = d.wild
  BY <1>2, <1>3 DEF OtherFields
<1>6. \E n : Retypes(e, d, L, cs, n, t, line, col)
  BY <1>1, <1>3, <1>30, <1>4, <1>5, ShrunkRetypes
<1>7. PICK n : Retypes(e, d, L, cs, n, t, line, col)
  BY <1>6
<1> HIDE DEF line
<1>8. Sound(e, b, fs, k, n) /\ b.row = a.row
  BY <1>7, RetypedSound
<1> HIDE DEF b
<1>9. On(e)
  BY <1>5, <1>30 DEF On
<1>10. Len(e.lines) = Len(d.lines)
  BY <1>4 DEF SameLinks
<1> QED BY <1>5, <1>8, <1>9, <1>10 DEF Edited, Shows, Rows, b, line

\* The heaps that differ in the character of a cell hold the same lists.
LEMMA SameLinksCells ==
  ASSUME NEW h \in CellHeap, NEW g \in CellHeap, SameLinks(g, h), Linking(h),
         NEW cs, CellLists(h, cs)
  PROVE  Linking(g) /\ CellLists(g, cs)
<1>1. Len(g) = Len(h) /\ Len(h) \in Nat
  BY HeapFacts DEF SameLinks
<1>2. Linking(g)
  BY <1>1 DEF Linking, SameLinks
<1>3. ASSUME NEW l \in 1 .. Len(cs), cs[l] # <<>> PROVE IsList(g, cs[l], 0)
  <2>1. IsList(h, cs[l], 0)
    BY <1>3 DEF CellLists
  <2> QED BY <2>1, <1>1, SameLinksKept
<1> QED BY <1>1, <1>2, <1>3 DEF CellLists

LEMMA BlankCell ==
  ASSUME NEW d, NEW a, NEW fs, NEW k, NEW cs, Sound(d, a, fs, k, cs), ~d.wild, On(d),
         Len(a.lines[a.row]) = 1
  PROVE  Edited([d EXCEPT !.cells[d.current_text].c = Space], Retyped(a, <<Space>>, 1), d, a)
<1> DEFINE L == RowLine(a, fs, k)
           s == cs[L]
           h == d.cells
           x == d.current_text
           r == [h[x] EXCEPT !.c = Space]
           g == [h EXCEPT ![x] = r]
           e == [d EXCEPT !.cells = g]
           sp == <<Space>>
           b == Retyped(a, sp, 1)
<1>1. /\ L \in 1 .. Len(cs) /\ Len(s) = 1 /\ x = s[1] /\ x \in 1 .. Len(h) /\ d.current_line = L
  <2>1. /\ L \in 1 .. Len(cs) /\ Len(s) = Len(a.lines[a.row]) /\ a.col \in 1 .. Len(s)
        /\ d.current_text = s[a.col] /\ d.current_line = L
    BY RowNumbers
  <2>2. a.col = 1
    BY <2>1
  <2>3. x \in 1 .. Len(h)
    BY SoundCurrent
  <2> QED BY <2>1, <2>2, <2>3
<1>2. d \in DocSet /\ h \in CellHeap /\ h \in Seq(CellSet) /\ h[x] \in CellSet /\ Len(h) \in Nat
  <2>1. d \in DocSet /\ h \in CellHeap
    BY SoundCurrent DEF DocSet
  <2> QED BY <2>1, <1>1, HeapFacts DEF CellHeap
<1>3. /\ CellLists(h, cs) /\ Linking(h) /\ Buffers(d.lines, cs) /\ OneFlag(d, fs, k, cs)
      /\ Len(cs) = Len(d.lines) /\ d.screen_start \in 0 .. Len(d.lines)
  BY DEF Sound, Buffers
<1>4. /\ r \in CellSet /\ r.c = Space /\ r.prev = h[x].prev /\ r.next = h[x].next
      /\ r.cursor = h[x].cursor
  BY <1>2, Spaces DEF CellSet
<1>5. [d EXCEPT !.cells[d.current_text].c = Space] = e
  BY <1>2 DEF DocSet
<1> HIDE DEF r
<1>6. /\ g \in CellHeap /\ Len(g) = Len(h)
      /\ \A m \in 1 .. Len(h) : g[m] = IF m = x THEN r ELSE h[m]
  BY <1>1, <1>2, <1>4 DEF CellHeap
<1> HIDE DEF g
<1>7. SameLinks(g, h)
  BY <1>4, <1>6 DEF SameLinks
<1>8. Linking(g) /\ CellLists(g, cs)
  BY <1>2, <1>3, <1>6, <1>7, SameLinksCells
<1>9. e \in DocSet /\ e.lines = d.lines /\ e.cells = g /\ OtherFields(e, d)
  BY <1>2, <1>6 DEF DocSet, OtherFields
<1> HIDE DEF e
<1>10. /\ e.file_buffer = d.file_buffer /\ e.screen_start = d.screen_start
       /\ e.current_line = d.current_line /\ e.current_text = d.current_text
       /\ e.cursorY = d.cursorY /\ e.wild = d.wild
  BY <1>9 DEF OtherFields
<1>11. Replaced(cs, cs, L, s)
  BY DEF Replaced
<1>12. sp \in Seq(AllChars) /\ Len(sp) = 1 /\ sp[1] = Space
  BY Spaces
<1>13. d.lines[L].buffer = s[1]
  <2>1. s # <<>>
    BY <1>1
  <2> QED BY <2>1, <1>1, <1>3 DEF Buffers
<1>14. SameLinks(e.lines, d.lines)
  BY <1>9 DEF SameLinks
<1>15. g[x].c = Space
  BY <1>1, <1>4, <1>6
<1>16. ASSUME NEW m \in 1 .. Len(h), Outside(s, m)
       PROVE  g[m].c = h[m].c /\ g[m].cursor = h[m].cursor
  <2>1. m # x
    BY <1>1, <1>16 DEF Outside
  <2> QED BY <2>1, <1>6
<1> HIDE DEF L, s, x, sp, h
<1>17. Retypes(e, d, L, cs, cs, s, sp, 1)
  <2>1. /\ \A q \in 1 .. Len(sp) : sp[q] = e.cells[s[q]].c
        /\ \A q \in 1 .. Len(s) : s[q] = d.current_text
    BY <1>1, <1>9, <1>12, <1>15 DEF x
  <2>2. \A l \in 1 .. Len(d.lines) : e.lines[l].buffer = IF l = L THEN s[1] ELSE d.lines[l].buffer
    BY <1>9, <1>13
  <2>3. \A m \in 1 .. Len(d.cells) : Outside(cs[L], m) =>
          e.cells[m].c = d.cells[m].c /\ e.cells[m].cursor = d.cells[m].cursor
    BY <1>9, <1>16 DEF h, s
  <2>4. 1 \in 1 .. Len(sp) /\ Len(s) = Len(sp) /\ e.current_text = s[1]
    BY <1>1, <1>10, <1>12 DEF x
  <2> QED BY <2>1, <2>2, <2>3, <2>4, <1>1, <1>3, <1>8, <1>9, <1>10, <1>11, <1>12, <1>14
          DEF Retypes
<1>18. Sound(e, b, fs, k, cs) /\ b.row = a.row
  BY <1>17, RetypedSound DEF L
<1>19. On(e)
  BY <1>1, <1>4, <1>6, <1>9, <1>10 DEF On, x, h
<1> HIDE DEF b
<1> QED BY <1>5, <1>9, <1>10, <1>18, <1>19 DEF Edited, Shows, Rows, b, sp

LEMMA DeleteCharIs ==
  ASSUME NEW d, NEW a, Shows(d, a), On(d), ~d.wild
  PROVE  \E b \in Texts!DeleteChar(a) : Edited(DeleteChar(d), b, d, a)
<1>0. PICK fs, k, cs : Sound(d, a, fs, k, cs)
  BY DEF Shows
<1> DEFINE L == RowLine(a, fs, k)
           s == cs[L]
           old == a.lines[a.row]
           p == a.col
           g == DeletedCell(d.cells, s[p])
           t == RemoveAt(s, p)
<1>1. /\ L \in 1 .. Len(cs) /\ Len(s) = Len(old) /\ Len(s) \in Nat /\ p \in 1 .. Len(s)
      /\ \A q \in 1 .. Len(s) : s[q] \in 1 .. Len(d.cells)
      /\ IsList(d.cells, s, 0) /\ CellAt(d, s, p) /\ d.current_text = s[p]
      /\ d.current_line = L /\ L \in 1 .. Len(d.lines)
  BY <1>0, RowNumbers
<1>2. d.cells \in CellHeap /\ d \in DocSet /\ a \in TextSet /\ Linking(d.cells)
      /\ Len(d.cells) \in Nat /\ s \in Seq(Nat) /\ a.row \in 1 .. Len(a.lines)
  <2>1. d.cells \in CellHeap /\ d \in DocSet /\ a \in TextSet /\ Linking(d.cells)
        /\ Len(d.cells) \in Nat /\ a.row \in 1 .. Len(a.lines)
    BY <1>0, SoundCurrent, SoundLengths DEF Sound
  <2>2. s \in Seq(1 .. Len(d.cells))
    BY <1>1 DEF IsList
  <2>3. s \in Seq(Nat)
    BY <2>2
  <2> QED BY <2>1, <2>3
<1>3. /\ d.cells[s[p]].next = Null <=> p = Len(s)
      /\ d.cells[s[p]].prev = Null <=> p = 1
  <2>1. (p # Len(s) => p + 1 \in 1 .. Len(s)) /\ (p # 1 => p - 1 \in 1 .. Len(s))
    BY <1>1
  <2> HIDE DEF s, p
  <2> QED BY <2>1, <1>1 DEF CellAt, Null
<1>4. d.lines[L].buffer = s[1]
  <2>1. s # <<>>
    BY <1>1
  <2> QED BY <2>1, <1>1, <1>0 DEF Sound, Buffers
<1>5. CASE Len(s) > 1
  <2>1. g \in CellHeap /\ Shrunk(g, d.cells, s, p) /\ Len(g) = Len(d.cells)
    <3> HIDE DEF s, p
    <3>1. g \in CellHeap /\ Shrunk(g, d.cells, s, p)
      BY <1>1, <1>2, <1>5, ShrunkCell
    <3> QED BY <3>1 DEF Shrunk
  <2>2. Len(t) = Len(s) - 1 /\ \A j \in 1 .. Len(s) - 1 : t[j] = IF j < p THEN s[j] ELSE s[j + 1]
    <3> DEFINE S == Nat
    <3> HIDE DEF s, p, S
    <3> QED BY <1>1, <1>2, RemoveAtIs DEF S
  <2> HIDE DEF s, t, g, L
  <2>3. CASE p # Len(s)
    <3> DEFINE cell == s[p + 1]
               first == t[1]
               e == Flag([d EXCEPT !.cells = g, !.current_text = cell,
                                   !.lines[L].buffer = first], TRUE)
    <3>1. /\ p + 1 \in 1 .. Len(s) /\ p \in 1 .. Len(s) - 1 /\ 1 \in 1 .. Len(s) - 1
          /\ ~(p < p) /\ p \in 1 .. Len(t) /\ 2 \in 1 .. Len(s)
      BY <2>2, <2>3, <1>1, <1>5
    <3>2. cell = t[p] /\ cell \in 1 .. Len(g)
      BY <3>1, <2>1, <2>2, <1>1
    <3>3. first = IF p = 1 THEN s[2] ELSE s[1]
      <4>1. 1 < p <=> p # 1
        BY <1>1
      <4> QED BY <3>1, <4>1, <2>2
    <3>4. first \in Nat
      <4>1. 1 \in 1 .. Len(s) /\ 2 \in 1 .. Len(s)
        BY <3>1, <1>1
      <4>2. s[1] \in 1 .. Len(d.cells) /\ s[2] \in 1 .. Len(d.cells)
        BY <4>1, <1>1
      <4> HIDE DEF first
      <4> QED BY <4>2, <3>3
    <3>5. /\ d.cells[s[p]].next = cell /\ d.cells[s[p]].next # Null
          /\ first = IF d.cells[s[p]].prev = Null THEN cell ELSE d.lines[L].buffer
      <4>1. p = 1 => cell = s[2]
        OBVIOUS
      <4> QED BY <4>1, <3>3, <2>3, <1>1, <1>3, <1>4 DEF CellAt
    <3>6. DeleteChar(d) = e
      <4> HIDE DEF cell, first
      <4> QED BY <3>5, <1>1 DEF DeleteChar, g
    <3> HIDE DEF cell, first
    <3>7. Gone(e, d, L, g, cell, first)
      <4>1. /\ d \in DocSet /\ L \in 1 .. Len(d.lines) /\ g \in CellHeap /\ cell \in 1 .. Len(g)
            /\ first \in Nat
        BY <3>2, <3>4, <2>1, <1>1, <1>2
      <4> QED BY <4>1, CellGone
    <3> HIDE DEF e
    <3>8. Edited(e, Retyped(a, RemoveAt(old, p), p), d, a)
      BY <3>1, <3>2, <3>7, <2>1, <1>0, ShrunkSound DEF s, t, L, first
    <3>9. Retyped(a, RemoveAt(old, p), p) \in Texts!DeleteChar(a)
      <4>1. Len(old) # 1 /\ p # Len(old)
        BY <2>3, <1>1, <1>5
      <4> QED BY <4>1, <1>2, TextOperators DEF Texts!DeleteChar, Texts!Line, Retyped, TextSet
    <3> QED BY <3>6, <3>8, <3>9
  <2>4. CASE p = Len(s)
    <3> DEFINE cell == s[p - 1]
               e == Flag([d EXCEPT !.cells = g, !.current_text = cell], TRUE)
    <3>1. /\ p - 1 \in 1 .. Len(s) - 1 /\ p - 1 \in 1 .. Len(s) /\ 1 \in 1 .. Len(s) - 1
          /\ p - 1 < p /\ p - 1 \in 1 .. Len(t) /\ 1 < p /\ p # 1
      BY <2>2, <2>4, <1>1, <1>5
    <3>2. cell = t[p - 1] /\ cell \in 1 .. Len(g)
      BY <3>1, <2>1, <2>2, <1>1
    <3>3. t[1] = d.lines[L].buffer
      BY <3>1, <2>2, <1>4
    <3>5. /\ d.cells[s[p]].next = Null /\ d.cells[s[p]].prev # Null
          /\ d.cells[s[p]].prev = cell
      BY <3>1, <2>4, <1>1, <1>3 DEF CellAt
    <3>6. DeleteChar(d) = e
      <4> HIDE DEF cell
      <4> QED BY <3>5, <1>1 DEF DeleteChar, g
    <3> HIDE DEF cell
    <3>7. Gone(e, d, L, g, cell, d.lines[L].buffer)
      <4>1. 0 \in Nat
        OBVIOUS
      <4> QED BY <4>1, <3>2, <2>1, <1>1, <1>2, CellGone
    <3> HIDE DEF e
    <3>8. Edited(e, Retyped(a, RemoveAt(old, p), p - 1), d, a)
      BY <3>1, <3>2, <3>3, <3>7, <2>1, <1>0, ShrunkSound DEF s, t, L
    <3>9. Retyped(a, RemoveAt(old, p), p - 1) \in Texts!DeleteChar(a)
      <4>1. Len(old) # 1 /\ p = Len(old)
        BY <2>4, <1>1, <1>5
      <4> QED BY <4>1, <1>2, TextOperators DEF Texts!DeleteChar, Texts!Line, Retyped, TextSet
    <3> QED BY <3>6, <3>8, <3>9
  <2> QED BY <2>3, <2>4
<1>6. CASE Len(s) = 1
  <2>1. p = 1 /\ Len(old) = 1
    BY <1>1, <1>6
  <2> DEFINE e == [d EXCEPT !.cells[d.current_text].c = Space]
  <2>2. DeleteChar(d) = e
    BY <2>1, <1>1, <1>3, <1>6 DEF DeleteChar
  <2>3. Edited(e, Retyped(a, <<Space>>, 1), d, a)
    BY <2>1, <1>0, BlankCell
  <2>4. Retyped(a, <<Space>>, 1) \in Texts!DeleteChar(a)
    BY <2>1, <1>2, Spaces DEF Texts!DeleteChar, Texts!Line, Retyped, TextSet
  <2> QED BY <2>2, <2>3, <2>4
<1>7. Len(s) > 1 \/ Len(s) = 1
  <2>1. p \in 1 .. Len(s) /\ Len(s) \in Nat
    BY <1>1
  <2>2. \A x, y : x \in Nat /\ y \in 1 .. x => x > 1 \/ x = 1
    OBVIOUS
  <2> QED BY <2>1, <2>2
<1> QED BY <1>5, <1>6, <1>7

-----------------------------------------------------------------------------
(* Deletions of a line.                                                    *)

\* The rows of b are those of a but the current one: the lines of gs after the first j
\* are the lines of fs after the first k.
RowsOf(b, gs, j, a, fs, k) ==
  /\ Len(b.lines) = Len(gs) - j
  /\ \A i \in 1 .. Len(b.lines) : \E o \in 1 .. Len(a.lines) :
       o # a.row /\ gs[j + i] = fs[k + o] /\ b.lines[i] = a.lines[o]

\* The document x with these lines, before it has its cursor.
Cut(x, d, gs, j) ==
  /\ x \in DocSet /\ x.cells = d.cells /\ Linking(x.lines) /\ IsList(x.lines, gs, j)
  /\ x.file_buffer = gs[1] /\ Len(x.lines) = Len(d.lines)
  /\ \A l \in 1 .. Len(d.lines) : x.lines[l].buffer = d.lines[l].buffer
  /\ x.screen_start \in 0 .. Len(d.lines)

LEMMA StartLineIs ==
  ASSUME NEW d, NEW a, NEW fs, NEW k, NEW cs, Sound(d, a, fs, k, cs),
         NEW x, NEW gs, NEW j, Cut(x, d, gs, j),
         NEW b \in TextSet, Filled(b), RowsOf(b, gs, j, a, fs, k), NEW r \in 1 .. Len(b.lines)
  PROVE  LET e == StartLine(x, gs[j + r])
         IN /\ b.lines[r] = <<>> => e = Wild
            /\ b.lines[r] # <<>> => Entered(e, Placed(b, r, 1), x, gs, j, cs)
<1> DEFINE R == gs[j + r]
           cell == x.lines[R].buffer
           y == [x EXCEPT !.current_line = R, !.current_text = cell]
           e == Flag(y, TRUE)
           c == Placed(b, r, 1)
<1>1. /\ Len(cs) = Len(d.lines) /\ d.cells \in CellHeap /\ Len(d.lines) \in Nat
      /\ a.row \in 1 .. Len(a.lines)
  BY SoundLengths
<1>2. /\ CellLists(d.cells, cs) /\ Linking(d.cells) /\ Buffers(d.lines, cs)
      /\ Reads(d.cells, a.lines, fs, k, cs) /\ OneFlag(d, fs, k, cs)
  BY DEF Sound
<1>3. /\ x \in DocSet /\ x.cells = d.cells /\ Linking(x.lines) /\ IsList(x.lines, gs, j)
      /\ x.file_buffer = gs[1] /\ Len(x.lines) = Len(d.lines)
      /\ \A l \in 1 .. Len(d.lines) : x.lines[l].buffer = d.lines[l].buffer
      /\ x.screen_start \in 0 .. Len(d.lines)
  BY DEF Cut
<1>4. Len(b.lines) = Len(gs) - j
  BY DEF RowsOf
\* A row of b: its line, and its cells, none of which has the flag.
<1>5. ASSUME NEW i \in 1 .. Len(b.lines)
      PROVE  /\ gs[j + i] \in 1 .. Len(cs) /\ Len(b.lines[i]) = Len(cs[gs[j + i]])
             /\ b.lines[i] = <<>> <=> cs[gs[j + i]] = <<>>
             /\ \A q \in 1 .. Len(b.lines[i]) : /\ b.lines[i][q] = d.cells[cs[gs[j + i]][q]].c
                                                /\ cs[gs[j + i]][q] \in 1 .. Len(d.cells)
                                                /\ ~d.cells[cs[gs[j + i]][q]].cursor
  <2>1. PICK o \in 1 .. Len(a.lines) :
          o # a.row /\ gs[j + i] = fs[k + o] /\ b.lines[i] = a.lines[o]
    BY DEF RowsOf
  <2> DEFINE l == fs[k + o]
  <2>2. l \in 1 .. Len(cs) /\ Len(cs[l]) = Len(a.lines[o])
    BY LineNumbers
  <2>20. \A q \in 1 .. Len(cs[l]) : cs[l][q] \in 1 .. Len(d.cells)
    BY LineNumbers
  <2>3. a.lines[o] = <<>> <=> cs[l] = <<>>
    BY SoundNumbers
  <2>4. \A q \in 1 .. Len(a.lines[o]) : a.lines[o][q] = d.cells[cs[l][q]].c
    BY <1>2 DEF Reads
  <2>5. ASSUME NEW q \in 1 .. Len(cs[l]), d.cells[cs[l][q]].cursor PROVE FALSE
    <3>1. o \in 1 .. Len(fs) - k
      BY <1>2 DEF Reads
    <3>2. cs[l][q] = d.current_text
      BY <3>1, <2>5, <1>2 DEF OneFlag
    <3> DEFINE L == RowLine(a, fs, k)
    <3>3. L \in 1 .. Len(cs) /\ a.col \in 1 .. Len(cs[L]) /\ d.current_text = cs[L][a.col]
      BY RowNumbers
    <3>4. l = L
      BY <3>2, <3>3, <2>2, <1>2 DEF CellLists
    <3>5. fs[k + o] = fs[k + a.row]
      BY <3>4 DEF RowLine
    <3>6. /\ k + o \in 1 .. Len(fs) /\ k + a.row \in 1 .. Len(fs) /\ Injective(fs)
          /\ k \in Int /\ a.row \in Int
      <4>1. k + o \in 1 .. Len(fs)
        BY LineNumbers
      <4>2. k + a.row \in 1 .. Len(fs)
        BY <1>1, LineNumbers
      <4>3. Injective(fs)
        BY DEF Sound, IsList
      <4>4. k \in Int /\ a.row \in Int
        BY <1>1, SoundLengths
      <4> QED BY <4>1, <4>2, <4>3, <4>4
    <3>7. k + o = k + a.row
      BY <3>5, <3>6 DEF Injective
    <3> QED BY <3>6, <3>7, <2>1
  <2> QED BY <2>1, <2>2, <2>20, <2>3, <2>4, <2>5
<1>6. R \in 1 .. Len(cs) /\ Len(b.lines[r]) = Len(cs[R]) /\ (b.lines[r] = <<>> <=> cs[R] = <<>>)
  BY <1>5
<1>7. cell = IF cs[R] = <<>> THEN Null ELSE cs[R][1]
  <2> HIDE DEF R
  <2> QED BY <1>1, <1>2, <1>3, <1>6 DEF Buffers
<1>8. CASE b.lines[r] = <<>>
  BY <1>6, <1>7, <1>8 DEF StartLine
<1>9. CASE b.lines[r] # <<>>
  <2>1. b.lines[r] \in Seq(AllChars)
    <3> DEFINE S == Seq(AllChars)
    <3>1. b.lines \in Seq(S)
      BY DEF TextSet
    <3> HIDE DEF S
    <3>2. b.lines[r] \in S
      BY <3>1
    <3> QED BY <3>2 DEF S
  <2>2. 1 \in 1 .. Len(b.lines[r]) /\ Len(b.lines[r]) \in Nat
    BY <2>1, <1>9
  <2>3. cell = cs[R][1] /\ cell \in 1 .. Len(d.cells) /\ cell # Null
    <3>1. cs[R][1] \in 1 .. Len(d.cells)
      BY <2>2, <1>5
    <3> HIDE DEF R, cell
    <3> QED BY <3>1, <1>6, <1>7, <1>9 DEF Null
  <2>4. StartLine(x, R) = e
    BY <2>3 DEF StartLine
  <2> HIDE DEF R, cell
  <2>5. /\ y \in DocSet /\ y.lines = x.lines /\ y.cells = d.cells /\ y.file_buffer = x.file_buffer
        /\ y.wild = x.wild /\ y.screen_start = x.screen_start /\ y.cursorY = x.cursorY
        /\ y.current_line = R /\ y.current_text = cell
    <3>1. R \in Nat /\ cell \in Nat
      BY <2>3, <1>6
    <3> QED BY <3>1, <1>3 DEF DocSet
  <2> HIDE DEF y
  <2>6. /\ e \in DocSet /\ SameFrame(e, y) /\ SameText(e.cells, d.cells)
        /\ e.current_line = R /\ e.current_text = cell
        /\ e.screen_start = x.screen_start /\ e.cursorY = x.cursorY
        /\ \A m \in 1 .. Len(d.cells) :
             e.cells[m].cursor = IF m = cell THEN TRUE ELSE d.cells[m].cursor
    <3>1. y.current_text \in 1 .. Len(y.cells)
      BY <2>3, <2>5
    <3>2. /\ e \in DocSet /\ SameFrame(e, y) /\ SameText(e.cells, y.cells)
          /\ e.current_line = y.current_line /\ e.current_text = y.current_text
          /\ e.screen_start = y.screen_start /\ e.cursorX = y.cursorX /\ e.cursorY = y.cursorY
          /\ \A m \in 1 .. Len(y.cells) :
               e.cells[m].cursor = IF m = y.current_text THEN TRUE ELSE y.cells[m].cursor
      BY <3>1, <2>5, FlagIs
    <3> HIDE DEF e
    <3> QED BY <3>2, <2>5
  <2> HIDE DEF e
  <2>7. e.lines = x.lines /\ e.file_buffer = gs[1] /\ e.wild = x.wild
    BY <2>5, <2>6, <1>3 DEF SameFrame
  <2>8. c \in TextSet /\ c.lines = b.lines /\ c.row = r /\ c.col = 1
    <3>1. r \in Nat /\ 1 \in Nat
      OBVIOUS
    <3> QED BY <3>1 DEF TextSet, Placed
  <2> HIDE DEF c
  <2>9. Reads(d.cells, b.lines, gs, j, cs)
    BY <1>4, <1>5 DEF Reads
  <2>10. \A i \in 1 .. Len(b.lines) : gs[j + i] \in 1 .. Len(cs)
    BY <1>5
  <2>11. Linking(e.cells) /\ CellLists(e.cells, cs) /\ Reads(e.cells, b.lines, gs, j, cs)
    <3>1. e.cells \in CellHeap
      BY <2>6 DEF DocSet
    <3> QED BY <3>1, <2>6, <2>9, <2>10, <1>1, <1>2, SameTextKept
  <2>12. Buffers(e.lines, cs)
    BY <2>7, <1>2, <1>3 DEF Buffers
  <2>13. InPlace(e, c, gs, j, cs)
    BY <2>2, <2>3, <2>6, <2>8 DEF InPlace, R
  <2>14. OneFlag(e, gs, j, cs)
    <3>1. ASSUME NEW i \in 1 .. Len(gs) - j, NEW q \in 1 .. Len(cs[gs[j + i]]),
                 e.cells[cs[gs[j + i]][q]].cursor
          PROVE  cs[gs[j + i]][q] = e.current_text
      <4>1. i \in 1 .. Len(b.lines)
        BY <1>4
      <4>2. cs[gs[j + i]][q] \in 1 .. Len(d.cells) /\ ~d.cells[cs[gs[j + i]][q]].cursor
        BY <4>1, <1>5
      <4> QED BY <4>2, <3>1, <2>6
    <3> QED BY <3>1 DEF OneFlag
  <2>15. Sound(e, c, gs, j, cs)
    <3>1. Filled(c)
      BY <2>8 DEF Filled
    <3>2. e.screen_start \in 0 .. Len(e.lines)
      BY <2>6, <2>7, <1>3
    <3> QED BY <3>1, <3>2, <2>6, <2>7, <2>8, <2>11, <2>12, <2>13, <2>14, <1>3 DEF Sound
  <2>16. On(e)
    BY <2>3, <2>6 DEF On
  <2>17. Entered(e, c, x, gs, j, cs)
    BY <2>6, <2>7, <2>15, <2>16 DEF Entered
  <2> QED BY <2>4, <2>17, <1>9 DEF c, R
<1> QED BY <1>8, <1>9

\* The row of a that row i of the text becomes when row r is taken away.
Skip(i, r) == IF i < r THEN i ELSE i + 1

WithoutLine(a) == [a EXCEPT !.lines = RemoveAt(a.lines, a.row)]

LEMMA WithoutLineIs ==
  ASSUME NEW a \in TextSet, a.row \in 1 .. Len(a.lines), Len(a.lines) \in Nat, Len(a.lines) > 1,
         Filled(a)
  PROVE  LET b == WithoutLine(a)
         IN /\ b \in TextSet /\ Len(b.lines) = Len(a.lines) - 1
            /\ \A i \in 1 .. Len(b.lines) :
                 /\ Skip(i, a.row) \in 1 .. Len(a.lines) /\ Skip(i, a.row) # a.row
                 /\ b.lines[i] = a.lines[Skip(i, a.row)]
            /\ Filled(b) /\ (LastEmpty(b) => LastEmpty(a))
<1> DEFINE S == Seq(AllChars)
           s == a.lines
           p == a.row
           t == RemoveAt(s, p)
           b == WithoutLine(a)
<1>1. s \in Seq(S) /\ p \in 1 .. Len(s) /\ Len(s) \in Nat /\ Len(s) > 1
  BY DEF TextSet
<1>2. /\ t \in Seq(S) /\ Len(t) = Len(s) - 1
      /\ \A i \in 1 .. Len(s) - 1 : t[i] = IF i < p THEN s[i] ELSE s[i + 1]
  <2> HIDE DEF S, s, p
  <2> QED BY <1>1, RemoveAtIs
<1> HIDE DEF t
<1>3. b \in TextSet /\ b.lines = t
  BY <1>2 DEF WithoutLine, TextSet, t
<1> HIDE DEF b, s, p, S
<1>4. ASSUME NEW i \in 1 .. Len(b.lines)
      PROVE  Skip(i, p) \in 1 .. Len(s) /\ Skip(i, p) # p /\ b.lines[i] = s[Skip(i, p)]
  <2>1. i \in 1 .. Len(s) - 1
    BY <1>2, <1>3
  <2>2. CASE i < p
    <3>1. i \in 1 .. Len(s) /\ i # p
      BY <2>1, <2>2, <1>1
    <3> QED BY <3>1, <2>1, <2>2, <1>2, <1>3 DEF Skip
  <2>3. CASE ~(i < p)
    <3>1. i + 1 \in 1 .. Len(s) /\ i + 1 # p
      BY <2>1, <2>3, <1>1
    <3> QED BY <3>1, <2>1, <2>3, <1>2, <1>3 DEF Skip
  <2> QED BY <2>2, <2>3
<1>5. Filled(b)
  <2>1. ASSUME NEW i \in 1 .. Len(b.lines) - 1 PROVE b.lines[i] # <<>>
    <3>1. i \in 1 .. Len(b.lines) /\ Skip(i, p) \in 1 .. Len(s) - 1
      BY <1>1, <1>2, <1>3 DEF Skip
    <3> QED BY <3>1, <1>4 DEF Filled, s
  <2> QED BY <2>1 DEF Filled
<1>6. ASSUME LastEmpty(b) PROVE LastEmpty(a)
  <2>1. Len(b.lines) \in 1 .. Len(b.lines) /\ Len(b.lines) = Len(s) - 1
    BY <1>1, <1>2, <1>3
  <2>2. PICK o : o = Skip(Len(b.lines), p)
    OBVIOUS
  <2>3. o \in 1 .. Len(s) /\ s[o] = <<>>
    BY <2>1, <2>2, <1>4, <1>6 DEF LastEmpty
  <2>4. o \notin 1 .. Len(s) - 1
    BY <2>3 DEF Filled, s
  <2>5. o = Len(s)
    BY <2>3, <2>4, <1>1
  <2> QED BY <2>3, <2>5 DEF LastEmpty, s
<1> QED BY <1>2, <1>3, <1>4, <1>5, <1>6 DEF b, s, p

\* The lines without the current one.
CutLines(ls, d, gs, j, a, fs, k) ==
  /\ ls \in LineHeap /\ Len(ls) = Len(d.lines) /\ Linking(ls) /\ IsList(ls, gs, j)
  /\ gs[1] = fs[1] /\ Len(gs) - j = Len(a.lines) - 1
  /\ \A l \in 1 .. Len(d.lines) : ls[l].buffer = d.lines[l].buffer
  /\ \A i \in 1 .. Len(a.lines) - 1 : gs[j + i] = fs[k + Skip(i, a.row)]

LEMMA LinesCut ==
  ASSUME NEW d, NEW a, NEW fs, NEW k, NEW cs, Sound(d, a, fs, k, cs), Len(a.lines) > 1
  PROVE  \E gs, j : CutLines(DeleteNode(d.lines, d.current_line), d, gs, j, a, fs, k)
<1> DEFINE i == k + a.row
           h == d.lines
           ls == DeleteNode(h, fs[i])
<1>1. /\ Len(h) \in Nat /\ Len(fs) \in Nat /\ k \in 0 .. Len(fs) - 1
      /\ Len(a.lines) = Len(fs) - k /\ a.row \in 1 .. Len(a.lines) /\ h \in LineHeap
      /\ h \in Seq(LineSet)
  BY SoundLengths DEF LineHeap
<1>2. Linking(h) /\ IsList(h, fs, k) /\ d.current_line = fs[k + a.row]
  BY SoundCurrent DEF Sound
<1>3. i \in k + 1 .. Len(fs) /\ i \in 1 .. Len(fs) /\ Len(fs) > k + 1 /\ k \in Nat
  BY <1>1
<1>4. fs \in Seq(1 .. Len(h))
  BY <1>2 DEF IsList
<1> HIDE DEF h
<1>5. /\ ls \in Seq(LineSet) /\ Len(ls) = Len(h) /\ SameData(ls, h) /\ Linking(ls)
  <2> HIDE DEF i
  <2> QED BY <1>1, <1>2, <1>3, NodeSets, DeletedLinks
<1>6. \A l \in 1 .. Len(h) : ls[l].buffer = h[l].buffer
  BY <1>5 DEF SameData
<1>7. CASE a.row = 1
  <2>1. i = k + 1
    BY <1>7
  <2>2. IsList(ls, fs, k + 1)
    BY <2>1, <1>1, <1>2, <1>3, NodeSets, ListRemoveFirst
  <2>3. \A o \in 1 .. Len(a.lines) - 1 : fs[(k + 1) + o] = fs[k + Skip(o, a.row)]
    <3>1. ASSUME NEW o \in 1 .. Len(a.lines) - 1 PROVE fs[(k + 1) + o] = fs[k + Skip(o, a.row)]
      <4>1. Skip(o, a.row) = o + 1
        BY <1>7 DEF Skip
      <4>2. (k + 1) + o = k + (o + 1)
        BY <1>3
      <4> QED BY <4>1, <4>2
    <3> QED BY <3>1
  <2>4. Len(fs) - (k + 1) = Len(a.lines) - 1
    BY <1>1
  <2> HIDE DEF ls
  <2>5. CutLines(ls, d, fs, k + 1, a, fs, k)
    BY <2>2, <2>3, <2>4, <1>5, <1>6 DEF CutLines, LineHeap, h
  <2> QED BY <2>5, <1>2 DEF ls, h
<1>8. CASE a.row # 1
  <2> DEFINE gs == RemoveAt(fs, i)
  <2>1. i # k + 1 /\ 1 < i /\ 1 \in 1 .. Len(fs) - 1
    BY <1>1, <1>3, <1>8
  <2>2. IsList(ls, gs, k)
    <3> HIDE DEF i
    <3> QED BY <2>1, <1>1, <1>2, <1>3, NodeSets, ListRemove
  <2>3. /\ Len(gs) = Len(fs) - 1
        /\ \A o \in 1 .. Len(fs) - 1 : gs[o] = IF o < i THEN fs[o] ELSE fs[o + 1]
    <3> DEFINE S == 1 .. Len(h)
    <3> HIDE DEF i, S
    <3> QED BY <1>3, <1>4, RemoveAtIs DEF S
  <2> HIDE DEF gs
  <2>4. gs[1] = fs[1]
    BY <2>1, <2>3
  <2>5. ASSUME NEW o \in 1 .. Len(a.lines) - 1 PROVE gs[k + o] = fs[k + Skip(o, a.row)]
    <3>1. k + o \in 1 .. Len(fs) - 1 /\ (k + o < i <=> o < a.row) /\ (k + o) + 1 = k + (o + 1)
      BY <1>1, <1>3
    <3> HIDE DEF i
    <3> QED BY <3>1, <2>3 DEF Skip
  <2>6. Len(gs) - k = Len(a.lines) - 1
    BY <2>3, <1>1
  <2> HIDE DEF ls
  <2>7. CutLines(ls, d, gs, k, a, fs, k)
    BY <2>2, <2>4, <2>5, <2>6, <1>5, <1>6 DEF CutLines, LineHeap, h
  <2> QED BY <2>7, <1>2 DEF ls, h
<1> QED BY <1>7, <1>8

\* One line of one space.
LEMMA BlankShows ==
  ASSUME NEW x \in Int, NEW y \in Int, NEW size \in Nat
  PROVE  LET d == Blank(x, y, size)
         IN /\ Shows(d, Texts!Fresh) /\ On(d) /\ ~d.wild /\ ~LastEmpty(Texts!Fresh)
            /\ Texts!Fresh.row = 1 /\ Len(d.lines) = 1 /\ d.cursorY = y
            /\ d.screen_start # Null
<1> DEFINE d == Blank(x, y, size)
           cell == [Cell(Space) EXCEPT !.cursor = TRUE]
           line == LineNode(1, size)
           ls == <<line>>
           cl == <<cell>>
           fs == <<1>>
           one == <<1>>
           cs == <<one>>
           sp == <<Space>>
           lines == <<sp>>
           a == [lines |-> lines, row |-> 1, col |-> 1]
<1>1. /\ cell \in CellSet /\ cell.prev = 0 /\ cell.next = 0 /\ cell.c = Space /\ cell.cursor
  BY Spaces DEF Cell, CellSet, Null
<1>2. line \in LineSet /\ line.prev = 0 /\ line.next = 0 /\ line.buffer = 1
  BY DEF LineNode, LineSet, Null
<1>3. d = [lines |-> ls, cells |-> cl, file_buffer |-> 1, screen_start |-> 1, current_line |-> 1,
           current_text |-> 1, cursorX |-> x, cursorY |-> y, wild |-> FALSE]
  BY DEF Blank
<1> HIDE DEF cell, line
<1>4. /\ ls \in LineHeap /\ Len(ls) = 1 /\ ls[1] = line
      /\ cl \in CellHeap /\ Len(cl) = 1 /\ cl[1] = cell
      /\ fs \in Seq(1 .. 1) /\ Len(fs) = 1 /\ fs[1] = 1
      /\ one \in Seq(1 .. 1) /\ Len(one) = 1 /\ one[1] = 1 /\ one # <<>>
      /\ sp \in Seq(AllChars) /\ Len(sp) = 1 /\ sp[1] = Space /\ sp # <<>>
  BY <1>1, <1>2, Spaces DEF LineHeap, CellHeap
<1> HIDE DEF ls, cl, fs, one, sp
<1>5. /\ cs \in Seq(Seq(1 .. 1)) /\ Len(cs) = 1 /\ cs[1] = one
      /\ lines \in Seq(Seq(AllChars)) /\ Len(lines) = 1 /\ lines[1] = sp
  <2> DEFINE S == Seq(1 .. 1)
             T == Seq(AllChars)
  <2>1. one \in S /\ sp \in T
    BY <1>4
  <2> HIDE DEF S, T
  <2>2. /\ cs \in Seq(S) /\ Len(cs) = 1 /\ cs[1] = one
        /\ lines \in Seq(T) /\ Len(lines) = 1 /\ lines[1] = sp
    BY <2>1
  <2> QED BY <2>2 DEF S, T
<1>6. Texts!Fresh = a
  BY Spaces DEF Texts!Fresh, lines, sp
<1> HIDE DEF cs, lines, a
<1>7. a \in TextSet /\ a.lines = lines /\ a.row = 1 /\ a.col = 1
  BY <1>5 DEF TextSet, a
<1> HIDE DEF d
<1>8. /\ d \in DocSet /\ d.lines = ls /\ d.cells = cl /\ d.file_buffer = 1 /\ d.screen_start = 1
      /\ d.current_line = 1 /\ d.current_text = 1 /\ d.cursorY = y /\ d.wild = FALSE
  BY <1>3, <1>4 DEF DocSet
<1>9. Linking(ls) /\ Linking(cl)
  BY <1>1, <1>2, <1>4 DEF Linking
<1>10. IsList(ls, fs, 0)
  BY <1>2, <1>4 DEF IsList, Injective, Following, Preceding, Null
<1>11. IsList(cl, one, 0)
  BY <1>1, <1>4 DEF IsList, Injective, Following, Preceding, Null
<1>12. CellLists(cl, cs)
  BY <1>4, <1>5, <1>11 DEF CellLists
<1>13. Buffers(ls, cs)
  BY <1>2, <1>4, <1>5 DEF Buffers
<1>14. Reads(cl, lines, fs, 0, cs)
  BY <1>1, <1>4, <1>5 DEF Reads
<1>15. Filled(a)
  <2>1. Len(a.lines) = 1
    BY <1>5, <1>7
  <2>2. \A x1 : x1 = 1 => 1 .. x1 - 1 = {}
    OBVIOUS
  <2> QED BY <2>1, <2>2 DEF Filled
<1>16. InPlace(d, a, fs, 0, cs)
  BY <1>4, <1>5, <1>7, <1>8 DEF InPlace
<1>17. OneFlag(d, fs, 0, cs)
  BY <1>4, <1>5, <1>8 DEF OneFlag
<1>18. Sound(d, a, fs, 0, cs)
  BY <1>4, <1>7, <1>8, <1>9, <1>10, <1>12, <1>13, <1>14, <1>15, <1>16, <1>17 DEF Sound
<1>19. On(d)
  BY <1>1, <1>4, <1>8 DEF On
<1>20. ~LastEmpty(a)
  BY <1>4, <1>5, <1>7 DEF LastEmpty
<1> QED BY <1>4, <1>6, <1>7, <1>8, <1>18, <1>19, <1>20 DEF Shows, d, Null

\* A deletion loses no screen, and brings the last line one line nearer at most.
Nearer(e, b, d, a) ==
  /\ Off(e) => Off(d)
  /\ \A m \in Nat : Below(b, m) => Below(a, m + 1)

LEMMA DeleteLineIs ==
  ASSUME NEW d, NEW a, Shows(d, a), ~d.wild
  PROVE  LET e == DeleteLine(d)
         IN \/ e = Wild /\ Below(a, 1)
            \/ \E b \in Texts!DeleteLine(a) : Edited(e, b, d, a) /\ Nearer(e, b, d, a)
<1>0. PICK fs, k, cs : Sound(d, a, fs, k, cs)
  BY DEF Shows
<1> DEFINE L == d.current_line
           p == a.row
           n == Len(a.lines)
           ls == DeleteNode(d.lines, L)
           b == WithoutLine(a)
<1>1. /\ p \in 1 .. n /\ n \in Nat /\ n >= 1 /\ Len(d.lines) \in Nat /\ d.cursorY \in Int
      /\ a.lines[p] # <<>>
  <2>1. p \in 1 .. n /\ n \in Nat /\ n >= 1 /\ Len(d.lines) \in Nat /\ d.cursorY \in Int
    BY <1>0, TextLengths
  <2>2. a.col \in 1 .. Len(a.lines[p]) /\ Len(a.lines[p]) \in Nat
    BY <1>0, SoundLengths
  <2> QED BY <2>1, <2>2
<1>2. d \in DocSet /\ a \in TextSet /\ Filled(a) /\ d.screen_start \in 0 .. Len(d.lines)
  BY <1>0, SoundCurrent
<1>3. /\ L = fs[k + p] /\ L \in 1 .. Len(d.lines)
      /\ d.lines[L].prev = IF p = 1 THEN Null ELSE fs[k + (p - 1)]
      /\ d.lines[L].next = IF p = n THEN Null ELSE fs[k + (p + 1)]
  <2>1. L = fs[k + p]
    BY <1>0, SoundCurrent
  <2>2. p \in 1 .. Len(a.lines)
    BY <1>1
  <2>3. /\ fs[k + p] \in 1 .. Len(d.lines)
        /\ d.lines[fs[k + p]].prev = IF p = 1 THEN Null ELSE fs[k + (p - 1)]
        /\ d.lines[fs[k + p]].next = IF p = Len(a.lines) THEN Null ELSE fs[k + (p + 1)]
    <3> HIDE DEF p
    <3> QED BY <1>0, <2>2, RowFacts
  <2> QED BY <2>1, <2>3
<1>4. \A i \in 1 .. n : fs[k + i] \in 1 .. Len(d.lines) /\ fs[k + i] # Null
  <2>1. ASSUME NEW i \in 1 .. n PROVE fs[k + i] \in 1 .. Len(d.lines)
    BY <1>0, LineNumbers
  <2> QED BY <2>1 DEF Null
<1>5. (d.lines[L].prev = Null <=> p = 1) /\ (d.lines[L].next = Null <=> p = n)
  <2>1. (p # 1 => p - 1 \in 1 .. n) /\ (p # n => p + 1 \in 1 .. n)
    BY <1>1
  <2> HIDE DEF p, n, L
  <2> QED BY <2>1, <1>3, <1>4
\* The only line.
<1>6. CASE n = 1
  <2>1. p = 1
    BY <1>1, <1>6
  <2> DEFINE e == Blank(d.cursorX, d.cursorY, 1)
  <2>2. DeleteLine(d) = e
    BY <2>1, <1>5, <1>6 DEF DeleteLine
  <2>3. /\ Shows(e, Texts!Fresh) /\ On(e) /\ ~e.wild /\ ~LastEmpty(Texts!Fresh)
        /\ Texts!Fresh.row = 1 /\ Len(e.lines) = 1 /\ e.cursorY = d.cursorY
        /\ e.screen_start # Null
    <3>1. d.cursorX \in Int /\ d.cursorY \in Int /\ 1 \in Nat
      BY <1>2 DEF DocSet
    <3> QED BY <3>1, BlankShows
  <2> HIDE DEF e
  <2>4. Rows(d, a.row) => Rows(e, Texts!Fresh.row)
    BY <2>1, <2>3, EditorSizes DEF Rows
  <2>5. Texts!Fresh \in Texts!DeleteLine(a)
    BY <1>6 DEF Texts!DeleteLine
  <2>6. Nearer(e, Texts!Fresh, d, a)
    BY <2>3 DEF Nearer, Below, Off
  <2> QED BY <2>2, <2>3, <2>4, <2>5, <2>6 DEF Edited
<1>7. CASE n > 1
  <2>0. n # 1
    <3>1. \A x : x \in Nat /\ x > 1 => x # 1
      OBVIOUS
    <3> QED BY <3>1, <1>1, <1>7
  <2>1. PICK gs, j : CutLines(ls, d, gs, j, a, fs, k)
    BY <1>0, <1>7, LinesCut
  <2>2. /\ ls \in LineHeap /\ Len(ls) = Len(d.lines) /\ Linking(ls) /\ IsList(ls, gs, j)
        /\ gs[1] = fs[1] /\ Len(gs) - j = n - 1
        /\ \A l \in 1 .. Len(d.lines) : ls[l].buffer = d.lines[l].buffer
        /\ \A i \in 1 .. n - 1 : gs[j + i] = fs[k + Skip(i, p)]
    BY <2>1 DEF CutLines
  <2>3. /\ b \in TextSet /\ Len(b.lines) = n - 1
        /\ \A i \in 1 .. Len(b.lines) :
             /\ Skip(i, p) \in 1 .. n /\ Skip(i, p) # p
             /\ b.lines[i] = a.lines[Skip(i, p)]
        /\ Filled(b) /\ (LastEmpty(b) => LastEmpty(a))
    BY <1>1, <1>2, <1>7, WithoutLineIs
  <2> HIDE DEF ls, b
  <2>4. RowsOf(b, gs, j, a, fs, k)
    BY <2>2, <2>3 DEF RowsOf
  <2>5. d.file_buffer = gs[1]
    BY <2>2, <1>0 DEF Sound
  \* The row that the cursor goes to, and the text then.
  <2> DEFINE r == IF p = n THEN p - 1 ELSE p
             R == gs[j + r]
             c == Placed(b, r, 1)
  <2>6. r \in 1 .. Len(b.lines) /\ r \in 1 .. n - 1
    BY <2>3, <1>1, <1>7
  <2>7. R = fs[k + Skip(r, p)] /\ R \in 1 .. Len(d.lines)
        /\ R = IF p = n THEN d.lines[L].prev ELSE d.lines[L].next
    <3>1. Skip(r, p) = (IF p = n THEN p - 1 ELSE p + 1) /\ Skip(r, p) \in 1 .. n
      BY <2>3, <2>6, <1>1 DEF Skip
    <3>2. R = fs[k + Skip(r, p)] /\ R \in 1 .. Len(d.lines)
      BY <3>1, <2>2, <2>6, <1>4
    <3>3. p = n => p # 1
      BY <2>0
    <3> HIDE DEF r, p, n, R
    <3> QED BY <3>1, <3>2, <3>3, <1>3
  <2>8. b.lines[r] = <<>> => Below(a, 1)
    <3>1. PICK o : o = Skip(r, p)
      OBVIOUS
    <3>2. o \in 1 .. n /\ b.lines[r] = a.lines[o]
      BY <3>1, <2>3, <2>6
    <3>3. o # n => a.lines[o] # <<>>
      <4>1. o # n => o \in 1 .. Len(a.lines) - 1
        BY <3>2, <1>1
      <4> QED BY <4>1, <1>2 DEF Filled
    <3>4. o = n => n <= p + 1
      BY <3>1, <1>1 DEF Skip
    <3> QED BY <3>2, <3>3, <3>4 DEF Below, LastEmpty
  <2>9. c.lines = b.lines /\ c.row = r
    BY <2>3 DEF Placed, TextSet
  <2>90. r \in Nat /\ r <= p
    BY <1>1, <2>6
  <2>10. b.lines[r] # <<>> => c \in Texts!DeleteLine(a)
    <3>1. b = [a EXCEPT !.lines = Texts!RemoveAt(a.lines, a.row)]
      BY TextOperators DEF b, WithoutLine
    <3> QED BY <3>1, <2>0 DEF Texts!DeleteLine, Texts!At, Placed
  <2> HIDE DEF c, R, r
  \* Whatever start and row are given to the document.
  <2>11. ASSUME NEW x, x \in DocSet, x.cells = d.cells, x.lines = ls,
                x.file_buffer = d.file_buffer, x.wild = d.wild,
                x.screen_start \in 0 .. Len(d.lines), Off(x) => Off(d),
                x.cursorY \in Int, x.cursorY <= d.cursorY, x.cursorY - r = d.cursorY - p,
                DeleteLine(d) = StartLine(x, R)
         PROVE  \/ DeleteLine(d) = Wild /\ Below(a, 1)
                \/ \E t \in Texts!DeleteLine(a) :
                     Edited(DeleteLine(d), t, d, a) /\ Nearer(DeleteLine(d), t, d, a)
    <3> DEFINE e == StartLine(x, R)
    <3>1. Cut(x, d, gs, j)
      BY <2>2, <2>5, <2>11 DEF Cut
    <3>2. /\ b.lines[r] = <<>> => e = Wild
          /\ b.lines[r] # <<>> => Entered(e, Placed(b, r, 1), x, gs, j, cs)
      BY <3>1, <1>0, <2>3, <2>4, <2>6, StartLineIs DEF R
    <3> HIDE DEF e
    <3>3. CASE b.lines[r] = <<>>
      BY <3>2, <3>3, <2>8, <2>11 DEF e
    <3>4. CASE b.lines[r] # <<>>
      <4>1. Entered(e, c, x, gs, j, cs)
        BY <3>2, <3>4 DEF c
      <4>2. Shows(e, c) /\ On(e) /\ ~e.wild /\ e.lines = ls /\ e.cursorY = x.cursorY
        BY <4>1, <2>11 DEF Entered, Shows
      <4>3. LastEmpty(c) => LastEmpty(a)
        BY <2>3, <2>9 DEF LastEmpty
      <4>4. Rows(d, p) => Rows(e, c.row)
        <5>1. Len(e.lines) = Len(d.lines) /\ e.cursorY - c.row = d.cursorY - p
              /\ e.cursorY <= d.cursorY /\ e.cursorY \in Int
          BY <4>2, <2>2, <2>9, <2>11
        <5> HIDE DEF p
        <5>2. d.cursorY <= Height => e.cursorY <= Height
          BY <5>1, <1>1, EditorSizes
        <5> QED BY <5>1, <5>2 DEF Rows
      <4>5. Edited(e, c, d, a)
        BY <4>2, <4>4 DEF Edited
      <4>6. Off(e) => Off(d)
        BY <4>1, <2>11 DEF Entered, Off
      <4>7. ASSUME NEW m \in Nat, Below(c, m) PROVE Below(a, m + 1)
        <5>1. Len(c.lines) = n - 1 /\ c.row = r /\ Len(c.lines) <= c.row + m
          BY <4>7, <2>3, <2>9 DEF Below
        <5>2. n <= p + (m + 1)
          BY <5>1, <2>90, <1>1
        <5> QED BY <5>2, <4>3, <4>7 DEF Below
      <4>8. Nearer(e, c, d, a)
        BY <4>6, <4>7 DEF Nearer
      <4> QED BY <4>5, <4>8, <3>4, <2>10, <2>11 DEF e
    <3> QED BY <3>3, <3>4
  <2>12. CASE p # n
    <3> DEFINE start == IF p = 1 THEN R ELSE d.screen_start
               x == [d EXCEPT !.lines = ls, !.screen_start = start]
    <3>1. DeleteLine(d) = StartLine(x, R)
      BY <2>7, <2>12, <1>5 DEF DeleteLine, ls
    <3>2. start \in 0 .. Len(d.lines) /\ start \in Nat
      BY <2>7, <1>1, <1>2
    <3>6. start = Null => d.screen_start = Null
      BY <2>7 DEF Null
    <3> HIDE DEF start
    <3>3. /\ x \in DocSet /\ x.cells = d.cells /\ x.lines = ls
          /\ x.file_buffer = d.file_buffer /\ x.wild = d.wild /\ x.screen_start = start
          /\ x.cursorY = d.cursorY
      BY <3>2, <2>2, <1>2 DEF DocSet
    <3> HIDE DEF x
    <3>4. r = p
      BY <2>12 DEF r
    <3>5. x.cursorY \in Int /\ x.cursorY <= d.cursorY /\ x.cursorY - r = d.cursorY - p
      BY <3>3, <3>4, <1>1
    <3>7. Off(x) => Off(d)
      BY <3>3, <3>6 DEF Off
    <3> QED BY <3>1, <3>2, <3>3, <3>5, <3>7, <2>11
  <2>13. CASE p = n
    <3> DEFINE y == d.cursorY - 1
               x == [d EXCEPT !.lines = ls, !.cursorY = y]
    <3>0. p # 1
      BY <2>13, <2>0
    <3>1. DeleteLine(d) = StartLine(x, R)
      BY <3>0, <2>7, <2>13, <1>5 DEF DeleteLine, ls
    <3>2. y \in Int
      BY <1>1
    <3> HIDE DEF y
    <3>3. /\ x \in DocSet /\ x.cells = d.cells /\ x.lines = ls
          /\ x.file_buffer = d.file_buffer /\ x.wild = d.wild /\ x.screen_start = d.screen_start
          /\ x.cursorY = y
      BY <3>2, <2>2, <1>2 DEF DocSet
    <3> HIDE DEF x
    <3>4. r = p - 1
      BY <2>13 DEF r
    <3>5. x.cursorY \in Int /\ x.cursorY <= d.cursorY /\ x.cursorY - r = d.cursorY - p
      BY <3>3, <3>4, <1>1 DEF y
    <3>7. Off(x) => Off(d)
      BY <3>3, <3>5, <1>1, EditorSizes DEF Off
    <3> QED BY <3>1, <3>3, <3>5, <3>7, <1>2, <2>11
  <2> QED BY <2>12, <2>13
<1>8. n = 1 \/ n > 1
  <2>1. \A x : x \in Nat /\ x >= 1 => x = 1 \/ x > 1
    OBVIOUS
  <2> QED BY <2>1, <1>1
<1> QED BY <1>6, <1>7, <1>8

-----------------------------------------------------------------------------
(* The keys.                                                               *)

\* What a key makes of the document: it shows what an edit of the text gives.
Kept(e, b, d, a) ==
  /\ Shows(e, b) /\ On(e) /\ ~e.wild
  /\ Rows(d, a.row) /\ Len(e.lines) <= NLines => Rows(e, b.row)

Handled(e, d, a) == \E b : Texts!Edit(a, b) /\ Kept(e, b, d, a)

LEMMA EditedKept ==
  ASSUME NEW e, NEW b, NEW d, NEW a, Edited(e, b, d, a)
  PROVE  Kept(e, b, d, a)
BY DEF Edited, Kept

LEMMA NothingDone ==
  ASSUME NEW d, NEW a, Shows(d, a), On(d), ~d.wild
  PROVE  Edited(d, a, d, a) /\ Handled(d, d, a)
<1>1. Edited(d, a, d, a)
  BY DEF Edited
<1>2. Texts!Edit(a, a)
  BY DEF Texts!Edit
<1> QED BY <1>1, <1>2, EditedKept DEF Handled

LEMMA MoveHandled ==
  ASSUME NEW d, NEW a, Shows(d, a), On(d), ~d.wild, NEW dir \in {"UP", "DOWN", "LEFT", "RIGHT"}
  PROVE  LET e == ApplyMove(d, dir)
         IN \/ dir = "DOWN" /\ e = Wild /\ (Below(a, 1) \/ Off(d))
            \/ Handled(e, d, a)
<1>1. CASE dir = "UP"
  <2>1. PICK b \in Texts!Up(a) : Edited(ApplyMove(d, "UP"), b, d, a)
    BY MoveUp
  <2>2. Texts!Edit(a, b)
    BY DEF Texts!Edit
  <2> QED BY <2>1, <2>2, <1>1, EditedKept DEF Handled
<1>2. CASE dir = "DOWN"
  <2> DEFINE e == ApplyMove(d, "DOWN")
  <2>1. \/ e = Wild /\ (Below(a, 1) \/ Off(d))
        \/ e.lines = d.lines /\ \E b \in Texts!Down(a) : Edited(e, b, d, a)
    BY MoveDown
  <2> HIDE DEF e
  <2>2. \A b \in Texts!Down(a) : Texts!Edit(a, b)
    BY DEF Texts!Edit
  <2>3. \/ e = Wild /\ (Below(a, 1) \/ Off(d))
        \/ Handled(e, d, a)
    BY <2>1, <2>2, EditedKept DEF Handled
  <2> QED BY <2>3, <1>2 DEF e
<1>3. CASE dir = "LEFT"
  <2>1. PICK b \in Texts!Left(a) : Edited(ApplyMove(d, "LEFT"), b, d, a)
    BY MoveLeftRight
  <2>2. Texts!Edit(a, b)
    BY DEF Texts!Edit
  <2> QED BY <2>1, <2>2, <1>3, EditedKept DEF Handled
<1>4. CASE dir = "RIGHT"
  <2>1. PICK b \in Texts!Right(a) : Edited(ApplyMove(d, "RIGHT"), b, d, a)
    BY MoveLeftRight
  <2>2. Texts!Edit(a, b)
    BY DEF Texts!Edit
  <2> QED BY <2>1, <2>2, <1>4, EditedKept DEF Handled
<1> QED BY <1>1, <1>2, <1>3, <1>4

LEMMA DeleteHandled ==
  ASSUME NEW d, NEW a, Shows(d, a), On(d), ~d.wild
  PROVE  /\ Handled(DeleteChar(d), d, a)
         /\ (DeleteLine(d) = Wild /\ Below(a, 1)) \/ Handled(DeleteLine(d), d, a)
<1>1. PICK b \in Texts!DeleteChar(a) : Edited(DeleteChar(d), b, d, a)
  BY DeleteCharIs
<1>2. Texts!Edit(a, b)
  BY DEF Texts!Edit
<1>3. Handled(DeleteChar(d), d, a)
  BY <1>1, <1>2, EditedKept DEF Handled
<1> DEFINE e == DeleteLine(d)
<1>4. \/ e = Wild /\ Below(a, 1)
      \/ \E t \in Texts!DeleteLine(a) : Edited(e, t, d, a)
  BY DeleteLineIs
<1> HIDE DEF e
<1>5. \A t \in Texts!DeleteLine(a) : Texts!Edit(a, t)
  BY DEF Texts!Edit
<1>6. (e = Wild /\ Below(a, 1)) \/ Handled(e, d, a)
  BY <1>4, <1>5, EditedKept DEF Handled
<1> QED BY <1>3, <1>6 DEF e

\* A line inserted below, and the cursor moved to it.
LEMMA NewLineHandled ==
  ASSUME NEW d, NEW a, Shows(d, a), ~d.wild
  PROVE  LET e == ApplyMove(InsertAfterLine(d), "DOWN")
         IN (e = Wild /\ Off(d)) \/ Handled(e, d, a)
<1> DEFINE f == InsertAfterLine(d)
           e == ApplyMove(f, "DOWN")
           c == WithLine(a)
<1>1. Lengthened(f, c, d, a) /\ c \in Texts!NewLine(a)
  BY NewLineIs
<1> HIDE DEF f, c
<1>2. /\ Shows(f, c) /\ ~f.wild /\ ~Below(c, 1) /\ c.row = a.row
      /\ c.row # Len(c.lines) /\ f.cursorY = d.cursorY /\ f.screen_start = d.screen_start
  BY <1>1 DEF Lengthened
<1>3. \/ e = Wild /\ (Below(c, 1) \/ Off(f))
      \/ e.lines = f.lines /\ \E b \in Texts!Down(c) : Edited(e, b, f, c)
  BY <1>2, MoveDown
<1> HIDE DEF e
<1>4. ASSUME e.lines = f.lines, NEW b \in Texts!Down(c), Edited(e, b, f, c)
      PROVE  Texts!Edit(a, b) /\ Kept(e, b, d, a)
  <2>1. b \in Texts!Then(Texts!NewLine(a), Texts!Down)
    BY <1>1, <1>4 DEF Texts!Then
  <2>2. Texts!Edit(a, b)
    BY <2>1 DEF Texts!Edit
  <2>3. Rows(d, a.row) /\ Len(e.lines) <= NLines => Rows(f, c.row)
    BY <1>2, <1>4 DEF Rows
  <2> QED BY <2>2, <2>3, <1>4 DEF Kept, Edited
<1> QED BY <1>2, <1>3, <1>4 DEF e, f, Off, Handled

\* What the commands are.
IsCommand(com) ==
  /\ com.new_mode \in {"NORMAL", "INSERT", "COMMAND"}
  /\ \/ com.mov = 0 /\ com.del \in {0, 1, 3}
     \/ /\ com.mov = 1 /\ com.del = 0 /\ com.new_mode = "NORMAL"
        /\ com.dir \in {"UP", "DOWN", "LEFT", "RIGHT"}
     \/ /\ com.mov = 1 /\ com.del = 0 /\ com.new_mode = "INSERT"
        /\ com.dir \in {"UP", "DOWN", "RIGHT"}
     \/ /\ com.mov = 1 /\ com.del = 1 /\ com.new_mode = "NORMAL"
        /\ com.dir \in {"LEFT", "RIGHT"}
     \/ /\ com.mov = 1 /\ com.del = 3 /\ com.new_mode = "NORMAL"
        /\ com.dir \in {"UP", "DOWN"}

LEMMA InsertHandled ==
  ASSUME NEW d, NEW a, Shows(d, a), On(d), ~d.wild, NEW dir \in {"UP", "DOWN", "RIGHT"}
  PROVE  LET e == ApplyMove(ApplyInsert(d, dir), dir)
         IN (dir = "DOWN" /\ e = Wild /\ Off(d)) \/ Handled(e, d, a)
<1>1. CASE dir = "UP"
  <2>1. ApplyInsert(d, dir) = d
    BY <1>1 DEF ApplyInsert
  <2>2. dir # "DOWN" => Handled(ApplyMove(d, dir), d, a)
    BY MoveHandled
  <2> QED BY <2>1, <2>2, <1>1
<1>2. CASE dir = "DOWN"
  <2>1. ApplyInsert(d, dir) = InsertAfterLine(d)
    BY <1>2 DEF ApplyInsert
  <2> QED BY <2>1, <1>2, NewLineHandled
<1>3. CASE dir = "RIGHT"
  <2> DEFINE e == ApplyInsert(d, "RIGHT")
  <2>1. PICK b \in Texts!Extend(a) : Edited(e, b, d, a)
    BY ExtendIs
  <2> HIDE DEF e
  <2>2. PICK c \in Texts!Right(b) : Edited(ApplyMove(e, "RIGHT"), c, e, b)
    BY <2>1, MoveLeftRight DEF Edited
  <2>3. c \in Texts!Then(Texts!Extend(a), Texts!Right)
    BY <2>1, <2>2 DEF Texts!Then
  <2>4. Texts!Edit(a, c)
    BY <2>3 DEF Texts!Edit
  <2>5. Edited(ApplyMove(e, "RIGHT"), c, d, a)
    BY <2>1, <2>2, EditedChain
  <2> QED BY <2>4, <2>5, <1>3, EditedKept DEF Handled, e
<1> QED BY <1>1, <1>2, <1>3

\* A character deleted, the cursor moved, and another one deleted.
LEMMA BothChars ==
  ASSUME NEW d, NEW a, Shows(d, a), On(d), ~d.wild, NEW dir \in {"LEFT", "RIGHT"}
  PROVE  LET e == DeleteChar(d)
             f == ApplyMove(e, dir)
         IN ~e.wild /\ ~f.wild /\ Handled(DeleteChar(f), d, a)
<1> DEFINE e == DeleteChar(d)
           f == ApplyMove(e, dir)
           g == DeleteChar(f)
<1>1. PICK b \in Texts!DeleteChar(a) : Edited(e, b, d, a)
  BY DeleteCharIs
<1> HIDE DEF e
<1>2. PICK c : /\ Edited(f, c, e, b)
               /\ \/ dir = "LEFT" /\ c \in Texts!Left(b)
                  \/ dir = "RIGHT" /\ c \in Texts!Right(b)
  <2>1. Shows(e, b) /\ On(e) /\ ~e.wild
    BY <1>1 DEF Edited
  <2> QED BY <2>1, MoveLeftRight
<1> HIDE DEF f
<1>3. PICK t \in Texts!DeleteChar(c) : Edited(g, t, f, c)
  BY <1>2, DeleteCharIs DEF Edited
<1> HIDE DEF g
<1>4. Edited(g, t, d, a)
  BY <1>1, <1>2, <1>3, EditedChain
<1>7. Texts!Edit(a, t)
  <2>1. CASE dir = "LEFT"
    <3>1. t \in Texts!Both(a, Texts!DeleteChar, Texts!Left)
      BY <1>1, <1>2, <1>3, <2>1 DEF Texts!Both, Texts!Then
    <3> QED BY <3>1 DEF Texts!Edit
  <2>2. CASE dir = "RIGHT"
    <3>1. t \in Texts!Both(a, Texts!DeleteChar, Texts!Right)
      BY <1>1, <1>2, <1>3, <2>2 DEF Texts!Both, Texts!Then
    <3> QED BY <3>1 DEF Texts!Edit
  <2> QED BY <2>1, <2>2
<1> QED BY <1>1, <1>2, <1>4, <1>7, EditedKept DEF Handled, Edited, e, f, g

LEMMA BelowMore ==
  ASSUME NEW d, NEW a, Shows(d, a), NEW m \in Nat, NEW n \in Nat, m <= n, Below(a, m)
  PROVE  Below(a, n)
<1>1. PICK fs, k, cs : Sound(d, a, fs, k, cs)
  BY DEF Shows
<1>2. a.row \in 1 .. Len(a.lines) /\ Len(a.lines) \in Nat
  BY <1>1, TextLengths
<1>3. Len(a.lines) <= a.row + m => Len(a.lines) <= a.row + n
  BY <1>2
<1> QED BY <1>3 DEF Below

\* How near the last line was before a movement.
LEMMA BelowMoved ==
  ASSUME NEW d, NEW a, Shows(d, a), NEW m \in Nat
  PROVE  /\ \A c \in Texts!Up(a) : Below(c, m) => Below(a, m)
         /\ \A c \in Texts!Down(a) : Below(c, m) => Below(a, m + 1)
<1>1. PICK fs, k, cs : Sound(d, a, fs, k, cs)
  BY DEF Shows
<1>2. a.row \in 1 .. Len(a.lines) /\ Len(a.lines) \in Nat /\ a \in TextSet
  BY <1>1, TextLengths, SoundCurrent
<1>3. ASSUME NEW r, NEW cols, NEW c \in Texts!At(a, r, cols)
      PROVE  c.lines = a.lines /\ c.row = r
  BY <1>2, <1>3 DEF Texts!At, TextSet
<1>4. ASSUME NEW c \in Texts!Up(a) PROVE c.lines = a.lines /\ c.row \in {a.row, a.row - 1}
  BY <1>3, <1>4 DEF Texts!Up
<1>5. ASSUME NEW c \in Texts!Down(a) PROVE c.lines = a.lines /\ c.row \in {a.row, a.row + 1}
  BY <1>3, <1>5 DEF Texts!Down
<1>6. ASSUME NEW c \in Texts!Up(a), Below(c, m) PROVE Below(a, m)
  <2>1. Len(a.lines) <= c.row + m /\ LastEmpty(a)
    BY <1>4, <1>6 DEF Below, LastEmpty
  <2>2. Len(a.lines) <= a.row + m
    BY <2>1, <1>2, <1>4, <1>6
  <2> QED BY <2>1, <2>2 DEF Below
<1>7. ASSUME NEW c \in Texts!Down(a), Below(c, m) PROVE Below(a, m + 1)
  <2>1. Len(a.lines) <= c.row + m /\ LastEmpty(a)
    BY <1>5, <1>7 DEF Below, LastEmpty
  <2>2. Len(a.lines) <= a.row + (m + 1)
    BY <2>1, <1>2, <1>5, <1>7
  <2> QED BY <2>1, <2>2 DEF Below
<1> QED BY <1>6, <1>7

\* A line deleted, the cursor moved, and another one deleted: three steps towards the
\* last line when they go down, two when they go up.
LEMMA BothLines ==
  ASSUME NEW d, NEW a, Shows(d, a), On(d), ~d.wild, NEW dir \in {"UP", "DOWN"}
  PROVE  LET e == DeleteLine(d)
             f == ApplyMove(e, dir)
             g == DeleteLine(f)
             lost == \/ Below(a, 2)
                     \/ dir = "DOWN" /\ (Below(a, 3) \/ Off(d))
         IN \/ e = Wild /\ lost
            \/ ~e.wild /\ f = Wild /\ lost
            \/ ~e.wild /\ ~f.wild /\ ((g = Wild /\ lost) \/ Handled(g, d, a))
<1> DEFINE e == DeleteLine(d)
           f == ApplyMove(e, dir)
           g == DeleteLine(f)
           lost == \/ Below(a, 2)
                   \/ dir = "DOWN" /\ (Below(a, 3) \/ Off(d))
<1>1. \/ e = Wild /\ Below(a, 1)
      \/ \E b \in Texts!DeleteLine(a) : Edited(e, b, d, a) /\ Nearer(e, b, d, a)
  BY DeleteLineIs
<1>3. Below(a, 1) => Below(a, 2)
  BY BelowMore
<1> HIDE DEF e
<1>2. ASSUME NEW b \in Texts!DeleteLine(a), Edited(e, b, d, a), Nearer(e, b, d, a)
      PROVE  \/ ~e.wild /\ f = Wild /\ lost
             \/ ~e.wild /\ ~f.wild /\ ((g = Wild /\ lost) \/ Handled(g, d, a))
  <2>1. Shows(e, b) /\ On(e) /\ ~e.wild
    BY <1>2 DEF Edited
  <2>4. /\ Off(e) => Off(d)
        /\ Below(b, 1) => Below(a, 2)
        /\ Below(b, 2) => Below(a, 3)
    <3>1. 1 \in Nat /\ 2 \in Nat /\ 1 + 1 = 2 /\ 2 + 1 = 3
      OBVIOUS
    <3> QED BY <3>1, <1>2 DEF Nearer
  <2>2. \/ f = Wild /\ lost
        \/ \E c : /\ Edited(f, c, e, b)
                  /\ \/ dir = "UP" /\ c \in Texts!Up(b)
                     \/ dir = "DOWN" /\ c \in Texts!Down(b)
    <3>1. CASE dir = "UP"
      BY <3>1, <2>1, MoveUp
    <3>2. CASE dir = "DOWN"
      <4>1. \/ f = Wild /\ (Below(b, 1) \/ Off(e))
            \/ \E c \in Texts!Down(b) : Edited(f, c, e, b)
        BY <3>2, <2>1, MoveDown
      <4> HIDE DEF f
      <4> QED BY <4>1, <3>2, <2>4
    <3> QED BY <3>1, <3>2
  <2> HIDE DEF f
  <2>3. ASSUME NEW c, Edited(f, c, e, b), (dir = "UP" /\ c \in Texts!Up(b)) \/
                                         (dir = "DOWN" /\ c \in Texts!Down(b))
        PROVE  ~f.wild /\ ((g = Wild /\ lost) \/ Handled(g, d, a))
    <3>1. \/ g = Wild /\ Below(c, 1)
          \/ \E t \in Texts!DeleteLine(c) : Edited(g, t, f, c)
      BY <2>3, DeleteLineIs DEF Edited
    <3> HIDE DEF g
    <3>2. ASSUME NEW t \in Texts!DeleteLine(c), Edited(g, t, f, c)
          PROVE  Texts!Edit(a, t) /\ Edited(g, t, d, a)
      <4>1. Edited(g, t, d, a)
        <5>1. Edited(f, c, d, a)
          BY <2>3, <1>2, EditedChain
        <5> QED BY <5>1, <3>2, EditedChain
      <4>2. CASE dir = "UP"
        <5>1. t \in Texts!Both(a, Texts!DeleteLine, Texts!Up)
          BY <1>2, <2>3, <3>2, <4>2 DEF Texts!Both, Texts!Then
        <5> QED BY <4>1, <5>1 DEF Texts!Edit
      <4>3. CASE dir = "DOWN"
        <5>1. t \in Texts!Both(a, Texts!DeleteLine, Texts!Down)
          BY <1>2, <2>3, <3>2, <4>3 DEF Texts!Both, Texts!Then
        <5> QED BY <4>1, <5>1 DEF Texts!Edit
      <4> QED BY <4>2, <4>3
    <3>3. Below(c, 1) => lost
      <4>1. /\ \A x \in Texts!Up(b) : Below(x, 1) => Below(b, 1)
            /\ \A x \in Texts!Down(b) : Below(x, 1) => Below(b, 1 + 1)
        BY <2>1, BelowMoved
      <4>2. 1 + 1 = 2
        OBVIOUS
      <4> QED BY <4>1, <4>2, <2>3, <2>4
    <3> QED BY <2>3, <3>1, <3>2, <3>3, EditedKept DEF Handled, Edited
  <2> QED BY <2>1, <2>2, <2>3
<1> QED BY <1>1, <1>2, <1>3 DEF e, f, g

\* When a command follows a pointer to nothing.
Loses(com, d, a) ==
  \/ com.mov = 1 /\ com.dir = "DOWN" /\ Off(d)
  \/ com.mov = 1 /\ com.dir = "DOWN" /\ com.new_mode = "NORMAL" /\ com.del = 0 /\ Below(a, 1)
  \/ com.mov = 0 /\ com.del = 3 /\ Below(a, 1)
  \/ com.mov = 1 /\ com.del = 3 /\ com.dir = "UP" /\ Below(a, 2)
  \/ com.mov = 1 /\ com.del = 3 /\ com.dir = "DOWN" /\ Below(a, 3)

LEMMA RunCommandHandled ==
  ASSUME NEW d, NEW a, Shows(d, a), On(d), ~d.wild, NEW com, IsCommand(com)
  PROVE  LET e == RunCommand(d, com)
         IN (e = Wild /\ Loses(com, d, a)) \/ Handled(e, d, a)
<1>1. CASE com.mov = 0 /\ com.del \in {0, 1, 3}
  <2>1. RunCommand(d, com) = IF com.del = 0 THEN d
                             ELSE IF com.del = 1 THEN DeleteChar(d) ELSE DeleteLine(d)
    BY <1>1 DEF RunCommand, ApplyDelete
  <2> QED BY <2>1, <1>1, NothingDone, DeleteHandled DEF Loses
<1>2. CASE /\ com.mov = 1 /\ com.del = 0 /\ com.new_mode = "NORMAL"
           /\ com.dir \in {"UP", "DOWN", "LEFT", "RIGHT"}
  <2> DEFINE e == ApplyMove(d, com.dir)
  <2>1. \/ com.dir = "DOWN" /\ e = Wild /\ (Below(a, 1) \/ Off(d))
        \/ Handled(e, d, a)
    BY <1>2, MoveHandled
  <2>2. RunCommand(d, com) = e
    BY <1>2 DEF RunCommand, Then
  <2> HIDE DEF e
  <2> QED BY <2>1, <2>2, <1>2 DEF Loses
<1>3. CASE /\ com.mov = 1 /\ com.del = 0 /\ com.new_mode = "INSERT"
           /\ com.dir \in {"UP", "DOWN", "RIGHT"}
  <2> DEFINE e == ApplyMove(ApplyInsert(d, com.dir), com.dir)
  <2>1. (com.dir = "DOWN" /\ e = Wild /\ Off(d)) \/ Handled(e, d, a)
    BY <1>3, InsertHandled
  <2>2. RunCommand(d, com) = e
    BY <1>3 DEF RunCommand, Then
  <2> HIDE DEF e
  <2> QED BY <2>1, <2>2, <1>3 DEF Loses
<1>4. CASE /\ com.mov = 1 /\ com.del = 1 /\ com.new_mode = "NORMAL"
           /\ com.dir \in {"LEFT", "RIGHT"}
  <2> DEFINE e == DeleteChar(d)
             f == ApplyMove(e, com.dir)
  <2>1. ~e.wild /\ ~f.wild /\ Handled(DeleteChar(f), d, a)
    BY <1>4, BothChars
  <2>2. RunCommand(d, com) = DeleteChar(f)
    <3>1. ApplyMoveDelete(f, "UP") = f
      BY DEF ApplyMoveDelete
    <3> QED BY <1>4, <2>1, <3>1 DEF RunCommand, Then, ApplyDelete
  <2> QED BY <2>1, <2>2
<1>5. CASE /\ com.mov = 1 /\ com.del = 3 /\ com.new_mode = "NORMAL"
           /\ com.dir \in {"UP", "DOWN"}
  <2> DEFINE e == DeleteLine(d)
             f == ApplyMove(e, com.dir)
             g == DeleteLine(f)
             lost == \/ Below(a, 2)
                     \/ com.dir = "DOWN" /\ (Below(a, 3) \/ Off(d))
  <2>1. \/ e = Wild /\ lost
        \/ ~e.wild /\ f = Wild /\ lost
        \/ ~e.wild /\ ~f.wild /\ ((g = Wild /\ lost) \/ Handled(g, d, a))
    BY <1>5, BothLines
  <2>2. RunCommand(d, com) = IF e.wild THEN e ELSE IF f.wild THEN f ELSE DeleteLine(f)
    <3>1. ApplyMoveDelete(f, "UP") = f
      BY DEF ApplyMoveDelete
    <3> QED BY <1>5, <3>1 DEF RunCommand, Then, ApplyDelete
  <2>3. lost => Loses(com, d, a)
    <3>1. Below(a, 2) => Below(a, 3)
      BY BelowMore
    <3> QED BY <3>1, <1>5 DEF Loses
  <2> HIDE DEF e, f, lost
  <2> QED BY <2>1, <2>2, <2>3, WildFlag
<1> QED BY <1>1, <1>2, <1>3, <1>4, <1>5 DEF IsCommand

LEMMA InsertionsHandled ==
  ASSUME NEW d, NEW a, Shows(d, a), On(d), ~d.wild
  PROVE  /\ \A c \in Letters : Handled(InsertChar(d, c), d, a)
         /\ Handled(InsertSpace(d), d, a)
         /\ Handled(InsertSpace(InsertSpace(d)), d, a)
<1>1. ASSUME NEW c \in Letters PROVE Handled(InsertChar(d, c), d, a)
  <2>1. c \in AllChars
    BY DEF AllChars
  <2>2. PICK b \in Texts!InsertChar(a, c) : Edited(InsertChar(d, c), b, d, a)
    BY <2>1, InsertCharIs
  <2>3. Texts!Edit(a, b)
    BY <2>2 DEF Texts!Edit
  <2> QED BY <2>2, <2>3, EditedKept DEF Handled
<1>2. Handled(InsertSpace(d), d, a)
  <2>1. PICK b \in Texts!InsertChar(a, Space) : Edited(InsertSpace(d), b, d, a)
    BY InsertSpaceIs
  <2>2. b \in Texts!InsertChar(a, Texts!Space)
    BY <2>1, Spaces
  <2>3. Texts!Edit(a, b)
    BY <2>2 DEF Texts!Edit
  <2> QED BY <2>1, <2>3, EditedKept DEF Handled
<1>3. Handled(InsertSpace(InsertSpace(d)), d, a)
  <2>1. PICK b \in Texts!Then(Texts!InsertChar(a, Space),
                              LAMBDA c : Texts!InsertChar(c, Space)) :
               Edited(InsertSpace(InsertSpace(d)), b, d, a)
    BY InsertTabIs
  <2>2. b \in Texts!Then(Texts!InsertChar(a, Texts!Space),
                         LAMBDA c : Texts!InsertChar(c, Texts!Space))
    BY <2>1, Spaces DEF Texts!Then
  <2>3. Texts!Edit(a, b)
    BY <2>2 DEF Texts!Edit
  <2> QED BY <2>1, <2>3, EditedKept DEF Handled
<1> QED BY <1>1, <1>2, <1>3

\* Whether there is a line above, and a character before.
LEMMA Edges ==
  ASSUME NEW d, NEW a, Shows(d, a)
  PROVE  /\ d.lines[d.current_line].prev = Null <=> a.row = 1
         /\ d.cells[d.current_text].prev = Null <=> a.col = 1
         /\ a.row >= 1 /\ a.row \in Nat /\ a.col >= 1 /\ a.col \in Nat
<1>0. PICK fs, k, cs : Sound(d, a, fs, k, cs)
  BY DEF Shows
<1>1. PICK p : p = a.row
  OBVIOUS
<1>2. PICK q : q = a.col
  OBVIOUS
<1> DEFINE L == RowLine(a, fs, k)
           s == cs[L]
<1>3. /\ p \in 1 .. Len(a.lines) /\ q \in 1 .. Len(a.lines[p])
  BY <1>0, <1>1, <1>2, SoundLengths
<1>4. /\ L \in 1 .. Len(cs) /\ q \in 1 .. Len(s) /\ CellAt(d, s, q)
      /\ d.current_line = L /\ d.current_text = s[q]
  BY <1>0, <1>2, RowNumbers
<1>40. \A j \in 1 .. Len(s) : s[j] \in 1 .. Len(d.cells)
  BY <1>0, RowNumbers
<1>5. d.lines[fs[k + p]].prev = IF p = 1 THEN Null ELSE fs[k + (p - 1)]
  BY <1>0, <1>3, RowFacts
<1>6. p # 1 => fs[k + (p - 1)] # Null
  <2>1. p # 1 => p - 1 \in 1 .. Len(a.lines)
    BY <1>3
  <2>2. \A j \in 1 .. Len(a.lines) : fs[k + j] \in 1 .. Len(d.lines)
    BY <1>0, LineNumbers
  <2> QED BY <2>1, <2>2 DEF Null
<1>7. fs[k + p] = L
  BY <1>1 DEF RowLine
<1>8. d.lines[d.current_line].prev = Null <=> p = 1
  BY <1>4, <1>5, <1>6, <1>7
<1>9. d.cells[d.current_text].prev = Null <=> q = 1
  <2>1. q # 1 => q - 1 \in 1 .. Len(s)
    BY <1>4
  <2> HIDE DEF s
  <2> QED BY <2>1, <1>4, <1>40 DEF CellAt, Null
<1>10. p >= 1 /\ p \in Nat /\ q >= 1 /\ q \in Nat
  BY <1>3
<1> QED BY <1>1, <1>2, <1>8, <1>9, <1>10

\* The document that Backspace leaves.
Erased(d) ==
  IF d.cells[d.current_text].prev # Null THEN DeleteChar(ApplyMove(d, "LEFT"))
  ELSE IF d.lines[d.current_line].prev # Null THEN DeleteLine(d)
  ELSE Then(DeleteLine(d), LAMBDA e : ApplyMove(e, "UP"))

LEMMA BackspaceHandled ==
  ASSUME NEW d, NEW a, Shows(d, a), On(d), ~d.wild
  PROVE  (Erased(d) = Wild /\ Below(a, 1)) \/ Handled(Erased(d), d, a)
<1>1. /\ d.lines[d.current_line].prev = Null <=> a.row = 1
      /\ d.cells[d.current_text].prev = Null <=> a.col = 1
      /\ a.row >= 1 /\ a.row \in Nat /\ a.col >= 1 /\ a.col \in Nat
  BY Edges
<1>2. CASE a.col # 1
  <2> DEFINE e == ApplyMove(d, "LEFT")
             f == DeleteChar(e)
  <2>1. Erased(d) = f
    BY <1>1, <1>2 DEF Erased
  <2>2. PICK b \in Texts!Left(a) : Edited(e, b, d, a)
    BY MoveLeftRight
  <2> HIDE DEF e
  <2>3. PICK c \in Texts!DeleteChar(b) : Edited(f, c, e, b)
    BY <2>2, DeleteCharIs DEF Edited
  <2> HIDE DEF f
  <2>4. Edited(f, c, d, a)
    BY <2>2, <2>3, EditedChain
  <2>5. c \in Texts!Backspace(a)
    <3>1. a.col > 1
      BY <1>1, <1>2
    <3> QED BY <3>1, <2>2, <2>3 DEF Texts!Backspace, Texts!Then
  <2>6. Texts!Edit(a, c)
    BY <2>5 DEF Texts!Edit
  <2> QED BY <2>1, <2>4, <2>6, EditedKept DEF Handled
<1>3. CASE a.col = 1 /\ a.row # 1
  <2>1. Erased(d) = DeleteLine(d)
    BY <1>1, <1>3 DEF Erased
  <2> QED BY <2>1, DeleteHandled
<1>4. CASE a.col = 1 /\ a.row = 1
  <2> DEFINE e == DeleteLine(d)
             f == ApplyMove(e, "UP")
  <2>1. Erased(d) = IF e.wild THEN e ELSE f
    BY <1>1, <1>4 DEF Erased, Then
  <2>2. \/ e = Wild /\ Below(a, 1)
        \/ \E b \in Texts!DeleteLine(a) : Edited(e, b, d, a)
    BY DeleteLineIs
  <2> HIDE DEF e
  <2>3. ASSUME NEW b \in Texts!DeleteLine(a), Edited(e, b, d, a)
        PROVE  ~e.wild /\ Handled(f, d, a)
    <3>1. ~e.wild
      BY <2>3 DEF Edited
    <3>2. PICK c \in Texts!Up(b) : Edited(f, c, e, b)
      BY <2>3, MoveUp DEF Edited
    <3> HIDE DEF f
    <3>3. Edited(f, c, d, a)
      BY <2>3, <3>2, EditedChain
    <3>4. c \in Texts!Backspace(a)
      <4>1. ~(a.col > 1) /\ ~(a.row > 1)
        BY <1>4
      <4> QED BY <4>1, <2>3, <3>2 DEF Texts!Backspace, Texts!Then
    <3>5. Texts!Edit(a, c)
      BY <3>4 DEF Texts!Edit
    <3> QED BY <3>1, <3>3, <3>5, EditedKept DEF Handled
  <2> QED BY <2>1, <2>2, <2>3, WildFlag
<1> QED BY <1>2, <1>3, <1>4

LEMMA FlagSound ==
  ASSUME NEW d, NEW a, Shows(d, a), NEW on \in BOOLEAN
  PROVE  LET e == Flag(d, on)
         IN /\ Shows(e, a) /\ e.lines = d.lines /\ e.wild = d.wild /\ (on => On(e))
            /\ e.screen_start = d.screen_start /\ e.cursorY = d.cursorY
            /\ e.current_text = d.current_text
<1>0. PICK fs, k, cs : Sound(d, a, fs, k, cs)
  BY DEF Shows
<1> DEFINE e == Flag(d, on)
<1>1. /\ d \in DocSet /\ d.current_text \in 1 .. Len(d.cells)
      /\ d.screen_start \in 0 .. Len(d.lines) /\ d.cells \in CellHeap
  BY <1>0, SoundCurrent DEF DocSet
<1>2. /\ e \in DocSet /\ SameFrame(e, d) /\ SameText(e.cells, d.cells)
      /\ e.current_line = d.current_line /\ e.current_text = d.current_text
      /\ e.screen_start = d.screen_start /\ e.cursorY = d.cursorY
      /\ \A m \in 1 .. Len(d.cells) :
           e.cells[m].cursor = IF m = d.current_text THEN on ELSE d.cells[m].cursor
  BY <1>1, FlagIs
<1> HIDE DEF e
<1>3. /\ e.lines = d.lines /\ e.file_buffer = d.file_buffer /\ e.wild = d.wild
      /\ e.cells \in CellHeap
  BY <1>2 DEF SameFrame, DocSet
<1>4. /\ CellLists(d.cells, cs) /\ Linking(d.cells) /\ Buffers(d.lines, cs)
      /\ Reads(d.cells, a.lines, fs, k, cs) /\ OneFlag(d, fs, k, cs) /\ InPlace(d, a, fs, k, cs)
      /\ Linking(d.lines) /\ IsList(d.lines, fs, k) /\ d.file_buffer = fs[1]
      /\ a \in TextSet /\ Filled(a)
  BY <1>0 DEF Sound
<1>5. \A i \in 1 .. Len(a.lines) : fs[k + i] \in 1 .. Len(cs)
  BY <1>0, LineNumbers
<1>6. Linking(e.cells) /\ CellLists(e.cells, cs) /\ Reads(e.cells, a.lines, fs, k, cs)
  BY <1>1, <1>2, <1>3, <1>4, <1>5, SameTextKept
<1>7. OneFlag(e, fs, k, cs)
  <2>1. ASSUME NEW i \in 1 .. Len(fs) - k, NEW q \in 1 .. Len(cs[fs[k + i]]),
               e.cells[cs[fs[k + i]][q]].cursor
        PROVE  cs[fs[k + i]][q] = e.current_text
    <3>1. i \in 1 .. Len(a.lines)
      BY <1>0, SoundLengths
    <3>2. cs[fs[k + i]][q] \in 1 .. Len(d.cells)
      BY <1>0, <3>1, LineNumbers
    <3> QED BY <3>2, <2>1, <1>2, <1>4 DEF OneFlag
  <2> QED BY <2>1 DEF OneFlag
<1>8. InPlace(e, a, fs, k, cs)
  BY <1>2, <1>4 DEF InPlace
<1>9. Sound(e, a, fs, k, cs)
  BY <1>1, <1>2, <1>3, <1>4, <1>6, <1>7, <1>8 DEF Sound
<1>10. on => On(e)
  BY <1>1, <1>2 DEF On
<1> QED BY <1>2, <1>3, <1>9, <1>10 DEF Shows, e

\* The document that Enter leaves.
Entering(d) ==
  LET Column0(e) == [Flag(e, TRUE) EXCEPT !.cursorX = 0]
  IN Then(ApplyMove(ApplyInsert(Flag(d, FALSE), "DOWN"), "DOWN"), Column0)

LEMMA EnterHandled ==
  ASSUME NEW d, NEW a, Shows(d, a), On(d), ~d.wild
  PROVE  (Entering(d) = Wild /\ Off(d)) \/ Handled(Entering(d), d, a)
<1> DEFINE f == Flag(d, FALSE)
           e == ApplyMove(InsertAfterLine(f), "DOWN")
           g == Flag(e, TRUE)
           h == [g EXCEPT !.cursorX = 0]
<1>1. /\ Shows(f, a) /\ f.lines = d.lines /\ f.wild = d.wild
      /\ f.screen_start = d.screen_start /\ f.cursorY = d.cursorY
  BY FlagSound
<1>2. Entering(d) = IF e.wild THEN e ELSE h
  BY DEF Entering, Then, ApplyInsert
<1> HIDE DEF f
<1>3. \/ e = Wild /\ Off(f)
      \/ \E b : Texts!Edit(a, b) /\ Kept(e, b, f, a)
  BY <1>1, NewLineHandled DEF Handled
<1> HIDE DEF e
<1>4. ASSUME NEW b, Texts!Edit(a, b), Kept(e, b, f, a)
      PROVE  ~e.wild /\ Handled(h, d, a)
  <2>1. Shows(e, b) /\ ~e.wild /\ On(e)
    BY <1>4 DEF Kept
  <2>2. /\ Shows(g, b) /\ g.lines = e.lines /\ g.wild = e.wild /\ On(g)
        /\ g.cursorY = e.cursorY
    BY <2>1, FlagSound
  <2> HIDE DEF g
  <2>3. Edited(g, b, g, b)
    BY <2>1, <2>2 DEF Edited
  <2>4. Edited(h, b, g, b)
    BY <2>3, ColumnCounted
  <2>5. g \in DocSet
    BY <2>2, EditedDoc
  <2>6. h.lines = e.lines /\ h.cursorY = e.cursorY
    BY <2>2, <2>5 DEF DocSet
  <2> HIDE DEF h
  <2>7. Kept(h, b, d, a)
    BY <2>4, <2>6, <1>1, <1>4 DEF Kept, Edited, Rows
  <2> QED BY <2>1, <2>7, <1>4 DEF Handled
<1> HIDE DEF h
<1>5. ASSUME e = Wild /\ Off(f)
      PROVE  Entering(d) = Wild /\ Off(d)
  <2>1. Entering(d) = Wild
    BY <1>2, <1>5, WildFlag
  <2> QED BY <1>1, <1>5, <2>1 DEF Off
<1>6. ASSUME NEW b, Texts!Edit(a, b), Kept(e, b, f, a)
      PROVE  Handled(Entering(d), d, a)
  <2>1. ~e.wild /\ Handled(h, d, a)
    BY <1>4, <1>6
  <2>2. Entering(d) = h
    BY <1>2, <2>1
  <2> QED BY <2>1, <2>2
<1> QED BY <1>3, <1>5, <1>6

-----------------------------------------------------------------------------
(* Loading a file.                                                         *)

\* Where the lines of a file start: each after the one before it.
Starts(s, f) ==
  /\ \A i \in 1 .. Len(f) : s[i] \in Nat /\ s[i] >= 1
  /\ s[1] = 1 /\ \A i \in 1 .. Len(f) - 1 : s[i + 1] = s[i] + Len(f[i])

Lengths(f) == Len(f) \in Nat /\ Len(f) >= 1 /\ \A i \in 1 .. Len(f) : Len(f[i]) \in Nat

LEMMA StartsAre ==
  ASSUME NEW f, Lengths(f)
  PROVE  Starts(LineStarts(f), f)
<1>15. \A x, y \in Nat : x >= 1 => x + y \in Nat /\ x + y >= 1
  OBVIOUS
<1> DEFINE n == Len(f)
           I == 1 .. n
           F == [x \in Nat \X Nat |-> x[2] + IF x[1] \in I THEN Len(f[x[1]]) ELSE 0]
           Body(w) == [i \in I |-> IF i = 1 THEN 1 ELSE w[i - 1] + Len(f[i - 1])]
           start == CHOOSE w : w = Body(w)
<1>0. n \in Nat /\ n >= 1 /\ \A i \in I : Len(f[i]) \in Nat
  BY DEF Lengths
<1>1. ASSUME NEW k \in Nat, NEW x \in Nat
      PROVE  F[<<k, x>>] = (x + IF k \in I THEN Len(f[k]) ELSE 0) /\ F[<<k, x>>] \in Nat
  BY <1>0
<1>2. Steps(Nat, F)
  <2> HIDE DEF F
  <2> QED BY <1>1 DEF Steps
<1>3. PICK g \in [Nat -> Nat] : g[0] = 1 /\ \A m \in Nat : g[m + 1] = F[<<m + 1, g[m]>>]
  <2> DEFINE one == 1
             N == Nat
  <2>1. one \in N /\ Steps(N, F)
    BY <1>2
  <2>2. \E g \in [Nat -> N] : g[0] = one /\ \A m \in Nat : g[m + 1] = F[<<m + 1, g[m]>>]
    <3> HIDE DEF F, one, N
    <3> QED BY <2>1, RecursionExists
  <2> HIDE DEF F
  <2> QED BY <2>2 DEF one, N
<1>4. ASSUME NEW m \in Nat, m + 1 \in I PROVE g[m + 1] = g[m] + Len(f[m + 1])
  <2> HIDE DEF F
  <2>1. g[m] \in Nat /\ m + 1 \in Nat /\ g[m + 1] = F[<<m + 1, g[m]>>]
    BY <1>3
  <2> QED BY <2>1, <1>1, <1>4
<1> DEFINE v == [i \in I |-> g[i - 1]]
<1>5. v = Body(v)
  <2>1. ASSUME NEW i \in I
        PROVE  v[i] = IF i = 1 THEN 1 ELSE v[i - 1] + Len(f[i - 1])
    <3>1. CASE i = 1
      BY <3>1, <1>3
    <3>2. CASE i # 1
      <4>1. i - 2 \in Nat /\ (i - 2) + 1 = i - 1 /\ i - 1 \in I /\ (i - 1) - 1 = i - 2
        BY <3>2, <1>0
      <4>2. g[i - 1] = g[i - 2] + Len(f[i - 1])
        BY <4>1, <1>4
      <4> QED BY <4>1, <4>2, <3>2
    <3> QED BY <3>1, <3>2
  <2> QED BY <2>1
<1>6. start = Body(start)
  <2> DEFINE Rec(w) == w = Body(w)
  <2>1. Rec(v)
    BY <1>5
  <2>2. start = CHOOSE w : Rec(w)
    OBVIOUS
  <2>3. Rec(CHOOSE w : Rec(w))
    <3> HIDE DEF Rec
    <3> QED BY <2>1
  <2>4. Rec(start)
    <3> HIDE DEF start, Rec
    <3> QED BY <2>2, <2>3
  <2> HIDE DEF start, Body
  <2> QED BY <2>4
<1>7. LineStarts(f) = start
  BY DEF LineStarts
<1> HIDE DEF start
<1>8. ASSUME NEW i \in I PROVE start[i] = IF i = 1 THEN 1 ELSE start[i - 1] + Len(f[i - 1])
  BY <1>6
<1>9. ASSUME NEW i \in 1 .. n - 1 PROVE start[i + 1] = start[i] + Len(f[i])
  <2>1. i + 1 \in I /\ i + 1 # 1 /\ (i + 1) - 1 = i
    BY <1>0
  <2> QED BY <2>1, <1>8
<1> DEFINE Good == {k \in 0 .. n - 1 : start[k + 1] \in Nat /\ start[k + 1] >= 1}
<1>10. 0 \in Good
  BY <1>0, <1>8
<1>11. ASSUME NEW k \in 0 .. (n - 1) - 1, k \in Good PROVE k + 1 \in Good
  <2>1. k + 1 \in 1 .. n - 1 /\ k + 1 \in I /\ k + 1 \in 0 .. n - 1
    BY <1>0
  <2>2. PICK i \in 1 .. n - 1 : i = k + 1
    BY <2>1
  <2>3. start[i] \in Nat /\ start[i] >= 1
    BY <2>2, <1>11
  <2>4. start[i + 1] = start[i] + Len(f[i])
    BY <1>9
  <2>5. Len(f[i]) \in Nat
    BY <1>0
  <2>6. PICK x \in Nat, y \in Nat : x = start[i] /\ y = Len(f[i]) /\ x >= 1
    BY <2>3, <2>5
  <2>7. start[i + 1] = x + y
    BY <2>4, <2>6
  <2>9. x + y \in Nat /\ x + y >= 1
    BY <2>6, <1>15
  <2>8. start[i + 1] \in Nat /\ start[i + 1] >= 1
    BY <2>7, <2>9
  <2> QED BY <2>1, <2>2, <2>8
<1>12. 0 .. n - 1 \subseteq Good
  <2>1. n - 1 \in Nat
    BY <1>0
  <2> HIDE DEF Good
  <2> QED BY <2>1, <1>10, <1>11, BoundedInduction
<1>13. ASSUME NEW i \in I PROVE start[i] \in Nat /\ start[i] >= 1
  <2>1. i - 1 \in 0 .. n - 1 /\ (i - 1) + 1 = i
    BY <1>0
  <2> QED BY <2>1, <1>12
<1>14. start[1] = 1
  BY <1>0, <1>8
<1> QED BY <1>7, <1>9, <1>13, <1>14 DEF Starts

LEMMA StartsGrow ==
  ASSUME NEW f, Lengths(f), NEW s, Starts(s, f),
         NEW i \in 1 .. Len(f), NEW j \in 1 .. Len(f), i < j
  PROVE  s[i] + Len(f[i]) <= s[j]
<1> DEFINE n == Len(f)
           Good == {k \in 0 .. n : i < k /\ k <= n => s[i] + Len(f[i]) <= s[k]}
<1>0. /\ n \in Nat /\ \A m \in 1 .. n : Len(f[m]) \in Nat /\ s[m] \in Nat
      /\ \A m \in 1 .. n - 1 : s[m + 1] = s[m] + Len(f[m])
  BY DEF Starts, Lengths
<1>1. 0 \in Good
  BY <1>0
<1>2. ASSUME NEW k \in 0 .. n - 1, k \in Good PROVE k + 1 \in Good
  <2>0. k + 1 \in 0 .. n
    BY <1>0
  <2>1. CASE i = k
    <3>1. k \in 1 .. n - 1
      BY <2>1, <1>0
    <3>2. s[k + 1] = s[i] + Len(f[i])
      BY <3>1, <2>1, <1>0
    <3>3. s[i] \in Nat /\ Len(f[i]) \in Nat
      BY <1>0
    <3> QED BY <3>2, <3>3, <2>0
  <2>2. CASE i < k
    <3>1. k \in 1 .. n - 1 /\ k \in 1 .. n
      BY <2>2, <1>0
    <3>2. s[k + 1] = s[k] + Len(f[k]) /\ s[i] + Len(f[i]) <= s[k]
      BY <3>1, <2>2, <1>0, <1>2
    <3>3. s[i] \in Nat /\ Len(f[i]) \in Nat /\ s[k] \in Nat /\ Len(f[k]) \in Nat
      BY <3>1, <1>0
    <3> QED BY <3>2, <3>3, <2>0
  <2>3. CASE i > k
    BY <2>3, <2>0
  <2> QED BY <2>1, <2>2, <2>3, <1>0
<1>3. 0 .. n \subseteq Good
  <2> HIDE DEF Good
  <2> QED BY <1>0, <1>1, <1>2, BoundedInduction
<1>4. j \in Good
  <2>1. j \in 0 .. n
    BY <1>0
  <2> HIDE DEF Good
  <2> QED BY <2>1, <1>3
<1> QED BY <1>4

LEMMA StartsCover ==
  ASSUME NEW f, Lengths(f), NEW s, Starts(s, f),
         NEW k \in 1 .. s[Len(f)] - 1
  PROVE  \E i \in 1 .. Len(f) - 1 : s[i] <= k /\ k < s[i + 1]
<1> DEFINE n == Len(f)
           Good == {m \in 0 .. n - 1 : k < s[m + 1] =>
                      \E i \in 1 .. n - 1 : s[i] <= k /\ k < s[i + 1]}
<1>0. /\ n \in Nat /\ n >= 1 /\ s[1] = 1 /\ \A m \in 1 .. n : s[m] \in Nat
      /\ k \in Nat /\ k >= 1 /\ k < s[n]
  BY DEF Starts, Lengths
<1>1. 0 \in Good
  BY <1>0
<1>2. ASSUME NEW m \in 0 .. (n - 1) - 1, m \in Good PROVE m + 1 \in Good
  <2>1. m + 1 \in 0 .. n - 1 /\ m + 1 \in 1 .. n - 1 /\ m + 1 \in 1 .. n
    BY <1>0
  <2>2. CASE k < s[m + 1]
    BY <2>1, <2>2, <1>2
  <2>3. CASE ~(k < s[m + 1])
    <3>1. s[m + 1] <= k
      BY <2>1, <2>3, <1>0
    <3> QED BY <2>1, <3>1
  <2> QED BY <2>2, <2>3
<1>3. 0 .. n - 1 \subseteq Good
  <2>1. n - 1 \in Nat
    BY <1>0
  <2> HIDE DEF Good
  <2> QED BY <2>1, <1>1, <1>2, BoundedInduction
<1>4. n - 1 \in 0 .. n - 1 /\ (n - 1) + 1 = n
  BY <1>0
<1> QED BY <1>0, <1>3, <1>4

LEMMA FileFacts ==
  ASSUME NEW f \in Files
  PROVE  /\ Lengths(f) /\ Len(f) <= NLines /\ f \in Seq(Seq(FileLetters))
         /\ \A i \in 1 .. Len(f) : /\ f[i] \in Seq(FileLetters)
                                   /\ \A q \in 1 .. Len(f[i]) : f[i][q] \in AllChars
<1> DEFINE T == Seq(FileLetters)
<1>1. f # <<>> /\ f \in Seq(T) /\ Len(f) <= NLines
  BY EditorAssumption
<1>2. \A t \in T : Len(t) \in Nat /\ \A q \in 1 .. Len(t) : t[q] \in AllChars
  BY DEF AllChars
<1> HIDE DEF T
<1>3. Len(f) \in Nat /\ Len(f) >= 1 /\ \A i \in 1 .. Len(f) : f[i] \in T
  BY <1>1
<1>4. Lengths(f)
  BY <1>2, <1>3 DEF Lengths
<1> QED BY <1>1, <1>2, <1>3, <1>4 DEF T

LEMMA FileLines ==
  ASSUME NEW f \in Files, Len(f) # 1, <<>> \notin ToSet(Front(f))
  PROVE  Len(f) >= 2 /\ \A i \in 1 .. Len(f) - 1 : f[i] # <<>> /\ Len(f[i]) >= 1
<1>1. /\ Len(f) \in Nat /\ Len(f) >= 1 /\ f \in Seq(Seq(FileLetters))
      /\ \A i \in 1 .. Len(f) : f[i] \in Seq(FileLetters)
  BY FileFacts DEF Lengths
<1>2. /\ Len(Front(f)) = Len(f) - 1 /\ DOMAIN Front(f) = 1 .. Len(f) - 1
      /\ \A i \in 1 .. Len(f) - 1 : Front(f)[i] = f[i]
  <2> DEFINE T == Seq(FileLetters)
  <2>1. f \in Seq(T)
    BY <1>1
  <2> HIDE DEF T
  <2>2. Len(f) - 1 \in Nat /\ Len(f) - 1 <= Len(f)
    BY <1>1
  <2>3. Front(f) = SubSeq(f, 1, Len(f) - 1)
    BY DEF Front
  <2>4. ASSUME NEW n \in Nat, n <= Len(f)
        PROVE  /\ Len(SubSeq(f, 1, n)) = n /\ DOMAIN SubSeq(f, 1, n) = 1 .. n
               /\ \A i \in 1 .. n : SubSeq(f, 1, n)[i] = f[i]
    BY <2>1, <2>4
  <2> QED BY <2>2, <2>3, <2>4
<1>3. ASSUME NEW i \in 1 .. Len(f) - 1 PROVE f[i] # <<>> /\ Len(f[i]) >= 1
  <2>1. f[i] # <<>>
    BY <1>2 DEF ToSet
  <2>2. i \in 1 .. Len(f)
    BY <1>1
  <2> QED BY <2>1, <2>2, <1>1
<1>4. Len(f) >= 2
  <2> DEFINE n == Len(f)
  <2>1. n \in Nat /\ n >= 1 /\ n # 1
    BY <1>1
  <2> HIDE DEF n
  <2>2. n >= 2
    BY <2>1
  <2> QED BY <2>2 DEF n
<1> QED BY <1>3, <1>4
LEMMA LineOfIs ==
  ASSUME NEW f, Lengths(f), NEW s, Starts(s, f), NEW i \in 1 .. Len(f) - 1,
         NEW k \in Nat, s[i] <= k, k < s[i + 1]
  PROVE  (CHOOSE j \in 1 .. Len(f) - 1 : k \in s[j] .. s[j + 1] - 1) = i
<1>1. /\ Len(f) \in Nat
      /\ \A j \in 1 .. Len(f) - 1 :
           /\ j \in 1 .. Len(f) /\ j + 1 \in 1 .. Len(f) /\ s[j] \in Nat /\ s[j + 1] \in Nat
           /\ s[j + 1] = s[j] + Len(f[j])
  BY DEF Starts, Lengths
<1>2. k \in s[i] .. s[i + 1] - 1
  BY <1>1
<1>3. ASSUME NEW j \in 1 .. Len(f) - 1, k \in s[j] .. s[j + 1] - 1
      PROVE  j = i
  <2>1. CASE i < j
    <3>1. s[i] + Len(f[i]) <= s[j]
      BY <2>1, <1>1, StartsGrow
    <3> QED BY <3>1, <1>1, <1>3
  <2>2. CASE j < i
    <3>1. s[j] + Len(f[j]) <= s[i]
      BY <2>2, <1>1, StartsGrow
    <3> QED BY <3>1, <1>1, <1>3
  <2> QED BY <2>1, <2>2
<1> QED BY <1>2, <1>3

\* What loading makes of a file, cell by cell.
LoadedCells(h, f, s) ==
  /\ h \in CellHeap /\ Len(h) = s[Len(f)] - 1
  /\ \A i \in 1 .. Len(f) - 1 : \A q \in 1 .. Len(f[i]) :
       LET k == s[i] + q - 1
       IN /\ k \in 1 .. Len(h)
          /\ h[k].prev = IF q = 1 THEN Null ELSE k - 1
          /\ h[k].next = IF q = Len(f[i]) THEN Null ELSE k + 1
          /\ h[k].c = f[i][q] /\ h[k].cursor = (k = 1)
  /\ \A k \in 1 .. Len(h) : h[k].prev \in 0 .. Len(h) /\ h[k].next \in 0 .. Len(h)

LoadedLines(h, f, s) ==
  /\ h \in LineHeap /\ Len(h) = Len(f)
  /\ \A i \in 1 .. Len(f) :
       /\ h[i].prev = i - 1 /\ h[i].next = IF i = Len(f) THEN Null ELSE i + 1
       /\ h[i].buffer = IF i = Len(f) THEN Null ELSE s[i]

LEMMA LinesLoaded ==
  ASSUME NEW f \in Files, NEW s, Starts(s, f)
  PROVE  LoadedLines([i \in 1 .. Len(f) |->
                        [prev |-> i - 1, next |-> IF i = Len(f) THEN Null ELSE i + 1,
                         buffer |-> IF i = Len(f) THEN Null ELSE s[i],
                         size |-> IF i = Len(f) THEN 0 ELSE Len(f[i])]], f, s)
<1> DEFINE n == Len(f)
           line(i) == [prev |-> i - 1, next |-> IF i = n THEN Null ELSE i + 1,
                       buffer |-> IF i = n THEN Null ELSE s[i],
                       size |-> IF i = n THEN 0 ELSE Len(f[i])]
           h == [i \in 1 .. n |-> line(i)]
<1>1. n \in Nat /\ \A i \in 1 .. n : s[i] \in Nat /\ Len(f[i]) \in Nat
  BY FileFacts DEF Lengths, Starts
<1>2. \A i \in 1 .. n : line(i) \in LineSet
  BY <1>1 DEF LineSet, Null
<1>3. /\ \A i : line(i).prev = i - 1 /\ line(i).next = IF i = n THEN Null ELSE i + 1
      /\ \A i : line(i).buffer = IF i = n THEN Null ELSE s[i]
  OBVIOUS
<1> HIDE DEF line
<1>4. h \in LineHeap /\ Len(h) = n /\ \A i \in 1 .. n : h[i] = line(i)
  BY <1>1, <1>2 DEF LineHeap
<1> HIDE DEF h
<1>5. LoadedLines(h, f, s)
  BY <1>3, <1>4 DEF LoadedLines
<1> QED BY <1>5 DEF h, line

LEMMA CellsLoaded ==
  ASSUME NEW f \in Files, Len(f) # 1, <<>> \notin ToSet(Front(f)), NEW s, Starts(s, f)
  PROVE  LoadedCells([k \in 1 .. s[Len(f)] - 1 |->
                        LET i == CHOOSE j \in 1 .. Len(f) - 1 : k \in s[j] .. s[j + 1] - 1
                        IN [prev |-> IF k = s[i] THEN Null ELSE k - 1,
                            next |-> IF k + 1 = s[i + 1] THEN Null ELSE k + 1,
                            c |-> f[i][k - s[i] + 1], cursor |-> k = 1]], f, s)
<1> DEFINE n == Len(f)
           size == s[n] - 1
           LineOf(k) == CHOOSE j \in 1 .. n - 1 : k \in s[j] .. s[j + 1] - 1
           cell(i, k) == [prev |-> IF k = s[i] THEN Null ELSE k - 1,
                          next |-> IF k + 1 = s[i + 1] THEN Null ELSE k + 1,
                          c |-> f[i][k - s[i] + 1], cursor |-> k = 1]
           h == [k \in 1 .. size |-> cell(LineOf(k), k)]
<1>1. /\ n \in Nat /\ n >= 2 /\ Lengths(f) /\ s[n] \in Nat /\ s[n] >= 1
      /\ \A i \in 1 .. n - 1 :
           /\ i \in 1 .. n /\ i + 1 \in 1 .. n /\ s[i] \in Nat /\ s[i] >= 1
           /\ s[i + 1] \in Nat /\ Len(f[i]) \in Nat /\ Len(f[i]) >= 1
           /\ s[i + 1] = s[i] + Len(f[i])
           /\ \A q \in 1 .. Len(f[i]) : f[i][q] \in AllChars
  <2>1. n \in Nat /\ n >= 2 /\ Lengths(f) /\ \A i \in 1 .. n - 1 : Len(f[i]) >= 1
    BY FileFacts, FileLines DEF Lengths
  <2>2. \A i \in 1 .. n : /\ s[i] \in Nat /\ s[i] >= 1 /\ Len(f[i]) \in Nat
                          /\ \A q \in 1 .. Len(f[i]) : f[i][q] \in AllChars
    BY <2>1, FileFacts DEF Lengths, Starts
  <2>3. \A i \in 1 .. n - 1 : s[i + 1] = s[i] + Len(f[i])
    BY DEF Starts
  <2> QED BY <2>1, <2>2, <2>3
<1>20. \A a, l, k \in Nat : a <= k /\ k < a + l => k - a + 1 \in 1 .. l
  OBVIOUS
<1>21. \A a, l \in Nat : \A q \in 1 .. l :
         /\ a + q - 1 \in Nat /\ a <= a + q - 1 /\ a + q - 1 < a + l
         /\ (a + q - 1) - a + 1 = q /\ (a + q - 1 = a) = (q = 1)
         /\ ((a + q - 1) + 1 = a + l) = (q = l)
  OBVIOUS
<1>2. ASSUME NEW i \in 1 .. n - 1 PROVE s[i + 1] <= s[n]
  <2>1. CASE i + 1 = n
    BY <2>1, <1>1
  <2>2. CASE i + 1 # n
    <3>1. i + 1 \in 1 .. n /\ n \in 1 .. n /\ i + 1 < n
      BY <2>2, <1>1
    <3>2. s[i + 1] + Len(f[i + 1]) <= s[n]
      BY <3>1, <1>1, StartsGrow
    <3>3. i + 1 \in 1 .. n - 1
      BY <3>1, <1>1
    <3>4. s[i + 1] \in Nat /\ Len(f[i + 1]) \in Nat
      BY <3>3, <1>1
    <3> QED BY <3>2, <3>4, <1>1
  <2> QED BY <2>1, <2>2
<1>3. ASSUME NEW i \in 1 .. n - 1, NEW k \in Nat, s[i] <= k, k < s[i + 1]
      PROVE  LineOf(k) = i
  BY <1>1, <1>3, LineOfIs
<1>4. ASSUME NEW k \in 1 .. size
      PROVE  \E i \in 1 .. n - 1 : LineOf(k) = i /\ s[i] <= k /\ k < s[i + 1] /\ k + 1 <= s[n]
  <2>1. PICK i \in 1 .. n - 1 : s[i] <= k /\ k < s[i + 1]
    BY <1>1, StartsCover
  <2>2. k \in Nat /\ k + 1 <= s[n]
    BY <1>1
  <2>3. LineOf(k) = i
    <3> HIDE DEF LineOf
    <3> QED BY <2>1, <2>2, <1>3
  <2> QED BY <2>1, <2>2, <2>3
<1> HIDE DEF LineOf
<1>5. ASSUME NEW i \in 1 .. n - 1, NEW k \in 1 .. size, s[i] <= k, k < s[i + 1]
      PROVE  /\ cell(i, k) \in CellSet
             /\ cell(i, k).prev \in 0 .. size /\ cell(i, k).next \in 0 .. size
             /\ cell(i, k).prev = IF k = s[i] THEN Null ELSE k - 1
             /\ cell(i, k).next = IF k + 1 = s[i + 1] THEN Null ELSE k + 1
             /\ cell(i, k).c = f[i][k - s[i] + 1] /\ cell(i, k).cursor = (k = 1)
  <2>1. k - s[i] + 1 \in 1 .. Len(f[i])
    <3>1. s[i] \in Nat /\ Len(f[i]) \in Nat /\ k \in Nat /\ k < s[i] + Len(f[i])
      BY <1>1, <1>5
    <3> QED BY <3>1, <1>5, <1>20
  <2>2. f[i][k - s[i] + 1] \in AllChars
    BY <2>1, <1>1
  <2>3. k \in Nat /\ k - 1 \in 0 .. size
    BY <1>1
  <2>4. k + 1 # s[i + 1] => k + 1 \in 0 .. size
    BY <1>1, <1>2, <1>5
  <2> DEFINE c == f[i][k - s[i] + 1]
             p == IF k = s[i] THEN Null ELSE k - 1
             x == IF k + 1 = s[i + 1] THEN Null ELSE k + 1
             b == k = 1
  <2>5. p \in 0 .. size /\ x \in 0 .. size /\ p \in Nat /\ x \in Nat
    BY <2>3, <2>4, <1>1 DEF Null
  <2>6. c \in AllChars /\ b \in BOOLEAN
    BY <2>2
  <2> HIDE DEF c, p, x, b
  <2>7. cell(i, k) = [prev |-> p, next |-> x, c |-> c, cursor |-> b]
    BY DEF c, p, x, b
  <2> HIDE DEF cell
  <2>8. /\ cell(i, k) \in CellSet /\ cell(i, k).prev = p /\ cell(i, k).next = x
        /\ cell(i, k).c = c /\ cell(i, k).cursor = b
    BY <2>5, <2>6, <2>7 DEF CellSet
  <2> QED BY <2>5, <2>8 DEF c, p, x, b
<1> HIDE DEF cell
<1>6. size \in Nat
  BY <1>1
<1>7. \A k \in 1 .. size : cell(LineOf(k), k) \in CellSet
  BY <1>4, <1>5
<1>8. h \in CellHeap /\ Len(h) = size /\ \A k \in 1 .. size : h[k] = cell(LineOf(k), k)
  <2> HIDE DEF size
  <2> QED BY <1>6, <1>7 DEF CellHeap
<1> HIDE DEF h
<1>9. \A k \in 1 .. Len(h) : h[k].prev \in 0 .. Len(h) /\ h[k].next \in 0 .. Len(h)
  <2> HIDE DEF size
  <2> QED BY <1>4, <1>5, <1>8
<1>10. ASSUME NEW i \in 1 .. n - 1, NEW q \in 1 .. Len(f[i])
       PROVE  LET k == s[i] + q - 1
              IN /\ k \in 1 .. Len(h)
                 /\ h[k].prev = IF q = 1 THEN Null ELSE k - 1
                 /\ h[k].next = IF q = Len(f[i]) THEN Null ELSE k + 1
                 /\ h[k].c = f[i][q] /\ h[k].cursor = (k = 1)
  <2> DEFINE k == s[i] + q - 1
  <2>0. s[i] \in Nat /\ Len(f[i]) \in Nat /\ s[i + 1] = s[i] + Len(f[i]) /\ s[i] >= 1
    BY <1>1
  <2>8. /\ k \in Nat /\ s[i] <= k /\ k < s[i] + Len(f[i])
        /\ k - s[i] + 1 = q /\ (k = s[i]) = (q = 1)
        /\ (k + 1 = s[i] + Len(f[i])) = (q = Len(f[i]))
    BY <2>0, <1>21
  <2> HIDE DEF k
  <2>1. k \in Nat /\ s[i] <= k /\ k < s[i + 1] /\ k \in 1 .. size
    <3>1. s[i + 1] <= s[n] /\ s[n] \in Nat /\ s[i + 1] \in Nat
      BY <1>1, <1>2
    <3> QED BY <3>1, <2>0, <2>8
  <2>2. /\ k - s[i] + 1 = q /\ (k = s[i]) = (q = 1) /\ (k + 1 = s[i + 1]) = (q = Len(f[i]))
    BY <2>0, <2>8
  <2>3. h[k] = cell(i, k)
    <3>1. LineOf(k) = i
      BY <2>1, <1>3
    <3> HIDE DEF size
    <3> QED BY <3>1, <2>1, <1>8
  <2>4. /\ cell(i, k).prev = IF k = s[i] THEN Null ELSE k - 1
        /\ cell(i, k).next = IF k + 1 = s[i + 1] THEN Null ELSE k + 1
        /\ cell(i, k).c = f[i][k - s[i] + 1] /\ cell(i, k).cursor = (k = 1)
    <3> HIDE DEF size
    <3>1. i \in 1 .. n - 1 /\ k \in 1 .. size /\ s[i] <= k /\ k < s[i + 1]
      BY <2>1
    <3> QED BY <3>1, <1>5, SMTT(20)
  <2>5. k \in 1 .. Len(h)
    BY <2>1, <1>8
  <2>6. /\ h[k].prev = IF q = 1 THEN Null ELSE k - 1
        /\ h[k].next = IF q = Len(f[i]) THEN Null ELSE k + 1
    BY <2>2, <2>3, <2>4
  <2>7. h[k].c = f[i][q] /\ h[k].cursor = (k = 1)
    BY <2>2, <2>3, <2>4
  <2> QED BY <2>5, <2>6, <2>7 DEF k
<1>11. LoadedCells(h, f, s)
  BY <1>8, <1>9, <1>10 DEF LoadedCells
<1> QED BY <1>11 DEF h, cell, LineOf

\* The cells of the lines of a file: none for the last one.
FileCells(f, s) ==
  [l \in 1 .. Len(f) |-> IF l = Len(f) THEN <<>> ELSE [q \in 1 .. Len(f[l]) |-> s[l] + q - 1]]

LEMMA FileCellsAre ==
  ASSUME NEW f \in Files, Len(f) # 1, <<>> \notin ToSet(Front(f)), NEW s, Starts(s, f),
         NEW h, LoadedCells(h, f, s)
  PROVE  LET cs == FileCells(f, s)
         IN /\ cs \in Seq(Seq(1 .. Len(h))) /\ Len(cs) = Len(f) /\ cs[Len(f)] = <<>>
            /\ \A l \in 1 .. Len(f) - 1 :
                 /\ cs[l] # <<>> /\ Len(cs[l]) = Len(f[l]) /\ Len(f[l]) \in Nat /\ Len(f[l]) >= 1
                 /\ cs[l] \in Seq(1 .. Len(h)) /\ cs[l][1] = s[l]
                 /\ \A q \in 1 .. Len(f[l]) : cs[l][q] = s[l] + q - 1
<1> DEFINE n == Len(f)
           cs == FileCells(f, s)
           T == Seq(1 .. Len(h))
<1>1. /\ n \in Nat /\ n >= 2
      /\ \A l \in 1 .. n - 1 : Len(f[l]) \in Nat /\ Len(f[l]) >= 1 /\ s[l] \in Nat
  BY FileFacts, FileLines DEF Lengths, Starts
<1>2. \A l \in 1 .. n - 1 : \A q \in 1 .. Len(f[l]) : s[l] + q - 1 \in 1 .. Len(h)
  BY DEF LoadedCells
<1>3. ASSUME NEW l \in 1 .. n - 1
      PROVE  LET c == [q \in 1 .. Len(f[l]) |-> s[l] + q - 1]
             IN /\ c \in T /\ Len(c) = Len(f[l]) /\ c # <<>> /\ c[1] = s[l]
                /\ \A q \in 1 .. Len(f[l]) : c[q] = s[l] + q - 1
  <2> DEFINE m == Len(f[l])
             x == s[l]
             N == 1 .. Len(h)
             c == [q \in 1 .. m |-> x + q - 1]
  <2>1. m \in Nat /\ m >= 1 /\ x \in Nat /\ \A q \in 1 .. m : x + q - 1 \in N
    BY <1>1, <1>2
  <2> HIDE DEF m, x, N
  <2>2. /\ c \in Seq(N) /\ Len(c) = m /\ c # <<>> /\ c[1] = x
        /\ \A q \in 1 .. m : c[q] = x + q - 1
    BY <2>1
  <2> QED BY <2>2 DEF m, x, N
<1>4. <<>> \in T
  OBVIOUS
<1> HIDE DEF T
<1>5. ASSUME NEW l \in 1 .. n
      PROVE  /\ cs[l] = IF l = n THEN <<>> ELSE [q \in 1 .. Len(f[l]) |-> s[l] + q - 1]
             /\ cs[l] \in T
  <2>1. cs[l] = IF l = n THEN <<>> ELSE [q \in 1 .. Len(f[l]) |-> s[l] + q - 1]
    BY DEF FileCells
  <2>2. l # n => l \in 1 .. n - 1
    BY <1>1
  <2> QED BY <2>1, <2>2, <1>3, <1>4
<1>6. DOMAIN cs = 1 .. n /\ cs = [l \in 1 .. n |-> cs[l]]
  BY DEF FileCells
<1> HIDE DEF cs
<1>7. cs \in Seq(T) /\ Len(cs) = n
  BY <1>1, <1>5, <1>6
<1>8. cs[n] = <<>>
  <2>1. n \in 1 .. n
    BY <1>1
  <2> QED BY <2>1, <1>5
<1>9. ASSUME NEW l \in 1 .. n - 1
      PROVE  /\ cs[l] # <<>> /\ Len(cs[l]) = Len(f[l]) /\ cs[l] \in T /\ cs[l][1] = s[l]
             /\ \A q \in 1 .. Len(f[l]) : cs[l][q] = s[l] + q - 1
  <2>1. l \in 1 .. n /\ l # n
    BY <1>1
  <2>2. cs[l] = [q \in 1 .. Len(f[l]) |-> s[l] + q - 1]
    BY <2>1, <1>5
  <2> QED BY <2>2, <1>3
<1> QED BY <1>1, <1>7, <1>8, <1>9 DEF cs, T

LEMMA FileCellLists ==
  ASSUME NEW f \in Files, Len(f) # 1, <<>> \notin ToSet(Front(f)), NEW s, Starts(s, f),
         NEW h, LoadedCells(h, f, s)
  PROVE  Linking(h) /\ CellLists(h, FileCells(f, s))
<1> DEFINE n == Len(f)
           cs == FileCells(f, s)
<1>1. /\ cs \in Seq(Seq(1 .. Len(h))) /\ Len(cs) = n /\ cs[n] = <<>>
      /\ \A l \in 1 .. n - 1 :
           /\ cs[l] # <<>> /\ Len(cs[l]) = Len(f[l]) /\ Len(f[l]) \in Nat /\ Len(f[l]) >= 1
           /\ cs[l] \in Seq(1 .. Len(h)) /\ cs[l][1] = s[l]
           /\ \A q \in 1 .. Len(f[l]) : cs[l][q] = s[l] + q - 1
  BY FileCellsAre
<1> HIDE DEF cs
<1>2. n \in Nat /\ n >= 2 /\ Lengths(f) /\ \A l \in 1 .. n : s[l] \in Nat
  BY FileFacts, FileLines DEF Lengths, Starts
<1>3. Linking(h)
  BY DEF LoadedCells, Linking
<1>4. ASSUME NEW l \in 1 .. n - 1 PROVE IsList(h, cs[l], 0)
  <2> DEFINE c == cs[l]
             m == Len(f[l])
  <2>1. /\ c \in Seq(1 .. Len(h)) /\ Len(c) = m /\ m \in Nat /\ m >= 1 /\ s[l] \in Nat
        /\ \A q \in 1 .. m : c[q] = s[l] + q - 1
    <3>1. l \in 1 .. n
      BY <1>2
    <3>2. s[l] \in Nat
      BY <1>2, <3>1
    <3>3. /\ c \in Seq(1 .. Len(h)) /\ Len(c) = m /\ m \in Nat /\ m >= 1
          /\ \A q \in 1 .. m : c[q] = s[l] + q - 1
      BY <1>1
    <3> QED BY <3>2, <3>3
  <2>2. ASSUME NEW q \in 1 .. m
        PROVE  /\ h[s[l] + q - 1].prev = IF q = 1 THEN Null ELSE (s[l] + q - 1) - 1
               /\ h[s[l] + q - 1].next = IF q = m THEN Null ELSE (s[l] + q - 1) + 1
    <3> DEFINE k == s[l] + q - 1
    <3>1. h[k].prev = (IF q = 1 THEN Null ELSE k - 1) /\ h[k].next = IF q = m THEN Null ELSE k + 1
      BY DEF LoadedCells
    <3> HIDE DEF k
    <3>2. h[k].prev = (IF q = 1 THEN Null ELSE k - 1)
      BY <3>1
    <3>3. h[k].next = (IF q = m THEN Null ELSE k + 1)
      BY <3>1
    <3> QED BY <3>2, <3>3 DEF k
  <2> HIDE DEF c, m
  <2>3. Injective(c)
    <3>1. ASSUME NEW i \in 1 .. m, NEW j \in 1 .. m, c[i] = c[j] PROVE i = j
      <4>1. PICK x \in Nat : x = s[l]
        BY <2>1
      <4>2. c[i] = s[l] + i - 1 /\ c[j] = s[l] + j - 1
        BY <2>1
      <4>3. x + i - 1 = x + j - 1
        BY <3>1, <4>1, <4>2
      <4> QED BY <4>1, <4>3
    <3>2. Len(c) = m
      BY <2>1
    <3> QED BY <3>1, <3>2 DEF Injective
  <2>4. Following(h, c)
    <3>1. ASSUME NEW i \in 1 .. m PROVE h[c[i]].next = IF i = m THEN Null ELSE c[i + 1]
      <4>0. \A x \in Nat : (x + i - 1) + 1 = x + (i + 1) - 1
        OBVIOUS
      <4>1. i # m => i + 1 \in 1 .. m /\ (s[l] + i - 1) + 1 = s[l] + (i + 1) - 1
        BY <4>0, <2>1
      <4>2. h[c[i]].next = IF i = m THEN Null ELSE (s[l] + i - 1) + 1
        BY <2>1, <2>2
      <4>3. i # m => c[i + 1] = s[l] + (i + 1) - 1
        BY <4>1, <2>1
      <4> QED BY <4>1, <4>2, <4>3
    <3>2. Len(c) = m
      BY <2>1
    <3> QED BY <3>1, <3>2 DEF Following
  <2>5. Preceding(h, c, 0)
    <3>1. ASSUME NEW i \in 1 .. m PROVE h[c[i]].prev = IF i = 1 THEN Null ELSE c[i - 1]
      <4>0. \A x \in Nat : (x + i - 1) - 1 = x + (i - 1) - 1
        OBVIOUS
      <4>4. (s[l] + i - 1) - 1 = s[l] + (i - 1) - 1
        BY <4>0, <2>1
      <4>5. i # 1 => i - 1 \in 1 .. m
        BY <2>1
      <4>1. i # 1 => i - 1 \in 1 .. m /\ (s[l] + i - 1) - 1 = s[l] + (i - 1) - 1
        BY <4>4, <4>5
      <4>2. h[c[i]].prev = IF i = 1 THEN Null ELSE (s[l] + i - 1) - 1
        BY <2>1, <2>2
      <4>3. i # 1 => c[i - 1] = s[l] + (i - 1) - 1
        BY <4>1, <2>1
      <4> QED BY <4>1, <4>2, <4>3
    <3>2. Len(c) = m /\ 0 + 1 = 1
      BY <2>1
    <3>3. \A i \in 1 .. m : h[c[i]].prev = IF i = 1 THEN Null ELSE c[i - 1]
      BY <3>1
    <3> QED BY <3>2, <3>3 DEF Preceding
  <2>6. 0 \in 0 .. Len(c) - 1
    BY <2>1
  <2>7. IsList(h, c, 0)
    BY <2>1, <2>3, <2>4, <2>5, <2>6 DEF IsList
  <2> QED BY <2>7 DEF c
<1>5. ASSUME NEW l \in 1 .. n, NEW m \in 1 .. n, l < m,
             NEW p \in 1 .. Len(cs[l]), NEW q \in 1 .. Len(cs[m])
      PROVE  cs[l][p] # cs[m][q]
  <2>0. l \in 1 .. n - 1
    BY <1>2, <1>5
  <2>1. m # n
    <3> SUFFICES ASSUME m = n PROVE FALSE
      OBVIOUS
    <3>1. Len(cs[m]) = 0
      BY <1>1
    <3> QED BY <3>1
  <2>2. m \in 1 .. n - 1
    BY <2>1, <1>2
  <2>3. s[l] + Len(f[l]) <= s[m]
    BY <1>2, <1>5, StartsGrow
  <2>4. /\ cs[l][p] = s[l] + p - 1 /\ cs[m][q] = s[m] + q - 1 /\ p \in 1 .. Len(f[l])
        /\ q \in 1 .. Len(f[m]) /\ Len(f[l]) \in Nat /\ Len(f[m]) \in Nat
    BY <2>0, <2>2, <1>1
  <2>5. s[l] \in Nat /\ s[m] \in Nat
    BY <1>2, <2>0, <2>2
  <2>6. PICK x \in Nat, y \in Nat, z \in Nat : x = s[l] /\ y = s[m] /\ z = Len(f[l])
    BY <2>4, <2>5
  <2>7. x + p - 1 < y + q - 1
    BY <2>3, <2>4, <2>6
  <2>8. cs[l][p] = x + p - 1 /\ cs[m][q] = y + q - 1
    <3>1. x = s[l] /\ y = s[m]
      BY <2>6
    <3>2. s[l] + p - 1 = x + p - 1 /\ s[m] + q - 1 = y + q - 1
      BY <3>1
    <3> QED BY <2>4, <3>2
  <2>9. p \in Nat /\ q \in Nat
    BY <2>4
  <2>10. x + p - 1 # y + q - 1
    BY <2>6, <2>7, <2>9
  <2> QED BY <2>8, <2>10
<1>6. ASSUME NEW l \in 1 .. Len(cs), NEW m \in 1 .. Len(cs),
             NEW p \in 1 .. Len(cs[l]), NEW q \in 1 .. Len(cs[m]), cs[l][p] = cs[m][q]
      PROVE  l = m
  <2>0. l \in 1 .. n /\ m \in 1 .. n /\ cs[m][q] = cs[l][p]
    BY <1>1, <1>6
  <2>1. ~(l < m) /\ ~(m < l)
    BY <2>0, <1>5, <1>6
  <2> QED BY <2>1, <1>1, <1>2
<1>7. ASSUME NEW l \in 1 .. Len(cs) PROVE cs[l] = <<>> \/ IsList(h, cs[l], 0)
  <2>1. l = n \/ l \in 1 .. n - 1
    BY <1>1, <1>2
  <2> QED BY <2>1, <1>1, <1>4
<1>8. CellLists(h, cs)
  BY <1>1, <1>6, <1>7 DEF CellLists
<1> QED BY <1>3, <1>8 DEF cs

LEMMA FileLineList ==
  ASSUME NEW f \in Files, Len(f) # 1, NEW s, Starts(s, f), NEW h, LoadedLines(h, f, s)
  PROVE  /\ Linking(h) /\ IsList(h, [i \in 1 .. Len(f) |-> i], 0)
<1> DEFINE n == Len(f)
           fs == [i \in 1 .. n |-> i]
<1>1. n \in Nat /\ n >= 1
  BY FileFacts DEF Lengths
<1>2. /\ Len(h) = n
      /\ \A i \in 1 .. n : h[i].prev = i - 1 /\ h[i].next = IF i = n THEN Null ELSE i + 1
  BY DEF LoadedLines
<1>3. Linking(h)
  BY <1>1, <1>2 DEF Linking, Null
<1>4. fs \in Seq(1 .. n) /\ Len(fs) = n /\ \A i \in 1 .. n : fs[i] = i
  BY <1>1
<1> HIDE DEF fs, n
<1>5. Injective(fs)
  BY <1>4 DEF Injective
<1>6. Following(h, fs)
  <2>1. ASSUME NEW i \in 1 .. n PROVE h[fs[i]].next = IF i = n THEN Null ELSE fs[i + 1]
    <3>1. i # n => i + 1 \in 1 .. n
      BY <1>1
    <3> QED BY <3>1, <1>2, <1>4
  <2> QED BY <2>1, <1>4 DEF Following
<1>7. Preceding(h, fs, 0)
  <2>1. ASSUME NEW i \in 1 .. n PROVE h[fs[i]].prev = IF i = 1 THEN Null ELSE fs[i - 1]
    <3>1. i # 1 => i - 1 \in 1 .. n
      BY <1>1
    <3> QED BY <3>1, <1>2, <1>4 DEF Null
  <2> QED BY <2>1, <1>4 DEF Preceding
<1>8. 0 \in 0 .. Len(fs) - 1
  BY <1>1, <1>4
<1>9. IsList(h, fs, 0)
  BY <1>2, <1>4, <1>5, <1>6, <1>7, <1>8 DEF IsList
<1> QED BY <1>3, <1>9 DEF fs, n

\* The text of a file.
FileText(f) == [lines |-> [f EXCEPT ![Len(f)] = <<>>], row |-> 1, col |-> 1]

LEMMA FileTextIs ==
  ASSUME NEW f \in Files, Len(f) # 1, <<>> \notin ToSet(Front(f))
  PROVE  LET a == FileText(f)
         IN /\ a \in Texts!Loaded(f) /\ a \in TextSet /\ Filled(a) /\ a.row = 1 /\ a.col = 1
            /\ Len(a.lines) = Len(f) /\ a.lines[Len(f)] = <<>>
            /\ \A i \in 1 .. Len(f) - 1 : a.lines[i] = f[i]
<1> DEFINE n == Len(f)
           ls == [f EXCEPT ![n] = <<>>]
           T == Seq(FileLetters)
           U == Seq(AllChars)
           a == [lines |-> ls, row |-> 1, col |-> 1]
<1>1. /\ n \in Nat /\ n >= 2 /\ f \in Seq(T) /\ \A i \in 1 .. n : f[i] \in T
      /\ \A i \in 1 .. n - 1 : f[i] # <<>>
  BY FileFacts, FileLines DEF Lengths
<1>2. T \subseteq U /\ <<>> \in U
  <2>1. FileLetters \subseteq AllChars
    BY DEF AllChars
  <2>2. \A t \in T : t \in U
    BY <2>1
  <2> QED BY <2>2
<1>3. Texts!Loaded(f) = {a}
  BY TextOperators DEF Texts!Loaded
<1>4. FileText(f) = a
  BY DEF FileText
<1> HIDE DEF T, U
<1>5. /\ ls \in Seq(U) /\ Len(ls) = n /\ ls[n] = <<>> /\ \A i \in 1 .. n - 1 : ls[i] = f[i]
  <2>1. f \in Seq(U)
    BY <1>1, <1>2
  <2>2. n \in 1 .. n /\ \A i \in 1 .. n - 1 : i \in 1 .. n /\ i # n
    BY <1>1
  <2> QED BY <2>1, <2>2, <1>2
<1> HIDE DEF ls
<1>6. a \in TextSet /\ a.lines = ls /\ a.row = 1 /\ a.col = 1
  BY <1>5 DEF TextSet, U
<1> HIDE DEF a
<1>7. Filled(a)
  <2>1. \A i \in 1 .. n - 1 : a.lines[i] # <<>>
    BY <1>1, <1>5, <1>6
  <2>2. Len(a.lines) = n
    BY <1>5, <1>6
  <2> QED BY <2>1, <2>2 DEF Filled
<1> QED BY <1>3, <1>4, <1>5, <1>6, <1>7

\* A file opens with the cursor on its first character, unless a line has none: what the
\* editor does then is wild.
LEMMA LoadShows ==
  ASSUME NEW f \in Files, Len(f) # 1, <<>> \notin ToSet(Front(f))
  PROVE  LET d == Load(f)
         IN \E a \in Texts!Loaded(f) : Shows(d, a) /\ On(d) /\ ~d.wild /\ Rows(d, a.row)
<1> DEFINE n == Len(f)
           d == Load(f)
           a == FileText(f)
           fs == [i \in 1 .. n |-> i]
<1>0. Lengths(f) /\ n \in Nat /\ n >= 2 /\ n <= NLines
  BY FileFacts, FileLines DEF Lengths
<1>1. PICK s : s = LineStarts(f)
  OBVIOUS
<1>2. Starts(s, f)
  BY <1>0, <1>1, StartsAre
<1> DEFINE ls == [i \in 1 .. n |->
                    [prev |-> i - 1, next |-> IF i = n THEN Null ELSE i + 1,
                     buffer |-> IF i = n THEN Null ELSE s[i],
                     size |-> IF i = n THEN 0 ELSE Len(f[i])]]
           cl == [k \in 1 .. s[n] - 1 |->
                    LET i == CHOOSE j \in 1 .. n - 1 : k \in s[j] .. s[j + 1] - 1
                    IN [prev |-> IF k = s[i] THEN Null ELSE k - 1,
                        next |-> IF k + 1 = s[i + 1] THEN Null ELSE k + 1,
                        c |-> f[i][k - s[i] + 1], cursor |-> k = 1]]
           cs == FileCells(f, s)
<1>3. LoadedLines(ls, f, s) /\ LoadedCells(cl, f, s)
  BY <1>2, LinesLoaded, CellsLoaded
<1>4. d = [NewFile EXCEPT !.lines = ls, !.cells = cl]
  BY <1>1 DEF Load
<1> HIDE DEF ls, cl, d
<1>5. ls \in LineHeap /\ Len(ls) = n /\ cl \in CellHeap
  BY <1>3 DEF LoadedLines, LoadedCells
<1>6. /\ d \in DocSet /\ d.lines = ls /\ d.cells = cl /\ d.file_buffer = 1 /\ d.screen_start = 1
      /\ d.current_line = 1 /\ d.current_text = 1 /\ d.cursorY = 0 /\ d.wild = FALSE
  <2>1. d = [lines |-> ls, cells |-> cl, file_buffer |-> 1, screen_start |-> 1,
             current_line |-> 1, current_text |-> 1, cursorX |-> 0, cursorY |-> 0,
             wild |-> FALSE]
    BY <1>4 DEF NewFile, Blank
  <2> QED BY <2>1, <1>5 DEF DocSet
<1>7. Linking(ls) /\ IsList(ls, fs, 0) /\ Linking(cl) /\ CellLists(cl, cs)
  BY <1>2, <1>3, FileLineList, FileCellLists
<1>8. /\ cs \in Seq(Seq(1 .. Len(cl))) /\ Len(cs) = n /\ cs[n] = <<>>
      /\ \A l \in 1 .. n - 1 :
           /\ cs[l] # <<>> /\ Len(cs[l]) = Len(f[l]) /\ Len(f[l]) \in Nat /\ Len(f[l]) >= 1
           /\ cs[l][1] = s[l] /\ \A q \in 1 .. Len(f[l]) : cs[l][q] = s[l] + q - 1
  BY <1>2, <1>3, FileCellsAre
<1>9. fs \in Seq(1 .. n) /\ Len(fs) = n /\ \A i \in 1 .. n : fs[i] = i
  BY <1>0
<1>10. /\ a \in Texts!Loaded(f) /\ a \in TextSet /\ Filled(a) /\ a.row = 1 /\ a.col = 1
       /\ Len(a.lines) = n /\ a.lines[n] = <<>> /\ \A i \in 1 .. n - 1 : a.lines[i] = f[i]
  BY FileTextIs
<1> HIDE DEF cs, fs, a
<1>11. Buffers(ls, cs)
  <2>1. ASSUME NEW l \in 1 .. n
        PROVE  ls[l].buffer = IF cs[l] = <<>> THEN Null ELSE cs[l][1]
    <3>1. ls[l].buffer = IF l = n THEN Null ELSE s[l]
      BY <1>3 DEF LoadedLines
    <3>2. l = n \/ l \in 1 .. n - 1
      BY <1>0
    <3> QED BY <3>1, <3>2, <1>8
  <2> QED BY <2>1, <1>5, <1>8 DEF Buffers
<1>12. ASSUME NEW i \in 1 .. n
       PROVE  /\ Len(a.lines[i]) = Len(cs[i])
              /\ \A q \in 1 .. Len(a.lines[i]) : a.lines[i][q] = cl[cs[i][q]].c
  <2>1. CASE i = n
    <3>1. Len(a.lines[i]) = 0 /\ Len(cs[i]) = 0
      BY <2>1, <1>8, <1>10
    <3> QED BY <3>1
  <2>2. CASE i # n
    <3>1. i \in 1 .. n - 1
      BY <2>2, <1>0
    <3>2. ASSUME NEW q \in 1 .. Len(f[i]) PROVE f[i][q] = cl[cs[i][q]].c
      <4>1. cl[s[i] + q - 1].c = f[i][q]
        BY <3>1, <1>3 DEF LoadedCells
      <4> QED BY <4>1, <3>1, <1>8
    <3>3. a.lines[i] = f[i] /\ Len(cs[i]) = Len(f[i])
      BY <3>1, <1>8, <1>10
    <3> QED BY <3>2, <3>3
  <2> QED BY <2>1, <2>2
<1>13. Reads(cl, a.lines, fs, 0, cs)
  <2>1. \A i \in 1 .. n : 0 + i = i
    OBVIOUS
  <2>2. Len(a.lines) = Len(fs) - 0
    BY <1>0, <1>9, <1>10
  <2>3. \A i \in 1 .. n : fs[0 + i] = i
    BY <2>1, <1>9
  <2>4. \A i \in 1 .. n :
          /\ Len(a.lines[i]) = Len(cs[fs[0 + i]])
          /\ \A q \in 1 .. Len(a.lines[i]) : a.lines[i][q] = cl[cs[fs[0 + i]][q]].c
    BY <2>3, <1>12
  <2> HIDE DEF n
  <2> QED BY <2>2, <2>4, <1>10 DEF Reads
<1>14. 1 \in 1 .. n /\ 1 \in 1 .. n - 1 /\ 0 + 1 = 1
  BY <1>0
<1>15. s[1] = 1 /\ cs[1][1] = 1 /\ 1 \in 1 .. Len(f[1])
  <2>1. s[1] = 1
    BY <1>2 DEF Starts
  <2>2. cs[1][1] = s[1] /\ Len(f[1]) \in Nat /\ Len(f[1]) >= 1
    BY <1>8, <1>14
  <2> QED BY <2>1, <2>2
<1>16. InPlace(d, a, fs, 0, cs)
  BY <1>6, <1>9, <1>10, <1>14, <1>15 DEF InPlace
<1>17. OneFlag(d, fs, 0, cs)
  <2>1. ASSUME NEW i \in 1 .. n, NEW q \in 1 .. Len(cs[i]), cl[cs[i][q]].cursor
        PROVE  cs[i][q] = 1
    <3>1. i # n
      <4> SUFFICES ASSUME i = n PROVE FALSE
        OBVIOUS
      <4>1. Len(cs[i]) = 0
        BY <1>8
      <4> QED BY <4>1
    <3>2. i \in 1 .. n - 1
      BY <3>1, <1>0
    <3>3. q \in 1 .. Len(f[i]) /\ cs[i][q] = s[i] + q - 1
      BY <3>2, <1>8
    <3>4. cl[s[i] + q - 1].cursor = (s[i] + q - 1 = 1)
      BY <3>2, <3>3, <1>3 DEF LoadedCells
    <3>5. PICK x : x = s[i] + q - 1
      OBVIOUS
    <3>6. cl[x].cursor = (x = 1) /\ cl[x].cursor /\ cs[i][q] = x
      BY <3>3, <3>4, <3>5, <2>1
    <3> QED BY <3>6
  <2>2. Len(fs) - 0 = n /\ \A i \in 1 .. n : 0 + i = i
    BY <1>0, <1>9
  <2> SUFFICES ASSUME NEW i \in 1 .. n, NEW q \in 1 .. Len(cs[fs[0 + i]]),
                      d.cells[cs[fs[0 + i]][q]].cursor
               PROVE  cs[fs[0 + i]][q] = d.current_text
    BY <2>2 DEF OneFlag
  <2>3. fs[0 + i] = i
    <3>1. 0 + i = i /\ fs[i] = i
      BY <2>2, <1>9
    <3>2. fs[0 + i] = fs[i]
      BY <3>1
    <3> QED BY <3>1, <3>2
  <2>4. q \in 1 .. Len(cs[i]) /\ cl[cs[i][q]].cursor
    BY <2>3, <1>6
  <2>5. cs[i][q] = 1
    BY <2>1, <2>4
  <2> QED BY <2>3, <2>5, <1>6
<1>18. fs[1] = 1 /\ 1 \in 0 .. n
  BY <1>9, <1>14
<1>19. Sound(d, a, fs, 0, cs)
  BY <1>5, <1>6, <1>7, <1>10, <1>11, <1>13, <1>16, <1>17, <1>18 DEF Sound
<1>20. On(d)
  <2>1. cl[s[1] + 1 - 1].cursor = (s[1] + 1 - 1 = 1)
    BY <1>3, <1>14, <1>15 DEF LoadedCells
  <2>2. s[1] + 1 - 1 = 1
    BY <1>15
  <2> QED BY <2>1, <2>2, <1>6 DEF On
<1>21. Rows(d, 1)
  <2>1. 0 <= Height /\ 0 - 1 >= -NLines
    BY EditorSizes
  <2> QED BY <2>1, <1>0, <1>5, <1>6 DEF Rows
<1> QED BY <1>6, <1>10, <1>19, <1>20, <1>21 DEF Shows, d

-----------------------------------------------------------------------------
(* What the properties say of a sound document.                            *)

LEMMA LineCellsAre ==
  ASSUME NEW d, NEW a, NEW fs, NEW k, NEW cs, Sound(d, a, fs, k, cs),
         NEW l \in 1 .. Len(d.lines)
  PROVE  LineCells(d, l) = cs[l] /\ (cs[l] # <<>> => IsList(d.cells, cs[l], 0))
<1>1. /\ d.cells \in Seq(CellSet) /\ Linking(d.cells) /\ Len(cs) = Len(d.lines)
      /\ d.lines[l].buffer = IF cs[l] = <<>> THEN Null ELSE cs[l][1]
      /\ cs[l] = <<>> \/ IsList(d.cells, cs[l], 0)
      /\ cs[l] \in Seq(1 .. Len(d.cells))
  <2>1. d.cells \in Seq(CellSet) /\ Len(cs) = Len(d.lines)
    BY SoundNumbers
  <2> QED BY <2>1, SoundNumbers DEF Sound, Buffers, CellLists
<1>2. CASE cs[l] = <<>>
  BY <1>1, <1>2 DEF LineCells, Along
<1>3. CASE cs[l] # <<>>
  <2> DEFINE s == cs[l]
             h == d.cells
  <2>1. /\ h \in Seq(CellSet) /\ Linking(h) /\ IsList(h, s, 0) /\ s \in Seq(1 .. Len(h))
        /\ Len(s) \in Nat /\ 1 \in 1 .. Len(s)
    BY <1>1, <1>3 DEF IsList
  <2>2. LineCells(d, l) = Along(h, s[1], "next")
    BY <1>1, <1>3 DEF LineCells
  <2> HIDE DEF s, h
  <2>3. Along(h, s[1], "next") = SubSeq(s, 1, Len(s))
    BY <2>1, AlongNext
  <2>4. SubSeq(s, 1, Len(s)) = s
    BY <2>1
  <2> QED BY <2>1, <2>2, <2>3, <2>4 DEF s, h
<1> QED BY <1>2, <1>3

\* Backwards from s[i], to the first node that is linked back to.
BackFrom(p, s, k, i) == Len(p) = i - k /\ Last(p) = s[k + 1]

LEMMA AlongPrevEnds ==
  ASSUME NEW R, NEW h \in Seq(R), Linking(h), NEW s, NEW k, IsList(h, s, k),
         NEW i \in k + 1 .. Len(s)
  PROVE  BackFrom(Along(h, s[i], "prev"), s, k, i)
<1> DEFINE p == Along(h, s[i], "prev")
<1>1. p = [j \in 1 .. i - k |-> s[i + 1 - j]]
  BY AlongPrev
<1>2. Len(s) \in Nat /\ k \in 0 .. Len(s) - 1
  BY DEF IsList
<1>3. i - k \in Nat /\ i - k \in 1 .. i - k /\ i + 1 - (i - k) = k + 1
  BY <1>2
<1> HIDE DEF p
<1>4. Len(p) = i - k
  BY <1>1, <1>3
<1> QED BY <1>1, <1>3, <1>4 DEF Last, p, BackFrom
\* The list of the lines of the text, met in the three ways the properties meet it.
LEMMA LinesAre ==
  ASSUME NEW d, NEW a, NEW fs, NEW k, NEW cs, Sound(d, a, fs, k, cs)
  PROVE  LET n == Len(a.lines)
             s == ListOf(d.lines, d.current_line)
         IN /\ s = SubSeq(fs, k + 1, Len(fs)) /\ Len(s) = n /\ n \in Nat /\ n >= 1
            /\ DOMAIN s = 1 .. n /\ \A i \in 1 .. n : s[i] = fs[k + i]
            /\ Linked(d.lines, d.current_line)
            /\ Along(d.lines, d.file_buffer, "next") = fs
            /\ Along(d.lines, fs[k + 1], "next") = s
            /\ Len(Along(d.lines, d.current_line, "prev")) = a.row
            /\ Last(Along(d.lines, d.current_line, "prev")) = fs[k + 1]
<1> DEFINE h == d.lines
           m == Len(fs)
           n == Len(a.lines)
           t == SubSeq(fs, k + 1, m)
<1>1. PICK r : r = a.row
  OBVIOUS
<1>2. /\ h \in Seq(LineSet) /\ Linking(h) /\ IsList(h, fs, k) /\ d.file_buffer = fs[1]
      /\ fs \in Seq(1 .. Len(h)) /\ m \in Nat /\ k \in 0 .. m - 1 /\ n = m - k
      /\ r \in 1 .. n /\ d.current_line = fs[k + r]
  <2>1. h \in Seq(LineSet) /\ m \in Nat /\ k \in 0 .. m - 1 /\ n = m - k /\ r \in 1 .. n
    BY <1>1, SoundNumbers
  <2>2. Linking(h) /\ IsList(h, fs, k) /\ d.file_buffer = fs[1] /\ d.current_line = fs[k + r]
    BY <1>1 DEF Sound, InPlace
  <2>3. fs \in Seq(1 .. Len(h))
    BY <2>2 DEF IsList
  <2> QED BY <2>1, <2>2, <2>3
<1> HIDE DEF h
<1>3. k + r \in k + 1 .. m /\ k + r \in 1 .. m /\ 1 \in 1 .. m /\ k + 1 \in 1 .. m /\ k \in Nat
  <2> HIDE DEF m, n
  <2> QED BY <1>2
<1>4. t = SubSeq(fs, k + 1, m) /\ Len(t) = n /\ n \in Nat /\ n >= 1 /\ DOMAIN t = 1 .. n
      /\ \A i \in 1 .. n : t[i] = fs[k + i]
  <2> DEFINE N == 1 .. Len(h)
  <2>1. fs \in Seq(N)
    BY <1>2
  <2> HIDE DEF N
  <2> QED BY <2>1, <1>2, <1>3
<1> HIDE DEF t
<1>5. PICK i : i = k + r /\ i \in k + 1 .. m
  BY <1>3
<1>13. m = Len(fs)
  OBVIOUS
<1> HIDE DEF n, m
<1>6. ListOf(h, fs[i]) = t /\ Linked(h, fs[i])
  <2>1. i \in k + 1 .. Len(fs) /\ t = SubSeq(fs, k + 1, Len(fs))
    BY <1>4, <1>5, <1>13
  <2> QED BY <2>1, <1>2, ListOfIs, LinkedIs
<1>7. Along(h, fs[1], "next") = fs
  <2>1. Along(h, fs[1], "next") = SubSeq(fs, 1, m)
    <3>1. 1 \in 1 .. Len(fs)
      BY <1>3, <1>13
    <3> QED BY <3>1, <1>2, <1>13, AlongNext
  <2>2. SubSeq(fs, 1, m) = fs
    BY <1>2, <1>13
  <2> QED BY <2>1, <2>2
<1>8. PICK z : z = k + 1 /\ z \in 1 .. Len(fs)
  BY <1>3, <1>13
<1>9. Along(h, fs[z], "next") = t
  BY <1>2, <1>4, <1>8, <1>13, AlongNext
<1>10. Len(Along(h, fs[i], "prev")) = i - k /\ Last(Along(h, fs[i], "prev")) = fs[k + 1]
  <2>1. i \in k + 1 .. Len(fs)
    BY <1>5, <1>13
  <2>2. BackFrom(Along(h, fs[i], "prev"), fs, k, i)
    BY <2>1, <1>2, AlongPrevEnds
  <2> QED BY <2>2 DEF BackFrom
<1>12. i - k = r
  BY <1>2, <1>5
<1> QED BY <1>1, <1>2, <1>4, <1>5, <1>6, <1>7, <1>8, <1>9, <1>10, <1>12, <1>13 DEF h, n, m
\* What a sound document shows is the text it is sound for.
LEMMA ShownIs ==
  ASSUME NEW d, NEW a, NEW fs, NEW k, NEW cs, Sound(d, a, fs, k, cs), ~d.wild
  PROVE  Shown(d) = a
<1> DEFINE n == Len(a.lines)
           s == ListOf(d.lines, d.current_line)
           above == Along(d.lines, d.current_line, "prev")
           left == Along(d.cells, d.current_text, "prev")
<1>1. PICK r, c : r = a.row /\ c = a.col
  OBVIOUS
<1>2. /\ Len(s) = n /\ n \in Nat /\ DOMAIN s = 1 .. n
      /\ \A i \in 1 .. n : s[i] = fs[k + i]
      /\ Along(d.lines, fs[k + 1], "next") = s
      /\ Len(above) = r /\ Last(above) = fs[k + 1]
  BY <1>1, LinesAre
<1>3. r \in 1 .. n /\ k \in Nat /\ a \in TextSet
  BY <1>1, SoundLengths DEF Sound
<1>4. DOMAIN d.lines = 1 .. Len(d.lines)
  <2>1. d.lines \in Seq(LineSet)
    BY SoundNumbers
  <2> QED BY <2>1
<1> HIDE DEF s, above
<1>5. ASSUME NEW i \in 1 .. n PROVE CharsOf(d)[s[i]] = a.lines[i]
  <2>1. /\ fs[k + i] \in 1 .. Len(d.lines) /\ Len(a.lines[i]) \in Nat
        /\ Len(cs[fs[k + i]]) = Len(a.lines[i])
    BY LineNumbers
  <2> DEFINE b == cs[fs[k + i]]
             m == Len(a.lines[i])
  <2>2. LineCells(d, fs[k + i]) = b
    BY <2>1, LineCellsAre
  <2>3. \A p \in 1 .. m : a.lines[i][p] = d.cells[b[p]].c
    BY ColumnFacts
  <2>4. a.lines[i] \in Seq(AllChars)
    BY <1>3 DEF TextSet
  <2>5. DOMAIN b = 1 .. m
    <3>1. b \in Seq(1 .. Len(d.cells))
      BY <2>1, SoundNumbers
    <3> QED BY <3>1, <2>1
  <2>6. CharsOf(d)[s[i]] = [p \in 1 .. m |-> d.cells[b[p]].c]
    <3>1. s[i] = fs[k + i] /\ s[i] \in DOMAIN d.lines
      BY <2>1, <1>2, <1>4
    <3> QED BY <3>1, <2>2, <2>5 DEF CharsOf
  <2>7. a.lines[i] = [p \in 1 .. m |-> a.lines[i][p]]
    BY <2>4
  <2> HIDE DEF b
  <2> QED BY <2>3, <2>6, <2>7
<1>6. TextFrom(d, fs[k + 1]) = [i \in 1 .. n |-> CharsOf(d)[s[i]]]
  BY <1>2 DEF TextFrom
<1>7. TextFrom(d, fs[k + 1]) = a.lines
  <2>1. a.lines = [i \in 1 .. n |-> a.lines[i]]
    <3> DEFINE T == Seq(AllChars)
    <3>1. a.lines \in Seq(T)
      BY <1>3 DEF TextSet
    <3> HIDE DEF T
    <3> QED BY <3>1
  <2> QED BY <2>1, <1>5, <1>6
<1>8. Len(left) = c
  <2> DEFINE b == RowLine(a, fs, k)
             h == d.cells
             t == cs[b]
  <2>1. /\ h \in Seq(CellSet) /\ Linking(h)
    BY SoundNumbers DEF Sound
  <2>2. IsList(h, t, 0) /\ c \in 1 .. Len(t) /\ d.current_text = t[c] /\ Len(t) \in Nat
    BY <1>1, RowNumbers
  <2> HIDE DEF b, h, t
  <2>3. c \in 0 + 1 .. Len(t)
    BY <2>2
  <2>4. Along(h, t[c], "prev") = [j \in 1 .. c - 0 |-> t[c + 1 - j]]
    BY <2>1, <2>2, <2>3, AlongPrev
  <2>5. c - 0 = c /\ c \in Nat
    BY <2>2
  <2>6. Len(Along(h, t[c], "prev")) = c
    BY <2>4, <2>5
  <2> QED BY <2>2, <2>6 DEF h
<1> HIDE DEF left
<1>9. Shown(d) = [lines |-> TextFrom(d, Last(above)), row |-> Len(above), col |-> Len(left)]
  <2>1. 1 \in 1 .. n /\ s[1] = fs[k + 1] /\ fs[k + 1] \in DOMAIN d.lines
    <3>1. 1 \in 1 .. n
      BY <1>2, <1>3
    <3>2. fs[k + 1] \in 1 .. Len(d.lines)
      BY <3>1, LineNumbers
    <3> QED BY <3>1, <3>2, <1>2, <1>4
  <2>2. Last(above) \in DOMAIN d.lines
    BY <2>1, <1>2
  <2> QED BY <2>2 DEF Shown, above, left
<1>10. a = [lines |-> a.lines, row |-> a.row, col |-> a.col]
  BY <1>3 DEF TextSet
<1> QED BY <1>1, <1>2, <1>7, <1>8, <1>9, <1>10

LEMMA SoundTypes ==
  ASSUME NEW a, Shows(doc, a), Rows(doc, a.row)
  PROVE  /\ \A l \in ToSet(doc.lines) :
              /\ {l.prev, l.next} \subseteq DOMAIN doc.lines \cup {Null}
              /\ l.buffer \in DOMAIN doc.cells \cup {Null} /\ l.size \in Nat
         /\ \A n \in ToSet(doc.cells) :
              /\ {n.prev, n.next} \subseteq DOMAIN doc.cells \cup {Null}
              /\ n.c \in Letters \cup {Space} \cup FileLetters
         /\ {doc.file_buffer, doc.current_line} \subseteq DOMAIN doc.lines
         /\ doc.screen_start \in DOMAIN doc.lines \cup {Null}
         /\ doc.current_text \in DOMAIN doc.cells
         /\ doc.cursorX \in Int /\ doc.cursorY \in -NLines .. Height
<1>1. PICK fs, k, cs : Sound(doc, a, fs, k, cs)
  BY DEF Shows
<1>2. /\ doc \in DocSet /\ doc.screen_start \in 0 .. Len(doc.lines)
      /\ doc.current_line \in 1 .. Len(doc.lines) /\ doc.current_text \in 1 .. Len(doc.cells)
  BY <1>1, SoundCurrent
<1>3. /\ Len(doc.lines) \in Nat /\ Len(doc.cells) \in Nat
      /\ DOMAIN doc.lines = 1 .. Len(doc.lines) /\ DOMAIN doc.cells = 1 .. Len(doc.cells)
      /\ \A l \in 1 .. Len(doc.lines) : doc.lines[l] \in LineSet
      /\ \A n \in 1 .. Len(doc.cells) : doc.cells[n] \in CellSet
  BY <1>2, HeapFacts DEF DocSet
<1>4. /\ Linking(doc.lines) /\ Linking(doc.cells) /\ doc.file_buffer = fs[1]
      /\ IsList(doc.lines, fs, k) /\ CellLists(doc.cells, cs) /\ Buffers(doc.lines, cs)
  BY <1>1 DEF Sound
<1>5. ASSUME NEW l \in 1 .. Len(doc.lines)
      PROVE  /\ {doc.lines[l].prev, doc.lines[l].next} \subseteq DOMAIN doc.lines \cup {Null}
             /\ doc.lines[l].buffer \in DOMAIN doc.cells \cup {Null} /\ doc.lines[l].size \in Nat
  <2>1. doc.lines[l].size \in Nat
    BY <1>3 DEF LineSet
  <2>2. {doc.lines[l].prev, doc.lines[l].next} \subseteq DOMAIN doc.lines \cup {Null}
    BY <1>3, <1>4 DEF Linking, Null
  <2>3. doc.lines[l].buffer = IF cs[l] = <<>> THEN Null ELSE cs[l][1]
    BY <1>4 DEF Buffers
  <2>4. cs[l] # <<>> => cs[l][1] \in 1 .. Len(doc.cells)
    <3>1. cs[l] \in Seq(1 .. Len(doc.cells))
      BY <1>1, SoundNumbers
    <3> QED BY <3>1
  <2> QED BY <2>1, <2>2, <2>3, <2>4, <1>3
<1>6. ASSUME NEW n \in 1 .. Len(doc.cells)
      PROVE  /\ {doc.cells[n].prev, doc.cells[n].next} \subseteq DOMAIN doc.cells \cup {Null}
             /\ doc.cells[n].c \in Letters \cup {Space} \cup FileLetters
  <2>1. doc.cells[n].c \in Letters \cup {Space} \cup FileLetters
    BY <1>3 DEF CellSet, AllChars
  <2>2. {doc.cells[n].prev, doc.cells[n].next} \subseteq DOMAIN doc.cells \cup {Null}
    BY <1>3, <1>4 DEF Linking, Null
  <2> QED BY <2>1, <2>2
<1>7. doc.file_buffer \in DOMAIN doc.lines
  <2>1. Len(fs) >= 1 /\ Len(fs) \in Nat /\ \A i \in 1 .. Len(fs) : fs[i] \in 1 .. Len(doc.lines)
    BY <1>3, <1>4, ListFacts
  <2> QED BY <2>1, <1>3, <1>4
<1>8. doc.cursorX \in Int /\ doc.cursorY \in -NLines .. Height
  <2>1. doc.cursorX \in Int /\ doc.cursorY \in Int
    BY <1>2 DEF DocSet
  <2>2. a.row \in Nat /\ a.row >= 1
    BY Edges
  <2> QED BY <2>1, <2>2, EditorSizes DEF Rows
<1>9. \A l \in ToSet(doc.lines) :
        /\ {l.prev, l.next} \subseteq DOMAIN doc.lines \cup {Null}
        /\ l.buffer \in DOMAIN doc.cells \cup {Null} /\ l.size \in Nat
  <2> SUFFICES ASSUME NEW i \in 1 .. Len(doc.lines)
               PROVE  LET l == doc.lines[i]
                      IN /\ {l.prev, l.next} \subseteq DOMAIN doc.lines \cup {Null}
                         /\ l.buffer \in DOMAIN doc.cells \cup {Null} /\ l.size \in Nat
    BY <1>3 DEF ToSet
  <2> QED BY <1>5
<1>10. \A n \in ToSet(doc.cells) :
         /\ {n.prev, n.next} \subseteq DOMAIN doc.cells \cup {Null}
         /\ n.c \in Letters \cup {Space} \cup FileLetters
  <2> SUFFICES ASSUME NEW i \in 1 .. Len(doc.cells)
               PROVE  LET n == doc.cells[i]
                      IN /\ {n.prev, n.next} \subseteq DOMAIN doc.cells \cup {Null}
                         /\ n.c \in Letters \cup {Space} \cup FileLetters
    BY <1>3 DEF ToSet
  <2> QED BY <1>6
<1> QED BY <1>2, <1>3, <1>7, <1>8, <1>9, <1>10 DEF Null

LEMMA SoundLines ==
  ASSUME NEW a, NEW fs, NEW k, NEW cs, Sound(doc, a, fs, k, cs)
  PROVE  LET n == Len(a.lines)
         IN /\ n \in Nat /\ n >= 1 /\ Len(Lines) = n /\ Last(Lines) = fs[k + n]
            /\ ToSet(Lines) = {fs[k + i] : i \in 1 .. n}
<1> DEFINE n == Len(a.lines)
<1>1. /\ Len(Lines) = n /\ n \in Nat /\ n >= 1 /\ DOMAIN Lines = 1 .. n
      /\ \A i \in 1 .. n : Lines[i] = fs[k + i]
  BY LinesAre DEF Lines
<1> HIDE DEF n
<1>2. Last(Lines) = fs[k + n]
  BY <1>1 DEF Last
<1>3. ToSet(Lines) = {fs[k + i] : i \in 1 .. n}
  BY <1>1 DEF ToSet
<1> QED BY <1>1, <1>2, <1>3 DEF n

LEMMA SoundLists ==
  ASSUME NEW a, Shows(doc, a)
  PROVE  ListsSound
<1>0. PICK fs, k, cs : Sound(doc, a, fs, k, cs)
  BY DEF Shows
<1> DEFINE n == Len(a.lines)
<1>1. /\ n \in Nat /\ n >= 1 /\ Last(Lines) = fs[k + n]
      /\ ToSet(Lines) = {fs[k + i] : i \in 1 .. n} /\ Linked(doc.lines, doc.current_line)
  BY <1>0, SoundLines, LinesAre
<1>2. doc.current_text \in ToSet(LineCells(doc, doc.current_line))
  <2> DEFINE l == RowLine(a, fs, k)
             s == cs[l]
  <2>1. /\ l \in 1 .. Len(doc.lines) /\ doc.current_line = l /\ doc.current_text = s[a.col]
        /\ a.col \in 1 .. Len(s) /\ IsList(doc.cells, s, 0)
    BY <1>0, RowNumbers
  <2>2. LineCells(doc, l) = s
    BY <2>1, <1>0, LineCellsAre
  <2>3. DOMAIN s = 1 .. Len(s)
    BY <2>1 DEF IsList
  <2> HIDE DEF l, s
  <2> QED BY <2>1, <2>2, <2>3 DEF ToSet
<1>3. ASSUME NEW i \in 1 .. n
      PROVE  LET l == fs[k + i]
             IN IF doc.lines[l].buffer = Null THEN l = Last(Lines)
                ELSE /\ doc.cells[doc.lines[l].buffer].prev = Null
                     /\ Linked(doc.cells, doc.lines[l].buffer)
  <2> DEFINE l == fs[k + i]
             s == cs[l]
             h == doc.cells
  <2>1. /\ l \in 1 .. Len(doc.lines)
        /\ doc.lines[l].buffer = IF a.lines[i] = <<>> THEN Null ELSE s[1]
        /\ a.lines[i] # <<>> => IsList(h, s, 0)
    BY <1>0, RowFacts
  <2>2. CASE a.lines[i] = <<>>
    <3>1. i = n
      <4>1. ~(i \in 1 .. n - 1)
        BY <2>2, <1>0 DEF Sound, Filled
      <4> QED BY <4>1, <1>1
    <3> QED BY <3>1, <2>1, <2>2, <1>1
  <2>3. CASE a.lines[i] # <<>>
    <3>1. IsList(h, s, 0) /\ h \in Seq(CellSet) /\ Linking(h)
      BY <2>1, <2>3, <1>0, SoundNumbers DEF Sound
    <3> HIDE DEF h, s
    <3>2. s \in Seq(1 .. Len(h)) /\ Len(s) \in Nat /\ 1 \in 1 .. Len(s) /\ 1 \in 0 + 1 .. Len(s)
      BY <3>1 DEF IsList
    <3>3. h[s[1]].prev = Null /\ s[1] # Null
      BY <3>1, <3>2 DEF IsList, Preceding, Null
    <3>4. Linked(h, s[1])
      BY <3>1, <3>2, LinkedIs
    <3> QED BY <2>1, <2>3, <3>3, <3>4 DEF h
  <2> QED BY <2>2, <2>3
<1>4. \A l \in ToSet(Lines) :
        IF doc.lines[l].buffer = Null THEN l = Last(Lines)
        ELSE /\ doc.cells[doc.lines[l].buffer].prev = Null
             /\ Linked(doc.cells, doc.lines[l].buffer)
  BY <1>1, <1>3
<1> QED BY <1>1, <1>2, <1>4 DEF ListsSound

LEMMA SoundCursor ==
  ASSUME NEW a, Shows(doc, a), On(doc)
  PROVE  OneCursor
<1>0. PICK fs, k, cs : Sound(doc, a, fs, k, cs)
  BY DEF Shows
<1> DEFINE n == Len(a.lines)
           In == UNION {ToSet(LineCells(doc, l)) : l \in ToSet(Lines)}
<1>1. n \in Nat /\ ToSet(Lines) = {fs[k + i] : i \in 1 .. n} /\ n = Len(fs) - k
  BY <1>0, SoundLines, SoundLengths
<1>2. ASSUME NEW m \in In, doc.cells[m].cursor PROVE m = doc.current_text
  <2>1. PICK i \in 1 .. n : m \in ToSet(LineCells(doc, fs[k + i]))
    BY <1>1
  <2> DEFINE s == cs[fs[k + i]]
  <2>2. LineCells(doc, fs[k + i]) = s /\ s \in Seq(1 .. Len(doc.cells))
    <3>1. fs[k + i] \in 1 .. Len(doc.lines) /\ fs[k + i] \in 1 .. Len(cs)
      BY <1>0, LineNumbers
    <3> QED BY <3>1, <1>0, LineCellsAre, SoundNumbers
  <2>3. \A q \in 1 .. Len(s) : doc.cells[s[q]].cursor => s[q] = doc.current_text
    BY <1>0, <1>1 DEF Sound, OneFlag
  <2> HIDE DEF s
  <2>4. PICK q \in 1 .. Len(s) : m = s[q]
    <3>1. m \in ToSet(s) /\ DOMAIN s = 1 .. Len(s)
      BY <2>1, <2>2
    <3> QED BY <3>1 DEF ToSet
  <2> QED BY <2>3, <2>4, <1>2
<1>3. doc.current_text \in In
  <2>1. ListsSound
    BY SoundLists
  <2>2. doc.current_text \in ToSet(LineCells(doc, doc.current_line))
    BY <2>1 DEF ListsSound
  <2>3. doc.current_line = fs[k + a.row] /\ a.row \in 1 .. n
    BY <1>0, SoundCurrent, SoundLengths
  <2>4. doc.current_line \in ToSet(Lines)
    BY <2>3, <1>1
  <2> QED BY <2>2, <2>4
<1> HIDE DEF In
<1>4. {m \in In : doc.cells[m].cursor} = {doc.current_text}
  BY <1>2, <1>3 DEF On
<1> QED BY <1>4 DEF OneCursor, In

\* The end of a sequence is a suffix of it.
LEMMA EndIsSuffix ==
  ASSUME NEW S, NEW s \in Seq(S), NEW k \in 0 .. Len(s)
  PROVE  IsSuffix(SubSeq(s, k + 1, Len(s)), s)
<1> DEFINE m == Len(s)
           t == SubSeq(s, k + 1, m)
           p == Reverse(t)
           r == Reverse(s)
<1>1. /\ m \in Nat /\ t \in Seq(S) /\ Len(t) = m - k
      /\ \A i \in 1 .. m - k : t[i] = s[k + i]
  OBVIOUS
<1> HIDE DEF t
<1>2. p \in Seq(S) /\ Len(p) = m - k /\ \A i \in 1 .. m - k : p[i] = t[(m - k - i) + 1]
  BY <1>1 DEF Reverse
<1>3. r \in Seq(S) /\ Len(r) = m /\ \A i \in 1 .. m : r[i] = s[(m - i) + 1]
  BY <1>1 DEF Reverse
<1> HIDE DEF p, r, m
<1>4. ASSUME NEW i \in 1 .. m - k PROVE p[i] = r[i]
  <2>1. /\ (m - k - i) + 1 \in 1 .. m - k /\ k + ((m - k - i) + 1) = (m - i) + 1
        /\ i \in 1 .. m
    BY <1>1
  <2> QED BY <2>1, <1>1, <1>2, <1>3
<1>5. SubSeq(p, 1, Len(p)) = SubSeq(r, 1, Len(p)) /\ Len(p) <= Len(r)
  <2> DEFINE n == m - k
  <2>1. n \in Nat /\ n <= m
    BY <1>1
  <2> HIDE DEF n
  <2>2. \A i \in 1 .. n : p[i] = r[i]
    BY <1>4 DEF n
  <2>3. Len(p) = n
    BY <1>2 DEF n
  <2>4. SubSeq(p, 1, n) = [i \in 1 .. n |-> p[i]] /\ SubSeq(r, 1, n) = [i \in 1 .. n |-> r[i]]
    BY <2>1, <2>3, <1>2, <1>3
  <2> QED BY <2>1, <2>2, <2>3, <2>4, <1>3
<1> QED BY <1>5 DEF IsSuffix, IsPrefix, p, r, t, m

LEMMA SoundSave ==
  ASSUME NEW a, Shows(doc, a)
  PROVE  SaveKeepsText
<1>0. PICK fs, k, cs : Sound(doc, a, fs, k, cs)
  BY DEF Shows
<1>1. Lines = SubSeq(fs, k + 1, Len(fs)) /\ Along(doc.lines, doc.file_buffer, "next") = fs
  BY <1>0, LinesAre DEF Lines
<1>2. fs \in Seq(1 .. Len(doc.lines)) /\ k \in 0 .. Len(fs)
  BY <1>0, SoundLengths DEF Sound, IsList
<1>3. IsSuffix(SubSeq(fs, k + 1, Len(fs)), fs)
  BY <1>2, EndIsSuffix
<1> QED BY <1>1, <1>3 DEF SaveKeepsText


-----------------------------------------------------------------------------
(* The commands of the table, and the states of the automaton.             *)

Commanding(t) == <<"j">> \in DOMAIN t /\ \A lex \in DOMAIN t : IsCommand(t[lex])

LEMMA Directions ==
  /\ \A dir \in {"UP", "DOWN", "LEFT", "RIGHT"} : IsCommand(Cmd("NORMAL", 0, 1, dir))
  /\ \A dir \in {"UP", "DOWN", "RIGHT"} : IsCommand(Cmd("INSERT", 0, 1, dir))
  /\ \A dir \in {"LEFT", "RIGHT"} : IsCommand(Cmd("NORMAL", 1, 1, dir))
  /\ \A dir \in {"UP", "DOWN"} : IsCommand(Cmd("NORMAL", 3, 1, dir))
  /\ \A new \in {"NORMAL", "INSERT", "COMMAND"}, del \in {0, 1, 3} :
       IsCommand(Cmd(new, del, 0, "STILL"))
BY DEF IsCommand, Cmd

LEMMA CommandsAre == Commanding(commands)
<1>1. \A row \in command_table : IsCommand(row[2])
  BY Directions DEF command_table
<1>2. <<<<"j">>, Cmd("NORMAL", 0, 1, "DOWN")>> \in command_table
  BY DEF command_table
<1>3. DOMAIN commands = {row[1] : row \in command_table}
  BY DEF commands
<1>4. <<"j">> \in DOMAIN commands
  BY <1>2, <1>3
<1>5. ASSUME NEW lex \in DOMAIN commands PROVE IsCommand(commands[lex])
  <2> DEFINE row == CHOOSE x \in command_table : x[1] = lex
  <2>1. row \in command_table
    BY <1>3
  <2>2. commands[lex] = row[2]
    BY <1>3 DEF commands
  <2> QED BY <2>1, <2>2, <1>1
<1> QED BY <1>4, <1>5 DEF Commanding

\* The keys of the commands that go down or delete lines.
Keyed(lex, com) ==
  /\ com.mov = 1 /\ com.dir = "DOWN" => lex \in {<<"j">>, <<"d", "j">>, <<"o">>}
  /\ com.mov = 1 /\ com.dir = "DOWN" /\ com.new_mode = "NORMAL" /\ com.del = 0 => lex = <<"j">>
  /\ com.mov = 0 /\ com.del = 3 => lex = <<"d", "d">>
  /\ com.mov = 1 /\ com.del = 3 /\ com.dir = "UP" => lex = <<"d", "k">>
  /\ com.mov = 1 /\ com.del = 3 /\ com.dir = "DOWN" => lex = <<"d", "j">>

CommandKeys == {"j", "k", "l", "h", "d", "x", "s", "o", "O", "a", ":", "i"}

LEMMA ShortSequences ==
  ASSUME NEW S
  PROVE  /\ \A x \in S : <<x>> \in Seq(S)
         /\ \A x, y \in S : <<x, y>> \in Seq(S)
OBVIOUS

LEMMA CommandsKeyed ==
  \A lex \in DOMAIN commands : lex \in Seq(CommandKeys) /\ Keyed(lex, commands[lex])
<1>1. ASSUME NEW row \in command_table
      PROVE  Keyed(row[1], row[2]) /\ row[1] \in Seq(CommandKeys)
  <2>1. row[1] \in Seq(CommandKeys)
    <3>1. \/ \E x \in CommandKeys : row[1] = <<x>>
          \/ \E x, y \in CommandKeys : row[1] = <<x, y>>
      BY DEF command_table, CommandKeys
    <3> QED BY <3>1, ShortSequences
  <2>2. Keyed(row[1], row[2])
    BY DEF command_table, Cmd, Keyed
  <2> QED BY <2>1, <2>2
<1>2. DOMAIN commands = {row[1] : row \in command_table}
  BY DEF commands
<1>3. ASSUME NEW lex \in DOMAIN commands
      PROVE  lex \in Seq(CommandKeys) /\ Keyed(lex, commands[lex])
  <2> DEFINE row == CHOOSE x \in command_table : x[1] = lex
  <2>1. row \in command_table /\ row[1] = lex
    BY <1>2
  <2>2. commands[lex] = row[2]
    BY <1>2 DEF commands
  <2> QED BY <2>1, <2>2, <1>1
<1> QED BY <1>3

LEMMA NodesAre == Nodes \subseteq Seq(CommandKeys)
<1>1. ASSUME NEW lex \in Seq(CommandKeys), NEW n \in 0 .. Len(lex) - 1
      PROVE  SubSeq(lex, 1, n) \in Seq(CommandKeys)
  OBVIOUS
<1> QED BY <1>1, CommandsKeyed DEF Nodes

\* The last key of a command, and what was typed before.
LEMMA LastKey ==
  ASSUME NEW s \in Seq(CommandKeys), NEW c
  PROVE  /\ \A x : Append(s, c) = <<x>> => c = x
         /\ \A x, y : Append(s, c) = <<x, y>> => c = y /\ s = <<x>>
<1> DEFINE S == CommandKeys \cup {c}
<1>0. s \in Seq(S) /\ c \in S
  OBVIOUS
<1> HIDE DEF S
<1>1. PICK t : t = Append(s, c)
  OBVIOUS
<1>2. /\ Len(s) \in Nat /\ Len(t) = Len(s) + 1 /\ t[Len(s) + 1] = c
      /\ \A i \in 1 .. Len(s) : t[i] = s[i]
  BY <1>0, <1>1
<1>3. ASSUME NEW x, t = <<x>> PROVE c = x
  <2>1. Len(t) = 1 /\ t[1] = x
    BY <1>3
  <2>2. Len(s) + 1 = 1
    BY <2>1, <1>2
  <2> QED BY <2>1, <2>2, <1>2
<1>4. ASSUME NEW x, NEW y, t = <<x, y>> PROVE c = y /\ s = <<x>>
  <2>1. Len(t) = 2 /\ t[1] = x /\ t[2] = y
    BY <1>4
  <2>2. Len(s) + 1 = 2 /\ Len(s) = 1
    <3>1. \A n \in Nat : n + 1 = 2 => n = 1
      OBVIOUS
    <3>2. Len(s) + 1 = 2
      BY <2>1, <1>2
    <3> QED BY <3>1, <3>2, <1>2
  <2>3. s[1] = x
    BY <2>1, <2>2, <1>2
  <2>4. s = <<x>>
    BY <2>2, <2>3, <1>0
  <2> QED BY <2>1, <2>2, <2>4, <1>2
<1> QED BY <1>1, <1>3, <1>4

LEMMA EmptyNode == <<>> \in Nodes
<1> DEFINE lex == <<"j">>
           Set(x) == {SubSeq(x, 1, n) : n \in 0 .. Len(x) - 1}
<1>1. lex \in DOMAIN commands
  BY CommandsAre DEF Commanding
<1>2. <<>> = SubSeq(lex, 1, 0) /\ 0 \in 0 .. Len(lex) - 1
  OBVIOUS
<1>3. <<>> \in Set(lex)
  BY <1>2
<1> QED BY <1>1, <1>3 DEF Nodes

LEMMA BoundedIs ==
  ASSUME NEW S, NEW n \in Nat, NEW s
  PROVE  s \in BoundedSeq(S, n) <=> s \in Seq(S) /\ Len(s) <= n
<1>1. ASSUME s \in BoundedSeq(S, n) PROVE s \in Seq(S) /\ Len(s) <= n
  BY <1>1 DEF BoundedSeq, SeqOf
<1>2. ASSUME s \in Seq(S), Len(s) <= n PROVE s \in BoundedSeq(S, n)
  <2>1. Len(s) \in 0 .. n /\ s \in [1 .. Len(s) -> S]
    BY <1>2
  <2> QED BY <2>1 DEF BoundedSeq, SeqOf
<1> QED BY <1>1, <1>2

-----------------------------------------------------------------------------
(* The invariant.                                                          *)

\* The document shows a text.
ShowsText(d, a) == Shows(d, a) /\ On(d) /\ Rows(d, a.row)

Modes == {"NORMAL", "INSERT", "COMMAND", "EXIT"}

\* Inductive: the document is sound for some text, even when it is Wild (nothing is
\* said of what follows), and the automaton and the command are where they can be.
Inv ==
  /\ \E a : ShowsText(doc, a)
  /\ mode \in Modes /\ node \in Nodes
  /\ command_buffer \in BoundedSeq(Words \cup {Space}, MaxCommand)

LEMMA NewFileShows ==
  /\ ShowsText(NewFile, Texts!Fresh) /\ ~NewFile.wild
  /\ ShowsText(Blank(0, 0, 0), Texts!Fresh) /\ ~Blank(0, 0, 0).wild
<1>1. ASSUME NEW size \in Nat
      PROVE  ShowsText(Blank(0, 0, size), Texts!Fresh) /\ ~Blank(0, 0, size).wild
  <2> DEFINE d == Blank(0, 0, size)
  <2>1. /\ Shows(d, Texts!Fresh) /\ On(d) /\ ~d.wild /\ Texts!Fresh.row = 1
        /\ Len(d.lines) = 1 /\ d.cursorY = 0
    BY BlankShows
  <2> HIDE DEF d
  <2>2. 0 <= Height /\ 0 - 1 >= -NLines /\ 1 <= NLines
    BY EditorSizes
  <2>3. Rows(d, Texts!Fresh.row)
    BY <2>1, <2>2 DEF Rows
  <2> QED BY <2>1, <2>3 DEF ShowsText, d
<1> QED BY <1>1 DEF NewFile

LEMMA WildShows == ShowsText(Wild, Texts!Fresh) /\ Wild.wild
<1> DEFINE d == NewFile
           e == [d EXCEPT !.wild = TRUE]
<1>1. ShowsText(d, Texts!Fresh)
  BY NewFileShows
<1>2. Wild = e
  BY DEF Wild
<1> HIDE DEF d
<1>3. PICK fs, k, cs : Sound(d, Texts!Fresh, fs, k, cs)
  BY <1>1 DEF ShowsText, Shows
<1>4. d \in DocSet /\ d.screen_start \in 0 .. Len(d.lines)
  BY <1>3, SoundCurrent
<1>5. /\ e \in DocSet /\ e.lines = d.lines /\ e.cells = d.cells
      /\ e.file_buffer = d.file_buffer /\ e.current_line = d.current_line
      /\ e.current_text = d.current_text /\ e.screen_start = d.screen_start
      /\ e.cursorY = d.cursorY
  BY <1>4 DEF DocSet
<1> HIDE DEF e
<1>6. Sound(e, Texts!Fresh, fs, k, cs)
  BY <1>3, <1>4, <1>5, SoundSame
<1>7. On(e) /\ Rows(e, Texts!Fresh.row)
  BY <1>1, <1>5 DEF ShowsText, On, Rows
<1>8. ShowsText(e, Texts!Fresh)
  BY <1>6, <1>7 DEF ShowsText, Shows
<1> QED BY <1>2, <1>8, WildFlag

\* e shows what an edit of a gives.
ShowsEdit(e, a) == \E b : Texts!Edit(a, b) /\ ShowsText(e, b) /\ ~e.wild

\* The steps of NoWildPointer that may lose a document that shows a.
Excused(a) ==
  \/ CommandEnter /\ Word \in {<<"e">>, <<"w">>}
  \/ (NormalKey("j") \/ NormalKey("d") \/ Backspace) /\ Below(a, 1)
  \/ NormalKey("k") /\ node = <<"d">> /\ Below(a, 2)
  \/ NormalKey("j") /\ node = <<"d">> /\ Below(a, 3)
  \/ (NormalKey("j") \/ NormalKey("o") \/ Enter) /\ Off(doc)

\* What a step makes of a document that shows a.
Stepped(e, a) == (e = Wild /\ Excused(a)) \/ ShowsEdit(e, a)

LEMMA HandledShowsEdit ==
  ASSUME NEW e, NEW d, NEW a, ShowsText(d, a), Handled(e, d, a), Len(e.lines) <= NLines
  PROVE  ShowsEdit(e, a)
BY DEF ShowsEdit, Handled, Kept, ShowsText

LEMMA LoadShowsEdit ==
  ASSUME NEW f \in Files, NEW a
  PROVE  Load(f) = Wild \/ ShowsEdit(Load(f), a)
<1>1. CASE Len(f) = 1 \/ <<>> \in ToSet(Front(f))
  BY <1>1 DEF Load
<1>2. CASE Len(f) # 1 /\ <<>> \notin ToSet(Front(f))
  <2> DEFINE e == Load(f)
  <2>1. PICK b \in Texts!Loaded(f) : Shows(e, b) /\ On(e) /\ ~e.wild /\ Rows(e, b.row)
    BY <1>2, LoadShows
  <2>2. Texts!Edit(a, b)
    BY DEF Texts!Edit
  <2> HIDE DEF e
  <2>3. ShowsEdit(e, a)
    BY <2>1, <2>2 DEF ShowsEdit, ShowsText
  <2> QED BY <2>3 DEF e
<1> QED BY <1>1, <1>2

LEMMA EnterStepped ==
  ASSUME NEW a, ShowsText(doc, a), CommandEnter
  PROVE  Stepped(doc', a)
<1>1. ~doc.wild
  BY DEF CommandEnter
\* Only :e and :w lose the document.
<1>7. ASSUME doc' = Wild PROVE Excused(a)
  <2>1. Wild # doc /\ Wild # NewFile
    BY <1>1, WildFlag, NewFileShows
  <2>2. Word \in {<<"e">>, <<"w">>}
    <3>1. Word # <<"e">> /\ Word # <<"w">> => doc' = NewFile \/ doc' = doc
      <4> HIDE DEF Word
      <4> QED BY DEF CommandEnter
    <3> QED BY <3>1, <2>1, <1>7
  <2> HIDE DEF Word
  <2> QED BY <2>2 DEF Excused
<1>2. \/ doc' \in {Load(f) : f \in Files}
      \/ doc' \in {Blank(0, 0, 0), NewFile}
      \/ doc' = Wild
      \/ doc' = doc
  <2> HIDE DEF Word
  <2> QED BY DEF CommandEnter
<1>3. CASE doc' \in {Load(f) : f \in Files}
  <2>1. doc' = Wild \/ ShowsEdit(doc', a)
    BY <1>3, LoadShowsEdit
  <2> QED BY <2>1, <1>7 DEF Stepped
<1>4. CASE doc' \in {Blank(0, 0, 0), NewFile}
  <2>1. Texts!Edit(a, Texts!Fresh)
    BY DEF Texts!Edit
  <2> QED BY <2>1, <1>4, NewFileShows DEF Stepped, ShowsEdit
<1>5. CASE doc' = Wild
  BY <1>5, <1>7 DEF Stepped
<1>6. CASE doc' = doc
  <2>1. Texts!Edit(a, a)
    BY DEF Texts!Edit
  <2> QED BY <2>1, <1>1, <1>6 DEF Stepped, ShowsEdit
<1> QED BY <1>2, <1>3, <1>4, <1>5, <1>6

\* A command that may lose the document is one of those keys.
LEMMA KeyExcused ==
  ASSUME NEW a, NEW c, NormalKey(c), node \in Nodes, NEW lex, lex = Append(node, c),
         lex \in DOMAIN commands, Loses(commands[lex], doc, a)
  PROVE  Excused(a)
<1> DEFINE com == commands[lex]
<1>1. node \in Seq(CommandKeys)
  BY NodesAre
<1>2. Keyed(lex, com) /\ Loses(com, doc, a)
  BY CommandsKeyed
<1> HIDE DEF com
<1>3. \/ lex \in {<<"j">>, <<"d", "j">>, <<"o">>} /\ Off(doc)
      \/ lex = <<"j">> /\ Below(a, 1)
      \/ lex = <<"d", "d">> /\ Below(a, 1)
      \/ lex = <<"d", "k">> /\ Below(a, 2)
      \/ lex = <<"d", "j">> /\ Below(a, 3)
  BY <1>2, Zenon DEF Keyed, Loses
<1>4. /\ \A x : lex = <<x>> => c = x
      /\ \A x, y : lex = <<x, y>> => c = y /\ node = <<x>>
  BY <1>1, LastKey
<1>5. \/ c \in {"j", "o"} /\ Off(doc)
      \/ c \in {"j", "d"} /\ Below(a, 1)
      \/ c = "k" /\ node = <<"d">> /\ Below(a, 2)
      \/ c = "j" /\ node = <<"d">> /\ Below(a, 3)
  BY <1>3, <1>4
<1>6. \A x : c = x => NormalKey(x)
  OBVIOUS
<1> QED BY <1>5, <1>6 DEF Excused

\* Every step but one that leaves the document alone.
LEMMA NextStepped ==
  ASSUME NEW a, ShowsText(doc, a), node \in Nodes, Next
  PROVE  ~doc.wild /\ Stepped(doc', a)
<1>1. ASSUME ~doc.wild, doc' = doc PROVE Stepped(doc', a)
  <2>1. Texts!Edit(a, a)
    BY DEF Texts!Edit
  <2> QED BY <1>1, <2>1 DEF Stepped, ShowsEdit
<1>0. ASSUME ~doc.wild, Len(doc'.lines) <= NLines,
             (doc' = Wild /\ Excused(a)) \/ Handled(doc', doc, a)
      PROVE  Stepped(doc', a)
  BY <1>0, HandledShowsEdit DEF Stepped
<1>2. ASSUME NEW new, Edit(new),
             ~doc.wild => (new = Wild /\ Excused(a)) \/ Handled(new, doc, a)
      PROVE  ~doc.wild /\ Stepped(doc', a)
  <2>1. ~doc.wild /\ doc' = new /\ Len(doc'.lines) <= NLines
    BY <1>2 DEF Edit, Fits
  <2> QED BY <2>1, <1>2, <1>0
<1>3. ASSUME NEW c \in Keys, NormalKey(c) PROVE ~doc.wild /\ Stepped(doc', a)
  <2> DEFINE lex == Append(node, c)
             com == commands[lex]
  <2>1. ~doc.wild
    BY <1>3 DEF NormalKey
  <2>2. CASE lex \in DOMAIN commands
    <3>1. doc' = RunCommand(doc, com) /\ Len(doc'.lines) <= NLines
      BY <1>3, <2>2 DEF NormalKey, Fits
    <3>2. IsCommand(com)
      BY <2>2, CommandsAre DEF Commanding
    <3>4. Loses(com, doc, a) => Excused(a)
      BY <1>3, <2>2, KeyExcused
    <3> HIDE DEF com
    <3>3. \/ doc' = Wild /\ Loses(com, doc, a)
          \/ Handled(doc', doc, a)
      BY <2>1, <3>1, <3>2, RunCommandHandled DEF ShowsText
    <3> QED BY <2>1, <3>1, <3>3, <3>4, <1>0
  <2>3. CASE lex \notin DOMAIN commands
    <3>1. doc' = doc
      BY <1>3, <2>3 DEF NormalKey
    <3> QED BY <2>1, <3>1, <1>1
  <2> QED BY <2>2, <2>3
<1>4. ASSUME NEW c \in Letters, TypeChar(c) PROVE ~doc.wild /\ Stepped(doc', a)
  <2>1. Edit(InsertChar(doc, c))
    BY <1>4 DEF TypeChar
  <2>2. ~doc.wild => Handled(InsertChar(doc, c), doc, a)
    BY InsertionsHandled DEF ShowsText
  <2> QED BY <2>1, <2>2, <1>2
<1>5. ASSUME TypeSpace PROVE ~doc.wild /\ Stepped(doc', a)
  <2>1. Edit(InsertSpace(doc))
    BY <1>5 DEF TypeSpace
  <2>2. ~doc.wild => Handled(InsertSpace(doc), doc, a)
    BY InsertionsHandled DEF ShowsText
  <2> QED BY <2>1, <2>2, <1>2
<1>6. ASSUME TypeTab PROVE ~doc.wild /\ Stepped(doc', a)
  <2>1. Edit(InsertSpace(InsertSpace(doc)))
    BY <1>6 DEF TypeTab
  <2>2. ~doc.wild => Handled(InsertSpace(InsertSpace(doc)), doc, a)
    BY InsertionsHandled DEF ShowsText
  <2> QED BY <2>1, <2>2, <1>2
<1>7. ASSUME Escape PROVE ~doc.wild /\ Stepped(doc', a)
  BY <1>7, <1>1 DEF Escape, Edit
<1>8. ASSUME Backspace PROVE ~doc.wild /\ Stepped(doc', a)
  <2>1. Edit(Erased(doc))
    BY <1>8 DEF Backspace, Erased
  <2>2. ~doc.wild => (Erased(doc) = Wild /\ Below(a, 1)) \/ Handled(Erased(doc), doc, a)
    BY BackspaceHandled DEF ShowsText
  <2>3. Below(a, 1) => Excused(a)
    BY <1>8 DEF Excused
  <2> QED BY <2>1, <2>2, <2>3, <1>2
<1>9. ASSUME Enter PROVE ~doc.wild /\ Stepped(doc', a)
  <2>1. Edit(Entering(doc))
    BY <1>9 DEF Enter, Entering
  <2>2. ~doc.wild => (Entering(doc) = Wild /\ Off(doc)) \/ Handled(Entering(doc), doc, a)
    BY EnterHandled DEF ShowsText
  <2>3. Off(doc) => Excused(a)
    BY <1>9 DEF Excused
  <2> QED BY <2>1, <2>2, <2>3, <1>2
<1>10. ASSUME NEW new, Typed(new) PROVE ~doc.wild /\ Stepped(doc', a)
  BY <1>10, <1>1 DEF Typed
<1>11. ASSUME NEW c \in Words \cup {Space}, CommandChar(c)
       PROVE  ~doc.wild /\ Stepped(doc', a)
  BY <1>10, <1>11 DEF CommandChar
<1>12. ASSUME CommandBackspace PROVE ~doc.wild /\ Stepped(doc', a)
  BY <1>10, <1>12 DEF CommandBackspace
<1>13. ASSUME CommandEscape PROVE ~doc.wild /\ Stepped(doc', a)
  BY <1>10, <1>13 DEF CommandEscape
<1>14. ASSUME CommandEnter PROVE ~doc.wild /\ Stepped(doc', a)
  <2>1. ~doc.wild
    BY <1>14 DEF CommandEnter
  <2> QED BY <2>1, <1>14, EnterStepped
<1> QED BY <1>3, <1>4, <1>5, <1>6, <1>7, <1>8, <1>9, <1>11, <1>12, <1>13, <1>14 DEF Next

\* The rest of the state.
LEMMA NextModes ==
  ASSUME Inv, Next
  PROVE  mode' \in Modes /\ node' \in Nodes
<1>0. mode \in Modes /\ node \in Nodes /\ {"NORMAL", "INSERT", "COMMAND", "EXIT"} = Modes
  BY DEF Inv, Modes
<1>1. ASSUME NEW new, Edit(new) PROVE node' \in Nodes
  BY <1>0, <1>1 DEF Edit
<1>2. ASSUME NEW new, Typed(new) PROVE node' \in Nodes
  BY <1>0, <1>2 DEF Typed
<1>3. ASSUME NEW c \in Keys, NormalKey(c) PROVE mode' \in Modes /\ node' \in Nodes
  <2> DEFINE lex == Append(node, c)
             com == commands[lex]
  <2>1. CASE lex \in DOMAIN commands
    <3>1. mode' = com.new_mode /\ node' = <<>>
      BY <1>3, <2>1 DEF NormalKey
    <3>2. IsCommand(com)
      BY <2>1, CommandsAre DEF Commanding
    <3> HIDE DEF com
    <3> QED BY <3>1, <3>2, <1>0, EmptyNode DEF IsCommand
  <2>2. CASE lex \notin DOMAIN commands
    <3>1. node' = (IF lex \in Nodes THEN lex ELSE <<>>) /\ mode' = mode
      BY <1>3, <2>2 DEF NormalKey
    <3> QED BY <3>1, <1>0, EmptyNode
  <2> QED BY <2>1, <2>2
<1>4. ASSUME NEW c \in Letters, TypeChar(c) PROVE mode' \in Modes /\ node' \in Nodes
  BY <1>0, <1>1, <1>4 DEF TypeChar
<1>5. ASSUME TypeSpace \/ TypeTab \/ Escape \/ Backspace \/ Enter
      PROVE  mode' \in Modes /\ node' \in Nodes
  <2>1. CASE TypeSpace
    BY <2>1, <1>0, <1>1 DEF TypeSpace
  <2>2. CASE TypeTab
    BY <2>2, <1>0, <1>1 DEF TypeTab
  <2>3. CASE Escape
    BY <2>3, <1>0, <1>1 DEF Escape
  <2>4. CASE Backspace
    BY <2>4, <1>0, <1>1 DEF Backspace
  <2>5. CASE Enter
    BY <2>5, <1>0, <1>1 DEF Enter
  <2> QED BY <1>5, <2>1, <2>2, <2>3, <2>4, <2>5
<1>6. ASSUME NEW c \in Words \cup {Space}, CommandChar(c)
      PROVE  mode' \in Modes /\ node' \in Nodes
  BY <1>0, <1>2, <1>6 DEF CommandChar
<1>7. ASSUME CommandBackspace \/ CommandEscape PROVE mode' \in Modes /\ node' \in Nodes
  BY <1>0, <1>2, <1>7 DEF CommandBackspace, CommandEscape
<1>8. ASSUME CommandEnter PROVE mode' \in Modes /\ node' \in Nodes
  <2>1. mode' \in {"EXIT", "NORMAL"} /\ node' = node
    BY <1>8 DEF CommandEnter
  <2> QED BY <2>1, <1>0
<1> QED BY <1>3, <1>4, <1>5, <1>6, <1>7, <1>8 DEF Next

LEMMA NextCommand ==
  ASSUME Inv, Next
  PROVE  command_buffer' \in BoundedSeq(Words \cup {Space}, MaxCommand)
<1> DEFINE S == Words \cup {Space}
           B == BoundedSeq(S, MaxCommand)
<1>0. MaxCommand \in Nat /\ command_buffer \in B
  BY EditorAssumption DEF Inv
<1>1. command_buffer \in Seq(S) /\ Len(command_buffer) <= MaxCommand
  BY <1>0, BoundedIs
<1>2. <<>> \in B
  <2>1. <<>> \in Seq(S) /\ Len(<<>>) <= MaxCommand
    BY <1>0
  <2> QED BY <2>1, <1>0, BoundedIs
<1>3. \A s \in Seq(S) : Len(s) <= MaxCommand => s \in B
  BY <1>0, BoundedIs
<1> HIDE DEF B
<1>4. ASSUME NEW c \in Keys, NormalKey(c) PROVE command_buffer' \in B
  BY <1>0, <1>4 DEF NormalKey
<1>5. ASSUME NEW new, Edit(new) PROVE command_buffer' \in B
  BY <1>0, <1>5 DEF Edit
<1>6. ASSUME NEW new \in Seq(S), Typed(new) PROVE command_buffer' \in B
  BY <1>3, <1>6 DEF Typed
<1>7. ASSUME NEW c \in S, CommandChar(c) PROVE command_buffer' \in B
  <2>1. Append(command_buffer, c) \in Seq(S)
    BY <1>1
  <2> QED BY <2>1, <1>6, <1>7 DEF CommandChar
<1>8. ASSUME CommandBackspace PROVE command_buffer' \in B
  <2> DEFINE new == IF command_buffer = <<>> THEN <<>> ELSE Front(command_buffer)
  <2>1. new \in Seq(S)
    <3>1. command_buffer # <<>> => Front(command_buffer) \in Seq(S)
      BY <1>1 DEF Front
    <3> QED BY <3>1
  <2>2. Typed(new)
    BY <1>8 DEF CommandBackspace
  <2> HIDE DEF new
  <2> QED BY <2>1, <2>2, <1>6
<1>9. ASSUME CommandEscape PROVE command_buffer' \in B
  <2>1. <<>> \in Seq(S) /\ Typed(<<>>)
    BY <1>9 DEF CommandEscape
  <2> QED BY <2>1, <1>6
<1>10. ASSUME CommandEnter PROVE command_buffer' \in B
  BY <1>2, <1>10 DEF CommandEnter
<1>11. ASSUME TypeSpace \/ TypeTab \/ Escape \/ Backspace \/ Enter
       PROVE  command_buffer' \in B
  BY <1>5, <1>11 DEF TypeSpace, TypeTab, Escape, Backspace, Enter
<1>12. ASSUME NEW c \in Letters, TypeChar(c) PROVE command_buffer' \in B
  BY <1>5, <1>12 DEF TypeChar
<1> QED BY <1>4, <1>7, <1>8, <1>9, <1>10, <1>11, <1>12 DEF Next, B

LEMMA SteppedShows ==
  ASSUME NEW e, NEW a, Stepped(e, a)
  PROVE  \E b : ShowsText(e, b)
BY WildShows DEF Stepped, ShowsEdit

LEMMA Invariance == Spec => []Inv
<1>1. Init => Inv
  <2> SUFFICES ASSUME Init PROVE Inv
    OBVIOUS
  <2>1. \E a : ShowsText(doc, a)
    BY NewFileShows DEF Init
  <2>2. mode \in Modes /\ node \in Nodes
    BY EmptyNode DEF Init, Modes
  <2>3. command_buffer \in BoundedSeq(Words \cup {Space}, MaxCommand)
    <3>1. MaxCommand \in Nat /\ command_buffer = <<>>
      BY EditorAssumption DEF Init
    <3>2. <<>> \in Seq(Words \cup {Space}) /\ Len(<<>>) <= MaxCommand
      BY <3>1
    <3> QED BY <3>1, <3>2, BoundedIs
  <2> QED BY <2>1, <2>2, <2>3 DEF Inv
<1>2. Inv /\ [Next]_vars => Inv'
  <2>1. ASSUME Inv, Next PROVE Inv'
    <3>1. PICK a : ShowsText(doc, a)
      BY <2>1 DEF Inv
    <3>2. Stepped(doc', a)
      BY <3>1, <2>1, NextStepped DEF Inv
    <3>3. PICK b : ShowsText(doc', b)
      BY <3>2, SteppedShows
    <3>4. (\E x : ShowsText(doc, x))'
      BY <3>3 DEF ShowsText, Shows, On, Rows, Sound, InPlace, OneFlag
    <3> QED BY <3>4, <2>1, NextModes, NextCommand DEF Inv
  <2>2. ASSUME Inv, UNCHANGED vars PROVE Inv'
    <3>1. doc' = doc /\ mode' = mode /\ node' = node /\ command_buffer' = command_buffer
      BY <2>2 DEF vars
    <3>2. (\E x : ShowsText(doc, x))'
      <4>1. PICK a : ShowsText(doc, a)
        BY <2>2 DEF Inv
      <4>2. ShowsText(doc', a)
        BY <4>1, <3>1
      <4> QED BY <4>2 DEF ShowsText, Shows, On, Rows, Sound, InPlace, OneFlag
    <3>3. /\ (mode \in Modes)' /\ (node \in Nodes)'
          /\ (command_buffer \in BoundedSeq(Words \cup {Space}, MaxCommand))'
      BY <2>2, <3>1 DEF Inv
    <3> QED BY <3>2, <3>3 DEF Inv
  <2> QED BY <2>1, <2>2
<1> QED BY <1>1, <1>2, PTL DEF Spec

-----------------------------------------------------------------------------
(* The properties.                                                         *)

\* The types, and the row counted for the cursor, at every height and with any number of
\* lines: it goes past no bound, whatever the deletions above it.
THEOREM Type_OK == Spec => []TypeOK
<1>1. ASSUME Inv PROVE TypeOK
  <2>1. PICK a : ShowsText(doc, a)
    BY <1>1 DEF Inv
  <2>2. Shows(doc, a) /\ Rows(doc, a.row)
    BY <2>1 DEF ShowsText
  <2>3. /\ \A l \in ToSet(doc.lines) :
             /\ {l.prev, l.next} \subseteq DOMAIN doc.lines \cup {Null}
             /\ l.buffer \in DOMAIN doc.cells \cup {Null} /\ l.size \in Nat
        /\ \A n \in ToSet(doc.cells) :
             /\ {n.prev, n.next} \subseteq DOMAIN doc.cells \cup {Null}
             /\ n.c \in Letters \cup {Space} \cup FileLetters
        /\ {doc.file_buffer, doc.current_line} \subseteq DOMAIN doc.lines
        /\ doc.screen_start \in DOMAIN doc.lines \cup {Null}
        /\ doc.current_text \in DOMAIN doc.cells
        /\ doc.cursorX \in Int /\ doc.cursorY \in -NLines .. Height
    BY <2>2, SoundTypes
  <2>4. /\ mode \in {"NORMAL", "INSERT", "COMMAND", "EXIT"} /\ node \in Nodes
        /\ command_buffer \in BoundedSeq(Words \cup {Space}, MaxCommand)
    BY <1>1 DEF Inv, Modes
  <2> QED BY <2>3, <2>4, Zenon DEF TypeOK
<1> QED BY <1>1, Invariance, PTL

\* The lists of the lines and of the cells stay lists, under any sequence of keys that
\* insert, delete, move and load.
THEOREM Lists_Sound == Spec => []ListsSound
<1>1. ASSUME Inv PROVE ListsSound
  BY <1>1, SoundLists DEF Inv, ShowsText
<1> QED BY <1>1, Invariance, PTL

\* The cursor is shown on one cell, the one that the next key acts on.
THEOREM One_Cursor == Spec => []OneCursor
<1>1. ASSUME Inv PROVE OneCursor
  BY <1>1, SoundCursor DEF Inv, ShowsText
<1> QED BY <1>1, Invariance, PTL

\* :w misses no line of the text, although file_buffer may stay on deleted ones.
THEOREM Save_Keeps_Text == Spec => []SaveKeepsText
<1>1. ASSUME Inv PROVE SaveKeepsText
  BY <1>1, SoundSave DEF Inv, ShowsText
<1> QED BY <1>1, Invariance, PTL


LEMMA ShownText ==
  ASSUME NEW d, NEW a, ShowsText(d, a), ~d.wild
  PROVE  Shown(d) = a /\ a # Texts!Lost
<1>1. PICK fs, k, cs : Sound(d, a, fs, k, cs)
  BY DEF ShowsText, Shows
<1>2. Shown(d) = a
  BY <1>1, ShownIs
<1>3. a.row >= 1
  BY Edges DEF ShowsText
<1>4. Texts!Lost.row = 0
  BY DEF Texts!Lost
<1> QED BY <1>2, <1>3, <1>4

\* A pointer to nothing is followed by the keys that NoWildPointer names only, and by those
\* only where it says: at so many lines from a last line without cells, or when they scroll
\* a screen that is lost.
THEOREM No_Wild_Pointer == Spec => NoWildPointer
<1> DEFINE A == doc'.wild =>
                  \/ doc.wild
                  \/ CommandEnter /\ Word \in {<<"e">>, <<"w">>}
                  \/ (NormalKey("j") \/ NormalKey("d") \/ Backspace) /\ EmptyBelow(1)
                  \/ NormalKey("k") /\ node = <<"d">> /\ EmptyBelow(2)
                  \/ NormalKey("j") /\ node = <<"d">> /\ EmptyBelow(3)
                  \/ (NormalKey("j") \/ NormalKey("o") \/ Enter) /\ ScreenLost
<1>1. ASSUME Inv, Next PROVE A
  <2>1. PICK a : ShowsText(doc, a)
    BY <1>1 DEF Inv
  <2>2. ~doc.wild /\ Stepped(doc', a)
    BY <2>1, <1>1, NextStepped DEF Inv
  <2>3. Shown(doc) = a
    BY <2>1, <2>2, ShownText
  <2>4. /\ \A n : Below(a, n) => EmptyBelow(n)
        /\ Off(doc) => ScreenLost
    BY <2>3 DEF Below, LastEmpty, EmptyBelow, Last, Off, ScreenLost
  <2>5. CASE Excused(a)
    BY <2>4, <2>5, Zenon DEF Excused
  <2>6. CASE ShowsEdit(doc', a)
    BY <2>6 DEF ShowsEdit
  <2> QED BY <2>2, <2>5, <2>6 DEF Stepped
<1>2. Inv /\ [Next]_vars => [A]_vars
  BY <1>1
<1> QED BY <1>2, Invariance, PTL DEF Spec, NoWildPointer
\* The editor implements the text: each step does to it one of the edits of Text, or
\* loses it.
THEOREM Text_Edited == Spec => TextEdited
<1>1. Init => Texts!Init
  <2> SUFFICES ASSUME Init PROVE Shown(doc) = Texts!Fresh
    BY DEF Texts!Init
  <2> QED BY NewFileShows, ShownText DEF Init
<1>2. ASSUME Inv, Next PROVE Texts!Next
  <2>1. PICK a : ShowsText(doc, a)
    BY <1>2 DEF Inv
  <2>2. ~doc.wild /\ Stepped(doc', a)
    BY <2>1, <1>2, NextStepped DEF Inv
  <2>3. Shown(doc) = a /\ a # Texts!Lost
    BY <2>1, <2>2, ShownText
  <2>4. CASE doc' = Wild
    <3>1. Shown(doc)' = Texts!Lost
      <4>1. Shown(Wild) = Texts!Lost
        BY WildShows DEF Shown, Texts!Lost
      <4> QED BY <4>1, <2>4 DEF Shown
    <3> QED BY <2>3, <3>1 DEF Texts!Next
  <2>5. ASSUME NEW b, Texts!Edit(a, b), ShowsText(doc', b), ~doc'.wild
        PROVE  Texts!Next
    <3>1. Shown(doc') = b
      <4>1. ShowsText(doc', b) /\ ~doc'.wild
        BY <2>5, Zenon
      <4> QED BY <4>1, ShownText, Zenon
    <3>2. Shown(doc)' = b
      BY <3>1, Zenon DEF Shown, TextFrom, CharsOf, LineCells
    <3> QED BY <2>3, <2>5, <3>2 DEF Texts!Next
  <2> QED BY <2>2, <2>4, <2>5 DEF Stepped, ShowsEdit
<1>3. UNCHANGED vars => UNCHANGED Shown(doc)
  BY DEF vars, Shown, TextFrom, CharsOf, LineCells
<1>4. Inv /\ [Next]_vars => [Texts!Next]_(Shown(doc))
  BY <1>2, <1>3
<1> QED BY <1>1, <1>4, Invariance, PTL DEF Spec, TextEdited, Texts!Spec

-----------------------------------------------------------------------------
(* The automaton of the keywords.                                          *)

\* The first i elements of t end with s.
EndsAt(s, t, i) == Len(s) <= i /\ \A p \in 1 .. Len(s) : s[p] = t[(i - Len(s)) + p]

LEMMA EndsRoot ==
  ASSUME NEW t, NEW i \in Nat
  PROVE  EndsAt(Root, t, i)
<1>1. Len(Root) = 0
  BY DEF Root
<1> QED BY <1>1 DEF EndsAt

LEMMA EndsChain ==
  ASSUME NEW C, NEW s \in Seq(C), NEW t \in Seq(C), NEW u, NEW i \in Nat,
         EndsAt(s, t, Len(t)), EndsAt(t, u, i)
  PROVE  EndsAt(s, u, i)
<1>1. PICK m \in Nat, n \in Nat : m = Len(s) /\ n = Len(t)
  OBVIOUS
<1>2. m <= n /\ n <= i
  BY <1>1 DEF EndsAt
<1>3. ASSUME NEW p \in 1 .. m PROVE s[p] = u[(i - m) + p]
  <2>1. PICK q : q = (n - m) + p
    OBVIOUS
  <2>2. q \in 1 .. n /\ (i - n) + q = (i - m) + p
    BY <2>1, <1>2
  <2>3. s[p] = t[q] /\ t[q] = u[(i - n) + q]
    BY <2>1, <2>2, <1>1 DEF EndsAt
  <2> QED BY <2>2, <2>3
<1> QED BY <1>1, <1>2, <1>3 DEF EndsAt

LEMMA EndsAppend ==
  ASSUME NEW C, NEW s \in Seq(C), NEW u, NEW i \in Nat, EndsAt(s, u, i), u[i + 1] \in C
  PROVE  EndsAt(Append(s, u[i + 1]), u, i + 1)
<1>1. PICK c \in C : c = u[i + 1]
  OBVIOUS
<1>2. PICK m \in Nat : m = Len(s)
  OBVIOUS
<1> DEFINE t == Append(s, c)
<1>3. /\ Len(t) = m + 1 /\ t[m + 1] = c /\ \A p \in 1 .. m : t[p] = s[p]
  BY <1>2
<1> HIDE DEF t
<1>4. m <= i
  BY <1>2 DEF EndsAt
<1>5. ASSUME NEW p \in 1 .. m + 1 PROVE t[p] = u[((i + 1) - (m + 1)) + p]
  <2>1. CASE p = m + 1
    <3>1. ((i + 1) - (m + 1)) + p = i + 1
      BY <2>1, <1>4
    <3> QED BY <3>1, <2>1, <1>1, <1>3
  <2>2. CASE p # m + 1
    <3>1. p \in 1 .. m /\ ((i + 1) - (m + 1)) + p = (i - m) + p
      BY <2>2, <1>4
    <3>2. s[p] = u[(i - m) + p]
      BY <3>1, <1>2 DEF EndsAt
    <3> QED BY <3>1, <3>2, <1>3
  <2> QED BY <2>1, <2>2
<1>6. Len(t) <= i + 1
  BY <1>3, <1>4
<1> QED BY <1>1, <1>3, <1>5, <1>6 DEF EndsAt, t

LEMMA EndsSub ==
  ASSUME NEW C, NEW s \in Seq(C), NEW u \in Seq(C), NEW i \in 1 .. Len(u), EndsAt(s, u, i),
         Len(s) >= 1
  PROVE  SubSeq(u, i - Len(s) + 1, i) = s
<1>1. PICK m \in Nat, n \in Nat : m = Len(s) /\ n = Len(u)
  OBVIOUS
<1>2. PICK j : j = i - m + 1
  OBVIOUS
<1>3. m <= i /\ m >= 1 /\ i <= n
  BY <1>1 DEF EndsAt
<1>4. j \in 1 .. i /\ j = (i - m) + 1 /\ i + 1 - j = m
  BY <1>2, <1>3
<1>5. /\ SubSeq(u, j, i) \in Seq(C) /\ Len(SubSeq(u, j, i)) = m
      /\ \A p \in 1 .. m : SubSeq(u, j, i)[p] = u[j + p - 1]
  BY <1>1, <1>3, <1>4
<1>6. ASSUME NEW p \in 1 .. m PROVE SubSeq(u, j, i)[p] = s[p]
  <2>1. j + p - 1 = (i - m) + p
    BY <1>4
  <2>2. s[p] = u[(i - m) + p]
    BY <1>1 DEF EndsAt
  <2> QED BY <2>1, <2>2, <1>5
<1>7. SubSeq(u, j, i) = s
  BY <1>1, <1>5, <1>6, SeqEqual
<1> QED BY <1>1, <1>2, <1>7

\* The nodes of a trie: with a node, the one that leads to it.
TrieSet(nodes, C) ==
  /\ nodes \subseteq Seq(C) /\ Root \in nodes
  /\ \A n \in nodes : Len(n) > 1 => Front(n) \in nodes

\* Each link leads to a node that ends the one it starts from.
EndLinks(link, nodes) == link \in [nodes -> nodes] /\ \A n \in nodes : EndsAt(link[n], n, Len(n))

LEMMA FrontLast ==
  ASSUME NEW C, NEW n \in Seq(C), Len(n) > 1
  PROVE  /\ Front(n) \in Seq(C) /\ Len(Front(n)) = Len(n) - 1
         /\ \A p \in 1 .. Len(n) - 1 : Front(n)[p] = n[p]
         /\ Last(n) = n[Len(n)] /\ Last(n) \in C
<1>0. Len(n) - 1 \in Nat /\ Len(n) - 1 <= Len(n)
  <2>1. PICK x \in Nat : x = Len(n)
    OBVIOUS
  <2>2. x - 1 \in Nat /\ x - 1 <= x
    BY <2>1
  <2> QED BY <2>1, <2>2
<1>1. PICK m \in Nat : m = Len(n) - 1 /\ m <= Len(n)
  BY <1>0
<1>2. /\ SubSeq(n, 1, m) \in Seq(C) /\ Len(SubSeq(n, 1, m)) = m
      /\ \A p \in 1 .. m : SubSeq(n, 1, m)[p] = n[p]
  BY <1>1
<1>3. Last(n) = n[Len(n)] /\ Last(n) \in C
  BY DEF Last
<1> QED BY <1>1, <1>2, <1>3 DEF Front

LEMMA ContinuedEnds ==
  ASSUME NEW C, NEW nodes, TrieSet(nodes, C), NEW link, EndLinks(link, nodes), NEW n \in nodes
  PROVE  /\ Continued(nodes, link, n) \in nodes
         /\ EndsAt(Continued(nodes, link, n), n, Len(n))
<1> DEFINE Back == [m \in nodes |-> IF m = Root \/ Append(m, Last(n)) \in nodes THEN m ELSE link[m]]
           Body(w) == [k \in Nat |-> IF k = 0 THEN link[Front(n)] ELSE Back[w[k - 1]]]
           chemin == CHOOSE w : w = Body(w)
           m == Append(chemin[Len(n)], Last(n))
           F == [x \in Nat \X nodes |-> Back[x[2]]]
<1>0. /\ nodes \subseteq Seq(C) /\ Root \in nodes /\ n \in Seq(C) /\ Len(n) \in Nat
      /\ link \in [nodes -> nodes] /\ \A x \in nodes : EndsAt(link[x], x, Len(x))
  BY DEF TrieSet, EndLinks
<1>1. Continued(nodes, link, n) = IF Len(n) > 1 /\ m \in nodes THEN m ELSE Root
  BY DEF Continued
<1>2. EndsAt(Root, n, Len(n))
  BY <1>0, EndsRoot
<1> SUFFICES ASSUME Len(n) > 1 PROVE EndsAt(m, n, Len(n))
  <2> HIDE DEF m
  <2> QED BY <1>0, <1>1, <1>2
<1>3. PICK f \in nodes : f = Front(n)
  BY DEF TrieSet
<1>4. PICK c : c = Last(n)
  OBVIOUS
<1>5. /\ f \in Seq(C) /\ Len(f) = Len(n) - 1 /\ \A p \in 1 .. Len(n) - 1 : f[p] = n[p]
      /\ c = n[Len(n)] /\ c \in C
  BY <1>0, <1>3, <1>4, FrontLast
<1>6. ASSUME NEW x \in nodes PROVE Back[x] \in nodes /\ EndsAt(Back[x], x, Len(x))
  <2>1. Back[x] \in {x, link[x]} /\ link[x] \in nodes
    BY <1>0
  <2>2. EndsAt(x, x, Len(x))
    <3>1. x \in Seq(C)
      BY <1>0
    <3>2. PICK y \in Nat : y = Len(x)
      BY <3>1
    <3>3. \A p \in 1 .. y : (y - y) + p = p
      OBVIOUS
    <3> QED BY <3>2, <3>3 DEF EndsAt
  <2> HIDE DEF Back
  <2> QED BY <2>1, <2>2, <1>0
<1> HIDE DEF Back
<1>7. \A k \in Nat : \A x \in nodes : F[<<k, x>>] = Back[x] /\ F[<<k, x>>] \in nodes
  BY <1>6
<1>8. Steps(nodes, F)
  <2> HIDE DEF F
  <2> QED BY <1>7 DEF Steps
<1>9. PICK g \in [Nat -> nodes] : g[0] = link[f] /\ \A k \in Nat : g[k + 1] = F[<<k + 1, g[k]>>]
  <2> DEFINE s == link[f]
  <2>1. s \in nodes
    BY <1>0
  <2> HIDE DEF F, s
  <2>2. \E g \in [Nat -> nodes] : g[0] = s /\ \A k \in Nat : g[k + 1] = F[<<k + 1, g[k]>>]
    BY <2>1, <1>8, RecursionExists
  <2> QED BY <2>2 DEF s
<1>10. g = Body(g)
  <2>1. ASSUME NEW k \in Nat PROVE g[k] = IF k = 0 THEN link[f] ELSE Back[g[k - 1]]
    <3>1. CASE k = 0
      BY <3>1, <1>9
    <3>2. CASE k # 0
      <4>1. k - 1 \in Nat /\ (k - 1) + 1 = k
        BY <3>2
      <4>2. g[k - 1] \in nodes /\ g[k] = F[<<k, g[k - 1]>>]
        <5> HIDE DEF F
        <5> QED BY <4>1, <1>9
      <4>3. F[<<k, g[k - 1]>>] = Back[g[k - 1]]
        <5> HIDE DEF F
        <5> QED BY <4>2, <1>7
      <4> QED BY <4>2, <4>3, <3>2
    <3> QED BY <3>1, <3>2
  <2> QED BY <2>1, <1>3
<1>11. chemin = Body(chemin)
  <2> DEFINE Rec(w) == w = Body(w)
  <2>1. Rec(g)
    BY <1>10
  <2>2. chemin = CHOOSE w : Rec(w)
    OBVIOUS
  <2>3. Rec(CHOOSE w : Rec(w))
    <3> HIDE DEF Rec
    <3> QED BY <2>1
  <2>4. Rec(chemin)
    <3> HIDE DEF chemin, Rec
    <3> QED BY <2>2, <2>3
  <2> HIDE DEF chemin, Body
  <2> QED BY <2>4
<1> HIDE DEF chemin, F
<1>12. ASSUME NEW k \in Nat PROVE chemin[k] = IF k = 0 THEN link[f] ELSE Back[chemin[k - 1]]
  BY <1>3, <1>11
<1> DEFINE Good == {k \in Nat : chemin[k] \in nodes /\ EndsAt(chemin[k], f, Len(f))}
<1>13. 0 \in Good
  BY <1>0, <1>12
<1>14. ASSUME NEW k \in Nat, k \in Good PROVE k + 1 \in Good
  <2>1. k + 1 \in Nat /\ k + 1 # 0 /\ (k + 1) - 1 = k
    OBVIOUS
  <2>2. PICK x \in nodes : x = chemin[k] /\ EndsAt(x, f, Len(f))
    BY <1>14
  <2>3. chemin[k + 1] = Back[x]
    BY <2>1, <2>2, <1>12
  <2>4. Back[x] \in nodes /\ EndsAt(Back[x], x, Len(x))
    BY <1>6
  <2>5. Back[x] \in Seq(C) /\ x \in Seq(C) /\ Len(f) \in Nat
    <3>1. PICK y \in nodes : y = Back[x]
      BY <2>4
    <3>2. y \in Seq(C) /\ x \in Seq(C)
      BY <1>0
    <3>3. Len(f) \in Nat
      BY <1>5
    <3> QED BY <3>1, <3>2, <3>3
  <2>6. EndsAt(Back[x], f, Len(f))
    BY <2>2, <2>4, <2>5, EndsChain
  <2> QED BY <2>1, <2>3, <2>4, <2>6
<1>15. Len(n) \in Good
  <2> HIDE DEF Good
  <2> QED BY <1>0, <1>13, <1>14, SetInduction
<1>16. PICK x \in nodes : x = chemin[Len(n)] /\ EndsAt(x, f, Len(f))
  BY <1>15
<1>17. PICK i \in Nat : i = Len(n) - 1 /\ i + 1 = Len(n) /\ Len(f) = i
  BY <1>0, <1>5
<1>18. EndsAt(x, n, i)
  <2>1. x \in Seq(C) /\ Len(x) \in Nat
    BY <1>0
  <2>2. \A p \in 1 .. Len(x) : (i - Len(x)) + p \in 1 .. i
    BY <2>1, <1>16, <1>17 DEF EndsAt
  <2>3. \A q \in 1 .. i : f[q] = n[q]
    BY <1>5, <1>17
  <2> QED BY <2>2, <2>3, <1>16, <1>17 DEF EndsAt
<1>19. x \in Seq(C) /\ n[i + 1] = c /\ n[i + 1] \in C
  BY <1>0, <1>5, <1>17
<1>20. EndsAt(Append(x, n[i + 1]), n, i + 1)
  BY <1>18, <1>19, EndsAppend
<1> QED BY <1>4, <1>16, <1>17, <1>19, <1>20

LEMMA MaxIn ==
  ASSUME NEW S \in SUBSET Nat, S # {}, NEW B \in Nat, \A x \in S : x <= B
  PROVE  Max(S) \in Nat
<1> DEFINE T == {B - x : x \in S}
<1>1. T \in SUBSET Nat /\ T # {}
  <2>1. \A x \in S : B - x \in Nat
    OBVIOUS
  <2>2. PICK x : x \in S
    OBVIOUS
  <2>3. B - x \in T
    BY <2>2
  <2>4. T \subseteq Nat
    <3> SUFFICES ASSUME NEW y \in S PROVE B - y \in Nat
      OBVIOUS
    <3> QED BY <2>1
  <2> QED BY <2>3, <2>4
<1>2. PICK m \in T : \A y \in T : m <= y
  BY <1>1, MinIn
<1>3. PICK x \in S : m = B - x
  BY <1>2
<1>4. \A y \in S : x >= y
  <2>1. ASSUME NEW y \in S PROVE x >= y
    <3>1. B - y \in T
      OBVIOUS
    <3>2. m <= B - y
      BY <1>2, <3>1
    <3> QED BY <1>3, <3>2
  <2> QED BY <2>1
<1>5. \E y \in S : \A z \in S : y >= z
  BY <1>4
<1> QED BY <1>5 DEF Max

\* What the automaton of patterns over C is made from.
Patterns(patterns, C, B) ==
  /\ patterns \in Seq(Seq(C)) /\ Len(patterns) >= 1
  /\ \A i \in 1 .. Len(patterns) : Len(patterns[i]) <= B

LEMMA TrieIs ==
  ASSUME NEW C, NEW B \in Nat, NEW patterns, Patterns(patterns, C, B)
  PROVE  /\ TrieSet(TrieNodes(patterns), C)
         /\ \A n \in TrieNodes(patterns) : Len(n) <= B
         /\ Leaves(patterns) \subseteq ToSet(patterns) \cap TrieNodes(patterns)
<1> DEFINE N == TrieNodes(patterns)
           P == ToSet(patterns)
<1>1. P = {patterns[i] : i \in 1 .. Len(patterns)} /\ P # {}
  BY DEF ToSet, Patterns
<1>2. ASSUME NEW p \in P PROVE p \in Seq(C) /\ Len(p) \in Nat /\ Len(p) <= B
  <2>1. PICK i \in 1 .. Len(patterns) : p = patterns[i]
    BY <1>1
  <2>2. p \in Seq(C) /\ Len(p) <= B
    BY <2>1 DEF Patterns
  <2> QED BY <2>2
<1> HIDE DEF P
<1>3. ASSUME NEW p \in P, NEW n \in 0 .. Len(p)
      PROVE  /\ SubSeq(p, 1, n) \in Seq(C) /\ Len(SubSeq(p, 1, n)) = n
             /\ \A q \in 1 .. n : SubSeq(p, 1, n)[q] = p[q]
  BY <1>2
<1>4. N = UNION {{SubSeq(p, 1, n) : n \in 0 .. Len(p)} : p \in P}
  BY DEF TrieNodes, P
<1>5. \A x \in N : \E p \in P : \E n \in 0 .. Len(p) : x = SubSeq(p, 1, n)
  BY <1>4
<1>6. \A p \in P : \A n \in 0 .. Len(p) : SubSeq(p, 1, n) \in N
  BY <1>4
<1> HIDE DEF N
<1>7. N \subseteq Seq(C) /\ \A n \in N : Len(n) <= B
  <2>1. ASSUME NEW x \in N PROVE x \in Seq(C) /\ Len(x) <= B
    <3>0. PICK p \in P : \E n \in 0 .. Len(p) : x = SubSeq(p, 1, n)
      BY <1>5
    <3>1. PICK n \in 0 .. Len(p) : x = SubSeq(p, 1, n)
      BY <3>0
    <3>2. x \in Seq(C) /\ Len(x) = n /\ n <= Len(p) /\ Len(p) <= B /\ Len(p) \in Nat
      BY <3>1, <1>2, <1>3
    <3> QED BY <3>2
  <2> QED BY <2>1
<1>8. Root \in N
  <2>1. PICK p \in P : p = p
    BY <1>1 DEF P
  <2>2. 0 \in 0 .. Len(p)
    BY <1>2
  <2>3. SubSeq(p, 1, 0) = Root
    <3>1. SubSeq(p, 1, 0) \in Seq(C) /\ Len(SubSeq(p, 1, 0)) = 0
      BY <2>2, <1>3
    <3> QED BY <3>1 DEF Root
  <2> QED BY <2>2, <2>3, <1>6
<1>9. ASSUME NEW x \in N, Len(x) > 1 PROVE Front(x) \in N
  <2>0. PICK p \in P : \E n \in 0 .. Len(p) : x = SubSeq(p, 1, n)
    BY <1>5
  <2>1. PICK n \in 0 .. Len(p) : x = SubSeq(p, 1, n)
    BY <2>0
  <2>2. PICK m : m = n - 1
    OBVIOUS
  <2>3. /\ Len(x) = n /\ x \in Seq(C) /\ n \in Nat /\ Len(p) \in Nat /\ n <= Len(p)
        /\ \A q \in 1 .. n : x[q] = p[q]
    BY <2>1, <1>2, <1>3
  <2>4. m \in 0 .. Len(p) /\ m \in Nat /\ m <= n
    BY <2>2, <2>3, <1>9
  <2>5. /\ Front(x) \in Seq(C) /\ Len(Front(x)) = m
        /\ \A q \in 1 .. m : Front(x)[q] = x[q]
    <3>1. Len(x) > 1 /\ Len(x) - 1 = m
      BY <1>9, <2>2, <2>3
    <3> QED BY <3>1, <2>3, FrontLast
  <2>6. /\ SubSeq(p, 1, m) \in Seq(C) /\ Len(SubSeq(p, 1, m)) = m
        /\ \A q \in 1 .. m : SubSeq(p, 1, m)[q] = p[q]
    BY <2>4, <1>3
  <2>7. \A q \in 1 .. m : Front(x)[q] = SubSeq(p, 1, m)[q]
    BY <2>3, <2>4, <2>5, <2>6
  <2>8. Front(x) = SubSeq(p, 1, m)
    <3> DEFINE u == Front(x)
               v == SubSeq(p, 1, m)
    <3>1. u \in Seq(C) /\ v \in Seq(C) /\ Len(u) = Len(v) /\ \A q \in 1 .. Len(u) : u[q] = v[q]
      BY <2>5, <2>6, <2>7
    <3> HIDE DEF u, v
    <3>2. u = v
      BY <3>1, SeqEqual
    <3> QED BY <3>2 DEF u, v
  <2> QED BY <2>4, <2>8, <1>6
<1>10. TrieSet(N, C)
  BY <1>7, <1>8, <1>9 DEF TrieSet
<1>11. Leaves(patterns) \subseteq P
  BY DEF Leaves, P
<1>12. P \subseteq N
  <2>1. ASSUME NEW p \in P PROVE p \in N
    <3>1. PICK m \in Nat : m = Len(p)
      BY <1>2
    <3>2. SubSeq(p, 1, m) = p
      BY <3>1, <1>2
    <3>3. m \in 0 .. Len(p)
      BY <3>1
    <3> QED BY <3>1, <3>2, <3>3, <1>6
  <2> QED BY <2>1
<1> QED BY <1>7, <1>10, <1>11, <1>12 DEF N, P

\* The links of the nodes of length d, from those of the shorter ones.
LevelOf(nodes) ==
  [d \in Nat |-> [link \in [nodes -> nodes] |->
     [n \in nodes |-> IF Len(n) = d THEN Continued(nodes, link, n) ELSE link[n]]]]

LEMMA LevelEnds ==
  ASSUME NEW C, NEW nodes, TrieSet(nodes, C), NEW link, EndLinks(link, nodes), NEW d \in Nat
  PROVE  EndLinks(LevelOf(nodes)[d][link], nodes)
<1>1. link \in [nodes -> nodes] /\ \A n \in nodes : EndsAt(link[n], n, Len(n))
  BY DEF EndLinks
<1>2. LevelOf(nodes)[d][link] =
        [n \in nodes |-> IF Len(n) = d THEN Continued(nodes, link, n) ELSE link[n]]
  BY <1>1 DEF LevelOf
<1>3. ASSUME NEW n \in nodes
      PROVE  LET m == IF Len(n) = d THEN Continued(nodes, link, n) ELSE link[n]
             IN m \in nodes /\ EndsAt(m, n, Len(n))
  BY <1>1, ContinuedEnds
<1> QED BY <1>2, <1>3 DEF EndLinks

LEMMA LinksEnd ==
  ASSUME NEW C, NEW B \in Nat, NEW patterns, Patterns(patterns, C, B)
  PROVE  EndLinks(FailLinks(patterns), TrieNodes(patterns))
<1> DEFINE nodes == TrieNodes(patterns)
           S == {link \in [nodes -> nodes] : EndLinks(link, nodes)}
           none == [n \in nodes |-> Root]
           Level == LevelOf(nodes)
           Body(w) == [d \in Nat |-> IF d = 0 THEN none ELSE Level[d][w[d - 1]]]
           links == CHOOSE w : w = Body(w)
           F == [x \in Nat \X S |-> Level[x[1]][x[2]]]
<1>1. /\ TrieSet(nodes, C) /\ nodes \subseteq Seq(C) /\ Root \in nodes
      /\ \A n \in nodes : Len(n) <= B
  BY TrieIs DEF TrieSet
<1>2. FailLinks(patterns) = links[Max({Len(n) : n \in nodes})]
  BY DEF FailLinks, LevelOf
<1>3. none \in S
  <2>1. \A n \in nodes : EndsAt(Root, n, Len(n))
    <3> SUFFICES ASSUME NEW n \in nodes PROVE EndsAt(Root, n, Len(n))
      OBVIOUS
    <3>1. Len(n) \in Nat
      BY <1>1
    <3> QED BY <3>1, EndsRoot
  <2>2. none \in [nodes -> nodes] /\ \A n \in nodes : none[n] = Root
    BY <1>1
  <2> HIDE DEF none, nodes
  <2> QED BY <2>1, <2>2 DEF EndLinks
<1> HIDE DEF nodes, none
<1>4. \A d \in Nat : \A x \in S : Level[d][x] \in S
  <2> SUFFICES ASSUME NEW d \in Nat, NEW x \in S PROVE Level[d][x] \in S
    OBVIOUS
  <2>1. EndLinks(x, nodes)
    OBVIOUS
  <2>2. EndLinks(Level[d][x], nodes)
    BY <1>1, <2>1, LevelEnds
  <2> HIDE DEF Level
  <2> QED BY <2>2 DEF EndLinks
<1> HIDE DEF Level, S
<1>5. \A d \in Nat : \A x \in S : F[<<d, x>>] = Level[d][x] /\ F[<<d, x>>] \in S
  BY <1>4
<1> HIDE DEF F
<1>6. Steps(S, F)
  BY <1>5 DEF Steps
<1>7. PICK g \in [Nat -> S] : g[0] = none /\ \A d \in Nat : g[d + 1] = F[<<d + 1, g[d]>>]
  BY <1>3, <1>6, RecursionExists
<1>8. g = Body(g)
  <2>1. ASSUME NEW d \in Nat PROVE g[d] = IF d = 0 THEN none ELSE Level[d][g[d - 1]]
    <3>1. CASE d = 0
      BY <3>1, <1>7
    <3>2. CASE d # 0
      <4>1. d - 1 \in Nat /\ (d - 1) + 1 = d
        BY <3>2
      <4>2. g[d - 1] \in S /\ g[d] = F[<<d, g[d - 1]>>]
        BY <4>1, <1>7
      <4>3. F[<<d, g[d - 1]>>] = Level[d][g[d - 1]]
        BY <4>2, <1>5
      <4> QED BY <4>2, <4>3, <3>2
    <3> QED BY <3>1, <3>2
  <2> QED BY <2>1, <1>7
<1>9. links = Body(links)
  <2> DEFINE Rec(w) == w = Body(w)
  <2>1. Rec(g)
    BY <1>8
  <2>2. links = CHOOSE w : Rec(w)
    OBVIOUS
  <2>3. Rec(CHOOSE w : Rec(w))
    <3> HIDE DEF Rec
    <3> QED BY <2>1
  <2>4. Rec(links)
    <3> HIDE DEF links, Rec
    <3> QED BY <2>2, <2>3
  <2> HIDE DEF links, Body
  <2> QED BY <2>4
<1> HIDE DEF links
<1>10. ASSUME NEW d \in Nat PROVE links[d] = IF d = 0 THEN none ELSE Level[d][links[d - 1]]
  BY <1>9
<1> DEFINE Good == {d \in Nat : links[d] \in S}
<1>11. 0 \in Good
  BY <1>3, <1>10
<1>12. ASSUME NEW d \in Nat, d \in Good PROVE d + 1 \in Good
  <2>1. d + 1 \in Nat /\ d + 1 # 0 /\ (d + 1) - 1 = d
    OBVIOUS
  <2>2. links[d + 1] = Level[d + 1][links[d]] /\ links[d] \in S
    BY <2>1, <1>10, <1>12
  <2>3. links[d + 1] \in S
    BY <2>1, <2>2, <1>4
  <2> QED BY <2>1, <2>3
<1>13. Nat \subseteq Good
  <2> HIDE DEF Good
  <2> QED BY <1>11, <1>12, SetInduction
<1>14. Max({Len(n) : n \in nodes}) \in Nat
  <2> DEFINE L == {Len(n) : n \in nodes}
  <2>1. L \in SUBSET Nat /\ L # {} /\ \A x \in L : x <= B
    <3>1. \A n \in nodes : Len(n) \in Nat
      BY <1>1
    <3> QED BY <3>1, <1>1
  <2> HIDE DEF L
  <2>2. Max(L) \in Nat
    BY <2>1, MaxIn
  <2> QED BY <2>2 DEF L
<1>15. FailLinks(patterns) \in S
  BY <1>2, <1>13, <1>14
<1> QED BY <1>15 DEF S, nodes

\* One link is not enough for c, after it.
DropsAt(trie, it, c) ==
  /\ Append(it, c) \notin trie.nodes
  /\ trie.fail[it] # Root
  /\ Append(trie.fail[it], c) \notin trie.nodes

Places(trie) == [it : trie.nodes, found : Nat]

\* The word that a character ends, and what the node after it ends.
AddsTo(trie, it, text, i, r) ==
  /\ r \in Places(trie)
  /\ r.found > 0 => Append(it, text[i]) \in trie.leaves /\ r.found = Len(Append(it, text[i]))
  /\ EndsAt(it, text, i - 1) /\ ~DropsAt(trie, it, text[i]) => EndsAt(r.it, text, i)

\* What the automaton of patterns over C is.
Trie(trie, C) ==
  /\ TrieSet(trie.nodes, C) /\ EndLinks(trie.fail, trie.nodes)
  /\ trie.leaves \subseteq trie.words \cap trie.nodes

LEMMA TrieBuilt ==
  ASSUME NEW C, NEW B \in Nat, NEW patterns, Patterns(patterns, C, B)
  PROVE  Trie(build_trie(patterns), C)
BY TrieIs, LinksEnd DEF Trie, build_trie

LEMMA AddCharIs ==
  ASSUME NEW C, NEW trie, Trie(trie, C), NEW it \in trie.nodes,
         NEW text \in Seq(C), NEW i \in 1 .. Len(text)
  PROVE  AddsTo(trie, it, text, i, add_char(trie, it, text[i]))
<1> DEFINE nodes == trie.nodes
           fail == trie.fail
           leaves == trie.leaves
<1>1. PICK c \in C : c = text[i]
  OBVIOUS
<1>2. PICK j \in Nat : j + 1 = i /\ i - 1 = j
  <2>1. i - 1 \in Nat /\ (i - 1) + 1 = i
    OBVIOUS
  <2> QED BY <2>1
<1>3. PICK next : next = Append(it, c)
  OBVIOUS
<1>4. PICK back : back = Append(fail[it], c)
  OBVIOUS
<1>5. PICK r : r = add_char(trie, it, c)
  OBVIOUS
<1>6. /\ nodes \subseteq Seq(C) /\ Root \in nodes /\ it \in nodes /\ it \in Seq(C)
      /\ leaves \subseteq nodes
      /\ fail \in [nodes -> nodes] /\ fail[it] \in nodes /\ EndsAt(fail[it], it, Len(it))
  BY DEF Trie, TrieSet, EndLinks
<1>7. r = CASE next \in leaves -> [it |-> Root, found |-> Len(next)]
            [] next \in nodes \ leaves -> [it |-> next, found |-> 0]
            [] next \notin nodes ->
                 [it |-> IF back \in nodes THEN back ELSE fail[it], found |-> 0]
  BY <1>3, <1>4, <1>5 DEF add_char
<1>8. \A s \in nodes : EndsAt(s, text, j) => EndsAt(Append(s, c), text, i)
  <2> SUFFICES ASSUME NEW s \in nodes, EndsAt(s, text, j) PROVE EndsAt(Append(s, c), text, i)
    OBVIOUS
  <2>1. s \in Seq(C) /\ text[j + 1] \in C
    BY <1>1, <1>2, <1>6
  <2>2. EndsAt(Append(s, text[j + 1]), text, j + 1)
    BY <2>1, EndsAppend
  <2> QED BY <2>2, <1>1, <1>2
<1>9. EndsAt(it, text, j) => EndsAt(fail[it], text, j)
  <2> SUFFICES ASSUME EndsAt(it, text, j) PROVE EndsAt(fail[it], text, j)
    OBVIOUS
  <2>1. PICK s \in nodes : s = fail[it]
    BY <1>6
  <2>2. s \in Seq(C) /\ EndsAt(s, it, Len(it))
    BY <2>1, <1>6
  <2>3. EndsAt(s, text, j)
    BY <2>2, <1>6, EndsChain
  <2> QED BY <2>1, <2>3
<1>10. EndsAt(Root, text, i)
  <2>1. i \in Nat
    OBVIOUS
  <2> QED BY <2>1, EndsRoot
<1>11. Len(next) \in Nat
  BY <1>3, <1>6
<1>12. DropsAt(trie, it, c) <=> next \notin nodes /\ fail[it] # Root /\ back \notin nodes
  BY <1>3, <1>4 DEF DropsAt
<1>13. \A s : AddsTo(trie, it, text, i, s) <=>
         /\ s \in Places(trie)
         /\ s.found > 0 => next \in leaves /\ s.found = Len(next)
         /\ EndsAt(it, text, j) /\ ~DropsAt(trie, it, c) => EndsAt(s.it, text, i)
  BY <1>1, <1>2, <1>3 DEF AddsTo
<1>14. Places(trie) = [it : nodes, found : Nat]
  BY DEF Places
<1>15. next = Append(it, c) /\ back = Append(fail[it], c)
  BY <1>3, <1>4
<1> HIDE DEF nodes, fail, leaves
<1>16. CASE next \in leaves
  <2>1. r = [it |-> Root, found |-> Len(next)]
    BY <1>16, <1>7, <1>6
  <2> QED BY <2>1, <1>16, <1>6, <1>10, <1>11, <1>13, <1>14, <1>1, <1>5
<1>17. CASE next \in nodes \ leaves
  <2>1. r = [it |-> next, found |-> 0]
    BY <1>17, <1>7, <1>6
  <2>2. EndsAt(it, text, j) => EndsAt(next, text, i)
    BY <1>6, <1>8, <1>15
  <2> QED BY <2>1, <2>2, <1>17, <1>13, <1>14, <1>1, <1>5
<1>18. CASE next \notin nodes
  <2>1. r = [it |-> IF back \in nodes THEN back ELSE fail[it], found |-> 0]
    BY <1>18, <1>7, <1>6
  <2>2. EndsAt(it, text, j) => EndsAt(back, text, i)
    BY <1>6, <1>8, <1>9, <1>15
  <2>3. r \in Places(trie) /\ r.found = 0
    BY <2>1, <1>6, <1>14
  <2>4. EndsAt(it, text, j) /\ ~DropsAt(trie, it, c) => EndsAt(r.it, text, i)
    <3>1. CASE back \in nodes
      BY <3>1, <2>1, <2>2
    <3>2. CASE back \notin nodes
      BY <3>2, <2>1, <1>10, <1>12, <1>18
    <3> QED BY <3>1, <3>2
  <2> QED BY <2>3, <2>4, <1>13, <1>1, <1>5
<1> QED BY <1>16, <1>17, <1>18

\* The scan, with the root before the text.
Scanned(g, trie, text) ==
  /\ g \in [0 .. Len(text) -> Places(trie)] /\ g[0] = [it |-> Root, found |-> 0]
  /\ \A i \in 1 .. Len(text) : g[i] = add_char(trie, g[i - 1].it, text[i])

LEMMA ScanIs ==
  ASSUME NEW C, NEW trie, Trie(trie, C), NEW text \in Seq(C)
  PROVE  \E g : Scanned(g, trie, text) /\ Scan(trie, text) = [i \in DOMAIN text |-> g[i]]
<1> DEFINE N == Len(text)
           S == Places(trie)
           start == [it |-> Root, found |-> 0]
           Step == [i \in DOMAIN text |-> [it \in trie.nodes |-> add_char(trie, it, text[i])]]
           Body(w) == [i \in 0 .. Len(text) |->
                         IF i = 0 THEN [it |-> Root, found |-> 0] ELSE Step[i][w[i - 1].it]]
           after == CHOOSE w : w = Body(w)
           F == [x \in (1 .. N) \X S |-> Step[x[1]][x[2].it]]
<1>1. N \in Nat /\ DOMAIN text = 1 .. N
  OBVIOUS
<1>2. Scan(trie, text) = [i \in DOMAIN text |-> after[i]]
  BY DEF Scan
<1>3. start \in S
  BY DEF Places, Trie, TrieSet
<1>4. \A i \in 1 .. N : \A r \in S : Step[i][r.it] = add_char(trie, r.it, text[i])
  BY <1>1 DEF Places
<1>5. \A i \in 1 .. N : \A r \in S : Step[i][r.it] \in S
  <2> SUFFICES ASSUME NEW i \in 1 .. N, NEW r \in S PROVE Step[i][r.it] \in S
    OBVIOUS
  <2>1. PICK x \in trie.nodes : x = r.it
    BY DEF Places
  <2>2. PICK e : e = add_char(trie, x, text[i])
    OBVIOUS
  <2>3. Step[i][r.it] = e
    BY <2>1, <2>2, <1>4
  <2>4. AddsTo(trie, x, text, i, e)
    BY <2>2, AddCharIs
  <2> HIDE DEF Step
  <2> QED BY <2>3, <2>4 DEF AddsTo
<1>20. start = [it |-> Root, found |-> 0] /\ N = Len(text) /\ S = Places(trie)
  OBVIOUS
<1> HIDE DEF Step, S, N, start
<1>6. \A i \in 1 .. N : \A r \in S : F[<<i, r>>] = Step[i][r.it] /\ F[<<i, r>>] \in S
  BY <1>5
<1> HIDE DEF F
<1>7. Loops(S, N, F)
  BY <1>6 DEF Loops
<1>8. PICK g \in [0 .. N -> S] : g[0] = start /\ \A k \in 1 .. N : g[k] = F[<<k, g[k - 1]>>]
  BY <1>1, <1>3, <1>7, LoopExists
<1>9. \A i \in 1 .. N : i - 1 \in 0 .. N /\ g[i - 1] \in S /\ g[i] = Step[i][g[i - 1].it]
  <2> SUFFICES ASSUME NEW i \in 1 .. N
               PROVE  i - 1 \in 0 .. N /\ g[i - 1] \in S /\ g[i] = Step[i][g[i - 1].it]
    OBVIOUS
  <2>1. i - 1 \in 0 .. N
    BY <1>1
  <2>2. g[i - 1] \in S /\ g[i] = F[<<i, g[i - 1]>>]
    BY <2>1, <1>8
  <2> QED BY <2>1, <2>2, <1>6
<1>10. g = Body(g)
  <2>1. ASSUME NEW i \in 0 .. N PROVE g[i] = IF i = 0 THEN start ELSE Step[i][g[i - 1].it]
    <3>1. CASE i = 0
      BY <3>1, <1>8
    <3>2. CASE i # 0
      <4>1. i \in 1 .. N
        BY <3>2, <1>1
      <4> QED BY <4>1, <3>2, <1>9
    <3> QED BY <3>1, <3>2
  <2> QED BY <2>1, <1>8, <1>20
<1>11. after = Body(after)
  <2> DEFINE Rec(w) == w = Body(w)
  <2>1. Rec(g)
    BY <1>10
  <2>2. after = CHOOSE w : Rec(w)
    OBVIOUS
  <2>3. Rec(CHOOSE w : Rec(w))
    <3> HIDE DEF Rec
    <3> QED BY <2>1
  <2>4. Rec(after)
    <3> HIDE DEF after, Rec
    <3> QED BY <2>2, <2>3
  <2> HIDE DEF after, Body
  <2> QED BY <2>4
<1> HIDE DEF after
<1>12. /\ after[0] = start
       /\ \A i \in 1 .. N : after[i] = Step[i][after[i - 1].it]
  <2>1. \A i \in 0 .. N : after[i] = IF i = 0 THEN start ELSE Step[i][after[i - 1].it]
    BY <1>11, <1>20
  <2>2. 0 \in 0 .. N
    BY <1>1
  <2>3. \A i \in 1 .. N : i \in 0 .. N /\ i # 0
    BY <1>1
  <2> QED BY <2>1, <2>2, <2>3
<1> DEFINE Same == {i \in Nat : i <= N => after[i] = g[i]}
<1>13. 0 \in Same
  BY <1>8, <1>12
<1>14. ASSUME NEW i \in Nat, i \in Same PROVE i + 1 \in Same
  <2> SUFFICES ASSUME i + 1 <= N PROVE after[i + 1] = g[i + 1]
    OBVIOUS
  <2>1. PICK j \in 1 .. N : j = i + 1 /\ j - 1 = i
    BY <1>1
  <2>2. after[i] = g[i]
    BY <1>1, <1>14
  <2> QED BY <2>1, <2>2, <1>9, <1>12
<1>15. \A i \in 1 .. N : after[i] = g[i]
  <2>1. Nat \subseteq Same
    <3> HIDE DEF Same
    <3> QED BY <1>13, <1>14, SetInduction
  <2> QED BY <2>1, <1>1
<1>16. Scan(trie, text) = [i \in DOMAIN text |-> g[i]]
  BY <1>1, <1>2, <1>15
<1>17. \A i \in 1 .. N : g[i] = add_char(trie, g[i - 1].it, text[i])
  BY <1>4, <1>9
<1>18. Scanned(g, trie, text)
  BY <1>8, <1>17, <1>20 DEF Scanned
<1> QED BY <1>16, <1>18

\* A stretch that the scan colours is a word, if no character before it was dropped.
LEMMA ScanWords ==
  ASSUME NEW C, NEW trie, Trie(trie, C), NEW text \in Seq(C)
  PROVE  LET scan == Scan(trie, text)
         IN \A w \in Coloured(scan) :
              \/ SubSeq(text, w[1] - w[2] + 1, w[1]) \in trie.words
              \/ \E i \in Dropped(trie, scan, text) : i < w[1]
<1> DEFINE scan == Scan(trie, text)
           N == Len(text)
           dropped == Dropped(trie, scan, text)
<1>1. PICK g : Scanned(g, trie, text) /\ scan = [i \in DOMAIN text |-> g[i]]
  BY ScanIs
<1>2. N \in Nat /\ DOMAIN text = 1 .. N
  OBVIOUS
<1>3. /\ g[0] = [it |-> Root, found |-> 0] /\ DOMAIN scan = 1 .. N
      /\ \A i \in 1 .. N : scan[i] = g[i]
      /\ \A i \in 0 .. N : g[i] \in Places(trie)
  BY <1>1, <1>2 DEF Scanned
<1>4. ASSUME NEW i \in 1 .. N
      PROVE  /\ i - 1 \in 0 .. N /\ g[i - 1].it \in trie.nodes
             /\ AddsTo(trie, g[i - 1].it, text, i, g[i])
             /\ i \in dropped <=> DropsAt(trie, g[i - 1].it, text[i])
  <2>1. PICK j \in 0 .. N : j = i - 1
    BY <1>2
  <2>2. PICK x \in trie.nodes : x = g[j].it
    BY <1>3 DEF Places
  <2>3. g[i] = add_char(trie, x, text[i])
    BY <2>1, <2>2, <1>1 DEF Scanned
  <2>4. AddsTo(trie, x, text, i, g[i])
    BY <2>3, AddCharIs
  <2>5. (IF i = 1 THEN Root ELSE scan[i - 1].it) = x
    <3>1. CASE i = 1
      BY <3>1, <2>1, <2>2, <1>3
    <3>2. CASE i # 1
      <4>1. j \in 1 .. N
        BY <3>2, <2>1
      <4>2. scan[j] = g[j]
        BY <4>1, <1>3
      <4> HIDE DEF scan
      <4> QED BY <4>2, <3>2, <2>1, <2>2
    <3> QED BY <3>1, <3>2
  <2>6. i \in dropped <=> DropsAt(trie, x, text[i])
    <3> HIDE DEF scan
    <3> QED BY <1>2, <2>5 DEF Dropped, DropsAt
  <2> HIDE DEF dropped
  <2> QED BY <2>1, <2>2, <2>4, <2>6
<1> HIDE DEF dropped, scan
<1> DEFINE Good == {i \in Nat : i <= N /\ (\A j \in dropped : j > i) => EndsAt(g[i].it, text, i)}
<1>5. 0 \in Good
  <2>1. EndsAt(Root, text, 0)
    BY EndsRoot
  <2> QED BY <2>1, <1>3
<1>6. ASSUME NEW i \in Nat, i \in Good PROVE i + 1 \in Good
  <2> SUFFICES ASSUME i + 1 <= N, \A j \in dropped : j > i + 1
               PROVE  EndsAt(g[i + 1].it, text, i + 1)
    OBVIOUS
  <2>1. PICK k \in 1 .. N : k = i + 1 /\ k - 1 = i
    BY <1>2
  <2>2. \A j \in dropped : j > i /\ j # k
    <3>1. dropped \subseteq Nat
      BY <1>2 DEF dropped, Dropped
    <3> QED BY <2>1, <3>1
  <2>3. EndsAt(g[i].it, text, i)
    BY <1>2, <2>2, <1>6
  <2>4. AddsTo(trie, g[i].it, text, k, g[k]) /\ ~DropsAt(trie, g[i].it, text[k])
    BY <2>1, <2>2, <1>4
  <2> QED BY <2>1, <2>3, <2>4 DEF AddsTo
<1>7. Nat \subseteq Good
  <2> HIDE DEF Good
  <2> QED BY <1>5, <1>6, SetInduction
<1>8. ASSUME NEW w \in Coloured(scan), \A i \in dropped : ~(i < w[1])
      PROVE  SubSeq(text, w[1] - w[2] + 1, w[1]) \in trie.words
  <2>1. PICK i \in 1 .. N : w = <<i, scan[i].found>> /\ scan[i].found > 0
    BY <1>3 DEF Coloured
  <2>2. PICK n : n = g[i].found
    OBVIOUS
  <2>3. w[1] = i /\ w[2] = n /\ n > 0
    BY <2>1, <2>2, <1>3
  <2>4. PICK k : k = i - 1
    OBVIOUS
  <2>5. PICK s : s = Append(g[k].it, text[i])
    OBVIOUS
  <2>6. k \in Nat /\ k <= N /\ k + 1 = i /\ g[k].it \in trie.nodes
        /\ AddsTo(trie, g[k].it, text, i, g[i])
    BY <1>2, <1>4, <2>4
  <2>7. \A j \in dropped : j > k
    <3>1. dropped \subseteq Nat
      BY <1>2 DEF dropped, Dropped
    <3> QED BY <3>1, <2>3, <2>6, <1>8
  <2>8. EndsAt(g[k].it, text, k)
    BY <2>6, <2>7, <1>7
  <2>9. s \in trie.leaves /\ n = Len(s)
    BY <2>2, <2>3, <2>5, <2>6 DEF AddsTo
  <2>10. s \in trie.words /\ s \in Seq(C)
    BY <2>9 DEF Trie, TrieSet
  <2>11. EndsAt(s, text, i)
    <3>1. PICK x \in trie.nodes : x = g[k].it
      BY <2>6
    <3>2. x \in Seq(C) /\ text[k + 1] \in C
      <4>1. text[i] \in C
        OBVIOUS
      <4> QED BY <4>1, <2>6 DEF Trie, TrieSet
    <3>3. EndsAt(Append(x, text[k + 1]), text, k + 1)
      BY <3>1, <3>2, <2>6, <2>8, EndsAppend
    <3> QED BY <3>1, <3>3, <2>5, <2>6
  <2>12. Len(s) >= 1
    BY <2>3, <2>9, <2>10
  <2>13. SubSeq(text, i - Len(s) + 1, i) = s
    BY <2>10, <2>11, <2>12, EndsSub
  <2> QED BY <2>3, <2>9, <2>10, <2>13
<1> QED BY <1>8 DEF scan, dropped

LEMMA Flattened ==
  ASSUME NEW C, NEW seqs \in Seq(Seq(C))
  PROVE  FlattenSeq(seqs) \in Seq(C)
<1> DEFINE N == Len(seqs)
           S == Seq(C)
           Body(w) == [i \in 1 .. Len(seqs) |-> IF i = 1 THEN seqs[i] ELSE w[i - 1] \o seqs[i]]
           flatten == CHOOSE w : w = Body(w)
           F == [x \in (1 .. N) \X S |-> IF x[1] = 1 THEN seqs[1] ELSE x[2] \o seqs[x[1]]]
<1>1. N \in Nat /\ \A i \in 1 .. N : seqs[i] \in S
  OBVIOUS
<1>2. CASE N = 0
  <2>1. FlattenSeq(seqs) = seqs /\ seqs = <<>>
    BY <1>2 DEF FlattenSeq
  <2> QED BY <2>1
<1>3. CASE N # 0
  <2>1. FlattenSeq(seqs) = flatten[N]
    BY <1>3 DEF FlattenSeq
  <2>2. 1 \in 1 .. N /\ N \in 1 .. N /\ N = Len(seqs)
    BY <1>1, <1>3
  <2>3. \A x, y \in S : x \o y \in S
    OBVIOUS
  <2>4. <<>> \in S
    OBVIOUS
  <2> HIDE DEF N, S
  <2>5. \A i \in 1 .. N : \A e \in S :
           F[<<i, e>>] = (IF i = 1 THEN seqs[1] ELSE e \o seqs[i]) /\ F[<<i, e>>] \in S
    BY <1>1, <2>2, <2>3
  <2> HIDE DEF F
  <2>6. Loops(S, N, F)
    BY <2>5 DEF Loops
  <2>7. PICK g \in [0 .. N -> S] : g[0] = <<>> /\ \A k \in 1 .. N : g[k] = F[<<k, g[k - 1]>>]
    BY <1>1, <2>4, <2>6, LoopExists
  <2>8. \A i \in 1 .. N : i - 1 \in 0 .. N /\ i \in 0 .. N
    BY <1>1
  <2>9. ASSUME NEW i \in 1 .. N
        PROVE  g[i] = IF i = 1 THEN seqs[i] ELSE g[i - 1] \o seqs[i]
    <3>1. g[i] = F[<<i, g[i - 1]>>] /\ g[i - 1] \in S
      BY <2>7, <2>8
    <3>2. F[<<i, g[i - 1]>>] = IF i = 1 THEN seqs[1] ELSE g[i - 1] \o seqs[i]
      BY <2>5, <3>1
    <3> QED BY <3>1, <3>2
  <2> DEFINE h == [i \in 1 .. N |-> g[i]]
  <2>10. \A i \in 1 .. N : i # 1 => i - 1 \in 1 .. N
    BY <1>1
  <2>11. h = Body(h)
    BY <2>2, <2>9, <2>10
  <2>12. flatten = Body(flatten)
    <3> DEFINE Rec(w) == w = Body(w)
    <3>1. Rec(h)
      BY <2>11
    <3>2. flatten = CHOOSE w : Rec(w)
      OBVIOUS
    <3>3. Rec(CHOOSE w : Rec(w))
      <4> HIDE DEF Rec
      <4> QED BY <3>1
    <3>4. Rec(flatten)
      <4> HIDE DEF flatten, Rec
      <4> QED BY <3>2, <3>3
    <3> HIDE DEF flatten, Body
    <3> QED BY <3>4
  <2> HIDE DEF flatten, h
  <2>13. \A i \in 1 .. N : flatten[i] = IF i = 1 THEN seqs[i] ELSE flatten[i - 1] \o seqs[i]
    BY <2>2, <2>12
  <2> DEFINE Good == {i \in Nat : i \in 1 .. N => flatten[i] \in S}
  <2>14. 0 \in Good
    OBVIOUS
  <2>15. ASSUME NEW i \in Nat, i \in Good PROVE i + 1 \in Good
    <3> SUFFICES ASSUME i + 1 \in 1 .. N PROVE flatten[i + 1] \in S
      OBVIOUS
    <3>1. PICK k \in 1 .. N : k = i + 1 /\ k - 1 = i
      OBVIOUS
    <3>2. CASE i = 0
      BY <3>1, <3>2, <1>1, <2>13
    <3>3. CASE i # 0
      <4>1. i \in 1 .. N /\ k # 1
        BY <3>1, <3>3, <1>1
      <4>2. flatten[i] \in S /\ seqs[k] \in S
        BY <4>1, <2>15, <1>1
      <4>3. flatten[k] = flatten[i] \o seqs[k]
        BY <3>1, <4>1, <2>13
      <4> QED BY <3>1, <4>2, <4>3, <2>3
    <3> QED BY <3>2, <3>3
  <2>16. Nat \subseteq Good
    <3> HIDE DEF Good
    <3> QED BY <2>14, <2>15, SetInduction
  <2> QED BY <2>1, <2>2, <2>16, <1>1 DEF S
<1> QED BY <1>2, <1>3

\* What the text that is scanned is made of.
KeywordChars ==
  {"a", "c", "d", "e", "f", "h", "i", "l", "n", "o", "r", "s", "t", "v", "w", "z"}

ScanChars == KeywordChars \cup AllChars \cup {Newline}

LEMMA ScannedText ==
  ASSUME NEW d, NEW a, NEW fs, NEW k, NEW cs, Sound(d, a, fs, k, cs)
  PROVE  LET lines == TextFrom(d, d.file_buffer)
         IN FlattenSeq([i \in DOMAIN lines |-> lines[i] \o <<Newline>>]) \in Seq(ScanChars)
<1> DEFINE lines == TextFrom(d, d.file_buffer)
           text == [i \in DOMAIN lines |-> lines[i] \o <<Newline>>]
           S == Seq(ScanChars)
           R == 1 .. Len(d.cells)
<1>1. /\ d.cells \in Seq(CellSet) /\ IsList(d.lines, fs, k) /\ CellLists(d.cells, cs)
      /\ Len(cs) = Len(d.lines) /\ Len(d.lines) \in Nat
  BY SoundNumbers DEF Sound
<1>2. fs \in Seq(1 .. Len(d.lines)) /\ cs \in Seq(Seq(R))
  BY <1>1 DEF IsList, CellLists
<1>3. Along(d.lines, d.file_buffer, "next") = fs
  BY LinesAre
<1>4. lines = [i \in DOMAIN fs |-> CharsOf(d)[fs[i]]]
  BY <1>3 DEF TextFrom
<1>5. ASSUME NEW n \in R PROVE d.cells[n].c \in ScanChars
  <2>1. d.cells[n] \in CellSet
    BY <1>1
  <2> QED BY <2>1 DEF CellSet, ScanChars
<1>6. ASSUME NEW l \in 1 .. Len(d.lines) PROVE CharsOf(d)[l] \in S
  <2>1. PICK s \in Seq(R) : s = cs[l]
    BY <1>1, <1>2
  <2>2. LineCells(d, l) = s
    BY <2>1, LineCellsAre
  <2>3. CharsOf(d)[l] = [p \in DOMAIN s |-> d.cells[s[p]].c]
    <3>1. d.lines \in Seq(LineSet)
      BY SoundNumbers
    <3>2. l \in DOMAIN d.lines
      BY <3>1
    <3> QED BY <3>2, <2>2 DEF CharsOf
  <2>4. DOMAIN s = 1 .. Len(s) /\ Len(s) \in Nat /\ \A p \in 1 .. Len(s) : s[p] \in R
    <3> HIDE DEF R
    <3> QED OBVIOUS
  <2> HIDE DEF R
  <2>5. \A p \in 1 .. Len(s) : d.cells[s[p]].c \in ScanChars
    BY <1>5, <2>4
  <2> QED BY <2>3, <2>4, <2>5
<1>7. <<Newline>> \in S
  <2>1. Newline \in ScanChars
    BY DEF ScanChars
  <2> QED BY <2>1
<1>8. \A x, y \in S : x \o y \in S
  OBVIOUS
<1> HIDE DEF S, R
<1>9. PICK n \in Nat : n = Len(fs) /\ DOMAIN fs = 1 .. n
  BY <1>2
<1>10. \A i \in 1 .. n : fs[i] \in 1 .. Len(d.lines)
  BY <1>2, <1>9
<1>11. DOMAIN lines = 1 .. n /\ \A i \in 1 .. n : lines[i] \in S
  BY <1>4, <1>6, <1>9, <1>10
<1> HIDE DEF lines
<1>12. text \in Seq(S)
  BY <1>7, <1>8, <1>11
<1> HIDE DEF text
<1>13. FlattenSeq(text) \in Seq(ScanChars)
  BY <1>12, Flattened DEF S
<1> QED BY <1>13 DEF text, lines

LEMMA Keywords ==
  \A patterns \in {lexemes, stmts} : Patterns(patterns, ScanChars, 6)
<1> DEFINE W == {w \in Seq(ScanChars) : Len(w) <= 6}
<1>2. \A u, v \in ScanChars : <<u, v>> \in W
  OBVIOUS
<1>3. \A u, v, w \in ScanChars : <<u, v, w>> \in W
  OBVIOUS
<1>4. \A u, v, w, x \in ScanChars : <<u, v, w, x>> \in W
  OBVIOUS
<1>5. \A u, v, w, x, y \in ScanChars : <<u, v, w, x, y>> \in W
  OBVIOUS
<1>6. \A u, v, w, x, y, z \in ScanChars : <<u, v, w, x, y, z>> \in W
  OBVIOUS
<1>7. \A p : p \in Seq(W) /\ Len(p) >= 1 => Patterns(p, ScanChars, 6)
  BY DEF Patterns
<1> HIDE DEF W
<1>8. \A u, v, w, x \in W : <<u, v, w, x>> \in Seq(W) /\ Len(<<u, v, w, x>>) >= 1
  OBVIOUS
<1>9. \A u, v, w, x, y, z \in W :
        <<u, v, w, x, y, z>> \in Seq(W) /\ Len(<<u, v, w, x, y, z>>) >= 1
  OBVIOUS
<1>10. KeywordChars \subseteq ScanChars
  BY DEF ScanChars
<1>11. /\ <<"i", "n", "t">> \in W /\ <<"v", "o", "i", "d">> \in W
       /\ <<"c", "h", "a", "r">> \in W /\ <<"s", "h", "o", "r", "t">> \in W
  BY <1>3, <1>4, <1>5, <1>10, Zenon DEF KeywordChars
<1>12. /\ <<"i", "f">> \in W /\ <<"e", "l", "s", "e">> \in W
       /\ <<"s", "i", "z", "e", "o", "f">> \in W /\ <<"c", "a", "s", "e">> \in W
       /\ <<"w", "h", "i", "l", "e">> \in W /\ <<"f", "o", "r">> \in W
  BY <1>2, <1>3, <1>4, <1>5, <1>6, <1>10, Zenon DEF KeywordChars
<1>13. lexemes \in Seq(W) /\ Len(lexemes) >= 1
  BY <1>8, <1>11, Zenon DEF lexemes
<1>14. stmts \in Seq(W) /\ Len(stmts) >= 1
  BY <1>9, <1>12, Zenon DEF stmts
<1> QED BY <1>7, <1>13, <1>14

\* Only keywords are coloured, whatever the text, but after a character for which one
\* link of the automaton is not enough: a stretch is never longer than its line.
THEOREM Coloured_Is_Word == Spec => []ColouredIsWord
<1>1. ASSUME Inv PROVE ColouredIsWord
  <2> DEFINE lines == TextFrom(doc, doc.file_buffer)
             text == FlattenSeq([i \in DOMAIN lines |-> lines[i] \o <<Newline>>])
  <2>1. PICK a, fs, k, cs : Sound(doc, a, fs, k, cs)
    BY <1>1 DEF Inv, ShowsText, Shows
  <2>2. text \in Seq(ScanChars)
    BY <2>1, ScannedText
  <2> HIDE DEF text
  <2>3. ASSUME NEW trie \in Tries PROVE Trie(trie, ScanChars)
    <3>1. PICK patterns \in {lexemes, stmts} : trie = build_trie(patterns)
      BY DEF Tries
    <3>2. Patterns(patterns, ScanChars, 6) /\ 6 \in Nat
      BY Keywords
    <3> QED BY <3>1, <3>2, TrieBuilt
  <2>4. \A trie \in Tries :
          LET scan == Scan(trie, text)
          IN \A w \in Coloured(scan) :
               \/ SubSeq(text, w[1] - w[2] + 1, w[1]) \in trie.words
               \/ \E i \in Dropped(trie, scan, text) : i < w[1]
    BY <2>2, <2>3, ScanWords
  <2> QED BY <2>4 DEF ColouredIsWord, text
<1> QED BY <1>1, Invariance, PTL
=============================================================================
