------------------------------- MODULE FatProofs -------------------------------
(***************************************************************************)
(* What holds of the files on the disk, for every number and size of       *)
(* clusters, entries, descriptors and files.                               *)
(*                                                                         *)
(* The argument has three parts. Of the table: Sound says that there is    *)
(* one sequence of clusters for each entry, each a chain of the table, all *)
(* disjoint, and together all that is not free; adding, removing and       *)
(* lengthening a chain keep it, so that Agree is an invariant whatever     *)
(* programs do. Of the bytes: KeptIn says that each file has its bytes     *)
(* where the size in the directory says; a turn of write_data puts one     *)
(* byte behind them, in a cluster no other file has, and adds one cluster  *)
(* at most; a write is as many turns. Of the descriptors: Good says that   *)
(* one that only read knows the first cluster and a size the file still    *)
(* has, and that the next bytes are in its buffer and at its current       *)
(* cluster. Content is the three together.                                 *)
(***************************************************************************)
EXTENDS Fat, Numbers, FiniteSetTheorems, SequenceTheorems

Table   == [0 .. NClusters + 1 -> {Free, End} \cup Cluster]
Entries == 0 .. NClusters + 1

\* The clusters of ch are linked in the table f, none comes twice, and the last one ends
\* the chain.
IsChain(f, ch) ==
  /\ ch \in Seq(Cluster) /\ ch # <<>>
  /\ \A j, k \in 1 .. Len(ch) : ch[j] = ch[k] => j = k
  /\ \A k \in 1 .. Len(ch) - 1 : f[ch[k]] = ch[k + 1]
  /\ f[ch[Len(ch)]] = End

LEMMA Sizes ==
  /\ NClusters \in Nat /\ NClusters >= 1 /\ BPC \in Nat /\ BPC >= 1
  /\ NEntries \in Nat /\ NEntries >= 1 /\ NFiles \in Nat /\ MaxLen \in Nat
  /\ Cluster = 2 .. NClusters + 1 /\ Cluster \subseteq Entries
  /\ End = NClusters + 2 /\ End \notin Entries /\ Free = 0 /\ 0 \in Entries
  /\ Free \notin Cluster /\ Lengths \subseteq Nat
<1>1. /\ NClusters \in Nat \ {0} /\ BPC \in Nat \ {0} /\ NEntries \in Nat \ {0}
      /\ NFiles \in Nat \ {0} /\ MaxLen \in Nat \ {0} /\ Lengths \subseteq 1 .. MaxLen
  BY FatAssumption
<1>2. NClusters >= 1 /\ BPC >= 1 /\ NEntries >= 1 /\ Lengths \subseteq Nat
  BY <1>1
<1> QED BY <1>1, <1>2 DEF Cluster, Entries, End, Free

-----------------------------------------------------------------------------
(* Chains.                                                                 *)

\* What is linked to what on the walk from c, k links long or up to the end.
Walked(f, c, ch, k) ==
  /\ ch \in Seq(Entries) /\ Len(ch) >= 1 /\ ch[1] = c
  /\ \A j \in 1 .. Len(ch) - 1 : f[ch[j]] = ch[j + 1]
  /\ f[ch[Len(ch)]] = End \/ Len(ch) = k + 1

LEMMA WalkStep ==
  ASSUME NEW f \in Table, NEW c \in Entries, NEW k \in Nat, NEW ch, Walked(f, c, ch, k)
  PROVE  Walked(f, c, IF f[Last(ch)] = End THEN ch ELSE Append(ch, f[Last(ch)]), k + 1)
<1>1. Last(ch) = ch[Len(ch)] /\ Len(ch) \in Nat /\ ch[Len(ch)] \in Entries
  BY DEF Last, Walked
<1>2. CASE f[Last(ch)] = End
  BY <1>1, <1>2 DEF Walked
<1>3. CASE f[Last(ch)] # End
  <2> DEFINE new == Append(ch, f[Last(ch)])
  <2>1. f[Last(ch)] \in Entries
    BY <1>1, <1>3, Sizes DEF Table, Entries
  <2>2. /\ new \in Seq(Entries) /\ Len(new) = Len(ch) + 1
        /\ \A j \in 1 .. Len(ch) : new[j] = ch[j]
        /\ new[Len(ch) + 1] = f[Last(ch)]
    BY <2>1 DEF Walked
  <2>3. Len(ch) = k + 1
    BY <1>1, <1>3 DEF Walked
  <2>4. ASSUME NEW j \in 1 .. Len(new) - 1 PROVE f[new[j]] = new[j + 1]
    <3>1. CASE j = Len(ch)
      BY <3>1, <1>1, <2>2
    <3>2. CASE j # Len(ch)
      BY <3>2, <1>1, <2>2 DEF Walked
    <3> QED BY <3>1, <3>2
  <2> HIDE DEF new
  <2>5. Walked(f, c, new, k + 1)
    BY <1>1, <2>2, <2>3, <2>4 DEF Walked
  <2> QED BY <1>3, <2>5 DEF new
<1> QED BY <1>2, <1>3

\* Chain follows the table.
LEMMA ChainWalks ==
  ASSUME NEW f \in Table, NEW c \in Entries
  PROVE  Walked(f, c, Chain(f, c), NClusters + 1)
<1> DEFINE S == {q \in Seq(Entries) : Len(q) >= 1}
           Longer == [ch \in Seq(DOMAIN f) |->
                        IF f[Last(ch)] = End THEN ch ELSE Append(ch, f[Last(ch)])]
           F == [x \in Nat \X S |-> Longer[x[2]]]
           s0 == <<c>>
           walk == CHOOSE w : w = [k \in Nat |-> IF k = 0 THEN <<c>> ELSE Longer[w[k - 1]]]
<1>1. DOMAIN f = Entries
  BY DEF Table, Entries
<1>2. ASSUME NEW q \in S PROVE Longer[q] \in S
  <2>1. Last(q) \in Entries
    BY DEF Last
  <2>2. f[Last(q)] # End => f[Last(q)] \in Entries
    BY <2>1, Sizes DEF Table, Entries
  <2> QED BY <1>1, <2>2
<1>3. s0 \in S
  OBVIOUS
<1>4. Steps(S, F)
  BY <1>2 DEF Steps
<1>5. PICK g \in [Nat -> S] :
        g[0] = s0 /\ \A n \in Nat : g[n + 1] = F[<<n + 1, g[n]>>]
  <2> HIDE DEF F, S, s0
  <2> QED BY <1>3, <1>4, RecursionExists
<1>6. ASSUME NEW n \in Nat PROVE g[n + 1] = Longer[g[n]]
  <2>1. g[n + 1] = F[<<n + 1, g[n]>>] /\ g[n] \in S /\ n + 1 \in Nat
    <3> HIDE DEF F, S
    <3> QED BY <1>5
  <2> HIDE DEF Longer, S
  <2> QED BY <2>1
<1>7. g = [k \in Nat |-> IF k = 0 THEN <<c>> ELSE Longer[g[k - 1]]]
  <2> HIDE DEF Longer, S
  <2>1. ASSUME NEW k \in Nat, k # 0 PROVE g[k] = Longer[g[k - 1]]
    <3>1. k - 1 \in Nat /\ (k - 1) + 1 = k
      BY <2>1
    <3> HIDE DEF Longer
    <3> QED BY <3>1, <1>6
  <2> QED BY <1>5, <2>1
<1>8. walk = [k \in Nat |-> IF k = 0 THEN <<c>> ELSE Longer[walk[k - 1]]]
  <2> HIDE DEF Longer
  <2> QED BY <1>7
<1>9. Chain(f, c) = walk[NClusters + 1]
  BY DEF Chain
<1> DEFINE Good == {k \in Nat : Walked(f, c, walk[k], k)}
<1>10. 0 \in Good
  <2>1. walk[0] = <<c>>
    <3> HIDE DEF walk, Longer
    <3> QED BY <1>8
  <2>2. Walked(f, c, <<c>>, 0)
    BY DEF Walked
  <2> HIDE DEF walk
  <2> QED BY <2>1, <2>2
<1>11. ASSUME NEW k \in Nat, k \in Good PROVE k + 1 \in Good
  <2>1. walk[k + 1] = Longer[walk[k]]
    <3>1. k + 1 \in Nat /\ k + 1 # 0 /\ (k + 1) - 1 = k
      OBVIOUS
    <3> HIDE DEF walk, Longer
    <3> QED BY <3>1, <1>8
  <2> HIDE DEF walk
  <2>2. Walked(f, c, walk[k], k)
    BY <1>11
  <2>3. walk[k] \in Seq(DOMAIN f)
    BY <1>1, <2>2 DEF Walked
  <2>4. walk[k + 1] = IF f[Last(walk[k])] = End THEN walk[k]
                      ELSE Append(walk[k], f[Last(walk[k])])
    BY <2>1, <2>3
  <2>5. Walked(f, c, walk[k + 1], k + 1)
    BY <2>2, <2>4, WalkStep
  <2> QED BY <2>5
<1>12. NClusters + 1 \in Good
  <2> HIDE DEF Good
  <2> QED BY <1>10, <1>11, SetInduction, Sizes
<1> HIDE DEF walk
<1> QED BY <1>9, <1>12

\* A chain is no longer than the data area.
LEMMA ChainShort ==
  ASSUME NEW f, NEW q, IsChain(f, q)
  PROVE  Len(q) <= NClusters
<1>1. q \in [1 .. Len(q) -> Cluster] /\ Len(q) \in Nat
  BY DEF IsChain
<1>2. IsFiniteSet(Cluster) /\ Cardinality(Cluster) = NClusters
  BY FS_Interval, Sizes
<1>3. IsFiniteSet(1 .. Len(q)) /\ Cardinality(1 .. Len(q)) = Len(q)
  <2>1. IsFiniteSet(1 .. Len(q)) /\ Cardinality(1 .. Len(q)) = IF 1 > Len(q) THEN 0 ELSE Len(q) - 1 + 1
    BY <1>1, FS_Interval
  <2> QED BY <2>1, <1>1
<1>4. ~(Cardinality(Cluster) < Cardinality(1 .. Len(q)))
  BY <1>1, <1>2, <1>3, FS_PigeonHole DEF IsChain
<1> QED BY <1>1, <1>2, <1>3, <1>4, Sizes

\* Chain finds the chain.
LEMMA ChainIs ==
  ASSUME NEW f \in Table, NEW q, IsChain(f, q)
  PROVE  Chain(f, q[1]) = q
<1> DEFINE ch == Chain(f, q[1])
<1>0. Len(q) \in Nat /\ Len(q) >= 1 /\ q \in Seq(Cluster) /\ q[1] \in Entries /\ Len(q) <= NClusters
  <2>1. Len(q) \in Nat /\ Len(q) >= 1 /\ q \in Seq(Cluster)
    BY DEF IsChain
  <2>2. q[1] \in Cluster
    BY <2>1
  <2> QED BY <2>1, <2>2, Sizes, ChainShort
<1>1. Walked(f, q[1], ch, NClusters + 1)
  BY <1>0, ChainWalks
<1> HIDE DEF ch
<1>2. ch \in Seq(Entries) /\ Len(ch) \in Nat /\ Len(ch) >= 1
  BY <1>1 DEF Walked
<1> DEFINE Same == {k \in Nat : k + 1 <= Len(ch) /\ k + 1 <= Len(q) => ch[k + 1] = q[k + 1]}
<1>3. 0 \in Same
  BY <1>1 DEF Walked
<1>4. ASSUME NEW k \in Nat, k \in Same PROVE k + 1 \in Same
  <2> SUFFICES ASSUME k + 2 <= Len(ch), k + 2 <= Len(q) PROVE ch[k + 2] = q[k + 2]
    OBVIOUS
  <2>1. k + 1 \in 1 .. Len(ch) - 1 /\ k + 1 \in 1 .. Len(q) - 1 /\ ch[k + 1] = q[k + 1]
    BY <1>4, <1>2, <1>0
  <2>2. f[ch[k + 1]] = ch[(k + 1) + 1]
    BY <1>1, <2>1 DEF Walked
  <2>3. f[q[k + 1]] = q[(k + 1) + 1]
    BY <2>1 DEF IsChain
  <2> QED BY <2>1, <2>2, <2>3
<1>5. \A k \in Nat : k \in Same
  <2> HIDE DEF Same
  <2> QED BY <1>3, <1>4, SetInduction
<1>6. ASSUME NEW k \in 1 .. Len(ch), k <= Len(q) PROVE ch[k] = q[k]
  <2>1. k - 1 \in Nat /\ (k - 1) + 1 = k
    BY <1>2
  <2>2. k - 1 \in Same
    <3> HIDE DEF Same
    <3> QED BY <1>5, <2>1
  <2> QED BY <2>1, <2>2, <1>0, <1>2, <1>6
<1>7. Len(ch) = Len(q)
  <2>1. CASE Len(ch) < Len(q)
    <3>1. Len(ch) \in 1 .. Len(q) - 1 /\ ch[Len(ch)] = q[Len(ch)]
      BY <2>1, <1>0, <1>2, <1>6
    <3>2. f[ch[Len(ch)]] = q[Len(ch) + 1] /\ q[Len(ch) + 1] \in Cluster
      BY <3>1, <1>0 DEF IsChain
    <3>3. f[ch[Len(ch)]] # End
      BY <3>2, Sizes
    <3>4. Len(ch) = (NClusters + 1) + 1
      BY <1>1, <3>3 DEF Walked
    <3> QED BY <3>4, <2>1, <1>0, Sizes
  <2>2. CASE Len(ch) > Len(q)
    <3>1. Len(q) \in 1 .. Len(ch) - 1 /\ ch[Len(q)] = q[Len(q)]
      BY <2>2, <1>0, <1>2, <1>6
    <3>2. f[q[Len(q)]] = ch[Len(q) + 1] /\ ch[Len(q) + 1] \in Entries
      BY <3>1, <1>1, <1>2 DEF Walked
    <3> QED BY <3>2, Sizes DEF IsChain
  <2> QED BY <2>1, <2>2, <1>0, <1>2, <1>6
<1>8. ASSUME NEW k \in 1 .. Len(q) PROVE ch[k] = q[k]
  BY <1>6, <1>7
<1>9. ch \in Seq(Entries) /\ q \in Seq(Entries)
  BY <1>0, <1>2, Sizes
<1>10. ch = q
  BY <1>7, <1>8, <1>9, SeqEqual
<1> QED BY <1>10 DEF ch

-----------------------------------------------------------------------------
(* A table and a directory that agree.                                     *)

Directory ==
  [Slot -> [kind : {"file", "dir", "empty", "deleted"}, name : Names \cup {NoName},
            first : Cluster \cup {0}, size : 0 .. MaxLen]]

UsedIn(r) == {s \in Slot : r[s].kind \in {"file", "dir"}}

Held(f, r, s) == ToSet(Chain(f, r[s].first))

\* Every entry has a chain, no two of them share a cluster, and they hold all that is not
\* free.
Sound(f, r) ==
  /\ \A s \in UsedIn(r) : r[s].first \in Cluster /\ IsChain(f, Chain(f, r[s].first))
  /\ \A s, t \in UsedIn(r) : \A c \in Cluster :
       c \in Held(f, r, s) /\ c \in Held(f, r, t) => s = t
  /\ \A c \in Cluster : f[c] # Free => \E s \in UsedIn(r) : c \in Held(f, r, s)

LEMMA ToSetIs ==
  ASSUME NEW S, NEW q \in Seq(S)
  PROVE  /\ ToSet(q) \subseteq S
         /\ \A k \in 1 .. Len(q) : q[k] \in ToSet(q)
         /\ \A c \in ToSet(q) : \E k \in 1 .. Len(q) : q[k] = c
BY DEF ToSet

LEMMA ChainElements ==
  ASSUME NEW f, NEW q, IsChain(f, q)
  PROVE  /\ Len(q) \in Nat /\ Len(q) >= 1 /\ q \in Seq(Cluster)
         /\ \A k \in 1 .. Len(q) : q[k] \in Cluster /\ f[q[k]] \in Cluster \cup {End}
         /\ \A c \in ToSet(q) : c \in Cluster /\ f[c] # Free
<1>1. Len(q) \in Nat /\ Len(q) >= 1 /\ q \in Seq(Cluster)
  BY DEF IsChain
<1>2. ASSUME NEW k \in 1 .. Len(q) PROVE q[k] \in Cluster /\ f[q[k]] \in Cluster \cup {End}
  <2>1. CASE k = Len(q)
    BY <2>1, <1>1 DEF IsChain
  <2>2. CASE k # Len(q)
    <3>1. k \in 1 .. Len(q) - 1 /\ k + 1 \in 1 .. Len(q)
      BY <2>2, <1>1
    <3> QED BY <3>1, <1>1 DEF IsChain
  <2> QED BY <2>1, <2>2
<1>3. Free \notin Cluster \cup {End}
  BY Sizes
<1> QED BY <1>1, <1>2, <1>3, ToSetIs

LEMMA ChainHead ==
  ASSUME NEW f \in Table, NEW c \in Cluster
  PROVE  Chain(f, c)[1] = c
BY ChainWalks, Sizes DEF Walked

\* A chain stays if none of its links change.
LEMMA ChainFrame ==
  ASSUME NEW f, NEW f2 \in Table, NEW q, IsChain(f, q),
         \A c \in ToSet(q) : f2[c] = f[c]
  PROVE  IsChain(f2, q) /\ Chain(f2, q[1]) = q
<1>1. \A k \in 1 .. Len(q) : f2[q[k]] = f[q[k]]
  BY ToSetIs, ChainElements
<1>2. IsChain(f2, q)
  <2>1. f2[q[Len(q)]] = End
    BY <1>1, ChainElements DEF IsChain
  <2>2. \A k \in 1 .. Len(q) - 1 : f2[q[k]] = q[k + 1]
    BY <1>1, ChainElements DEF IsChain
  <2> QED BY <2>1, <2>2 DEF IsChain
<1> QED BY <1>2, ChainIs

\* What the operations write in the table and in the directory.
Linked(f, last, c)  == [f EXCEPT ![c] = End, ![last] = c]
Ended(f, c)         == [f EXCEPT ![c] = End]
Without(f, S)       == [c \in DOMAIN f |-> IF c \in S THEN Free ELSE f[c]]
Entered(r, e, kind, name, c) ==
  [r EXCEPT ![e] = [kind |-> kind, name |-> name, first |-> c, size |-> 0]]
Removed(r, e)       == [r EXCEPT ![e] = Deleted]
Resized(r, e, n)    == [r EXCEPT ![e].size = n]

\* A free cluster linked to the last one makes the chain longer.
LEMMA ChainGrows ==
  ASSUME NEW f \in Table, NEW q, IsChain(f, q), NEW c \in Cluster, f[c] = Free
  PROVE  LET f2 == Linked(f, Last(q), c)
         IN  /\ f2 \in Table /\ IsChain(f2, Append(q, c)) /\ Chain(f2, q[1]) = Append(q, c)
             /\ \A x \in Entries : x # c /\ x # Last(q) => f2[x] = f[x]
<1> DEFINE f2 == Linked(f, Last(q), c)
           new == Append(q, c)
           n == Len(q)
<1>1. /\ n \in Nat /\ n >= 1 /\ q \in Seq(Cluster) /\ Last(q) = q[n] /\ q[n] \in Cluster
      /\ \A k \in 1 .. n : q[k] \in Cluster
  BY ChainElements DEF Last
<1>2. \A k \in 1 .. n : q[k] # c
  BY ChainElements, Sizes
<1>3. /\ f2 \in Table /\ f2[c] = End /\ f2[q[n]] = c
      /\ \A x \in Entries : x # c /\ x # q[n] => f2[x] = f[x]
  <2>1. f \in [Entries -> {Free, End} \cup Cluster] /\ c \in Entries /\ q[n] \in Entries
    BY <1>1, Sizes DEF Table, Entries
  <2>2. n \in 1 .. n /\ q[n] # c
    BY <1>1, <1>2
  <2>3. f2 = [f EXCEPT ![c] = End, ![q[n]] = c]
    BY <1>1 DEF Linked
  <2> HIDE DEF f2
  <2>4. f2 \in [Entries -> {Free, End} \cup Cluster] /\ f2[c] = End /\ f2[q[n]] = c
    BY <2>1, <2>2, <2>3
  <2> QED BY <2>1, <2>3, <2>4 DEF Table, Entries
<1>4. /\ new \in Seq(Cluster) /\ Len(new) = n + 1 /\ new[n + 1] = c
      /\ \A k \in 1 .. n : new[k] = q[k]
  BY <1>1
<1> HIDE DEF new, f2
<1>5. ASSUME NEW j \in 1 .. n + 1, NEW k \in 1 .. n + 1, new[j] = new[k] PROVE j = k
  <2>1. CASE j = n + 1 /\ k = n + 1
    BY <2>1
  <2>2. CASE j = n + 1 /\ k # n + 1
    BY <2>2, <1>5, <1>4, <1>2, <1>1
  <2>3. CASE j # n + 1 /\ k = n + 1
    BY <2>3, <1>5, <1>4, <1>2, <1>1
  <2>4. CASE j # n + 1 /\ k # n + 1
    <3>1. j \in 1 .. n /\ k \in 1 .. n
      BY <2>4, <1>1
    <3> QED BY <3>1, <1>4, <1>5 DEF IsChain
  <2> QED BY <2>1, <2>2, <2>3, <2>4
<1>6. ASSUME NEW k \in 1 .. n PROVE f2[new[k]] = new[k + 1]
  <2>1. CASE k = n
    BY <2>1, <1>1, <1>3, <1>4
  <2>2. CASE k # n
    <3>1. k \in 1 .. n - 1 /\ k + 1 \in 1 .. n /\ n \in 1 .. n
      BY <2>2, <1>1
    <3>2. q[k] # q[n]
      BY <2>2, <3>1 DEF IsChain
    <3>3. f2[q[k]] = f[q[k]]
      BY <3>1, <3>2, <1>1, <1>2, <1>3, Sizes
    <3>4. f[q[k]] = q[k + 1]
      BY <3>1 DEF IsChain
    <3> QED BY <3>1, <3>3, <3>4, <1>4
  <2> QED BY <2>1, <2>2
<1>7. IsChain(f2, new)
  <2>1. f2[new[Len(new)]] = End /\ new # <<>> /\ Len(new) - 1 = n
    BY <1>1, <1>3, <1>4
  <2> QED BY <2>1, <1>4, <1>5, <1>6 DEF IsChain
<1>8. new[1] = q[1]
  BY <1>1, <1>4
<1>9. Chain(f2, q[1]) = new
  BY <1>3, <1>7, <1>8, ChainIs
<1> QED BY <1>1, <1>3, <1>7, <1>9 DEF new, f2

-----------------------------------------------------------------------------
(* What the operations do to the table and the directory.                  *)

LEMMA SoundFacts ==
  ASSUME NEW f \in Table, NEW r, Sound(f, r), NEW s \in UsedIn(r)
  PROVE  /\ r[s].first \in Cluster /\ IsChain(f, Chain(f, r[s].first))
         /\ Chain(f, r[s].first)[1] = r[s].first
         /\ r[s].first \in Held(f, r, s)
         /\ \A c \in Held(f, r, s) : c \in Cluster /\ f[c] # Free
<1>1. r[s].first \in Cluster /\ IsChain(f, Chain(f, r[s].first))
  BY DEF Sound
<1>2. Chain(f, r[s].first)[1] = r[s].first
  BY <1>1, ChainHead
<1> QED BY <1>1, <1>2, ChainElements, ToSetIs DEF Held

\* A chain of which no link changes, in terms of the directory.
LEMMA HeldFrame ==
  ASSUME NEW f \in Table, NEW r, Sound(f, r), NEW s \in UsedIn(r), NEW f2 \in Table,
         \A c \in Held(f, r, s) : f2[c] = f[c]
  PROVE  /\ Chain(f2, r[s].first) = Chain(f, r[s].first)
         /\ IsChain(f2, Chain(f, r[s].first))
<1>1. \A c \in ToSet(Chain(f, r[s].first)) : f2[c] = f[c]
  BY DEF Held
<1> QED BY <1>1, SoundFacts, ChainFrame

LEMMA AddSound ==
  ASSUME NEW f \in Table, NEW r \in Directory, Sound(f, r), NEW e \in Slot \ UsedIn(r),
         NEW c \in FreeClusters(f), NEW kind \in {"file", "dir"}, NEW name \in Names
  PROVE  LET f2 == Ended(f, c)
             r2 == Entered(r, e, kind, name, c)
         IN  /\ f2 \in Table /\ Sound(f2, r2) /\ UsedIn(r2) = UsedIn(r) \cup {e}
             /\ Chain(f2, c) = <<c>>
             /\ \A s \in UsedIn(r) : Chain(f2, r2[s].first) = Chain(f, r[s].first)
<1> DEFINE f2 == Ended(f, c)
           r2 == Entered(r, e, kind, name, c)
<1>1. c \in Cluster /\ f[c] = Free /\ c \in Entries
  BY Sizes DEF FreeClusters
<1>2. /\ f2 \in Table /\ f2[c] = End
      /\ \A x \in Entries : x # c => f2[x] = f[x]
  BY <1>1, Sizes DEF Table, Entries, Ended
<1>3. /\ DOMAIN r = Slot /\ r2[e].kind = kind /\ r2[e].first = c
      /\ \A s \in Slot : s # e => r2[s] = r[s]
  BY DEF Directory, Entered
<1> HIDE DEF f2, r2
<1>4. UsedIn(r2) = UsedIn(r) \cup {e} /\ e \notin UsedIn(r)
  BY <1>3 DEF UsedIn
<1>5. ASSUME NEW s \in UsedIn(r)
      PROVE  /\ r2[s] = r[s] /\ Chain(f2, r2[s].first) = Chain(f, r[s].first)
             /\ IsChain(f2, Chain(f, r[s].first)) /\ Held(f2, r2, s) = Held(f, r, s)
             /\ c \notin Held(f, r, s)
  <2>1. r2[s] = r[s]
    BY <1>3, <1>4 DEF UsedIn
  <2>2. \A x \in Held(f, r, s) : x \in Cluster /\ f[x] # Free
    BY SoundFacts
  <2>3. c \notin Held(f, r, s)
    BY <1>1, <2>2
  <2>4. \A x \in Held(f, r, s) : f2[x] = f[x]
    BY <1>2, <2>2, <2>3, Sizes
  <2>5. Chain(f2, r[s].first) = Chain(f, r[s].first) /\ IsChain(f2, Chain(f, r[s].first))
    BY <1>2, <2>4, HeldFrame
  <2>6. Held(f2, r2, s) = Held(f, r, s)
    BY <2>1, <2>5 DEF Held
  <2> QED BY <2>1, <2>3, <2>5, <2>6
<1>6. IsChain(f2, <<c>>) /\ Chain(f2, c) = <<c>> /\ Held(f2, r2, e) = {c}
  <2>1. <<c>> \in Seq(Cluster) /\ Len(<<c>>) = 1 /\ <<c>>[1] = c
    BY <1>1
  <2>2. IsChain(f2, <<c>>)
    BY <2>1, <1>2 DEF IsChain
  <2>3. Chain(f2, c) = <<c>>
    BY <2>1, <2>2, <1>2, ChainIs
  <2>4. ToSet(<<c>>) = {c}
    <3>1. DOMAIN <<c>> = 1 .. 1
      BY <2>1
    <3> QED BY <3>1, <2>1 DEF ToSet
  <2>5. Held(f2, r2, e) = {c}
    BY <2>3, <2>4, <1>3 DEF Held
  <2> QED BY <2>2, <2>3, <2>5
<1>7. ASSUME NEW s \in UsedIn(r2)
      PROVE  r2[s].first \in Cluster /\ IsChain(f2, Chain(f2, r2[s].first))
  <2>1. CASE s = e
    BY <2>1, <1>1, <1>3, <1>6
  <2>2. CASE s # e
    <3>1. s \in UsedIn(r) /\ r[s].first \in Cluster
      BY <2>2, <1>4, SoundFacts
    <3> QED BY <3>1, <1>5
  <2> QED BY <2>1, <2>2
<1>8. ASSUME NEW s \in UsedIn(r2), NEW t \in UsedIn(r2), NEW x \in Cluster,
             x \in Held(f2, r2, s), x \in Held(f2, r2, t)
      PROVE  s = t
  <2>1. CASE s # e /\ t # e
    BY <2>1, <1>4, <1>5, <1>8 DEF Sound
  <2>2. CASE s = e /\ t # e
    BY <2>2, <1>4, <1>5, <1>6, <1>8
  <2>3. CASE s # e /\ t = e
    BY <2>3, <1>4, <1>5, <1>6, <1>8
  <2> QED BY <2>1, <2>2, <2>3
<1>9. ASSUME NEW x \in Cluster, f2[x] # Free
      PROVE  \E s \in UsedIn(r2) : x \in Held(f2, r2, s)
  <2>1. CASE x = c
    BY <2>1, <1>4, <1>6
  <2>2. CASE x # c
    <3>1. f[x] # Free
      BY <2>2, <1>2, <1>9, Sizes
    <3>2. PICK s \in UsedIn(r) : x \in Held(f, r, s)
      BY <3>1 DEF Sound
    <3> QED BY <3>2, <1>4, <1>5
  <2> QED BY <2>1, <2>2
<1>10. Sound(f2, r2)
  BY <1>7, <1>8, <1>9 DEF Sound
<1> QED BY <1>2, <1>4, <1>5, <1>6, <1>10 DEF f2, r2

LEMMA RemoveSound ==
  ASSUME NEW f \in Table, NEW r \in Directory, Sound(f, r), NEW e \in UsedIn(r)
  PROVE  LET f2 == Without(f, Held(f, r, e))
             r2 == Removed(r, e)
         IN  /\ f2 \in Table /\ Sound(f2, r2) /\ UsedIn(r2) = UsedIn(r) \ {e}
             /\ \A s \in UsedIn(r2) : Chain(f2, r2[s].first) = Chain(f, r[s].first)
<1> DEFINE f2 == Without(f, Held(f, r, e))
           r2 == Removed(r, e)
<1>1. /\ f2 \in Table
      /\ \A x \in Entries : f2[x] = IF x \in Held(f, r, e) THEN Free ELSE f[x]
  BY DEF Table, Entries, Without
<1>2. /\ DOMAIN r = Slot /\ r2[e].kind = "deleted"
      /\ \A s \in Slot : s # e => r2[s] = r[s]
  BY DEF Directory, Deleted, Empty, UsedIn, Removed
<1> HIDE DEF f2, r2
<1>3. UsedIn(r2) = UsedIn(r) \ {e}
  BY <1>2 DEF UsedIn
<1>4. ASSUME NEW s \in UsedIn(r), s # e
      PROVE  /\ r2[s] = r[s] /\ Chain(f2, r2[s].first) = Chain(f, r[s].first)
             /\ IsChain(f2, Chain(f, r[s].first)) /\ Held(f2, r2, s) = Held(f, r, s)
  <2>1. r2[s] = r[s]
    BY <1>2, <1>4 DEF UsedIn
  <2>2. \A x \in Held(f, r, s) : x \in Cluster
    BY SoundFacts
  <2>3. \A x \in Held(f, r, s) : x \notin Held(f, r, e)
    BY <2>2, <1>4 DEF Sound
  <2>4. \A x \in Held(f, r, s) : f2[x] = f[x]
    BY <1>1, <2>2, <2>3, Sizes
  <2>5. Chain(f2, r[s].first) = Chain(f, r[s].first) /\ IsChain(f2, Chain(f, r[s].first))
    BY <1>1, <2>4, HeldFrame
  <2>6. Held(f2, r2, s) = Held(f, r, s)
    BY <2>1, <2>5 DEF Held
  <2> QED BY <2>1, <2>5, <2>6
<1>5. ASSUME NEW s \in UsedIn(r2)
      PROVE  r2[s].first \in Cluster /\ IsChain(f2, Chain(f2, r2[s].first))
  <2>1. s \in UsedIn(r) /\ s # e /\ r[s].first \in Cluster
    BY <1>3, SoundFacts
  <2> QED BY <2>1, <1>4
<1>6. ASSUME NEW s \in UsedIn(r2), NEW t \in UsedIn(r2), NEW x \in Cluster,
             x \in Held(f2, r2, s), x \in Held(f2, r2, t)
      PROVE  s = t
  BY <1>3, <1>4, <1>6 DEF Sound
<1>7. ASSUME NEW x \in Cluster, f2[x] # Free
      PROVE  \E s \in UsedIn(r2) : x \in Held(f2, r2, s)
  <2>1. f[x] # Free /\ x \notin Held(f, r, e)
    BY <1>1, <1>7, Sizes
  <2>2. PICK s \in UsedIn(r) : x \in Held(f, r, s)
    BY <2>1 DEF Sound
  <2> QED BY <2>1, <2>2, <1>3, <1>4
<1>8. Sound(f2, r2)
  BY <1>5, <1>6, <1>7 DEF Sound
<1> QED BY <1>1, <1>3, <1>4, <1>8 DEF f2, r2

LEMMA ExtendSound ==
  ASSUME NEW f \in Table, NEW r, Sound(f, r), NEW e \in UsedIn(r),
         NEW c \in FreeClusters(f)
  PROVE  LET f2 == Linked(f, Last(Chain(f, r[e].first)), c)
         IN  /\ f2 \in Table /\ Sound(f2, r)
             /\ Chain(f2, r[e].first) = Append(Chain(f, r[e].first), c)
             /\ \A s \in UsedIn(r) \ {e} : Chain(f2, r[s].first) = Chain(f, r[s].first)
<1> DEFINE q == Chain(f, r[e].first)
           f2 == Linked(f, Last(q), c)
<1>1. c \in Cluster /\ f[c] = Free /\ c \in Entries
  BY Sizes DEF FreeClusters
<1>2. /\ r[e].first \in Cluster /\ IsChain(f, q) /\ q[1] = r[e].first
      /\ Len(q) \in Nat /\ Len(q) >= 1 /\ q \in Seq(Cluster)
      /\ Last(q) = q[Len(q)] /\ Last(q) \in Held(f, r, e)
  <2>1. r[e].first \in Cluster /\ IsChain(f, q) /\ q[1] = r[e].first
    BY SoundFacts
  <2>2. Len(q) \in Nat /\ Len(q) >= 1 /\ q \in Seq(Cluster)
    BY <2>1, ChainElements
  <2>3. Last(q) = q[Len(q)]
    BY DEF Last
  <2>4. q[Len(q)] \in ToSet(q)
    BY <2>2, ToSetIs
  <2> QED BY <2>1, <2>2, <2>3, <2>4 DEF Held
<1>3. /\ f2 \in Table /\ IsChain(f2, Append(q, c)) /\ Chain(f2, r[e].first) = Append(q, c)
      /\ \A x \in Entries : x # c /\ x # Last(q) => f2[x] = f[x]
  <2>1. IsChain(f, q) /\ c \in Cluster /\ f[c] = Free /\ q[1] = r[e].first
    BY <1>1, <1>2
  <2> HIDE DEF q
  <2> QED BY <2>1, ChainGrows
<1> HIDE DEF f2
<1>4. Held(f2, r, e) = Held(f, r, e) \cup {c}
  <2>1. ToSet(Append(q, c)) = ToSet(q) \cup {c}
    <3>1. /\ Append(q, c) \in Seq(Cluster) /\ Len(Append(q, c)) = Len(q) + 1
          /\ Append(q, c)[Len(q) + 1] = c
          /\ \A k \in 1 .. Len(q) : Append(q, c)[k] = q[k]
      BY <1>1, <1>2
    <3>2. ASSUME NEW x \in ToSet(Append(q, c)) PROVE x \in ToSet(q) \cup {c}
      <4>1. PICK k \in 1 .. Len(Append(q, c)) : Append(q, c)[k] = x
        BY <3>1, ToSetIs
      <4>2. CASE k = Len(q) + 1
        BY <4>1, <4>2, <3>1
      <4>3. CASE k # Len(q) + 1
        <5>1. k \in 1 .. Len(q)
          BY <4>3, <3>1, <1>2
        <5> QED BY <5>1, <4>1, <3>1, <1>2, ToSetIs
      <4> QED BY <4>2, <4>3
    <3>3. ASSUME NEW x \in ToSet(q) PROVE x \in ToSet(Append(q, c))
      <4>1. PICK k \in 1 .. Len(q) : q[k] = x
        BY <1>2, ToSetIs
      <4>2. k \in 1 .. Len(Append(q, c)) /\ Append(q, c)[k] = x
        BY <4>1, <3>1, <1>2
      <4> QED BY <4>2, <3>1, ToSetIs
    <3>4. c \in ToSet(Append(q, c))
      <4>1. Len(q) + 1 \in 1 .. Len(Append(q, c))
        BY <3>1, <1>2
      <4>2. Append(q, c)[Len(q) + 1] \in ToSet(Append(q, c))
        <5> HIDE DEF q
        <5> QED BY <4>1, <3>1, ToSetIs
      <4> QED BY <4>2, <3>1
    <3> QED BY <3>2, <3>3, <3>4
  <2> QED BY <2>1, <1>3 DEF Held
<1>5. ASSUME NEW s \in UsedIn(r), s # e
      PROVE  /\ Chain(f2, r[s].first) = Chain(f, r[s].first)
             /\ IsChain(f2, Chain(f, r[s].first)) /\ Held(f2, r, s) = Held(f, r, s)
             /\ c \notin Held(f, r, s)
  <2>1. \A x \in Held(f, r, s) : x \in Cluster /\ f[x] # Free
    BY SoundFacts
  <2>2. Last(q) \notin Held(f, r, s)
    BY <1>2, <1>5, <2>1 DEF Sound
  <2>3. \A x \in Held(f, r, s) : f2[x] = f[x]
    BY <1>1, <1>3, <2>1, <2>2, Sizes
  <2>4. Chain(f2, r[s].first) = Chain(f, r[s].first) /\ IsChain(f2, Chain(f, r[s].first))
    BY <1>3, <2>3, HeldFrame
  <2>5. Held(f2, r, s) = Held(f, r, s)
    BY <2>4 DEF Held
  <2>6. c \notin Held(f, r, s)
    BY <1>1, <2>1
  <2> QED BY <2>4, <2>5, <2>6
<1>6. ASSUME NEW s \in UsedIn(r)
      PROVE  r[s].first \in Cluster /\ IsChain(f2, Chain(f2, r[s].first))
  BY <1>3, <1>5, SoundFacts
<1>7. \A x \in Held(f, r, e) : x # c
  BY <1>1, SoundFacts
<1>8. ASSUME NEW s \in UsedIn(r), NEW t \in UsedIn(r), NEW x \in Cluster,
             x \in Held(f2, r, s), x \in Held(f2, r, t)
      PROVE  s = t
  <2>1. CASE x = c
    BY <2>1, <1>5, <1>8
  <2>2. CASE x # c
    <3>1. \A u \in UsedIn(r) : x \in Held(f2, r, u) => x \in Held(f, r, u)
      <4>1. \A u \in UsedIn(r) : u # e => Held(f2, r, u) = Held(f, r, u)
        BY <1>5
      <4> HIDE DEF q
      <4> QED BY <2>2, <1>4, <4>1
    <3>2. x \in Held(f, r, s) /\ x \in Held(f, r, t)
      BY <3>1, <1>8
    <3> QED BY <3>2 DEF Sound
  <2> QED BY <2>1, <2>2
<1>9. ASSUME NEW x \in Cluster, f2[x] # Free
      PROVE  \E s \in UsedIn(r) : x \in Held(f2, r, s)
  <2>1. CASE x = c
    BY <2>1, <1>4
  <2>2. CASE x # c
    <3>1. x = Last(q) \/ f[x] # Free
      BY <2>2, <1>3, <1>9, Sizes
    <3>2. PICK s \in UsedIn(r) : x \in Held(f, r, s)
      BY <3>1, <1>2 DEF Sound
    <3> QED BY <3>2, <1>4, <1>5
  <2> QED BY <2>1, <2>2
<1>10. Sound(f2, r)
  BY <1>6, <1>8, <1>9 DEF Sound
<1> QED BY <1>3, <1>5, <1>10 DEF f2

LEMMA ResizeSound ==
  ASSUME NEW f \in Table, NEW r \in Directory, Sound(f, r), NEW e \in UsedIn(r),
         NEW n \in Nat
  PROVE  LET r2 == Resized(r, e, n)
         IN  Sound(f, r2) /\ UsedIn(r2) = UsedIn(r) /\ \A s \in Slot : r2[s].first = r[s].first
<1> DEFINE r2 == Resized(r, e, n)
<1>1. \A s \in Slot : r2[s].first = r[s].first /\ r2[s].kind = r[s].kind
  BY DEF Directory, Resized
<1> HIDE DEF r2
<1>2. UsedIn(r2) = UsedIn(r) /\ UsedIn(r) \subseteq Slot
  BY <1>1 DEF UsedIn
<1>3. \A s \in UsedIn(r) : Held(f, r2, s) = Held(f, r, s) /\ r2[s].first = r[s].first
  BY <1>1, <1>2 DEF Held
<1>4. Sound(f, r2)
  BY <1>2, <1>3 DEF Sound
<1> QED BY <1>1, <1>2, <1>4 DEF r2

-----------------------------------------------------------------------------
(* The table agrees with the directory, whatever the programs do with their *)
(* descriptors.                                                             *)

\* A used entry is never behind one that was never used.
NoneHidden(r) ==
  \A s, t \in Slot : s < t /\ r[s].kind = "empty" => r[t].kind = "empty"

Opened(d) ==
  /\ DOMAIN d = {"type", "slot", "first", "current", "size", "cursor", "buff", "use"}
  /\ d.slot \in Slot /\ d.first \in Cluster /\ d.size \in 0 .. MaxLen

OpenedIn(g) ==
  /\ DOMAIN g = Procs
  /\ \A p \in Procs : DOMAIN g[p] = File
  /\ \A p \in Procs : \A i \in File : g[p][i] # Closed => Opened(g[p][i])

\* The part of the invariant that needs nothing of the programs.
Agree ==
  /\ fat \in Table /\ root \in Directory /\ data \in [Cluster -> [Offset -> Byte]]
  /\ Sound(fat, root) /\ NoneHidden(root)
  /\ OpenedIn(fd)

LEMMA UsedIs == UsedIn(root) = Used
BY DEF UsedIn, Used

LEMMA ListedIs ==
  ASSUME root \in Directory, NoneHidden(root)
  PROVE  Listed = Used
<1>1. ASSUME NEW s \in Used, NEW t \in 1 .. s PROVE root[t].kind # "empty"
  <2>1. s \in Slot /\ t \in Slot /\ root[s].kind # "empty"
    BY Sizes DEF Used, Slot
  <2>2. CASE t = s
    BY <2>1, <2>2
  <2>3. CASE t # s
    <3>1. t < s
      BY <2>1, <2>3 DEF Slot
    <3> QED BY <2>1, <3>1 DEF NoneHidden
  <2> QED BY <2>2, <2>3
<1> QED BY <1>1 DEF Listed

LEMMA LookupIs ==
  ASSUME root \in Directory, NoneHidden(root), NEW name, Lookup(name) # 0
  PROVE  Lookup(name) \in UsedIn(root)
<1> DEFINE Same == {s \in Listed : root[s].name = name}
<1>1. Same # {} /\ Lookup(name) = Min(Same)
  BY DEF Lookup
<1>2. Same \in SUBSET Nat
  BY DEF Listed, Used, Slot
<1>3. Min(Same) \in Same
  BY <1>1, <1>2, MinIn
<1>4. Min(Same) \in Listed
  BY <1>3
<1> HIDE DEF Same
<1> QED BY <1>1, <1>4, UsedIs DEF Listed

\* add_entry takes the first entry not used and the first free cluster.
LEMMA FreeEntryIs ==
  ASSUME root \in Directory, NoneHidden(root), FreeEntry # 0
  PROVE  /\ FreeEntry \in Slot \ UsedIn(root)
         /\ \A t \in Slot : t < FreeEntry => root[t].kind # "empty"
<1> DEFINE Out == Slot \ Used
<1>1. Out # {} /\ FreeEntry = Min(Out)
  BY DEF FreeEntry, Used
<1>2. Out \in SUBSET Nat
  BY DEF Slot
<1>3. Min(Out) \in Out /\ \A y \in Out : Min(Out) <= y
  BY <1>1, <1>2, MinIn
<1>4. ASSUME NEW t \in Slot, t < FreeEntry PROVE root[t].kind # "empty"
  <2>1. t \notin Out
    BY <1>1, <1>2, <1>3, <1>4 DEF Slot
  <2> QED BY <2>1 DEF Used
<1> QED BY <1>1, <1>3, <1>4, UsedIs

LEMMA FreeClusterIs ==
  ASSUME NEW f
  PROVE  /\ FreeCluster(f) # End => FreeCluster(f) \in FreeClusters(f)
         /\ FreeClusters(f) # {} => FreeCluster(f) \in FreeClusters(f)
<1>1. FreeClusters(f) \in SUBSET Nat
  BY Sizes DEF FreeClusters
<1> QED BY <1>1, MinIn DEF FreeCluster

LEMMA AddNoneHidden ==
  ASSUME NEW r \in Directory, NoneHidden(r), NEW e \in Slot,
         \A t \in Slot : t < e => r[t].kind # "empty",
         NEW kind \in {"file", "dir"}, NEW name \in Names, NEW c \in Cluster
  PROVE  Entered(r, e, kind, name, c) \in Directory /\ NoneHidden(Entered(r, e, kind, name, c))
<1> DEFINE r2 == Entered(r, e, kind, name, c)
<1>1. r2 \in Directory /\ r2[e].kind = kind /\ \A s \in Slot : s # e => r2[s] = r[s]
  BY Sizes DEF Directory, Entered
<1> HIDE DEF r2
<1>2. NoneHidden(r2)
  BY <1>1 DEF NoneHidden, Slot
<1> QED BY <1>1, <1>2 DEF r2

LEMMA KindNoneHidden ==
  ASSUME NEW r \in Directory, NoneHidden(r), NEW e \in UsedIn(r)
  PROVE  /\ Removed(r, e) \in Directory /\ NoneHidden(Removed(r, e))
         /\ \A n \in 0 .. MaxLen :
              Resized(r, e, n) \in Directory /\ NoneHidden(Resized(r, e, n))
<1>1. e \in Slot /\ r[e].kind # "empty"
  BY DEF UsedIn
<1>2. /\ Removed(r, e) \in Directory /\ Removed(r, e)[e].kind = "deleted"
      /\ \A s \in Slot : s # e => Removed(r, e)[s] = r[s]
  BY <1>1, Sizes DEF Removed, Directory, Deleted, Empty
<1>3. NoneHidden(Removed(r, e))
  BY <1>1, <1>2 DEF NoneHidden, Slot
<1>4. ASSUME NEW n \in 0 .. MaxLen
      PROVE  Resized(r, e, n) \in Directory /\ NoneHidden(Resized(r, e, n))
  <2>1. Resized(r, e, n) \in Directory
    BY <1>1 DEF Resized, Directory
  <2>2. \A s \in Slot : Resized(r, e, n)[s].kind = r[s].kind
    BY DEF Resized, Directory
  <2> QED BY <2>1, <2>2 DEF NoneHidden
<1> QED BY <1>2, <1>3, <1>4

LEMMA AgreeSound == ASSUME Agree PROVE TableSound
<1>1. /\ fat \in Table /\ Sound(fat, root) /\ UsedIn(root) = Used /\ Listed = Used
  BY UsedIs, ListedIs DEF Agree
<1>2. ASSUME NEW s \in Used
      PROVE  /\ ToSet(Chain(fat, root[s].first)) \subseteq Cluster
             /\ fat[Last(Chain(fat, root[s].first))] = End
             /\ \A c \in ToSet(Chain(fat, root[s].first)) : fat[c] # Free
  <2> DEFINE q == Chain(fat, root[s].first)
  <2>1. IsChain(fat, q) /\ \A c \in ToSet(q) : c \in Cluster /\ fat[c] # Free
    BY <1>1, SoundFacts DEF Held
  <2> HIDE DEF q
  <2> QED BY <2>1 DEF IsChain, Last, q
<1>3. ASSUME NEW s \in Used, NEW t \in Used, s # t
      PROVE  ToSet(Chain(fat, root[s].first)) \cap ToSet(Chain(fat, root[t].first)) = {}
  BY <1>1, <1>2, <1>3 DEF Sound, Held
<1>4. UNION {ToSet(Chain(fat, root[s].first)) : s \in Used} = Cluster \ FreeClusters(fat)
  <2>1. ASSUME NEW c \in Cluster \ FreeClusters(fat)
        PROVE  \E s \in Used : c \in ToSet(Chain(fat, root[s].first))
    BY <1>1 DEF Sound, Held, FreeClusters
  <2>2. ASSUME NEW s \in Used, NEW c \in ToSet(Chain(fat, root[s].first))
        PROVE  c \in Cluster \ FreeClusters(fat)
    BY <1>2 DEF FreeClusters
  <2> QED BY <2>1, <2>2
<1> QED BY <1>1, <1>2, <1>3, <1>4 DEF TableSound

\* From a cluster of a chain on, the chain is the rest of it.
LEMMA ChainSuffix ==
  ASSUME NEW f \in Table, NEW q, IsChain(f, q), NEW j \in 1 .. Len(q)
  PROVE  LET t == Chain(f, q[j])
         IN  /\ t \in Seq(Cluster) /\ Len(t) = Len(q) - j + 1 /\ Len(t) \in Nat
             /\ \A k \in 1 .. Len(t) : t[k] = q[j + k - 1]
<1> DEFINE t == [k \in 1 .. Len(q) - j + 1 |-> q[j + k - 1]]
           m == Len(q) - j + 1
<1>6. Len(q) \in Nat /\ Len(q) >= 1 /\ q \in Seq(Cluster)
  BY ChainElements
<1>8. m \in Nat /\ m >= 1 /\ \A k \in 1 .. m : j + k - 1 \in 1 .. Len(q)
  BY <1>6
<1>9. t \in Seq(Cluster) /\ Len(t) = m /\ \A k \in 1 .. m : t[k] = q[j + k - 1]
  <2>1. \A k \in 1 .. m : q[j + k - 1] \in Cluster
    BY <1>6, <1>8
  <2>2. t = [k \in 1 .. m |-> q[j + k - 1]]
    OBVIOUS
  <2> HIDE DEF m, t
  <2>3. t \in [1 .. m -> Cluster]
    BY <2>1, <2>2
  <2>4. t \in Seq(Cluster) /\ Len(t) = m
    BY <2>3, <1>8
  <2>5. \A k \in 1 .. m : t[k] = q[j + k - 1]
    BY <2>2
  <2> QED BY <2>4, <2>5
<1> HIDE DEF t
<1>10. IsChain(f, t)
  <2>1. t # <<>>
    BY <1>8, <1>9
  <2>2. ASSUME NEW x \in 1 .. m, NEW y \in 1 .. m, t[x] = t[y] PROVE x = y
    <3>1. j + x - 1 = j + y - 1
      BY <2>2, <1>8, <1>9 DEF IsChain
    <3> QED BY <3>1
  <2>3. ASSUME NEW x \in 1 .. m - 1 PROVE f[t[x]] = t[x + 1]
    <3>1. j + x - 1 \in 1 .. Len(q) - 1 /\ j + (x + 1) - 1 = (j + x - 1) + 1
      BY <1>6
    <3>2. t[x] = q[j + x - 1] /\ t[x + 1] = q[j + (x + 1) - 1]
      <4>1. x \in 1 .. m /\ x + 1 \in 1 .. m
        BY <1>8
      <4> HIDE DEF m
      <4> QED BY <4>1, <1>9
    <3> QED BY <3>1, <3>2 DEF IsChain
  <2>4. f[t[m]] = End
    <3>1. m \in 1 .. m /\ j + m - 1 = Len(q)
      BY <1>6, <1>8
    <3> QED BY <3>1, <1>9 DEF IsChain
  <2> HIDE DEF m
  <2> QED BY <1>9, <2>1, <2>2, <2>3, <2>4 DEF IsChain
<1>11. t[1] = q[j]
  <2>1. 1 \in 1 .. m /\ j + 1 - 1 = j
    BY <1>6, <1>8
  <2> QED BY <2>1, <1>9
<1>12. Chain(f, q[j]) = t
  BY <1>10, <1>11, ChainIs
<1> QED BY <1>8, <1>9, <1>12

\* A chain of clusters of the data area ends where the chain of an entry does.
LEMMA SameEnd ==
  ASSUME NEW f \in Table, NEW r, Sound(f, r), NEW c \in Cluster,
         ToSet(Chain(f, c)) \subseteq Cluster
  PROVE  \E e \in UsedIn(r) : Last(Chain(f, c)) = Last(Chain(f, r[e].first))
<1> DEFINE w == Chain(f, c)
<1>1. Walked(f, c, w, NClusters + 1)
  BY ChainWalks, Sizes
<1> HIDE DEF w
<1>2. w \in Seq(Entries) /\ Len(w) \in Nat /\ Len(w) >= 1 /\ w[1] = c
  BY <1>1 DEF Walked
<1>3. f[c] # Free
  <2>1. CASE Len(w) = 1
    BY <2>1, <1>1, <1>2, Sizes DEF Walked
  <2>2. CASE Len(w) # 1
    <3>0. Len(w) >= 2
      <4> DEFINE n == Len(w)
      <4>1. n \in Nat /\ n >= 1 /\ n # 1
        BY <2>2, <1>2
      <4> HIDE DEF n
      <4>2. n >= 2
        BY <4>1
      <4> QED BY <4>2 DEF n
    <3>1. 1 \in 1 .. Len(w) - 1 /\ 2 \in 1 .. Len(w)
      BY <3>0, <1>2
    <3>2. f[w[1]] = w[1 + 1]
      BY <3>1, <1>1 DEF Walked
    <3>3. w[2] \in Cluster
      BY <3>1, <1>2, ToSetIs DEF w
    <3> QED BY <3>2, <3>3, <1>2, Sizes
  <2> QED BY <2>1, <2>2
<1>4. PICK e \in UsedIn(r) : c \in Held(f, r, e)
  BY <1>3 DEF Sound
<1> DEFINE q == Chain(f, r[e].first)
<1>5. IsChain(f, q)
  BY SoundFacts
<1>6. Len(q) \in Nat /\ Len(q) >= 1 /\ q \in Seq(Cluster)
  BY <1>5, ChainElements
<1>7. PICK j \in 1 .. Len(q) : q[j] = c
  BY <1>4, <1>6, ToSetIs DEF Held
<1>8. w = Chain(f, q[j])
  BY <1>7 DEF w
<1> HIDE DEF q
<1>9. /\ Len(w) = Len(q) - j + 1 /\ Len(w) \in Nat
      /\ \A k \in 1 .. Len(w) : w[k] = q[j + k - 1]
  <2> DEFINE t == Chain(f, q[j])
  <2>1. /\ Len(t) = Len(q) - j + 1 /\ Len(t) \in Nat
        /\ \A k \in 1 .. Len(t) : t[k] = q[j + k - 1]
    BY <1>5, ChainSuffix
  <2>2. w = t
    BY <1>8
  <2> HIDE DEF t
  <2> QED BY <2>1, <2>2
<1>10. Last(w) = Last(q)
  <2> DEFINE m == Len(w)
  <2>1. m \in 1 .. m /\ j + m - 1 = Len(q)
    <3> HIDE DEF m
    <3>1. m = Len(q) - j + 1 /\ m \in Nat
      BY <1>9 DEF m
    <3> QED BY <3>1, <1>6
  <2> QED BY <2>1, <1>9 DEF Last
<1> QED BY <1>10 DEF w, q

-----------------------------------------------------------------------------
(* The loop of write_data.                                                 *)

Named     == {Blank} \cup (Slot \X Nat)
LoopState ==
  [fat : Table, data : [Cluster -> [Offset -> Named]], current : Cluster, size : Nat,
   ok : BOOLEAN]

Start(d) ==
  [fat |-> fat, data |-> data, current |-> Last(Chain(fat, d.first)), size |-> d.size,
   ok |-> TRUE]

LEMMA RestIsOffset == ASSUME NEW n \in Nat PROVE n % BPC \in Offset
<1>1. BPC \in Nat \ {0} /\ n \in Int
  BY Sizes
<1>2. n % BPC \in 0 .. BPC - 1
  BY <1>1, Quotient
<1> QED BY <1>2 DEF Offset

LEMMA TurnType ==
  ASSUME NEW st \in LoopState, NEW byte \in Named
  PROVE  WriteByte(st, byte) \in LoopState
<1> DEFINE grow == Grows(st.size)
           new == FreeCluster(st.fat)
           cur == IF grow THEN new ELSE st.current
           table == IF grow THEN [st.fat EXCEPT ![new] = End, ![st.current] = new] ELSE st.fat
           filled == [st.data EXCEPT ![cur][st.size % BPC] = byte]
<1>1. /\ st.fat \in Table /\ st.data \in [Cluster -> [Offset -> Named]]
      /\ st.current \in Cluster /\ st.size \in Nat /\ st.ok \in BOOLEAN
  BY DEF LoopState
<1>2. CASE ~st.ok \/ (grow /\ new = End)
  <2>1. WriteByte(st, byte) = [st EXCEPT !.ok = FALSE]
    BY <1>2 DEF WriteByte
  <2> QED BY <2>1 DEF LoopState
<1>3. CASE ~(~st.ok \/ (grow /\ new = End))
  <2>1. WriteByte(st, byte) = [fat |-> table, data |-> filled, current |-> cur,
                               size |-> st.size + 1, ok |-> TRUE]
    BY <1>3 DEF WriteByte
  <2>2. grow => new \in Cluster
    BY <1>3, FreeClusterIs DEF FreeClusters
  <2> HIDE DEF grow, new
  <2>3. cur \in Cluster
    BY <1>1, <2>2
  <2>4. table \in Table
    BY <1>1, <2>2, Sizes DEF Table, Entries
  <2>5. filled \in [Cluster -> [Offset -> Named]]
    <3>1. st.size % BPC \in Offset
      BY <1>1, RestIsOffset
    <3> HIDE DEF cur
    <3> QED BY <1>1, <2>3, <3>1
  <2>6. st.size + 1 \in Nat
    BY <1>1
  <2> HIDE DEF cur, table, filled
  <2> QED BY <2>1, <2>3, <2>4, <2>5, <2>6 DEF LoopState
<1> QED BY <1>2, <1>3

LEMMA TurnsAre ==
  ASSUME NEW d, Start(d) \in LoopState, d.slot \in Slot, root[d.slot].size \in Nat
  PROVE  \E g \in [Nat -> LoopState] :
           /\ g[0] = Start(d)
           /\ \A k \in Nat : g[k + 1] = WriteByte(g[k], <<d.slot, root[d.slot].size + k>>)
           /\ \A n \in Nat : Turns(d, n) = g[n]
<1> DEFINE S == LoopState
           Byt(k) == <<d.slot, root[d.slot].size + k - 1>>
           F == [x \in Nat \X S |-> IF x[1] = 0 THEN x[2] ELSE WriteByte(x[2], Byt(x[1]))]
           s0 == Start(d)
           after == CHOOSE a : a = [k \in Nat |-> IF k = 0 THEN Start(d)
                                                  ELSE WriteByte(a[k - 1], Byt(k))]
<1>1. ASSUME NEW k \in Nat, k # 0 PROVE Byt(k) \in Named
  <2>1. root[d.slot].size + k - 1 \in Nat
    BY <1>1
  <2> QED BY <2>1 DEF Named
<1>2. Steps(S, F)
  <2> SUFFICES ASSUME NEW k \in Nat, NEW x \in S PROVE F[<<k, x>>] \in S
    BY DEF Steps
  <2>1. F[<<k, x>>] = IF k = 0 THEN x ELSE WriteByte(x, Byt(k))
    <3> HIDE DEF S, Byt
    <3> QED OBVIOUS
  <2> HIDE DEF F, Byt
  <2> QED BY <2>1, <1>1, TurnType
<1>3. PICK g \in [Nat -> S] :
        g[0] = s0 /\ \A n \in Nat : g[n + 1] = F[<<n + 1, g[n]>>]
  <2> HIDE DEF F, S, s0
  <2>1. s0 \in S
    BY DEF S, s0
  <2> QED BY <2>1, <1>2, RecursionExists
<1>4. ASSUME NEW n \in Nat
      PROVE  /\ g[n] \in S /\ g[n + 1] = WriteByte(g[n], Byt(n + 1))
             /\ Byt(n + 1) = <<d.slot, root[d.slot].size + n>>
  <2>1. g[n + 1] = F[<<n + 1, g[n]>>] /\ g[n] \in S /\ n + 1 \in Nat /\ n + 1 # 0
    <3> HIDE DEF F, S
    <3> QED BY <1>3
  <2>2. F[<<n + 1, g[n]>>] = WriteByte(g[n], Byt(n + 1))
    <3> HIDE DEF S, Byt
    <3> QED BY <2>1
  <2>3. root[d.slot].size + (n + 1) - 1 = root[d.slot].size + n
    OBVIOUS
  <2> HIDE DEF F, S
  <2> QED BY <2>1, <2>2, <2>3
<1>5. g = [k \in Nat |-> IF k = 0 THEN Start(d) ELSE WriteByte(g[k - 1], Byt(k))]
  <2> HIDE DEF S, Byt, F
  <2>1. ASSUME NEW k \in Nat, k # 0 PROVE g[k] = WriteByte(g[k - 1], Byt(k))
    <3>1. k - 1 \in Nat /\ (k - 1) + 1 = k
      BY <2>1
    <3>2. g[(k - 1) + 1] = WriteByte(g[k - 1], Byt((k - 1) + 1))
      BY <3>1, <1>4
    <3> QED BY <3>1, <3>2
  <2>2. g[0] = Start(d)
    BY <1>3 DEF s0
  <2> QED BY <1>3, <2>1, <2>2
<1>6. after = [k \in Nat |-> IF k = 0 THEN Start(d) ELSE WriteByte(after[k - 1], Byt(k))]
  <2> HIDE DEF Byt
  <2> QED BY <1>5
<1>7. \A n \in Nat : Turns(d, n) = after[n]
  BY DEF Turns, Start
<1>8. after = g
  <2> DEFINE Same == {k \in Nat : after[k] = g[k]}
  <2> HIDE DEF after, Byt, S, F
  <2>1. 0 \in Same
    BY <1>5, <1>6
  <2>2. ASSUME NEW k \in Nat, k \in Same PROVE k + 1 \in Same
    <3>1. k + 1 \in Nat /\ k + 1 # 0 /\ (k + 1) - 1 = k
      OBVIOUS
    <3>2. after[k + 1] = WriteByte(after[(k + 1) - 1], Byt(k + 1))
      BY <3>1, <1>6
    <3>3. g[k + 1] = WriteByte(g[(k + 1) - 1], Byt(k + 1))
      BY <3>1, <1>5
    <3> QED BY <2>2, <3>1, <3>2, <3>3
  <2>3. \A k \in Nat : after[k] = g[k]
    <3> HIDE DEF Same
    <3>1. Nat \subseteq Same
      BY <2>1, <2>2, SetInduction
    <3> QED BY <3>1 DEF Same
  <2> QED BY <2>3, <1>5, <1>6
<1> HIDE DEF after, Byt, F
<1> QED BY <1>3, <1>4, <1>7, <1>8 DEF s0, S

\* A byte put in a cluster.
Put(dt, c, o, byte) == [dt EXCEPT ![c][o] = byte]

Stopped(st, t) ==
  ~t.ok /\ t.fat = st.fat /\ t.data = st.data /\ t.current = st.current /\ t.size = st.size

Filled(st, t, byte) ==
  /\ ~Grows(st.size) /\ t.ok
  /\ t.fat = st.fat /\ t.current = st.current /\ t.size = st.size + 1
  /\ t.data = Put(st.data, st.current, st.size % BPC, byte)

Extended(st, t, byte) ==
  /\ Grows(st.size) /\ t.ok
  /\ t.current \in FreeClusters(st.fat)
  /\ t.fat = Linked(st.fat, st.current, t.current) /\ t.size = st.size + 1
  /\ t.data = Put(st.data, t.current, st.size % BPC, byte)

LEMMA TurnCases ==
  ASSUME NEW st \in LoopState, NEW byte
  PROVE  \/ Stopped(st, WriteByte(st, byte))
         \/ Filled(st, WriteByte(st, byte), byte) /\ st.ok
         \/ Extended(st, WriteByte(st, byte), byte) /\ st.ok
<1> DEFINE new == FreeCluster(st.fat)
           t == WriteByte(st, byte)
<1>1. CASE ~st.ok \/ (Grows(st.size) /\ new = End)
  <2>1. t = [st EXCEPT !.ok = FALSE]
    BY <1>1 DEF WriteByte
  <2> HIDE DEF t
  <2> QED BY <2>1 DEF LoopState, Stopped, t
<1>2. CASE st.ok /\ ~Grows(st.size)
  <2>1. t = [fat |-> st.fat, data |-> [st.data EXCEPT ![st.current][st.size % BPC] = byte],
             current |-> st.current, size |-> st.size + 1, ok |-> TRUE]
    BY <1>2 DEF WriteByte
  <2> HIDE DEF t
  <2> QED BY <2>1, <1>2 DEF Filled, Put, t
<1>3. CASE st.ok /\ Grows(st.size) /\ new # End
  <2>1. t = [fat |-> [st.fat EXCEPT ![new] = End, ![st.current] = new],
             data |-> [st.data EXCEPT ![new][st.size % BPC] = byte],
             current |-> new, size |-> st.size + 1, ok |-> TRUE]
    BY <1>3 DEF WriteByte
  <2>2. new \in FreeClusters(st.fat)
    BY <1>3, FreeClusterIs
  <2> HIDE DEF t, new
  <2> QED BY <2>1, <2>2, <1>3 DEF Extended, Put, Linked, t
<1> QED BY <1>1, <1>2, <1>3

LEMMA PutType ==
  ASSUME NEW dt \in [Cluster -> [Offset -> Byte]], NEW c \in Cluster,
         NEW o \in Offset, NEW byte \in Byte
  PROVE  /\ Put(dt, c, o, byte) \in [Cluster -> [Offset -> Byte]]
         /\ Put(dt, c, o, byte)[c][o] = byte
         /\ \A x \in Cluster : \A y \in Offset :
              x # c \/ y # o => Put(dt, c, o, byte)[x][y] = dt[x][y]
BY DEF Put

\* What holds after each turn.
Turning(st, d, k) ==
  /\ st.fat \in Table /\ Sound(st.fat, root)
  /\ st.data \in [Cluster -> [Offset -> Byte]]
  /\ \E e \in UsedIn(root) : st.current = Last(Chain(st.fat, root[e].first))
  /\ st.size \in Nat /\ st.size <= d.size + k

LEMMA TurnAgrees ==
  ASSUME Agree, NEW d, d.size \in Nat, NEW k \in Nat, NEW byte \in Byte,
         NEW st \in LoopState, Turning(st, d, k)
  PROVE  Turning(WriteByte(st, byte), d, k + 1)
<1> DEFINE t == WriteByte(st, byte)
<1>1. /\ st.current \in Cluster /\ st.size % BPC \in Offset
  BY RestIsOffset DEF LoopState
<1> HIDE DEF t
<1>2. CASE Stopped(st, t)
  <2>1. t.size \in Nat /\ t.size <= d.size + (k + 1)
    BY <1>2 DEF Stopped, Turning
  <2> QED BY <1>2, <2>1 DEF Stopped, Turning, t
<1>3. CASE Filled(st, t, byte)
  <2>1. t.data \in [Cluster -> [Offset -> Byte]]
    BY <1>1, <1>3, PutType DEF Filled, Turning
  <2>2. t.size \in Nat /\ t.size <= d.size + (k + 1)
    BY <1>3 DEF Filled, Turning
  <2> QED BY <1>3, <2>1, <2>2 DEF Filled, Turning, t
<1>4. CASE Extended(st, t, byte)
  <2>1. t.current \in Cluster
    BY <1>4 DEF Extended, FreeClusters
  <2>2. t.data \in [Cluster -> [Offset -> Byte]]
    <3>1. t.data = Put(st.data, t.current, st.size % BPC, byte)
      BY <1>4 DEF Extended
    <3>2. st.data \in [Cluster -> [Offset -> Byte]]
      BY DEF Turning
    <3> QED BY <1>1, <2>1, <3>1, <3>2, PutType
  <2>3. t.size \in Nat /\ t.size <= d.size + (k + 1)
    BY <1>4 DEF Extended, Turning
  <2>4. PICK e \in UsedIn(root) : st.current = Last(Chain(st.fat, root[e].first))
    BY DEF Turning
  <2>5. /\ t.fat \in Table /\ Sound(t.fat, root)
        /\ Chain(t.fat, root[e].first) = Append(Chain(st.fat, root[e].first), t.current)
    BY <1>4, <2>4, ExtendSound DEF Extended, Turning
  <2>6. Chain(st.fat, root[e].first) \in Seq(Cluster)
    BY SoundFacts, ChainElements DEF Turning
  <2>7. t.current = Last(Chain(t.fat, root[e].first))
    BY <2>1, <2>5, <2>6 DEF Last
  <2> QED BY <2>2, <2>3, <2>5, <2>7 DEF Turning, t
<1> QED BY <1>2, <1>3, <1>4, TurnCases DEF t

LEMMA StartIn ==
  ASSUME Agree, NEW d, Opened(d), ToSet(Chain(fat, d.first)) \subseteq Cluster
  PROVE  Start(d) \in LoopState /\ Turning(Start(d), d, 0) /\ root[d.slot].size \in Nat
<1>1. PICK e \in UsedIn(root) : Last(Chain(fat, d.first)) = Last(Chain(fat, root[e].first))
  BY SameEnd DEF Agree, Opened
<1>2. Last(Chain(fat, root[e].first)) \in Cluster
  <2>1. IsChain(fat, Chain(fat, root[e].first))
    BY SoundFacts DEF Agree
  <2> QED BY <2>1, ChainElements DEF Last
<1>3. fat \in Table /\ data \in [Cluster -> [Offset -> Byte]] /\ Sound(fat, root)
  BY DEF Agree
<1>4. data \in [Cluster -> [Offset -> Named]]
  <2>1. Byte \subseteq Named
    BY Sizes DEF Byte, Named
  <2> QED BY <1>3, <2>1
<1>5. d.size \in Nat /\ root[d.slot].size \in Nat
  BY Sizes DEF Opened, Agree, Directory
<1>6. Start(d) \in LoopState
  BY <1>1, <1>2, <1>3, <1>4, <1>5 DEF LoopState, Start
<1>7. Turning(Start(d), d, 0)
  <2>1. d.size <= d.size + 0
    BY <1>5
  <2> QED BY <1>1, <1>3, <1>5, <2>1 DEF Turning, Start
<1> QED BY <1>5, <1>6, <1>7

LEMMA TurnsAgree ==
  ASSUME Agree, NEW d, Opened(d), ToSet(Chain(fat, d.first)) \subseteq Cluster,
         NEW n \in Nat, root[d.slot].size + n <= MaxLen
  PROVE  Turning(Turns(d, n), d, n) /\ Turns(d, n) \in LoopState
<1>1. Start(d) \in LoopState /\ Turning(Start(d), d, 0) /\ root[d.slot].size \in Nat
      /\ d.slot \in Slot /\ d.size \in Nat /\ MaxLen \in Nat
  BY StartIn, Sizes DEF Opened
<1>2. PICK g \in [Nat -> LoopState] :
        /\ g[0] = Start(d)
        /\ \A k \in Nat : g[k + 1] = WriteByte(g[k], <<d.slot, root[d.slot].size + k>>)
        /\ \A m \in Nat : Turns(d, m) = g[m]
  BY <1>1, TurnsAre
<1> DEFINE Good == {k \in Nat : k <= n => Turning(g[k], d, k)}
<1>3. 0 \in Good
  BY <1>1, <1>2
<1>4. ASSUME NEW k \in Nat, k \in Good PROVE k + 1 \in Good
  <2> SUFFICES ASSUME k + 1 <= n PROVE Turning(g[k + 1], d, k + 1)
    OBVIOUS
  <2>1. k <= n
    OBVIOUS
  <2>2. Turning(g[k], d, k) /\ g[k] \in LoopState
    BY <2>1, <1>4
  <2>3. root[d.slot].size + k \in 0 .. MaxLen - 1
    BY <1>1
  <2>4. <<d.slot, root[d.slot].size + k>> \in Byte
    BY <2>3, <1>1 DEF Byte
  <2> QED BY <1>1, <1>2, <2>2, <2>4, TurnAgrees
<1>5. n \in Good
  <2> HIDE DEF Good
  <2> QED BY <1>3, <1>4, SetInduction
<1> QED BY <1>2, <1>5

-----------------------------------------------------------------------------
(* The steps.                                                              *)

\* All descriptors but one are as they were.
Others(g, h, p, i) ==
  /\ DOMAIN h = DOMAIN g
  /\ \A q \in Procs : DOMAIN h[q] = DOMAIN g[q]
  /\ \A q \in Procs : \A j \in File : q # p \/ j # i => h[q][j] = g[q][j]

LEMMA OthersOpened ==
  ASSUME NEW g, NEW h, OpenedIn(g), NEW p \in Procs, NEW i \in File,
         Others(g, h, p, i), Opened(h[p][i])
  PROVE  OpenedIn(h)
<1>1. ASSUME NEW q \in Procs, NEW j \in File, h[q][j] # Closed PROVE Opened(h[q][j])
  <2>1. CASE q = p /\ j = i
    BY <2>1
  <2>2. CASE q # p \/ j # i
    BY <2>2, <1>1 DEF Others, OpenedIn
  <2> QED BY <2>1, <2>2
<1> QED BY <1>1 DEF Others, OpenedIn

LEMMA FreeFileIs ==
  ASSUME NEW p, FreeFile(p) # 0
  PROVE  FreeFile(p) \in File /\ fd[p][FreeFile(p)] = Closed
<1> DEFINE Shut == {i \in File : fd[p][i] = Closed}
<1>1. Shut # {} /\ FreeFile(p) = Min(Shut)
  BY DEF FreeFile
<1>2. Shut \in SUBSET Nat
  BY DEF File
<1>3. Min(Shut) \in Shut
  BY <1>1, <1>2, MinIn
<1> QED BY <1>1, <1>3

LEMMA NewOpened ==
  ASSUME OpenedIn(fd), NEW p \in Procs, NEW i \in File,
         NEW s \in Slot, NEW first \in Cluster, NEW size \in 0 .. MaxLen,
         fd' = [fd EXCEPT ![p][i] = NewDescriptor(s, first, size)]
  PROVE  /\ OpenedIn(fd') /\ Others(fd, fd', p, i)
         /\ fd'[p][i] = NewDescriptor(s, first, size)
<1> DEFINE d == NewDescriptor(s, first, size)
<1>1. Opened(d)
  BY DEF Opened, NewDescriptor
<1> HIDE DEF d
<1>2. Others(fd, fd', p, i) /\ fd'[p][i] = d
  BY DEF OpenedIn, Others, d
<1> QED BY <1>1, <1>2, OthersOpened DEF d

LEMMA InitAgree == ASSUME Init PROVE Agree
<1>1. fat \in Table
  BY DEF Init, Table
<1>2. root \in Directory /\ UsedIn(root) = {}
  <2>1. root = [s \in Slot |-> Empty]
    BY DEF Init
  <2>2. 0 \in 0 .. MaxLen
    BY Sizes
  <2>3. Empty \in [kind : {"file", "dir", "empty", "deleted"}, name : Names \cup {NoName},
                   first : Cluster \cup {0}, size : 0 .. MaxLen]
    BY <2>2 DEF Empty
  <2> QED BY <2>1, <2>3 DEF Directory, UsedIn, Empty
<1>3. \A c \in Cluster : fat[c] = Free
  BY Sizes DEF Init, Entries
<1>4. Sound(fat, root)
  BY <1>2, <1>3 DEF Sound
<1>5. NoneHidden(root)
  BY DEF NoneHidden, Init, Empty
<1>6. data \in [Cluster -> [Offset -> Byte]]
  BY DEF Init, Byte
<1>7. OpenedIn(fd)
  BY DEF Init, OpenedIn
<1> QED BY <1>1, <1>2, <1>4, <1>5, <1>6, <1>7 DEF Agree

LEMMA OpenFileAgree ==
  ASSUME Agree, NEW p \in Procs, NEW name \in Names, OpenFile(p, name)
  PROVE  Agree'
<1>1. FreeFile(p) \in File /\ Lookup(name) \in UsedIn(root) /\ Lookup(name) \in Slot
  <2>1. Lookup(name) # 0
    BY DEF OpenFile, Files, Slot
  <2> QED BY <2>1, FreeFileIs, LookupIs DEF OpenFile, Agree, UsedIn
<1>2. /\ root[Lookup(name)].first \in Cluster
      /\ root[Lookup(name)].size \in 0 .. MaxLen
  BY <1>1, SoundFacts DEF Agree, Directory
<1>3. OpenedIn(fd')
  BY <1>1, <1>2, NewOpened DEF OpenFile, Agree
<1>4. UNCHANGED <<fat, data, root>>
  BY DEF OpenFile
<1> QED BY <1>3, <1>4 DEF Agree

\* What AddEntry does, as the lemmas say it.
LEMMA AddIs ==
  ASSUME Agree, NEW name \in Names, NEW kind \in {"file", "dir"}, ~AddFails,
         AddEntry(name, kind)
  PROVE  /\ FreeEntry \in Slot \ UsedIn(root) /\ FreeCluster(fat) \in FreeClusters(fat)
         /\ FreeCluster(fat) \in Cluster
         /\ fat' = Ended(fat, FreeCluster(fat))
         /\ root' = Entered(root, FreeEntry, kind, name, FreeCluster(fat))
         /\ fat' \in Table /\ root' \in Directory /\ Sound(fat', root') /\ NoneHidden(root')
<1>1. FreeEntry # 0 /\ FreeClusters(fat) # {}
  BY DEF AddFails
<1>2. /\ FreeEntry \in Slot \ UsedIn(root)
      /\ \A t \in Slot : t < FreeEntry => root[t].kind # "empty"
  BY <1>1, FreeEntryIs DEF Agree
<1>3. FreeCluster(fat) \in FreeClusters(fat) /\ FreeCluster(fat) \in Cluster
  BY <1>1, FreeClusterIs DEF FreeClusters
<1>4. /\ fat' = Ended(fat, FreeCluster(fat))
      /\ root' = Entered(root, FreeEntry, kind, name, FreeCluster(fat))
  BY DEF AddEntry, Ended, Entered
<1>5. fat' \in Table /\ Sound(fat', root')
  BY <1>2, <1>3, <1>4, AddSound DEF Agree
<1>6. root' \in Directory /\ NoneHidden(root')
  BY <1>2, <1>3, <1>4, AddNoneHidden DEF Agree
<1> QED BY <1>2, <1>3, <1>4, <1>5, <1>6

LEMMA OpenNewAgree ==
  ASSUME Agree, NEW p \in Procs, NEW name \in Names, OpenNew(p, name)
  PROVE  Agree'
<1>1. ~AddFails /\ AddEntry(name, "file") /\ FreeFile(p) # 0
  BY DEF OpenNew
<1>2. /\ FreeEntry \in Slot /\ FreeCluster(fat) \in Cluster
      /\ fat' \in Table /\ root' \in Directory /\ Sound(fat', root') /\ NoneHidden(root')
  BY <1>1, AddIs
<1>3. FreeFile(p) \in File /\ 0 \in 0 .. MaxLen
  BY <1>1, FreeFileIs, Sizes
<1>4. OpenedIn(fd')
  BY <1>2, <1>3, NewOpened DEF OpenNew, Agree
<1>5. data' = data
  BY DEF OpenNew
<1> QED BY <1>2, <1>4, <1>5 DEF Agree

LEMMA MkdirAgree ==
  ASSUME Agree, NEW name \in Names, Mkdir(name)
  PROVE  Agree'
<1>1. ~AddFails /\ AddEntry(name, "dir") /\ data' = data /\ fd' = fd
  BY DEF Mkdir
<1>2. fat' \in Table /\ root' \in Directory /\ Sound(fat', root') /\ NoneHidden(root')
  BY <1>1, AddIs
<1> QED BY <1>1, <1>2 DEF Agree

LEMMA RmAgree ==
  ASSUME Agree, NEW name \in Names, Rm(name)
  PROVE  /\ Agree' /\ Lookup(name) \in UsedIn(root)
         /\ fat' = Without(fat, Held(fat, root, Lookup(name)))
         /\ root' = Removed(root, Lookup(name))
<1> DEFINE s == Lookup(name)
           Gone == Freed(s)
<1>1. s \in UsedIn(root)
  BY LookupIs DEF Rm, Agree
<1>2. Gone = Held(fat, root, s)
  BY DEF Freed, Held
<1>3. fat' = Without(fat, Gone) /\ root' = Removed(root, s)
  BY DEF Rm, Without, Removed
<1>4. data' = [c \in Cluster |-> IF c \in Gone THEN [o \in Offset |-> Blank] ELSE data[c]]
  BY DEF Rm
<1>5. fd' = [p \in Procs |-> [i \in File |->
                 IF fd[p][i] # Closed /\ fd[p][i].slot = s
                   THEN [fd[p][i] EXCEPT !.use = "removed"] ELSE fd[p][i]]]
  BY DEF Rm
<1> HIDE DEF s, Gone
<1>6. fat' \in Table /\ Sound(fat', root')
  BY <1>1, <1>2, <1>3, RemoveSound DEF Agree
<1>7. root' \in Directory /\ NoneHidden(root')
  BY <1>1, <1>3, KindNoneHidden DEF Agree
<1>8. data' \in [Cluster -> [Offset -> Byte]]
  BY <1>4 DEF Agree, Byte
<1>9. OpenedIn(fd')
  <2>1. ASSUME NEW p \in Procs, NEW i \in File, fd'[p][i] # Closed PROVE Opened(fd'[p][i])
    <3>1. fd'[p][i] = IF fd[p][i] # Closed /\ fd[p][i].slot = s
                        THEN [fd[p][i] EXCEPT !.use = "removed"] ELSE fd[p][i]
      BY <1>5
    <3>2. Opened(fd[p][i])
      BY <2>1, <3>1 DEF Agree, OpenedIn
    <3> QED BY <3>1, <3>2 DEF Opened
  <2>2. DOMAIN fd' = Procs /\ \A p \in Procs : DOMAIN fd'[p] = File
    BY <1>5
  <2> QED BY <2>1, <2>2 DEF OpenedIn
<1>10. Agree'
  BY <1>6, <1>7, <1>8, <1>9 DEF Agree
<1> QED BY <1>1, <1>2, <1>3, <1>10 DEF s

LEMMA ExecAgree ==
  ASSUME Agree, NEW p \in Procs, Exec(p)
  PROVE  Agree'
<1>1. DOMAIN fd' = Procs /\ \A q \in Procs : DOMAIN fd'[q] = File
  BY DEF Exec, Agree, OpenedIn
<1>2. ASSUME NEW q \in Procs, NEW i \in File, fd'[q][i] # Closed
      PROVE  fd'[q][i] = fd[q][i]
  BY <1>2 DEF Exec, Agree, OpenedIn
<1>3. OpenedIn(fd')
  BY <1>1, <1>2 DEF OpenedIn, Agree
<1>4. UNCHANGED <<fat, data, root>>
  BY DEF Exec
<1> QED BY <1>3, <1>4 DEF Agree

\* What a read and a write leave in the descriptor.
ReadTo(d, r) ==
  [d EXCEPT !.cursor = d.cursor + Len(r.bytes), !.current = r.current, !.buff = r.buff]
WrittenTo(d, done) ==
  [d EXCEPT !.current = done.current, !.size = done.size,
            !.use = IF @ = "removed" THEN @ ELSE "written"]

LEMMA ReadDescriptor ==
  ASSUME OpenedIn(fd), NEW p \in Procs, NEW i \in File, NEW n, Read(p, i, n)
  PROVE  LET d == fd[p][i]
             r == ReadResult(d, n)
             e == fd'[p][i]
         IN  /\ Opened(d) /\ Opened(e) /\ Others(fd, fd', p, i) /\ OpenedIn(fd')
             /\ e = ReadTo(d, r)
<1> DEFINE d == fd[p][i]
           r == ReadResult(d, n)
           e == ReadTo(d, r)
<1>1. Opened(d)
  BY DEF Read, OpenedIn
<1>2. fd' = [fd EXCEPT ![p][i].cursor = @ + Len(r.bytes), ![p][i].current = r.current,
                       ![p][i].buff = r.buff]
  BY DEF Read
<1> HIDE DEF r
<1>3. Others(fd, fd', p, i)
  BY <1>2 DEF Others, OpenedIn
<1>4. fd'[p][i] = e
  BY <1>2 DEF OpenedIn, ReadTo
<1>5. Opened(e)
  BY <1>1 DEF Opened, ReadTo
<1>6. OpenedIn(fd')
  BY <1>3, <1>4, <1>5, OthersOpened
<1> QED BY <1>1, <1>3, <1>4, <1>5, <1>6 DEF r

LEMMA ReadAgree ==
  ASSUME Agree, NEW p \in Procs, NEW i \in File, NEW n, Read(p, i, n)
  PROVE  Agree'
<1>1. OpenedIn(fd')
  BY ReadDescriptor DEF Agree
<1>2. UNCHANGED <<fat, data, root>>
  BY DEF Read
<1> QED BY <1>1, <1>2 DEF Agree

LEMMA WriteDescriptor ==
  ASSUME OpenedIn(fd), NEW p \in Procs, NEW i \in File, NEW n, Write(p, i, n),
         Turns(fd[p][i], n).size \in 0 .. MaxLen
  PROVE  LET d == fd[p][i]
             done == Turns(d, n)
             e == fd'[p][i]
         IN  /\ Opened(d) /\ Opened(e) /\ Others(fd, fd', p, i) /\ OpenedIn(fd')
             /\ e = WrittenTo(d, done)
<1> DEFINE d == fd[p][i]
           done == Turns(d, n)
           e == WrittenTo(d, done)
<1>1. Opened(d)
  BY DEF Write, OpenedIn
<1>2. fd' = [fd EXCEPT ![p][i].current = done.current, ![p][i].size = done.size,
                       ![p][i].use = IF @ = "removed" THEN @ ELSE "written"]
  BY DEF Write
<1>3. done.size \in 0 .. MaxLen
  OBVIOUS
<1> HIDE DEF done
<1>4. Others(fd, fd', p, i)
  BY <1>2 DEF Others, OpenedIn
<1>5. fd'[p][i] = e
  BY <1>2 DEF OpenedIn, WrittenTo
<1>6. Opened(e)
  BY <1>1, <1>3 DEF Opened, WrittenTo
<1>7. OpenedIn(fd')
  BY <1>4, <1>5, <1>6, OthersOpened
<1> QED BY <1>1, <1>4, <1>5, <1>6, <1>7 DEF done

LEMMA WriteAgree ==
  ASSUME Agree, NEW p \in Procs, NEW i \in File, NEW n \in Nat, Write(p, i, n)
  PROVE  Agree'
<1> DEFINE d == fd[p][i]
           done == Turns(d, n)
<1>1. Opened(d)
  BY DEF Write, Agree, OpenedIn
<1>2. /\ root[d.slot].size + n <= MaxLen /\ d.size + n <= MaxLen
      /\ ToSet(Chain(fat, d.first)) \subseteq Cluster
      /\ fat' = done.fat /\ data' = done.data
      /\ root' = IF done.ok /\ root[d.slot].kind \in {"file", "dir"}
                   THEN Resized(root, d.slot, done.size) ELSE root
  BY DEF Write, Resized
<1>3. Turning(done, d, n) /\ done \in LoopState
  BY <1>1, <1>2, TurnsAgree
<1>4. done.size \in 0 .. MaxLen
  BY <1>1, <1>2, <1>3, Sizes DEF Turning, Opened
<1>5. OpenedIn(fd')
  BY <1>4, WriteDescriptor DEF Agree
<1> HIDE DEF done, d
<1>6. fat' \in Table /\ Sound(fat', root) /\ data' \in [Cluster -> [Offset -> Byte]]
  BY <1>2, <1>3 DEF Turning
<1>7. root' \in Directory /\ Sound(fat', root') /\ NoneHidden(root')
  <2>1. CASE done.ok /\ root[d.slot].kind \in {"file", "dir"}
    <3>1. d.slot \in UsedIn(root) /\ done.size \in Nat
      BY <2>1, <1>1, <1>4 DEF Opened, UsedIn
    <3>2. root' = Resized(root, d.slot, done.size)
      BY <1>2, <2>1
    <3>3. Sound(fat', root')
      BY <3>1, <3>2, <1>6, ResizeSound DEF Agree
    <3>4. root' \in Directory /\ NoneHidden(root')
      BY <3>1, <3>2, <1>4, KindNoneHidden DEF Agree
    <3> QED BY <3>3, <3>4
  <2>2. CASE ~(done.ok /\ root[d.slot].kind \in {"file", "dir"})
    BY <2>2, <1>2, <1>6 DEF Agree
  <2> QED BY <2>1, <2>2
<1> QED BY <1>5, <1>6, <1>7 DEF Agree

LEMMA StepAgree == Agree /\ [Next]_vars => Agree'
<1> SUFFICES ASSUME Agree, [Next]_vars PROVE Agree'
  OBVIOUS
<1>1. ASSUME NEW p \in Procs, NEW name \in Names, OpenFile(p, name) PROVE Agree'
  BY <1>1, OpenFileAgree
<1>2. ASSUME NEW p \in Procs, NEW name \in Names, OpenNew(p, name) PROVE Agree'
  BY <1>2, OpenNewAgree
<1>3. ASSUME NEW name \in Names, Mkdir(name) PROVE Agree'
  BY <1>3, MkdirAgree
<1>4. ASSUME NEW name \in Names, Rm(name) PROVE Agree'
  BY <1>4, RmAgree
<1>5. ASSUME NEW p \in Procs, Exec(p) PROVE Agree'
  BY <1>5, ExecAgree
<1>6. ASSUME NEW p \in Procs, NEW i \in File, NEW n \in Lengths, Write(p, i, n) PROVE Agree'
  BY <1>6, WriteAgree, Sizes
<1>7. ASSUME NEW p \in Procs, NEW i \in File, NEW n \in Lengths, Read(p, i, n) PROVE Agree'
  BY <1>7, ReadAgree
<1>8. CASE UNCHANGED vars
  BY <1>8 DEF vars, Agree
<1> QED BY <1>1, <1>2, <1>3, <1>4, <1>5, <1>6, <1>7, <1>8 DEF Next

\* Whatever the programs do with their descriptors, among it writing through the
\* descriptor of a file whose clusters another one has taken or by one older than the last
\* append, the chains of the entries end, share no cluster and hold all that is not free:
\* write_data, add_entry and delete_entry of fat_driver.cpp keep the table whole, as long
\* as no write leaves the data area (a chain that runs into a free entry, in Write).
THEOREM Table_Sound == Spec => []TableSound
<1>1. Spec => []Agree
  BY InitAgree, StepAgree, PTL DEF Spec
<1>2. Agree => TableSound
  BY AgreeSound
<1> QED BY <1>1, <1>2, PTL

-----------------------------------------------------------------------------
(* Positions in a file. The byte at n is in the cluster number Place(n) of *)
(* the chain; Begun(n) clusters are begun when n bytes are there.          *)

Place(n) == n \div BPC + 1
Rest(n)  == n % BPC
Begun(n) == (n + BPC - 1) \div BPC
Upto(q)  == BPC * q

LEMMA Times ==
  /\ Upto(0) = 0
  /\ \A q \in Nat : Upto(q) \in Nat
  /\ \A q \in Int : Upto(q) \in Int
  /\ \A q, r \in Int : r = q + 1 => Upto(r) = Upto(q) + BPC
  /\ \A q, r \in Int : q <= r => Upto(q) <= Upto(r)
  /\ \A q, r \in Int : Upto(q) < Upto(r) => q < r
<1>0. BPC \in Nat
  BY Sizes
<1>1. \A q, r \in Int : q <= r => BPC * q <= BPC * r
  BY <1>0, TimesGrows
<1>2. ASSUME NEW q \in Int, NEW r \in Int, BPC * q < BPC * r PROVE q < r
  <2>1. BPC * q \in Int /\ BPC * r \in Int
    BY <1>0
  <2>2. ~(r <= q)
    BY <1>1, <1>2, <2>1
  <2> QED BY <2>2
<1>3. \A q \in Int : BPC * q \in Int /\ BPC * (q + 1) = BPC * q + BPC
  BY <1>0
<1>5. \A q \in Nat : BPC * q \in Nat
  BY <1>0
<1>6. BPC * 0 = 0
  BY <1>0
<1> QED BY <1>1, <1>2, <1>3, <1>5, <1>6 DEF Upto

LEMMA UptoSum ==
  ASSUME NEW q \in Int, NEW r \in Int
  PROVE  Upto(q + r) = Upto(q) + Upto(r)
BY Sizes, Distributes DEF Upto

LEMMA Split ==
  ASSUME NEW n \in Nat
  PROVE  /\ Place(n) \in Nat /\ Place(n) >= 1 /\ Rest(n) \in Offset /\ Rest(n) \in Nat
         /\ Upto(Place(n) - 1) \in Nat
         /\ n = Upto(Place(n) - 1) + Rest(n)
<1>1. BPC \in Nat \ {0} /\ n \in Int /\ n >= 0
  BY Sizes
<1>2. /\ n \div BPC \in Int /\ n % BPC \in 0 .. BPC - 1
      /\ n = BPC * (n \div BPC) + (n % BPC)
      /\ n \div BPC >= 0
  BY <1>1, Quotient
<1> DEFINE q == n \div BPC
           r == n % BPC
<1>3. Place(n) = q + 1 /\ Rest(n) = r
  BY DEF Place, Rest
<1> HIDE DEF q, r
<1>4. q \in Nat /\ r \in 0 .. BPC - 1 /\ n = Upto(q) + r
  BY <1>2 DEF q, r, Upto
<1>5. (q + 1) - 1 = q
  BY <1>4
<1>6. Upto(q) \in Nat
  BY <1>4, Times
<1> QED BY <1>1, <1>3, <1>4, <1>5, <1>6 DEF Offset

LEMMA Parts ==
  ASSUME NEW n \in Nat
  PROVE  \E q \in Nat, o \in 0 .. BPC - 1 :
           n = Upto(q) + o /\ Place(n) = q + 1 /\ Rest(n) = o
<1>1. /\ Place(n) \in Nat /\ Place(n) >= 1 /\ Rest(n) \in 0 .. BPC - 1
      /\ n = Upto(Place(n) - 1) + Rest(n)
  BY Split DEF Offset
<1>2. Place(n) - 1 \in Nat /\ Place(n) = (Place(n) - 1) + 1
  BY <1>1
<1> QED BY <1>1, <1>2

LEMMA SplitUnique ==
  ASSUME NEW q \in Nat, NEW o \in Offset
  PROVE  Place(Upto(q) + o) = q + 1 /\ Rest(Upto(q) + o) = o
<1>1. BPC \in Nat \ {0} /\ q \in Int /\ o \in 0 .. BPC - 1
  BY Sizes DEF Offset
<1> QED BY <1>1, QuotientUnique DEF Place, Rest, Upto

LEMMA SplitApart ==
  ASSUME NEW m \in Nat, NEW n \in Nat, m # n
  PROVE  Place(m) # Place(n) \/ Rest(m) # Rest(n)
BY Split

LEMMA PlaceGrows ==
  ASSUME NEW m \in Nat, NEW n \in Nat, m <= n
  PROVE  Place(m) <= Place(n)
<1>1. PICK x \in Nat, o \in 0 .. BPC - 1 : m = Upto(x) + o /\ Place(m) = x + 1
  BY Parts
<1>2. PICK y \in Nat, t \in 0 .. BPC - 1 : n = Upto(y) + t /\ Place(n) = y + 1
  BY Parts
<1>3. /\ Upto(y + 1) = Upto(y) + BPC /\ Upto(x) \in Int /\ Upto(y) \in Int
      /\ y + 1 <= x => Upto(y + 1) <= Upto(x)
  <2>1. x \in Int /\ y \in Int /\ y + 1 \in Int
    OBVIOUS
  <2>2. Upto(y + 1) = Upto(y) + BPC
    BY <2>1, Times
  <2>3. y + 1 <= x => Upto(y + 1) <= Upto(x)
    BY <2>1, Times
  <2>4. Upto(x) \in Int /\ Upto(y) \in Int
    BY <2>1, Times
  <2> QED BY <2>2, <2>3, <2>4
<1>4. ~(y + 1 <= x)
  <2> DEFINE u == Upto(x)
             v == Upto(y)
  <2>1. u \in Int /\ v \in Int /\ (y + 1 <= x => v + BPC <= u)
    BY <1>3
  <2>2. m = u + o /\ n = v + t /\ o \in Nat /\ t \in Nat /\ t < BPC /\ BPC \in Nat
    BY <1>1, <1>2, Sizes
  <2> HIDE DEF u, v
  <2> QED BY <2>1, <2>2
<1> QED BY <1>1, <1>2, <1>4

\* The clusters begun, in terms of the place of the byte that comes next.
LEMMA BegunIs ==
  ASSUME NEW n \in Nat
  PROVE  /\ Rest(n) = 0 => Begun(n) = Place(n) - 1
         /\ Rest(n) # 0 => Begun(n) = Place(n)
         /\ Begun(n) \in Nat
<1>0. PICK q \in Nat, o \in 0 .. BPC - 1 : n = Upto(q) + o /\ Place(n) = q + 1 /\ Rest(n) = o
  BY Parts
<1>1. /\ q \in Nat /\ n = Upto(q) + Rest(n) /\ Rest(n) \in 0 .. BPC - 1 /\ Place(n) = q + 1
      /\ BPC \in Nat /\ BPC >= 1
  BY <1>0, Sizes
<1>2. Begun(n) = Place(n + BPC - 1) - 1
  <2>1. n + BPC - 1 \in Nat
    BY <1>1
  <2>2. Place(n + BPC - 1) \in Nat
    BY <2>1, Split
  <2>3. (n + BPC - 1) \div BPC \in Int
    <3>1. n + BPC - 1 \in Int /\ BPC \in Nat \ {0}
      BY <2>1, <1>1
    <3> QED BY <3>1, Quotient
  <2> QED BY <2>3 DEF Begun, Place
<1>3. CASE Rest(n) = 0
  <2>1. BPC - 1 \in Offset
    BY <1>1 DEF Offset
  <2>2. n + BPC - 1 = Upto(q) + (BPC - 1)
    BY <1>1, <1>3, Times
  <2>3. Place(n + BPC - 1) = q + 1
    BY <1>1, <2>1, <2>2, SplitUnique
  <2> QED BY <1>1, <1>2, <1>3, <2>3
<1>4. CASE Rest(n) # 0
  <2>1. Rest(n) - 1 \in Offset
    BY <1>1, <1>4 DEF Offset
  <2>4. Upto(q + 1) = Upto(q) + BPC /\ Upto(q) \in Nat
    BY Times
  <2>2. n + BPC - 1 = Upto(q + 1) + (Rest(n) - 1)
    BY <1>1, <1>4, <2>4
  <2>3. Place(n + BPC - 1) = (q + 1) + 1
    BY <1>1, <2>1, <2>2, SplitUnique
  <2> QED BY <1>1, <1>2, <1>4, <2>3
<1> QED BY <1>3, <1>4

\* The same in terms of bytes.
LEMMA BegunBounds ==
  ASSUME NEW n \in Nat
  PROVE  /\ Begun(n) \in Nat /\ n <= Upto(Begun(n)) /\ Upto(Begun(n)) < n + BPC
         /\ Rest(n) = 0 => n = Upto(Begun(n))
         /\ Rest(n) # 0 => Begun(n) >= 1 /\ n = Upto(Begun(n) - 1) + Rest(n)
<1>0. PICK q \in Nat, o \in 0 .. BPC - 1 : n = Upto(q) + o /\ Place(n) = q + 1 /\ Rest(n) = o
  BY Parts
<1>1. /\ q \in Nat /\ n = Upto(q) + Rest(n) /\ Rest(n) \in 0 .. BPC - 1 /\ Place(n) = q + 1
      /\ BPC \in Nat /\ BPC >= 1 /\ Upto(q) \in Nat
  BY <1>0, Sizes, Times
<1>2. CASE Rest(n) = 0
  <2>1. Begun(n) = q
    BY <1>1, <1>2, BegunIs
  <2> QED BY <1>1, <1>2, <2>1
<1>3. CASE Rest(n) # 0
  <2>1. Begun(n) = q + 1 /\ Upto(q + 1) = Upto(q) + BPC /\ (q + 1) - 1 = q
    BY <1>1, <1>3, BegunIs, Times
  <2> QED BY <1>1, <1>3, <2>1
<1> QED BY <1>2, <1>3

LEMMA ClustersIs ==
  ASSUME NEW n \in Nat
  PROVE  /\ Clusters(n) \in Nat /\ Clusters(n) >= 1 /\ Clusters(n) >= Begun(n)
         /\ Clusters(n + 1) = Place(n)
         /\ Grows(n) => Clusters(n) = Place(n) - 1 /\ Rest(n) = 0
         /\ ~Grows(n) => Clusters(n) = Place(n)
         /\ \A x \in 0 .. n - 1 : Place(x) <= Clusters(n)
<1>1. Clusters(n) = IF n = 0 THEN 1 ELSE Begun(n)
  BY DEF Clusters, Begun
<1>2. Clusters(n + 1) = Begun(n + 1)
  BY DEF Clusters, Begun
<1>3. Grows(n) <=> Rest(n) = 0 /\ n # 0
  BY DEF Grows, Rest
<1>4. 0 \in Offset /\ Place(0) = 1 /\ Rest(0) = 0
  <2>1. 0 \in Offset
    BY Sizes DEF Offset
  <2>2. 0 = Upto(0) + 0
    BY Times
  <2> QED BY <2>1, <2>2, SplitUnique
<1>11. PICK q \in Nat, o \in 0 .. BPC - 1 : n = Upto(q) + o /\ Place(n) = q + 1 /\ Rest(n) = o
  BY Parts
<1>5. /\ q \in Nat /\ n = Upto(q) + Rest(n) /\ Rest(n) \in 0 .. BPC - 1 /\ Place(n) = q + 1
      /\ BPC \in Nat /\ BPC >= 1 /\ Place(n) \in Nat
  BY <1>11, Sizes
<1>6. Begun(n + 1) = q + 1
  <2>1. Begun(n + 1) = (n + BPC) \div BPC
    <3>1. n + 1 + BPC - 1 = n + BPC
      BY <1>5
    <3> QED BY <3>1 DEF Begun
  <2>2. n + BPC = Upto(q + 1) + Rest(n) /\ q + 1 \in Nat /\ Rest(n) \in Offset /\ n + BPC \in Nat
    <3>1. Upto(q + 1) = Upto(q) + BPC /\ Upto(q) \in Nat
      BY Times
    <3> QED BY <3>1, <1>5 DEF Offset
  <2>3. Place(n + BPC) = (q + 1) + 1
    <3> QED BY <2>2, SplitUnique
  <2>4. (n + BPC) \div BPC \in Int
    <3>1. n + BPC \in Int /\ BPC \in Nat \ {0}
      BY <1>5
    <3> QED BY <3>1, Quotient
  <2> QED BY <2>1, <2>3, <2>4, <1>5 DEF Place
<1>7. Begun(n) \in Nat /\ (n # 0 => Begun(n) >= 1)
  BY <1>5, BegunBounds, Times
<1>8. ASSUME NEW x \in 0 .. n - 1 PROVE Place(x) <= Clusters(n)
  <2>1. n - 1 \in Nat /\ (n - 1) + 1 = n /\ x \in Nat /\ x <= n - 1 /\ n # 0
    BY <1>8
  <2>2. Place(x) <= Place(n - 1)
    BY <2>1, PlaceGrows
  <2>3. Begun(n) = Place(n - 1)
    <3> DEFINE m == n - 1
    <3>1. m \in Nat /\ n = m + 1
      BY <2>1
    <3> HIDE DEF m
    <3>2. Clusters(m + 1) = Begun(n) /\ Begun(m) \in Nat
      BY <1>1, <2>1, <3>1, BegunIs
    <3>3. CASE Rest(n) = 0
      <4>1. n = Upto(q) /\ Begun(n) = q /\ q >= 1
        BY <1>5, <3>3, BegunIs, <2>1, Times
      <4>4. q - 1 \in Nat /\ (q - 1) + 1 = q
        BY <4>1
      <4>5. Upto(q) = Upto(q - 1) + BPC /\ Upto(q - 1) \in Nat
        BY <4>4, Times
      <4>6. BPC - 1 \in Offset
        BY <1>5 DEF Offset
      <4>7. n = Upto(q - 1) + BPC /\ n = m + 1 /\ m \in Nat /\ BPC \in Nat
        BY <4>1, <4>5, <3>1, <1>5
      <4>8. m = Upto(q - 1) + (BPC - 1)
        BY <4>5, <4>7
      <4>2. BPC - 1 \in Offset /\ m = Upto(q - 1) + (BPC - 1) /\ q - 1 \in Nat
        BY <4>4, <4>6, <4>8
      <4>3. Place(m) = (q - 1) + 1
        BY <4>2, SplitUnique
      <4> QED BY <4>1, <4>3, <1>5 DEF m
    <3>4. CASE Rest(n) # 0
      <4>1. Begun(n) = q + 1
        BY <1>5, <3>4, BegunIs
      <4>2. Rest(n) - 1 \in Offset /\ m = Upto(q) + (Rest(n) - 1)
        <5>1. Rest(n) - 1 \in 0 .. BPC - 1
          BY <1>5, <3>4
        <5>2. Upto(q) \in Nat
          BY Times
        <5>3. m = Upto(q) + (Rest(n) - 1)
          BY <1>5, <3>1, <5>2
        <5> QED BY <5>1, <5>3 DEF Offset
      <4>3. Place(m) = q + 1
        BY <4>2, <1>5, SplitUnique
      <4> QED BY <4>1, <4>3 DEF m
    <3> QED BY <3>3, <3>4
  <2> QED BY <1>1, <2>1, <2>2, <2>3
<1>9. ~Grows(n) => Clusters(n) = Place(n)
  BY <1>1, <1>3, <1>4, <1>5, BegunIs
<1>10. Grows(n) => Clusters(n) = Place(n) - 1 /\ Rest(n) = 0
  BY <1>1, <1>3, BegunIs
<1> QED BY <1>1, <1>2, <1>5, <1>6, <1>7, <1>8, <1>9, <1>10, BegunIs, <1>4

-----------------------------------------------------------------------------
(* The bytes of the files.                                                 *)

\* The first n bytes given to the file of slot s are in the clusters of ch.
InPlace(dt, ch, s, n) == \A x \in 0 .. n - 1 : dt[ch[Place(x)]][Rest(x)] = <<s, x>>

Added(dt, ch, s, n) == Put(dt, ch[Place(n)], Rest(n), <<s, n>>)
Distinct(ch) == \A j, k \in 1 .. Len(ch) : ch[j] = ch[k] => j = k

LEMMA InPlacePut ==
  ASSUME NEW dt \in [Cluster -> [Offset -> Byte]], NEW ch \in Seq(Cluster),
         Distinct(ch),
         NEW s, NEW n \in Nat, Place(n) <= Len(ch), <<s, n>> \in Byte,
         InPlace(dt, ch, s, n)
  PROVE  /\ InPlace(Added(dt, ch, s, n), ch, s, n + 1)
         /\ Added(dt, ch, s, n) \in [Cluster -> [Offset -> Byte]]
         /\ \A x \in Cluster : x # ch[Place(n)] => Added(dt, ch, s, n)[x] = dt[x]
<1> DEFINE c == ch[Place(n)]
           byte == <<s, n>>
           new == Added(dt, ch, s, n)
<1>1. Place(n) \in 1 .. Len(ch) /\ c \in Cluster /\ Rest(n) \in Offset
  <2>1. Place(n) \in Nat /\ Place(n) >= 1 /\ Rest(n) \in Offset
    BY Split
  <2> DEFINE m == Place(n)
  <2>2. m \in 1 .. Len(ch)
    <3> HIDE DEF m
    <3>1. m \in Nat /\ m >= 1 /\ m <= Len(ch) /\ Len(ch) \in Nat
      BY <2>1 DEF m
    <3> QED BY <3>1
  <2> QED BY <2>1, <2>2
<1>2. /\ new[c][Rest(n)] = <<s, n>>
      /\ \A x \in Cluster : \A y \in Offset : x # c \/ y # Rest(n) => new[x][y] = dt[x][y]
      /\ new \in [Cluster -> [Offset -> Byte]]
  <2>1. new = Put(dt, c, Rest(n), byte) /\ byte \in Byte
    BY DEF Added
  <2> HIDE DEF c, byte, new
  <2>2. new[c][Rest(n)] = byte
    BY <1>1, <2>1, PutType
  <2>3. new \in [Cluster -> [Offset -> Byte]]
    BY <1>1, <2>1, PutType
  <2>4. \A x \in Cluster : \A y \in Offset : x # c \/ y # Rest(n) => new[x][y] = dt[x][y]
    BY <1>1, <2>1 DEF Put
  <2> QED BY <2>2, <2>3, <2>4 DEF byte
<1>5. \A x \in Cluster : x # c => new[x] = dt[x]
  BY DEF Added, Put
<1> HIDE DEF new
<1> SUFFICES InPlace(new, ch, s, n + 1)
  BY <1>2, <1>5 DEF new
<1> SUFFICES ASSUME NEW x \in 0 .. n PROVE new[ch[Place(x)]][Rest(x)] = <<s, x>>
  <2>1. 0 .. (n + 1) - 1 = 0 .. n
    OBVIOUS
  <2> QED BY <2>1 DEF InPlace
<1>3. CASE x = n
  BY <1>2, <1>3
<1>4. CASE x # n
  <2>1. x \in Nat /\ x \in 0 .. n - 1 /\ x <= n
    BY <1>4
  <2>2. Place(x) <= Place(n)
    BY <2>1, PlaceGrows
  <2>3. Place(x) \in Nat /\ Place(x) >= 1 /\ Rest(x) \in Offset /\ Place(n) \in Nat
    BY <2>1, Split
  <2>4. Place(x) \in 1 .. Len(ch) /\ ch[Place(x)] \in Cluster
    BY <1>1, <2>2, <2>3
  <2>5. ch[Place(x)] # c \/ Rest(x) # Rest(n)
    BY <1>1, <1>4, <2>1, <2>4, SplitApart DEF Distinct
  <2>6. dt[ch[Place(x)]][Rest(x)] = <<s, x>>
    BY <2>1 DEF InPlace
  <2> QED BY <1>2, <2>3, <2>4, <2>5, <2>6
<1> QED BY <1>3, <1>4

ChainExtends(ch, ch2) ==
  /\ Len(ch) \in Nat /\ Len(ch2) \in Nat /\ Len(ch) <= Len(ch2)
  /\ \A j \in 1 .. Len(ch) : ch2[j] = ch[j]

\* What is in place stays there if the clusters keep what they hold.
LEMMA InPlaceFrame ==
  ASSUME NEW dt, NEW dt2, NEW ch, NEW ch2, ChainExtends(ch, ch2),
         \A j \in 1 .. Len(ch) : dt2[ch[j]] = dt[ch[j]],
         NEW s, NEW n \in Nat, Clusters(n) <= Len(ch), InPlace(dt, ch, s, n)
  PROVE  InPlace(dt2, ch2, s, n)
<1> SUFFICES ASSUME NEW x \in 0 .. n - 1 PROVE dt2[ch2[Place(x)]][Rest(x)] = <<s, x>>
  BY DEF InPlace
<1>1. x \in Nat /\ Place(x) \in Nat /\ Place(x) >= 1 /\ Place(x) <= Clusters(n)
      /\ Clusters(n) \in Nat
  <2>1. x \in Nat /\ Place(x) <= Clusters(n) /\ Clusters(n) \in Nat
    BY ClustersIs
  <2> QED BY <2>1, Split
<1>2. Place(x) \in 1 .. Len(ch)
  BY <1>1 DEF ChainExtends
<1>3. ch2[Place(x)] = ch[Place(x)] /\ dt2[ch[Place(x)]] = dt[ch[Place(x)]]
  BY <1>2 DEF ChainExtends
<1> QED BY <1>3 DEF InPlace

LEMMA InPlaceLess ==
  ASSUME NEW dt, NEW ch, NEW s, NEW n \in Nat, NEW m \in 0 .. n, InPlace(dt, ch, s, n)
  PROVE  InPlace(dt, ch, s, m)
BY DEF InPlace

-----------------------------------------------------------------------------
(* An append. At the start of it the chain of the file has the length its  *)
(* size calls for.                                                         *)

\* What holds after k turns of a write through d, to the file of the entry e.
Appending(st, d, e, k) ==
  LET ch == Chain(st.fat, root[e].first)
  IN /\ st.fat \in Table /\ Sound(st.fat, root)
     /\ st.data \in [Cluster -> [Offset -> Byte]]
     /\ st.current = Last(ch)
     /\ st.size \in Nat /\ d.size <= st.size /\ st.size <= d.size + k
     /\ st.ok => st.size = d.size + k
     /\ Len(ch) = Clusters(st.size)
     /\ InPlace(st.data, ch, e, st.size)
     /\ ChainExtends(Chain(fat, root[e].first), ch)
     /\ \A s \in UsedIn(root) \ {e} :
          /\ Chain(st.fat, root[s].first) = Chain(fat, root[s].first)
          /\ \A c \in Held(fat, root, s) : st.data[c] = data[c]

LEMMA FilledAppends ==
  ASSUME NEW d, d.size \in Nat, NEW e \in UsedIn(root), NEW k \in Nat,
         NEW st \in LoopState, Appending(st, d, e, k), NEW t,
         st.ok, Filled(st, t, <<e, st.size>>), <<e, st.size>> \in Byte
  PROVE  Appending(t, d, e, k + 1)
<1> DEFINE ch == Chain(st.fat, root[e].first)
           n == st.size
<1>1. /\ IsChain(st.fat, ch) /\ ch \in Seq(Cluster) /\ Len(ch) \in Nat /\ Len(ch) >= 1
      /\ st.current = ch[Len(ch)] /\ st.current \in Held(st.fat, root, e)
  <2>1. IsChain(st.fat, ch)
    BY SoundFacts DEF Appending
  <2>2. ch \in Seq(Cluster) /\ Len(ch) \in Nat /\ Len(ch) >= 1
    BY <2>1, ChainElements
  <2>3. st.current = ch[Len(ch)]
    BY DEF Appending, Last
  <2>4. ch[Len(ch)] \in ToSet(ch)
    <3> HIDE DEF ch
    <3> QED BY <2>2, ToSetIs
  <2> QED BY <2>1, <2>2, <2>3, <2>4 DEF Held
<1>2. n \in Nat /\ Len(ch) = Place(n) /\ Clusters(n + 1) = Place(n) /\ Place(n) \in Nat
  BY ClustersIs, Split DEF Appending, Filled
<1>3. t.fat = st.fat /\ t.current = st.current /\ t.size = n + 1 /\ t.ok
  BY DEF Filled
<1>4. t.data = Added(st.data, ch, e, n)
  BY <1>1, <1>2 DEF Filled, Rest, Added
<1>5. st.data \in [Cluster -> [Offset -> Byte]] /\ InPlace(st.data, ch, e, n)
  BY DEF Appending
<1> HIDE DEF ch, n
<1>6. /\ InPlace(t.data, ch, e, n + 1)
      /\ t.data \in [Cluster -> [Offset -> Byte]]
      /\ \A x \in Cluster : x # st.current => t.data[x] = st.data[x]
  <2>1. Distinct(ch)
    BY <1>1 DEF IsChain, Distinct
  <2>2. Place(n) <= Len(ch) /\ <<e, n>> \in Byte /\ n \in Nat
    BY <1>2 DEF n
  <2> QED BY <1>1, <1>2, <1>4, <1>5, <2>1, <2>2, InPlacePut
<1>9. ASSUME NEW s \in UsedIn(root) \ {e}, NEW c \in Held(fat, root, s)
      PROVE  t.data[c] = data[c]
  <2>1. /\ Chain(st.fat, root[s].first) = Chain(fat, root[s].first)
        /\ st.data[c] = data[c] /\ st.fat \in Table /\ Sound(st.fat, root)
    BY DEF Appending
  <2>2. c \in Held(st.fat, root, s)
    BY <2>1 DEF Held
  <2>3. c \in Cluster
    BY <2>1, <2>2, SoundFacts
  <2>4. c # st.current
    BY <2>1, <2>2, <2>3, <1>1 DEF Sound
  <2> QED BY <2>1, <2>3, <2>4, <1>6
<1>10. /\ t.size \in Nat /\ d.size <= t.size /\ t.size <= d.size + (k + 1)
       /\ t.size = d.size + (k + 1)
  BY <1>2, <1>3 DEF Appending, n
<1>11. /\ ChainExtends(Chain(fat, root[e].first), ch) /\ st.current = Last(ch)
       /\ st.fat \in Table /\ Sound(st.fat, root)
       /\ \A s \in UsedIn(root) \ {e} :
            Chain(st.fat, root[s].first) = Chain(fat, root[s].first)
  BY DEF Appending, ch
<1> QED BY <1>2, <1>3, <1>6, <1>9, <1>10, <1>11 DEF Appending, ch

LEMMA ExtendsMore ==
  ASSUME NEW S, NEW ch \in Seq(S), NEW c \in S
  PROVE  /\ ChainExtends(ch, Append(ch, c))
         /\ \A q : ChainExtends(q, ch) => ChainExtends(q, Append(ch, c))
<1>1. /\ Len(ch) \in Nat /\ Len(Append(ch, c)) = Len(ch) + 1
      /\ \A j \in 1 .. Len(ch) : Append(ch, c)[j] = ch[j]
  OBVIOUS
<1>2. ChainExtends(ch, Append(ch, c))
  BY <1>1 DEF ChainExtends
<1>3. ASSUME NEW q, ChainExtends(q, ch) PROVE ChainExtends(q, Append(ch, c))
  <2>1. Len(q) \in Nat /\ Len(q) <= Len(ch) /\ \A j \in 1 .. Len(q) : ch[j] = q[j]
    BY <1>3 DEF ChainExtends
  <2>2. \A j \in 1 .. Len(q) : j \in 1 .. Len(ch)
    BY <1>1, <2>1
  <2> QED BY <1>1, <2>1, <2>2 DEF ChainExtends
<1> QED BY <1>2, <1>3

LEMMA ExtendedAppends ==
  ASSUME NEW d, d.size \in Nat, NEW e \in UsedIn(root), NEW k \in Nat,
         NEW st \in LoopState, Appending(st, d, e, k), NEW t,
         st.ok, Extended(st, t, <<e, st.size>>), <<e, st.size>> \in Byte
  PROVE  Appending(t, d, e, k + 1)
<1> DEFINE ch == Chain(st.fat, root[e].first)
           ch2 == Chain(t.fat, root[e].first)
           c == t.current
           n == st.size
<1>1. /\ c \in Cluster /\ st.fat[c] = Free /\ c \in FreeClusters(st.fat)
      /\ t.fat = Linked(st.fat, Last(ch), c) /\ t.size = n + 1 /\ t.ok
  BY DEF Extended, FreeClusters, Appending
<1>2. /\ st.fat \in Table /\ Sound(st.fat, root) /\ IsChain(st.fat, ch)
      /\ ch \in Seq(Cluster) /\ Len(ch) \in Nat /\ Len(ch) >= 1
  <2>1. st.fat \in Table /\ Sound(st.fat, root)
    BY DEF Appending
  <2>2. IsChain(st.fat, ch)
    BY <2>1, SoundFacts
  <2>3. ch \in Seq(Cluster) /\ Len(ch) \in Nat /\ Len(ch) >= 1
    BY <2>2, ChainElements
  <2> QED BY <2>1, <2>2, <2>3
<1>3. /\ t.fat \in Table /\ Sound(t.fat, root)
      /\ ch2 = Append(ch, c)
      /\ \A s \in UsedIn(root) \ {e} : Chain(t.fat, root[s].first) = Chain(st.fat, root[s].first)
  BY <1>1, <1>2, ExtendSound
<1>4. /\ ch2 \in Seq(Cluster) /\ Len(ch2) = Len(ch) + 1 /\ ch2[Len(ch) + 1] = c
      /\ Last(ch2) = c /\ Len(ch2) \in Nat
  BY <1>1, <1>2, <1>3 DEF Last
<1>5. ChainExtends(ch, ch2) /\ ChainExtends(Chain(fat, root[e].first), ch2)
  <2>1. ChainExtends(Chain(fat, root[e].first), ch)
    BY DEF Appending
  <2> HIDE DEF ch, ch2, c
  <2> QED BY <1>1, <1>2, <1>3, <2>1, ExtendsMore
<1>6. /\ n \in Nat /\ Len(ch) = Clusters(n) /\ Len(ch) = Place(n) - 1 /\ Clusters(n + 1) = Place(n)
      /\ Place(n) \in Nat /\ Rest(n) \in Offset /\ Clusters(n) <= Len(ch)
  <2>1. n \in Nat /\ Len(ch) = Clusters(n) /\ Grows(n)
    BY DEF Appending, Extended
  <2>2. Clusters(n) = Place(n) - 1 /\ Clusters(n + 1) = Place(n)
    BY <2>1, ClustersIs
  <2>3. Place(n) \in Nat /\ Rest(n) \in Offset
    BY <2>1, Split
  <2> HIDE DEF n, ch
  <2> QED BY <1>2, <2>1, <2>2, <2>3
<1>7. t.data = Put(st.data, c, Rest(n), <<e, n>>)
  BY DEF Extended, Rest
<1>8. st.data \in [Cluster -> [Offset -> Byte]] /\ InPlace(st.data, ch, e, n)
  BY DEF Appending
<1>9. <<e, n>> \in Byte
  OBVIOUS
<1> HIDE DEF ch, ch2, n, c
<1>10. Len(ch) + 1 = Place(n)
  BY <1>6
<1>11. t.data = Added(st.data, ch2, e, n)
  BY <1>4, <1>7, <1>10 DEF Added
<1>12. InPlace(st.data, ch2, e, n)
  BY <1>5, <1>6, <1>8, InPlaceFrame
<1>13. IsChain(t.fat, ch2)
  BY <1>3, SoundFacts DEF ch2
<1>14. /\ InPlace(t.data, ch2, e, n + 1)
       /\ t.data \in [Cluster -> [Offset -> Byte]]
       /\ \A x \in Cluster : x # c => t.data[x] = st.data[x]
  <2>1. Distinct(ch2)
    BY <1>13 DEF IsChain, Distinct
  <2>2. Place(n) <= Len(ch2) /\ ch2[Place(n)] = c
    BY <1>4, <1>6, <1>10
  <2>3. /\ st.data \in [Cluster -> [Offset -> Byte]] /\ ch2 \in Seq(Cluster)
        /\ n \in Nat
    BY <1>4, <1>6, <1>8
  <2> QED BY <1>9, <1>11, <1>12, <2>1, <2>2, <2>3, InPlacePut
<1>15. ASSUME NEW s \in UsedIn(root) \ {e}
       PROVE  /\ Chain(t.fat, root[s].first) = Chain(fat, root[s].first)
              /\ \A x \in Held(fat, root, s) : t.data[x] = data[x]
  <2>1. /\ Chain(st.fat, root[s].first) = Chain(fat, root[s].first)
        /\ \A x \in Held(fat, root, s) : st.data[x] = data[x]
    BY DEF Appending
  <2>2. \A x \in Held(fat, root, s) : x \in Cluster /\ st.fat[x] # Free
    BY <1>2, <2>1, SoundFacts DEF Held
  <2>3. \A x \in Held(fat, root, s) : t.data[x] = data[x]
    BY <1>1, <1>14, <2>1, <2>2
  <2> QED BY <1>3, <2>1, <2>3
<1>16. /\ t.size \in Nat /\ d.size <= t.size /\ t.size <= d.size + (k + 1)
       /\ t.size = d.size + (k + 1)
  BY <1>1, <1>6 DEF Appending, n
<1>17. Len(ch2) = Clusters(t.size)
  BY <1>1, <1>4, <1>6, <1>10
<1>18. t.current = Last(ch2) /\ InPlace(t.data, ch2, e, t.size)
  BY <1>1, <1>4, <1>14 DEF c
<1> QED BY <1>3, <1>5, <1>14, <1>15, <1>16, <1>17, <1>18 DEF Appending, ch2

LEMMA TurnAppends ==
  ASSUME NEW d, d.size \in Nat, NEW e \in UsedIn(root), NEW k \in Nat,
         NEW st \in LoopState, Appending(st, d, e, k), <<e, d.size + k>> \in Byte
  PROVE  Appending(WriteByte(st, <<e, d.size + k>>), d, e, k + 1)
<1> DEFINE byte == <<e, d.size + k>>
           t == WriteByte(st, byte)
<1> SUFFICES Appending(t, d, e, k + 1)
  OBVIOUS
<1>1. CASE Stopped(st, t)
  <2> HIDE DEF t
  <2>1. t.size <= d.size + (k + 1)
    BY <1>1 DEF Stopped, Appending
  <2> QED BY <1>1, <2>1 DEF Stopped, Appending
<1>2. CASE Filled(st, t, byte) /\ st.ok
  <2>1. byte = <<e, st.size>>
    BY <1>2 DEF Appending
  <2> HIDE DEF t
  <2> QED BY <1>2, <2>1, FilledAppends DEF byte
<1>3. CASE Extended(st, t, byte) /\ st.ok
  <2>1. byte = <<e, st.size>>
    BY <1>3 DEF Appending
  <2> HIDE DEF t
  <2> QED BY <1>3, <2>1, ExtendedAppends DEF byte
<1> QED BY <1>1, <1>2, <1>3, TurnCases

LEMMA TurnsAppend ==
  ASSUME Agree, NEW d, Opened(d), d.slot \in UsedIn(root), d.first = root[d.slot].first,
         root[d.slot].size = d.size, ToSet(Chain(fat, d.first)) \subseteq Cluster,
         Len(Chain(fat, d.first)) = Clusters(d.size), InPlace(data, Chain(fat, d.first), d.slot, d.size),
         NEW n \in Nat, d.size + n <= MaxLen
  PROVE  Appending(Turns(d, n), d, d.slot, n) /\ Turns(d, n) \in LoopState
<1> DEFINE e == d.slot
<1>1. Start(d) \in LoopState /\ root[d.slot].size \in Nat
      /\ d.slot \in Slot /\ d.size \in Nat /\ MaxLen \in Nat /\ e \in UsedIn(root)
  BY StartIn, Sizes DEF Opened
<1>2. PICK g \in [Nat -> LoopState] :
        /\ g[0] = Start(d)
        /\ \A k \in Nat : g[k + 1] = WriteByte(g[k], <<d.slot, root[d.slot].size + k>>)
        /\ \A m \in Nat : Turns(d, m) = g[m]
  BY <1>1, TurnsAre
<1>3. Appending(Start(d), d, e, 0)
  <2>1. /\ fat \in Table /\ Sound(fat, root) /\ data \in [Cluster -> [Offset -> Byte]]
    BY DEF Agree
  <2>2. /\ Start(d).fat = fat /\ Start(d).data = data /\ Start(d).size = d.size
        /\ Start(d).current = Last(Chain(fat, root[e].first))
    BY DEF Start
  <2>3. ChainExtends(Chain(fat, root[e].first), Chain(fat, root[e].first))
    <3>1. IsChain(fat, Chain(fat, root[e].first))
      BY <1>1, <2>1, SoundFacts
    <3>2. Len(Chain(fat, root[e].first)) \in Nat
      BY <3>1, ChainElements
    <3> QED BY <3>2 DEF ChainExtends
  <2>4. d.size <= d.size /\ d.size <= d.size + 0 /\ d.size = d.size + 0
    BY <1>1
  <2> QED BY <1>1, <2>1, <2>2, <2>3, <2>4 DEF Appending
<1> DEFINE Good == {k \in Nat : k <= n => Appending(g[k], d, e, k)}
<1>4. 0 \in Good
  BY <1>2, <1>3
<1>5. ASSUME NEW k \in Nat, k \in Good PROVE k + 1 \in Good
  <2> SUFFICES ASSUME k + 1 <= n PROVE Appending(g[k + 1], d, e, k + 1)
    OBVIOUS
  <2>1. k <= n
    OBVIOUS
  <2>2. Appending(g[k], d, e, k) /\ g[k] \in LoopState
    BY <2>1, <1>5
  <2>3. d.size + k \in 0 .. MaxLen - 1
    BY <1>1
  <2>4. <<e, d.size + k>> \in Byte
    BY <2>3, <1>1 DEF Byte
  <2>5. g[k + 1] = WriteByte(g[k], <<e, d.size + k>>)
    BY <1>2
  <2> QED BY <1>1, <2>2, <2>4, <2>5, TurnAppends
<1>6. n \in Good
  <2> HIDE DEF Good
  <2> QED BY <1>4, <1>5, SetInduction
<1> QED BY <1>2, <1>6

-----------------------------------------------------------------------------
(* What holds when no program uses a descriptor of a file that was         *)
(* removed, appends through one that is out of date, or reads through one  *)
(* that has written.                                                       *)

KeptAt(f, dt, r, s) ==
  /\ r[s].kind = "file" =>
       /\ Clusters(r[s].size) <= Len(Chain(f, r[s].first))
       /\ InPlace(dt, Chain(f, r[s].first), s, r[s].size)
  /\ r[s].kind = "dir" => r[s].size = 0

KeptIn(f, dt, r) == \A s \in UsedIn(r) : KeptAt(f, dt, r, s)

\* A descriptor of a file that is still there.
Refers(d, r) ==
  d.use # "removed" =>
    /\ r[d.slot].kind = "file" /\ r[d.slot].first = d.first
    /\ d.use = "fresh" => d.size <= r[d.slot].size

\* Where reading has come to in the chain ch: at the cluster after those begun, or at the
\* end, where only a last cluster that is full may be left. The buffer holds the cluster
\* that is begun.
At(slot, size, cursor, current, buff, ch) ==
  /\ \/ Begun(cursor) + 1 <= Len(ch) /\ current = ch[Begun(cursor) + 1]
     \/ /\ current = End
        /\ \/ Upto(Begun(cursor)) >= size
           \/ Rest(size) = 0 /\ cursor = size - BPC
  /\ Rest(cursor) # 0 =>
       \A x \in 0 .. size - 1 : Place(x) = Place(cursor) => buff[Rest(x)] = <<slot, x>>

Good(d, f, r) ==
  /\ d \in Descriptor /\ d.cursor <= d.size /\ Refers(d, r)
  /\ d.use = "fresh" => At(d.slot, d.size, d.cursor, d.current, d.buff, Chain(f, d.first))

GoodIn(g, f, r) == \A p \in Procs : \A i \in File : g[p][i] # Closed => Good(g[p][i], f, r)

\* The invariant, for programs that keep to what MayAppend and MayRead ask of them.
Content == Agree /\ KeptIn(fat, data, root) /\ GoodIn(fd, fat, root)

LEMMA AtExtends ==
  ASSUME NEW slot, NEW size, NEW cursor \in Nat, NEW current, NEW buff, NEW ch, NEW ch2,
         ChainExtends(ch, ch2), At(slot, size, cursor, current, buff, ch)
  PROVE  At(slot, size, cursor, current, buff, ch2)
<1>1. Begun(cursor) \in Nat
  BY BegunIs
<1>2. Begun(cursor) + 1 <= Len(ch) => /\ Begun(cursor) + 1 <= Len(ch2)
                                      /\ ch2[Begun(cursor) + 1] = ch[Begun(cursor) + 1]
  BY <1>1 DEF ChainExtends
<1> QED BY <1>2 DEF At

\* The file of slot s is still there, with what it had.
Continues(f, r, f2, r2, s) ==
  /\ r2[s].kind = r[s].kind /\ r2[s].first = r[s].first
  /\ r[s].size \in Nat /\ r2[s].size \in Nat /\ r[s].size <= r2[s].size
  /\ ChainExtends(Chain(f, r[s].first), Chain(f2, r[s].first))

LEMMA GoodContinues ==
  ASSUME NEW d, NEW f, NEW r, NEW f2, NEW r2, Good(d, f, r),
         d.use # "removed" => Continues(f, r, f2, r2, d.slot)
  PROVE  Good(d, f2, r2)
<1>1. d.size \in Nat /\ d.cursor \in Nat
  BY Sizes DEF Good, Descriptor
<1>2. CASE d.use = "removed"
  BY <1>2 DEF Good, Refers
<1>3. CASE d.use # "removed"
  <2>1. Refers(d, r2)
    BY <1>1, <1>3 DEF Good, Refers, Continues
  <2>2. ChainExtends(Chain(f, d.first), Chain(f2, d.first))
    BY <1>3 DEF Good, Refers, Continues
  <2> QED BY <1>1, <2>1, <2>2, AtExtends DEF Good
<1> QED BY <1>2, <1>3

LEMMA ContinuesSame ==
  ASSUME NEW f \in Table, NEW r \in Directory, Sound(f, r), NEW f2, NEW r2,
         NEW s \in UsedIn(r), r2[s] = r[s], Chain(f2, r2[s].first) = Chain(f, r[s].first)
  PROVE  Continues(f, r, f2, r2, s)
<1>1. IsChain(f, Chain(f, r[s].first))
  BY SoundFacts
<1>2. Len(Chain(f, r[s].first)) \in Nat
  BY <1>1, ChainElements
<1>3. r[s].size \in Nat /\ r[s].size <= r[s].size
  BY Sizes DEF Directory, UsedIn
<1> QED BY <1>2, <1>3 DEF Continues, ChainExtends

\* A file keeps its bytes if its entry, its chain and its clusters stay.
LEMMA KeptSame ==
  ASSUME NEW f \in Table, NEW r \in Directory, Sound(f, r), NEW dt, KeptIn(f, dt, r),
         NEW f2, NEW r2, NEW dt2,
         NEW s \in UsedIn(r), r2[s] = r[s], Chain(f2, r2[s].first) = Chain(f, r[s].first),
         \A c \in Held(f, r, s) : dt2[c] = dt[c]
  PROVE  KeptAt(f2, dt2, r2, s)
<1> DEFINE ch == Chain(f, r[s].first)
<1>1. IsChain(f, ch) /\ r[s].size \in Nat
  BY SoundFacts DEF Directory, UsedIn
<1>2. Len(ch) \in Nat /\ ch \in Seq(Cluster)
  BY <1>1, ChainElements
<1>3. \A j \in 1 .. Len(ch) : dt2[ch[j]] = dt[ch[j]]
  <2>1. \A j \in 1 .. Len(ch) : ch[j] \in ToSet(ch)
    <3> HIDE DEF ch
    <3> QED BY <1>2, ToSetIs
  <2> QED BY <2>1 DEF Held
<1>4. ChainExtends(ch, ch)
  BY <1>2 DEF ChainExtends
<1>5. CASE r[s].kind = "file"
  <2>1. Clusters(r[s].size) <= Len(ch) /\ InPlace(dt, ch, s, r[s].size)
    BY <1>5 DEF KeptIn, KeptAt
  <2>2. InPlace(dt2, ch, s, r[s].size)
    <3> HIDE DEF ch
    <3> QED BY <1>1, <1>3, <1>4, <2>1, InPlaceFrame
  <2> QED BY <1>5, <2>1, <2>2 DEF KeptAt
<1>6. CASE r[s].kind # "file"
  BY <1>6 DEF KeptIn, KeptAt
<1> QED BY <1>5, <1>6

-----------------------------------------------------------------------------
(* The steps keep this.                                                    *)

LEMMA GoodOthers ==
  ASSUME OpenedIn(fd), GoodIn(fd, fat, root), NEW h, NEW p \in Procs, NEW i \in File,
         Others(fd, h, p, i), NEW f2, NEW r2, Good(h[p][i], f2, r2),
         \A q \in Procs : \A j \in File :
           (q # p \/ j # i) /\ fd[q][j] # Closed /\ fd[q][j].use # "removed"
             => Continues(fat, root, f2, r2, fd[q][j].slot)
  PROVE  GoodIn(h, f2, r2)
<1> SUFFICES ASSUME NEW q \in Procs, NEW j \in File, h[q][j] # Closed
             PROVE  Good(h[q][j], f2, r2)
  BY DEF GoodIn
<1>1. CASE q = p /\ j = i
  BY <1>1
<1>2. CASE q # p \/ j # i
  <2>1. h[q][j] = fd[q][j]
    BY <1>2 DEF Others, OpenedIn
  <2>2. Good(fd[q][j], fat, root)
    BY <2>1 DEF GoodIn
  <2> QED BY <1>2, <2>1, <2>2, GoodContinues
<1> QED BY <1>1, <1>2

\* A descriptor that may be used is of a file.
LEMMA GoodSlot ==
  ASSUME Agree, NEW d, Opened(d), Good(d, fat, root), d.use # "removed"
  PROVE  d.slot \in UsedIn(root) /\ root[d.slot].kind = "file" /\ d.first = root[d.slot].first
BY DEF Good, Refers, Opened, UsedIn

LEMMA NewGood ==
  ASSUME NEW f \in Table, NEW r \in Directory, Sound(f, r), NEW s \in UsedIn(r),
         r[s].kind = "file", NEW size, size = r[s].size, NEW first, first = r[s].first
  PROVE  Good(NewDescriptor(s, first, size), f, r)
<1> DEFINE d == NewDescriptor(s, first, size)
           ch == Chain(f, first)
<1>1. /\ first \in Cluster /\ s \in Slot /\ size \in 0 .. MaxLen /\ size \in Nat
      /\ 0 \in 0 .. MaxLen
  BY Sizes, SoundFacts DEF Directory, UsedIn
<1>2. IsChain(f, ch) /\ ch[1] = first
  BY SoundFacts
<1>3. Len(ch) \in Nat /\ Len(ch) >= 1
  BY <1>2, ChainElements
<1>4. Rest(0) = 0 /\ Begun(0) = 0
  <2>1. 0 \in Offset /\ 0 = Upto(0) + 0
    BY Sizes, Times DEF Offset
  <2>2. Place(0) = 0 + 1 /\ Rest(0) = 0
    BY <2>1, SplitUnique
  <2> QED BY <2>2, BegunIs
<1>5. At(s, size, 0, first, d.buff, ch)
  <2> HIDE DEF ch, d
  <2> QED BY <1>2, <1>3, <1>4 DEF At
<1>6. d \in Descriptor
  BY <1>1 DEF NewDescriptor, Descriptor, Byte
<1>7. /\ d.slot = s /\ d.size = size /\ d.cursor = 0 /\ d.current = first /\ d.first = first
      /\ d.use = "fresh"
  BY DEF NewDescriptor
<1> HIDE DEF d
<1>8. Good(d, f, r)
  BY <1>1, <1>5, <1>6, <1>7 DEF Good, Refers
<1> QED BY <1>8 DEF d

LEMMA OpenFileContent ==
  ASSUME Content, NEW p \in Procs, NEW name \in Names, OpenFile(p, name)
  PROVE  Content'
<1> DEFINE s == Lookup(name)
           i == FreeFile(p)
<1>1. i \in File /\ s \in UsedIn(root) /\ s \in Slot /\ root[s].kind = "file"
  BY FreeFileIs DEF OpenFile, Files, UsedIn
<1>2. UNCHANGED <<fat, data, root>>
  BY DEF OpenFile
<1>3. Agree'
  BY OpenFileAgree DEF Content
<1>4. /\ fat \in Table /\ root \in Directory /\ Sound(fat, root) /\ OpenedIn(fd)
      /\ root[s].first \in Cluster /\ root[s].size \in 0 .. MaxLen
  BY <1>1, SoundFacts DEF Content, Agree, Directory
<1>5. Others(fd, fd', p, i) /\ fd'[p][i] = NewDescriptor(s, root[s].first, root[s].size)
  <2> DEFINE new == NewDescriptor(s, root[s].first, root[s].size)
  <2>1. fd' = [fd EXCEPT ![p][i] = new]
    BY DEF OpenFile
  <2>2. /\ DOMAIN fd = Procs /\ i \in File
        /\ \A q \in Procs : DOMAIN fd[q] = File
    BY <1>1, <1>4 DEF OpenedIn
  <2> HIDE DEF s, i, new
  <2>3. Others(fd, fd', p, i)
    BY <2>1, <2>2 DEF Others
  <2>4. fd'[p][i] = new
    BY <2>1, <2>2
  <2> QED BY <2>3, <2>4 DEF new
<1> HIDE DEF s, i
<1>6. Good(fd'[p][i], fat, root)
  BY <1>1, <1>4, <1>5, NewGood
<1>7. \A t \in UsedIn(root) : Continues(fat, root, fat, root, t)
  BY <1>4, ContinuesSame
<1>8. ASSUME NEW q \in Procs, NEW j \in File, fd[q][j] # Closed, fd[q][j].use # "removed"
      PROVE  Continues(fat, root, fat, root, fd[q][j].slot)
  <2>1. Opened(fd[q][j]) /\ Good(fd[q][j], fat, root)
    BY <1>8 DEF Content, Agree, OpenedIn, GoodIn
  <2> QED BY <1>7, <1>8, <2>1, GoodSlot DEF Content
<1>9. GoodIn(fd', fat, root)
  BY <1>1, <1>4, <1>5, <1>6, <1>8, GoodOthers DEF Content
<1> QED BY <1>2, <1>3, <1>9 DEF Content

\* An entry is added: the others stay.
LEMMA AddContent ==
  ASSUME Content, NEW name \in Names, NEW kind \in {"file", "dir"}, ~AddFails,
         AddEntry(name, kind), data' = data
  PROVE  /\ KeptIn(fat', data', root')
         /\ \A s \in UsedIn(root) : Continues(fat, root, fat', root', s)
         /\ FreeEntry \in UsedIn(root') /\ root'[FreeEntry].kind = kind
         /\ root'[FreeEntry].size = 0 /\ root'[FreeEntry].first = FreeCluster(fat)
<1> DEFINE e == FreeEntry
           c == FreeCluster(fat)
<1>1. /\ e \in Slot \ UsedIn(root) /\ c \in FreeClusters(fat) /\ c \in Cluster
      /\ fat' = Ended(fat, c) /\ root' = Entered(root, e, kind, name, c)
      /\ fat' \in Table /\ root' \in Directory /\ Sound(fat', root')
  BY AddIs DEF Content
<1> HIDE DEF e, c
<1>2. /\ UsedIn(root') = UsedIn(root) \cup {e} /\ Chain(fat', c) = <<c>>
      /\ \A s \in UsedIn(root) : Chain(fat', root'[s].first) = Chain(fat, root[s].first)
  BY <1>1, AddSound DEF Content, Agree
<1>3. /\ root'[e].kind = kind /\ root'[e].first = c /\ root'[e].size = 0
      /\ \A s \in UsedIn(root) : root'[s] = root[s]
  BY <1>1 DEF Entered, Content, Agree, Directory, UsedIn
<1>4. ASSUME NEW s \in UsedIn(root)
      PROVE  /\ Continues(fat, root, fat', root', s)
             /\ KeptAt(fat', data', root', s)
  <2>1. /\ fat \in Table /\ root \in Directory /\ Sound(fat, root)
        /\ KeptIn(fat, data, root)
    BY DEF Content, Agree
  <2>2. root'[s] = root[s] /\ Chain(fat', root'[s].first) = Chain(fat, root[s].first)
    BY <1>2, <1>3
  <2>3. Continues(fat, root, fat', root', s)
    BY <2>1, <2>2, ContinuesSame
  <2>4. KeptAt(fat', data', root', s)
    BY <2>1, <2>2, KeptSame
  <2> QED BY <2>3, <2>4
<1>5. /\ Clusters(root'[e].size) <= Len(Chain(fat', root'[e].first))
      /\ InPlace(data', Chain(fat', root'[e].first), e, root'[e].size)
  <2>1. Clusters(0) = 1 /\ Len(<<c>>) = 1
    BY DEF Clusters
  <2>2. InPlace(data', <<c>>, e, 0)
    BY DEF InPlace
  <2> QED BY <1>2, <1>3, <2>1, <2>2
<1>6. KeptIn(fat', data', root')
  BY <1>2, <1>3, <1>4, <1>5 DEF KeptIn, KeptAt
<1> QED BY <1>1, <1>2, <1>3, <1>4, <1>6 DEF e, c

LEMMA OpenNewContent ==
  ASSUME Content, NEW p \in Procs, NEW name \in Names, OpenNew(p, name)
  PROVE  Content'
<1> DEFINE e == FreeEntry
           c == FreeCluster(fat)
           i == FreeFile(p)
<1>1. ~AddFails /\ AddEntry(name, "file") /\ i # 0 /\ data' = data
      /\ fd' = [fd EXCEPT ![p][i] = NewDescriptor(e, c, 0)]
  BY DEF OpenNew
<1>2. Agree'
  BY OpenNewAgree DEF Content
<1>3. /\ KeptIn(fat', data', root')
      /\ \A s \in UsedIn(root) : Continues(fat, root, fat', root', s)
      /\ e \in UsedIn(root') /\ root'[e].kind = "file" /\ root'[e].size = 0
      /\ root'[e].first = c
  BY <1>1, AddContent
<1>4. fat' \in Table /\ root' \in Directory /\ Sound(fat', root')
  BY <1>2 DEF Agree
<1>5. /\ i \in File /\ e \in Slot /\ c \in Cluster /\ 0 \in 0 .. MaxLen /\ OpenedIn(fd)
  BY <1>1, AddIs, FreeFileIs, Sizes DEF Content, Agree
<1>6. Others(fd, fd', p, i) /\ fd'[p][i] = NewDescriptor(e, c, 0)
  BY <1>1, <1>5, NewOpened
<1> HIDE DEF e, c, i
<1>7. Good(fd'[p][i], fat', root')
  BY <1>3, <1>4, <1>6, NewGood
<1>8. ASSUME NEW q \in Procs, NEW j \in File, fd[q][j] # Closed, fd[q][j].use # "removed"
      PROVE  Continues(fat, root, fat', root', fd[q][j].slot)
  <2>1. Opened(fd[q][j]) /\ Good(fd[q][j], fat, root)
    BY <1>8 DEF Content, Agree, OpenedIn, GoodIn
  <2> QED BY <1>3, <1>8, <2>1, GoodSlot DEF Content
<1>9. GoodIn(fd', fat', root')
  BY <1>5, <1>6, <1>7, <1>8, GoodOthers DEF Content
<1> QED BY <1>2, <1>3, <1>9 DEF Content

LEMMA GoodStay ==
  ASSUME Content, NEW f2, NEW r2,
         \A s \in UsedIn(root) : Continues(fat, root, f2, r2, s)
  PROVE  GoodIn(fd, f2, r2)
<1> SUFFICES ASSUME NEW q \in Procs, NEW j \in File, fd[q][j] # Closed
             PROVE  Good(fd[q][j], f2, r2)
  BY DEF GoodIn
<1>1. Opened(fd[q][j]) /\ Good(fd[q][j], fat, root)
  BY DEF Content, Agree, OpenedIn, GoodIn
<1>2. fd[q][j].use # "removed" => Continues(fat, root, f2, r2, fd[q][j].slot)
  BY <1>1, GoodSlot DEF Content
<1> QED BY <1>1, <1>2, GoodContinues

LEMMA MkdirContent ==
  ASSUME Content, NEW name \in Names, Mkdir(name)
  PROVE  Content'
<1>1. ~AddFails /\ AddEntry(name, "dir") /\ data' = data /\ fd' = fd
  BY DEF Mkdir
<1>2. Agree'
  BY MkdirAgree DEF Content
<1>3. /\ KeptIn(fat', data', root')
      /\ \A s \in UsedIn(root) : Continues(fat, root, fat', root', s)
  BY <1>1, AddContent
<1>4. GoodIn(fd, fat', root')
  BY <1>3, GoodStay
<1> QED BY <1>1, <1>2, <1>3, <1>4 DEF Content

LEMMA RmContent ==
  ASSUME Content, NEW name \in Names, Rm(name)
  PROVE  Content'
<1> DEFINE e == Lookup(name)
           Gone == Held(fat, root, e)
<1>1. /\ Agree' /\ e \in UsedIn(root)
      /\ fat' = Without(fat, Gone) /\ root' = Removed(root, e)
  BY RmAgree DEF Content
<1>2. data' = [c \in Cluster |-> IF c \in Gone THEN [o \in Offset |-> Blank] ELSE data[c]]
  BY DEF Rm, Freed, Held
<1>3. fd' = [p \in Procs |-> [i \in File |->
                 IF fd[p][i] # Closed /\ fd[p][i].slot = e
                   THEN [fd[p][i] EXCEPT !.use = "removed"] ELSE fd[p][i]]]
  BY DEF Rm
<1>4. /\ fat \in Table /\ root \in Directory /\ Sound(fat, root) /\ KeptIn(fat, data, root)
  BY DEF Content, Agree
<1> HIDE DEF e
<1>5. /\ UsedIn(root') = UsedIn(root) \ {e}
      /\ \A s \in UsedIn(root') : Chain(fat', root'[s].first) = Chain(fat, root[s].first)
  BY <1>1, <1>4, RemoveSound
<1>6. \A s \in UsedIn(root) \ {e} : root'[s] = root[s]
  BY <1>1, <1>4 DEF Removed, Directory, UsedIn
<1>7. ASSUME NEW s \in UsedIn(root) \ {e}
      PROVE  /\ Continues(fat, root, fat', root', s)
             /\ KeptAt(fat', data', root', s)
  <2>1. root'[s] = root[s] /\ Chain(fat', root'[s].first) = Chain(fat, root[s].first)
    BY <1>5, <1>6
  <2>2. \A c \in Held(fat, root, s) : c \in Cluster
    BY <1>4, SoundFacts
  <2>3. \A c \in Held(fat, root, s) : c \notin Gone
    BY <1>1, <1>4, <2>2 DEF Sound
  <2>4. \A c \in Held(fat, root, s) : data'[c] = data[c]
    BY <1>2, <2>2, <2>3
  <2>5. Continues(fat, root, fat', root', s)
    BY <1>4, <2>1, ContinuesSame
  <2>6. KeptAt(fat', data', root', s)
    BY <1>4, <2>1, <2>4, KeptSame
  <2> QED BY <2>5, <2>6
<1>8. KeptIn(fat', data', root')
  BY <1>5, <1>7 DEF KeptIn
<1>9. ASSUME NEW p \in Procs, NEW i \in File, fd'[p][i] # Closed
      PROVE  Good(fd'[p][i], fat', root')
  <2> DEFINE d == fd[p][i]
  <2>1. fd'[p][i] = IF d # Closed /\ d.slot = e THEN [d EXCEPT !.use = "removed"] ELSE d
    BY <1>3
  <2>2. d # Closed
    BY <1>9, <2>1
  <2>3. Good(d, fat, root) /\ Opened(d)
    BY <2>2 DEF Content, Agree, OpenedIn, GoodIn
  <2> HIDE DEF d
  <2>4. CASE d.slot = e
    <3> DEFINE d2 == [d EXCEPT !.use = "removed"]
    <3>1. d2 \in Descriptor /\ d2.use = "removed" /\ d2.cursor = d.cursor /\ d2.size = d.size
      BY <2>3 DEF Good, Descriptor
    <3>2. fd'[p][i] = d2
      BY <2>1, <2>2, <2>4
    <3> HIDE DEF d2
    <3> QED BY <2>3, <3>1, <3>2 DEF Good, Refers
  <2>5. CASE d.slot # e
    <3>1. fd'[p][i] = d
      BY <2>1, <2>5
    <3>2. d.use # "removed" => Continues(fat, root, fat', root', d.slot)
      BY <1>7, <2>3, <2>5, GoodSlot DEF Content
    <3> QED BY <2>3, <3>1, <3>2, GoodContinues
  <2> QED BY <2>4, <2>5
<1>10. GoodIn(fd', fat', root')
  BY <1>9 DEF GoodIn
<1> QED BY <1>1, <1>8, <1>10 DEF Content

LEMMA ExecContent ==
  ASSUME Content, NEW p \in Procs, Exec(p)
  PROVE  Content'
<1>1. Agree'
  BY ExecAgree DEF Content
<1>2. ASSUME NEW q \in Procs, NEW i \in File, fd'[q][i] # Closed
      PROVE  fd'[q][i] = fd[q][i]
  BY <1>2 DEF Exec, Content, Agree, OpenedIn
<1>3. GoodIn(fd', fat, root)
  BY <1>2 DEF GoodIn, Content
<1>4. UNCHANGED <<fat, data, root>>
  BY DEF Exec
<1> QED BY <1>1, <1>3, <1>4 DEF Content

\* What a write through a descriptor that is up to date does.
LEMMA WriteIs ==
  ASSUME Unchecked = {}, Content, NEW p \in Procs, NEW i \in File, NEW n \in Nat, Write(p, i, n)
  PROVE  LET d == fd[p][i]
             e == d.slot
             done == Turns(d, n)
         IN  /\ Opened(d) /\ Good(d, fat, root) /\ d.use # "removed" /\ d # Closed
             /\ e \in UsedIn(root) /\ root[e].kind = "file" /\ root[e].first = d.first
             /\ root[e].size = d.size /\ d.size + n <= MaxLen
             /\ Appending(done, d, e, n) /\ done \in LoopState
             /\ fat' = done.fat /\ data' = done.data
             /\ root' = IF done.ok THEN Resized(root, e, done.size) ELSE root
<1> DEFINE d == fd[p][i]
           e == d.slot
           done == Turns(d, n)
<1>1. /\ d # Closed /\ MayAppend(d) /\ d.size + n <= MaxLen
      /\ ToSet(Chain(fat, d.first)) \subseteq Cluster
      /\ fat' = done.fat /\ data' = done.data
      /\ root' = IF done.ok /\ root[e].kind \in {"file", "dir"}
                   THEN Resized(root, e, done.size) ELSE root
  BY DEF Write, Resized
<1>2. Opened(d) /\ Good(d, fat, root)
  BY <1>1 DEF Content, Agree, OpenedIn, GoodIn
<1>3. /\ d.use # "removed" /\ root[e].size = d.size
      /\ Len(Chain(fat, d.first)) = Clusters(d.size)
  BY <1>1 DEF MayAppend, SizeStored
<1> HIDE DEF d, done
<1>4. e \in UsedIn(root) /\ root[e].kind = "file" /\ d.first = root[e].first
  BY <1>2, <1>3, GoodSlot DEF Content
<1>5. InPlace(data, Chain(fat, d.first), e, d.size)
  BY <1>3, <1>4 DEF Content, KeptIn, KeptAt
<1>6. Appending(done, d, e, n) /\ done \in LoopState
  BY <1>1, <1>2, <1>3, <1>4, <1>5, TurnsAppend DEF Content, done
<1>7. root' = IF done.ok THEN Resized(root, e, done.size) ELSE root
  BY <1>1, <1>4
<1> QED BY <1>1, <1>2, <1>3, <1>4, <1>6, <1>7 DEF d, done

LEMMA WriteContent ==
  ASSUME Unchecked = {}, Content, NEW p \in Procs, NEW i \in File, NEW n \in Nat, Write(p, i, n)
  PROVE  Content'
<1> DEFINE d == fd[p][i]
           e == d.slot
           done == Turns(d, n)
<1>1. /\ Opened(d) /\ Good(d, fat, root) /\ d.use # "removed" /\ d # Closed
      /\ e \in UsedIn(root) /\ root[e].kind = "file" /\ root[e].first = d.first
      /\ root[e].size = d.size /\ d.size + n <= MaxLen
      /\ Appending(done, d, e, n) /\ done \in LoopState
      /\ fat' = done.fat /\ data' = done.data
      /\ root' = IF done.ok THEN Resized(root, e, done.size) ELSE root
  BY WriteIs
<1>2. Agree'
  BY WriteAgree DEF Content
<1>3. d.size \in Nat /\ MaxLen \in Nat
  BY <1>1, Sizes DEF Opened
<1>4. done.size \in 0 .. MaxLen /\ done.size \in Nat /\ d.size <= done.size
  BY <1>1, <1>3 DEF Appending
<1>5. /\ Others(fd, fd', p, i) /\ OpenedIn(fd)
      /\ fd'[p][i] = WrittenTo(d, done)
  <2>1. OpenedIn(fd)
    BY DEF Content, Agree
  <2>2. Turns(fd[p][i], n).size \in 0 .. MaxLen
    BY <1>4
  <2> QED BY <2>1, <2>2, WriteDescriptor
<1> HIDE DEF d, done
<1>6. /\ fat \in Table /\ root \in Directory /\ Sound(fat, root) /\ KeptIn(fat, data, root)
  BY DEF Content, Agree
<1>7. /\ UsedIn(root') = UsedIn(root)
      /\ root'[e].kind = "file" /\ root'[e].first = d.first
      /\ root'[e].size = IF done.ok THEN done.size ELSE d.size
      /\ \A s \in UsedIn(root) \ {e} : root'[s] = root[s]
  <2>1. CASE done.ok
    <3>1. root' = Resized(root, e, done.size)
      BY <1>1, <2>1
    <3>2. UsedIn(root') = UsedIn(root)
      BY <1>1, <1>4, <1>6, <3>1, ResizeSound
    <3>3. /\ root'[e].kind = "file" /\ root'[e].first = d.first /\ root'[e].size = done.size
          /\ \A s \in UsedIn(root) \ {e} : root'[s] = root[s]
      BY <1>1, <1>6, <3>1 DEF Resized, Directory, UsedIn
    <3> QED BY <2>1, <3>2, <3>3
  <2>2. CASE ~done.ok
    BY <1>1, <2>2
  <2> QED BY <2>1, <2>2
<1> DEFINE ch == Chain(fat', d.first)
<1>8. /\ Len(ch) = Clusters(done.size) /\ InPlace(data', ch, e, done.size)
      /\ ChainExtends(Chain(fat, d.first), ch)
  BY <1>1 DEF Appending
<1>9. /\ Clusters(root'[e].size) <= Len(ch) /\ InPlace(data', ch, e, root'[e].size)
  <2>1. CASE done.ok
    <3>1. Clusters(done.size) \in Nat
      BY <1>4, ClustersIs
    <3> QED BY <1>7, <1>8, <2>1, <3>1
  <2>2. CASE ~done.ok
    <3>1. ChainExtends(Chain(fat, d.first), ch) /\ Clusters(d.size) <= Len(Chain(fat, d.first))
      BY <1>1, <1>6, <1>8 DEF KeptIn, KeptAt
    <3>2. Clusters(d.size) \in Nat
      BY <1>3, ClustersIs
    <3>3. Clusters(d.size) <= Len(ch)
      BY <3>1, <3>2 DEF ChainExtends
    <3>4. InPlace(data', ch, e, d.size)
      <4>1. d.size \in 0 .. done.size
        BY <1>3, <1>4
      <4> HIDE DEF ch
      <4> QED BY <1>4, <1>8, <4>1, InPlaceLess
    <3> QED BY <1>7, <2>2, <3>3, <3>4
  <2> QED BY <2>1, <2>2
<1>10. Continues(fat, root, fat', root', e)
  BY <1>1, <1>3, <1>4, <1>7, <1>8 DEF Continues
<1>11. ASSUME NEW s \in UsedIn(root) \ {e}
       PROVE  /\ Continues(fat, root, fat', root', s)
              /\ KeptAt(fat', data', root', s)
  <2>1. /\ root'[s] = root[s] /\ Chain(fat', root'[s].first) = Chain(fat, root[s].first)
        /\ \A c \in Held(fat, root, s) : data'[c] = data[c]
    BY <1>1, <1>7 DEF Appending
  <2>2. Continues(fat, root, fat', root', s)
    BY <1>6, <2>1, ContinuesSame
  <2>3. KeptAt(fat', data', root', s)
    BY <1>6, <2>1, KeptSame
  <2> QED BY <2>2, <2>3
<1>12. KeptIn(fat', data', root')
  BY <1>7, <1>9, <1>11 DEF KeptIn, KeptAt
<1>13. Good(fd'[p][i], fat', root')
  <2> DEFINE d2 == WrittenTo(d, done)
  <2>1. d \in Descriptor /\ d.cursor <= d.size /\ d.cursor \in Nat
    BY <1>1, Sizes DEF Good, Descriptor
  <2>2. done.current \in Cluster
    BY <1>1 DEF LoopState
  <2>3. /\ d2 \in Descriptor /\ d2.use = "written" /\ d2.cursor = d.cursor /\ d2.size = done.size
        /\ d2.slot = e /\ d2.first = d.first
    BY <1>1, <1>4, <2>1, <2>2 DEF Descriptor, WrittenTo
  <2>4. d2.cursor <= d2.size
    BY <1>3, <1>4, <2>1, <2>3
  <2> HIDE DEF d2
  <2>5. Good(d2, fat', root')
    BY <1>7, <2>3, <2>4 DEF Good, Refers
  <2> QED BY <1>5, <2>5 DEF d2
<1>14. ASSUME NEW q \in Procs, NEW j \in File, fd[q][j] # Closed, fd[q][j].use # "removed"
       PROVE  Continues(fat, root, fat', root', fd[q][j].slot)
  <2>1. Opened(fd[q][j]) /\ Good(fd[q][j], fat, root)
    BY <1>14 DEF Content, Agree, OpenedIn, GoodIn
  <2>2. fd[q][j].slot \in UsedIn(root)
    BY <1>14, <2>1, GoodSlot DEF Content
  <2> QED BY <2>2, <1>10, <1>11
<1>15. GoodIn(fd', fat', root')
  BY <1>5, <1>13, <1>14, GoodOthers DEF Content
<1> QED BY <1>2, <1>12, <1>15 DEF Content

-----------------------------------------------------------------------------
(* What a read returns.                                                    *)

\* The n bytes given to the file of slot e from that number on.
Run(e, from, n) == [k \in 1 .. n |-> <<e, from + k - 1>>]

LEMMA RunIs ==
  ASSUME NEW e, NEW from \in Nat, NEW n \in Nat
  PROVE  /\ Run(e, from, n) \in Seq({e} \X Nat) /\ Len(Run(e, from, n)) = n
         /\ \A k \in 1 .. n : Run(e, from, n)[k] = <<e, from + k - 1>>
<1>1. \A k \in 1 .. n : <<e, from + k - 1>> \in {e} \X Nat
  OBVIOUS
<1>2. Run(e, from, n) \in [1 .. n -> {e} \X Nat]
  BY <1>1 DEF Run
<1>3. Run(e, from, n) \in Seq({e} \X Nat) /\ Len(Run(e, from, n)) = n
  BY <1>2
<1>4. \A k \in 1 .. n : Run(e, from, n)[k] = <<e, from + k - 1>>
  BY DEF Run
<1> QED BY <1>3, <1>4

IsSum(c, a, b) == c = a + b
Join(a, b)     == a \o b

LEMMA RunConcat ==
  ASSUME NEW e, NEW from \in Nat, NEW m \in Nat, NEW n \in Nat,
         NEW mid \in Nat, IsSum(mid, from, m), NEW l \in Nat, IsSum(l, m, n)
  PROVE  Join(Run(e, from, m), Run(e, mid, n)) = Run(e, from, l)
<1>0. mid = from + m /\ l = m + n
  BY DEF IsSum
<1> DEFINE B == {e} \X Nat
           a == Run(e, from, m)
           b == Run(e, mid, n)
           c == Run(e, from, l)
<1>1. /\ a \in Seq(B) /\ Len(a) = m
      /\ \A k \in 1 .. m : a[k] = <<e, from + k - 1>>
  BY RunIs
<1>2. /\ b \in Seq(B) /\ Len(b) = n
      /\ \A k \in 1 .. n : b[k] = <<e, mid + k - 1>>
  BY RunIs
<1>3. /\ c \in Seq(B) /\ Len(c) = l
      /\ \A k \in 1 .. l : c[k] = <<e, from + k - 1>>
  BY RunIs
<1> HIDE DEF a, b, c, B
<1>4. /\ a \o b \in Seq(B) /\ Len(a \o b) = l
      /\ \A k \in 1 .. m + n : (a \o b)[k] = IF k <= m THEN a[k] ELSE b[k - m]
  BY <1>0, <1>1, <1>2, ConcatProperties
<1>5. ASSUME NEW k \in 1 .. l PROVE (a \o b)[k] = c[k]
  <2>1. CASE k <= m
    <3>1. k \in 1 .. m /\ k \in 1 .. m + n
      BY <1>0, <2>1
    <3> QED BY <3>1, <2>1, <1>1, <1>3, <1>4
  <2>2. CASE ~(k <= m)
    <3>1. k \in 1 .. m + n /\ k - m \in 1 .. n /\ mid + (k - m) - 1 = from + k - 1
      BY <1>0, <2>2
    <3>2. (a \o b)[k] = b[k - m]
      BY <2>2, <3>1, <1>4
    <3> QED BY <3>1, <3>2, <1>2, <1>3
  <2> QED BY <2>1, <2>2
<1>6. a \o b = c
  BY <1>3, <1>4, <1>5, SeqEqual
<1> QED BY <1>6 DEF a, b, c, Join

\* The bytes of whole clusters of a file.
LEMMA BytesRun ==
  ASSUME NEW ch \in Seq(Cluster), NEW e, NEW size \in Nat, InPlace(data, ch, e, size),
         NEW q \in Nat, NEW n \in Nat, Upto(q) + n <= size,
         NEW t, \A k \in Nat : 1 <= k /\ q + k <= Len(ch) => t[k] = ch[q + k],
         \A x \in 0 .. size - 1 : Place(x) <= Len(ch)
  PROVE  Bytes(t, n) = Run(e, Upto(q), n)
<1> SUFFICES ASSUME NEW k \in 1 .. n
             PROVE  data[t[(k - 1) \div BPC + 1]][(k - 1) % BPC] = <<e, Upto(q) + k - 1>>
  BY DEF Bytes, Run
<1>0. Upto(q) \in Nat
  BY Times
<1>1. k - 1 \in Nat
  OBVIOUS
<1>2. PICK y \in Nat, o \in 0 .. BPC - 1 :
        k - 1 = Upto(y) + o /\ Place(k - 1) = y + 1 /\ Rest(k - 1) = o
  BY <1>1, Parts
<1>3. Upto(q + y) = Upto(q) + Upto(y) /\ Upto(y) \in Nat
  <2>1. y \in Int /\ q \in Int
    OBVIOUS
  <2> QED BY <2>1, UptoSum, Times
<1> DEFINE x == Upto(q) + k - 1
<1>4. x \in 0 .. size - 1 /\ x = Upto(q + y) + o
  <2>1. o \in Nat /\ k <= n /\ k >= 1
    BY Sizes
  <2> QED BY <2>1, <1>0, <1>2, <1>3
<1> HIDE DEF x
<1>5. Place(x) = (q + y) + 1 /\ Rest(x) = o
  <2>1. q + y \in Nat /\ o \in Offset
    BY DEF Offset
  <2> QED BY <2>1, <1>4, SplitUnique
<1>6. t[y + 1] = ch[Place(x)]
  <2>1. Place(x) <= Len(ch)
    BY <1>4
  <2>2. y + 1 \in Nat /\ 1 <= y + 1 /\ q + (y + 1) = Place(x)
    BY <1>5
  <2> QED BY <2>1, <2>2
<1>7. data[ch[Place(x)]][Rest(x)] = <<e, x>>
  BY <1>4 DEF InPlace
<1>8. (k - 1) \div BPC + 1 = y + 1 /\ (k - 1) % BPC = o
  BY <1>2 DEF Place, Rest
<1> QED BY <1>5, <1>6, <1>7, <1>8 DEF x

\* The buffer holds the cluster of the file where position at is.
Holds(buff, e, size, at) ==
  \A x \in 0 .. size - 1 : Place(x) = Place(at) => buff[Rest(x)] = <<e, x>>

\* The bytes of a cluster that is in the buffer.
LEMMA BufferedRun ==
  ASSUME NEW buff, NEW e, NEW size \in Nat, NEW at \in Nat, NEW n \in Nat,
         Rest(at) + n <= BPC, at + n <= size, Holds(buff, e, size, at)
  PROVE  Buffered(buff, at, n) = Run(e, at, n)
<1> SUFFICES ASSUME NEW k \in 1 .. n PROVE buff[(at + k - 1) % BPC] = <<e, at + k - 1>>
  BY DEF Buffered, Run
<1>1. PICK y \in Nat, o \in 0 .. BPC - 1 : at = Upto(y) + o /\ Place(at) = y + 1 /\ Rest(at) = o
  BY Parts
<1>2. Upto(y) \in Nat
  BY Times
<1> DEFINE x == at + k - 1
<1>3. /\ x \in 0 .. size - 1 /\ x = Upto(y) + (o + k - 1)
      /\ o + k - 1 \in 0 .. BPC - 1
  <2>1. BPC \in Nat /\ o \in Nat /\ o + n <= BPC /\ k \in Nat /\ 1 <= k /\ k <= n
    BY <1>1, Sizes
  <2> QED BY <2>1, <1>1, <1>2
<1> HIDE DEF x
<1>4. Place(x) = y + 1 /\ Rest(x) = o + k - 1
  <2> DEFINE z == o + k - 1
  <2>1. z \in Offset /\ x = Upto(y) + z
    BY <1>3 DEF Offset
  <2> HIDE DEF z
  <2>2. Place(x) = y + 1 /\ Rest(x) = z
    BY <2>1, SplitUnique
  <2> QED BY <2>2 DEF z
<1>5. buff[Rest(x)] = <<e, x>>
  BY <1>1, <1>3, <1>4 DEF Holds
<1>6. Rest(x) = (at + k - 1) % BPC
  BY DEF Rest, x
<1> QED BY <1>5, <1>6 DEF x

LEMMA ReadDataIs ==
  ASSUME fat \in Table, NEW ch, IsChain(fat, ch),
         NEW q \in Nat, q + 1 <= Len(ch), NEW size, NEW count \in Nat, count >= 1
  PROVE  LET t == Chain(fat, ch[q + 1])
             r == ReadData(ch[q + 1], size, count)
         IN  /\ \A k \in Nat : 1 <= k /\ q + k <= Len(ch) => t[k] = ch[q + k]
             /\ q + count < Len(ch) =>
                  r = [bytes |-> Bytes(t, Upto(count)), current |-> ch[q + count + 1]]
             /\ q + count >= Len(ch) =>
                  r = [bytes |-> Bytes(t, Upto(Len(ch) - q - 1) + Rest(size)), current |-> End]
<1> DEFINE c == ch[q + 1]
           t == Chain(fat, c)
           l == Len(t)
<1>1. Len(ch) \in Nat /\ q + 1 \in 1 .. Len(ch) /\ c \in Cluster /\ c # End
  <2>1. Len(ch) \in Nat /\ \A k \in 1 .. Len(ch) : ch[k] \in Cluster
    BY ChainElements
  <2>2. q + 1 \in 1 .. Len(ch)
    BY <2>1
  <2> QED BY <2>1, <2>2, Sizes
<1>2. /\ l = Len(ch) - (q + 1) + 1 /\ l \in Nat
      /\ \A k \in 1 .. l : t[k] = ch[(q + 1) + k - 1]
  BY <1>1, ChainSuffix
<1>3. ReadData(c, size, count) =
        IF Least(count, l) = l
          THEN [bytes |-> Bytes(t, (l - 1) * BPC + LastPart(size)), current |-> End]
          ELSE [bytes |-> Bytes(t, count * BPC), current |-> t[Least(count, l) + 1]]
  <2>1. count # 0
    OBVIOUS
  <2>2. Least(count, l) = l =>
          [bytes |-> Bytes(t, (Least(count, l) - 1) * BPC + LastPart(size)), current |-> End]
        = [bytes |-> Bytes(t, (l - 1) * BPC + LastPart(size)), current |-> End]
    OBVIOUS
  <2> QED BY <2>1, <2>2, <1>1 DEF ReadData
<1> HIDE DEF c, t
<1>4. ASSUME NEW k \in Nat, 1 <= k, q + k <= Len(ch) PROVE t[k] = ch[q + k]
  <2>1. k \in 1 .. l /\ (q + 1) + k - 1 = q + k
    BY <1>1, <1>2, <1>4
  <2> QED BY <2>1, <1>2
<1>5. CASE q + count < Len(ch)
  <2>1. Least(count, l) = count /\ count # l
    BY <1>1, <1>2, <1>5 DEF Least
  <2>2. t[count + 1] = ch[q + count + 1]
    <3>1. count + 1 \in Nat /\ 1 <= count + 1 /\ q + (count + 1) <= Len(ch)
          /\ q + (count + 1) = q + count + 1
      BY <1>1, <1>5
    <3> QED BY <3>1, <1>4
  <2>3. count * BPC = Upto(count)
    BY Sizes DEF Upto
  <2>4. ReadData(c, size, count) = [bytes |-> Bytes(t, Upto(count)), current |-> ch[q + count + 1]]
    BY <1>3, <2>1, <2>2, <2>3
  <2> QED BY <1>1, <1>4, <1>5, <2>4 DEF c, t
<1>6. CASE q + count >= Len(ch)
  <2>1. Least(count, l) = l /\ l - 1 = Len(ch) - q - 1 /\ l - 1 \in Int
    BY <1>1, <1>2, <1>6 DEF Least
  <2>3. (l - 1) * BPC = Upto(Len(ch) - q - 1)
    <3> DEFINE z == l - 1
    <3>1. z \in Int /\ z = Len(ch) - q - 1
      BY <2>1
    <3> HIDE DEF z
    <3>2. z * BPC = Upto(z)
      BY <3>1, Sizes DEF Upto
    <3> QED BY <3>1, <3>2 DEF z
  <2>4. LastPart(size) = Rest(size)
    BY DEF LastPart, Rest
  <2>5. ReadData(c, size, count)
        = [bytes |-> Bytes(t, Upto(Len(ch) - q - 1) + Rest(size)), current |-> End]
    BY <1>3, <2>1, <2>3, <2>4
  <2> QED BY <1>1, <1>4, <1>6, <2>5 DEF c, t
<1> QED BY <1>1, <1>5, <1>6

\* The clusters before q, and those with some bytes of the next.
LEMMA Inside ==
  ASSUME NEW q \in Nat
  PROVE  /\ Upto(q) \in Nat /\ Upto(q + 1) = Upto(q) + BPC
         /\ Place(Upto(q)) = q + 1 /\ Rest(Upto(q)) = 0 /\ Begun(Upto(q)) = q
         /\ \A l \in Nat : 1 <= l /\ l < BPC =>
              LET n == Upto(q) + l
              IN Place(n) = q + 1 /\ Rest(n) = l /\ Begun(n) = q + 1
<1>1. Upto(q) \in Nat /\ Upto(q + 1) = Upto(q) + BPC
  BY Times
<1>2. Place(Upto(q)) = q + 1 /\ Rest(Upto(q)) = 0
  <2>1. 0 \in Offset /\ Upto(q) = Upto(q) + 0
    BY <1>1, Sizes DEF Offset
  <2> QED BY <2>1, SplitUnique
<1>3. Begun(Upto(q)) = q
  <2>1. Begun(Upto(q)) = Place(Upto(q)) - 1
    BY <1>1, <1>2, BegunIs
  <2> QED BY <2>1, <1>2
<1>4. ASSUME NEW l \in Nat, 1 <= l, l < BPC
      PROVE  LET n == Upto(q) + l IN Place(n) = q + 1 /\ Rest(n) = l /\ Begun(n) = q + 1
  <2> DEFINE n == Upto(q) + l
  <2>1. l \in Offset /\ n \in Nat
    BY <1>1, <1>4, Sizes DEF Offset
  <2>2. Place(n) = q + 1 /\ Rest(n) = l
    BY <2>1, SplitUnique
  <2> HIDE DEF n
  <2>3. Begun(n) = q + 1
    BY <2>1, <2>2, <1>4, BegunIs
  <2> QED BY <2>2, <2>3 DEF n
<1> QED BY <1>1, <1>2, <1>3, <1>4

\* The clusters of a file hold it.
LEMMA SizeUpto ==
  ASSUME NEW m \in Nat, NEW size \in Nat, \A x \in 0 .. size - 1 : Place(x) <= m
  PROVE  size <= Upto(m)
<1>1. Upto(m) \in Nat
  BY Times
<1>2. CASE size = 0
  BY <1>1, <1>2
<1>3. CASE size # 0
  <2> DEFINE x == size - 1
  <2>1. x \in 0 .. size - 1 /\ x \in Nat /\ size = x + 1
    BY <1>3
  <2>2. Place(x) <= m
    BY <2>1
  <2> HIDE DEF x
  <2>3. PICK y \in Nat, o \in 0 .. BPC - 1 : x = Upto(y) + o /\ Place(x) = y + 1
    BY <2>1, Parts
  <2>4. Upto(y + 1) = Upto(y) + BPC /\ Upto(y) \in Nat
    BY Times
  <2>5. Upto(y + 1) <= Upto(m)
    <3>1. y + 1 <= m /\ y + 1 \in Int /\ m \in Int
      BY <2>2, <2>3
    <3> QED BY <3>1, Times
  <2>6. o \in Nat /\ o <= BPC - 1 /\ BPC \in Nat
    BY Sizes
  <2>7. size <= Upto(y) + BPC
    BY <2>1, <2>3, <2>4, <2>6
  <2> QED BY <1>1, <2>4, <2>5, <2>6, <2>7
<1> QED BY <1>2, <1>3

LEMMA BytesLen ==
  ASSUME NEW t, NEW n \in Nat
  PROVE  Len(Bytes(t, n)) = n
<1> DEFINE at(k) == data[t[(k - 1) \div BPC + 1]][(k - 1) % BPC]
           B == {at(k) : k \in 1 .. n}
<1>1. \A k \in 1 .. n : at(k) \in B
  OBVIOUS
<1>2. Bytes(t, n) = [k \in 1 .. n |-> at(k)]
  BY DEF Bytes
<1> HIDE DEF at, B
<1>3. Bytes(t, n) \in [1 .. n -> B]
  BY <1>1, <1>2
<1> QED BY <1>3

TailGives(e, size, at, left, c, ch) ==
  LET rest == ReadData(c, size, 1)
      buff == data[c]
      l    == Least(left, Len(rest.bytes))
  IN  /\ l \in Nat /\ l <= left /\ Buffered(buff, at, l) = Run(e, at, l)
      /\ l < left => Rest(size) = 0 /\ at + l >= size - BPC
      /\ At(e, size, at + l, rest.current, buff, ch)
      /\ rest.current \in Cluster \cup {End} /\ buff \in [Offset -> Byte]
      /\ c # End

\* A read that has come to the cluster q + 1 of the chain fills the buffer with it, and
\* takes from it what is asked unless it is the last one and full.
LEMMA TailIs ==
  ASSUME fat \in Table, data \in [Cluster -> [Offset -> Byte]],
         NEW ch, IsChain(fat, ch), NEW e, NEW size \in Nat, InPlace(data, ch, e, size),
         \A x \in 0 .. size - 1 : Place(x) <= Len(ch),
         NEW q \in Nat, q + 1 <= Len(ch), NEW at \in Nat, at = Upto(q),
         NEW left \in Nat, 1 <= left, left < BPC, at + left <= size
  PROVE  TailGives(e, size, at, left, ch[q + 1], ch)
<1> SUFFICES LET rest == ReadData(ch[q + 1], size, 1)
                 buff == data[ch[q + 1]]
                 l    == Least(left, Len(rest.bytes))
             IN  /\ l \in Nat /\ l <= left /\ Buffered(buff, at, l) = Run(e, at, l)
                 /\ l < left => Rest(size) = 0 /\ at + l >= size - BPC
                 /\ At(e, size, at + l, rest.current, buff, ch)
                 /\ rest.current \in Cluster \cup {End} /\ buff \in [Offset -> Byte]
                 /\ ch[q + 1] # End
  BY DEF TailGives
<1> DEFINE c == ch[q + 1]
           t == Chain(fat, c)
           rest == ReadData(c, size, 1)
           buff == data[c]
           l == Least(left, Len(rest.bytes))
<1>1. /\ Len(ch) \in Nat /\ c \in Cluster /\ c # End /\ buff \in [Offset -> Byte]
      /\ \A k \in 1 .. Len(ch) : ch[k] \in Cluster
  <2>1. Len(ch) \in Nat /\ \A k \in 1 .. Len(ch) : ch[k] \in Cluster
    BY ChainElements
  <2>2. q + 1 \in 1 .. Len(ch)
    BY <2>1
  <2> QED BY <2>1, <2>2, Sizes
<1>2. /\ q + 1 < Len(ch) => rest = [bytes |-> Bytes(t, Upto(1)), current |-> ch[q + 1 + 1]]
      /\ q + 1 >= Len(ch) =>
           rest = [bytes |-> Bytes(t, Upto(Len(ch) - q - 1) + Rest(size)), current |-> End]
  <2>1. 1 \in Nat /\ 1 >= 1
    OBVIOUS
  <2> QED BY <2>1, ReadDataIs
<1> HIDE DEF c, t, rest
<1>3. /\ at \in Nat /\ Upto(q + 1) = at + BPC /\ Place(at) = q + 1 /\ Rest(at) = 0
      /\ Begun(at) = q
  BY Inside
<1>4. /\ Place(at + left) = q + 1 /\ Rest(at + left) = left /\ Begun(at + left) = q + 1
  BY Inside
<1>5. size <= Upto(Len(ch))
  BY <1>1, SizeUpto
<1>6. ASSUME NEW x \in 0 .. size - 1, Place(x) = q + 1 PROVE buff[Rest(x)] = <<e, x>>
  BY <1>6 DEF InPlace, c
<1>7. BPC \in Nat /\ BPC >= 1 /\ Upto(0) = 0 /\ Upto(1) = BPC
  <2>1. Upto(0 + 1) = Upto(0) + BPC /\ Upto(0) = 0
    BY Times
  <2> QED BY <2>1, Sizes
<1> HIDE DEF buff
<1> DEFINE Done == /\ l \in Nat /\ l <= left /\ Buffered(buff, at, l) = Run(e, at, l)
                   /\ l < left => Rest(size) = 0 /\ at + l >= size - BPC
                   /\ At(e, size, at + l, rest.current, buff, ch)
                   /\ rest.current \in Cluster \cup {End} /\ buff \in [Offset -> Byte]
\* All that is asked.
<1>8. ASSUME l = left,
             \/ q + 1 < Len(ch) /\ rest.current = ch[q + 1 + 1]
             \/ rest.current = End /\ Upto(q + 1) >= size
      PROVE  Done
  <2>1. Rest(at) + left <= BPC
    BY <1>3, <1>7
  <2>2. Buffered(buff, at, left) = Run(e, at, left)
    <3>1. Holds(buff, e, size, at)
      BY <1>3, <1>6 DEF Holds
    <3> QED BY <2>1, <3>1, BufferedRun
  <2>3. rest.current \in Cluster \cup {End}
    <3>1. q + 1 < Len(ch) => q + 1 + 1 \in 1 .. Len(ch)
      BY <1>1
    <3> QED BY <3>1, <1>1, <1>8
  <2>4. At(e, size, at + left, rest.current, buff, ch)
    <3>1. q + 1 < Len(ch) => (q + 1) + 1 <= Len(ch)
      BY <1>1
    <3>2. \A x \in 0 .. size - 1 : Place(x) = Place(at + left) => buff[Rest(x)] = <<e, x>>
      BY <1>4, <1>6
    <3> QED BY <3>1, <3>2, <1>4, <1>8 DEF At
  <2> QED BY <1>8, <2>2, <2>3, <2>4, <1>1
<1>9. CASE q + 1 < Len(ch)
  <2>1. Len(rest.bytes) = BPC
    <3>1. Len(Bytes(t, BPC)) = BPC
      BY <1>7, BytesLen
    <3> QED BY <3>1, <1>2, <1>7, <1>9
  <2>2. l = left
    BY <2>1, <1>7 DEF Least
  <2>3. rest.current = ch[q + 1 + 1]
    BY <1>2, <1>9
  <2> HIDE DEF l, Done
  <2>4. Done
    <3>1. q + 1 < Len(ch) /\ rest.current = ch[q + 1 + 1]
      BY <1>9, <2>3
    <3> QED BY <1>8, <2>2, <3>1
  <2> QED BY <1>1, <2>4 DEF c, rest, buff, l, Done
<1>10. CASE ~(q + 1 < Len(ch))
  <2>1. Len(ch) = q + 1 /\ Len(ch) - q - 1 = 0 /\ size <= at + BPC
    BY <1>1, <1>3, <1>5, <1>10
  <2>2. rest.current = End /\ Len(rest.bytes) = Rest(size)
    <3>1. Rest(size) \in Nat
      BY Split
    <3>2. rest = [bytes |-> Bytes(t, Rest(size)), current |-> End]
      <4>1. rest = [bytes |-> Bytes(t, Upto(0) + Rest(size)), current |-> End]
        BY <2>1, <1>2
      <4> QED BY <4>1, <3>1, <1>7
    <3> QED BY <3>1, <3>2, BytesLen
  <2>3. CASE size = at + BPC
    <3>1. Rest(size) = 0
      <4>1. Rest(Upto(q + 1)) = 0
        BY Inside
      <4> QED BY <4>1, <2>3, <1>3
    <3>2. l = 0
      BY <2>2, <3>1 DEF Least
    <3>3. Buffered(buff, at, 0) = Run(e, at, 0)
      BY DEF Buffered, Run
    <3>4. at + 0 = at /\ at = size - BPC
      BY <2>3, <1>7
    <3>5. At(e, size, at, rest.current, buff, ch)
      BY <2>2, <3>1, <3>4, <1>3 DEF At
    <3>6. /\ l \in Nat /\ l <= left /\ Buffered(buff, at, l) = Run(e, at, l)
          /\ l < left => Rest(size) = 0 /\ at + l >= size - BPC
          /\ At(e, size, at + l, rest.current, buff, ch)
          /\ rest.current \in Cluster \cup {End}
      BY <2>2, <3>1, <3>2, <3>3, <3>4, <3>5, <1>7
    <3> HIDE DEF l
    <3>7. Done
      BY <3>6, <1>1
    <3> HIDE DEF Done
    <3> QED BY <3>7, <1>1 DEF c, rest, buff, l, Done
  <2>4. CASE size # at + BPC
    <3> DEFINE z == size - at
    <3>1. z \in Nat /\ 1 <= z /\ z < BPC /\ left <= z /\ size = at + z /\ size <= Upto(q + 1)
      BY <2>1, <2>4, <1>3, <1>7
    <3> HIDE DEF z
    <3>2. Rest(size) = z
      BY <3>1, Inside
    <3>3. l = left
      BY <3>1, <3>2, <2>2 DEF Least
    <3>4. Upto(q + 1) >= size
      BY <3>1, <1>3, <1>7
    <3> HIDE DEF l, Done
    <3>5. Done
      BY <1>8, <2>2, <3>3, <3>4
    <3> QED BY <3>5, <1>1 DEF c, rest, buff, l, Done
  <2> QED BY <2>3, <2>4
<1> QED BY <1>9, <1>10

WholeGives(e, size, q, count, whole, ch) ==
  \/ /\ q + count < Len(ch)
     /\ whole = [bytes |-> Run(e, Upto(q), Upto(count)), current |-> ch[q + count + 1]]
  \/ /\ count >= 1 /\ Rest(size) = 0 /\ size = Upto(q + count)
     /\ whole = [bytes |-> Run(e, Upto(q), Upto(count - 1)), current |-> End]

\* From the cluster q + 1 on, count whole clusters are read, or one less at the end of the
\* chain when the last one is full.
LEMMA WholeIs ==
  ASSUME fat \in Table, NEW ch, IsChain(fat, ch), NEW e, NEW size \in Nat,
         InPlace(data, ch, e, size), \A x \in 0 .. size - 1 : Place(x) <= Len(ch),
         NEW q \in Nat, q + 1 <= Len(ch), NEW count \in Nat, Upto(q) + Upto(count) <= size
  PROVE  WholeGives(e, size, q, count, ReadData(ch[q + 1], size, count), ch)
<1> SUFFICES LET whole == ReadData(ch[q + 1], size, count)
             IN  \/ /\ q + count < Len(ch)
                    /\ whole = [bytes   |-> Run(e, Upto(q), Upto(count)),
                                current |-> ch[q + count + 1]]
                 \/ /\ count >= 1 /\ Rest(size) = 0 /\ size = Upto(q + count)
                    /\ whole = [bytes |-> Run(e, Upto(q), Upto(count - 1)), current |-> End]
  BY DEF WholeGives
<1> DEFINE t == Chain(fat, ch[q + 1])
           whole == ReadData(ch[q + 1], size, count)
<1>1. Len(ch) \in Nat /\ ch \in Seq(Cluster) /\ size <= Upto(Len(ch))
  BY ChainElements, SizeUpto
<1>2. CASE count = 0
  <2>1. whole = [bytes |-> <<>>, current |-> ch[q + 1]]
    BY <1>2 DEF ReadData
  <2>2. Upto(count) = 0 /\ q + count + 1 = q + 1
    BY <1>2, Times
  <2>3. Run(e, Upto(q), 0) = <<>>
    BY DEF Run
  <2> QED BY <1>1, <1>2, <2>1, <2>2, <2>3
<1>3. CASE count # 0
  <2>0. count >= 1 /\ count - 1 \in Nat /\ Upto(count) = Upto(count - 1) + BPC /\ Upto(count - 1) \in Nat
    <3>1. count >= 1 /\ count - 1 \in Nat /\ count = (count - 1) + 1
      BY <1>3
    <3>2. Upto(count) = Upto(count - 1) + BPC /\ Upto(count - 1) \in Nat
      <4> DEFINE m == count - 1
      <4>1. m \in Nat /\ m \in Int /\ count \in Int /\ count = m + 1
        BY <3>1
      <4> HIDE DEF m
      <4>2. Upto(count) = Upto(m) + BPC /\ Upto(m) \in Nat
        BY <4>1, Times
      <4> QED BY <4>2 DEF m
    <3> QED BY <3>1, <3>2
  <2>1. /\ \A k \in Nat : 1 <= k /\ q + k <= Len(ch) => t[k] = ch[q + k]
        /\ q + count < Len(ch) =>
             whole = [bytes |-> Bytes(t, Upto(count)), current |-> ch[q + count + 1]]
        /\ q + count >= Len(ch) =>
             whole = [bytes |-> Bytes(t, Upto(Len(ch) - q - 1) + Rest(size)), current |-> End]
    BY <2>0, ReadDataIs
  <2> HIDE DEF t, whole
  <2>2. CASE q + count < Len(ch)
    <3>1. Upto(count) \in Nat
      BY Times
    <3>2. Bytes(t, Upto(count)) = Run(e, Upto(q), Upto(count))
      BY <1>1, <2>1, <3>1, BytesRun
    <3> QED BY <2>1, <2>2, <3>2 DEF whole
  <2>3. CASE ~(q + count < Len(ch))
    <3>1. Upto(q + count) = Upto(q) + Upto(count) /\ Upto(q) \in Nat
      <4>1. q \in Int /\ count \in Int
        OBVIOUS
      <4> QED BY <4>1, UptoSum, Times
    <3>2. Len(ch) = q + count
      <4>1. ~(Len(ch) < q + count)
        <5>1. Len(ch) < q + count => Upto(Len(ch) + 1) <= Upto(q + count)
          <6>1. Len(ch) < q + count => Len(ch) + 1 <= q + count /\ Len(ch) + 1 \in Int /\ q + count \in Int
            BY <1>1
          <6> QED BY <6>1, Times
        <5>2. Upto(Len(ch) + 1) = Upto(Len(ch)) + BPC /\ Upto(Len(ch)) \in Nat
          BY <1>1, Times
        <5> QED BY <5>1, <5>2, <3>1, <1>1, <2>0, Sizes
      <4> QED BY <4>1, <2>3, <1>1
    <3>3. size = Upto(q + count)
      <4>1. size <= Upto(q + count)
        BY <3>2, <1>1
      <4>2. Upto(q + count) <= size
        BY <3>1
      <4>3. Upto(q + count) \in Nat
        BY <3>1, <2>0, Sizes
      <4> QED BY <4>1, <4>2, <4>3
    <3>4. Rest(size) = 0
      <4>1. q + count \in Nat
        OBVIOUS
      <4> QED BY <4>1, <3>3, Inside
    <3>5. Upto(Len(ch) - q - 1) + Rest(size) = Upto(count - 1)
      <4>1. Len(ch) - q - 1 = count - 1
        BY <3>2
      <4> QED BY <4>1, <3>4, <2>0
    <3>6. Bytes(t, Upto(count - 1)) = Run(e, Upto(q), Upto(count - 1))
      <4>1. Upto(q) + Upto(count - 1) <= size
        BY <2>0, <3>1, <3>3, Sizes
      <4> QED BY <1>1, <2>0, <2>1, <4>1, BytesRun
    <3>7. whole = [bytes |-> Run(e, Upto(q), Upto(count - 1)), current |-> End]
      <4>1. q + count >= Len(ch)
        BY <3>2
      <4> QED BY <4>1, <2>1, <3>5, <3>6
    <3> QED BY <2>0, <3>3, <3>4, <3>7 DEF whole
  <2> QED BY <2>2, <2>3
<1> QED BY <1>2, <1>3

\* What a read of all bytes returns and leaves: the bytes that come next, all of them unless
\* what is left is a last cluster that is full.
Follows(r, e, size, cursor, all, ch) ==
  \E l \in Nat :
    /\ l <= all /\ r.bytes = Run(e, cursor, l)
    /\ l < all => Rest(size) = 0 /\ cursor + l >= size - BPC
    /\ At(e, size, cursor + l, r.current, r.buff, ch)
    /\ r.current \in Cluster \cup {End} /\ r.buff \in [Offset -> Byte]

\* How a read goes on from what it has of whole clusters.
Shape(r, d, some, whole, count, left) ==
  LET rest == ReadData(whole.current, d.size, 1)
      buff == IF whole.current = End THEN d.buff ELSE data[whole.current]
      l    == Least(left, Len(rest.bytes))
  IN /\ Len(some) \div BPC # count \/ left = 0 =>
          r = [bytes |-> some, current |-> whole.current, buff |-> d.buff]
     /\ ~(Len(some) \div BPC # count \/ left = 0) =>
          r = [bytes |-> some \o Buffered(buff, d.cursor + Len(some), l),
               current |-> rest.current, buff |-> buff]

\* The parts of a read, lead bytes from the buffer and then count clusters.
LEMMA ReadResultIs ==
  ASSUME NEW d, NEW asked
  PROVE  LET all   == Least(asked, d.size - d.cursor)
             lead  == IF Rest(d.cursor) = 0 THEN 0 ELSE Least(all, BPC - Rest(d.cursor))
             count == (all - lead) \div BPC
             whole == ReadData(d.current, d.size, count)
             some  == Buffered(d.buff, d.cursor, lead) \o whole.bytes
         IN  Shape(ReadResult(d, asked), d, some, whole, count, all - lead - Len(whole.bytes))
BY DEF ReadResult, Rest, Shape

\* How far the buffer goes: the read ends in it, or comes to the end of its cluster.
LEMMA LeadIs ==
  ASSUME NEW cursor \in Nat, NEW all \in Nat,
         NEW lead, lead = IF Rest(cursor) = 0 THEN 0 ELSE Least(all, BPC - Rest(cursor))
  PROVE  /\ lead \in Nat /\ lead <= all /\ lead < BPC
         /\ lead # 0 => Rest(cursor) # 0 /\ Rest(cursor) + lead <= BPC
         /\ \/ /\ Rest(cursor) # 0 /\ lead = all /\ Rest(cursor) + all < BPC
               /\ Begun(cursor + all) = Begun(cursor) /\ Place(cursor + all) = Place(cursor)
            \/ cursor + lead = Upto(Begun(cursor))
<1>1. PICK q \in Nat, o \in 0 .. BPC - 1 :
        cursor = Upto(q) + o /\ Place(cursor) = q + 1 /\ Rest(cursor) = o
  BY Parts
<1>2. BPC \in Nat /\ BPC >= 1 /\ o \in Nat /\ o < BPC
  BY Sizes
<1>3. Upto(q + 1) = Upto(q) + BPC /\ Upto(q) \in Nat
  BY Inside
<1>4. CASE o = 0
  <2>1. Begun(cursor) = q /\ cursor = Upto(q)
    BY <1>1, <1>3, <1>4, Inside
  <2> QED BY <1>1, <1>2, <1>4, <2>1
<1>5. CASE o # 0
  <2>1. Begun(cursor) = q + 1
    BY <1>1, <1>2, <1>5, Inside
  <2>2. lead = Least(all, BPC - o)
    BY <1>1, <1>5
  <2>3. CASE all < BPC - o
    <3>1. lead = all /\ lead \in Nat /\ lead < BPC /\ o + lead <= BPC /\ o + all < BPC
      BY <1>2, <2>2, <2>3 DEF Least
    <3> DEFINE l == o + all
    <3>2. l \in Nat /\ 1 <= l /\ l < BPC /\ cursor + all = Upto(q) + l
      BY <1>1, <1>2, <1>3, <1>5, <3>1
    <3> HIDE DEF l
    <3>3. Begun(cursor + all) = q + 1 /\ Place(cursor + all) = q + 1
      BY <3>2, Inside
    <3> QED BY <1>1, <1>5, <2>1, <3>1, <3>3
  <2>4. CASE ~(all < BPC - o)
    <3>1. lead = BPC - o
      BY <2>2, <2>4 DEF Least
    <3>2. lead \in Nat /\ lead <= all /\ lead < BPC /\ o + lead <= BPC
      BY <3>1, <1>2, <1>5, <2>4
    <3>3. cursor + lead = Upto(q + 1)
      BY <1>1, <1>2, <1>3, <3>1
    <3> QED BY <1>1, <1>5, <2>1, <3>2, <3>3
  <2> QED BY <2>3, <2>4
<1> QED BY <1>4, <1>5

\* The clusters that are counted in what is read.
LEMMA CountIs ==
  ASSUME NEW lead \in Nat, lead < BPC, NEW count \in Nat, NEW n \in Nat,
         n = lead + Upto(count)
  PROVE  n \div BPC = count
<1>1. lead \in Offset /\ n = Upto(count) + lead
  <2>1. Upto(count) \in Nat
    BY Times
  <2> QED BY <2>1, Sizes DEF Offset
<1>2. Place(n) = count + 1
  BY <1>1, SplitUnique
<1>3. n \div BPC \in Int
  <2>1. n \in Int /\ BPC \in Nat \ {0}
    BY Sizes
  <2> QED BY <2>1, Quotient
<1> QED BY <1>2, <1>3 DEF Place

\* What ReadIs and its cases assume of a descriptor and its chain.
Reading(d, ch) ==
  /\ fat \in Table /\ data \in [Cluster -> [Offset -> Byte]] /\ IsChain(fat, ch)
  /\ d.size \in Nat /\ d.cursor \in Nat /\ d.cursor <= d.size
  /\ d.current \in Cluster \cup {End} /\ d.buff \in [Offset -> Byte]
  /\ InPlace(data, ch, d.slot, d.size) /\ \A x \in 0 .. d.size - 1 : Place(x) <= Len(ch)
  /\ At(d.slot, d.size, d.cursor, d.current, d.buff, ch)

\* How it goes on from the lead bytes of the buffer.
Shaped(r, d, current, all, lead, count) ==
  LET whole == ReadData(current, d.size, count)
  IN Shape(r, d, Run(d.slot, d.cursor, lead) \o whole.bytes, whole, count,
           all - lead - Len(whole.bytes))

\* The sizes a descriptor and a chain have.
Sized(d, e, size, cursor, ch, q) ==
  d.slot = e /\ d.size = size /\ d.cursor = cursor /\ q + 1 <= Len(ch)

\* The bytes to read: lead in the buffer, count clusters, and less than a cluster.
Parted(all, lead, count) == \E o \in Nat : o < BPC /\ all = lead + Upto(count) + o

\* The read comes to the end of a cluster of which the chain has the next, number q + 1.
LEMMA ReadOn ==
  ASSUME NEW d, NEW ch, Reading(d, ch), NEW e, NEW size \in Nat,
         NEW cursor \in Nat,
         NEW all \in Nat, cursor + all <= size, NEW lead \in Nat, lead < BPC,
         NEW q \in Nat, Sized(d, e, size, cursor, ch, q), cursor + lead = Upto(q),
         NEW count \in Nat, Parted(all, lead, count),
         NEW r, Shaped(r, d, ch[q + 1], all, lead, count)
  PROVE  Follows(r, e, size, cursor, all, ch)
<1> PICK o \in Nat : o < BPC /\ all = lead + Upto(count) + o
  BY DEF Parted
<1>0. d.slot = e /\ d.size = size /\ d.cursor = cursor /\ q + 1 <= Len(ch)
  BY DEF Sized
<1> DEFINE whole == ReadData(ch[q + 1], size, count)
           some == Run(e, cursor, lead) \o whole.bytes
           left == all - lead - Len(whole.bytes)
<1>2. Shape(r, d, some, whole, count, left)
  BY <1>0 DEF Shaped
<1>1. /\ fat \in Table /\ data \in [Cluster -> [Offset -> Byte]] /\ IsChain(fat, ch)
      /\ d.buff \in [Offset -> Byte]
      /\ InPlace(data, ch, e, size) /\ \A x \in 0 .. size - 1 : Place(x) <= Len(ch)
  BY <1>0 DEF Reading
<1>4. /\ Upto(q) \in Nat /\ Upto(count) \in Nat /\ Upto(q + count) = Upto(q) + Upto(count)
      /\ BPC \in Nat /\ BPC >= 1
  <2>1. Upto(q) \in Nat /\ Upto(count) \in Nat
    BY Times
  <2>2. Upto(q + count) = Upto(q) + Upto(count)
    <3>1. q \in Int /\ count \in Int
      OBVIOUS
    <3> QED BY <3>1, UptoSum
  <2> QED BY <2>1, <2>2, Sizes
<1>5. Len(ch) \in Nat /\ \A k \in 1 .. Len(ch) : ch[k] \in Cluster
  BY <1>1, ChainElements
<1>6. \/ /\ q + count < Len(ch)
         /\ whole = [bytes |-> Run(e, Upto(q), Upto(count)), current |-> ch[q + count + 1]]
      \/ /\ count >= 1 /\ Rest(size) = 0 /\ size = Upto(q + count)
         /\ whole = [bytes |-> Run(e, Upto(q), Upto(count - 1)), current |-> End]
  <2>1. Upto(q) + Upto(count) <= size
    BY <1>4
  <2>2. IsChain(fat, ch) /\ InPlace(data, ch, e, size) /\ q + 1 <= Len(ch)
    BY <1>0, <1>1
  <2>3. WholeGives(e, size, q, count, whole, ch)
    BY <1>1, <2>1, <2>2, WholeIs
  <2> QED BY <2>3 DEF WholeGives
<1> HIDE DEF whole
\* What is read before the last part, if it is n bytes of the file.
<1>7. ASSUME NEW n \in Nat, whole.bytes = Run(e, Upto(q), n), NEW m \in Nat, m = lead + n
      PROVE  /\ some = Run(e, cursor, m) /\ Len(some) = m /\ Len(whole.bytes) = n
             /\ left = all - lead - n
  <2> DEFINE u == Upto(q)
  <2>0. u \in Nat /\ u = cursor + lead /\ whole.bytes = Run(e, u, n)
    BY <1>4, <1>7
  <2> HIDE DEF u
  <2>1. Len(whole.bytes) = n
    <3>1. Len(Run(e, u, n)) = n
      BY <2>0, RunIs
    <3> QED BY <3>1, <2>0
  <2>2. some = Run(e, cursor, m)
    <3>1. Join(Run(e, cursor, lead), Run(e, u, n)) = Run(e, cursor, m)
      <4>1. m \in Nat /\ IsSum(m, lead, n) /\ IsSum(u, cursor, lead)
        BY <1>7, <2>0 DEF IsSum
      <4> QED BY <4>1, <2>0, RunConcat
    <3> QED BY <3>1, <2>0 DEF Join
  <2>3. Len(some) = m
    <3> HIDE DEF some
    <3>1. Len(Run(e, cursor, m)) = m
      BY RunIs
    <3> QED BY <3>1, <2>2
  <2> QED BY <2>1, <2>2, <2>3
<1> HIDE DEF some, left
<1>8. CASE /\ q + count < Len(ch)
           /\ whole = [bytes |-> Run(e, Upto(q), Upto(count)), current |-> ch[q + count + 1]]
  <2> DEFINE m == lead + Upto(count)
             k == q + count
  <2>1. m \in Nat /\ k \in Nat /\ k + 1 <= Len(ch) /\ k + 1 \in 1 .. Len(ch)
    <3> DEFINE w == Len(ch)
    <3>1. w \in Nat /\ q + count < w /\ Upto(count) \in Nat
      BY <1>4, <1>5, <1>8
    <3> HIDE DEF w
    <3>2. m \in Nat /\ k \in Nat /\ k + 1 <= w /\ k + 1 \in 1 .. w
      BY <3>1
    <3> QED BY <3>2 DEF w
  <2>2. /\ some = Run(e, cursor, m) /\ Len(some) = m /\ left = all - lead - Upto(count)
    BY <1>4, <1>7, <1>8, <2>1
  <2>3. whole.current = ch[k + 1] /\ whole.current \in Cluster
    BY <1>5, <1>8, <2>1
  <2>4. cursor + m = Upto(k) /\ all = m + o /\ left = o
    <3> DEFINE u == Upto(q)
               v == Upto(count)
    <3>1. /\ u \in Nat /\ v \in Nat /\ m = lead + v /\ Upto(k) = u + v /\ cursor + lead = u
          /\ all = lead + v + o
      BY <1>4
    <3>2. left = all - lead - v
      BY <2>2
    <3> HIDE DEF u, v, m, k
    <3>3. cursor + m = u + v /\ all = m + o
      <4>1. cursor + m = u + v
        BY <3>1
      <4>2. all = m + o
        BY <3>1
      <4> QED BY <4>1, <4>2
    <3>4. left = o
      BY <3>1, <3>2
    <3> QED BY <3>1, <3>3, <3>4
  <2>5. Len(some) \div BPC = count
    <3>1. m \div BPC = count
      BY <2>1, CountIs
    <3> QED BY <2>2, <3>1
  <2> HIDE DEF m, k
  <2>6. CASE o = 0
    <3>1. r = [bytes |-> some, current |-> whole.current, buff |-> d.buff]
      BY <1>0, <1>2, <2>4, <2>6 DEF Shape
    <3>2. Begun(cursor + m) = k /\ Rest(cursor + m) = 0
      BY <2>1, <2>4, Inside
    <3>3. At(e, size, cursor + m, whole.current, d.buff, ch)
      BY <2>1, <2>3, <3>2 DEF At
    <3>4. m \in Nat /\ m <= all /\ ~(m < all)
      BY <2>1, <2>4, <2>6
    <3> QED BY <1>1, <2>2, <2>3, <3>1, <3>3, <3>4 DEF Follows
  <2>7. CASE o # 0
    <3> DEFINE at == cursor + m
               rest == ReadData(ch[k + 1], size, 1)
               buff == data[ch[k + 1]]
               l == Least(left, Len(rest.bytes))
    <3>1. at \in Nat /\ at = Upto(k) /\ left \in Nat /\ 1 <= left /\ left < BPC /\ at + left <= size
      <4>1. at = Upto(k) /\ at \in Nat
        BY <1>1, <2>1, <2>4
      <4>2. at + left <= size
        BY <1>1, <2>1, <2>4
      <4> QED BY <4>1, <4>2, <1>4, <2>4, <2>7
    <3> HIDE DEF at
    <3>2. /\ l \in Nat /\ l <= left /\ Buffered(buff, at, l) = Run(e, at, l)
          /\ l < left => Rest(size) = 0 /\ at + l >= size - BPC
          /\ At(e, size, at + l, rest.current, buff, ch)
          /\ rest.current \in Cluster \cup {End} /\ buff \in [Offset -> Byte]
      <4>1. at + left <= size /\ k + 1 <= Len(ch)
        BY <2>1, <3>1
      <4>2. left \in Nat /\ 1 <= left /\ left < BPC
        BY <3>1
      <4>3. at \in Nat /\ at = Upto(k) /\ k \in Nat
        BY <2>1, <3>1
      <4> HIDE DEF rest, buff, l
      <4>4. TailGives(e, size, at, left, ch[k + 1], ch)
        BY <1>1, <4>1, <4>2, <4>3, TailIs
      <4> QED BY <4>4 DEF rest, buff, l, TailGives
    <3>3. r = [bytes |-> some \o Buffered(buff, at, l), current |-> rest.current, buff |-> buff]
      <4>1. whole.current # End
        BY <2>3, Sizes
      <4> QED BY <1>0, <1>2, <2>2, <2>3, <2>4, <2>5, <2>7, <4>1 DEF at, Shape
    <3> HIDE DEF l, rest, buff
    <3>4. some \o Run(e, at, l) = Run(e, cursor, m + l)
      <4> DEFINE n == m + l
      <4>1. n \in Nat /\ IsSum(at, cursor, m) /\ IsSum(n, m, l)
        BY <2>1, <3>2 DEF at, IsSum
      <4>2. at \in Nat /\ l \in Nat /\ m \in Nat /\ some = Run(e, cursor, m)
        BY <2>1, <2>2, <3>1, <3>2
      <4> HIDE DEF n
      <4>3. Join(Run(e, cursor, m), Run(e, at, l)) = Run(e, cursor, n)
        BY <4>1, <4>2, RunConcat
      <4> QED BY <4>2, <4>3 DEF n, Join
    <3> DEFINE n == m + l
    <3>5. n \in Nat /\ n <= all /\ cursor + n = at + l /\ (n < all => l < left)
      <4>1. m \in Nat /\ l \in Nat /\ l <= left /\ all = m + left /\ left \in Nat /\ at = cursor + m
        BY <2>1, <2>4, <3>1, <3>2 DEF at
      <4> HIDE DEF l
      <4> QED BY <4>1
    <3>6. r = [bytes |-> Run(e, cursor, n), current |-> rest.current, buff |-> buff]
      BY <3>2, <3>3, <3>4
    <3> HIDE DEF n
    <3>7. n < all => Rest(size) = 0 /\ cursor + n >= size - BPC
      BY <3>2, <3>5
    <3>8. At(e, size, cursor + n, rest.current, buff, ch)
      BY <3>2, <3>5
    <3> QED BY <3>2, <3>5, <3>6, <3>7, <3>8 DEF Follows
  <2> QED BY <2>6, <2>7
<1>9. CASE /\ count >= 1 /\ Rest(size) = 0 /\ size = Upto(q + count)
           /\ whole = [bytes |-> Run(e, Upto(q), Upto(count - 1)), current |-> End]
  <2> DEFINE c1 == count - 1
             m == lead + Upto(c1)
  <2>1. c1 \in Nat /\ count = c1 + 1 /\ c1 # count
    BY <1>9
  <2>2. /\ Upto(c1) \in Nat /\ Upto(count) = Upto(c1) + BPC
    <3> HIDE DEF c1
    <3> QED BY <2>1, Inside
  <2>3. m \in Nat
    BY <2>2
  <2>4. some = Run(e, cursor, m) /\ Len(some) = m
    BY <1>7, <1>9, <2>2, <2>3
  <2> HIDE DEF c1
  <2>5. m \div BPC = c1
    BY <2>1, <2>3, CountIs
  <2>6. r = [bytes |-> some, current |-> End, buff |-> d.buff]
    BY <1>0, <1>2, <1>9, <2>1, <2>4, <2>5 DEF Shape
  <2>7. q + c1 \in Nat /\ Upto(q + c1) = Upto(q) + Upto(c1)
    <3>1. q \in Int /\ c1 \in Int /\ q + c1 \in Nat
      BY <2>1
    <3> QED BY <3>1, UptoSum
  <2>8. cursor + m = Upto(q + c1) /\ cursor + m = size - BPC /\ m <= all
    <3> DEFINE u == Upto(q)
               v == Upto(c1)
    <3>1. /\ u \in Nat /\ v \in Nat /\ m = lead + v /\ Upto(q + c1) = u + v /\ cursor + lead = u
          /\ all = lead + (v + BPC) + o /\ BPC \in Nat /\ size = u + (v + BPC)
      BY <1>4, <1>9, <2>2, <2>7
    <3> HIDE DEF u, v, m
    <3>2. cursor + m = u + v /\ m <= all
      BY <3>1
    <3>3. cursor + m = size - BPC
      BY <3>1, <3>2
    <3> QED BY <3>1, <3>2, <3>3
  <2> HIDE DEF m
  <2>9. Rest(cursor + m) = 0
    BY <2>7, <2>8, Inside
  <2>10. At(e, size, cursor + m, End, d.buff, ch)
    BY <1>9, <2>8, <2>9 DEF At
  <2>11. cursor + m >= size - BPC
    BY <2>8, <1>1, <1>4
  <2> QED BY <1>1, <1>9, <2>3, <2>4, <2>6, <2>8, <2>10, <2>11 DEF Follows
<1> QED BY <1>6, <1>8, <1>9

\* The read ends in the buffer, at the end of the chain, or before a last cluster that is
\* full: no cluster is read.
LEMMA ReadNone ==
  ASSUME NEW d, NEW ch, Reading(d, ch), NEW all \in Nat, NEW lead \in Nat, lead <= all,
         NEW count \in Nat, NEW current, current = d.current,
         lead = all \/ (current = End /\ lead = 0),
         current = End \/ count = 0,
         NEW r, Shaped(r, d, current, all, lead, count),
         At(d.slot, d.size, d.cursor + lead, current, d.buff, ch),
         lead < all => Rest(d.size) = 0 /\ d.cursor + lead >= d.size - BPC
  PROVE  Follows(r, d.slot, d.size, d.cursor, all, ch)
<1> DEFINE e == d.slot
           some == Run(e, d.cursor, lead) \o <<>>
           whole == [bytes |-> <<>>, current |-> current]
           left == all - lead - Len(whole.bytes)
<1>1. ReadData(current, d.size, count) = whole
  BY DEF ReadData
<1>2. Shape(r, d, some, whole, count, left)
  BY <1>1 DEF Shaped
<1>3. d.cursor \in Nat /\ d.buff \in [Offset -> Byte] /\ current \in Cluster \cup {End}
  BY DEF Reading
<1>4. some = Run(e, d.cursor, lead) /\ Len(some) = lead
  <2>1. Run(e, d.cursor, lead) \in Seq({e} \X Nat) /\ Len(Run(e, d.cursor, lead)) = lead
    BY <1>3, RunIs
  <2> QED BY <2>1, ConcatEmptySeq
<1>5. left = all - lead /\ whole.current = current
  OBVIOUS
<1>6. Run(e, d.cursor, 0) = <<>> /\ \A buff, at : Buffered(buff, at, 0) = <<>>
  BY DEF Run, Buffered
<1> HIDE DEF some, whole, left
<1>7. r = [bytes |-> Run(e, d.cursor, lead), current |-> current, buff |-> d.buff]
  <2>1. CASE Len(some) \div BPC # count \/ left = 0
    BY <2>1, <1>2, <1>4, <1>5 DEF Shape
  <2>2. CASE ~(Len(some) \div BPC # count \/ left = 0)
    <3>1. current = End /\ lead = 0 /\ lead # all
      BY <2>2, <1>5
    <3>2. ReadData(End, d.size, 1) = [bytes |-> <<>>, current |-> End]
      BY DEF ReadData
    <3>3. Least(left, Len(<<>>)) = 0
      <4>1. left \in Nat /\ left # 0 /\ Len(<<>>) = 0
        BY <1>5, <3>1
      <4> QED BY <4>1 DEF Least
    <3>4. r = [bytes |-> some \o Buffered(d.buff, d.cursor + Len(some), 0),
               current |-> End, buff |-> d.buff]
      BY <1>2, <1>5, <2>2, <3>1, <3>2, <3>3 DEF Shape
    <3>5. some = <<>>
      BY <1>4, <1>6, <3>1
    <3>6. some \o <<>> = <<>>
      BY <3>5
    <3> QED BY <1>6, <3>1, <3>4, <3>6
  <2> QED BY <2>1, <2>2
<1>8. \E l \in Nat :
        /\ l <= all /\ r.bytes = Run(e, d.cursor, l)
        /\ l < all => Rest(d.size) = 0 /\ d.cursor + l >= d.size - BPC
        /\ At(e, d.size, d.cursor + l, r.current, r.buff, ch)
        /\ r.current \in Cluster \cup {End} /\ r.buff \in [Offset -> Byte]
  BY <1>3, <1>7
<1> QED BY <1>8 DEF Follows

LEMMA RestBefore ==
  ASSUME NEW size \in Nat, NEW cursor \in Nat, cursor = size - BPC, Rest(size) = 0
  PROVE  Rest(cursor) = 0
<1>1. PICK q \in Nat, o \in 0 .. BPC - 1 : cursor = Upto(q) + o /\ Rest(cursor) = o
  BY Parts
<1>2. Upto(q + 1) = Upto(q) + BPC /\ Upto(q) \in Nat
  BY Inside
<1>3. size = Upto(q + 1) + o /\ o \in Offset /\ q + 1 \in Nat
  BY <1>1, <1>2, Sizes DEF Offset
<1>4. Rest(size) = o
  BY <1>3, SplitUnique
<1> QED BY <1>1, <1>4

\* A read returns the bytes that follow, and leaves the descriptor where they end.
LEMMA ReadIs ==
  ASSUME NEW d, NEW ch, Reading(d, ch), NEW asked \in Nat
  PROVE  Follows(ReadResult(d, asked), d.slot, d.size, d.cursor,
                 Least(asked, d.size - d.cursor), ch)
<1> DEFINE e == d.slot
           size == d.size
           cursor == d.cursor
           all == Least(asked, size - cursor)
           lead == IF Rest(cursor) = 0 THEN 0 ELSE Least(all, BPC - Rest(cursor))
           count == (all - lead) \div BPC
           whole == ReadData(d.current, size, count)
           some == Buffered(d.buff, cursor, lead) \o whole.bytes
           left == all - lead - Len(whole.bytes)
           r == ReadResult(d, asked)
<1>1. /\ size \in Nat /\ cursor \in Nat /\ cursor <= size
      /\ At(e, size, cursor, d.current, d.buff, ch) /\ Len(ch) \in Nat
  <2>1. IsChain(fat, ch)
    BY DEF Reading
  <2>2. Len(ch) \in Nat
    BY <2>1, ChainElements
  <2> QED BY <2>2 DEF Reading
<1>2. all \in Nat /\ cursor + all <= size
  <2> DEFINE z == size - cursor
  <2>1. z \in Nat /\ size = cursor + z
    BY <1>1
  <2> HIDE DEF z, size, cursor
  <2>2. Least(asked, z) \in Nat /\ Least(asked, z) <= z
    BY <2>1 DEF Least
  <2> QED BY <1>1, <2>1, <2>2 DEF z
<1>3. /\ lead \in Nat /\ lead <= all /\ lead < BPC
      /\ lead # 0 => Rest(cursor) # 0 /\ Rest(cursor) + lead <= BPC
      /\ \/ /\ Rest(cursor) # 0 /\ lead = all /\ Rest(cursor) + all < BPC
            /\ Begun(cursor + all) = Begun(cursor) /\ Place(cursor + all) = Place(cursor)
         \/ cursor + lead = Upto(Begun(cursor))
  <2> HIDE DEF size, cursor, all
  <2> QED BY <1>1, <1>2, LeadIs
<1>4. Buffered(d.buff, cursor, lead) = Run(e, cursor, lead)
  <2>1. CASE lead = 0
    <3> HIDE DEF lead
    <3> QED BY <2>1 DEF Buffered, Run
  <2>2. CASE lead # 0
    <3>1. Holds(d.buff, e, size, cursor)
      BY <1>1, <1>3, <2>2 DEF At, Holds
    <3>2. Rest(cursor) + lead <= BPC /\ cursor + lead <= size /\ lead \in Nat
      <4> HIDE DEF size, cursor, all, lead
      <4> QED BY <1>1, <1>2, <1>3, <2>2
    <3> HIDE DEF size, cursor, all, lead, e
    <3> QED BY <1>1, <3>1, <3>2, BufferedRun
  <2> QED BY <2>1, <2>2
<1>5. all - lead \in Nat /\ (all - lead) \div BPC \in Int
  <2>1. all - lead \in Nat
    <3> HIDE DEF all, lead
    <3> QED BY <1>2, <1>3
  <2> HIDE DEF all, lead
  <2>2. all - lead \in Int /\ BPC \in Nat \ {0}
    BY <2>1, Sizes
  <2> QED BY <2>1, <2>2, Quotient
<1>6. Shape(r, d, some, whole, count, left)
  BY ReadResultIs
<1>7. Shaped(r, d, d.current, all, lead, count)
  <2> HIDE DEF all, lead, count, r
  <2> QED BY <1>4, <1>6 DEF Shaped
<1> HIDE DEF count, whole, some, left, r
<1>8. PICK o \in 0 .. BPC - 1 : all - lead = Upto(count) + o /\ count \in Nat
  <2> HIDE DEF all, lead
  <2>1. PICK y \in Nat, o \in 0 .. BPC - 1 : all - lead = Upto(y) + o /\ Place(all - lead) = y + 1
    BY <1>5, Parts
  <2>2. count = y
    BY <1>5, <2>1 DEF count, Place
  <2> QED BY <2>1, <2>2
<1> HIDE DEF all, lead, e, size, cursor
<1>9. o \in Nat /\ o < BPC /\ Upto(count) \in Nat /\ all = lead + Upto(count) + o
  <2>1. o \in Nat /\ o < BPC
    BY Sizes
  <2>2. Upto(count) \in Nat
    BY <1>8, Times
  <2>3. all = lead + Upto(count) + o
    BY <1>2, <1>3, <1>8, <2>1, <2>2
  <2> QED BY <2>1, <2>2, <2>3
<1>10. all = lead => count = 0
  <2>1. ASSUME all = lead, count # 0 PROVE FALSE
    <3>1. Upto(count) = 0
      BY <1>2, <1>3, <1>9, <2>1
    <3>2. Upto(1) <= Upto(count)
      <4>1. 1 <= count /\ 1 \in Int /\ count \in Int
        BY <1>8, <2>1
      <4> QED BY <4>1, Times
    <3>3. Upto(0 + 1) = Upto(0) + BPC /\ Upto(0) = 0
      BY Times
    <3> QED BY <3>1, <3>2, <3>3, Sizes
  <2> QED BY <2>1
<1> DEFINE q == Begun(cursor)
<1>11. q \in Nat /\ Upto(q) \in Nat
  BY <1>1, BegunIs, Times
<1>12. /\ \/ q + 1 <= Len(ch) /\ d.current = ch[q + 1]
          \/ d.current = End /\ Upto(q) >= size
          \/ d.current = End /\ Rest(size) = 0 /\ cursor = size - BPC
       /\ Rest(cursor) # 0 =>
            \A x \in 0 .. size - 1 : Place(x) = Place(cursor) => d.buff[Rest(x)] = <<e, x>>
  BY <1>1 DEF At
\* Without reading a cluster.
<1>13. ASSUME lead = all \/ (d.current = End /\ lead = 0), d.current = End \/ count = 0,
              At(e, size, cursor + lead, d.current, d.buff, ch),
              lead < all => Rest(size) = 0 /\ cursor + lead >= size - BPC
       PROVE  Follows(r, e, size, cursor, all, ch)
  <2>1. lead \in Nat /\ lead <= all /\ all \in Nat /\ count \in Nat
    BY <1>2, <1>3, <1>8
  <2> QED BY <1>7, <1>13, <2>1, ReadNone DEF e, size, cursor
<1> SUFFICES Follows(r, e, size, cursor, all, ch)
  BY DEF r, e, size, cursor, all
<1>14. CASE /\ Rest(cursor) # 0 /\ lead = all /\ Rest(cursor) + all < BPC
            /\ Begun(cursor + all) = Begun(cursor) /\ Place(cursor + all) = Place(cursor)
  <2>1. ~(d.current = End /\ Rest(size) = 0 /\ cursor = size - BPC)
    BY <1>1, <1>14, RestBefore
  <2>2. At(e, size, cursor + all, d.current, d.buff, ch)
    BY <1>12, <1>14, <2>1 DEF At
  <2> QED BY <1>2, <1>10, <1>13, <1>14, <2>2
<1>15. CASE cursor + lead = Upto(q)
  <2>0. Begun(cursor + lead) = q /\ Rest(cursor + lead) = 0
    BY <1>11, <1>15, Inside
  <2>1. CASE q + 1 <= Len(ch) /\ d.current = ch[q + 1]
    <3>1. Sized(d, e, size, cursor, ch, q)
      BY <2>1 DEF Sized, e, size, cursor
    <3>2. Shaped(r, d, ch[q + 1], all, lead, count)
      BY <1>7, <2>1
    <3>3. /\ all \in Nat /\ lead \in Nat /\ lead < BPC /\ count \in Nat
          /\ size \in Nat /\ cursor \in Nat /\ cursor + all <= size
      BY <1>1, <1>2, <1>3, <1>8
    <3> HIDE DEF q
    <3>4. Parted(all, lead, count)
      BY <1>9 DEF Parted
    <3> QED BY <1>11, <1>15, <3>1, <3>2, <3>3, <3>4, ReadOn
  <2>2. CASE d.current = End /\ Upto(q) >= size
    <3>1. lead = all
      BY <1>1, <1>2, <1>3, <1>11, <1>15, <2>2
    <3>2. At(e, size, cursor + lead, d.current, d.buff, ch)
      BY <2>0, <2>2 DEF At
    <3> QED BY <1>2, <1>10, <1>13, <2>2, <3>1, <3>2
  <2>3. CASE d.current = End /\ Rest(size) = 0 /\ cursor = size - BPC
    <3>1. Rest(cursor) = 0
      BY <1>1, <2>3, RestBefore
    <3>2. lead = 0
      BY <1>3, <3>1
    <3>3. cursor + lead = cursor /\ cursor + lead >= size - BPC
      BY <1>1, <2>3, <3>2, Sizes
    <3>4. At(e, size, cursor + lead, d.current, d.buff, ch)
      BY <1>1, <3>3
    <3> QED BY <1>13, <2>3, <3>2, <3>3, <3>4
  <2> QED BY <1>12, <2>1, <2>2, <2>3
<1> QED BY <1>3, <1>14, <1>15

-----------------------------------------------------------------------------
(* Reads keep this too.                                                    *)

LEMMA ReadingIs ==
  ASSUME Unchecked = {}, Content, NEW p \in Procs, NEW i \in File,
         fd[p][i] # Closed, MayRead(fd[p][i])
  PROVE  LET d == fd[p][i]
         IN  /\ Reading(d, Chain(fat, d.first)) /\ d.use = "fresh"
             /\ Good(d, fat, root) /\ Opened(d)
             /\ d.slot \in UsedIn(root) /\ root[d.slot].kind = "file"
<1> DEFINE d == fd[p][i]
<1>1. Good(d, fat, root) /\ Opened(d) /\ d.use # "removed" /\ d.use # "written"
  BY DEF Content, GoodIn, Agree, OpenedIn, MayRead
<1> HIDE DEF d
<1>2. d.use = "fresh" /\ d \in Descriptor /\ d.cursor <= d.size
  BY <1>1 DEF Good, Descriptor
<1>3. /\ d.slot \in UsedIn(root) /\ root[d.slot].kind = "file"
      /\ d.first = root[d.slot].first
  BY <1>1, GoodSlot DEF Content
<1> DEFINE ch == Chain(fat, d.first)
           n  == root[d.slot].size
<1>4. At(d.slot, d.size, d.cursor, d.current, d.buff, ch) /\ d.size <= n
  BY <1>1, <1>2 DEF Good, Refers
<1>5. /\ fat \in Table /\ data \in [Cluster -> [Offset -> Byte]]
      /\ IsChain(fat, ch) /\ n \in Nat
  BY <1>3, SoundFacts, Sizes DEF Content, Agree, Directory, UsedIn
<1>6. Clusters(n) <= Len(ch) /\ InPlace(data, ch, d.slot, n)
  BY <1>3 DEF Content, KeptIn, KeptAt
<1>7. d.size \in Nat /\ d.cursor \in Nat /\ d.current \in Cluster \cup {End}
      /\ d.buff \in [Offset -> Byte]
  BY <1>2, Sizes DEF Descriptor
<1>8. Len(ch) \in Nat
  BY <1>5, ChainElements
<1> HIDE DEF ch, n
<1>9. InPlace(data, ch, d.slot, d.size)
  BY <1>4, <1>5, <1>6, <1>7, InPlaceLess
<1>10. ASSUME NEW x \in 0 .. d.size - 1 PROVE Place(x) <= Len(ch)
  <2>1. x \in 0 .. n - 1 /\ x \in Nat
    BY <1>4, <1>5, <1>7
  <2>2. Place(x) <= Clusters(n) /\ Clusters(n) \in Nat /\ Place(x) \in Nat
    BY <1>5, <2>1, ClustersIs, Split
  <2> QED BY <1>6, <1>8, <2>2
<1>11. Reading(d, ch)
  BY <1>2, <1>4, <1>5, <1>7, <1>9, <1>10 DEF Reading
<1> QED BY <1>1, <1>2, <1>3, <1>11 DEF ch, d

LEMMA ReadContent ==
  ASSUME Unchecked = {}, Content, NEW p \in Procs, NEW i \in File, NEW n \in Nat, Read(p, i, n)
  PROVE  Content'
<1> DEFINE d == fd[p][i]
           r == ReadResult(d, n)
           ch == Chain(fat, d.first)
<1>1. d # Closed /\ MayRead(d) /\ fat' = fat /\ data' = data /\ root' = root
  BY DEF Read
<1>2. Agree'
  BY ReadAgree DEF Content
<1>3. OpenedIn(fd) /\ Others(fd, fd', p, i) /\ fd'[p][i] = ReadTo(d, r)
  BY ReadDescriptor DEF Content, Agree
<1>4. /\ Reading(d, ch) /\ d.use = "fresh" /\ Good(d, fat, root) /\ Opened(d)
      /\ d.slot \in UsedIn(root)
  BY <1>1, ReadingIs
<1>5. Follows(r, d.slot, d.size, d.cursor, Least(n, d.size - d.cursor), ch)
  BY <1>4, ReadIs
<1> HIDE DEF r, d
<1>6. d \in Descriptor /\ d.cursor \in Nat /\ d.size \in Nat /\ d.cursor <= d.size /\ d.size <= MaxLen
  BY <1>4, Sizes DEF Good, Descriptor
<1>7. PICK l \in Nat :
        /\ l <= Least(n, d.size - d.cursor) /\ r.bytes = Run(d.slot, d.cursor, l)
        /\ At(d.slot, d.size, d.cursor + l, r.current, r.buff, ch)
        /\ r.current \in Cluster \cup {End} /\ r.buff \in [Offset -> Byte]
  BY <1>5 DEF Follows
<1>8. Len(r.bytes) = l
  <2>1. Len(Run(d.slot, d.cursor, l)) = l
    BY <1>6, RunIs
  <2> QED BY <1>7, <2>1
<1>9. d.cursor + l <= d.size
  <2>1. Least(n, d.size - d.cursor) <= d.size - d.cursor
    BY <1>6 DEF Least
  <2> QED BY <1>6, <1>7, <2>1 DEF Least
<1> DEFINE e == ReadTo(d, r)
<1>10. /\ e.cursor = d.cursor + l /\ e.current = r.current /\ e.buff = r.buff
       /\ e.size = d.size /\ e.slot = d.slot /\ e.first = d.first /\ e.use = d.use
       /\ e.type = d.type /\ DOMAIN e = DOMAIN d
       /\ e \in Descriptor
  <2>1. d.cursor + l \in 0 .. MaxLen
    BY <1>6, <1>9, Sizes
  <2> QED BY <1>6, <1>7, <1>8, <2>1 DEF ReadTo, Descriptor
<1> HIDE DEF e, ch
<1>11. Good(e, fat, root)
  <2>1. Refers(e, root)
    BY <1>4, <1>10 DEF Good, Refers
  <2> QED BY <1>7, <1>9, <1>10, <2>1 DEF Good, ch
<1>12. ASSUME NEW q \in Procs, NEW j \in File, fd[q][j] # Closed, fd[q][j].use # "removed"
       PROVE  Continues(fat, root, fat, root, fd[q][j].slot)
  <2>1. Opened(fd[q][j]) /\ Good(fd[q][j], fat, root)
    BY <1>12 DEF Content, Agree, OpenedIn, GoodIn
  <2>2. fd[q][j].slot \in UsedIn(root)
    BY <1>12, <2>1, GoodSlot DEF Content
  <2> QED BY <2>2, ContinuesSame DEF Content, Agree
<1>13. GoodIn(fd', fat, root)
  <2>1. Good(fd'[p][i], fat, root)
    BY <1>3, <1>11 DEF e
  <2> QED BY <1>3, <1>12, <2>1, GoodOthers DEF Content
<1> QED BY <1>1, <1>2, <1>13 DEF Content

LEMMA InitContent == ASSUME Init PROVE Content
<1>1. Agree
  BY InitAgree
<1>2. UsedIn(root) = {}
  BY DEF Init, UsedIn, Empty
<1>3. \A p \in Procs : \A i \in File : fd[p][i] = Closed
  BY DEF Init
<1> QED BY <1>1, <1>2, <1>3 DEF Content, KeptIn, GoodIn

LEMMA StepContent ==
  ASSUME Unchecked = {}
  PROVE  Content /\ [Next]_vars => Content'
<1> SUFFICES ASSUME Content, [Next]_vars PROVE Content'
  OBVIOUS
<1>1. ASSUME NEW p \in Procs, NEW name \in Names, OpenFile(p, name) PROVE Content'
  BY <1>1, OpenFileContent
<1>2. ASSUME NEW p \in Procs, NEW name \in Names, OpenNew(p, name) PROVE Content'
  BY <1>2, OpenNewContent
<1>3. ASSUME NEW name \in Names, Mkdir(name) PROVE Content'
  BY <1>3, MkdirContent
<1>4. ASSUME NEW name \in Names, Rm(name) PROVE Content'
  BY <1>4, RmContent
<1>5. ASSUME NEW p \in Procs, Exec(p) PROVE Content'
  BY <1>5, ExecContent
<1>6. ASSUME NEW p \in Procs, NEW i \in File, NEW n \in Lengths, Write(p, i, n) PROVE Content'
  <2>1. n \in Nat
    BY Sizes
  <2> QED BY <1>6, <2>1, WriteContent
<1>7. ASSUME NEW p \in Procs, NEW i \in File, NEW n \in Lengths, Read(p, i, n) PROVE Content'
  <2>1. n \in Nat
    BY Sizes
  <2> QED BY <1>7, <2>1, ReadContent
<1>8. ASSUME UNCHANGED vars PROVE Content'
  BY <1>8 DEF vars, Content, Agree, Sound, NoneHidden, OpenedIn, KeptIn, GoodIn, KeptAt, Good,
              Refers, UsedIn, Held
<1> QED BY <1>1, <1>2, <1>3, <1>4, <1>5, <1>6, <1>7, <1>8 DEF Next

-----------------------------------------------------------------------------
(* The properties.                                                         *)

LEMMA AlwaysContent ==
  ASSUME Unchecked = {}
  PROVE  Spec => []Content
BY InitContent, StepContent, PTL DEF Spec

LEMMA FileIs ==
  ASSUME Content, NEW s \in UsedIn(root)
  PROVE  LET ch == Chain(fat, root[s].first)
         IN  /\ root[s].size \in Nat
             /\ root[s].kind = "file" =>
                  /\ Len(ch) >= Clusters(root[s].size)
                  /\ Bytes(ch, root[s].size) = Run(s, 0, root[s].size)
             /\ root[s].kind = "dir" => Bytes(ch, root[s].size) = <<>>
<1> DEFINE ch == Chain(fat, root[s].first)
           n == root[s].size
<1>1. n \in Nat /\ IsChain(fat, ch)
  BY SoundFacts, Sizes DEF Content, Agree, Directory, UsedIn
<1>2. Len(ch) \in Nat /\ ch \in Seq(Cluster)
  BY <1>1, ChainElements
<1>3. CASE root[s].kind = "file"
  <2>1. Clusters(n) <= Len(ch) /\ InPlace(data, ch, s, n)
    BY <1>3 DEF Content, KeptIn, KeptAt
  <2> HIDE DEF ch, n
  <2>2. Clusters(n) \in Nat /\ \A x \in 0 .. n - 1 : Place(x) <= Clusters(n)
    BY <1>1, ClustersIs
  <2>3. \A x \in 0 .. n - 1 : Place(x) <= Len(ch)
    <3>1. \A x \in 0 .. n - 1 : Place(x) \in Nat
      BY Split
    <3> QED BY <1>2, <2>1, <2>2, <3>1
  <2>4. Upto(0) = 0
    BY Times
  <2>5. Bytes(ch, n) = Run(s, Upto(0), n)
    <3>1. Upto(0) + n <= n /\ 0 \in Nat
      BY <1>1, <2>4
    <3>2. \A k \in Nat : 1 <= k /\ 0 + k <= Len(ch) => ch[k] = ch[0 + k]
      OBVIOUS
    <3> QED BY <1>1, <1>2, <2>1, <2>3, <3>1, <3>2, BytesRun
  <2>6. Len(ch) >= Clusters(n)
    BY <1>2, <2>1, <2>2
  <2> QED BY <1>1, <1>3, <2>4, <2>5, <2>6 DEF ch, n
<1>4. CASE root[s].kind = "dir"
  <2>1. n = 0
    BY <1>4 DEF Content, KeptIn, KeptAt
  <2> HIDE DEF n
  <2>2. Bytes(ch, n) = <<>>
    BY <2>1 DEF Bytes
  <2> QED BY <1>1, <1>4, <2>2 DEF n
<1>5. root[s].kind \in {"file", "dir"}
  BY DEF UsedIn
<1> QED BY <1>3, <1>4, <1>5

LEMMA ContentType == ASSUME Content PROVE TypeOK
<1>1. fat \in [0 .. NClusters + 1 -> {Free, End} \cup Cluster]
  BY DEF Content, Agree, Table, Entries
<1>2. /\ data \in [Cluster -> [Offset -> Byte]]
      /\ root \in [Slot -> [kind : {"file", "dir", "empty", "deleted"},
                            name : Names \cup {NoName}, first : Cluster \cup {0},
                            size : 0 .. MaxLen]]
  BY DEF Content, Agree, Directory
<1>3. \A p \in Procs : \A i \in File :
        fd[p][i] # Closed => fd[p][i] \in Descriptor /\ fd[p][i].cursor <= fd[p][i].size
  BY DEF Content, GoodIn, Good
<1> QED BY <1>1, <1>2, <1>3 DEF TypeOK

\* The types of the table, the clusters, the directory and the descriptors; the cursor of a
\* descriptor never passes the size it knows (fat_driver.cpp, read_data and write_data).
THEOREM Type_OK ==
  ASSUME Unchecked = {}
  PROVE  Spec => []TypeOK
<1>1. Spec => []Content
  BY AlwaysContent
<1>2. Content => TypeOK
  BY ContentType
<1> QED BY <1>1, <1>2, PTL

\* Every file holds the bytes it was given, in order, where its size in the directory says,
\* whatever the other files took and freed and however often the disk was full: write_data
\* of fat_driver.cpp keeps it, for disks, clusters and files of every size.
THEOREM Data_In_Place ==
  ASSUME Unchecked = {}
  PROVE  Spec => []DataInPlace
<1>1. Spec => []Content
  BY AlwaysContent
<1>2. ASSUME Content PROVE DataInPlace
  <2> SUFFICES ASSUME NEW s \in Files
               PROVE  LET ch == Chain(fat, root[s].first)
                      IN /\ Len(ch) >= Clusters(root[s].size)
                         /\ Bytes(ch, root[s].size) = [k \in 1 .. root[s].size |-> <<s, k - 1>>]
    BY DEF DataInPlace
  <2> DEFINE ch == Chain(fat, root[s].first)
             n == root[s].size
  <2>1. s \in UsedIn(root) /\ root[s].kind = "file"
    BY DEF Files, UsedIn
  <2>2. n \in Nat /\ Len(ch) >= Clusters(n) /\ Bytes(ch, n) = Run(s, 0, n)
    BY <1>2, <2>1, FileIs
  <2> HIDE DEF ch, n
  <2>3. Run(s, 0, n) = [k \in 1 .. n |-> <<s, k - 1>>]
    <3>1. \A k \in 1 .. n : 0 + k - 1 = k - 1
      OBVIOUS
    <3> QED BY <3>1 DEF Run
  <2> QED BY <2>2, <2>3 DEF ch, n
<1> QED BY <1>1, <1>2, PTL

\* What the next read of a descriptor returns.
LEMMA NextRead ==
  ASSUME Unchecked = {}, Content, NEW p \in Procs, NEW i \in File, NEW n \in 1 .. MaxLen,
         fd[p][i] # Closed, MayRead(fd[p][i])
  PROVE  LET d == fd[p][i]
             bytes == ReadResult(d, n).bytes
         IN  /\ bytes = [k \in 1 .. Len(bytes) |-> <<d.slot, d.cursor + k - 1>>]
             /\ Len(bytes) < Least(n, d.size - d.cursor) =>
                  d.size % BPC = 0 /\ d.cursor + Len(bytes) >= d.size - BPC
<1> DEFINE d == fd[p][i]
           r == ReadResult(d, n)
           ch == Chain(fat, d.first)
           all == Least(n, d.size - d.cursor)
<1>1. Reading(d, ch)
  BY ReadingIs
<1>2. n \in Nat
  BY Sizes
<1>3. Follows(r, d.slot, d.size, d.cursor, all, ch)
  BY <1>1, <1>2, ReadIs
<1> HIDE DEF r, d, all
<1>4. PICK l \in Nat :
        /\ r.bytes = Run(d.slot, d.cursor, l)
        /\ l < all => Rest(d.size) = 0 /\ d.cursor + l >= d.size - BPC
  BY <1>3 DEF Follows
<1>5. Len(r.bytes) = l
  <2>1. d.cursor \in Nat
    BY <1>1 DEF Reading
  <2>2. Len(Run(d.slot, d.cursor, l)) = l
    BY <2>1, RunIs
  <2> QED BY <1>4, <2>2
<1>6. r.bytes = [k \in 1 .. Len(r.bytes) |-> <<d.slot, d.cursor + k - 1>>]
  BY <1>4, <1>5 DEF Run
<1>7. Len(r.bytes) < all => d.size % BPC = 0 /\ d.cursor + Len(r.bytes) >= d.size - BPC
  BY <1>4, <1>5 DEF Rest
<1> QED BY <1>6, <1>7 DEF r, d, all

\* Each read goes on where the last one ended, whatever the sizes asked and whether the
\* bytes come from the buffer of the descriptor, from whole clusters or from a part of one
\* (read of syscall.cpp and read_data of fat_driver.cpp under it).
THEOREM Reads_In_Order ==
  ASSUME Unchecked = {}
  PROVE  Spec => []ReadsInOrder
<1>1. Spec => []Content
  BY AlwaysContent
<1>2. ASSUME Content PROVE ReadsInOrder
  BY <1>2, NextRead DEF ReadsInOrder, Reads
<1> QED BY <1>1, <1>2, PTL

\* A read gives less than it could only when the size of the file is a multiple of that of a
\* cluster, and then it leaves at most the last cluster (read_data of fat_driver.cpp counts
\* size % byte_per_cluster bytes of it).
THEOREM Short_Reads ==
  ASSUME Unchecked = {}
  PROVE  Spec => []ShortReads
<1>1. Spec => []Content
  BY AlwaysContent
<1>2. ASSUME Content PROVE ShortReads
  BY <1>2, NextRead DEF ShortReads, Reads
<1> QED BY <1>1, <1>2, PTL

-----------------------------------------------------------------------------
(* The store of files.                                                     *)

\* The entry of slot s in the store, in terms of the directory.
Shown(r, s) ==
  IF s \notin UsedIn(r) THEN Store!Absent
  ELSE [kind |-> r[s].kind, name |-> r[s].name, bytes |-> Run(s, 0, r[s].size)]

LEMMA StoredIs == Content => \A s \in Slot : Stored[s] = Shown(root, s)
<1> SUFFICES ASSUME Content, NEW s \in Slot PROVE Stored[s] = Shown(root, s)
  OBVIOUS
<1>1. CASE s \notin UsedIn(root)
  BY <1>1, UsedIs DEF Stored, Shown, Store!Absent, NoName
<1>2. CASE s \in UsedIn(root)
  <2>1. Stored[s] = [kind |-> root[s].kind, name |-> root[s].name,
                     bytes |-> Bytes(Chain(fat, root[s].first), root[s].size)]
    BY <1>2, UsedIs DEF Stored
  <2>2. Bytes(Chain(fat, root[s].first), root[s].size) = Run(s, 0, root[s].size)
    <3>1. CASE root[s].kind = "file"
      BY <1>2, <3>1, FileIs
    <3>2. CASE root[s].kind = "dir"
      <4>1. root[s].size = 0
        BY <1>2, <3>2 DEF Content, KeptIn, KeptAt
      <4>2. Bytes(Chain(fat, root[s].first), root[s].size) = <<>>
        BY <1>2, <3>2, FileIs
      <4> QED BY <4>1, <4>2 DEF Run
    <3> QED BY <1>2, <3>1, <3>2 DEF UsedIn
  <2> QED BY <1>2, <2>1, <2>2 DEF Shown
<1> QED BY <1>1, <1>2

LEMMA StoredSame ==
  ASSUME NEW r \in Directory, NEW r2 \in Directory, NEW s \in Slot, r2[s] = r[s]
  PROVE  Shown(r2, s) = Shown(r, s)
BY DEF Shown, UsedIn

LEMMA RunGrows ==
  ASSUME NEW s, NEW m \in Nat, NEW n \in Nat, m < n
  PROVE  /\ Store!IsStrictPrefix(Run(s, 0, m), Run(s, 0, n))
         /\ \A k \in Len(Run(s, 0, m)) + 1 .. Len(Run(s, 0, n)) : Run(s, 0, n)[k] = <<s, k - 1>>
<1> DEFINE B == {s} \X Nat
           a == Run(s, 0, m)
           b == Run(s, 0, n)
<1>1. a \in Seq(B) /\ Len(a) = m /\ \A k \in 1 .. m : a[k] = <<s, 0 + k - 1>>
  BY RunIs
<1>2. b \in Seq(B) /\ Len(b) = n /\ \A k \in 1 .. n : b[k] = <<s, 0 + k - 1>>
  BY RunIs
<1> HIDE DEF a, b, B
<1>3. SubSeq(a, 1, m) = SubSeq(b, 1, m)
  <2>1. SubSeq(a, 1, m) = [k \in 1 .. m |-> a[k]]
    BY <1>1 DEF SubSeq
  <2>2. SubSeq(b, 1, m) = [k \in 1 .. m |-> b[k]]
    BY <1>2 DEF SubSeq
  <2>3. \A k \in 1 .. m : a[k] = b[k]
    <3>1. \A k \in 1 .. m : k \in 1 .. n
      OBVIOUS
    <3> QED BY <3>1, <1>1, <1>2
  <2> QED BY <2>1, <2>2, <2>3
<1>4. a # b
  BY <1>1, <1>2
<1>5. Store!IsStrictPrefix(a, b)
  BY <1>1, <1>2, <1>3, <1>4 DEF Store!IsStrictPrefix, Store!IsPrefix
<1>6. ASSUME NEW k \in Len(a) + 1 .. Len(b) PROVE b[k] = <<s, k - 1>>
  <2>1. k \in 1 .. n /\ 0 + k - 1 = k - 1
    BY <1>1, <1>2
  <2> QED BY <2>1, <1>2
<1> QED BY <1>5, <1>6 DEF a, b

\* A step that changes one entry, in the directory, is one of the store.
LEMMA StoreStep ==
  ASSUME root \in Directory, root' \in Directory,
         \A s \in Slot : Stored[s] = Shown(root, s),
         \A s \in Slot : Stored'[s] = Shown(root', s),
         NEW e \in Slot, \A s \in Slot : s # e => root'[s] = root[s],
         Store!Change(e, Shown(root, e), Shown(root', e))
  PROVE  Store!Next
<1>1. \A s \in Slot \ {e} : Stored'[s] = Stored[s]
  BY StoredSame
<1>2. Store!Change(e, Stored[e], Stored'[e])
  OBVIOUS
<1> QED BY <1>1, <1>2 DEF Store!Next

LEMMA StoreStutter ==
  ASSUME root' = root,
         \A s \in Slot : Stored[s] = Shown(root, s),
         \A s \in Slot : Stored'[s] = Shown(root', s)
  PROVE  Stored' = Stored
<1>1. \A s \in Slot : Stored'[s] = Stored[s]
  OBVIOUS
<1>2. Stored = [s \in Slot |-> Stored[s]] /\ Stored' = [s \in Slot |-> Stored'[s]]
  BY DEF Stored
<1> QED BY <1>1, <1>2

LEMMA AddStores ==
  ASSUME Content, NEW name \in Names, NEW kind \in {"file", "dir"}, ~AddFails,
         AddEntry(name, kind)
  PROVE  LET e == FreeEntry
         IN  /\ e \in Slot /\ \A s \in Slot : s # e => root'[s] = root[s]
             /\ Store!Change(e, Shown(root, e), Shown(root', e))
<1> DEFINE e == FreeEntry
<1>1. e \in Slot \ UsedIn(root) /\ root' = Entered(root, e, kind, name, FreeCluster(fat))
  BY AddIs DEF Content
<1>2. root \in Directory
  BY DEF Content, Agree
<1> HIDE DEF e
<1>3. /\ \A s \in Slot : s # e => root'[s] = root[s]
      /\ root'[e].kind = kind /\ root'[e].name = name /\ root'[e].size = 0
  BY <1>1, <1>2 DEF Entered, Directory
<1>4. Shown(root, e) = Store!Absent
  BY <1>1 DEF Shown
<1>5. Shown(root', e) = [kind |-> kind, name |-> name, bytes |-> <<>>]
  <2>1. e \in UsedIn(root')
    BY <1>1, <1>3 DEF UsedIn
  <2>2. Run(e, 0, 0) = <<>>
    BY DEF Run
  <2> QED BY <1>3, <2>1, <2>2 DEF Shown
<1>6. [kind |-> kind, name |-> name, bytes |-> <<>>] \in Store!New
  BY DEF Store!New
<1>7. Store!Change(e, Shown(root, e), Shown(root', e))
  BY <1>4, <1>5, <1>6 DEF Store!Change
<1> QED BY <1>1, <1>3, <1>7 DEF e

LEMMA RmStores ==
  ASSUME Content, NEW name \in Names, Rm(name)
  PROVE  LET e == Lookup(name)
         IN  /\ e \in Slot /\ \A s \in Slot : s # e => root'[s] = root[s]
             /\ Store!Change(e, Shown(root, e), Shown(root', e))
<1> DEFINE e == Lookup(name)
<1>1. e \in UsedIn(root) /\ root' = Removed(root, e)
  BY RmAgree DEF Content
<1>2. root \in Directory
  BY DEF Content, Agree
<1> HIDE DEF e
<1>3. e \in Slot /\ root[e].kind \in {"file", "dir"}
  BY <1>1 DEF UsedIn
<1>4. root'[e].kind = "deleted" /\ \A s \in Slot : s # e => root'[s] = root[s]
  BY <1>1, <1>2, <1>3 DEF Removed, Deleted, Directory
<1>5. Shown(root', e) = Store!Absent
  BY <1>4 DEF Shown, UsedIn
<1>6. Shown(root, e).kind = root[e].kind
  BY <1>1 DEF Shown
<1>7. Shown(root, e) # Store!Absent
  <2>1. Store!Absent.kind = "none"
    BY DEF Store!Absent
  <2>2. "none" \notin {"file", "dir"}
    OBVIOUS
  <2> QED BY <1>3, <1>6, <2>1, <2>2
<1>8. Store!Change(e, Shown(root, e), Shown(root', e))
  BY <1>5, <1>7 DEF Store!Change
<1> QED BY <1>3, <1>4, <1>8 DEF e

LEMMA WriteStores ==
  ASSUME Unchecked = {}, Content, NEW p \in Procs, NEW i \in File, NEW n \in Lengths,
         Write(p, i, n)
  PROVE  \/ root' = root
         \/ \E e \in Slot : /\ \A s \in Slot : s # e => root'[s] = root[s]
                            /\ Store!Change(e, Shown(root, e), Shown(root', e))
<1> DEFINE d == fd[p][i]
           e == d.slot
           done == Turns(d, n)
<1>0. n \in Nat /\ n >= 1
  <2>1. n \in 1 .. MaxLen
    BY FatAssumption
  <2> QED BY <2>1, Sizes
<1>1. /\ Opened(d) /\ e \in UsedIn(root) /\ root[e].kind = "file" /\ root[e].size = d.size
      /\ Appending(done, d, e, n)
      /\ root' = IF done.ok THEN Resized(root, e, done.size) ELSE root
  BY <1>0, WriteIs
<1> HIDE DEF d, done
<1>2. root \in Directory /\ e \in Slot /\ d.size \in Nat
  BY <1>1, Sizes DEF Content, Agree, Opened
<1>3. CASE ~done.ok
  BY <1>1, <1>3
<1>4. CASE done.ok
  <2>1. done.size = d.size + n
    BY <1>1, <1>4 DEF Appending
  <2> DEFINE m == d.size
             k == done.size
             new == Shown(root', e)
             old == Shown(root, e)
  <2>2. m \in Nat /\ k \in Nat /\ m < k
    BY <1>0, <1>2, <2>1
  <2>3. /\ \A s \in Slot : s # e => root'[s] = root[s]
        /\ root'[e].kind = "file" /\ root'[e].name = root[e].name /\ root'[e].size = k
    BY <1>1, <1>2, <1>4 DEF Resized, Directory
  <2>4. old = [kind |-> "file", name |-> root[e].name, bytes |-> Run(e, 0, m)]
    BY <1>1 DEF Shown
  <2>5. new = [kind |-> "file", name |-> root[e].name, bytes |-> Run(e, 0, k)]
    <3>1. e \in UsedIn(root')
      BY <1>2, <2>3 DEF UsedIn
    <3> QED BY <2>3, <3>1 DEF Shown
  <2> HIDE DEF m, k, new, old
  <2>6. /\ Store!IsStrictPrefix(Run(e, 0, m), Run(e, 0, k))
        /\ \A j \in Len(Run(e, 0, m)) + 1 .. Len(Run(e, 0, k)) : Run(e, 0, k)[j] = <<e, j - 1>>
    BY <2>2, RunGrows
  <2>7. old.kind = "file" /\ new = [old EXCEPT !.bytes = new.bytes]
    BY <2>4, <2>5
  <2>8. Store!Grows(e, old, new)
    <3>1. old.bytes = Run(e, 0, m) /\ new.bytes = Run(e, 0, k)
      BY <2>4, <2>5
    <3>2. Store!IsStrictPrefix(old.bytes, new.bytes)
      BY <2>6, <3>1
    <3>3. \A j \in Len(old.bytes) + 1 .. Len(new.bytes) : new.bytes[j] = <<e, j - 1>>
      BY <2>6, <3>1
    <3> QED BY <2>7, <3>2, <3>3 DEF Store!Grows
  <2>9. Store!Change(e, old, new)
    BY <2>8 DEF Store!Change
  <2> QED BY <1>2, <2>3, <2>9 DEF old, new
<1> QED BY <1>3, <1>4

LEMMA StepStores ==
  ASSUME Unchecked = {}, Content, [Next]_vars, root' \in Directory,
         \A s \in Slot : Stored[s] = Shown(root, s),
         \A s \in Slot : Stored'[s] = Shown(root', s)
  PROVE  Store!Next \/ Stored' = Stored
<1>0. root \in Directory
  BY DEF Content, Agree
<1>1. ASSUME NEW p \in Procs, NEW name \in Names, OpenFile(p, name)
      PROVE  Store!Next \/ Stored' = Stored
  <2>1. root' = root
    BY <1>1 DEF OpenFile
  <2> QED BY <2>1, StoreStutter
<1>2. ASSUME NEW p \in Procs, NEW name \in Names, OpenNew(p, name)
      PROVE  Store!Next \/ Stored' = Stored
  <2>1. ~AddFails /\ AddEntry(name, "file")
    BY <1>2 DEF OpenNew
  <2> QED BY <1>0, <2>1, AddStores, StoreStep
<1>3. ASSUME NEW name \in Names, Mkdir(name) PROVE Store!Next \/ Stored' = Stored
  <2>1. ~AddFails /\ AddEntry(name, "dir")
    BY <1>3 DEF Mkdir
  <2> QED BY <1>0, <2>1, AddStores, StoreStep
<1>4. ASSUME NEW name \in Names, Rm(name) PROVE Store!Next \/ Stored' = Stored
  BY <1>0, <1>4, RmStores, StoreStep
<1>5. ASSUME NEW p \in Procs, Exec(p) PROVE Store!Next \/ Stored' = Stored
  <2>1. root' = root
    BY <1>5 DEF Exec
  <2> QED BY <2>1, StoreStutter
<1>6. ASSUME NEW p \in Procs, NEW i \in File, NEW n \in Lengths, Write(p, i, n)
      PROVE  Store!Next \/ Stored' = Stored
  BY <1>0, <1>6, WriteStores, StoreStep, StoreStutter
<1>7. ASSUME NEW p \in Procs, NEW i \in File, NEW n \in Lengths, Read(p, i, n)
      PROVE  Store!Next \/ Stored' = Stored
  <2>1. root' = root
    BY <1>7 DEF Read
  <2> QED BY <2>1, StoreStutter
<1>8. ASSUME UNCHANGED vars PROVE Store!Next \/ Stored' = Stored
  <2>1. root' = root
    BY <1>8 DEF vars
  <2> QED BY <2>1, StoreStutter
<1> QED BY <1>1, <1>2, <1>3, <1>4, <1>5, <1>6, <1>7, <1>8 DEF Next

\* The table, the clusters and the directory of fat_driver.cpp implement a store of files:
\* each call changes one entry at most, and of a file only its end, by what it was given.
THEOREM Files_Kept ==
  ASSUME Unchecked = {}
  PROVE  Spec => FilesKept
<1>1. Spec => []Content
  BY AlwaysContent
<1>2. Init => Store!Init
  <2> SUFFICES ASSUME Init, NEW s \in Slot PROVE Stored[s] = Store!Absent
    BY DEF Store!Init
  <2>1. s \notin Used
    BY DEF Init, Used, Empty
  <2> QED BY <2>1 DEF Stored, Store!Absent, NoName
<1>3. Content' => \A s \in Slot : Stored'[s] = Shown(root', s)
  <2>1. (Content => \A s \in Slot : Stored[s] = Shown(root, s))'
    BY StoredIs, PTL
  <2> QED BY <2>1
<1>4. Content /\ Content' /\ [Next]_vars => [Store!Next]_Stored
  <2> SUFFICES ASSUME Content, Content', [Next]_vars PROVE Store!Next \/ Stored' = Stored
    OBVIOUS
  <2>1. root' \in Directory
    BY DEF Content, Agree
  <2>2. \A s \in Slot : Stored[s] = Shown(root, s)
    BY StoredIs
  <2>3. \A s \in Slot : Stored'[s] = Shown(root', s)
    BY <1>3
  <2> QED BY <2>1, <2>2, <2>3, StepStores
<1> QED BY <1>1, <1>2, <1>4, PTL DEF Spec, FilesKept, Store!Spec
=============================================================================
