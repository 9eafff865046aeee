-------------------------- MODULE PushbufferProofs --------------------------
(***************************************************************************)
(* The safety properties of the pushbuffer, for any number of chunks,      *)
(* pushes and entries and for any sizes, channel errors included.          *)
(***************************************************************************)
EXTENDS Pushbuffer, TLAPS

\* The provers' time limit for every step, in seconds
USE SMTT(40)

-----------------------------------------------------------------------------
(* The pending entries of a chunk form a ring *)

Entries == [gpfifo : Gpfifos, off : Nat, size : 1..MAX_PUSH]

\* going round the chunk from a one meets b before c
Cyclic(a, b, c) == (a < b /\ b < c) \/ (b < c /\ c < a) \/ (c < a /\ a < b)

\* The entries of a list lie in the chunk, apart from each other, and in the
\* order of the list when one goes round the chunk from the first one.  Any
\* part of such a list is one, which is what lets entries complete in any order.
Ring(list) ==
    /\ \A i \in 1..Len(list) : End(list[i]) <= CHUNK_SIZE
    /\ \A i, j \in 1..Len(list) :
          i # j => Disjoint(list[i].off, list[i].size, list[j].off, list[j].size)
    /\ \A i, j, k \in 1..Len(list) :
          i < j /\ j < k => Cyclic(list[i].off, list[j].off, list[k].off)

\* A push of the worst-case size at s may come next.
Fits(list, s) ==
    /\ s + MAX_PUSH <= CHUNK_SIZE
    /\ \A i \in 1..Len(list) : Disjoint(s, MAX_PUSH, list[i].off, list[i].size)
    /\ \A i, j \in 1..Len(list) : i < j => Cyclic(list[i].off, list[j].off, s)

\* The list without its n-th entry: what was at i, or at i + 1 behind the gap
At(n, i) == IF i < n THEN i ELSE i + 1

LEMMA AtFacts ==
    ASSUME NEW m \in Nat, NEW n \in 1..m, NEW i \in 1..(m - 1), NEW j \in 1..(m - 1)
    PROVE  /\ At(n, i) \in 1..m
           /\ i # j => At(n, i) # At(n, j)
           /\ i < j => At(n, i) < At(n, j)
  BY DEF At

LEMMA SeqFacts ==
    ASSUME NEW S, NEW s \in Seq(S)
    PROVE  /\ \A i \in 1..Len(s) : s[i] \in S
           /\ \A x \in S : Append(s, x) \in Seq(S) /\ Append(s, x) # <<>>
           /\ Len(s) = 0 <=> s = <<>>
  OBVIOUS

LEMMA ConcatFacts ==
    ASSUME NEW S, NEW s \in Seq(S), NEW t \in Seq(S)
    PROVE  /\ s \o t \in Seq(S) /\ Len(s \o t) = Len(s) + Len(t)
           /\ \A i \in 1..(Len(s) + Len(t)) :
                 (s \o t)[i] = IF i <= Len(s) THEN s[i] ELSE t[i - Len(s)]
  OBVIOUS

LEMMA ListDelFacts ==
    ASSUME NEW S, NEW s \in Seq(S), NEW n \in 1..Len(s)
    PROVE  /\ list_del(s, n) \in Seq(S)
           /\ Len(list_del(s, n)) = Len(s) - 1
           /\ \A i \in 1..(Len(s) - 1) : list_del(s, n)[i] = s[At(n, i)]
<1> DEFINE a == SubSeq(s, 1, n - 1)
           b == SubSeq(s, n + 1, Len(s))
<1>1. a \in Seq(S) /\ Len(a) = n - 1 /\ \A i \in 1..(n - 1) : a[i] = s[i]
  OBVIOUS
<1>2. b \in Seq(S) /\ Len(b) = Len(s) - n /\ \A i \in 1..(Len(s) - n) : b[i] = s[n + i]
  OBVIOUS
<1>3. list_del(s, n) = a \o b
  BY DEF list_del
<1> HIDE DEF a, b
<1>4. /\ a \o b \in Seq(S)
      /\ Len(a \o b) = Len(a) + Len(b)
      /\ \A i \in 1..(Len(a) + Len(b)) :
            (a \o b)[i] = IF i <= Len(a) THEN a[i] ELSE b[i - Len(a)]
  BY <1>1, <1>2, ConcatFacts, ZenonT(60)
<1>5. Len(a) + Len(b) = Len(s) - 1
  BY <1>1, <1>2
<1>6. ASSUME NEW i \in 1..(Len(s) - 1) PROVE list_del(s, n)[i] = s[At(n, i)]
  <2>1. CASE i < n
    BY <2>1, <1>1, <1>3, <1>4, <1>5 DEF At
  <2>2. CASE i >= n
    <3>1. i - Len(a) \in 1..(Len(s) - n) /\ n + (i - Len(a)) = i + 1 /\ ~(i <= Len(a)) /\ ~(i < n)
      BY <2>2, <1>1
    <3> QED BY <3>1, <1>2, <1>3, <1>4, <1>5 DEF At
  <2> QED BY <2>1, <2>2
<1> QED BY <1>3, <1>4, <1>5, <1>6

LEMMA LenInNat ==
    ASSUME NEW S, NEW s \in Seq(S)
    PROVE  Len(s) \in Nat
  OBVIOUS

LEMMA EntryRemove ==
    ASSUME NEW list \in Seq(Entries), NEW n \in 1..Len(list)
    PROVE  /\ list_del(list, n) \in Seq(Entries)
           /\ Len(list_del(list, n)) = Len(list) - 1
           /\ \A i \in 1..(Len(list) - 1) : list_del(list, n)[i] = list[At(n, i)]
  BY ListDelFacts, ZenonT(60)

LEMMA RingRemove ==
    ASSUME NEW list \in Seq(Entries), NEW n \in 1..Len(list), Ring(list)
    PROVE  Ring(list_del(list, n))
<1> DEFINE r == list_del(list, n)
<1>1. /\ Len(r) = Len(list) - 1
      /\ \A i \in 1..Len(r) : r[i] = list[At(n, i)]
  BY EntryRemove, ZenonT(60)
<1> HIDE DEF r
<1>a. /\ \A i \in 1..Len(r) : At(n, i) \in 1..Len(list)
      /\ \A i, j \in 1..Len(r) : i # j => At(n, i) # At(n, j)
      /\ \A i, j \in 1..Len(r) : i < j => At(n, i) < At(n, j)
  BY <1>1, LenInNat, AtFacts
<1>2. ASSUME NEW i \in 1..Len(r) PROVE End(r[i]) <= CHUNK_SIZE
  BY <1>1, <1>a DEF Ring
<1>3. ASSUME NEW i \in 1..Len(r), NEW j \in 1..Len(r), i # j
      PROVE  Disjoint(r[i].off, r[i].size, r[j].off, r[j].size)
  BY <1>1, <1>a, <1>3 DEF Ring
<1>4. ASSUME NEW i \in 1..Len(r), NEW j \in 1..Len(r), NEW k \in 1..Len(r), i < j, j < k
      PROVE  Cyclic(r[i].off, r[j].off, r[k].off)
  BY <1>1, <1>a, <1>4 DEF Ring
<1> QED BY <1>2, <1>3, <1>4 DEF Ring, r

LEMMA FitsRemove ==
    ASSUME NEW list \in Seq(Entries), NEW n \in 1..Len(list), NEW s, Fits(list, s)
    PROVE  Fits(list_del(list, n), s)
<1> DEFINE r == list_del(list, n)
<1>1. /\ Len(r) = Len(list) - 1
      /\ \A i \in 1..Len(r) : r[i] = list[At(n, i)]
  BY EntryRemove, ZenonT(60)
<1> HIDE DEF r
<1>a. /\ \A i \in 1..Len(r) : At(n, i) \in 1..Len(list)
      /\ \A i, j \in 1..Len(r) : i < j => At(n, i) < At(n, j)
  BY <1>1, LenInNat, AtFacts
<1>2. ASSUME NEW i \in 1..Len(r) PROVE Disjoint(s, MAX_PUSH, r[i].off, r[i].size)
  BY <1>1, <1>a DEF Fits
<1>3. ASSUME NEW i \in 1..Len(r), NEW j \in 1..Len(r), i < j
      PROVE  Cyclic(r[i].off, r[j].off, s)
  BY <1>1, <1>a, <1>3 DEF Fits
<1> QED BY <1>2, <1>3 DEF Fits, r

LEMMA RingAppend ==
    ASSUME NEW list \in Seq(Entries), NEW e \in Entries, Ring(list), Fits(list, e.off)
    PROVE  Ring(Append(list, e))
<1> DEFINE r == Append(list, e)
<1>1. /\ Len(r) = Len(list) + 1
      /\ \A i \in 1..Len(list) : r[i] = list[i]
      /\ r[Len(list) + 1] = e
  OBVIOUS
<1> HIDE DEF r
<1>a. Len(list) \in Nat /\ MAX_PUSH \in Nat /\ CHUNK_SIZE \in Nat
  BY SizesNat
<1>b. e.off \in Nat /\ e.size \in Nat /\ e.size <= MAX_PUSH
  BY <1>a DEF Entries
<1>c. \A i \in 1..Len(list) : list[i].off \in Nat /\ list[i].size \in Nat
  <2>1. ASSUME NEW i \in 1..Len(list) PROVE list[i] \in Entries
    BY SeqFacts, ZenonT(60)
  <2> QED BY <2>1, <1>a DEF Entries
<1>3. ASSUME NEW i \in 1..Len(r) PROVE End(r[i]) <= CHUNK_SIZE
  <2>1. CASE i = Len(list) + 1
    BY <2>1, <1>1, <1>a, <1>b DEF Fits, End
  <2>2. CASE i \in 1..Len(list)
    BY <2>2, <1>1 DEF Ring
  <2> QED BY <2>1, <2>2, <1>1, <1>a
<1>4. ASSUME NEW i \in 1..Len(r), NEW j \in 1..Len(r), i # j
      PROVE  Disjoint(r[i].off, r[i].size, r[j].off, r[j].size)
  <2>1. CASE i = Len(list) + 1
    <3>1. j \in 1..Len(list)
      BY <1>4, <2>1, <1>1, <1>a
    <3>2. Disjoint(e.off, MAX_PUSH, list[j].off, list[j].size)
      BY <3>1 DEF Fits
    <3> QED BY <2>1, <3>1, <3>2, <1>1, <1>a, <1>b, <1>c DEF Disjoint
  <2>2. CASE j = Len(list) + 1
    <3>1. i \in 1..Len(list)
      BY <1>4, <2>2, <1>1, <1>a
    <3>2. Disjoint(e.off, MAX_PUSH, list[i].off, list[i].size)
      BY <3>1 DEF Fits
    <3> QED BY <2>2, <3>1, <3>2, <1>1, <1>a, <1>b, <1>c DEF Disjoint
  <2>3. CASE i \in 1..Len(list) /\ j \in 1..Len(list)
    BY <2>3, <1>1, <1>4 DEF Ring
  <2> QED BY <2>1, <2>2, <2>3, <1>1, <1>a
<1>5. ASSUME NEW i \in 1..Len(r), NEW j \in 1..Len(r), NEW k \in 1..Len(r), i < j, j < k
      PROVE  Cyclic(r[i].off, r[j].off, r[k].off)
  <2>1. i \in 1..Len(list) /\ j \in 1..Len(list) /\ (k = Len(list) + 1 \/ k \in 1..Len(list))
    <3>1. Len(r) = Len(list) + 1
      BY <1>1
    <3> QED BY <1>5, <3>1, <1>a
  <2>2. CASE k = Len(list) + 1
    BY <2>1, <2>2, <1>1, <1>5 DEF Fits
  <2>3. CASE k \in 1..Len(list)
    BY <2>1, <2>3, <1>1, <1>5 DEF Ring
  <2> QED BY <2>1, <2>2, <2>3
<1> QED BY <1>3, <1>4, <1>5 DEF Ring, r

\* The numbers in an entry of a list
LEMMA EntryNat ==
    ASSUME NEW list \in Seq(Entries), NEW i \in 1..Len(list)
    PROVE  /\ list[i].off \in Nat
           /\ list[i].size \in Nat /\ list[i].size > 0 /\ list[i].size <= MAX_PUSH
           /\ End(list[i]) = list[i].off + list[i].size
<1>1. list[i] \in Entries
  BY SeqFacts, ZenonT(60)
<1> QED BY <1>1, SizesNat DEF Entries, End

\* Where entries lie that are in the order of the ring, as facts about numbers: a is
\* the first entry, b one behind it, z the last one
LEMMA BetweenEnds ==
    ASSUME NEW a \in Nat, NEW la \in Nat \ {0}, NEW b \in Nat, NEW lb \in Nat \ {0},
           NEW z \in Nat, NEW lz \in Nat \ {0},
           Disjoint(a, la, b, lb), Disjoint(a, la, z, lz), Disjoint(b, lb, z, lz),
           Cyclic(a, b, z)
    PROVE  /\ a < z + lz => a <= b /\ b + lb <= z + lz
           /\ z + lz <= a => a <= b \/ b + lb <= z + lz
  BY DEF Disjoint, Cyclic

\* Between gpu_get and cpu_put lie all the entries.
LEMMA RingShape ==
    ASSUME NEW list \in Seq(Entries), Ring(list), NEW i \in 1..Len(list)
    PROVE  LET get == list[1].off
               put == End(list[Len(list)])
           IN  /\ get < put => get <= list[i].off /\ End(list[i]) <= put
               /\ put <= get => get <= list[i].off \/ End(list[i]) <= put
<1> DEFINE n == Len(list)
<1>0. n \in Nat /\ 1 \in 1..n /\ n \in 1..n
  BY LenInNat
<1>1. \A k \in 1..n : /\ list[k].off \in Nat /\ list[k].size \in Nat \ {0}
                      /\ End(list[k]) = list[k].off + list[k].size
  BY EntryNat
<1> HIDE DEF n
<1>2. \A j, k \in 1..n :
          j # k => Disjoint(list[j].off, list[j].size, list[k].off, list[k].size)
  BY DEF Ring, n
<1>3. CASE i = 1
  <2>1. CASE n = 1
    BY <1>0, <1>1, <1>3, <2>1 DEF n
  <2>2. CASE n # 1
    <3>1. Disjoint(list[1].off, list[1].size, list[n].off, list[n].size)
      BY <1>0, <1>2, <2>2
    <3> QED BY <1>0, <1>1, <1>3, <3>1 DEF Disjoint, n
  <2> QED BY <2>1, <2>2
<1>4. CASE i = n /\ i # 1
  <2>1. Disjoint(list[1].off, list[1].size, list[n].off, list[n].size)
    BY <1>0, <1>2, <1>4
  <2> QED BY <1>0, <1>1, <1>4, <2>1 DEF Disjoint, n
<1>5. CASE i # 1 /\ i # n
  <2>1. 1 < i /\ i < n /\ i \in 1..n
    BY <1>0, <1>5 DEF n
  <2>2. Cyclic(list[1].off, list[i].off, list[n].off)
    BY <2>1, <1>0 DEF Ring, n
  <2>3. /\ Disjoint(list[1].off, list[1].size, list[n].off, list[n].size)
        /\ Disjoint(list[1].off, list[1].size, list[i].off, list[i].size)
        /\ Disjoint(list[i].off, list[i].size, list[n].off, list[n].size)
    BY <1>0, <1>2, <2>1
  <2>4. /\ list[1].off < list[n].off + list[n].size =>
              /\ list[1].off <= list[i].off
              /\ list[i].off + list[i].size <= list[n].off + list[n].size
        /\ list[n].off + list[n].size <= list[1].off =>
              \/ list[1].off <= list[i].off
              \/ list[i].off + list[i].size <= list[n].off + list[n].size
    <3>1. /\ list[1].off \in Nat /\ list[1].size \in Nat \ {0}
          /\ list[i].off \in Nat /\ list[i].size \in Nat \ {0}
          /\ list[n].off \in Nat /\ list[n].size \in Nat \ {0}
      BY <2>1, <1>0, <1>1
    <3> QED BY <3>1, <2>2, <2>3, BetweenEnds, ZenonT(60)
  <2> QED BY <2>1, <2>4, <1>0, <1>1 DEF n
<1> QED BY <1>3, <1>4, <1>5

\* Of two entries, the first in the list comes first, unless the ring wraps between
\* them.
Follows(get, a, la, b) ==
    /\ get <= a /\ get <= b => a + la <= b
    /\ a < get /\ b < get => a + la <= b
    /\ a < get => b < get

LEMMA FollowsFirst ==
    ASSUME NEW a \in Nat, NEW la \in Nat \ {0}, NEW b \in Nat, NEW lb \in Nat \ {0},
           Disjoint(a, la, b, lb)
    PROVE  Follows(a, a, la, b)
  BY DEF Follows, Disjoint

LEMMA FollowsCyclic ==
    ASSUME NEW get \in Nat, NEW a \in Nat, NEW la \in Nat \ {0}, NEW b \in Nat, NEW lb \in Nat \ {0},
           Disjoint(a, la, b, lb), Cyclic(get, a, b)
    PROVE  Follows(get, a, la, b)
  BY DEF Follows, Disjoint, Cyclic

LEMMA RingFollows ==
    ASSUME NEW list \in Seq(Entries), Ring(list),
           NEW i \in 1..Len(list), NEW j \in 1..Len(list), i < j
    PROVE  Follows(list[1].off, list[i].off, list[i].size, list[j].off)
<1>1. Len(list) \in Nat /\ 1 \in 1..Len(list)
  BY LenInNat
<1>2. /\ list[1].off \in Nat
      /\ list[i].off \in Nat /\ list[i].size \in Nat \ {0}
      /\ list[j].off \in Nat /\ list[j].size \in Nat \ {0}
  BY EntryNat, <1>1
<1>3. Disjoint(list[i].off, list[i].size, list[j].off, list[j].size)
  BY DEF Ring
<1>4. CASE i = 1
  BY <1>2, <1>3, <1>4, FollowsFirst, ZenonT(60)
<1>5. CASE i # 1
  <2>1. Cyclic(list[1].off, list[i].off, list[j].off)
    BY <1>1, <1>5 DEF Ring
  <2> QED BY <1>2, <1>3, <2>1, FollowsCyclic, ZenonT(60)
<1> QED BY <1>4, <1>5

\* The numbers of update_chunk for a list that is not empty
LEMMA GetPut ==
    ASSUME NEW list \in Seq(Entries), Ring(list), list # <<>>
    PROVE  /\ Len(list) \in Nat \ {0}
           /\ 1 \in 1..Len(list) /\ Len(list) \in 1..Len(list)
           /\ chunk_get_gpu_get(list) = list[1].off
           /\ chunk_get_cpu_put(list) = End(list[Len(list)])
           /\ list[1].off \in Nat
           /\ End(list[Len(list)]) \in Nat \ {0}
           /\ list[1].off < CHUNK_SIZE
           /\ End(list[Len(list)]) <= CHUNK_SIZE
<1>1. Len(list) \in Nat \ {0} /\ 1 \in 1..Len(list) /\ Len(list) \in 1..Len(list)
  BY LenInNat, SeqFacts
<1>2. chunk_get_gpu_get(list) = list[1].off /\ chunk_get_cpu_put(list) = End(list[Len(list)])
  BY DEF chunk_get_gpu_get, chunk_get_cpu_put
<1>3. /\ list[1].off \in Nat /\ list[1].size \in Nat /\ list[1].size > 0
      /\ End(list[1]) = list[1].off + list[1].size
  BY <1>1, EntryNat
<1>4. /\ list[Len(list)].off \in Nat
      /\ list[Len(list)].size \in Nat /\ list[Len(list)].size > 0
      /\ End(list[Len(list)]) = list[Len(list)].off + list[Len(list)].size
  BY <1>1, EntryNat
<1>5. End(list[1]) <= CHUNK_SIZE /\ End(list[Len(list)]) <= CHUNK_SIZE
  BY <1>1 DEF Ring
<1> QED BY <1>1, <1>2, <1>3, <1>4, <1>5, SizesNat

\* What update_chunk computes from gpu_get and cpu_put
StartOf(get, put) ==
    IF get = put THEN -1
    ELSE IF get > put
    THEN IF get - put >= MAX_PUSH THEN put ELSE -1
    ELSE IF CHUNK_SIZE >= put + MAX_PUSH THEN put
    ELSE IF get >= MAX_PUSH THEN 0
    ELSE -1

LEMMA NextStartOf ==
    ASSUME NEW list \in Seq(Entries), Ring(list), list # <<>>
    PROVE  NextStart(list) = StartOf(list[1].off, End(list[Len(list)]))
  BY GetPut DEF NextStart, StartOf

LEMMA NextStartEmpty == NextStart(<<>>) = 0
  BY DEF NextStart, chunk_get_gpu_get, chunk_get_cpu_put

LEMMA StartApart ==
    ASSUME NEW get \in Nat, NEW put \in Nat \ {0}, get < CHUNK_SIZE, put <= CHUNK_SIZE,
           StartOf(get, put) >= 0, NEW a \in Nat, NEW la \in Nat \ {0},
           get < put => get <= a /\ a + la <= put,
           put <= get => get <= a \/ a + la <= put
    PROVE  Disjoint(StartOf(get, put), MAX_PUSH, a, la)
  BY SizesNat DEF StartOf, Disjoint

LEMMA StartCyclic ==
    ASSUME NEW get \in Nat, NEW put \in Nat \ {0}, get < CHUNK_SIZE, put <= CHUNK_SIZE,
           StartOf(get, put) >= 0,
           NEW a \in Nat, NEW la \in Nat \ {0}, NEW b \in Nat, NEW lb \in Nat \ {0},
           get < put => get <= a /\ a + la <= put,
           put <= get => get <= a \/ a + la <= put,
           get < put => get <= b /\ b + lb <= put,
           put <= get => get <= b \/ b + lb <= put,
           Follows(get, a, la, b)
    PROVE  Cyclic(a, b, StartOf(get, put))
  BY SizesNat DEF StartOf, Follows, Cyclic

LEMMA StartType ==
    ASSUME NEW get \in Nat, NEW put \in Nat \ {0}, get < CHUNK_SIZE, put <= CHUNK_SIZE,
           StartOf(get, put) >= 0
    PROVE  StartOf(get, put) \in Nat /\ StartOf(get, put) + MAX_PUSH <= CHUNK_SIZE
  BY SizesNat DEF StartOf

\* The place update_chunk finds is free, and next in the ring.
LEMMA NextFits ==
    ASSUME NEW list \in Seq(Entries), Ring(list), NextStart(list) >= 0
    PROVE  NextStart(list) \in Nat /\ Fits(list, NextStart(list))
<1>1. CASE list = <<>>
  <2>1. Len(list) = 0 /\ NextStart(list) = 0
    BY <1>1, NextStartEmpty
  <2> QED BY <2>1, SizesNat DEF Fits
<1>2. CASE list # <<>>
  <2> DEFINE get == list[1].off
             put == End(list[Len(list)])
             s == StartOf(get, put)
  <2>1. /\ get \in Nat /\ put \in Nat \ {0} /\ get < CHUNK_SIZE /\ put <= CHUNK_SIZE
        /\ NextStart(list) = s /\ s >= 0
    BY <1>2, GetPut, NextStartOf
  <2>2. \A i \in 1..Len(list) :
           /\ list[i].off \in Nat /\ list[i].size \in Nat \ {0}
           /\ get < put => get <= list[i].off /\ list[i].off + list[i].size <= put
           /\ put <= get => get <= list[i].off \/ list[i].off + list[i].size <= put
    <3> SUFFICES ASSUME NEW i \in 1..Len(list)
                 PROVE  /\ list[i].off \in Nat /\ list[i].size \in Nat \ {0}
                        /\ get < put => get <= list[i].off /\ list[i].off + list[i].size <= put
                        /\ put <= get => get <= list[i].off \/ list[i].off + list[i].size <= put
      OBVIOUS
    <3>1. /\ list[i].off \in Nat /\ list[i].size \in Nat /\ list[i].size > 0
          /\ End(list[i]) = list[i].off + list[i].size
      BY EntryNat
    <3>2. /\ get < put => get <= list[i].off /\ End(list[i]) <= put
          /\ put <= get => get <= list[i].off \/ End(list[i]) <= put
      BY RingShape
    <3> HIDE DEF get, put
    <3> QED BY <3>1, <3>2
  <2>3. \A i, j \in 1..Len(list) : i < j => Follows(get, list[i].off, list[i].size, list[j].off)
    BY RingFollows
  <2> HIDE DEF get, put
  <2>4. s \in Nat /\ s + MAX_PUSH <= CHUNK_SIZE
    BY <2>1, StartType
  <2>5. ASSUME NEW i \in 1..Len(list) PROVE Disjoint(s, MAX_PUSH, list[i].off, list[i].size)
    BY <2>1, <2>2, StartApart, ZenonT(60)
  <2>6. ASSUME NEW i \in 1..Len(list), NEW j \in 1..Len(list), i < j
        PROVE  Cyclic(list[i].off, list[j].off, s)
    BY <2>1, <2>2, <2>3, <2>6, StartCyclic, ZenonT(60)
  <2> QED BY <2>1, <2>4, <2>5, <2>6, ZenonT(60) DEF Fits
<1> QED BY <1>1, <1>2

\* Removing an entry does not take room away.
LEMMA StartMonotone ==
    ASSUME NEW get \in Nat, NEW put \in Nat \ {0}, get < CHUNK_SIZE, put <= CHUNK_SIZE,
           StartOf(get, put) >= 0,
           NEW a \in Nat, NEW la \in Nat \ {0}, NEW b \in Nat, NEW lb \in Nat \ {0},
           get < put => get <= a /\ a + la <= put,
           put <= get => get <= a \/ a + la <= put,
           get < put => get <= b /\ b + lb <= put,
           put <= get => get <= b \/ b + lb <= put,
           Follows(get, a, la, b) \/ (a = b /\ la = lb)
    PROVE  StartOf(a, b + lb) >= 0
  BY SizesNat DEF StartOf, Follows

LEMMA NextStartRemove ==
    ASSUME NEW list \in Seq(Entries), Ring(list), NEW n \in 1..Len(list), NextStart(list) >= 0
    PROVE  NextStart(list_del(list, n)) >= 0
<1> DEFINE r == list_del(list, n)
<1>1. r \in Seq(Entries) /\ Len(r) = Len(list) - 1 /\ Len(list) \in Nat
  BY EntryRemove, LenInNat, ZenonT(60)
<1>2. \A i \in 1..(Len(list) - 1) : r[i] = list[At(n, i)]
  BY EntryRemove, ZenonT(60)
<1>3. Ring(r)
  BY RingRemove, ZenonT(60)
<1> HIDE DEF r
<1>4. CASE r = <<>>
  BY <1>4, NextStartEmpty DEF r
<1>5. CASE r # <<>>
  <2>1. Len(r) \in Nat \ {0} /\ 1 \in 1..Len(r) /\ Len(r) \in 1..Len(r)
    BY <1>1, <1>3, <1>5, GetPut, ZenonT(60)
  <2> DEFINE a == At(n, 1)
             b == At(n, Len(r))
             get == list[1].off
             put == End(list[Len(list)])
  <2>2. a \in 1..Len(list) /\ b \in 1..Len(list) /\ (a < b \/ a = b) /\ list # <<>>
    BY <1>1, <2>1 DEF At
  <2>3. r[1] = list[a] /\ r[Len(r)] = list[b]
    BY <1>1, <1>2, <2>1
  <2> HIDE DEF a, b
  <2>4. /\ get \in Nat /\ put \in Nat \ {0} /\ get < CHUNK_SIZE /\ put <= CHUNK_SIZE
    BY <2>2, GetPut, ZenonT(60)
  <2>5. StartOf(get, put) >= 0
    BY <2>2, NextStartOf
  <2>6. ASSUME NEW i \in 1..Len(list)
        PROVE  /\ list[i].off \in Nat /\ list[i].size \in Nat \ {0}
               /\ End(list[i]) = list[i].off + list[i].size
               /\ get < put => get <= list[i].off /\ list[i].off + list[i].size <= put
               /\ put <= get => get <= list[i].off \/ list[i].off + list[i].size <= put
    <3>1. /\ list[i].off \in Nat /\ list[i].size \in Nat /\ list[i].size > 0
          /\ End(list[i]) = list[i].off + list[i].size
      BY EntryNat
    <3>2. /\ get < put => get <= list[i].off /\ End(list[i]) <= put
          /\ put <= get => get <= list[i].off \/ End(list[i]) <= put
      BY RingShape
    <3> HIDE DEF get, put
    <3> QED BY <3>1, <3>2
  <2>7. a < b => Follows(get, list[a].off, list[a].size, list[b].off)
    BY <2>2, RingFollows, ZenonT(60)
  <2> HIDE DEF get, put
  <2>8. Follows(get, list[a].off, list[a].size, list[b].off)
          \/ (list[a].off = list[b].off /\ list[a].size = list[b].size)
    BY <2>2, <2>7
  <2>9. StartOf(list[a].off, list[b].off + list[b].size) >= 0
    BY <2>2, <2>4, <2>5, <2>6, <2>8, StartMonotone, ZenonT(60)
  <2>10. NextStart(r) = StartOf(r[1].off, End(r[Len(r)]))
    BY <1>1, <1>3, <1>5, NextStartOf, ZenonT(60)
  <2> QED BY <2>2, <2>3, <2>6, <2>9, <2>10, ZenonT(60) DEF r
<1> QED BY <1>4, <1>5

\* Only the first and the last entry count.
LEMMA NextStartMiddle ==
    ASSUME NEW list \in Seq(Entries), NEW n \in 1..Len(list), n \notin {1, Len(list)}
    PROVE  /\ NextStart(list_del(list, n)) = NextStart(list)
           /\ list # <<>> /\ list_del(list, n) # <<>>
<1> DEFINE r == list_del(list, n)
<1>1. r \in Seq(Entries) /\ Len(r) = Len(list) - 1 /\ Len(list) \in Nat
  BY EntryRemove, LenInNat, ZenonT(60)
<1>2. \A i \in 1..(Len(list) - 1) : r[i] = list[At(n, i)]
  BY EntryRemove, ZenonT(60)
<1> HIDE DEF r
<1>3. /\ 1 \in 1..(Len(list) - 1) /\ Len(r) \in 1..(Len(list) - 1)
      /\ At(n, 1) = 1 /\ At(n, Len(r)) = Len(list)
  BY <1>1 DEF At
<1>4. r[1] = list[1] /\ r[Len(r)] = list[Len(list)]
  BY <1>2, <1>3, ZenonT(60)
<1>5. r # <<>> /\ list # <<>>
  BY <1>1, <1>3
<1>6. chunk_get_gpu_get(r) = chunk_get_gpu_get(list) /\ chunk_get_cpu_put(r) = chunk_get_cpu_put(list)
  BY <1>4, <1>5 DEF chunk_get_gpu_get, chunk_get_cpu_put
<1> QED BY <1>5, <1>6 DEF NextStart, r

\* update_chunk finds room exactly if there is room outside the ring.
UsedOf(get, put) ==
    IF get < put THEN get .. (put - 1) ELSE (get .. (CHUNK_SIZE - 1)) \cup (0 .. (put - 1))

LEMMA RoomStart ==
    ASSUME NEW get \in Nat, NEW put \in Nat \ {0}, get < CHUNK_SIZE, put <= CHUNK_SIZE
    PROVE  (\E s \in 0 .. (CHUNK_SIZE - MAX_PUSH) :
               (s .. (s + MAX_PUSH - 1)) \cap UsedOf(get, put) = {})
           <=> StartOf(get, put) >= 0
<1>1. ASSUME NEW s \in 0 .. (CHUNK_SIZE - MAX_PUSH),
             (s .. (s + MAX_PUSH - 1)) \cap UsedOf(get, put) = {}
      PROVE  StartOf(get, put) >= 0
  <2>1. \A x : x \in s .. (s + MAX_PUSH - 1) => x \notin UsedOf(get, put)
    BY <1>1
  <2>2. s \in s .. (s + MAX_PUSH - 1) /\ s \notin UsedOf(get, put)
    BY <2>1, SizesNat
  <2>3. get \in UsedOf(get, put)
    BY SizesNat DEF UsedOf
  <2>4. get \notin s .. (s + MAX_PUSH - 1)
    BY <2>1, <2>3
  <2> QED BY <2>2, <2>4, SizesNat DEF UsedOf, StartOf
<1>2. ASSUME StartOf(get, put) >= 0
      PROVE  \E s \in 0 .. (CHUNK_SIZE - MAX_PUSH) :
                (s .. (s + MAX_PUSH - 1)) \cap UsedOf(get, put) = {}
  <2> DEFINE s == StartOf(get, put)
  <2>1. s \in 0 .. (CHUNK_SIZE - MAX_PUSH)
    BY <1>2, SizesNat DEF StartOf
  <2>2. ASSUME NEW x \in s .. (s + MAX_PUSH - 1), x \in UsedOf(get, put) PROVE FALSE
    <3>1. x \in Nat /\ s <= x /\ x < s + MAX_PUSH
      BY <2>1, SizesNat
    <3> QED BY <1>2, <2>2, <3>1, SizesNat DEF UsedOf, StartOf
  <2>3. (s .. (s + MAX_PUSH - 1)) \cap UsedOf(get, put) = {}
    BY <2>2
  <2> HIDE DEF s
  <2> QED BY <2>1, <2>3
<1> QED BY <1>1, <1>2

LEMMA RoomExact ==
    ASSUME NEW ch \in Chunks, pending_gpfifos[ch] \in Seq(Entries), Ring(pending_gpfifos[ch])
    PROVE  HasRoom(ch) <=> NextStart(pending_gpfifos[ch]) >= 0
<1> DEFINE list == pending_gpfifos[ch]
<1>1. CASE list = <<>>
  <2>1. Used(ch) = {} /\ 0 \in 0 .. (CHUNK_SIZE - MAX_PUSH) /\ NextStart(list) = 0
    BY <1>1, SizesNat, NextStartEmpty DEF Used
  <2> QED BY <2>1 DEF HasRoom
<1>2. CASE list # <<>>
  <2> DEFINE get == list[1].off
             put == End(list[Len(list)])
  <2>1. /\ get \in Nat /\ put \in Nat \ {0} /\ get < CHUNK_SIZE /\ put <= CHUNK_SIZE
        /\ chunk_get_gpu_get(list) = get /\ chunk_get_cpu_put(list) = put
    BY <1>2, GetPut, ZenonT(60)
  <2>2. Used(ch) = UsedOf(get, put)
    BY <1>2, <2>1 DEF Used, UsedOf
  <2>3. NextStart(list) = StartOf(get, put)
    BY <1>2, NextStartOf, ZenonT(60)
  <2> HIDE DEF list, get, put
  <2>4. HasRoom(ch) <=> StartOf(get, put) >= 0
    BY <2>1, <2>2, RoomStart, ZenonT(60) DEF HasRoom
  <2> QED BY <2>3, <2>4 DEF list
<1> QED BY <1>1, <1>2

-----------------------------------------------------------------------------
(* The invariant of the pushbuffer *)

Stages == {"none", "claiming", "checking", "failing", "failed", "claimed", "ongoing"}

PbType ==
    /\ next_push_start \in [Chunks -> Nat]
    /\ pending_gpfifos \in [Chunks -> Seq(Entries)]
    /\ current_push \in [Chunks -> Pushes \cup {NONE}]
    /\ stage \in [Pushes -> Stages]
    /\ chunk \in [Pushes -> Chunks \cup {NONE}]
    /\ begin \in [Pushes -> Nat]

\* The push that has a chunk is the one the chunk names.  The converse fails once
\* a channel has: a chunk claimed by a call that returns an error stays claimed.
OwnInv ==
    /\ \A p \in Pushes : stage[p] \in {"claimed", "ongoing"} => chunk[p] # NONE
    /\ \A p \in Pushes : chunk[p] # NONE =>
          current_push[chunk[p]] = p /\ stage[p] \in {"claimed", "ongoing", "failed"}
    /\ status = "NV_OK" =>
          /\ \A p \in Pushes : stage[p] \notin {"failing", "failed"}
          /\ \A ch \in Chunks : current_push[ch] # NONE => chunk[current_push[ch]] = ch

\* The bitmaps, and next_push_start of the available chunks, are what update_chunk
\* would make them now.
MapInv ==
    /\ idle_chunks = {ch \in Chunks : current_push[ch] = NONE /\ pending_gpfifos[ch] = <<>>}
    /\ available_chunks =
          {ch \in Chunks : current_push[ch] = NONE /\ NextStart(pending_gpfifos[ch]) >= 0}
    /\ \A ch \in available_chunks : next_push_start[ch] = NextStart(pending_gpfifos[ch])

\* Every chunk is a ring, in which the on-going push comes next.
RingInv ==
    /\ \A ch \in Chunks : Ring(pending_gpfifos[ch])
    /\ \A p \in Pushes : stage[p] \in {"claimed", "ongoing"} =>
          Fits(pending_gpfifos[chunk[p]], WriteStart(p))

PbInv == PbType /\ OwnInv /\ MapInv /\ RingInv

LEMMA PbInitInv == PbInit => PbInv
<1> SUFFICES ASSUME PbInit PROVE PbInv
  OBVIOUS
<1> USE DEF PbInit
<1>1. PbType
  BY DEF PbType, Stages
<1>2. OwnInv
  BY DEF OwnInv
<1>3. MapInv
  BY NextStartEmpty DEF MapInv
<1>4. RingInv
  <2>1. Ring(<<>>)
    BY DEF Ring
  <2> QED BY <2>1 DEF RingInv
<1> QED BY <1>1, <1>2, <1>3, <1>4 DEF PbInv

\* The chunk try_claim_chunk finds is available, and idle chunks are.
LEMMA PickedAvailable ==
    ASSUME PbInv, HasSpace, NEW ch \in Chunks, pick_chunk(ch)
    PROVE  ch \in available_chunks
<1>1. idle_chunks \subseteq available_chunks
  BY NextStartEmpty DEF PbInv, MapInv
<1> QED BY <1>1 DEF pick_chunk, FirstBit

(***************************************************************************)
(* tlapm infers types for its SMT encoding, at a cost that grows with the  *)
(* obligations already treated.  A hypothesis with a CASE has no type, and *)
(* this one makes it encode the leaves from here on without types.         *)
(***************************************************************************)
LEMMA Untyped == \A x : (CASE x = 0 -> 1 [] OTHER -> 2) \in {1, 2}
  OBVIOUS

USE Untyped

LEMMA OnGoingAlone ==
    ASSUME PbInv, NEW p \in Pushes, stage[p] \in {"claimed", "ongoing"}
    PROVE  chunk[p] \in Chunks /\ current_push[chunk[p]] = p
  BY DEF PbInv, PbType, OwnInv

\* Steps that leave the chunks alone
LEMMA PbWaits ==
    ASSUME PbInv, NEW p \in Pushes, BeginDown(p) \/ ClaimFails(p) \/ ClaimChecksErrors(p)
    PROVE  PbInv'
<1>1. /\ stage[p] \in {"none", "claiming", "checking"}
      /\ \E to \in {"claiming", "checking", "failing"} :
            /\ stage' = [stage EXCEPT ![p] = to]
            /\ status = "NV_OK" => to # "failing"
      /\ UNCHANGED <<chunkVars, chunk, begin, status>>
  <2>1. CASE BeginDown(p)
    BY <2>1 DEF BeginDown
  <2>2. CASE ClaimFails(p)
    BY <2>2 DEF ClaimFails
  <2>3. CASE ClaimChecksErrors(p)
    <3>1. /\ stage[p] = "checking"
          /\ stage' = [stage EXCEPT ![p] = IF status = "NV_OK" THEN "claiming" ELSE "failing"]
          /\ UNCHANGED <<chunkVars, chunk, begin, status>>
      BY <2>3 DEF ClaimChecksErrors
    <3>2. PICK to \in {"claiming", "failing"} :
             (to = IF status = "NV_OK" THEN "claiming" ELSE "failing")
      OBVIOUS
    <3>3. stage' = [stage EXCEPT ![p] = to]
      BY <3>1, <3>2
    <3>4. /\ stage[p] \in {"none", "claiming", "checking"}
          /\ to \in {"claiming", "checking", "failing"}
          /\ status = "NV_OK" => to # "failing"
      BY <3>1, <3>2
    <3> QED BY <3>1, <3>3, <3>4, ZenonT(60)
  <2> QED BY <2>1, <2>2, <2>3
<1> USE DEF chunkVars
<1>2. PbType'
  BY <1>1 DEF PbInv, PbType, Stages
<1>3. OwnInv'
  BY <1>1 DEF PbInv, PbType, OwnInv
<1>4. MapInv'
  BY <1>1 DEF PbInv, MapInv
<1>5. RingInv'
  BY <1>1 DEF PbInv, PbType, RingInv, WriteStart
<1> QED BY <1>2, <1>3, <1>4, <1>5 DEF PbInv

LEMMA PbError ==
    ASSUME PbInv, ChannelError
    PROVE  PbInv'
<1> USE DEF ChannelError, chunkVars, pushVars
<1> QED BY DEF PbInv, PbType, OwnInv, MapInv, RingInv, WriteStart

LEMMA PbFails ==
    ASSUME PbInv, NEW p \in Pushes, BeginFail(p)
    PROVE  PbInv'
<1> USE DEF BeginFail, chunkVars
<1>1. PbType'
  BY DEF PbInv, PbType, Stages
<1>2. OwnInv'
  BY DEF PbInv, PbType, OwnInv
<1>3. MapInv'
  BY DEF PbInv, MapInv
<1>4. RingInv'
  BY DEF PbInv, PbType, RingInv, WriteStart
<1> QED BY <1>1, <1>2, <1>3, <1>4 DEF PbInv

\* The start is read after the lock has been dropped: nobody has changed it.
LEMMA PbReads ==
    ASSUME PbInv, NEW p \in Pushes, BeginReadStart(p)
    PROVE  PbInv'
<1> USE DEF BeginReadStart, chunkVars
<1>1. PbType'
  BY DEF PbInv, PbType, OwnInv, Stages
<1>2. OwnInv'
  BY DEF PbInv, PbType, OwnInv
<1>3. MapInv'
  BY DEF PbInv, MapInv
<1>4. RingInv'
  BY DEF PbInv, PbType, RingInv, WriteStart
<1> QED BY <1>1, <1>2, <1>3, <1>4 DEF PbInv

LEMMA PbClaims ==
    ASSUME PbInv, NEW p \in Pushes, stage[p] \in {"claiming", "failing"}, HasSpace,
           NEW to \in {"claimed", "failed"},
           to = "failed" => status # "NV_OK",
           NEW ch \in Chunks, pick_chunk(ch), Claim(p, ch),
           chunk' = [chunk EXCEPT ![p] = ch],
           stage' = [stage EXCEPT ![p] = to],
           UNCHANGED <<begin, status>>
    PROVE  PbInv'
<1>1. ch \in available_chunks
  BY PickedAvailable
<1>2. /\ ch \in Chunks /\ current_push[ch] = NONE
      /\ NextStart(pending_gpfifos[ch]) >= 0
      /\ next_push_start[ch] = NextStart(pending_gpfifos[ch])
      /\ pending_gpfifos[ch] \in Seq(Entries) /\ Ring(pending_gpfifos[ch])
  BY <1>1 DEF PbInv, PbType, MapInv, RingInv
<1>3. /\ current_push' = [current_push EXCEPT ![ch] = p]
      /\ idle_chunks' = idle_chunks \ {ch}
      /\ available_chunks' = available_chunks \ {ch}
      /\ next_push_start' = next_push_start /\ pending_gpfifos' = pending_gpfifos
      /\ chunk' = [chunk EXCEPT ![p] = ch]
  BY DEF Claim
<1>4. p # NONE /\ chunk[p] = NONE
  BY NoneIsNull DEF PbInv, OwnInv
<1>5. \A q \in Pushes : chunk[q] # ch
  BY <1>2, <1>4, NoneIsNull DEF PbInv, OwnInv
<1>6. PbType'
  BY <1>2, <1>3 DEF PbInv, PbType, Stages
<1>7. OwnInv'
  <2>1. ASSUME NEW q \in Pushes
        PROVE  /\ stage'[q] \in {"claimed", "ongoing"} => chunk'[q] # NONE
               /\ chunk'[q] # NONE =>
                     current_push'[chunk'[q]] = q /\ stage'[q] \in {"claimed", "ongoing", "failed"}
    <3>1. CASE q = p
      BY <1>2, <1>3, <3>1, NoneIsNull DEF PbInv, PbType
    <3>2. CASE q # p
      BY <1>2, <1>3, <1>5, <3>2 DEF PbInv, PbType, OwnInv
    <3> QED BY <3>1, <3>2
  <2>2. ASSUME status = "NV_OK", NEW q \in Pushes PROVE stage'[q] \notin {"failing", "failed"}
    BY <2>2 DEF PbInv, PbType, OwnInv
  <2>3. ASSUME status = "NV_OK", NEW d \in Chunks, current_push'[d] # NONE
        PROVE  chunk'[current_push'[d]] = d
    <3>1. CASE d = ch
      BY <1>2, <1>3, <3>1 DEF PbInv, PbType
    <3>2. CASE d # ch
      BY <1>3, <1>4, <2>3, <3>2, NoneIsNull DEF PbInv, PbType, OwnInv
    <3> QED BY <3>1, <3>2
  <2> QED BY <2>1, <2>2, <2>3 DEF OwnInv
<1>8. MapInv'
  BY <1>2, <1>3, <1>4 DEF PbInv, PbType, MapInv
<1>9. Fits(pending_gpfifos[ch], next_push_start[ch])
  BY <1>2, NextFits, ZenonT(60)
<1>10. RingInv'
  BY <1>2, <1>3, <1>9 DEF PbInv, PbType, RingInv, WriteStart
<1> QED BY <1>6, <1>7, <1>8, <1>10 DEF PbInv

\* A push ends: its entry comes last in the ring.
LEMMA PbEnds ==
    ASSUME PbInv, NEW p \in Pushes, NEW g \in Gpfifos, NEW size \in 1..MAX_PUSH,
           uvm_pushbuffer_end_push(p, g, size)
    PROVE  PbInv'
<1> DEFINE ch == chunk[p]
           e == Entry(p, g, size)
           list == Append(pending_gpfifos[ch], e)
<1>1. /\ stage[p] = "ongoing"
      /\ pending_gpfifos' = [pending_gpfifos EXCEPT ![ch] = list]
      /\ update_chunk(ch, list)
      /\ current_push' = [current_push EXCEPT ![ch] = NONE]
      /\ stage' = [stage EXCEPT ![p] = "none"]
      /\ chunk' = [chunk EXCEPT ![p] = NONE]
      /\ UNCHANGED <<begin, status>>
  BY DEF uvm_pushbuffer_end_push
<1>2. ch \in Chunks /\ current_push[ch] = p /\ p # NONE
  BY <1>1, NoneIsNull DEF PbInv, PbType, OwnInv
<1>3. pending_gpfifos[ch] \in Seq(Entries) /\ Ring(pending_gpfifos[ch])
  BY <1>2 DEF PbInv, PbType, RingInv
<1>4. e \in Entries /\ e.off = begin[p]
  BY DEF Entry, Entries, PbInv, PbType
<1>5. Fits(pending_gpfifos[ch], e.off)
  BY <1>1, <1>4 DEF PbInv, RingInv, WriteStart
<1>6. list \in Seq(Entries) /\ list # <<>>
  BY <1>3, <1>4, SeqFacts
<1>7. Ring(list)
  BY <1>3, <1>4, <1>5, RingAppend, ZenonT(60)
<1>8. ch \notin idle_chunks /\ ch \notin available_chunks
  BY <1>2 DEF PbInv, MapInv
<1> HIDE DEF ch, e, list
<1>9. NextStart(list) >= 0 => NextStart(list) \in Nat
  BY <1>6, <1>7, NextFits, ZenonT(60)
<1>10. /\ idle_chunks' = idle_chunks
       /\ NextStart(list) >= 0 =>
             /\ available_chunks' = available_chunks \cup {ch}
             /\ next_push_start' = [next_push_start EXCEPT ![ch] = NextStart(list)]
       /\ ~(NextStart(list) >= 0) =>
             available_chunks' = available_chunks /\ next_push_start' = next_push_start
  BY <1>1, <1>6 DEF update_chunk
<1>11. PbType'
  <2>1. next_push_start' \in [Chunks -> Nat]
    BY <1>9, <1>10 DEF PbInv, PbType
  <2>2. pending_gpfifos' \in [Chunks -> Seq(Entries)]
    <3>1. pending_gpfifos \in [Chunks -> Seq(Entries)]
      BY DEF PbInv, PbType
    <3> QED BY <1>1, <1>2, <1>6, <3>1
  <2> QED BY <1>1, <2>1, <2>2 DEF PbInv, PbType, Stages
<1>12. OwnInv'
  <2>1. ASSUME NEW q \in Pushes
        PROVE  /\ stage'[q] \in {"claimed", "ongoing"} => chunk'[q] # NONE
               /\ chunk'[q] # NONE =>
                     current_push'[chunk'[q]] = q /\ stage'[q] \in {"claimed", "ongoing", "failed"}
    <3>1. CASE q = p
      BY <1>1, <3>1 DEF PbInv, PbType
    <3>2. CASE q # p
      BY <1>1, <1>2, <3>2 DEF PbInv, PbType, OwnInv
    <3> QED BY <3>1, <3>2
  <2>2. ASSUME status = "NV_OK", NEW q \in Pushes PROVE stage'[q] \notin {"failing", "failed"}
    BY <2>2, <1>1 DEF PbInv, PbType, OwnInv
  <2>3. ASSUME status = "NV_OK", NEW d \in Chunks, current_push'[d] # NONE
        PROVE  chunk'[current_push'[d]] = d
    <3>1. d # ch /\ current_push'[d] = current_push[d]
      BY <1>1, <1>2, <2>3 DEF PbInv, PbType
    <3>2. chunk[current_push[d]] = d /\ current_push[d] \in Pushes
      BY <2>3, <3>1 DEF PbInv, PbType, OwnInv
    <3> QED BY <1>1, <3>1, <3>2 DEF PbInv, PbType, ch
  <2> QED BY <1>1, <2>1, <2>2, <2>3 DEF OwnInv
<1>13. MapInv'
  <2>1. idle_chunks' = {d \in Chunks : current_push'[d] = NONE /\ pending_gpfifos'[d] = <<>>}
    BY <1>1, <1>2, <1>6, <1>8, <1>10 DEF PbInv, PbType, MapInv
  <2>2. available_chunks' =
           {d \in Chunks : current_push'[d] = NONE /\ NextStart(pending_gpfifos'[d]) >= 0}
    BY <1>1, <1>2, <1>8, <1>10 DEF PbInv, PbType, MapInv
  <2>3. \A d \in available_chunks' : next_push_start'[d] = NextStart(pending_gpfifos'[d])
    BY <1>1, <1>2, <1>8, <1>10 DEF PbInv, PbType, MapInv
  <2> QED BY <2>1, <2>2, <2>3 DEF MapInv
<1>14. RingInv'
  <2>1. ASSUME NEW d \in Chunks PROVE Ring(pending_gpfifos'[d])
    BY <1>1, <1>7 DEF PbInv, PbType, RingInv
  <2>2. ASSUME NEW q \in Pushes, stage'[q] \in {"claimed", "ongoing"}
        PROVE  Fits(pending_gpfifos'[chunk'[q]], WriteStart(q)')
    <3>1. q # p /\ stage[q] \in {"claimed", "ongoing"} /\ chunk'[q] = chunk[q] /\ stage'[q] = stage[q]
      BY <1>1, <2>2 DEF PbInv, PbType
    <3>2. chunk[q] # ch /\ chunk[q] \in Chunks
      BY <1>2, <3>1 DEF PbInv, PbType, OwnInv
    <3>3. /\ pending_gpfifos'[chunk[q]] = pending_gpfifos[chunk[q]]
          /\ next_push_start'[chunk[q]] = next_push_start[chunk[q]]
      BY <1>1, <1>10, <3>2 DEF PbInv, PbType
    <3> QED BY <1>1, <3>1, <3>3 DEF PbInv, RingInv, WriteStart
  <2> QED BY <2>1, <2>2 DEF RingInv
<1> QED BY <1>11, <1>12, <1>13, <1>14 DEF PbInv

\* An entry completes, in any place of the ring.
LEMMA PbCompletes ==
    ASSUME PbInv, NEW ch \in Chunks, NEW n \in 1..Len(pending_gpfifos[ch]), MarkCompletedAt(ch, n)
    PROVE  PbInv'
<1> DEFINE old == pending_gpfifos[ch]
           list == list_del(old, n)
<1>1. /\ pending_gpfifos' = [pending_gpfifos EXCEPT ![ch] = list]
      /\ n \in {1, Len(old)} /\ current_push[ch] = NONE => update_chunk(ch, list)
      /\ ~(n \in {1, Len(old)} /\ current_push[ch] = NONE) =>
            UNCHANGED <<idle_chunks, available_chunks, next_push_start>>
      /\ UNCHANGED <<current_push, stage, chunk, begin, status>>
  BY DEF MarkCompletedAt, pushVars
<1>2. old \in Seq(Entries) /\ Ring(old)
  BY DEF PbInv, PbType, RingInv
<1>3. list \in Seq(Entries) /\ Ring(list) /\ old # <<>>
  <2>1. old # <<>>
    BY <1>2, LenInNat
  <2> QED BY <1>2, <2>1, EntryRemove, RingRemove, ZenonT(60)
<1>4. NextStart(old) >= 0 => NextStart(list) >= 0
  BY <1>2, NextStartRemove, ZenonT(60)
<1>5. n \notin {1, Len(old)} => NextStart(list) = NextStart(old) /\ list # <<>>
  BY <1>2, NextStartMiddle, ZenonT(60)
<1>6. NextStart(list) >= 0 => NextStart(list) \in Nat
  BY <1>3, NextFits, ZenonT(60)
<1>7. list = <<>> => NextStart(list) >= 0
  BY NextStartEmpty
<1>8. \A s : Fits(old, s) => Fits(list, s)
  BY <1>2, FitsRemove, ZenonT(60)
<1>9. ch \notin idle_chunks /\ (ch \in available_chunks <=> current_push[ch] = NONE /\ NextStart(old) >= 0)
  BY <1>3 DEF PbInv, MapInv
<1> HIDE DEF list
<1>10. CASE n \in {1, Len(old)} /\ current_push[ch] = NONE
  <2>1. /\ idle_chunks' = IF list = <<>> THEN idle_chunks \cup {ch} ELSE idle_chunks
        /\ NextStart(list) >= 0 =>
              /\ available_chunks' = available_chunks \cup {ch}
              /\ next_push_start' = [next_push_start EXCEPT ![ch] = NextStart(list)]
        /\ ~(NextStart(list) >= 0) =>
              available_chunks' = available_chunks /\ next_push_start' = next_push_start
    BY <1>1, <1>10 DEF update_chunk
  <2>2. PbType'
    <3>1. next_push_start' \in [Chunks -> Nat]
      <4>1. next_push_start \in [Chunks -> Nat]
        BY DEF PbInv, PbType
      <4> QED BY <1>6, <2>1, <4>1
    <3>2. pending_gpfifos' \in [Chunks -> Seq(Entries)]
      BY <1>1, <1>3 DEF PbInv, PbType
    <3> QED BY <1>1, <3>1, <3>2 DEF PbInv, PbType
  <2>3. OwnInv'
    BY <1>1 DEF PbInv, OwnInv
  <2>4. MapInv'
    <3>1. idle_chunks' = {d \in Chunks : current_push'[d] = NONE /\ pending_gpfifos'[d] = <<>>}
      BY <1>1, <1>9, <1>10, <2>1 DEF PbInv, PbType, MapInv
    <3>2. available_chunks' =
             {d \in Chunks : current_push'[d] = NONE /\ NextStart(pending_gpfifos'[d]) >= 0}
      BY <1>1, <1>4, <1>9, <1>10, <2>1 DEF PbInv, PbType, MapInv
    <3>3. \A d \in available_chunks' : next_push_start'[d] = NextStart(pending_gpfifos'[d])
      BY <1>1, <1>4, <1>9, <1>10, <2>1 DEF PbInv, PbType, MapInv
    <3> QED BY <3>1, <3>2, <3>3 DEF MapInv
  <2>5. RingInv'
    <3>1. ASSUME NEW d \in Chunks PROVE Ring(pending_gpfifos'[d])
      BY <1>1, <1>3 DEF PbInv, PbType, RingInv
    <3>2. ASSUME NEW q \in Pushes, stage'[q] \in {"claimed", "ongoing"}
          PROVE  Fits(pending_gpfifos'[chunk'[q]], WriteStart(q)')
      <4>1. chunk[q] # ch /\ chunk[q] \in Chunks
        BY <1>1, <1>10, <3>2, NoneIsNull DEF PbInv, PbType, OwnInv
      <4>2. /\ pending_gpfifos'[chunk[q]] = pending_gpfifos[chunk[q]]
            /\ next_push_start'[chunk[q]] = next_push_start[chunk[q]]
        BY <1>1, <2>1, <4>1 DEF PbInv, PbType
      <4> QED BY <1>1, <3>2, <4>2 DEF PbInv, RingInv, WriteStart
    <3> QED BY <3>1, <3>2 DEF RingInv
  <2> QED BY <2>2, <2>3, <2>4, <2>5 DEF PbInv
<1>11. CASE ~(n \in {1, Len(old)} /\ current_push[ch] = NONE)
  <2>1. UNCHANGED <<idle_chunks, available_chunks, next_push_start>>
    BY <1>1, <1>11
  <2>2. PbType'
    <3>1. pending_gpfifos' \in [Chunks -> Seq(Entries)]
      BY <1>1, <1>3 DEF PbInv, PbType
    <3> QED BY <1>1, <2>1, <3>1 DEF PbInv, PbType
  <2>3. OwnInv'
    BY <1>1 DEF PbInv, OwnInv
  <2>4. MapInv'
    <3>1. idle_chunks' = {d \in Chunks : current_push'[d] = NONE /\ pending_gpfifos'[d] = <<>>}
      BY <1>1, <1>5, <1>9, <1>11, <2>1 DEF PbInv, PbType, MapInv
    <3>2. available_chunks' =
             {d \in Chunks : current_push'[d] = NONE /\ NextStart(pending_gpfifos'[d]) >= 0}
      BY <1>1, <1>5, <1>9, <1>11, <2>1 DEF PbInv, PbType, MapInv
    <3>3. \A d \in available_chunks' : next_push_start'[d] = NextStart(pending_gpfifos'[d])
      BY <1>1, <1>5, <1>9, <1>11, <2>1 DEF PbInv, PbType, MapInv
    <3> QED BY <3>1, <3>2, <3>3 DEF MapInv
  <2>5. RingInv'
    <3>1. ASSUME NEW d \in Chunks PROVE Ring(pending_gpfifos'[d])
      BY <1>1, <1>3 DEF PbInv, PbType, RingInv
    <3>2. ASSUME NEW q \in Pushes, stage'[q] \in {"claimed", "ongoing"}
          PROVE  Fits(pending_gpfifos'[chunk'[q]], WriteStart(q)')
      <4>1. chunk[q] \in Chunks /\ Fits(pending_gpfifos[chunk[q]], WriteStart(q))
        BY <1>1, <3>2 DEF PbInv, PbType, OwnInv, RingInv
      <4>2. WriteStart(q)' = WriteStart(q) /\ chunk'[q] = chunk[q]
        BY <1>1, <2>1 DEF WriteStart
      <4>3. CASE chunk[q] = ch
        BY <1>1, <1>8, <4>1, <4>2, <4>3 DEF PbInv, PbType
      <4>4. CASE chunk[q] # ch
        BY <1>1, <4>1, <4>2, <4>4 DEF PbInv, PbType
      <4> QED BY <4>3, <4>4
    <3> QED BY <3>1, <3>2 DEF RingInv
  <2> QED BY <2>2, <2>3, <2>4, <2>5 DEF PbInv
<1> QED BY <1>10, <1>11

LEMMA PbStepInv ==
    ASSUME PbInv, [PbErrorStep]_pbVars
    PROVE  PbInv'
<1>1. ASSUME NEW p \in Pushes, uvm_pushbuffer_begin_push(p) PROVE PbInv'
  <2>1. CASE BeginDown(p) \/ ClaimFails(p) \/ ClaimChecksErrors(p)
    BY <2>1, PbWaits
  <2>2. CASE try_claim_chunk(p)
    <3> PICK ch \in Chunks : pick_chunk(ch) /\ Claim(p, ch) /\ chunk' = [chunk EXCEPT ![p] = ch]
      BY <2>2, ZenonT(60) DEF try_claim_chunk
    <3>1. /\ stage[p] = "claiming" /\ HasSpace
          /\ stage' = [stage EXCEPT ![p] = "claimed"]
          /\ UNCHANGED <<begin, status>>
      BY <2>2 DEF try_claim_chunk
    <3>2. "claimed" \in {"claimed", "failed"} /\ "claimed" # "failed"
          /\ stage[p] \in {"claiming", "failing"}
      BY <3>1
    <3> QED BY <3>1, <3>2, PbClaims, ZenonT(60)
  <2>3. CASE ClaimAfterError(p)
    <3>1. /\ stage[p] = "failing"
          /\ stage' = [stage EXCEPT ![p] = "failed"]
          /\ UNCHANGED <<begin, status>>
          /\ status # "NV_OK"
      BY <2>3 DEF ClaimAfterError, PbInv, OwnInv
    <3>2. CASE HasSpace
      <4> PICK ch \in Chunks : pick_chunk(ch) /\ Claim(p, ch) /\ chunk' = [chunk EXCEPT ![p] = ch]
        BY <2>3, <3>2 DEF ClaimAfterError
      <4>1. "failed" \in {"claimed", "failed"} /\ stage[p] \in {"claiming", "failing"}
        BY <3>1
      <4> QED BY <3>1, <3>2, <4>1, PbClaims, ZenonT(60)
    <3>3. CASE ~HasSpace
      <4>1. UNCHANGED <<chunkVars, chunk>>
        BY <2>3, <3>3 DEF ClaimAfterError
      <4> USE <3>1, <4>1 DEF chunkVars
      <4>2. PbType'
        BY DEF PbInv, PbType, Stages
      <4>3. OwnInv'
        BY DEF PbInv, PbType, OwnInv
      <4>4. MapInv'
        BY DEF PbInv, MapInv
      <4>5. RingInv'
        BY DEF PbInv, PbType, RingInv, WriteStart
      <4> QED BY <4>2, <4>3, <4>4, <4>5 DEF PbInv
    <3> QED BY <3>2, <3>3
  <2>4. CASE BeginFail(p)
    BY <2>4, PbFails
  <2>5. CASE BeginReadStart(p)
    BY <2>5, PbReads
  <2> QED BY <1>1, <2>1, <2>2, <2>3, <2>4, <2>5 DEF uvm_pushbuffer_begin_push
<1>2. ASSUME NEW p \in Pushes, NEW g \in Gpfifos, NEW size \in 1..MAX_PUSH,
             uvm_pushbuffer_end_push(p, g, size)
      PROVE  PbInv'
  BY <1>2, PbEnds
<1>3. ASSUME NEW g \in Gpfifos, uvm_pushbuffer_mark_completed(g) PROVE PbInv'
  BY <1>3, PbCompletes DEF uvm_pushbuffer_mark_completed
<1>4. CASE ChannelError
  BY <1>4, PbError
<1>5. CASE UNCHANGED pbVars
  BY <1>5 DEF pbVars, chunkVars, pushVars, PbInv, PbType, OwnInv, MapInv, RingInv, WriteStart
<1> QED BY <1>1, <1>2, <1>3, <1>4, <1>5 DEF PbErrorStep, PbStep

(***************************************************************************)
(* The invariant of the pushbuffer.                                        *)
(***************************************************************************)
THEOREM PbInvariant == PbErrorSpec => []PbInv
<1>1. PbInit => PbInv
  BY PbInitInv
<1>2. PbInv /\ [PbErrorStep]_pbVars => PbInv'
  BY PbStepInv
<1> QED BY <1>1, <1>2, PTL DEF PbErrorSpec

LEMMA RingIsSafe == PbInv => WriteIsSafe
<1> SUFFICES ASSUME PbInv, NEW p \in Pushes, stage[p] \in {"claimed", "ongoing"}
             PROVE  /\ current_push[chunk[p]] = p
                    /\ WriteStart(p) + MAX_PUSH <= CHUNK_SIZE
                    /\ \A n \in 1..Len(pending_gpfifos[chunk[p]]) :
                          Disjoint(WriteStart(p), MAX_PUSH, pending_gpfifos[chunk[p]][n].off,
                                   pending_gpfifos[chunk[p]][n].size)
  BY ZenonT(60) DEF WriteIsSafe
<1>1. current_push[chunk[p]] = p
  BY OnGoingAlone
<1>2. Fits(pending_gpfifos[chunk[p]], WriteStart(p))
  BY DEF PbInv, RingInv
<1> QED BY <1>1, <1>2, ZenonT(60) DEF Fits

(***************************************************************************)
(* What an on-going push may write overlaps no pending push, stays in the  *)
(* chunk, and is no other push's, though next_push_start is read without   *)
(* the lock and pushes complete in any order meanwhile (uvm_pushbuffer.c:  *)
(* try_claim_chunk, uvm_pushbuffer_begin_push, update_chunk).              *)
(***************************************************************************)
THEOREM PbWriteIsSafe == PbErrorSpec => []WriteIsSafe
  BY PbInvariant, RingIsSafe, PTL

LEMMA MapsExact == PbInv => BitmapsExact
<1> SUFFICES ASSUME PbInv PROVE BitmapsExact
  OBVIOUS
<1>1. \A ch \in Chunks : HasRoom(ch) <=> NextStart(pending_gpfifos[ch]) >= 0
  BY RoomExact DEF PbInv, PbType, RingInv
<1>2. available_chunks = {ch \in Chunks : current_push[ch] = NONE /\ HasRoom(ch)}
  BY <1>1 DEF PbInv, MapInv
<1>3. ASSUME status = "NV_OK", NEW ch \in Chunks
      PROVE  current_push[ch] = NONE <=> \A p \in Pushes : chunk[p] # ch
  <2>1. ASSUME current_push[ch] = NONE, NEW p \in Pushes PROVE chunk[p] # ch
    <3>1. ch # NONE /\ p # NONE
      BY NoneIsNull
    <3>2. chunk[p] # NONE => current_push[chunk[p]] = p
      BY DEF PbInv, OwnInv
    <3> QED BY <2>1, <3>1, <3>2
  <2>2. ASSUME current_push[ch] # NONE PROVE \E p \in Pushes : chunk[p] = ch
    <3>1. current_push[ch] \in Pushes /\ chunk[current_push[ch]] = ch
      BY <1>3, <2>2 DEF PbInv, PbType, OwnInv
    <3> QED BY <3>1
  <2> QED BY <2>1, <2>2
<1>4. status = "NV_OK" => IdleExact
  BY <1>3 DEF IdleExact, PbInv, MapInv
<1> QED BY <1>2, <1>4 DEF BitmapsExact

(***************************************************************************)
(* The bitmaps of chunks say what uvm_pushbuffer.h says of them: no free   *)
(* space is forgotten, although only completions of the first and the last *)
(* entry of a chunk, and only without an on-going push, look for it.       *)
(***************************************************************************)
THEOREM PbBitmapsExact == PbErrorSpec => []BitmapsExact
  BY PbInvariant, MapsExact, PTL
=============================================================================
