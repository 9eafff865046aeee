--------------------------- MODULE ChannelProofs ---------------------------
(***************************************************************************)
(* The safety properties of the channels, for any number of channels,      *)
(* entries, pushes and updaters, on any pushbuffer.                        *)
(***************************************************************************)
EXTENDS Channel, TLAPS

\* The provers' time limit for every step, in seconds
USE SMTT(40)

-----------------------------------------------------------------------------
(* Remainders and sequences *)

LEMMA ModSplit ==
    ASSUME NEW n \in Nat \ {0}, NEW a \in Nat
    PROVE  \E q \in Nat, w \in 0..(n - 1) : a = q * n + w /\ a % n = w
<1>1. a = n * (a \div n) + (a % n)
  OBVIOUS
<1>2. a % n \in 0..(n - 1)
  OBVIOUS
<1>3. a \div n \in Nat
  OBVIOUS
<1>4. PICK q \in Nat, w \in 0..(n - 1) : q = a \div n /\ w = a % n
  BY <1>2, <1>3
<1>5. q * n = n * q
  OBVIOUS
<1>6. a = q * n + w
  BY <1>1, <1>4, <1>5
<1> QED BY <1>4, <1>6, ZenonT(60)

\* The list without its n-th entry: what was at i, or at i + 1 behind the gap
At(n, i) == IF i < n THEN i ELSE i + 1

LEMMA AtFacts ==
    ASSUME NEW m \in Nat, NEW n \in 1..m, NEW i \in 1..(m - 1), NEW j \in 1..(m - 1)
    PROVE  /\ At(n, i) \in 1..m
           /\ i # j => At(n, i) # At(n, j)
           /\ i < j => At(n, i) < At(n, j)
  BY DEF At

LEMMA SeqFacts ==
    ASSUME NEW S, NEW s \in Seq(S)
    PROVE  /\ \A i \in 1..Len(s) : s[i] \in S
           /\ \A x \in S : Append(s, x) \in Seq(S) /\ Append(s, x) # <<>>
           /\ Len(s) = 0 <=> s = <<>>
  OBVIOUS

LEMMA ConcatFacts ==
    ASSUME NEW S, NEW s \in Seq(S), NEW t \in Seq(S)
    PROVE  /\ s \o t \in Seq(S) /\ Len(s \o t) = Len(s) + Len(t)
           /\ \A i \in 1..(Len(s) + Len(t)) :
                 (s \o t)[i] = IF i <= Len(s) THEN s[i] ELSE t[i - Len(s)]
  OBVIOUS

LEMMA ListDelFacts ==
    ASSUME NEW S, NEW s \in Seq(S), NEW n \in 1..Len(s)
    PROVE  /\ list_del(s, n) \in Seq(S)
           /\ Len(list_del(s, n)) = Len(s) - 1
           /\ \A i \in 1..(Len(s) - 1) : list_del(s, n)[i] = s[At(n, i)]
<1> DEFINE a == SubSeq(s, 1, n - 1)
           b == SubSeq(s, n + 1, Len(s))
<1>1. a \in Seq(S) /\ Len(a) = n - 1 /\ \A i \in 1..(n - 1) : a[i] = s[i]
  OBVIOUS
<1>2. b \in Seq(S) /\ Len(b) = Len(s) - n /\ \A i \in 1..(Len(s) - n) : b[i] = s[n + i]
  OBVIOUS
<1>3. list_del(s, n) = a \o b
  BY DEF list_del
<1> HIDE DEF a, b
<1>4. /\ a \o b \in Seq(S)
      /\ Len(a \o b) = Len(a) + Len(b)
      /\ \A i \in 1..(Len(a) + Len(b)) :
            (a \o b)[i] = IF i <= Len(a) THEN a[i] ELSE b[i - Len(a)]
  BY <1>1, <1>2, ConcatFacts, ZenonT(60)
<1>5. Len(a) + Len(b) = Len(s) - 1
  BY <1>1, <1>2
<1>6. ASSUME NEW i \in 1..(Len(s) - 1) PROVE list_del(s, n)[i] = s[At(n, i)]
  <2>1. CASE i < n
    BY <2>1, <1>1, <1>3, <1>4, <1>5 DEF At
  <2>2. CASE i >= n
    <3>1. i - Len(a) \in 1..(Len(s) - n) /\ n + (i - Len(a)) = i + 1 /\ ~(i <= Len(a)) /\ ~(i < n)
      BY <2>2, <1>1
    <3> QED BY <3>1, <1>2, <1>3, <1>4, <1>5 DEF At
  <2> QED BY <2>1, <2>2
<1> QED BY <1>3, <1>4, <1>5, <1>6

LEMMA LenInNat ==
    ASSUME NEW S, NEW s \in Seq(S)
    PROVE  Len(s) \in Nat
  OBVIOUS

(***************************************************************************)
(* tlapm infers types for its SMT encoding, at a cost that grows with the  *)
(* obligations already treated.  A hypothesis with a CASE has no type, and *)
(* this one makes it encode the leaves from here on without types.         *)
(***************************************************************************)
LEMMA Untyped == \A x : (CASE x = 0 -> 1 [] OTHER -> 2) \in {1, 2}
  OBVIOUS

USE Untyped

LEMMA ModOf ==
    ASSUME NEW n \in Nat \ {0}, NEW q \in Nat, NEW r \in 0..(n - 1)
    PROVE  (q * n + r) % n = r
  OBVIOUS

LEMMA NoBetween ==
    ASSUME NEW n \in Nat \ {0}, NEW q \in Int, NEW r \in Int, q * n < r * n + n, r * n < q * n + n
    PROVE  q = r
<1>1. n * (q - r) < n /\ n * (r - q) < n
  OBVIOUS
<1>2. CASE q > r
  <2>1. q - r >= 1
    BY <1>2
  <2>2. n * (q - r) >= n * 1
    BY <2>1
  <2> QED BY <1>1, <2>2
<1>3. CASE q < r
  <2>1. r - q >= 1
    BY <1>3
  <2>2. n * (r - q) >= n * 1
    BY <2>1
  <2> QED BY <1>1, <2>2
<1> QED BY <1>2, <1>3

\* Two numbers less than n apart have different remainders.
LEMMA ModApart ==
    ASSUME NEW n \in Nat \ {0}, NEW a \in Nat, NEW b \in Nat, a < b + n, b < a + n, a % n = b % n
    PROVE  a = b
<1>1. PICK q \in Nat, w \in 0..(n - 1) : a = q * n + w /\ a % n = w
  BY ModSplit, ZenonT(60)
<1>2. PICK r \in Nat, v \in 0..(n - 1) : b = r * n + v /\ b % n = v
  BY ModSplit, ZenonT(60)
<1>3. v = w
  BY <1>1, <1>2, ZenonT(60)
<1>4. a = q * n + w /\ b = r * n + w
  BY <1>1, <1>2, <1>3, ZenonT(60)
<1>5. q * n \in Int /\ r * n \in Int
  OBVIOUS
<1>6. q * n < r * n + n /\ r * n < q * n + n
  BY <1>4, <1>5
<1>7. q = r
  BY <1>6, NoBetween
<1> QED BY <1>4, <1>7, ZenonT(60)

LEMMA Distribute ==
    ASSUME NEW n \in Nat, NEW q \in Nat, NEW r \in Nat
    PROVE  (q + r) * n = q * n + r * n /\ q * n \in Nat /\ r * n \in Nat
  OBVIOUS

LEMMA ModPlus ==
    ASSUME NEW n \in Nat \ {0}, NEW a \in Nat, NEW k \in Nat
    PROVE  ((a % n) + k) % n = (a + k) % n
<1>1. PICK q \in Nat, w \in 0..(n - 1) : a = q * n + w /\ a % n = w
  BY ModSplit, ZenonT(60)
<1>3. w + k \in Nat
  OBVIOUS
<1>4. PICK r \in Nat, z \in 0..(n - 1) : w + k = r * n + z /\ (w + k) % n = z
  BY <1>3, ModSplit, ZenonT(60)
<1>7. (q + r) * n = q * n + r * n /\ q * n \in Nat /\ r * n \in Nat
  BY Distribute
<1>8. a + k = (q + r) * n + z
  <2>1. PICK x, y \in Nat : x = q * n /\ y = r * n
    BY <1>7
  <2>2. a = x + w /\ w + k = y + z
    BY <1>1, <1>4, <2>1, ZenonT(60)
  <2>3. a + k = (x + y) + z
    BY <2>2
  <2> QED BY <1>7, <2>1, <2>3, ZenonT(60)
<1>9. ((q + r) * n + z) % n = z
  <2>1. q + r \in Nat
    OBVIOUS
  <2> QED BY <2>1, ModOf
<1> QED BY <1>1, <1>4, <1>8, <1>9, ZenonT(60)

LEMMA ModRound ==
    ASSUME NEW n \in Nat \ {0}, NEW a \in Nat
    PROVE  (a + n) % n = a % n
<1>1. PICK q \in Nat, w \in 0..(n - 1) : a = q * n + w /\ a % n = w
  BY ModSplit, ZenonT(60)
<1>2. (q + 1) * n = q * n + 1 * n /\ q * n \in Nat /\ 1 * n \in Nat /\ 1 * n = n
  BY Distribute
<1>3. a + n = (q + 1) * n + w
  BY <1>1, <1>2
<1>4. ((q + 1) * n + w) % n = w
  <2>1. q + 1 \in Nat
    OBVIOUS
  <2> QED BY <2>1, ModOf
<1> QED BY <1>1, <1>3, <1>4, ZenonT(60)

\* The slots of a channel's entries
LEMMA SlotType ==
    ASSUME NEW v \in Nat
    PROVE  SlotOf(v + 1) \in Slots /\ SlotOf(v + 1) = v % num_gpfifo_entries
<1>1. v + 1 - 1 = v
  OBVIOUS
<1>2. SlotOf(v + 1) = v % num_gpfifo_entries
  BY <1>1 DEF SlotOf
<1>3. num_gpfifo_entries \in Nat \ {0}
  BY ChannelConstants
<1>4. v % num_gpfifo_entries \in 0..(num_gpfifo_entries - 1)
  BY <1>3, ModSplit, ZenonT(60)
<1> QED BY <1>2, <1>4 DEF Slots

LEMMA SlotApart ==
    ASSUME NEW v \in Nat, NEW w \in Nat, v < w + num_gpfifo_entries, w < v + num_gpfifo_entries,
           SlotOf(v + 1) = SlotOf(w + 1)
    PROVE  v = w
<1>1. num_gpfifo_entries \in Nat \ {0}
  BY ChannelConstants
<1>2. v % num_gpfifo_entries = w % num_gpfifo_entries
  BY SlotType, ZenonT(60)
<1> QED BY <1>1, <1>2, ModApart, ZenonT(60)

LEMMA SlotNext ==
    ASSUME NEW v \in Nat
    PROVE  NextSlot(SlotOf(v + 1)) = SlotOf(v + 2)
<1>1. num_gpfifo_entries \in Nat \ {0} /\ v + 1 \in Nat /\ v + 1 + 1 = v + 2 /\ 1 \in Nat
  BY ChannelConstants
<1>2. ((v % num_gpfifo_entries) + 1) % num_gpfifo_entries = (v + 1) % num_gpfifo_entries
  BY <1>1, ModPlus, ZenonT(60)
<1>3. SlotOf(v + 1 + 1) = (v + 1) % num_gpfifo_entries
  BY <1>1, SlotType
<1>4. SlotOf(v + 1) = v % num_gpfifo_entries
  BY SlotType
<1> QED BY <1>1, <1>2, <1>3, <1>4 DEF NextSlot

\* What the comparison of channel_is_available says of the counters
LEMMA SlotRoom ==
    ASSUME NEW c \in Channels, NEW e \in Nat, NEW g \in Nat,
           cpu_put[c] = SlotOf(e + 1), gpu_get[c] = SlotOf(g + 1),
           current_pushes_count[c] \in Nat, channel_is_available(c),
           e + current_pushes_count[c] < g + num_gpfifo_entries
    PROVE  e + current_pushes_count[c] + 1 < g + num_gpfifo_entries
<1> DEFINE k == current_pushes_count[c]
           N == num_gpfifo_entries
<1>1. N \in Nat \ {0} /\ k \in Nat /\ k + 1 \in Nat
  BY ChannelConstants
<1>2. SlotOf(e + 1) = e % N /\ SlotOf(g + 1) = g % N
  BY SlotType, ZenonT(60)
<1>3. (cpu_put[c] + k + 1) % N # gpu_get[c]
  BY DEF channel_is_available
<1>4. cpu_put[c] = e % N /\ gpu_get[c] = g % N
  BY <1>2, ZenonT(60)
<1>5. e % N \in Nat
  BY <1>1, ModSplit
<1>6. cpu_put[c] + k + 1 = (e % N) + (k + 1)
  BY <1>1, <1>4, <1>5
<1>7. ((e % N) + (k + 1)) % N = (e + (k + 1)) % N
  BY <1>1, ModPlus, ZenonT(60)
<1>8. (g + N) % N = g % N
  BY <1>1, ModRound, ZenonT(60)
<1>9. e + (k + 1) # g + N
  BY <1>3, <1>4, <1>6, <1>7, <1>8, ZenonT(60)
<1>10. e + k < g + N
  OBVIOUS
<1> HIDE DEF k, N
<1>11. e + k + 1 < g + N
  BY <1>1, <1>9, <1>10
<1> QED BY <1>11 DEF k, N

-----------------------------------------------------------------------------
(* Sizes of sets *)

\* S has n elements: they can be numbered from 1 to n.  The proof needs of sizes
\* only that elements come and go one at a time.
Sized(S, n) ==
    \E f \in [1..n -> S] : /\ \A i, j \in 1..n : f[i] = f[j] => i = j
                           /\ \A x \in S : \E i \in 1..n : f[i] = x

LEMMA SizedEmpty == Sized({}, 0)
<1> DEFINE f == [i \in 1..0 |-> i]
<1>1. 1..0 = {}
  OBVIOUS
<1>2. f \in [1..0 -> {}]
  BY <1>1
<1>3. \A i \in 1..0 : FALSE
  BY <1>1
<1> HIDE DEF f
<1> QED BY <1>2, <1>3, ZenonT(60) DEF Sized

LEMMA SizedAdd ==
    ASSUME NEW S, NEW n \in Nat, Sized(S, n), NEW x, x \notin S
    PROVE  Sized(S \cup {x}, n + 1)
<1>1. PICK f \in [1..n -> S] : /\ \A i, j \in 1..n : f[i] = f[j] => i = j
                               /\ \A y \in S : \E i \in 1..n : f[i] = y
  BY DEF Sized
<1> DEFINE g == [i \in 1..(n + 1) |-> IF i = n + 1 THEN x ELSE f[i]]
<1>2. /\ n + 1 \in 1..(n + 1) /\ \A i \in 1..n : i \in 1..(n + 1) /\ i # n + 1
      /\ \A i \in 1..(n + 1) : i = n + 1 \/ i \in 1..n
  OBVIOUS
<1>3. g[n + 1] = x /\ \A i \in 1..n : g[i] = f[i] /\ f[i] \in S
  BY <1>2
<1>4. g \in [1..(n + 1) -> S \cup {x}]
  BY <1>2, <1>3
<1> HIDE DEF g
<1>5. \A i, j \in 1..(n + 1) : g[i] = g[j] => i = j
  BY <1>1, <1>2, <1>3, ZenonT(60)
<1>6. \A y \in S \cup {x} : \E i \in 1..(n + 1) : g[i] = y
  BY <1>1, <1>2, <1>3, ZenonT(60)
<1> QED BY <1>4, <1>5, <1>6, ZenonT(60) DEF Sized

LEMMA SizedRemove ==
    ASSUME NEW S, NEW n \in Nat, Sized(S, n), NEW x \in S
    PROVE  n >= 1 /\ n - 1 \in Nat /\ Sized(S \ {x}, n - 1)
<1>1. PICK f \in [1..n -> S] : /\ \A i, j \in 1..n : f[i] = f[j] => i = j
                               /\ \A y \in S : \E i \in 1..n : f[i] = y
  BY DEF Sized
<1>2. PICK k \in 1..n : f[k] = x
  BY <1>1
<1>3. n >= 1 /\ n - 1 \in Nat /\ n \in 1..n
  OBVIOUS
<1> DEFINE g == [i \in 1..(n - 1) |-> IF i = k THEN f[n] ELSE f[i]]
<1>4. /\ \A i \in 1..(n - 1) : i \in 1..n /\ i # n
      /\ \A i \in 1..n : i # n => i \in 1..(n - 1)
  OBVIOUS
<1>5. \A i \in 1..(n - 1) : /\ i = k => g[i] = f[n]
                            /\ i # k => g[i] = f[i]
  OBVIOUS
<1>6. \A i \in 1..n : f[i] \in S
  OBVIOUS
<1>7. \A i \in 1..(n - 1) : g[i] \in S \ {x}
  BY <1>1, <1>2, <1>3, <1>4, <1>5, <1>6
<1>8. g \in [1..(n - 1) -> S \ {x}]
  BY <1>7
<1> HIDE DEF g
<1>9. ASSUME NEW i \in 1..(n - 1), NEW j \in 1..(n - 1), g[i] = g[j] PROVE i = j
  <2>1. i \in 1..n /\ j \in 1..n /\ i # n /\ j # n
    BY <1>4
  <2>2. CASE i = k /\ j # k
    <3>1. f[n] = f[j]
      BY <1>5, <1>9, <2>2
    <3> QED BY <1>1, <1>3, <2>1, <3>1
  <2>3. CASE i # k /\ j = k
    <3>1. f[i] = f[n]
      BY <1>5, <1>9, <2>3
    <3> QED BY <1>1, <1>3, <2>1, <3>1
  <2>4. CASE i # k /\ j # k
    <3>1. f[i] = f[j]
      BY <1>5, <1>9, <2>4
    <3> QED BY <1>1, <2>1, <3>1
  <2> QED BY <2>2, <2>3, <2>4
<1>10. ASSUME NEW y \in S \ {x} PROVE \E i \in 1..(n - 1) : g[i] = y
  <2>1. PICK i \in 1..n : f[i] = y
    BY <1>1
  <2>2. i # k
    BY <1>2, <2>1
  <2>3. CASE i = n
    <3>1. k \in 1..(n - 1) /\ g[k] = y
      BY <1>4, <1>5, <2>1, <2>2, <2>3, ZenonT(60)
    <3> QED BY <3>1
  <2>4. CASE i # n
    <3>1. i \in 1..(n - 1) /\ g[i] = y
      BY <1>4, <1>5, <2>1, <2>2, <2>4, ZenonT(60)
    <3> QED BY <3>1
  <2> QED BY <2>3, <2>4
<1> QED BY <1>3, <1>8, <1>9, <1>10, ZenonT(60) DEF Sized

-----------------------------------------------------------------------------
(* What the channels need to know of the pushbuffer's state *)

Entries == [gpfifo : Gpfifos, off : Int, size : 1..MAX_PUSH]

Stages == {"none", "claiming", "checking", "failing", "failed", "claimed", "ongoing"}

PbShape ==
    /\ next_push_start \in [Chunks -> Int]
    /\ pending_gpfifos \in [Chunks -> Seq(Entries)]
    /\ stage \in [Pushes -> Stages]
    /\ chunk \in [Pushes -> Chunks \cup {NONE}]
    /\ begin \in [Pushes -> Int]
    /\ \A p \in Pushes : stage[p] \in {"claimed", "ongoing"} => chunk[p] \in Chunks

LEMMA PbShapeInit == PbInit => PbShape
<1> SUFFICES ASSUME PbInit PROVE PbShape
  OBVIOUS
<1>1. pending_gpfifos \in [Chunks -> Seq(Entries)]
  BY DEF PbInit
<1> QED BY <1>1 DEF PbInit, PbShape, Stages

LEMMA EntryRemove ==
    ASSUME NEW list \in Seq(Entries), NEW n \in 1..Len(list)
    PROVE  /\ list_del(list, n) \in Seq(Entries)
           /\ Len(list_del(list, n)) = Len(list) - 1
           /\ \A i \in 1..(Len(list) - 1) : list_del(list, n)[i] = list[At(n, i)]
  BY ListDelFacts, ZenonT(60)

LEMMA AppendIn ==
    ASSUME NEW S, NEW s \in Seq(S), NEW x \in S
    PROVE  Append(s, x) \in Seq(S)
  OBVIOUS

LEMMA StartType ==
    ASSUME NEW list \in Seq(Entries)
    PROVE  NextStart(list) \in Int
<1>1. CASE list = <<>>
  BY <1>1, SizesNat DEF NextStart, chunk_get_gpu_get, chunk_get_cpu_put
<1>2. CASE list # <<>>
  <2>1. 1 \in 1..Len(list) /\ Len(list) \in 1..Len(list)
    BY <1>2
  <2>2. list[1] \in Entries /\ list[Len(list)] \in Entries
    BY <2>1
  <2>3. chunk_get_gpu_get(list) \in Int
    BY <1>2, <2>2 DEF chunk_get_gpu_get, Entries
  <2>4. chunk_get_cpu_put(list) \in Int
    <3>1. list[Len(list)].off \in Int /\ list[Len(list)].size \in Int
      BY <2>2, SizesNat DEF Entries
    <3> QED BY <1>2, <3>1 DEF chunk_get_cpu_put, End
  <2> QED BY <2>3, <2>4, SizesNat DEF NextStart
<1> QED BY <1>1, <1>2

LEMMA UpdateShape ==
    ASSUME NEW ch \in Chunks, NEW list \in Seq(Entries), update_chunk(ch, list),
           next_push_start \in [Chunks -> Int]
    PROVE  next_push_start' \in [Chunks -> Int]
  BY StartType DEF update_chunk

LEMMA BeginShape ==
    ASSUME PbShape, NEW p \in Pushes, uvm_pushbuffer_begin_push(p)
    PROVE  PbShape'
<1> USE DEF chunkVars
<1>1. CASE BeginDown(p) \/ ClaimFails(p) \/ ClaimChecksErrors(p)
  <2>1. PICK to \in Stages \ {"claimed", "ongoing"} : stage' = [stage EXCEPT ![p] = to]
    BY <1>1 DEF BeginDown, ClaimFails, ClaimChecksErrors, Stages
  <2>2. UNCHANGED <<chunkVars, chunk, begin>>
    BY <1>1 DEF BeginDown, ClaimFails, ClaimChecksErrors
  <2> QED BY <2>1, <2>2 DEF PbShape
<1>2. CASE try_claim_chunk(p)
  <2>1. PICK ch \in Chunks : Claim(p, ch) /\ chunk' = [chunk EXCEPT ![p] = ch]
    BY <1>2, ZenonT(60) DEF try_claim_chunk
  <2>2. stage' = [stage EXCEPT ![p] = "claimed"] /\ begin' = begin
        /\ UNCHANGED <<next_push_start, pending_gpfifos>>
    BY <1>2, <2>1 DEF try_claim_chunk, Claim
  <2> QED BY <2>1, <2>2 DEF PbShape, Stages
<1>3. CASE ClaimAfterError(p)
  <2>1. stage' = [stage EXCEPT ![p] = "failed"] /\ begin' = begin
    BY <1>3 DEF ClaimAfterError
  <2>2. CASE HasSpace
    <3>1. PICK ch \in Chunks : Claim(p, ch) /\ chunk' = [chunk EXCEPT ![p] = ch]
      BY <1>3, <2>2, ZenonT(60) DEF ClaimAfterError
    <3>2. UNCHANGED <<next_push_start, pending_gpfifos>>
      BY <3>1 DEF Claim
    <3> QED BY <2>1, <3>1, <3>2 DEF PbShape, Stages
  <2>3. CASE ~HasSpace
    <3>1. UNCHANGED <<next_push_start, pending_gpfifos, chunk>>
      BY <1>3, <2>3 DEF ClaimAfterError
    <3> QED BY <2>1, <3>1 DEF PbShape, Stages
  <2> QED BY <2>2, <2>3
<1>4. CASE BeginFail(p)
  <2>1. /\ stage' = [stage EXCEPT ![p] = "none"] /\ chunk' = [chunk EXCEPT ![p] = NONE]
        /\ UNCHANGED <<next_push_start, pending_gpfifos, begin>>
    BY <1>4 DEF BeginFail
  <2> QED BY <2>1 DEF PbShape, Stages
<1>5. CASE BeginReadStart(p)
  <2>1. /\ stage[p] = "claimed" /\ begin' = [begin EXCEPT ![p] = next_push_start[chunk[p]]]
        /\ stage' = [stage EXCEPT ![p] = "ongoing"]
        /\ UNCHANGED <<next_push_start, pending_gpfifos, chunk>>
    BY <1>5 DEF BeginReadStart
  <2>2. next_push_start[chunk[p]] \in Int
    BY <2>1 DEF PbShape
  <2> QED BY <2>1, <2>2 DEF PbShape, Stages
<1> QED BY <1>1, <1>2, <1>3, <1>4, <1>5 DEF uvm_pushbuffer_begin_push

LEMMA PbShapeStep ==
    ASSUME PbShape, [PbErrorStep]_pbVars
    PROVE  PbShape'
<1>1. ASSUME NEW p \in Pushes, NEW g \in Gpfifos, NEW size \in 1..MAX_PUSH,
             uvm_pushbuffer_end_push(p, g, size)
      PROVE  PbShape'
  <2>1. stage[p] = "ongoing" /\ stage' = [stage EXCEPT ![p] = "none"]
        /\ chunk' = [chunk EXCEPT ![p] = NONE] /\ begin' = begin
    BY <1>1 DEF uvm_pushbuffer_end_push
  <2>2. PICK ch \in Chunks : ch = chunk[p]
    BY <2>1 DEF PbShape
  <2>3. PICK list \in Seq(Entries) : list = Append(pending_gpfifos[ch], Entry(p, g, size))
    <3>1. Entry(p, g, size) \in Entries
      BY DEF Entry, Entries, PbShape
    <3>2. pending_gpfifos[ch] \in Seq(Entries)
      BY DEF PbShape
    <3> QED BY <3>1, <3>2, AppendIn, ZenonT(60)
  <2>4. pending_gpfifos' = [pending_gpfifos EXCEPT ![ch] = list] /\ update_chunk(ch, list)
    BY <1>1, <2>2, <2>3 DEF uvm_pushbuffer_end_push
  <2>5. next_push_start' \in [Chunks -> Int]
    BY <2>4, UpdateShape DEF PbShape
  <2>6. pending_gpfifos' \in [Chunks -> Seq(Entries)]
    BY <2>4 DEF PbShape
  <2>7. stage' \in [Pushes -> Stages] /\ chunk' \in [Pushes -> Chunks \cup {NONE}]
    BY <2>1 DEF PbShape, Stages
  <2>8. \A q \in Pushes : stage'[q] \in {"claimed", "ongoing"} => chunk'[q] \in Chunks
    BY <2>1 DEF PbShape
  <2> QED BY <2>1, <2>5, <2>6, <2>7, <2>8, ZenonT(60) DEF PbShape
<1>2. ASSUME NEW ch \in Chunks, NEW n \in 1..Len(pending_gpfifos[ch]), MarkCompletedAt(ch, n)
      PROVE  PbShape'
  <2>1. pending_gpfifos[ch] \in Seq(Entries)
    BY DEF PbShape
  <2>2. PICK list \in Seq(Entries) : list = list_del(pending_gpfifos[ch], n)
    BY <2>1, EntryRemove, ZenonT(60)
  <2>3. pending_gpfifos' = [pending_gpfifos EXCEPT ![ch] = list] /\ UNCHANGED pushVars
    BY <1>2, <2>2 DEF MarkCompletedAt
  <2>4. next_push_start' \in [Chunks -> Int]
    BY <1>2, <2>2, UpdateShape DEF MarkCompletedAt, PbShape
  <2>5. pending_gpfifos' \in [Chunks -> Seq(Entries)]
    BY <2>3 DEF PbShape
  <2>6. stage' = stage /\ chunk' = chunk /\ begin' = begin
    BY <2>3 DEF pushVars
  <2> QED BY <2>4, <2>5, <2>6, ZenonT(60) DEF PbShape
<1>3. ASSUME NEW g \in Gpfifos, uvm_pushbuffer_mark_completed(g) PROVE PbShape'
  BY <1>2, <1>3 DEF uvm_pushbuffer_mark_completed
<1>4. CASE ChannelError
  BY <1>4 DEF ChannelError, chunkVars, pushVars, PbShape
<1>5. CASE UNCHANGED pbVars
  BY <1>5 DEF pbVars, chunkVars, pushVars, PbShape
<1> QED BY <1>1, <1>3, <1>4, <1>5, BeginShape DEF PbErrorStep, PbStep

-----------------------------------------------------------------------------
(* The invariant of the channels *)

Steps == {"idle", "reserving", "checking", "failing", "reserved", "open", "submitted"}

ChType ==
    /\ queued_value \in [Channels -> Nat] /\ completed_value \in [Channels -> Nat]
    /\ gpu_done \in [Channels -> Nat]
    /\ cpu_put \in [Channels -> Nat] /\ gpu_get \in [Channels -> Nat]
    /\ current_pushes_count \in [Channels -> Nat]
    /\ entry_value \in [Channels -> [Slots -> Nat]]
    /\ entry_info \in [Channels -> [Slots -> Nat]]
    /\ available_push_infos \in [Channels -> Seq(Nat)]
    /\ pool_lock \in [Pools -> Pushes \cup Updaters \cup {NONE}]
    /\ step \in [Pushes -> Steps] /\ wanted \in [Pushes -> SUBSET Channels]
    /\ push_channel \in [Pushes -> Channels \cup {NONE}]
    /\ push_info_index \in [Pushes -> Nat] /\ push_size \in [Pushes -> Nat]
    /\ destroyed \subseteq Channels
    /\ ustep \in [Updaters -> {"idle", "read", "loop"}]
    /\ umode \in [Updaters -> {"COMPLETED", "FORCE_ALL"}]
    /\ uchannel \in [Updaters -> Channels \cup {NONE}]
    /\ uvalue \in [Updaters -> Nat] /\ uget \in [Updaters -> Nat] /\ ucount \in [Updaters -> Nat]

Holding == {"reserved", "open", "submitted"}

\* A push has a channel from its reservation to its end, and the pool's lock while
\* it is being submitted.  Nobody pushes to a destroyed channel.
OwnerInv ==
    \A p \in Pushes :
        /\ push_channel[p] # NONE <=> step[p] \in Holding
        /\ stage[p] # "none" => step[p] \in Holding
        /\ step[p] \in {"open", "submitted"} => stage[p] = "ongoing"
        /\ step[p] = "submitted" => /\ pool_lock[PoolOf[push_channel[p]]] = p
                                    /\ push_size[p] \in 1..MAX_PUSH
        /\ push_channel[p] \notin destroyed /\ wanted[p] \cap destroyed = {}

\* What an update has read is not beyond the completed value.
UpdateInv ==
    \A u \in Updaters :
        /\ uchannel[u] = NONE <=> ustep[u] = "idle"
        /\ ustep[u] = "loop" => pool_lock[PoolOf[uchannel[u]]] = u
        /\ umode[u] = "FORCE_ALL" <=> uchannel[u] \in destroyed
        /\ uchannel[u] # NONE => uvalue[u] <= completed_value[uchannel[u]]

Submits(p, c) == push_channel[p] = c /\ step[p] = "submitted"
Frees(u, c) == uchannel[u] = c /\ ustep[u] = "loop"

(***************************************************************************)
(* The invariant counts, for each channel, the pushes that have ended (e), *)
(* those whose entries are free (g), and those whose entries the update    *)
(* under way has freed (f).  cpu_put, gpu_get and uget are these counts    *)
(* modulo the number of entries.  Counts, and not indices, say how the     *)
(* values of the semaphore, the entries and the reservations relate.       *)
(***************************************************************************)
Ordered(c, e, g, f) ==
    /\ g <= f /\ f <= e /\ e <= queued_value[c]
    /\ completed_value[c] <= gpu_done[c] /\ gpu_done[c] <= queued_value[c]
    /\ c \notin destroyed => f <= completed_value[c]
    /\ queued_value[c] + current_pushes_count[c] < g + num_gpfifo_entries
    /\ cpu_put[c] = SlotOf(e + 1) /\ gpu_get[c] = SlotOf(g + 1)

Submitting(c, e) ==
    /\ (\E p \in Pushes : Submits(p, c)) => queued_value[c] = e + 1
    /\ (\A p \in Pushes : ~Submits(p, c)) => queued_value[c] = e

Updating(c, e, g, f) ==
    /\ \A u \in Updaters : Frees(u, c) => uget[u] = SlotOf(f + 1) /\ ucount[u] = f - g
    /\ (\A u \in Updaters : ~Frees(u, c)) => f = g
    /\ c \in destroyed /\ (\A u \in Updaters : uchannel[u] # c) => f = e

\* The entries from f on hold their values, and those that have ended are pending.
Listed(c, e, f) ==
    /\ \A v \in Nat : f <= v /\ v < queued_value[c] => entry_value[c][SlotOf(v + 1)] = v + 1
    /\ \A i \in Slots : IsPending(<<c, i>>) <=> \E v \in Nat : f <= v /\ v < e /\ i = SlotOf(v + 1)

Reserved(c) == {p \in Pushes : push_channel[p] = c /\ step[p] = "reserved"}
Open(c) == {p \in Pushes : push_channel[p] = c /\ step[p] = "open"}

\* Reservations are counted; push infos are free, with an open push, or with an
\* entry from f on.
Counted(c, f) ==
    \E r, o \in Nat :
        /\ Sized(Reserved(c), r) /\ Sized(Open(c), o)
        /\ r + o <= current_pushes_count[c]
        /\ Len(available_push_infos[c]) + o + queued_value[c] = num_gpfifo_entries + f

\* No push info is in two places.
InfoOnce(c) ==
    /\ \A i, j \in 1..Len(available_push_infos[c]) :
          i # j => available_push_infos[c][i] # available_push_infos[c][j]
    /\ \A i \in 1..Len(available_push_infos[c]), j \in Slots :
          IsPending(<<c, j>>) => available_push_infos[c][i] # entry_info[c][j]
    /\ \A i \in 1..Len(available_push_infos[c]), p \in InfoHolders(c) :
          available_push_infos[c][i] # push_info_index[p]
    /\ \A p \in InfoHolders(c), j \in Slots :
          IsPending(<<c, j>>) => push_info_index[p] # entry_info[c][j]
    /\ \A p, q \in InfoHolders(c) : p # q => push_info_index[p] # push_info_index[q]
    /\ \A i, j \in Slots : IsPending(<<c, i>>) /\ IsPending(<<c, j>>) /\ i # j =>
          entry_info[c][i] # entry_info[c][j]
    /\ \A p \in Pushes : Submits(p, c) => entry_info[c][cpu_put[c]] = push_info_index[p]

CountInv(E, G, F) ==
    \A c \in Channels : /\ Ordered(c, E[c], G[c], F[c])
                        /\ Submitting(c, E[c])
                        /\ Updating(c, E[c], G[c], F[c])

ListInv(E, F) == \A c \in Channels : Listed(c, E[c], F[c])

LiveInv(F) == \A c \in Channels : Counted(c, F[c])

InfoInv == \A c \in Channels : InfoOnce(c)

\* No entry is in the pushbuffer's lists twice.
OnceInv ==
    \A ch, d \in Chunks : \A n \in 1..Len(pending_gpfifos[ch]), m \in 1..Len(pending_gpfifos[d]) :
        pending_gpfifos[ch][n].gpfifo = pending_gpfifos[d][m].gpfifo => ch = d /\ n = m

Counts == [Channels -> Nat]

StateInv == PbShape /\ OnceInv /\ ChType /\ OwnerInv /\ UpdateInv /\ InfoInv

CountsInv(E, G, F) == CountInv(E, G, F) /\ ListInv(E, F) /\ LiveInv(F)

ChInv == StateInv /\ \E E, G, F \in Counts : CountsInv(E, G, F)

-----------------------------------------------------------------------------

\* The invariant holds once channel_create has made the channels.
LEMMA ChInitInv == ChInit => ChInv
<1> SUFFICES ASSUME ChInit PROVE ChInv
  OBVIOUS
<1> DEFINE Z == [c \in Channels |-> 0]
<1>1. PbShape
  BY PbShapeInit DEF ChInit
<1>2. \A g : ~IsPending(g)
  BY DEF ChInit, PbInit, IsPending
<1>3. OnceInv
  BY DEF ChInit, PbInit, OnceInv
<1>4. \A c \in Channels : \A i \in 1..num_gpfifo_entries : available_push_infos[c][i] = i - 1
  BY DEF ChInit
<1>5. \A c \in Channels : /\ available_push_infos[c] \in Seq(Nat)
                          /\ Len(available_push_infos[c]) = num_gpfifo_entries
  <2> TAKE c \in Channels
  <2>1. available_push_infos[c] = [i \in 1..num_gpfifo_entries |-> i - 1]
    BY DEF ChInit
  <2>2. num_gpfifo_entries \in Nat /\ \A i \in 1..num_gpfifo_entries : i - 1 \in Nat
    BY ChannelConstants
  <2> QED BY <2>1, <2>2
<1>6. ChType
  <2>1. /\ queued_value \in [Channels -> Nat] /\ completed_value \in [Channels -> Nat]
        /\ gpu_done \in [Channels -> Nat]
        /\ cpu_put \in [Channels -> Nat] /\ gpu_get \in [Channels -> Nat]
        /\ current_pushes_count \in [Channels -> Nat]
        /\ entry_value \in [Channels -> [Slots -> Nat]]
        /\ entry_info \in [Channels -> [Slots -> Nat]]
        /\ pool_lock \in [Pools -> Pushes \cup Updaters \cup {NONE}]
    BY DEF ChInit
  <2>2. available_push_infos \in [Channels -> Seq(Nat)]
    BY <1>5 DEF ChInit
  <2>3. /\ step \in [Pushes -> Steps] /\ wanted \in [Pushes -> SUBSET Channels]
        /\ push_channel \in [Pushes -> Channels \cup {NONE}]
        /\ push_info_index \in [Pushes -> Nat] /\ push_size \in [Pushes -> Nat]
        /\ destroyed \subseteq Channels
    BY ChannelConstants DEF ChInit, Steps
  <2>4. /\ ustep \in [Updaters -> {"idle", "read", "loop"}]
        /\ umode \in [Updaters -> {"COMPLETED", "FORCE_ALL"}]
        /\ uchannel \in [Updaters -> Channels \cup {NONE}]
        /\ uvalue \in [Updaters -> Nat] /\ uget \in [Updaters -> Nat]
        /\ ucount \in [Updaters -> Nat]
    BY DEF ChInit
  <2> QED BY <2>1, <2>2, <2>3, <2>4 DEF ChType
<1>7. OwnerInv
  BY DEF ChInit, OwnerInv, PbInit, Holding
<1>8. UpdateInv
  BY DEF ChInit, UpdateInv
<1>9. ASSUME NEW c \in Channels
      PROVE  /\ Ordered(c, 0, 0, 0) /\ Submitting(c, 0) /\ Updating(c, 0, 0, 0)
             /\ Listed(c, 0, 0) /\ Counted(c, 0) /\ InfoOnce(c)
  <2>1. SlotOf(0 + 1) = 0
    <3>1. 0 = 0 * num_gpfifo_entries + 0 /\ 0 \in 0..(num_gpfifo_entries - 1)
          /\ num_gpfifo_entries \in Nat \ {0}
      BY ChannelConstants
    <3>2. (0 * num_gpfifo_entries + 0) % num_gpfifo_entries = 0
      BY <3>1, ModOf
    <3>3. 0 % num_gpfifo_entries = 0
      BY <3>1, <3>2, ZenonT(60)
    <3>4. SlotOf(0 + 1) = 0 % num_gpfifo_entries
      BY SlotType
    <3> QED BY <3>3, <3>4, ZenonT(60)
  <2>2. num_gpfifo_entries \in Nat \ {0, 1}
    BY ChannelConstants
  <2>3. Ordered(c, 0, 0, 0)
    BY <2>1, <2>2 DEF ChInit, Ordered
  <2>4. Submitting(c, 0) /\ Updating(c, 0, 0, 0)
    BY DEF ChInit, Submitting, Updating, Submits, Frees
  <2>5. Listed(c, 0, 0)
    BY <1>2 DEF ChInit, Listed
  <2>6. Reserved(c) = {} /\ Open(c) = {} /\ InfoHolders(c) = {}
    BY DEF ChInit, Reserved, Open, InfoHolders
  <2>7. Counted(c, 0)
    <3>1. Sized(Reserved(c), 0) /\ Sized(Open(c), 0)
      BY <2>6, SizedEmpty, ZenonT(60)
    <3>2. current_pushes_count[c] = 0 /\ queued_value[c] = 0
      BY DEF ChInit
    <3>3. Len(available_push_infos[c]) = num_gpfifo_entries
      BY <1>5
    <3>4. /\ 0 \in Nat /\ 0 + 0 <= current_pushes_count[c]
          /\ Len(available_push_infos[c]) + 0 + queued_value[c] = num_gpfifo_entries + 0
      BY <2>2, <3>2, <3>3
    <3> QED BY <3>1, <3>4, ZenonT(60) DEF Counted
  <2>8. InfoOnce(c)
    <3>1. Len(available_push_infos[c]) = num_gpfifo_entries
      BY <1>5
    <3>2. \A i, j \in 1..num_gpfifo_entries :
             i # j => available_push_infos[c][i] # available_push_infos[c][j]
      BY <1>4, <2>2
    <3>3. \A p \in Pushes : ~Submits(p, c)
      BY DEF ChInit, Submits
    <3> QED BY <1>2, <2>6, <3>1, <3>2, <3>3 DEF InfoOnce
  <2> QED BY <2>3, <2>4, <2>5, <2>7, <2>8
<1>10. Z \in Counts /\ \A c \in Channels : Z[c] = 0
  BY DEF Counts
<1>11. CountsInv(Z, Z, Z) /\ InfoInv
  <2> HIDE DEF Z
  <2> QED BY <1>9, <1>10 DEF CountsInv, CountInv, ListInv, LiveInv, InfoInv
<1> QED BY <1>1, <1>3, <1>6, <1>7, <1>8, <1>10, <1>11, ZenonT(60) DEF ChInv, StateInv

\* A step keeps the types when every variable is unchanged or has its type again.
LEMMA TypeKept ==
    ASSUME ChType,
           queued_value' = queued_value \/ queued_value' \in [Channels -> Nat],
           completed_value' = completed_value \/ completed_value' \in [Channels -> Nat],
           gpu_done' = gpu_done \/ gpu_done' \in [Channels -> Nat],
           cpu_put' = cpu_put \/ cpu_put' \in [Channels -> Nat],
           gpu_get' = gpu_get \/ gpu_get' \in [Channels -> Nat],
           current_pushes_count' = current_pushes_count
              \/ current_pushes_count' \in [Channels -> Nat],
           entry_value' = entry_value \/ entry_value' \in [Channels -> [Slots -> Nat]],
           entry_info' = entry_info \/ entry_info' \in [Channels -> [Slots -> Nat]],
           available_push_infos' = available_push_infos
              \/ available_push_infos' \in [Channels -> Seq(Nat)],
           pool_lock' = pool_lock \/ pool_lock' \in [Pools -> Pushes \cup Updaters \cup {NONE}],
           step' = step \/ step' \in [Pushes -> Steps],
           wanted' = wanted \/ wanted' \in [Pushes -> SUBSET Channels],
           push_channel' = push_channel \/ push_channel' \in [Pushes -> Channels \cup {NONE}],
           push_info_index' = push_info_index \/ push_info_index' \in [Pushes -> Nat],
           push_size' = push_size \/ push_size' \in [Pushes -> Nat],
           destroyed' = destroyed \/ destroyed' \subseteq Channels,
           ustep' = ustep \/ ustep' \in [Updaters -> {"idle", "read", "loop"}],
           umode' = umode \/ umode' \in [Updaters -> {"COMPLETED", "FORCE_ALL"}],
           uchannel' = uchannel \/ uchannel' \in [Updaters -> Channels \cup {NONE}],
           uvalue' = uvalue \/ uvalue' \in [Updaters -> Nat],
           uget' = uget \/ uget' \in [Updaters -> Nat],
           ucount' = ucount \/ ucount' \in [Updaters -> Nat]
    PROVE  ChType'
<1>1. queued_value' \in [Channels -> Nat]
  BY ZenonT(60) DEF ChType
<1>2. completed_value' \in [Channels -> Nat]
  BY ZenonT(60) DEF ChType
<1>3. gpu_done' \in [Channels -> Nat]
  BY ZenonT(60) DEF ChType
<1>4. cpu_put' \in [Channels -> Nat]
  BY ZenonT(60) DEF ChType
<1>5. gpu_get' \in [Channels -> Nat]
  BY ZenonT(60) DEF ChType
<1>6. current_pushes_count' \in [Channels -> Nat]
  BY ZenonT(60) DEF ChType
<1>7. entry_value' \in [Channels -> [Slots -> Nat]]
  BY ZenonT(60) DEF ChType
<1>8. entry_info' \in [Channels -> [Slots -> Nat]]
  BY ZenonT(60) DEF ChType
<1>9. available_push_infos' \in [Channels -> Seq(Nat)]
  BY ZenonT(60) DEF ChType
<1>10. pool_lock' \in [Pools -> Pushes \cup Updaters \cup {NONE}]
  BY ZenonT(60) DEF ChType
<1>11. step' \in [Pushes -> Steps]
  BY ZenonT(60) DEF ChType
<1>12. wanted' \in [Pushes -> SUBSET Channels]
  BY ZenonT(60) DEF ChType
<1>13. push_channel' \in [Pushes -> Channels \cup {NONE}]
  BY ZenonT(60) DEF ChType
<1>14. push_info_index' \in [Pushes -> Nat]
  BY ZenonT(60) DEF ChType
<1>15. push_size' \in [Pushes -> Nat]
  BY ZenonT(60) DEF ChType
<1>16. destroyed' \subseteq Channels
  BY ZenonT(60) DEF ChType
<1>17. ustep' \in [Updaters -> {"idle", "read", "loop"}]
  BY ZenonT(60) DEF ChType
<1>18. umode' \in [Updaters -> {"COMPLETED", "FORCE_ALL"}]
  BY ZenonT(60) DEF ChType
<1>19. uchannel' \in [Updaters -> Channels \cup {NONE}]
  BY ZenonT(60) DEF ChType
<1>20. uvalue' \in [Updaters -> Nat]
  BY ZenonT(60) DEF ChType
<1>21. uget' \in [Updaters -> Nat]
  BY ZenonT(60) DEF ChType
<1>22. ucount' \in [Updaters -> Nat]
  BY ZenonT(60) DEF ChType
<1> QED BY <1>1, <1>2, <1>3, <1>4, <1>5, <1>6, <1>7, <1>8, <1>9, <1>10,
          <1>11, <1>12, <1>13, <1>14, <1>15, <1>16, <1>17, <1>18, <1>19, <1>20, <1>21, <1>22, ZenonT(60) DEF ChType

-----------------------------------------------------------------------------
(* What the pushbuffer's operations do to the set of pending entries *)

LEMMA PendingKept ==
    ASSUME OnceInv, UNCHANGED pending_gpfifos
    PROVE  OnceInv' /\ \A x : IsPending(x)' <=> IsPending(x)
  BY DEF OnceInv, IsPending

LEMMA AppendFacts ==
    ASSUME NEW s \in Seq(Entries), NEW e \in Entries
    PROVE  /\ Len(s) \in Nat /\ Len(Append(s, e)) = Len(s) + 1
           /\ \A i \in 1..Len(s) : Append(s, e)[i] = s[i]
           /\ Append(s, e)[Len(s) + 1] = e
  OBVIOUS

\* The entry at position n of chunk ch
GpfifoAt(ch, n) == pending_gpfifos[ch][n].gpfifo
Positions(ch) == 1..Len(pending_gpfifos[ch])

LEMMA EndPends ==
    ASSUME PbShape, OnceInv, NEW p \in Pushes, NEW g \in Gpfifos, NEW size \in 1..MAX_PUSH,
           ~IsPending(g), uvm_pushbuffer_end_push(p, g, size)
    PROVE  OnceInv' /\ \A x : IsPending(x)' <=> (IsPending(x) \/ x = g)
<1>1. stage[p] = "ongoing"
  BY DEF uvm_pushbuffer_end_push
<1>2. PICK ch \in Chunks : ch = chunk[p]
  BY <1>1 DEF PbShape
<1>3. /\ pending_gpfifos[ch] \in Seq(Entries) /\ pending_gpfifos \in [Chunks -> Seq(Entries)]
      /\ begin[p] \in Int
  BY <1>2 DEF PbShape
<1>4. PICK s \in Seq(Entries) : s = pending_gpfifos[ch]
  BY <1>3
<1>5. PICK e \in Entries : e = Entry(p, g, size) /\ e.gpfifo = g
  <2>1. Entry(p, g, size) \in Entries
    BY <1>3 DEF Entry, Entries
  <2>2. Entry(p, g, size).gpfifo = g
    BY DEF Entry
  <2> QED BY <2>1, <2>2, ZenonT(60)
<1>6. /\ Len(s) \in Nat /\ Len(Append(s, e)) = Len(s) + 1
      /\ \A i \in 1..Len(s) : Append(s, e)[i] = s[i]
      /\ Append(s, e)[Len(s) + 1] = e
  BY AppendFacts, ZenonT(60)
<1>7. /\ pending_gpfifos'[ch] = Append(s, e)
      /\ \A d \in Chunks : d # ch => pending_gpfifos'[d] = pending_gpfifos[d]
  <2>1. pending_gpfifos' = [pending_gpfifos EXCEPT ![ch] = Append(s, e)]
    BY <1>2, <1>4, <1>5 DEF uvm_pushbuffer_end_push
  <2> QED BY <1>3, <2>1
<1>8. /\ Positions(ch)' = 1..(Len(s) + 1) /\ Positions(ch) = 1..Len(s)
      /\ GpfifoAt(ch, Len(s) + 1)' = g
  BY <1>4, <1>5, <1>6, <1>7, ZenonT(60) DEF Positions, GpfifoAt
<1>8a. \A i \in 1..Len(s) : GpfifoAt(ch, i)' = GpfifoAt(ch, i)
  BY <1>4, <1>6, <1>7, ZenonT(60) DEF GpfifoAt
<1>8b. \A d \in Chunks : d # ch => /\ Positions(d)' = Positions(d)
                                   /\ \A i : GpfifoAt(d, i)' = GpfifoAt(d, i)
  BY <1>7, ZenonT(60) DEF Positions, GpfifoAt
<1>9. \A d \in Chunks : \A i \in Positions(d) : GpfifoAt(d, i) # g
  BY DEF IsPending, Positions, GpfifoAt
<1>10. \A d1, d2 \in Chunks : \A n \in Positions(d1), m \in Positions(d2) :
          GpfifoAt(d1, n) = GpfifoAt(d2, m) => d1 = d2 /\ n = m
  BY DEF OnceInv, Positions, GpfifoAt
<1>11. /\ Len(s) + 1 \in 1..(Len(s) + 1)
       /\ \A i \in 1..(Len(s) + 1) : i \in 1..Len(s) \/ i = Len(s) + 1
       /\ \A i \in 1..Len(s) : i \in 1..(Len(s) + 1)
  BY <1>6
<1>a. ASSUME NEW d \in Chunks, NEW n \in Positions(d)'
      PROVE  \/ n \in Positions(d) /\ GpfifoAt(d, n)' = GpfifoAt(d, n)
             \/ d = ch /\ n = Len(s) + 1 /\ GpfifoAt(d, n)' = g
  <2>1. CASE d = ch
    <3>1. n \in 1..(Len(s) + 1)
      BY <1>8, <2>1, ZenonT(60)
    <3>2. n \in 1..Len(s) \/ n = Len(s) + 1
      BY <1>11, <3>1, ZenonT(60)
    <3> QED BY <1>8, <1>8a, <2>1, <3>2, ZenonT(60)
  <2>2. CASE d # ch
    BY <1>8b, <2>2, ZenonT(60)
  <2> QED BY <2>1, <2>2
<1>b. ASSUME NEW d \in Chunks, NEW n \in Positions(d)
      PROVE  n \in Positions(d)' /\ GpfifoAt(d, n)' = GpfifoAt(d, n)
  <2>1. CASE d = ch
    BY <1>8, <1>8a, <1>11, <2>1, ZenonT(60)
  <2>2. CASE d # ch
    BY <1>8b, <2>2, ZenonT(60)
  <2> QED BY <2>1, <2>2
<1>c. Len(s) + 1 \in Positions(ch)'
  BY <1>8, <1>11, ZenonT(60)
<1>12. \A d1, d2 \in Chunks : \A n \in Positions(d1)', m \in Positions(d2)' :
          GpfifoAt(d1, n)' = GpfifoAt(d2, m)' => d1 = d2 /\ n = m
  <2> TAKE d1, d2 \in Chunks
  <2> TAKE n \in Positions(d1)', m \in Positions(d2)'
  <2> HAVE GpfifoAt(d1, n)' = GpfifoAt(d2, m)'
  <2>1. \/ n \in Positions(d1) /\ GpfifoAt(d1, n)' = GpfifoAt(d1, n)
        \/ d1 = ch /\ n = Len(s) + 1 /\ GpfifoAt(d1, n)' = g
    BY <1>a, ZenonT(60)
  <2>2. \/ m \in Positions(d2) /\ GpfifoAt(d2, m)' = GpfifoAt(d2, m)
        \/ d2 = ch /\ m = Len(s) + 1 /\ GpfifoAt(d2, m)' = g
    BY <1>a, ZenonT(60)
  <2>3. CASE n \in Positions(d1) /\ GpfifoAt(d1, n)' = GpfifoAt(d1, n)
    <3>1. GpfifoAt(d2, m)' # g
      BY <1>9, <2>3, ZenonT(60)
    <3>2. m \in Positions(d2) /\ GpfifoAt(d1, n) = GpfifoAt(d2, m)
      BY <2>2, <2>3, <3>1, ZenonT(60)
    <3> QED BY <1>10, <2>3, <3>2, ZenonT(60)
  <2>4. CASE d1 = ch /\ n = Len(s) + 1 /\ GpfifoAt(d1, n)' = g
    <3>1. ~(m \in Positions(d2) /\ GpfifoAt(d2, m)' = GpfifoAt(d2, m))
      BY <1>9, <2>4, ZenonT(60)
    <3> QED BY <2>2, <2>4, <3>1, ZenonT(60)
  <2> QED BY <2>1, <2>3, <2>4
<1>13. ASSUME NEW x
       PROVE  (\E d \in Chunks : \E n \in Positions(d)' : GpfifoAt(d, n)' = x)
              <=> (\E d \in Chunks : \E n \in Positions(d) : GpfifoAt(d, n) = x) \/ x = g
  <2>1. ASSUME NEW d \in Chunks, NEW n \in Positions(d)', GpfifoAt(d, n)' = x
        PROVE  (\E d1 \in Chunks : \E n1 \in Positions(d1) : GpfifoAt(d1, n1) = x) \/ x = g
    BY <1>a, <2>1, ZenonT(60)
  <2>2. ASSUME NEW d \in Chunks, NEW n \in Positions(d), GpfifoAt(d, n) = x
        PROVE  n \in Positions(d)' /\ GpfifoAt(d, n)' = x
    BY <1>b, <2>2, ZenonT(60)
  <2>3. x = g => \E d \in Chunks : \E n \in Positions(d)' : GpfifoAt(d, n)' = x
    BY <1>2, <1>8, <1>c, ZenonT(60)
  <2> QED BY <2>1, <2>2, <2>3, ZenonT(60)
<1>14. OnceInv'
  BY <1>12, ZenonT(60) DEF OnceInv, Positions, GpfifoAt
<1> QED BY <1>13, <1>14, ZenonT(60) DEF IsPending, Positions, GpfifoAt

LEMMA MarkUnpends ==
    ASSUME PbShape, OnceInv, NEW g \in Gpfifos, uvm_pushbuffer_mark_completed(g)
    PROVE  /\ OnceInv' /\ IsPending(g)
           /\ \A x : IsPending(x)' <=> (IsPending(x) /\ x # g)
<1>a. PICK ch \in Chunks : \E k \in Positions(ch) : GpfifoAt(ch, k) = g /\ MarkCompletedAt(ch, k)
  BY ZenonT(60) DEF uvm_pushbuffer_mark_completed, GpfifoAt, Positions
<1>1. PICK k \in Positions(ch) : GpfifoAt(ch, k) = g /\ MarkCompletedAt(ch, k)
  BY <1>a
<1> DEFINE s == pending_gpfifos[ch]
<1>2. s \in Seq(Entries) /\ pending_gpfifos \in [Chunks -> Seq(Entries)] /\ k \in 1..Len(s)
  BY DEF PbShape, Positions
<1>3. pending_gpfifos' = [pending_gpfifos EXCEPT ![ch] = list_del(s, k)]
  BY <1>1 DEF MarkCompletedAt
<1>4. /\ Len(list_del(s, k)) = Len(s) - 1
      /\ \A i \in 1..(Len(s) - 1) : list_del(s, k)[i] = s[At(k, i)]
  BY <1>2, EntryRemove, ZenonT(60)
<1>5. Len(s) \in Nat
  BY <1>2, LenInNat
<1>6. /\ pending_gpfifos'[ch] = list_del(s, k)
      /\ \A d \in Chunks : d # ch => pending_gpfifos'[d] = pending_gpfifos[d]
  BY <1>2, <1>3
<1>7. /\ Positions(ch)' = 1..(Len(s) - 1) /\ Positions(ch) = 1..Len(s)
      /\ \A i \in 1..(Len(s) - 1) : GpfifoAt(ch, i)' = GpfifoAt(ch, At(k, i))
      /\ \A d \in Chunks : d # ch => /\ Positions(d)' = Positions(d)
                                     /\ \A i : GpfifoAt(d, i)' = GpfifoAt(d, i)
  BY <1>4, <1>6 DEF Positions, GpfifoAt
<1> HIDE DEF s
<1>8. /\ \A i \in 1..(Len(s) - 1) : At(k, i) \in 1..Len(s) /\ At(k, i) # k
      /\ \A i, j \in 1..(Len(s) - 1) : At(k, i) = At(k, j) => i = j
      /\ \A j \in 1..Len(s) : j # k => \E i \in 1..(Len(s) - 1) : At(k, i) = j
  <2>1. /\ \A i \in 1..(Len(s) - 1) : At(k, i) \in 1..Len(s) /\ At(k, i) # k
        /\ \A i, j \in 1..(Len(s) - 1) : At(k, i) = At(k, j) => i = j
    BY <1>2, <1>5 DEF At
  <2>2. ASSUME NEW j \in 1..Len(s), j # k PROVE \E i \in 1..(Len(s) - 1) : At(k, i) = j
    <3>1. CASE j < k
      <4>1. j \in 1..(Len(s) - 1) /\ At(k, j) = j
        BY <1>2, <1>5, <3>1 DEF At
      <4> QED BY <4>1
    <3>2. CASE j > k
      <4>1. j - 1 \in 1..(Len(s) - 1) /\ At(k, j - 1) = j
        BY <1>2, <1>5, <3>2 DEF At
      <4> QED BY <4>1
    <3> QED BY <1>2, <1>5, <2>2, <3>1, <3>2
  <2> QED BY <2>1, <2>2
<1>9. \A d1, d2 \in Chunks : \A n \in Positions(d1), m \in Positions(d2) :
          GpfifoAt(d1, n) = GpfifoAt(d2, m) => d1 = d2 /\ n = m
  BY DEF OnceInv, Positions, GpfifoAt
\* Every position afterwards was one before, other than k in ch.
<1> DEFINE Was(d, n) == IF d = ch THEN At(k, n) ELSE n
<1>10. ASSUME NEW d \in Chunks, NEW n \in Positions(d)'
       PROVE  /\ Was(d, n) \in Positions(d) /\ GpfifoAt(d, n)' = GpfifoAt(d, Was(d, n))
              /\ ~(d = ch /\ Was(d, n) = k)
  BY <1>7, <1>8
<1>11. ASSUME NEW d \in Chunks, NEW n \in Positions(d)', NEW m \in Positions(d)', Was(d, n) = Was(d, m)
       PROVE  n = m
  BY <1>7, <1>8, <1>11
<1>12. ASSUME NEW d \in Chunks, NEW m \in Positions(d), ~(d = ch /\ m = k)
       PROVE  \E n \in Positions(d)' : Was(d, n) = m
  <2>1. CASE d = ch
    BY <1>7, <1>8, <1>12, <2>1
  <2>2. CASE d # ch
    <3>1. m \in Positions(d)' /\ Was(d, m) = m
      BY <1>7, <2>2
    <3> QED BY <3>1
  <2> QED BY <2>1, <2>2
<1> HIDE DEF Was
<1>13. \A d1, d2 \in Chunks : \A n \in Positions(d1)', m \in Positions(d2)' :
          GpfifoAt(d1, n)' = GpfifoAt(d2, m)' => d1 = d2 /\ n = m
  <2> TAKE d1, d2 \in Chunks
  <2> TAKE n \in Positions(d1)', m \in Positions(d2)'
  <2> HAVE GpfifoAt(d1, n)' = GpfifoAt(d2, m)'
  <2>1. Was(d1, n) \in Positions(d1) /\ GpfifoAt(d1, n)' = GpfifoAt(d1, Was(d1, n))
    BY <1>10
  <2>2. Was(d2, m) \in Positions(d2) /\ GpfifoAt(d2, m)' = GpfifoAt(d2, Was(d2, m))
    BY <1>10
  <2>3. GpfifoAt(d1, Was(d1, n)) = GpfifoAt(d2, Was(d2, m))
    BY <2>1, <2>2, ZenonT(60)
  <2>4. d1 = d2 /\ Was(d1, n) = Was(d2, m)
    BY <1>9, <2>1, <2>2, <2>3
  <2> QED BY <1>11, <2>4
<1>14. OnceInv'
  BY <1>13, ZenonT(60) DEF OnceInv, Positions, GpfifoAt
<1>15. ASSUME NEW x
       PROVE  (\E d \in Chunks : \E n \in Positions(d)' : GpfifoAt(d, n)' = x)
              <=> (\E d \in Chunks : \E n \in Positions(d) : GpfifoAt(d, n) = x) /\ x # g
  <2>1. ASSUME NEW d \in Chunks, NEW n \in Positions(d)', GpfifoAt(d, n)' = x
        PROVE  (\E d1 \in Chunks : \E n1 \in Positions(d1) : GpfifoAt(d1, n1) = x) /\ x # g
    <3>1. /\ Was(d, n) \in Positions(d) /\ GpfifoAt(d, Was(d, n)) = x
          /\ ~(d = ch /\ Was(d, n) = k)
      BY <1>10, <2>1
    <3>2. x # g
      BY <1>1, <1>9, <3>1
    <3> QED BY <3>1, <3>2
  <2>2. ASSUME NEW d \in Chunks, NEW m \in Positions(d), GpfifoAt(d, m) = x, x # g
        PROVE  \E n \in Positions(d)' : GpfifoAt(d, n)' = x
    <3>1. ~(d = ch /\ m = k)
      BY <1>1, <2>2
    <3>2. PICK n \in Positions(d)' : Was(d, n) = m
      BY <1>12, <3>1
    <3>3. GpfifoAt(d, n)' = GpfifoAt(d, Was(d, n))
      BY <1>10
    <3> QED BY <2>2, <3>2, <3>3
  <2> QED BY <2>1, <2>2, ZenonT(60)
<1>16. IsPending(g)
  BY <1>1, ZenonT(60) DEF IsPending, Positions, GpfifoAt
<1> QED BY <1>14, <1>15, <1>16, ZenonT(60) DEF IsPending, Positions, GpfifoAt

-----------------------------------------------------------------------------
(* Reserving a channel *)

\* The pushes that use a channel, as the invariant sees them
SameUsers(c) ==
    /\ Reserved(c)' = Reserved(c) /\ Open(c)' = Open(c) /\ InfoHolders(c)' = InfoHolders(c)
    /\ \A q \in Pushes : Submits(q, c)' <=> Submits(q, c)

LEMMA UsersKept ==
    ASSUME ChType, NEW p \in Pushes, step[p] \notin Holding, NEW to \in Steps, to \notin Holding,
           step' = [step EXCEPT ![p] = to], UNCHANGED push_channel, NEW c \in Channels
    PROVE  SameUsers(c)
<1>1. \A q \in Pushes : \A s \in Holding : step'[q] = s <=> step[q] = s
  BY DEF ChType, Holding
<1> QED BY <1>1 DEF SameUsers, Reserved, Open, InfoHolders, Submits, Holding

LEMMA UnlockedIdle ==
    ASSUME ChType, OwnerInv, UpdateInv, NEW c \in Channels, ~Locked(c)
    PROVE  /\ \A p \in Pushes : ~Submits(p, c)
           /\ \A u \in Updaters : ~Frees(u, c)
<1>1. NONE \notin Pushes \cup Updaters
  BY NoneIsNull, ChannelConstants
<1> QED BY <1>1 DEF OwnerInv, UpdateInv, Locked, Submits, Frees

\* What the counts are when the pool's lock is free
LEMMA UnlockedCounts ==
    ASSUME ChType, OwnerInv, UpdateInv, NEW c \in Channels, ~Locked(c),
           NEW E \in Counts, NEW G \in Counts, NEW F \in Counts, CountInv(E, G, F)
    PROVE  queued_value[c] = E[c] /\ F[c] = G[c]
<1>1. Submitting(c, E[c]) /\ Updating(c, E[c], G[c], F[c])
  BY DEF CountInv
<1> QED BY <1>1, UnlockedIdle DEF Submitting, Updating

LEMMA ClaimRoom ==
    ASSUME ChType, OwnerInv, UpdateInv, NEW c \in Channels, ~Locked(c), channel_is_available(c),
           NEW E \in Counts, NEW G \in Counts, NEW F \in Counts, CountInv(E, G, F)
    PROVE  queued_value[c] + current_pushes_count[c] + 1 < G[c] + num_gpfifo_entries
<1>1. queued_value[c] = E[c]
  BY UnlockedCounts
<1>2. Ordered(c, E[c], G[c], F[c])
  BY DEF CountInv
<1>3. E[c] \in Nat /\ G[c] \in Nat /\ current_pushes_count[c] \in Nat
  BY DEF Counts, ChType
<1>4. /\ cpu_put[c] = SlotOf(E[c] + 1) /\ gpu_get[c] = SlotOf(G[c] + 1)
      /\ E[c] + current_pushes_count[c] < G[c] + num_gpfifo_entries
  BY <1>1, <1>2 DEF Ordered
<1>5. E[c] + current_pushes_count[c] + 1 < G[c] + num_gpfifo_entries
  BY <1>3, <1>4, SlotRoom
<1> QED BY <1>1, <1>5

\* A step that only counts one more push of a channel, or none
Claims(c) == /\ ~Locked(c) /\ channel_is_available(c) /\ ClaimedOn(c)

reserveFrame == <<pbVars, semaphoreVars, cpu_put, gpu_get, entry_value, entry_info,
                  available_push_infos, pool_lock, push_info_index, push_size, updateVars>>

LEMMA Reserving ==
    ASSUME ChInv, NEW p \in Pushes, step[p] \notin Holding, NEW to \in Steps, to \notin Holding,
           NEW S \in SUBSET Channels, S \cap destroyed = {},
           step' = [step EXCEPT ![p] = to], wanted' = [wanted EXCEPT ![p] = S],
           UNCHANGED push_channel, UNCHANGED reserveFrame,
           UNCHANGED current_pushes_count \/ \E c \in Channels : Claims(c)
    PROVE  ChInv' /\ UNCHANGED pbVars
<1> USE DEF reserveFrame, pbVars, chunkVars, pushVars, semaphoreVars, updateVars
<1>1. ChType /\ OwnerInv /\ UpdateInv /\ InfoInv /\ OnceInv
  BY DEF ChInv, StateInv
<1>2. PICK E, G, F \in Counts : CountsInv(E, G, F)
  BY DEF ChInv
<1>3. \A c \in Channels : SameUsers(c)
  BY <1>1, UsersKept, ZenonT(60)
<1>4. OnceInv' /\ \A x : IsPending(x)' <=> IsPending(x)
  BY <1>1, PendingKept
<1>5. /\ current_pushes_count' \in [Channels -> Nat]
      /\ \A c \in Channels :
            /\ current_pushes_count'[c] >= current_pushes_count[c]
            /\ queued_value[c] + current_pushes_count'[c] < G[c] + num_gpfifo_entries
  <2>1. \A c \in Channels : /\ queued_value[c] \in Nat /\ current_pushes_count[c] \in Nat
                            /\ queued_value[c] + current_pushes_count[c] < G[c] + num_gpfifo_entries
    BY <1>1, <1>2 DEF ChType, CountsInv, CountInv, Ordered
  <2>2. CASE UNCHANGED current_pushes_count
    BY <1>1, <2>1, <2>2 DEF ChType
  <2>3. ASSUME NEW c \in Channels, Claims(c)
        PROVE  /\ current_pushes_count' \in [Channels -> Nat]
               /\ \A d \in Channels :
                     /\ current_pushes_count'[d] >= current_pushes_count[d]
                     /\ queued_value[d] + current_pushes_count'[d] < G[d] + num_gpfifo_entries
    <3>1. queued_value[c] + current_pushes_count[c] + 1 < G[c] + num_gpfifo_entries
      BY <1>1, <1>2, <2>3, ClaimRoom DEF Claims, CountsInv
    <3>2. current_pushes_count' = [current_pushes_count EXCEPT ![c] = @ + 1]
      BY <2>3 DEF Claims, ClaimedOn
    <3>3. current_pushes_count \in [Channels -> Nat]
      BY <1>1 DEF ChType
    <3>4. /\ current_pushes_count' \in [Channels -> Nat]
          /\ current_pushes_count'[c] = current_pushes_count[c] + 1
          /\ \A d \in Channels : d # c => current_pushes_count'[d] = current_pushes_count[d]
      BY <3>2, <3>3
    <3>5. \A d \in Channels : queued_value[d] \in Nat /\ G[d] \in Nat /\ num_gpfifo_entries \in Nat
      BY <1>1, ChannelConstants DEF ChType, Counts
    <3>6. ASSUME NEW d \in Channels
          PROVE  /\ current_pushes_count'[d] >= current_pushes_count[d]
                 /\ queued_value[d] + current_pushes_count'[d] < G[d] + num_gpfifo_entries
      <4>1. CASE d = c
        BY <2>1, <3>1, <3>4, <3>5, <4>1
      <4>2. CASE d # c
        BY <2>1, <3>4, <4>2
      <4> QED BY <4>1, <4>2
    <3> QED BY <3>4, <3>6, ZenonT(60)
  <2> QED BY <2>2, <2>3
<1>6. ChType'
  BY <1>1, <1>5 DEF ChType
<1>7. OwnerInv'
  <2>1. /\ step'[p] = to /\ wanted'[p] = S
        /\ \A q \in Pushes : q # p => step'[q] = step[q] /\ wanted'[q] = wanted[q]
    BY <1>1 DEF ChType
  <2>2. to # "open" /\ to # "submitted"
    BY DEF Holding
  <2> QED BY <1>1, <2>1, <2>2 DEF OwnerInv
<1>8. UpdateInv'
  BY <1>1 DEF UpdateInv
<1>9. ASSUME NEW c \in Channels
      PROVE  /\ Ordered(c, E[c], G[c], F[c])' /\ Submitting(c, E[c])'
             /\ Updating(c, E[c], G[c], F[c])' /\ Listed(c, E[c], F[c])'
             /\ Counted(c, F[c])' /\ InfoOnce(c)'
  <2>1. /\ Ordered(c, E[c], G[c], F[c]) /\ Submitting(c, E[c])
        /\ Updating(c, E[c], G[c], F[c]) /\ Listed(c, E[c], F[c])
        /\ Counted(c, F[c]) /\ InfoOnce(c) /\ SameUsers(c)
    BY <1>1, <1>2, <1>3 DEF CountsInv, CountInv, ListInv, LiveInv, InfoInv
  <2>2. Ordered(c, E[c], G[c], F[c])'
    BY <1>5, <2>1 DEF Ordered
  <2>3. Submitting(c, E[c])'
    BY <2>1 DEF Submitting, SameUsers
  <2>4. Updating(c, E[c], G[c], F[c])'
    BY <2>1 DEF Updating, Frees
  <2>5. Listed(c, E[c], F[c])'
    BY <1>4, <2>1 DEF Listed
  <2>6. Counted(c, F[c])'
    <3>1. PICK r, o \in Nat :
             /\ Sized(Reserved(c), r) /\ Sized(Open(c), o) /\ r + o <= current_pushes_count[c]
             /\ Len(available_push_infos[c]) + o + queued_value[c] = num_gpfifo_entries + F[c]
      BY <2>1 DEF Counted
    <3>2. r + o <= current_pushes_count'[c]
      BY <1>1, <1>5, <3>1 DEF ChType
    <3>3. Sized(Reserved(c)', r) /\ Sized(Open(c)', o)
      BY <2>1, <3>1, ZenonT(60) DEF SameUsers
    <3>4. UNCHANGED <<available_push_infos, queued_value>>
      OBVIOUS
    <3> QED BY <3>1, <3>2, <3>3, <3>4, ZenonT(60) DEF Counted
  <2>7. InfoOnce(c)'
    BY <1>4, <2>1 DEF InfoOnce, SameUsers
  <2> QED BY <2>2, <2>3, <2>4, <2>5, <2>6, <2>7
<1>10. CountsInv(E, G, F)' /\ InfoInv'
  BY <1>9 DEF CountsInv, CountInv, ListInv, LiveInv, InfoInv
<1>11. PbShape'
  BY PbShapeStep DEF ChInv, StateInv
<1> QED BY <1>4, <1>6, <1>7, <1>8, <1>10, <1>11 DEF ChInv, StateInv

\* A push gets its channel.
LEMMA TryClaims ==
    ASSUME ChInv, NEW p \in Pushes, NEW c \in Channels, try_claim_channel(p, c)
    PROVE  ChInv' /\ UNCHANGED pbVars
<1>1. /\ step[p] = "reserving" /\ c \in wanted[p] /\ ~Locked(c) /\ channel_is_available(c)
      /\ current_pushes_count' = [current_pushes_count EXCEPT ![c] = @ + 1]
      /\ push_channel' = [push_channel EXCEPT ![p] = c]
      /\ step' = [step EXCEPT ![p] = "reserved"]
      /\ UNCHANGED wanted /\ UNCHANGED reserveFrame
  BY DEF try_claim_channel, ClaimedOn, claimFrame, reserveFrame
<1> USE DEF reserveFrame, pbVars, chunkVars, pushVars, semaphoreVars, updateVars
<1>2. ChType /\ OwnerInv /\ UpdateInv /\ InfoInv /\ OnceInv
  BY DEF ChInv, StateInv
<1>3. PICK E, G, F \in Counts : CountsInv(E, G, F)
  BY DEF ChInv
<1>4. OnceInv' /\ \A x : IsPending(x)' <=> IsPending(x)
  BY <1>1, <1>2, PendingKept
<1>5a. push_channel[p] = NONE
  BY <1>1, <1>2 DEF OwnerInv, Holding
<1>5. /\ step'[p] = "reserved" /\ push_channel'[p] = c /\ push_channel[p] = NONE
      /\ \A q \in Pushes : q # p => step'[q] = step[q] /\ push_channel'[q] = push_channel[q]
      /\ current_pushes_count'[c] = current_pushes_count[c] + 1
      /\ \A d \in Channels : d # c => current_pushes_count'[d] = current_pushes_count[d]
  BY <1>1, <1>2, <1>5a DEF ChType
<1>6. c # NONE /\ NONE \notin Channels
  BY ChannelConstants
<1>7. ChType'
  BY <1>1, <1>2 DEF ChType, Steps
<1>8. OwnerInv'
  <2>1. c \notin destroyed
    BY <1>1, <1>2 DEF OwnerInv
  <2> QED BY <1>1, <1>2, <1>5, <1>6, <2>1 DEF OwnerInv, Holding
<1>9. UpdateInv'
  BY <1>1, <1>2 DEF UpdateInv
<1>10. /\ Reserved(c)' = Reserved(c) \cup {p} /\ p \notin Reserved(c)
       /\ \A d \in Channels : d # c => Reserved(d)' = Reserved(d)
  BY <1>1, <1>5, <1>6 DEF Reserved
<1>11. \A d \in Channels : /\ Open(d)' = Open(d) /\ InfoHolders(d)' = InfoHolders(d)
                           /\ \A q \in Pushes : Submits(q, d)' <=> Submits(q, d)
  BY <1>1, <1>5 DEF Open, InfoHolders, Submits
<1>12. queued_value[c] + current_pushes_count[c] + 1 < G[c] + num_gpfifo_entries
  BY <1>1, <1>2, <1>3, ClaimRoom DEF CountsInv
<1>13. ASSUME NEW d \in Channels
       PROVE  /\ Ordered(d, E[d], G[d], F[d])' /\ Submitting(d, E[d])'
              /\ Updating(d, E[d], G[d], F[d])' /\ Listed(d, E[d], F[d])'
              /\ Counted(d, F[d])' /\ InfoOnce(d)'
  <2>1. /\ Ordered(d, E[d], G[d], F[d]) /\ Submitting(d, E[d])
        /\ Updating(d, E[d], G[d], F[d]) /\ Listed(d, E[d], F[d])
        /\ Counted(d, F[d]) /\ InfoOnce(d)
    BY <1>2, <1>3 DEF CountsInv, CountInv, ListInv, LiveInv, InfoInv
  <2>2. /\ queued_value[d] \in Nat /\ current_pushes_count[d] \in Nat /\ G[d] \in Nat
        /\ num_gpfifo_entries \in Nat
    BY <1>2, ChannelConstants DEF ChType, Counts
  <2>3. Ordered(d, E[d], G[d], F[d])'
    <3>1. queued_value[d] + current_pushes_count'[d] < G[d] + num_gpfifo_entries
      <4>1. CASE d = c
        BY <1>5, <1>12, <2>2, <4>1
      <4>2. CASE d # c
        BY <1>5, <2>1, <4>2 DEF Ordered
      <4> QED BY <4>1, <4>2
    <3> QED BY <1>1, <2>1, <3>1 DEF Ordered
  <2>4. Submitting(d, E[d])'
    BY <1>1, <1>11, <2>1 DEF Submitting
  <2>5. Updating(d, E[d], G[d], F[d])'
    BY <1>1, <2>1 DEF Updating, Frees
  <2>6. Listed(d, E[d], F[d])'
    BY <1>1, <1>4, <2>1 DEF Listed
  <2>7. Counted(d, F[d])'
    <3>1. Open(d)' = Open(d)
      BY <1>11
    <3>2. PICK r, o \in Nat :
             /\ Sized(Reserved(d), r) /\ Sized(Open(d), o) /\ r + o <= current_pushes_count[d]
             /\ Len(available_push_infos[d]) + o + queued_value[d] = num_gpfifo_entries + F[d]
      BY <2>1 DEF Counted
    <3>3. UNCHANGED <<available_push_infos, queued_value>>
      BY <1>1
    <3>4. CASE d = c
      <4>1. Sized(Reserved(c)', r + 1)
        BY <1>10, <3>2, <3>4, SizedAdd
      <4>2. current_pushes_count[c] \in Nat
        BY <1>2 DEF ChType
      <4>3. r + 1 \in Nat /\ (r + 1) + o <= current_pushes_count'[c]
        BY <1>5, <3>2, <3>4, <4>2
      <4> QED BY <3>1, <3>2, <3>3, <3>4, <4>1, <4>3, ZenonT(60) DEF Counted
    <3>5. CASE d # c
      BY <1>5, <1>10, <3>1, <3>2, <3>3, <3>5, ZenonT(60) DEF Counted
    <3> QED BY <3>4, <3>5
  <2>8. InfoOnce(d)'
    BY <1>1, <1>4, <1>11, <2>1 DEF InfoOnce
  <2> QED BY <2>3, <2>4, <2>5, <2>6, <2>7, <2>8
<1>14. CountsInv(E, G, F)' /\ InfoInv'
  BY <1>13 DEF CountsInv, CountInv, ListInv, LiveInv, InfoInv
<1>15. PbShape'
  BY <1>1, PbShapeStep DEF ChInv, StateInv
<1> QED BY <1>1, <1>4, <1>7, <1>8, <1>9, <1>14, <1>15 DEF ChInv, StateInv

-----------------------------------------------------------------------------
(* Beginning a push *)

\* Steps of the pushbuffer that leave the pending entries alone, and a push that
\* has not begun in the channel.
LEMMA BeginStep ==
    ASSUME NEW p \in Pushes, uvm_pushbuffer_begin_push(p), stage \in [Pushes -> Stages]
    PROVE  /\ PbErrorStep /\ UNCHANGED pending_gpfifos
           /\ \A q \in Pushes : q # p => stage'[q] = stage[q]
<1>1. PbErrorStep
  BY DEF PbErrorStep, PbStep
<1> USE DEF chunkVars
<1>2. CASE BeginDown(p)
  BY <1>1, <1>2 DEF BeginDown
<1>3. CASE try_claim_chunk(p)
  BY <1>1, <1>3 DEF try_claim_chunk, Claim
<1>4. CASE ClaimFails(p)
  BY <1>1, <1>4 DEF ClaimFails
<1>5. CASE ClaimChecksErrors(p)
  BY <1>1, <1>5 DEF ClaimChecksErrors
<1>6. CASE ClaimAfterError(p)
  BY <1>1, <1>6 DEF ClaimAfterError, Claim
<1>7. CASE BeginFail(p)
  BY <1>1, <1>7 DEF BeginFail
<1>8. CASE BeginReadStart(p)
  BY <1>1, <1>8 DEF BeginReadStart
<1> QED BY <1>2, <1>3, <1>4, <1>5, <1>6, <1>7, <1>8 DEF uvm_pushbuffer_begin_push

\* Everything of the channels but who owns what
channelFrame == <<semaphoreVars, fifoVars, pool_lock, updateVars>>

LEMMA FrameKept ==
    ASSUME ChInv, UNCHANGED channelFrame, UNCHANGED <<pending_gpfifos, push_info_index>>,
           ChType', OwnerInv',
           \A c \in Channels : SameUsers(c), [PbErrorStep]_pbVars
    PROVE  ChInv'
<1> USE DEF channelFrame, semaphoreVars, fifoVars, updateVars
<1>2. ChType /\ OwnerInv /\ UpdateInv /\ InfoInv /\ OnceInv
  BY DEF ChInv, StateInv
<1>3. PICK E, G, F \in Counts : CountsInv(E, G, F)
  BY DEF ChInv
<1>4. OnceInv' /\ \A x : IsPending(x)' <=> IsPending(x)
  BY <1>2, PendingKept
<1>5. UpdateInv'
  BY <1>2 DEF UpdateInv
<1>13. ASSUME NEW d \in Channels
       PROVE  /\ Ordered(d, E[d], G[d], F[d])' /\ Submitting(d, E[d])'
              /\ Updating(d, E[d], G[d], F[d])' /\ Listed(d, E[d], F[d])'
              /\ Counted(d, F[d])' /\ InfoOnce(d)'
  <2>1. /\ Ordered(d, E[d], G[d], F[d]) /\ Submitting(d, E[d])
        /\ Updating(d, E[d], G[d], F[d]) /\ Listed(d, E[d], F[d])
        /\ Counted(d, F[d]) /\ InfoOnce(d) /\ SameUsers(d)
    BY <1>2, <1>3 DEF CountsInv, CountInv, ListInv, LiveInv, InfoInv
  <2>2. Ordered(d, E[d], G[d], F[d])'
    BY <2>1 DEF Ordered
  <2>3. Submitting(d, E[d])' /\ Counted(d, F[d])'
    BY <2>1 DEF Submitting, Counted, SameUsers
  <2>4. Updating(d, E[d], G[d], F[d])'
    BY <2>1 DEF Updating, Frees
  <2>5. Listed(d, E[d], F[d])'
    BY <1>4, <2>1 DEF Listed
  <2>6. InfoOnce(d)'
    BY <1>4, <2>1 DEF InfoOnce, SameUsers
  <2> QED BY <2>2, <2>3, <2>4, <2>5, <2>6
<1>14. CountsInv(E, G, F)' /\ InfoInv'
  BY <1>13 DEF CountsInv, CountInv, ListInv, LiveInv, InfoInv
<1>15. PbShape'
  BY PbShapeStep DEF ChInv, StateInv
<1> QED BY <1>4, <1>5, <1>14, <1>15 DEF ChInv, StateInv

LEMMA Begins ==
    ASSUME ChInv, NEW p \in Pushes, BeginInPushbuffer(p)
    PROVE  ChInv' /\ PbErrorStep
<1>1. /\ step[p] = "reserved" /\ uvm_pushbuffer_begin_push(p)
      /\ UNCHANGED <<channelFrame, ownerVars>>
  BY DEF BeginInPushbuffer, channelFrame
<1>3. ChType /\ OwnerInv /\ stage \in [Pushes -> Stages]
  BY DEF ChInv, StateInv, PbShape
<1>2. PbErrorStep /\ UNCHANGED pending_gpfifos
  BY <1>1, <1>3, BeginStep
<1>4. \A q \in Pushes : q # p => stage'[q] = stage[q]
  BY <1>1, <1>3, BeginStep
<1> USE DEF channelFrame, ownerVars, semaphoreVars, fifoVars, updateVars
<1>5. ChType'
  BY <1>1, <1>3 DEF ChType
<1>6. OwnerInv'
  BY <1>1, <1>3, <1>4 DEF OwnerInv, Holding
<1>7. \A c \in Channels : SameUsers(c)
  BY <1>1 DEF SameUsers, Reserved, Open, InfoHolders, Submits
<1>8. UNCHANGED channelFrame /\ UNCHANGED <<pending_gpfifos, push_info_index>>
  BY <1>1, <1>2
<1> HIDE DEF channelFrame, ownerVars, semaphoreVars, fifoVars, updateVars
<1> QED BY <1>2, <1>5, <1>6, <1>7, <1>8, FrameKept

LEMMA Errs ==
    ASSUME ChInv, ChannelError, UNCHANGED <<channelFrame, ownerVars>>
    PROVE  ChInv' /\ PbErrorStep
<1>1. PbErrorStep /\ UNCHANGED <<pending_gpfifos, stage>>
  BY DEF ChannelError, PbErrorStep, chunkVars, pushVars
<1>2. ChType /\ OwnerInv
  BY DEF ChInv, StateInv
<1> USE DEF channelFrame, ownerVars, semaphoreVars, fifoVars, updateVars
<1>3. ChType' /\ OwnerInv'
  BY <1>1, <1>2 DEF ChType, OwnerInv
<1>4. \A c \in Channels : SameUsers(c)
  BY DEF SameUsers, Reserved, Open, InfoHolders, Submits
<1>5. UNCHANGED channelFrame /\ UNCHANGED <<pending_gpfifos, push_info_index>>
  BY <1>1
<1> HIDE DEF channelFrame, ownerVars, semaphoreVars, fifoVars, updateVars
<1> QED BY <1>1, <1>3, <1>4, <1>5, FrameKept

\* begin_push returns an error: the push gives its channel up.
LEMMA BeginErrs ==
    ASSUME ChInv, NEW p \in Pushes, BeginPushFails(p)
    PROVE  ChInv' /\ PbErrorStep
<1>1. /\ BeginFail(p)
      /\ step' = [step EXCEPT ![p] = "idle"] /\ wanted' = [wanted EXCEPT ![p] = {}]
      /\ push_channel' = [push_channel EXCEPT ![p] = NONE]
      /\ UNCHANGED channelFrame /\ UNCHANGED <<push_info_index, push_size>>
  BY DEF BeginPushFails, channelFrame
<1>2. ChType /\ OwnerInv /\ UpdateInv /\ InfoInv /\ OnceInv /\ stage \in [Pushes -> Stages]
  BY DEF ChInv, StateInv, PbShape
<1>3. PICK E, G, F \in Counts : CountsInv(E, G, F)
  BY DEF ChInv
<1>a. uvm_pushbuffer_begin_push(p)
  BY <1>1 DEF uvm_pushbuffer_begin_push
<1>4. /\ PbErrorStep /\ UNCHANGED pending_gpfifos
      /\ \A q \in Pushes : q # p => stage'[q] = stage[q]
  BY <1>2, <1>a, BeginStep
<1>5. stage[p] = "failed" /\ stage'[p] = "none" /\ step[p] = "reserved"
  BY <1>1, <1>2 DEF BeginFail, OwnerInv, Holding
<1>6. /\ step'[p] = "idle" /\ push_channel'[p] = NONE /\ wanted'[p] = {}
      /\ \A q \in Pushes : q # p => /\ step'[q] = step[q] /\ push_channel'[q] = push_channel[q]
                                    /\ wanted'[q] = wanted[q]
  BY <1>1, <1>2 DEF ChType
<1>7. NONE \notin Channels
  BY ChannelConstants
<1>8. PICK c \in Channels : push_channel[p] = c
  <2>1. push_channel[p] # NONE
    BY <1>2, <1>5 DEF OwnerInv, Holding
  <2> QED BY <1>2, <2>1 DEF ChType
<1>9. OnceInv' /\ \A x : IsPending(x)' <=> IsPending(x)
  BY <1>2, <1>4, PendingKept
<1> USE DEF channelFrame, semaphoreVars, fifoVars, updateVars
<1>10. ChType'
  BY <1>1, <1>2 DEF ChType, Steps
<1>11. OwnerInv'
  <2>1. destroyed' = destroyed /\ destroyed \subseteq Channels
    BY <1>1, <1>2 DEF ChType
  <2> QED BY <1>1, <1>2, <1>4, <1>5, <1>6, <1>7, <2>1 DEF OwnerInv, Holding
<1>12. UpdateInv'
  BY <1>1, <1>2 DEF UpdateInv
<1>13. /\ Reserved(c)' = Reserved(c) \ {p} /\ p \in Reserved(c)
       /\ \A d \in Channels : d # c => Reserved(d)' = Reserved(d)
  BY <1>5, <1>6, <1>7, <1>8 DEF Reserved
<1>14. \A d \in Channels : /\ Open(d)' = Open(d) /\ InfoHolders(d)' = InfoHolders(d)
                           /\ \A q \in Pushes : Submits(q, d)' <=> Submits(q, d)
  BY <1>5, <1>6, <1>7 DEF Open, InfoHolders, Submits
<1>15. ASSUME NEW d \in Channels
       PROVE  /\ Ordered(d, E[d], G[d], F[d])' /\ Submitting(d, E[d])'
              /\ Updating(d, E[d], G[d], F[d])' /\ Listed(d, E[d], F[d])'
              /\ Counted(d, F[d])' /\ InfoOnce(d)'
  <2>1. /\ Ordered(d, E[d], G[d], F[d]) /\ Submitting(d, E[d])
        /\ Updating(d, E[d], G[d], F[d]) /\ Listed(d, E[d], F[d])
        /\ Counted(d, F[d]) /\ InfoOnce(d)
    BY <1>2, <1>3 DEF CountsInv, CountInv, ListInv, LiveInv, InfoInv
  <2>2. Ordered(d, E[d], G[d], F[d])'
    BY <1>1, <2>1 DEF Ordered
  <2>3. Submitting(d, E[d])'
    BY <1>1, <1>14, <2>1 DEF Submitting
  <2>4. Updating(d, E[d], G[d], F[d])'
    BY <1>1, <2>1 DEF Updating, Frees
  <2>5. Listed(d, E[d], F[d])'
    BY <1>1, <1>9, <2>1 DEF Listed
  <2>6. Counted(d, F[d])'
    <3>1. Open(d)' = Open(d)
      BY <1>14
    <3>2. PICK r, o \in Nat :
             /\ Sized(Reserved(d), r) /\ Sized(Open(d), o) /\ r + o <= current_pushes_count[d]
             /\ Len(available_push_infos[d]) + o + queued_value[d] = num_gpfifo_entries + F[d]
      BY <2>1 DEF Counted
    <3>3. UNCHANGED <<available_push_infos, queued_value, current_pushes_count>>
      BY <1>1
    <3>4. PICK t \in Nat : Sized(Reserved(d)', t) /\ t <= r
      <4>1. CASE p \in Reserved(d)
        <5>a. d = c
          BY <1>8, <4>1 DEF Reserved
        <5>1. Reserved(d)' = Reserved(d) \ {p}
          BY <1>13, <5>a
        <5>2. r - 1 \in Nat /\ Sized(Reserved(d) \ {p}, r - 1)
          BY <3>2, <4>1, SizedRemove, ZenonT(60)
        <5> QED BY <5>1, <5>2
      <4>2. CASE p \notin Reserved(d)
        <5>1. d # c
          BY <1>13, <4>2
        <5>2. Reserved(d)' = Reserved(d)
          BY <1>13, <5>1
        <5> QED BY <3>2, <5>2
      <4> QED BY <4>1, <4>2
    <3>5. t + o <= current_pushes_count[d]
      <4>1. current_pushes_count[d] \in Nat
        BY <1>2 DEF ChType
      <4> QED BY <3>2, <3>4, <4>1
    <3> QED BY <3>1, <3>2, <3>3, <3>4, <3>5, ZenonT(60) DEF Counted
  <2>7. InfoOnce(d)'
    BY <1>1, <1>9, <1>14, <2>1 DEF InfoOnce
  <2> QED BY <2>2, <2>3, <2>4, <2>5, <2>6, <2>7
<1>16. CountsInv(E, G, F)' /\ InfoInv'
  BY <1>15 DEF CountsInv, CountInv, ListInv, LiveInv, InfoInv
<1>17. PbShape'
  BY <1>4, PbShapeStep DEF ChInv, StateInv
<1> QED BY <1>4, <1>9, <1>10, <1>11, <1>12, <1>16, <1>17 DEF ChInv, StateInv

\* A push that has reserved the channel finds a push info.
LEMMA InfoAvailable ==
    ASSUME ChType, NEW c \in Channels, NEW p \in Reserved(c),
           NEW e \in Nat, NEW g \in Nat, NEW f \in Nat, Ordered(c, e, g, f), Counted(c, f)
    PROVE  Len(available_push_infos[c]) >= 1
<1>1. PICK r, o \in Nat :
         /\ Sized(Reserved(c), r) /\ Sized(Open(c), o) /\ r + o <= current_pushes_count[c]
         /\ Len(available_push_infos[c]) + o + queued_value[c] = num_gpfifo_entries + f
  BY DEF Counted
<1>2. r >= 1
  BY <1>1, SizedRemove, ZenonT(60)
<1>3. /\ available_push_infos[c] \in Seq(Nat) /\ queued_value[c] \in Nat
      /\ current_pushes_count[c] \in Nat /\ num_gpfifo_entries \in Nat
  BY ChannelConstants DEF ChType
<1>4. Len(available_push_infos[c]) \in Nat
  BY <1>3
<1>6. g <= f /\ queued_value[c] + current_pushes_count[c] < g + num_gpfifo_entries
  BY DEF Ordered
<1> QED BY <1>1, <1>2, <1>3, <1>4, <1>6

\* A push takes its push info.
LEMMA Takes ==
    ASSUME ChInv, NEW p \in Pushes, TakePushInfo(p)
    PROVE  ChInv' /\ UNCHANGED pbVars
<1>1. ChType /\ OwnerInv /\ UpdateInv /\ InfoInv /\ OnceInv
  BY DEF ChInv, StateInv
<1>2. step[p] = "reserved" /\ stage[p] = "ongoing"
  BY DEF TakePushInfo
<1>3. PICK c \in Channels : push_channel[p] = c
  <2>1. push_channel[p] # NONE
    BY <1>1, <1>2 DEF OwnerInv, Holding
  <2> QED BY <1>1, <2>1 DEF ChType
<1> DEFINE s == available_push_infos[c]
<1>4. s \in Seq(Nat) /\ s = available_push_infos[c]
  BY <1>1 DEF ChType
<1> HIDE DEF s
<1>5. /\ push_info_index' = [push_info_index EXCEPT ![p] = Head(s)]
      /\ available_push_infos' = [available_push_infos EXCEPT ![c] = Tail(s)]
      /\ step' = [step EXCEPT ![p] = "open"]
      /\ UNCHANGED <<pbVars, semaphoreVars, cpu_put, gpu_get, current_pushes_count,
                     entry_value, entry_info, pool_lock, wanted,
                     push_channel, push_size, updateVars>>
  BY <1>3, <1>4 DEF TakePushInfo
<1>6. PICK E, G, F \in Counts : CountsInv(E, G, F)
  BY DEF ChInv
<1>7. p \in Reserved(c)
  BY <1>2, <1>3 DEF Reserved
<1>8. Len(s) \in Nat /\ Len(s) >= 1
  <2>1. Ordered(c, E[c], G[c], F[c]) /\ Counted(c, F[c]) /\ E[c] \in Nat /\ G[c] \in Nat /\ F[c] \in Nat
    BY <1>6 DEF CountsInv, CountInv, LiveInv, Counts
  <2>2. Len(available_push_infos[c]) >= 1
    BY <1>1, <1>7, <2>1, InfoAvailable
  <2> QED BY <1>4, <2>2
<1>9. /\ Head(s) = s[1] /\ Head(s) \in Nat /\ Tail(s) \in Seq(Nat) /\ Len(Tail(s)) = Len(s) - 1
      /\ \A i \in 1..(Len(s) - 1) : Tail(s)[i] = s[i + 1] /\ i + 1 \in 1..Len(s) /\ i + 1 # 1
      /\ 1 \in 1..Len(s)
  BY <1>4, <1>8
<1>10. /\ step'[p] = "open" /\ push_info_index'[p] = s[1]
       /\ \A q \in Pushes : q # p => step'[q] = step[q] /\ push_info_index'[q] = push_info_index[q]
       /\ available_push_infos'[c] = Tail(s)
       /\ \A d \in Channels : d # c => available_push_infos'[d] = available_push_infos[d]
  BY <1>1, <1>5, <1>9 DEF ChType
<1> USE DEF pbVars, chunkVars, pushVars, semaphoreVars, updateVars
<1>11. OnceInv' /\ \A x : IsPending(x)' <=> IsPending(x)
  BY <1>1, <1>5, PendingKept
<1>12. ChType'
  <2>1. step' \in [Pushes -> Steps] /\ push_info_index' \in [Pushes -> Nat]
    BY <1>1, <1>5, <1>9 DEF ChType, Steps
  <2>2. available_push_infos' \in [Channels -> Seq(Nat)]
    BY <1>1, <1>5, <1>9 DEF ChType
  <2>3. UNCHANGED <<queued_value, completed_value, gpu_done, cpu_put, gpu_get,
                    current_pushes_count, entry_value, entry_info, pool_lock>>
    BY <1>5
  <2>4. UNCHANGED <<wanted, push_channel, push_size, destroyed, ustep, umode, uchannel, uvalue,
                    uget, ucount>>
    BY <1>5
  <2> QED BY <1>1, <2>1, <2>2, <2>3, <2>4, TypeKept
<1>13. OwnerInv'
  BY <1>1, <1>2, <1>5, <1>10 DEF OwnerInv, Holding
<1>14. UpdateInv'
  BY <1>1, <1>5 DEF UpdateInv
<1>15. /\ Reserved(c)' = Reserved(c) \ {p} /\ Open(c)' = Open(c) \cup {p} /\ p \notin Open(c)
       /\ InfoHolders(c)' = InfoHolders(c) \cup {p} /\ p \notin InfoHolders(c)
  BY <1>2, <1>3, <1>5, <1>10 DEF Reserved, Open, InfoHolders
<1>16. \A d \in Channels : d # c =>
          /\ Reserved(d)' = Reserved(d) /\ Open(d)' = Open(d) /\ InfoHolders(d)' = InfoHolders(d)
          /\ p \notin InfoHolders(d)
  BY <1>3, <1>5, <1>10 DEF Reserved, Open, InfoHolders
<1>17. \A d \in Channels : \A q \in Pushes : Submits(q, d)' <=> Submits(q, d)
  BY <1>2, <1>5, <1>10 DEF Submits
<1>18. ASSUME NEW d \in Channels
       PROVE  /\ Ordered(d, E[d], G[d], F[d])' /\ Submitting(d, E[d])'
              /\ Updating(d, E[d], G[d], F[d])' /\ Listed(d, E[d], F[d])'
  <2>1. /\ Ordered(d, E[d], G[d], F[d]) /\ Submitting(d, E[d])
        /\ Updating(d, E[d], G[d], F[d]) /\ Listed(d, E[d], F[d])
    BY <1>6 DEF CountsInv, CountInv, ListInv
  <2>2. Ordered(d, E[d], G[d], F[d])'
    BY <1>5, <2>1 DEF Ordered
  <2>3. Submitting(d, E[d])'
    BY <1>5, <1>17, <2>1 DEF Submitting
  <2>4. Updating(d, E[d], G[d], F[d])'
    BY <1>5, <2>1 DEF Updating, Frees
  <2>5. Listed(d, E[d], F[d])'
    BY <1>5, <1>11, <2>1 DEF Listed
  <2> QED BY <2>2, <2>3, <2>4, <2>5
<1>19. ASSUME NEW d \in Channels PROVE Counted(d, F[d])'
  <2>1. Counted(d, F[d])
    BY <1>6 DEF CountsInv, LiveInv
  <2>2. CASE d # c
    BY <1>5, <1>10, <1>16, <2>1, <2>2 DEF Counted
  <2>3. CASE d = c
    <3>1. PICK r, o \in Nat :
             /\ Sized(Reserved(c), r) /\ Sized(Open(c), o) /\ r + o <= current_pushes_count[c]
             /\ Len(available_push_infos[c]) + o + queued_value[c] = num_gpfifo_entries + F[c]
      BY <2>1, <2>3 DEF Counted
    <3>2. r - 1 \in Nat /\ Sized(Reserved(c) \ {p}, r - 1)
      BY <1>7, <3>1, SizedRemove, ZenonT(60)
    <3>3. Sized(Open(c) \cup {p}, o + 1)
      BY <1>15, <3>1, SizedAdd
    <3>4. /\ current_pushes_count[c] \in Nat /\ queued_value[c] \in Nat /\ o + 1 \in Nat
      BY <1>1 DEF ChType
    <3>6. /\ (r - 1) + (o + 1) <= current_pushes_count[c]
          /\ (Len(s) - 1) + (o + 1) + queued_value[c] = num_gpfifo_entries + F[c]
      <4>1. PICK n, q, k, N, f \in Nat : /\ n = Len(s) /\ q = queued_value[c]
                                         /\ k = current_pushes_count[c]
                                         /\ N = num_gpfifo_entries /\ f = F[c]
        <5>1. Len(s) \in Nat /\ num_gpfifo_entries \in Nat /\ F[c] \in Nat
          BY ChannelConstants DEF Counts
        <5> QED BY <3>4, <5>1
      <4>2. r + o <= k /\ n + o + q = N + f
        BY <1>4, <3>1, <4>1, ZenonT(60)
      <4>3. (r - 1) + (o + 1) <= k /\ (n - 1) + (o + 1) + q = N + f
        BY <4>2
      <4> QED BY <4>1, <4>3, ZenonT(60)
    <3>7. Sized(Reserved(c)', r - 1) /\ Sized(Open(c)', o + 1)
      BY <1>15, <3>2, <3>3, ZenonT(60)
    <3>8. Len(available_push_infos'[c]) = Len(s) - 1
      BY <1>9, <1>10, ZenonT(60)
    <3>a. UNCHANGED <<current_pushes_count, queued_value>>
      BY <1>5
    <3>9. Counted(c, F[c])'
      BY <3>2, <3>4, <3>6, <3>7, <3>8, <3>a, ZenonT(60) DEF Counted
    <3> QED BY <2>3, <3>9
  <2> QED BY <2>2, <2>3
<1>20. ASSUME NEW d \in Channels PROVE InfoOnce(d)'
  <2>1. InfoOnce(d)
    BY <1>1 DEF InfoInv
  <2>a. \A q \in Pushes : Submits(q, d) => q # p
    BY <1>2 DEF Submits
  <2>2. CASE d # c
    <3>1. \A q \in InfoHolders(d) : push_info_index'[q] = push_info_index[q] /\ q \in Pushes
      BY <1>10, <1>16, <2>2 DEF InfoHolders
    <3>2. /\ InfoHolders(d)' = InfoHolders(d) /\ available_push_infos'[d] = available_push_infos[d]
          /\ UNCHANGED <<entry_info, cpu_put>>
      BY <1>5, <1>10, <1>16, <2>2
    <3> QED BY <1>10, <1>11, <1>17, <2>1, <2>a, <3>1, <3>2 DEF InfoOnce
  <2>3. CASE d = c
    <3>1. \A q \in InfoHolders(c) : push_info_index'[q] = push_info_index[q] /\ q \in Pushes
      BY <1>10, <1>15 DEF InfoHolders
    <3>2. /\ \A i, j \in 1..Len(s) : i # j => s[i] # s[j]
          /\ \A i \in 1..Len(s), j \in Slots : IsPending(<<c, j>>) => s[i] # entry_info[c][j]
          /\ \A i \in 1..Len(s), q \in InfoHolders(c) : s[i] # push_info_index[q]
          /\ \A q \in InfoHolders(c), j \in Slots :
                IsPending(<<c, j>>) => push_info_index[q] # entry_info[c][j]
          /\ \A q, r \in InfoHolders(c) : q # r => push_info_index[q] # push_info_index[r]
          /\ \A i, j \in Slots : IsPending(<<c, i>>) /\ IsPending(<<c, j>>) /\ i # j =>
                entry_info[c][i] # entry_info[c][j]
          /\ \A q \in Pushes : Submits(q, c) => entry_info[c][cpu_put[c]] = push_info_index[q]
      <4>1. InfoOnce(c)
        BY <2>1, <2>3
      <4> QED BY <4>1, ZenonT(60) DEF InfoOnce, s
    <3>3. UNCHANGED <<entry_info, cpu_put>>
      BY <1>5
    <3>4. /\ available_push_infos'[c] = Tail(s) /\ Len(available_push_infos'[c]) = Len(s) - 1
          /\ InfoHolders(c)' = InfoHolders(c) \cup {p}
      BY <1>9, <1>10, <1>15
    <3>5. \A i, j \in 1..(Len(s) - 1) : i # j => Tail(s)[i] # Tail(s)[j]
      <4>1. \A i, j \in 1..(Len(s) - 1) : i # j => i + 1 # j + 1
        BY <1>8
      <4> QED BY <1>9, <3>2, <4>1
    <3>6. \A i \in 1..(Len(s) - 1), j \in Slots : IsPending(<<c, j>>) => Tail(s)[i] # entry_info[c][j]
      BY <1>9, <3>2
    <3>7. \A i \in 1..(Len(s) - 1), q \in InfoHolders(c) \cup {p} : Tail(s)[i] # push_info_index'[q]
      <4> TAKE i \in 1..(Len(s) - 1), q \in InfoHolders(c) \cup {p}
      <4>1. Tail(s)[i] = s[i + 1] /\ i + 1 \in 1..Len(s) /\ i + 1 # 1 /\ 1 \in 1..Len(s)
        BY <1>9
      <4>2. CASE q = p
        <5>1. s[i + 1] # s[1]
          BY <3>2, <4>1
        <5> QED BY <1>10, <4>1, <4>2, <5>1
      <4>3. CASE q \in InfoHolders(c)
        <5>1. s[i + 1] # push_info_index[q]
          BY <3>2, <4>1, <4>3
        <5> QED BY <3>1, <4>1, <4>3, <5>1
      <4> QED BY <4>2, <4>3
    <3>8. \A q \in InfoHolders(c) \cup {p}, j \in Slots :
             IsPending(<<c, j>>) => push_info_index'[q] # entry_info[c][j]
      BY <1>9, <1>10, <3>1, <3>2
    <3>9. \A q, r \in InfoHolders(c) \cup {p} : q # r => push_info_index'[q] # push_info_index'[r]
      BY <1>9, <1>10, <3>1, <3>2
    <3>10. \A q \in Pushes : Submits(q, c) => entry_info[c][cpu_put[c]] = push_info_index'[q]
      BY <1>10, <2>3, <2>a, <3>2
    <3> QED BY <1>11, <1>17, <2>3, <3>2, <3>3, <3>4, <3>5, <3>6, <3>7, <3>8, <3>9, <3>10 DEF InfoOnce
  <2> QED BY <2>2, <2>3
<1>21. CountsInv(E, G, F)' /\ InfoInv'
  BY <1>18, <1>19, <1>20 DEF CountsInv, CountInv, ListInv, LiveInv, InfoInv
<1>22. PbShape'
  BY <1>5, PbShapeStep DEF ChInv, StateInv
<1> QED BY <1>5, <1>11, <1>12, <1>13, <1>14, <1>21, <1>22 DEF ChInv, StateInv

-----------------------------------------------------------------------------
(* Ending a push *)

\* The entry at cpu_put is free, whoever has the lock.
LEMMA PutFree ==
    ASSUME ChType, NEW c \in Channels, NEW e \in Nat, NEW g \in Nat, NEW f \in Nat,
           Ordered(c, e, g, f), Listed(c, e, f)
    PROVE  /\ cpu_put[c] \in Slots /\ ~IsPending(<<c, cpu_put[c]>>)
           /\ \A v \in Nat : f <= v /\ v < e => SlotOf(v + 1) # cpu_put[c]
<1>1. cpu_put[c] = SlotOf(e + 1)
  BY DEF Ordered
<1>2. cpu_put[c] \in Slots
  BY <1>1, SlotType, ZenonT(60)
<1>3. num_gpfifo_entries \in Nat /\ e < f + num_gpfifo_entries
  BY ChannelConstants DEF Ordered, ChType
<1>4. ASSUME NEW v \in Nat, f <= v, v < e PROVE SlotOf(v + 1) # cpu_put[c]
  <2>1. v < e + num_gpfifo_entries /\ e < v + num_gpfifo_entries /\ v # e
    BY <1>3, <1>4
  <2>2. SlotOf(v + 1) # SlotOf(e + 1)
    BY <2>1, SlotApart, ZenonT(60)
  <2> QED BY <1>1, <2>2, ZenonT(60)
<1>5. ~IsPending(<<c, cpu_put[c]>>)
  <2> SUFFICES ASSUME IsPending(<<c, cpu_put[c]>>) PROVE FALSE
    OBVIOUS
  <2>1. PICK v \in Nat : f <= v /\ v < e /\ cpu_put[c] = SlotOf(v + 1)
    BY <1>2 DEF Listed
  <2> QED BY <1>4, <2>1
<1> QED BY <1>2, <1>4, <1>5

\* Who has a pool's lock
LEMMA LockTaken ==
    ASSUME ChType, OwnerInv, UpdateInv, NEW c \in Channels, ~Locked(c), NEW x,
           pool_lock' = [pool_lock EXCEPT ![PoolOf[c]] = x]
    PROVE  /\ PoolOf[c] \in Pools /\ pool_lock'[PoolOf[c]] = x
           /\ \A q \in Pushes : step[q] = "submitted" => pool_lock'[PoolOf[push_channel[q]]] = q
           /\ \A u \in Updaters : ustep[u] = "loop" => pool_lock'[PoolOf[uchannel[u]]] = u
<1>1. NONE \notin Pushes \cup Updaters
  BY NoneIsNull, ChannelConstants
<1>2. PoolOf[c] \in Pools /\ pool_lock[PoolOf[c]] = NONE
  BY DEF Pools, Locked
<1>3. /\ pool_lock'[PoolOf[c]] = x
      /\ \A k \in Pools : k # PoolOf[c] => pool_lock'[k] = pool_lock[k]
  BY <1>2 DEF ChType
<1>4. ASSUME NEW q \in Pushes, step[q] = "submitted" PROVE pool_lock'[PoolOf[push_channel[q]]] = q
  <2>1. pool_lock[PoolOf[push_channel[q]]] = q /\ push_channel[q] # NONE
    BY <1>4 DEF OwnerInv, Holding
  <2>2. PoolOf[push_channel[q]] \in Pools
    BY <2>1 DEF ChType, Pools
  <2> QED BY <1>1, <1>2, <1>3, <2>1, <2>2
<1>5. ASSUME NEW u \in Updaters, ustep[u] = "loop" PROVE pool_lock'[PoolOf[uchannel[u]]] = u
  <2>1. pool_lock[PoolOf[uchannel[u]]] = u /\ uchannel[u] # NONE
    BY <1>5 DEF UpdateInv
  <2>2. PoolOf[uchannel[u]] \in Pools
    BY <2>1 DEF ChType, Pools
  <2> QED BY <1>1, <1>2, <1>3, <2>1, <2>2
<1> QED BY <1>2, <1>3, <1>4, <1>5

LEMMA LockDroppedPush ==
    ASSUME ChType, OwnerInv, NEW c \in Channels, pool_lock' = [pool_lock EXCEPT ![PoolOf[c]] = NONE],
           NEW q \in Pushes, step[q] = "submitted", pool_lock[PoolOf[c]] # q
    PROVE  pool_lock'[PoolOf[push_channel[q]]] = q /\ PoolOf[push_channel[q]] # PoolOf[c]
<1>1. PoolOf[c] \in Pools
  BY DEF Pools
<1>2. \A k \in Pools : k # PoolOf[c] => pool_lock'[k] = pool_lock[k]
  BY <1>1 DEF ChType
<1>3. pool_lock[PoolOf[push_channel[q]]] = q /\ push_channel[q] # NONE
  BY DEF OwnerInv, Holding
<1>4. push_channel[q] \in Channels
  BY <1>3 DEF ChType
<1>5. PoolOf[push_channel[q]] \in Pools
  BY <1>4 DEF Pools
<1> QED BY <1>1, <1>2, <1>3, <1>5

LEMMA LockDroppedUpdate ==
    ASSUME ChType, UpdateInv, NEW c \in Channels, pool_lock' = [pool_lock EXCEPT ![PoolOf[c]] = NONE],
           NEW u \in Updaters, ustep[u] = "loop", pool_lock[PoolOf[c]] # u
    PROVE  pool_lock'[PoolOf[uchannel[u]]] = u /\ PoolOf[uchannel[u]] # PoolOf[c]
<1>1. PoolOf[c] \in Pools
  BY DEF Pools
<1>2. \A k \in Pools : k # PoolOf[c] => pool_lock'[k] = pool_lock[k]
  BY <1>1 DEF ChType
<1>3. pool_lock[PoolOf[uchannel[u]]] = u /\ uchannel[u] # NONE
  BY DEF UpdateInv
<1>4. uchannel[u] \in Channels
  BY <1>3 DEF ChType
<1>5. PoolOf[uchannel[u]] \in Pools
  BY <1>4 DEF Pools
<1> QED BY <1>1, <1>2, <1>3, <1>5

LEMMA ExceptType ==
    ASSUME NEW A, NEW B, NEW h \in [A -> B], NEW a \in A, NEW b \in B
    PROVE  [h EXCEPT ![a] = b] \in [A -> B]
  OBVIOUS

LEMMA SumAfter ==
    ASSUME NEW a \in Nat, NEW b \in Nat, NEW k \in Nat, a + b <= k
    PROVE  a + (b - 1) <= k - 1
  OBVIOUS

LEMMA EntriesType ==
    ASSUME NEW h \in [Channels -> [Slots -> Nat]], NEW c \in Channels, NEW i \in Slots, NEW x \in Nat
    PROVE  [h EXCEPT ![c][i] = x] \in [Channels -> [Slots -> Nat]]
  OBVIOUS

LEMMA Submitted ==
    ASSUME ChInv, NEW p \in Pushes, NEW size \in 1..MAX_PUSH, EndSubmit(p, size)
    PROVE  ChInv' /\ UNCHANGED pbVars
<1>1. ChType /\ OwnerInv /\ UpdateInv /\ InfoInv /\ OnceInv
  BY DEF ChInv, StateInv
<1>2. step[p] = "open"
  BY DEF EndSubmit
<1>3. PICK c \in Channels : push_channel[p] = c
  <2>1. push_channel[p] # NONE
    BY <1>1, <1>2 DEF OwnerInv, Holding
  <2> QED BY <1>1, <2>1 DEF ChType
<1>4. PICK put \in Nat : put = cpu_put[c]
  BY <1>1 DEF ChType
<1>5. /\ ~Locked(c) /\ pool_lock' = [pool_lock EXCEPT ![PoolOf[c]] = p]
      /\ queued_value' = [queued_value EXCEPT ![c] = @ + 1]
      /\ entry_value' = [entry_value EXCEPT ![c][put] = queued_value[c] + 1]
      /\ entry_info' = [entry_info EXCEPT ![c][put] = push_info_index[p]]
      /\ current_pushes_count' = [current_pushes_count EXCEPT ![c] = @ - 1]
      /\ push_size' = [push_size EXCEPT ![p] = size]
      /\ step' = [step EXCEPT ![p] = "submitted"]
      /\ UNCHANGED <<pbVars, completed_value, gpu_done, cpu_put, gpu_get,
                     available_push_infos, wanted, push_channel, push_info_index, updateVars>>
  BY <1>3, <1>4 DEF EndSubmit
<1>6. PICK E, G, F \in Counts : CountsInv(E, G, F)
  BY DEF ChInv
<1>7. /\ Ordered(c, E[c], G[c], F[c]) /\ Listed(c, E[c], F[c]) /\ Counted(c, F[c])
      /\ E[c] \in Nat /\ G[c] \in Nat /\ F[c] \in Nat
  BY <1>6 DEF CountsInv, CountInv, ListInv, LiveInv, Counts
<1>8. queued_value[c] = E[c] /\ F[c] = G[c]
  BY <1>1, <1>5, <1>6, UnlockedCounts DEF CountsInv
<1>9. /\ put \in Slots /\ ~IsPending(<<c, put>>)
      /\ \A v \in Nat : F[c] <= v /\ v < E[c] => SlotOf(v + 1) # put
  BY <1>1, <1>4, <1>7, PutFree, ZenonT(60)
<1>10. p \in Open(c)
  BY <1>2, <1>3 DEF Open
<1>11. PICK r, o \in Nat :
          /\ Sized(Reserved(c), r) /\ Sized(Open(c), o) /\ r + o <= current_pushes_count[c]
          /\ Len(available_push_infos[c]) + o + queued_value[c] = num_gpfifo_entries + F[c]
  BY <1>7 DEF Counted
<1>11a. o >= 1 /\ o - 1 \in Nat /\ Sized(Open(c) \ {p}, o - 1)
  BY <1>10, <1>11, SizedRemove, ZenonT(60)
<1>12. /\ current_pushes_count[c] \in Nat /\ current_pushes_count[c] >= 1
       /\ queued_value[c] \in Nat /\ num_gpfifo_entries \in Nat
  BY <1>1, <1>11, <1>11a, ChannelConstants DEF ChType
<1>13. /\ step'[p] = "submitted" /\ push_size'[p] = size
       /\ \A q \in Pushes : q # p => step'[q] = step[q] /\ push_size'[q] = push_size[q]
  BY <1>1, <1>5 DEF ChType
<1>14. /\ queued_value'[c] = queued_value[c] + 1
       /\ current_pushes_count'[c] = current_pushes_count[c] - 1
       /\ \A d \in Channels : d # c => /\ queued_value'[d] = queued_value[d]
                                       /\ current_pushes_count'[d] = current_pushes_count[d]
  BY <1>1, <1>5 DEF ChType
<1>15. /\ entry_value'[c][put] = queued_value[c] + 1
       /\ \A i \in Slots : i # put => entry_value'[c][i] = entry_value[c][i]
       /\ \A d \in Channels : d # c => entry_value'[d] = entry_value[d]
  BY <1>1, <1>5, <1>9 DEF ChType
<1>16. /\ entry_info'[c][put] = push_info_index[p]
       /\ \A i \in Slots : i # put => entry_info'[c][i] = entry_info[c][i]
       /\ \A d \in Channels : d # c => entry_info'[d] = entry_info[d]
  BY <1>1, <1>5, <1>9 DEF ChType
<1>17. /\ PoolOf[c] \in Pools /\ pool_lock'[PoolOf[c]] = p
       /\ \A q \in Pushes : step[q] = "submitted" => pool_lock'[PoolOf[push_channel[q]]] = q
       /\ \A u \in Updaters : ustep[u] = "loop" => pool_lock'[PoolOf[uchannel[u]]] = u
  BY <1>1, <1>5, LockTaken, ZenonT(60)
<1> USE DEF pbVars, chunkVars, pushVars, updateVars
<1>18. OnceInv' /\ \A x : IsPending(x)' <=> IsPending(x)
  BY <1>1, <1>5, PendingKept
<1>19. ChType'
  <2>1. queued_value' \in [Channels -> Nat] /\ current_pushes_count' \in [Channels -> Nat]
    BY <1>1, <1>5, <1>12 DEF ChType
  <2>2. entry_value' \in [Channels -> [Slots -> Nat]]
    <3>1. entry_value \in [Channels -> [Slots -> Nat]] /\ queued_value[c] + 1 \in Nat
      BY <1>1, <1>12 DEF ChType
    <3> QED BY <1>5, <1>9, <3>1, EntriesType, ZenonT(60)
  <2>3. entry_info' \in [Channels -> [Slots -> Nat]]
    <3>1. entry_info \in [Channels -> [Slots -> Nat]] /\ push_info_index[p] \in Nat
      BY <1>1 DEF ChType
    <3> QED BY <1>5, <1>9, <3>1, EntriesType, ZenonT(60)
  <2>4. pool_lock' \in [Pools -> Pushes \cup Updaters \cup {NONE}]
    <3>1. /\ pool_lock \in [Pools -> Pushes \cup Updaters \cup {NONE}]
          /\ pool_lock' = [pool_lock EXCEPT ![PoolOf[c]] = p]
      BY <1>1, <1>5 DEF ChType
    <3>2. p \in Pushes \cup Updaters \cup {NONE}
      OBVIOUS
    <3> QED BY <1>17, <3>1, <3>2, ExceptType, ZenonT(60)
  <2>5. step' \in [Pushes -> Steps] /\ push_size' \in [Pushes -> Nat]
    <3>1. size \in Nat /\ "submitted" \in Steps
      BY SizesNat DEF Steps
    <3> QED BY <1>1, <1>5, <3>1 DEF ChType
  <2>6. UNCHANGED <<completed_value, gpu_done, cpu_put, gpu_get, available_push_infos, wanted,
                    push_channel, push_info_index, updateVars>>
    BY <1>5
  <2> QED BY <1>1, <2>1, <2>2, <2>3, <2>4, <2>5, <2>6, TypeKept
<1>20. OwnerInv'
  BY <1>1, <1>2, <1>3, <1>5, <1>13, <1>17 DEF OwnerInv, Holding
<1>21. UpdateInv'
  BY <1>1, <1>5, <1>17 DEF UpdateInv
<1>22. /\ Open(c)' = Open(c) \ {p}
       /\ \A d \in Channels : d # c => Open(d)' = Open(d)
       /\ \A d \in Channels : Reserved(d)' = Reserved(d) /\ InfoHolders(d)' = InfoHolders(d)
  BY <1>2, <1>3, <1>5, <1>13 DEF Open, Reserved, InfoHolders
<1>23. /\ Submits(p, c)' /\ \A q \in Pushes : q # p => ~Submits(q, c)'
       /\ \A d \in Channels : d # c => \A q \in Pushes : Submits(q, d)' <=> Submits(q, d)
  <2>1. \A q \in Pushes : ~Submits(q, c)
    BY <1>1, <1>5, UnlockedIdle
  <2> QED BY <1>3, <1>5, <1>13, <2>1 DEF Submits
<1>24. ASSUME NEW d \in Channels
       PROVE  /\ Ordered(d, E[d], G[d], F[d])' /\ Submitting(d, E[d])'
              /\ Updating(d, E[d], G[d], F[d])'
  <2>1. /\ Ordered(d, E[d], G[d], F[d]) /\ Submitting(d, E[d]) /\ Updating(d, E[d], G[d], F[d])
    BY <1>6 DEF CountsInv, CountInv
  <2>2. Updating(d, E[d], G[d], F[d])'
    BY <1>5, <2>1 DEF Updating, Frees
  <2>3. CASE d # c
    <3>1. Ordered(d, E[d], G[d], F[d])'
      BY <1>5, <1>14, <2>1, <2>3 DEF Ordered
    <3>2. Submitting(d, E[d])'
      BY <1>14, <1>23, <2>1, <2>3 DEF Submitting
    <3> QED BY <2>2, <3>1, <3>2
  <2>4. CASE d = c
    <3>1. /\ queued_value'[c] + current_pushes_count'[c] = queued_value[c] + current_pushes_count[c]
          /\ E[c] <= queued_value'[c] /\ queued_value[c] <= queued_value'[c]
          /\ queued_value'[c] = E[c] + 1
      BY <1>7, <1>8, <1>12, <1>14
    <3>2. completed_value[c] \in Nat /\ gpu_done[c] \in Nat
      BY <1>1 DEF ChType
    <3>3. gpu_done[c] <= queued_value'[c]
      BY <1>7, <1>12, <1>14, <3>2 DEF Ordered
    <3>4. Ordered(c, E[c], G[c], F[c])'
      BY <1>5, <1>7, <3>1, <3>3 DEF Ordered
    <3>5. Submitting(c, E[c])'
      BY <1>23, <3>1 DEF Submitting
    <3> QED BY <2>2, <2>4, <3>4, <3>5
  <2> QED BY <2>3, <2>4
<1>25. ASSUME NEW d \in Channels PROVE Listed(d, E[d], F[d])'
  <2>1. Listed(d, E[d], F[d])
    BY <1>6 DEF CountsInv, ListInv
  <2>2. CASE d # c
    BY <1>14, <1>15, <1>18, <2>1, <2>2 DEF Listed
  <2>3. CASE d = c
    <3>1. ASSUME NEW v \in Nat, F[c] <= v, v < queued_value'[c]
          PROVE  entry_value'[c][SlotOf(v + 1)] = v + 1
      <4>1. CASE v = E[c]
        <5>1. SlotOf(v + 1) = put
          BY <1>4, <1>7, <4>1 DEF Ordered
        <5> QED BY <1>8, <1>15, <4>1, <5>1
      <4>2. CASE v # E[c]
        <5>1. v < E[c]
          BY <1>7, <1>8, <1>12, <1>14, <3>1, <4>2
        <5>2. SlotOf(v + 1) # put /\ SlotOf(v + 1) \in Slots
          BY <1>9, <3>1, <5>1, SlotType
        <5>3. entry_value[c][SlotOf(v + 1)] = v + 1
          BY <1>7, <1>8, <3>1, <5>1 DEF Listed
        <5> QED BY <1>15, <5>2, <5>3
      <4> QED BY <4>1, <4>2
    <3> QED BY <1>18, <2>1, <2>3, <3>1 DEF Listed
  <2> QED BY <2>2, <2>3
<1>26. ASSUME NEW d \in Channels PROVE Counted(d, F[d])'
  <2>1. Counted(d, F[d])
    BY <1>6 DEF CountsInv, LiveInv
  <2>a. UNCHANGED available_push_infos
    BY <1>5
  <2>2. CASE d # c
    BY <1>14, <1>22, <2>1, <2>2, <2>a DEF Counted
  <2>3. CASE d = c
    <3>1. Len(available_push_infos[c]) \in Nat
      BY <1>1 DEF ChType
    <3>2. F[c] \in Nat
      BY <1>7
    <3>3. /\ r + (o - 1) <= current_pushes_count[c] - 1
          /\ Len(available_push_infos[c]) + (o - 1) + (queued_value[c] + 1)
                = num_gpfifo_entries + F[c]
      <4>1. PICK n, q, k, N, f \in Nat : /\ n = Len(available_push_infos[c]) /\ q = queued_value[c]
                                         /\ k = current_pushes_count[c]
                                         /\ N = num_gpfifo_entries /\ f = F[c]
        BY <1>12, <3>1, <3>2
      <4>2. r + o <= k /\ n + o + q = N + f
        BY <1>11, <4>1, ZenonT(60)
      <4>3. r + (o - 1) <= k - 1 /\ n + (o - 1) + (q + 1) = N + f
        BY <4>2
      <4> QED BY <4>1, <4>3, ZenonT(60)
    <3>4. Sized(Reserved(c)', r) /\ Sized(Open(c)', o - 1)
      BY <1>11, <1>11a, <1>22, ZenonT(60)
    <3>5. Counted(c, F[c])'
      BY <1>11a, <1>14, <2>a, <3>3, <3>4, ZenonT(60) DEF Counted
    <3> QED BY <2>3, <3>5
  <2> QED BY <2>2, <2>3
<1>27. ASSUME NEW d \in Channels PROVE InfoOnce(d)'
  <2>1. InfoOnce(d)
    BY <1>1 DEF InfoInv
  <2>2. /\ InfoHolders(d)' = InfoHolders(d)
        /\ UNCHANGED <<available_push_infos, push_info_index, cpu_put>>
    BY <1>5, <1>22
  <2>3. CASE d # c
    BY <1>16, <1>18, <1>23, <2>1, <2>2, <2>3 DEF InfoOnce
  <2>4. CASE d = c
    <3>1. \A j \in Slots : IsPending(<<c, j>>) => entry_info'[c][j] = entry_info[c][j]
      BY <1>9, <1>16
    <3>2. \A q \in Pushes : Submits(q, c)' => entry_info'[c][cpu_put[c]] = push_info_index[q]
      BY <1>4, <1>16, <1>23
    <3> QED BY <1>18, <2>1, <2>2, <2>4, <3>1, <3>2 DEF InfoOnce
  <2> QED BY <2>3, <2>4
<1>28. CountsInv(E, G, F)' /\ InfoInv'
  BY <1>24, <1>25, <1>26, <1>27 DEF CountsInv, CountInv, ListInv, LiveInv, InfoInv
<1>29. PbShape'
  BY <1>5, PbShapeStep DEF ChInv, StateInv
<1> QED BY <1>5, <1>18, <1>19, <1>20, <1>21, <1>28, <1>29 DEF ChInv, StateInv

LEMMA Finishes ==
    ASSUME ChInv, NEW p \in Pushes, EndFinish(p)
    PROVE  ChInv' /\ PbErrorStep
<1>1. ChType /\ OwnerInv /\ UpdateInv /\ InfoInv /\ OnceInv /\ PbShape
  BY DEF ChInv, StateInv
<1>2. step[p] = "submitted"
  BY DEF EndFinish
<1>3. PICK c \in Channels : push_channel[p] = c
  <2>1. push_channel[p] # NONE
    BY <1>1, <1>2 DEF OwnerInv, Holding
  <2> QED BY <1>1, <2>1 DEF ChType
<1>4. PICK put \in Nat : put = cpu_put[c]
  BY <1>1 DEF ChType
<1>5. /\ uvm_pushbuffer_end_push(p, <<c, put>>, push_size[p])
      /\ cpu_put' = [cpu_put EXCEPT ![c] = NextSlot(@)]
      /\ pool_lock' = [pool_lock EXCEPT ![PoolOf[c]] = NONE]
      /\ push_channel' = [push_channel EXCEPT ![p] = NONE]
      /\ push_info_index' = [push_info_index EXCEPT ![p] = num_gpfifo_entries]
      /\ push_size' = [push_size EXCEPT ![p] = 0]
      /\ wanted' = [wanted EXCEPT ![p] = {}]
      /\ step' = [step EXCEPT ![p] = "idle"]
      /\ UNCHANGED <<semaphoreVars, gpu_get, current_pushes_count, entry_value,
                     entry_info, available_push_infos, updateVars>>
  BY <1>3, <1>4 DEF EndFinish
<1>6. PICK E, G, F \in Counts : CountsInv(E, G, F)
  BY DEF ChInv
<1>7. /\ Ordered(c, E[c], G[c], F[c]) /\ Listed(c, E[c], F[c]) /\ Counted(c, F[c])
      /\ Submitting(c, E[c]) /\ Updating(c, E[c], G[c], F[c])
      /\ E[c] \in Nat /\ G[c] \in Nat /\ F[c] \in Nat
  BY <1>6 DEF CountsInv, CountInv, ListInv, LiveInv, Counts
<1>8. put \in Slots /\ ~IsPending(<<c, put>>) /\ put = SlotOf(E[c] + 1)
  <2>1. put \in Slots /\ ~IsPending(<<c, put>>)
    BY <1>1, <1>4, <1>7, PutFree, ZenonT(60)
  <2> QED BY <1>4, <1>7, <2>1 DEF Ordered
<1>9. /\ push_size[p] \in 1..MAX_PUSH /\ pool_lock[PoolOf[c]] = p /\ c \notin destroyed
      /\ stage[p] = "ongoing"
  BY <1>1, <1>2, <1>3 DEF OwnerInv
<1>10. <<c, put>> \in Gpfifos
  BY <1>8, ChannelConstants
<1>11. PbErrorStep
  BY <1>5, <1>8, <1>9, <1>10 DEF PbErrorStep, PbStep
<1>12. OnceInv' /\ \A x : IsPending(x)' <=> (IsPending(x) \/ x = <<c, put>>)
  BY <1>1, <1>5, <1>8, <1>9, <1>10, EndPends, ZenonT(60)
<1>13. queued_value[c] = E[c] + 1
  BY <1>2, <1>3, <1>7 DEF Submitting, Submits
<1>14. /\ \A q \in Pushes : step[q] = "submitted" /\ q # p =>
             pool_lock'[PoolOf[push_channel[q]]] = q /\ PoolOf[push_channel[q]] # PoolOf[c]
       /\ \A u \in Updaters : ustep[u] = "loop" /\ u # p =>
             pool_lock'[PoolOf[uchannel[u]]] = u /\ PoolOf[uchannel[u]] # PoolOf[c]
  <2>1. p \in Pushes \cup Updaters
    OBVIOUS
  <2>2. pool_lock' = [pool_lock EXCEPT ![PoolOf[c]] = NONE] /\ pool_lock[PoolOf[c]] = p
    BY <1>5, <1>9
  <2>3. ChType /\ OwnerInv /\ UpdateInv
    BY <1>1
  <2>4. \A q \in Pushes : step[q] = "submitted" /\ q # p =>
           pool_lock'[PoolOf[push_channel[q]]] = q /\ PoolOf[push_channel[q]] # PoolOf[c]
    <3> TAKE q \in Pushes
    <3> HAVE step[q] = "submitted" /\ q # p
    <3>1. pool_lock[PoolOf[c]] # q
      BY <2>2
    <3> QED BY <2>2, <2>3, <3>1, LockDroppedPush, ZenonT(60)
  <2>5. \A u \in Updaters : ustep[u] = "loop" /\ u # p =>
           pool_lock'[PoolOf[uchannel[u]]] = u /\ PoolOf[uchannel[u]] # PoolOf[c]
    <3> TAKE u \in Updaters
    <3> HAVE ustep[u] = "loop" /\ u # p
    <3>1. pool_lock[PoolOf[c]] # u
      BY <2>2
    <3> QED BY <2>2, <2>3, <3>1, LockDroppedUpdate, ZenonT(60)
  <2> QED BY <2>4, <2>5
<1>15. \A u \in Updaters : u # p
  BY ChannelConstants
<1>16. /\ step'[p] = "idle" /\ push_channel'[p] = NONE /\ wanted'[p] = {} /\ stage'[p] = "none"
       /\ \A q \in Pushes : q # p => /\ step'[q] = step[q] /\ push_channel'[q] = push_channel[q]
                                     /\ wanted'[q] = wanted[q] /\ push_size'[q] = push_size[q]
  <2>1. stage \in [Pushes -> Stages] /\ stage' = [stage EXCEPT ![p] = "none"]
    BY <1>1, <1>5 DEF PbShape, uvm_pushbuffer_end_push
  <2> QED BY <1>1, <1>5, <2>1 DEF ChType
<1>17. \A q \in Pushes : q # p =>
          stage'[q] = stage[q] /\ push_info_index'[q] = push_info_index[q]
  <2>1. stage \in [Pushes -> Stages] /\ stage' = [stage EXCEPT ![p] = "none"]
    BY <1>1, <1>5 DEF PbShape, uvm_pushbuffer_end_push
  <2> QED BY <1>1, <1>5, <2>1 DEF ChType
<1>18. NONE \notin Channels
  BY ChannelConstants
<1>19. /\ cpu_put'[c] = SlotOf((E[c] + 1) + 1)
       /\ \A d \in Channels : d # c => cpu_put'[d] = cpu_put[d]
  <2>1. cpu_put'[c] = NextSlot(put) /\ \A d \in Channels : d # c => cpu_put'[d] = cpu_put[d]
    BY <1>1, <1>4, <1>5 DEF ChType
  <2>2. NextSlot(SlotOf(E[c] + 1)) = SlotOf(E[c] + 2)
    BY <1>7, SlotNext
  <2>3. E[c] + 2 = (E[c] + 1) + 1
    BY <1>7
  <2> QED BY <1>8, <2>1, <2>2, <2>3
<1> USE DEF semaphoreVars, updateVars
<1>20. ChType'
  <2>1. cpu_put' \in [Channels -> Nat]
    <3>1. SlotOf((E[c] + 1) + 1) \in Nat
      <4>1. E[c] + 1 \in Nat /\ Slots \subseteq Nat
        BY <1>7, ChannelConstants DEF Slots
      <4> QED BY <4>1, SlotType
    <3>2. cpu_put \in [Channels -> Nat] /\ cpu_put' = [cpu_put EXCEPT ![c] = cpu_put'[c]]
      BY <1>1, <1>5 DEF ChType
    <3>3. cpu_put'[c] \in Nat
      BY <1>19, <3>1
    <3>4. [cpu_put EXCEPT ![c] = cpu_put'[c]] \in [Channels -> Nat]
      BY <3>2, <3>3
    <3> QED BY <3>2, <3>4, ZenonT(60)
  <2>2. pool_lock' \in [Pools -> Pushes \cup Updaters \cup {NONE}]
    <3>1. /\ pool_lock \in [Pools -> Pushes \cup Updaters \cup {NONE}]
          /\ pool_lock' = [pool_lock EXCEPT ![PoolOf[c]] = NONE]
          /\ NONE \in Pushes \cup Updaters \cup {NONE} /\ PoolOf[c] \in Pools
      BY <1>1, <1>5 DEF ChType, Pools
    <3> QED BY <3>1, ExceptType, ZenonT(60)
  <2>3. /\ step' \in [Pushes -> Steps] /\ wanted' \in [Pushes -> SUBSET Channels]
        /\ push_channel' \in [Pushes -> Channels \cup {NONE}]
    BY <1>1, <1>5 DEF ChType, Steps
  <2>4. push_info_index' \in [Pushes -> Nat] /\ push_size' \in [Pushes -> Nat]
    BY <1>1, <1>5, ChannelConstants DEF ChType
  <2>5. UNCHANGED <<semaphoreVars, gpu_get, current_pushes_count, entry_value,
                    entry_info, available_push_infos, updateVars>>
    BY <1>5
  <2>6. /\ queued_value \in [Channels -> Nat] /\ completed_value \in [Channels -> Nat]
        /\ gpu_done \in [Channels -> Nat] /\ gpu_get \in [Channels -> Nat]
        /\ current_pushes_count \in [Channels -> Nat]
        /\ entry_value \in [Channels -> [Slots -> Nat]]
        /\ entry_info \in [Channels -> [Slots -> Nat]]
        /\ available_push_infos \in [Channels -> Seq(Nat)]
    BY <1>1 DEF ChType
  <2>7. /\ destroyed \subseteq Channels
        /\ ustep \in [Updaters -> {"idle", "read", "loop"}]
        /\ umode \in [Updaters -> {"COMPLETED", "FORCE_ALL"}]
        /\ uchannel \in [Updaters -> Channels \cup {NONE}]
        /\ uvalue \in [Updaters -> Nat] /\ uget \in [Updaters -> Nat]
        /\ ucount \in [Updaters -> Nat]
    BY <1>1 DEF ChType
  <2> QED BY <2>1, <2>2, <2>3, <2>4, <2>5, <2>6, <2>7 DEF ChType
<1>21. OwnerInv'
  <2>1. UNCHANGED destroyed /\ NONE \notin destroyed
    BY <1>1, <1>5, <1>18 DEF ChType
  <2> QED BY <1>1, <1>14, <1>16, <1>17, <2>1 DEF OwnerInv, Holding
<1>22. UpdateInv'
  BY <1>1, <1>5, <1>14, <1>15 DEF UpdateInv
<1>23. /\ \A q \in Pushes : Submits(q, c) => q = p
       /\ \A q \in Pushes : ~Submits(q, c)'
       /\ \A d \in Channels : d # c => \A q \in Pushes : Submits(q, d)' <=> Submits(q, d)
  BY <1>3, <1>14, <1>16, <1>18 DEF Submits
<1>24. /\ \A d \in Channels : Open(d)' = Open(d) /\ Reserved(d)' = Reserved(d)
       /\ \A d \in Channels : d # c => InfoHolders(d)' = InfoHolders(d)
       /\ InfoHolders(c)' = InfoHolders(c) \ {p} /\ p \in InfoHolders(c)
  BY <1>2, <1>3, <1>16, <1>18 DEF Open, Reserved, InfoHolders
<1> DEFINE E1 == [E EXCEPT ![c] = @ + 1]
<1>25. E1 \in Counts /\ E1[c] = E[c] + 1 /\ \A d \in Channels : d # c => E1[d] = E[d]
  BY <1>7 DEF Counts
<1> HIDE DEF E1
<1>26. ASSUME NEW d \in Channels
       PROVE  /\ Ordered(d, E1[d], G[d], F[d])' /\ Submitting(d, E1[d])'
              /\ Updating(d, E1[d], G[d], F[d])'
  <2>1. Ordered(d, E[d], G[d], F[d]) /\ Submitting(d, E[d]) /\ Updating(d, E[d], G[d], F[d])
    BY <1>6 DEF CountsInv, CountInv
  <2>2. CASE d # c
    <3>1. Ordered(d, E[d], G[d], F[d])'
      BY <1>5, <1>19, <2>1, <2>2 DEF Ordered
    <3>2. Submitting(d, E[d])'
      BY <1>5, <1>23, <2>1, <2>2 DEF Submitting
    <3>3. Updating(d, E[d], G[d], F[d])'
      BY <1>5, <2>1 DEF Updating, Frees
    <3> QED BY <1>25, <2>2, <3>1, <3>2, <3>3
  <2>3. CASE d = c
    <3>1. F[c] <= E[c] + 1 /\ E[c] + 1 <= queued_value[c]
      BY <1>7, <1>13 DEF Ordered
    <3>2. Ordered(c, E[c] + 1, G[c], F[c])'
      BY <1>5, <1>7, <1>19, <3>1 DEF Ordered
    <3>3. Submitting(c, E[c] + 1)'
      BY <1>5, <1>13, <1>23 DEF Submitting
    <3>4. Updating(c, E[c] + 1, G[c], F[c])'
      BY <1>5, <1>7, <1>9 DEF Updating, Frees
    <3> QED BY <1>25, <2>3, <3>2, <3>3, <3>4
  <2> QED BY <2>2, <2>3
<1>27. ASSUME NEW d \in Channels PROVE Listed(d, E1[d], F[d])'
  <2>1. Listed(d, E[d], F[d])
    BY <1>6 DEF CountsInv, ListInv
  <2>2. UNCHANGED <<queued_value, entry_value>>
    BY <1>5
  <2>3. CASE d # c
    <3>1. \A i \in Slots : IsPending(<<d, i>>)' <=> IsPending(<<d, i>>)
      BY <1>12, <2>3
    <3>2. Listed(d, E[d], F[d])'
      BY <2>1, <2>2, <3>1 DEF Listed
    <3> QED BY <1>25, <2>3, <3>2
  <2>4. CASE d = c
    <3>1. \A i \in Slots : IsPending(<<c, i>>)' <=> (IsPending(<<c, i>>) \/ i = put)
      BY <1>12
    <3>2. ASSUME NEW i \in Slots
          PROVE  IsPending(<<c, i>>)' <=> \E v \in Nat : F[c] <= v /\ v < E[c] + 1 /\ i = SlotOf(v + 1)
      <4>1. IsPending(<<c, i>>) <=> \E v \in Nat : F[c] <= v /\ v < E[c] /\ i = SlotOf(v + 1)
        BY <1>7 DEF Listed
      <4>2. \A v \in Nat : (F[c] <= v /\ v < E[c] + 1) <=> ((F[c] <= v /\ v < E[c]) \/ v = E[c])
        <5>1. F[c] <= E[c]
          BY <1>7 DEF Ordered
        <5> QED BY <1>7, <5>1
      <4> QED BY <1>7, <1>8, <3>1, <4>1, <4>2, ZenonT(60)
    <3>3. \A v \in Nat : F[c] <= v /\ v < queued_value[c] => entry_value[c][SlotOf(v + 1)] = v + 1
      BY <1>7 DEF Listed
    <3>4. Listed(c, E[c] + 1, F[c])'
      BY <2>2, <3>2, <3>3, ZenonT(60) DEF Listed
    <3> QED BY <1>25, <2>4, <3>4
  <2> QED BY <2>3, <2>4
<1>28. ASSUME NEW d \in Channels PROVE Counted(d, F[d])'
  <2>1. Counted(d, F[d])
    BY <1>6 DEF CountsInv, LiveInv
  <2> QED BY <1>5, <1>24, <2>1 DEF Counted
<1>29. ASSUME NEW d \in Channels PROVE InfoOnce(d)'
  <2>1. InfoOnce(d)
    BY <1>1 DEF InfoInv
  <2>2. UNCHANGED <<available_push_infos, entry_info>>
    BY <1>5
  <2>3. CASE d # c
    <3>1. \A i \in Slots : IsPending(<<d, i>>)' <=> IsPending(<<d, i>>)
      BY <1>12, <2>3
    <3>2. InfoHolders(d)' = InfoHolders(d) /\ cpu_put'[d] = cpu_put[d]
      BY <1>19, <1>24, <2>3
    <3>3. \A q \in InfoHolders(d) : push_info_index'[q] = push_info_index[q]
      BY <1>3, <1>17, <2>3 DEF InfoHolders
    <3>4. \A q \in Pushes : Submits(q, d)' => Submits(q, d) /\ push_info_index'[q] = push_info_index[q]
      BY <1>3, <1>17, <1>23, <2>3 DEF Submits
    <3> QED BY <2>1, <2>2, <3>1, <3>2, <3>3, <3>4 DEF InfoOnce
  <2>4. CASE d = c
    <3>1. \A i \in Slots : IsPending(<<c, i>>)' <=> (IsPending(<<c, i>>) \/ i = put)
      BY <1>12
    <3>2. \A q \in InfoHolders(c)' : q \in InfoHolders(c) /\ q # p /\ push_info_index'[q] = push_info_index[q]
      BY <1>17, <1>24 DEF InfoHolders
    <3>3. entry_info[c][put] = push_info_index[p] /\ p \in InfoHolders(c)
      BY <1>2, <1>3, <1>4, <1>24, <2>1, <2>4 DEF InfoOnce, Submits
    <3>4. /\ \A i, j \in 1..Len(available_push_infos[c]) :
                i # j => available_push_infos[c][i] # available_push_infos[c][j]
          /\ \A i \in 1..Len(available_push_infos[c]), j \in Slots :
                IsPending(<<c, j>>) => available_push_infos[c][i] # entry_info[c][j]
          /\ \A i \in 1..Len(available_push_infos[c]), q \in InfoHolders(c) :
                available_push_infos[c][i] # push_info_index[q]
          /\ \A q \in InfoHolders(c), j \in Slots :
                IsPending(<<c, j>>) => push_info_index[q] # entry_info[c][j]
          /\ \A q, r \in InfoHolders(c) : q # r => push_info_index[q] # push_info_index[r]
          /\ \A i, j \in Slots : IsPending(<<c, i>>) /\ IsPending(<<c, j>>) /\ i # j =>
                entry_info[c][i] # entry_info[c][j]
      BY <2>1, <2>4, ZenonT(60) DEF InfoOnce
    <3>5. \A i \in 1..Len(available_push_infos[c]), j \in Slots :
             IsPending(<<c, j>>)' => available_push_infos[c][i] # entry_info[c][j]
      BY <3>1, <3>3, <3>4
    <3>6. \A i \in 1..Len(available_push_infos[c]), q \in InfoHolders(c)' :
             available_push_infos[c][i] # push_info_index'[q]
      BY <3>2, <3>4
    <3>7. \A q \in InfoHolders(c)', j \in Slots :
             IsPending(<<c, j>>)' => push_info_index'[q] # entry_info[c][j]
      BY <3>1, <3>2, <3>3, <3>4
    <3>8. \A q, r \in InfoHolders(c)' : q # r => push_info_index'[q] # push_info_index'[r]
      BY <3>2, <3>4
    <3>9. \A i, j \in Slots : IsPending(<<c, i>>)' /\ IsPending(<<c, j>>)' /\ i # j =>
             entry_info[c][i] # entry_info[c][j]
      BY <3>1, <3>3, <3>4
    <3> QED BY <1>23, <2>2, <2>4, <3>4, <3>5, <3>6, <3>7, <3>8, <3>9 DEF InfoOnce
  <2> QED BY <2>3, <2>4
<1>30. CountsInv(E1, G, F)' /\ InfoInv'
  BY <1>26, <1>27, <1>28, <1>29 DEF CountsInv, CountInv, ListInv, LiveInv, InfoInv
<1>31. PbShape'
  BY <1>1, <1>11, PbShapeStep
<1> QED BY <1>11, <1>12, <1>20, <1>21, <1>22, <1>25, <1>30, <1>31, ZenonT(60) DEF ChInv, StateInv

-----------------------------------------------------------------------------
(* The GPU and uvm_channel_update_progress_with_max *)

\* What neither the GPU nor an update outside its loop changes
quietFrame == <<pbVars, ownerVars, queued_value, cpu_put, current_pushes_count, entry_value,
                entry_info, available_push_infos>>

LEMMA QuietKept ==
    ASSUME ChInv, UNCHANGED quietFrame,
           NEW E \in Counts, NEW G \in Counts, NEW F \in Counts, CountsInv(E, G, F)
    PROVE  /\ PbShape' /\ OnceInv' /\ InfoInv' /\ ListInv(E, F)' /\ LiveInv(F)'
           /\ \A d \in Channels : Submitting(d, E[d])'
<1> USE DEF quietFrame, ownerVars
<1>1. InfoInv /\ OnceInv /\ PbShape /\ UNCHANGED pbVars
  BY DEF ChInv, StateInv
<1>2. UNCHANGED pending_gpfifos
  BY <1>1 DEF pbVars, chunkVars
<1>3. OnceInv' /\ \A x : IsPending(x)' <=> IsPending(x)
  BY <1>1, <1>2, PendingKept
<1>4. PbShape'
  BY <1>1, PbShapeStep
<1>5. ASSUME NEW d \in Channels
      PROVE  Submitting(d, E[d])' /\ Listed(d, E[d], F[d])' /\ Counted(d, F[d])' /\ InfoOnce(d)'
  <2>1. Submitting(d, E[d]) /\ Listed(d, E[d], F[d]) /\ Counted(d, F[d]) /\ InfoOnce(d)
    BY <1>1 DEF CountsInv, CountInv, ListInv, LiveInv, InfoInv
  <2>2. SameUsers(d)
    BY DEF SameUsers, Reserved, Open, InfoHolders, Submits
  <2>3. Submitting(d, E[d])' /\ Counted(d, F[d])'
    BY <2>1, <2>2 DEF Submitting, Counted, SameUsers
  <2>4. Listed(d, E[d], F[d])'
    BY <1>3, <2>1 DEF Listed
  <2>5. InfoOnce(d)'
    BY <1>3, <2>1, <2>2 DEF InfoOnce, SameUsers
  <2> QED BY <2>3, <2>4, <2>5
<1> QED BY <1>3, <1>4, <1>5 DEF ListInv, LiveInv, InfoInv

LEMMA GpuRuns ==
    ASSUME ChInv, NEW c \in Channels, GpuRun(c)
    PROVE  ChInv' /\ UNCHANGED pbVars
<1>1. ChType /\ OwnerInv /\ UpdateInv
  BY DEF ChInv, StateInv
<1>2. /\ gpu_done[c] < queued_value[c] /\ gpu_done' = [gpu_done EXCEPT ![c] = @ + 1]
      /\ UNCHANGED <<pbVars, queued_value, completed_value, fifoVars, pool_lock,
                     ownerVars, updateVars>>
  BY DEF GpuRun
<1>3. PICK E, G, F \in Counts : CountsInv(E, G, F)
  BY DEF ChInv
<1>4. UNCHANGED quietFrame
  BY <1>2 DEF quietFrame, fifoVars
<1>5. /\ PbShape' /\ OnceInv' /\ InfoInv' /\ ListInv(E, F)' /\ LiveInv(F)'
      /\ \A d \in Channels : Submitting(d, E[d])'
  BY <1>3, <1>4, QuietKept, ZenonT(60)
<1> USE DEF fifoVars, ownerVars, updateVars
<1>6. /\ gpu_done' \in [Channels -> Nat] /\ gpu_done'[c] = gpu_done[c] + 1
      /\ \A d \in Channels : d # c => gpu_done'[d] = gpu_done[d]
  BY <1>1, <1>2 DEF ChType
<1>7. ChType' /\ UpdateInv'
  BY <1>1, <1>2, <1>6 DEF ChType, UpdateInv
<1>8. OwnerInv'
  <2>1. UNCHANGED stage
    BY <1>2 DEF pbVars, pushVars
  <2> QED BY <1>1, <1>2, <2>1 DEF OwnerInv
<1>9. ASSUME NEW d \in Channels PROVE Ordered(d, E[d], G[d], F[d])' /\ Updating(d, E[d], G[d], F[d])'
  <2>1. Ordered(d, E[d], G[d], F[d]) /\ Updating(d, E[d], G[d], F[d])
    BY <1>3 DEF CountsInv, CountInv
  <2>2. Updating(d, E[d], G[d], F[d])'
    BY <1>2, <2>1 DEF Updating, Frees
  <2>3. completed_value[d] <= gpu_done'[d] /\ gpu_done'[d] <= queued_value[d]
    <3>1. completed_value[d] <= gpu_done[d] /\ gpu_done[d] <= queued_value[d]
      BY <2>1 DEF Ordered
    <3> QED BY <1>1, <1>2, <1>6, <3>1 DEF ChType
  <2>4. Ordered(d, E[d], G[d], F[d])'
    BY <1>2, <2>1, <2>3 DEF Ordered
  <2> QED BY <2>2, <2>4
<1>10. CountsInv(E, G, F)'
  BY <1>5, <1>9 DEF CountsInv, CountInv
<1> QED BY <1>2, <1>5, <1>7, <1>8, <1>10 DEF ChInv, StateInv

\* What an update reads, as an update that does not force completion
LEMMA Reads ==
    ASSUME ChInv, NEW u \in Updaters, NEW c \in Channels, UpdReadFor(u, c),
           \/ UNCHANGED <<destroyed, umode>>
           \/ /\ \A p \in Pushes : push_channel[p] # c /\ c \notin wanted[p]
              /\ \A v \in Updaters : uchannel[v] # c
              /\ umode' = [umode EXCEPT ![u] = "FORCE_ALL"]
              /\ destroyed' = destroyed \cup {c}
    PROVE  ChInv' /\ UNCHANGED pbVars
<1>1. ChType /\ OwnerInv /\ UpdateInv
  BY DEF ChInv, StateInv
<1>2. /\ ustep[u] = "idle" /\ c \notin destroyed
      /\ completed_value' = [completed_value EXCEPT ![c] = gpu_done[c]]
      /\ uvalue' = [uvalue EXCEPT ![u] = gpu_done[c]]
      /\ uchannel' = [uchannel EXCEPT ![u] = c]
      /\ ustep' = [ustep EXCEPT ![u] = "read"]
      /\ UNCHANGED <<pbVars, queued_value, gpu_done, fifoVars, pool_lock,
                     ownerVars, uget, ucount>>
  BY DEF UpdReadFor
<1>3. PICK E, G, F \in Counts : CountsInv(E, G, F)
  BY DEF ChInv
<1>4. UNCHANGED quietFrame
  BY <1>2 DEF quietFrame, fifoVars
<1>5. /\ PbShape' /\ OnceInv' /\ InfoInv' /\ ListInv(E, F)' /\ LiveInv(F)'
      /\ \A d \in Channels : Submitting(d, E[d])'
  BY <1>3, <1>4, QuietKept, ZenonT(60)
<1> USE DEF fifoVars, ownerVars
<1>6. /\ completed_value' \in [Channels -> Nat] /\ completed_value'[c] = gpu_done[c]
      /\ gpu_done[c] \in Nat
      /\ \A d \in Channels : d # c => completed_value'[d] = completed_value[d]
  BY <1>1, <1>2 DEF ChType
<1>7. /\ uchannel[u] = NONE /\ uchannel'[u] = c /\ ustep'[u] = "read" /\ uvalue'[u] = gpu_done[c]
      /\ \A v \in Updaters : v # u => /\ uchannel'[v] = uchannel[v] /\ ustep'[v] = ustep[v]
                                      /\ uvalue'[v] = uvalue[v]
  BY <1>1, <1>2 DEF ChType, UpdateInv
<1>8. NONE \notin Channels /\ umode[u] = "COMPLETED" /\ destroyed \subseteq Channels
  <2>1. NONE \notin Channels /\ destroyed \subseteq Channels
    BY <1>1, ChannelConstants DEF ChType
  <2>2. umode[u] # "FORCE_ALL" /\ umode[u] \in {"COMPLETED", "FORCE_ALL"}
    BY <1>1, <1>7, <2>1 DEF UpdateInv, ChType
  <2> QED BY <2>1, <2>2
<1>9. /\ destroyed \subseteq destroyed' /\ destroyed' \subseteq destroyed \cup {c}
      /\ umode'[u] = "FORCE_ALL" <=> c \in destroyed'
      /\ \A v \in Updaters : v # u => umode'[v] = umode[v]
      /\ \A v \in Updaters : uchannel[v] \in destroyed' <=> uchannel[v] \in destroyed
      /\ umode' \in [Updaters -> {"COMPLETED", "FORCE_ALL"}]
  <2>1. CASE UNCHANGED <<destroyed, umode>>
    BY <1>1, <1>2, <1>8, <2>1 DEF ChType
  <2>2. CASE /\ \A v \in Updaters : uchannel[v] # c
             /\ umode' = [umode EXCEPT ![u] = "FORCE_ALL"]
             /\ destroyed' = destroyed \cup {c}
    BY <1>1, <1>2, <2>2 DEF ChType
  <2> QED BY <2>1, <2>2
<1>10. ChType'
  <2>1. /\ uvalue' \in [Updaters -> Nat] /\ uchannel' \in [Updaters -> Channels \cup {NONE}]
        /\ ustep' \in [Updaters -> {"idle", "read", "loop"}]
    BY <1>1, <1>2, <1>6 DEF ChType
  <2>2. destroyed' \subseteq Channels
    BY <1>8, <1>9
  <2> QED BY <1>1, <1>2, <1>6, <1>9, <2>1, <2>2, TypeKept
<1>11. OwnerInv'
  <2>1. UNCHANGED stage
    BY <1>2 DEF pbVars, pushVars
  <2>2. \A p \in Pushes : push_channel[p] \notin destroyed' /\ wanted[p] \cap destroyed' = {}
    <3>1. \A p \in Pushes : push_channel[p] \notin destroyed /\ wanted[p] \cap destroyed = {}
      BY <1>1 DEF OwnerInv
    <3> QED BY <3>1
  <2> QED BY <1>1, <1>2, <2>1, <2>2 DEF OwnerInv
<1>12. \A d \in Channels : completed_value[d] <= completed_value'[d] /\ completed_value'[d] <= gpu_done[d]
  <2>1. \A d \in Channels : completed_value[d] <= gpu_done[d] /\ completed_value[d] \in Nat
    BY <1>1, <1>3 DEF CountsInv, CountInv, Ordered, ChType
  <2> QED BY <1>6, <2>1
<1>13. UpdateInv'
  <2> SUFFICES ASSUME NEW v \in Updaters
               PROVE  /\ uchannel'[v] = NONE <=> ustep'[v] = "idle"
                      /\ ustep'[v] = "loop" => pool_lock'[PoolOf[uchannel'[v]]] = v
                      /\ umode'[v] = "FORCE_ALL" <=> uchannel'[v] \in destroyed'
                      /\ uchannel'[v] # NONE => uvalue'[v] <= completed_value'[uchannel'[v]]
    BY DEF UpdateInv
  <2>1. CASE v = u
    BY <1>6, <1>7, <1>8, <1>9, <2>1
  <2>2. CASE v # u
    <3>1. /\ uchannel[v] = NONE <=> ustep[v] = "idle"
          /\ ustep[v] = "loop" => pool_lock[PoolOf[uchannel[v]]] = v
          /\ umode[v] = "FORCE_ALL" <=> uchannel[v] \in destroyed
          /\ uchannel[v] # NONE => uvalue[v] <= completed_value[uchannel[v]]
      BY <1>1 DEF UpdateInv
    <3>2. uchannel[v] # NONE => uvalue[v] <= completed_value'[uchannel[v]]
      <4> SUFFICES ASSUME uchannel[v] # NONE PROVE uvalue[v] <= completed_value'[uchannel[v]]
        OBVIOUS
      <4>1. PICK d \in Channels : uchannel[v] = d
        BY <1>1 DEF ChType
      <4>2. /\ uvalue[v] <= completed_value[d] /\ completed_value[d] <= completed_value'[d]
            /\ uvalue[v] \in Nat /\ completed_value[d] \in Nat /\ completed_value'[d] \in Nat
        BY <1>1, <1>6, <1>12, <3>1, <4>1 DEF ChType
      <4> QED BY <4>1, <4>2
    <3>3. /\ uchannel'[v] = uchannel[v] /\ ustep'[v] = ustep[v] /\ uvalue'[v] = uvalue[v]
          /\ umode'[v] = umode[v] /\ (uchannel[v] \in destroyed' <=> uchannel[v] \in destroyed)
          /\ UNCHANGED pool_lock
      BY <1>2, <1>7, <1>9, <2>2
    <3> QED BY <3>1, <3>2, <3>3, ZenonT(60)
  <2> QED BY <2>1, <2>2
<1>14. ASSUME NEW d \in Channels PROVE Ordered(d, E[d], G[d], F[d])' /\ Updating(d, E[d], G[d], F[d])'
  <2>1. Ordered(d, E[d], G[d], F[d]) /\ Updating(d, E[d], G[d], F[d])
    BY <1>3 DEF CountsInv, CountInv
  <2>2. \A v \in Updaters : Frees(v, d)' <=> Frees(v, d)
    BY <1>2, <1>7 DEF Frees
  <2>3. d \notin destroyed' => F[d] <= completed_value'[d]
    <3>1. d \notin destroyed' => F[d] <= completed_value[d]
      BY <1>9, <2>1 DEF Ordered
    <3>2. /\ completed_value[d] <= completed_value'[d]
          /\ completed_value[d] \in Nat /\ completed_value'[d] \in Nat /\ F[d] \in Nat
      BY <1>1, <1>6, <1>12 DEF ChType, Counts
    <3> QED BY <3>1, <3>2
  <2>4. Ordered(d, E[d], G[d], F[d])'
    BY <1>2, <1>12, <2>1, <2>3 DEF Ordered
  <2>5. d \in destroyed' /\ (\A v \in Updaters : uchannel'[v] # d) => F[d] = E[d]
    <3> SUFFICES ASSUME d \in destroyed', \A v \in Updaters : uchannel'[v] # d
                 PROVE  F[d] = E[d]
      OBVIOUS
    <3>1. d # c /\ d \in destroyed
      BY <1>7, <1>9
    <3>2. \A v \in Updaters : uchannel[v] # d
      BY <1>7, <1>8
    <3> QED BY <2>1, <3>1, <3>2 DEF Updating
  <2>6. Updating(d, E[d], G[d], F[d])'
    <3>1. \A v \in Updaters : Frees(v, d)' => uget'[v] = SlotOf(F[d] + 1) /\ ucount'[v] = F[d] - G[d]
      BY <1>2, <2>1, <2>2 DEF Updating
    <3>2. (\A v \in Updaters : ~Frees(v, d)') => F[d] = G[d]
      BY <2>1, <2>2 DEF Updating
    <3> QED BY <2>5, <3>1, <3>2 DEF Updating
  <2> QED BY <2>4, <2>6
<1>15. CountsInv(E, G, F)'
  BY <1>5, <1>14 DEF CountsInv, CountInv
<1> QED BY <1>2, <1>5, <1>10, <1>11, <1>13, <1>15 DEF ChInv, StateInv

LEMMA Locks ==
    ASSUME ChInv, NEW u \in Updaters, UpdLock(u)
    PROVE  ChInv' /\ UNCHANGED pbVars
<1>1. ChType /\ OwnerInv /\ UpdateInv
  BY DEF ChInv, StateInv
<1>2. PICK c \in Channels : uchannel[u] = c
  BY <1>1 DEF ChType, UpdateInv, UpdLock
<1>3. /\ ustep[u] = "read" /\ ~Locked(c)
      /\ pool_lock' = [pool_lock EXCEPT ![PoolOf[c]] = u]
      /\ uget' = [uget EXCEPT ![u] = gpu_get[c]]
      /\ ucount' = [ucount EXCEPT ![u] = 0]
      /\ ustep' = [ustep EXCEPT ![u] = "loop"]
      /\ UNCHANGED <<pbVars, semaphoreVars, fifoVars, ownerVars, destroyed, umode,
                     uchannel, uvalue>>
  BY <1>2 DEF UpdLock
<1>4. PICK E, G, F \in Counts : CountsInv(E, G, F)
  BY DEF ChInv
<1>5. UNCHANGED quietFrame
  BY <1>3 DEF quietFrame, fifoVars, semaphoreVars
<1>6. /\ PbShape' /\ OnceInv' /\ InfoInv' /\ ListInv(E, F)' /\ LiveInv(F)'
      /\ \A d \in Channels : Submitting(d, E[d])'
  BY <1>4, <1>5, QuietKept, ZenonT(60)
<1>7. /\ PoolOf[c] \in Pools /\ pool_lock'[PoolOf[c]] = u
      /\ \A q \in Pushes : step[q] = "submitted" => pool_lock'[PoolOf[push_channel[q]]] = q
      /\ \A v \in Updaters : ustep[v] = "loop" => pool_lock'[PoolOf[uchannel[v]]] = v
  BY <1>1, <1>3, LockTaken, ZenonT(60)
<1>8. F[c] = G[c] /\ \A v \in Updaters : ~Frees(v, c)
  <2>1. CountInv(E, G, F)
    BY <1>4 DEF CountsInv
  <2> QED BY <1>1, <1>3, <2>1, UnlockedCounts, UnlockedIdle
<1> USE DEF fifoVars, ownerVars, semaphoreVars
<1>9. /\ ustep'[u] = "loop" /\ uget'[u] = gpu_get[c] /\ ucount'[u] = 0
      /\ \A v \in Updaters : v # u => /\ ustep'[v] = ustep[v] /\ uget'[v] = uget[v]
                                      /\ ucount'[v] = ucount[v]
  BY <1>1, <1>3 DEF ChType
<1>10. ChType'
  <2>1. /\ pool_lock \in [Pools -> Pushes \cup Updaters \cup {NONE}]
        /\ u \in Pushes \cup Updaters \cup {NONE}
    BY <1>1 DEF ChType
  <2>2. pool_lock' \in [Pools -> Pushes \cup Updaters \cup {NONE}]
    BY <1>3, <1>7, <2>1, ExceptType, ZenonT(60)
  <2>3. /\ ustep' \in [Updaters -> {"idle", "read", "loop"}]
        /\ uget' \in [Updaters -> Nat] /\ ucount' \in [Updaters -> Nat]
    BY <1>1, <1>3 DEF ChType
  <2> QED BY <1>1, <1>3, <2>2, <2>3, TypeKept
<1>11. OwnerInv'
  <2>1. UNCHANGED stage
    BY <1>3 DEF pbVars, pushVars
  <2> QED BY <1>1, <1>3, <1>7, <2>1 DEF OwnerInv
<1>12. UpdateInv'
  BY <1>1, <1>2, <1>3, <1>7, <1>9 DEF UpdateInv
<1>13. ASSUME NEW d \in Channels PROVE Ordered(d, E[d], G[d], F[d])' /\ Updating(d, E[d], G[d], F[d])'
  <2>1. Ordered(d, E[d], G[d], F[d]) /\ Updating(d, E[d], G[d], F[d])
    BY <1>4 DEF CountsInv, CountInv
  <2>2. Ordered(d, E[d], G[d], F[d])'
    BY <1>3, <2>1 DEF Ordered
  <2>3. CASE d = c
    <3>1. \A v \in Updaters : Frees(v, c)' => v = u
      BY <1>3, <1>8, <1>9 DEF Frees
    <3>2. uget'[u] = SlotOf(F[c] + 1) /\ ucount'[u] = F[c] - G[c]
      <4>1. gpu_get[c] = SlotOf(G[c] + 1) /\ G[c] \in Nat
        BY <2>1, <2>3 DEF Ordered, Counts
      <4> QED BY <1>8, <1>9, <4>1
    <3> QED BY <1>3, <1>8, <2>1, <2>2, <2>3, <3>1, <3>2 DEF Updating
  <2>4. CASE d # c
    <3>1. \A v \in Updaters : /\ Frees(v, d)' <=> Frees(v, d)
                              /\ Frees(v, d) => uget'[v] = uget[v] /\ ucount'[v] = ucount[v]
      BY <1>2, <1>3, <1>9, <2>4 DEF Frees
    <3> QED BY <1>3, <2>1, <2>2, <3>1 DEF Updating
  <2> QED BY <2>3, <2>4
<1>14. CountsInv(E, G, F)'
  BY <1>6, <1>13 DEF CountsInv, CountInv
<1> QED BY <1>3, <1>6, <1>10, <1>11, <1>12, <1>14 DEF ChInv, StateInv

\* When a loop that completes everything ends, nothing is left.
LEMMA AllCompleted ==
    ASSUME ChType, NEW u \in Updaters, NEW c \in Channels, uchannel[u] = c,
           umode[u] = "FORCE_ALL", ~MoreToComplete(u), Frees(u, c),
           NEW e \in Nat, NEW g \in Nat, NEW f \in Nat, Ordered(c, e, g, f), Updating(c, e, g, f)
    PROVE  f = e
<1>1. num_gpfifo_entries \in Nat /\ queued_value[c] \in Nat /\ current_pushes_count[c] \in Nat
  BY ChannelConstants DEF ChType
<1>2. /\ g <= f /\ f <= e /\ e <= queued_value[c]
      /\ queued_value[c] + current_pushes_count[c] < g + num_gpfifo_entries
      /\ cpu_put[c] = SlotOf(e + 1) /\ uget[u] = SlotOf(f + 1) /\ ucount[u] = f - g
  BY DEF Ordered, Updating
<1>3. ucount[u] < num_gpfifo_entries /\ e < f + num_gpfifo_entries
  BY <1>1, <1>2
<1>4. SlotOf(f + 1) = SlotOf(e + 1)
  BY <1>2, <1>3 DEF MoreToComplete
<1>5. f < e + num_gpfifo_entries
  BY <1>1, <1>2
<1> QED BY <1>3, <1>4, <1>5, SlotApart, ZenonT(60)

LEMMA Unlocks ==
    ASSUME ChInv, NEW u \in Updaters, UpdUnlock(u)
    PROVE  ChInv' /\ UNCHANGED pbVars
<1>1. ChType /\ OwnerInv /\ UpdateInv
  BY DEF ChInv, StateInv
<1>2. PICK c \in Channels : uchannel[u] = c
  BY <1>1 DEF ChType, UpdateInv, UpdUnlock
<1>3. /\ ustep[u] = "loop" /\ ~MoreToComplete(u)
      /\ gpu_get' = [gpu_get EXCEPT ![c] = uget[u]]
      /\ pool_lock' = [pool_lock EXCEPT ![PoolOf[c]] = NONE]
      /\ ustep' = [ustep EXCEPT ![u] = "idle"]
      /\ umode' = [umode EXCEPT ![u] = "COMPLETED"]
      /\ uchannel' = [uchannel EXCEPT ![u] = NONE]
      /\ uvalue' = [uvalue EXCEPT ![u] = 0]
      /\ uget' = [uget EXCEPT ![u] = 0]
      /\ ucount' = [ucount EXCEPT ![u] = 0]
      /\ UNCHANGED <<pbVars, semaphoreVars, cpu_put, current_pushes_count, entry_value,
                     entry_info, available_push_infos, ownerVars, destroyed>>
  BY <1>2 DEF UpdUnlock
<1>4. PICK E, G, F \in Counts : CountsInv(E, G, F)
  BY DEF ChInv
<1>5. UNCHANGED quietFrame
  BY <1>3 DEF quietFrame, semaphoreVars
<1>6. /\ PbShape' /\ OnceInv' /\ InfoInv' /\ ListInv(E, F)' /\ LiveInv(F)'
      /\ \A d \in Channels : Submitting(d, E[d])'
  BY <1>4, <1>5, QuietKept, ZenonT(60)
<1>7. pool_lock[PoolOf[c]] = u /\ u \in Pushes \cup Updaters /\ u \notin Pushes
  BY <1>1, <1>2, <1>3, ChannelConstants DEF UpdateInv
<1>8. \A q \in Pushes : step[q] = "submitted" /\ q # u =>
         pool_lock'[PoolOf[push_channel[q]]] = q /\ PoolOf[push_channel[q]] # PoolOf[c]
  <2>1. pool_lock' = [pool_lock EXCEPT ![PoolOf[c]] = NONE]
    BY <1>3
  <2> TAKE q \in Pushes
  <2> HAVE step[q] = "submitted" /\ q # u
  <2>2. pool_lock[PoolOf[c]] # q
    BY <1>7
  <2> QED BY <1>1, <2>1, <2>2, LockDroppedPush, ZenonT(60)
<1>9. \A v \in Updaters : ustep[v] = "loop" /\ v # u =>
         pool_lock'[PoolOf[uchannel[v]]] = v /\ PoolOf[uchannel[v]] # PoolOf[c]
  <2>1. pool_lock' = [pool_lock EXCEPT ![PoolOf[c]] = NONE]
    BY <1>3
  <2> TAKE v \in Updaters
  <2> HAVE ustep[v] = "loop" /\ v # u
  <2>2. pool_lock[PoolOf[c]] # v
    BY <1>7
  <2> QED BY <1>1, <2>1, <2>2, LockDroppedUpdate, ZenonT(60)
<1> USE DEF ownerVars, semaphoreVars
<1>10. /\ ustep'[u] = "idle" /\ uchannel'[u] = NONE /\ umode'[u] = "COMPLETED"
       /\ \A v \in Updaters : v # u => /\ ustep'[v] = ustep[v] /\ uget'[v] = uget[v]
                                       /\ ucount'[v] = ucount[v] /\ uvalue'[v] = uvalue[v]
                                       /\ uchannel'[v] = uchannel[v] /\ umode'[v] = umode[v]
  BY <1>1, <1>3 DEF ChType
<1>11. /\ gpu_get'[c] = uget[u] /\ \A d \in Channels : d # c => gpu_get'[d] = gpu_get[d]
  BY <1>1, <1>3 DEF ChType
<1>12. ChType'
  <2>1. /\ pool_lock \in [Pools -> Pushes \cup Updaters \cup {NONE}]
        /\ NONE \in Pushes \cup Updaters \cup {NONE} /\ PoolOf[c] \in Pools
    BY <1>1 DEF ChType, Pools
  <2>2. pool_lock' \in [Pools -> Pushes \cup Updaters \cup {NONE}]
    BY <1>3, <2>1, ExceptType, ZenonT(60)
  <2>3. gpu_get' \in [Channels -> Nat]
    BY <1>1, <1>3 DEF ChType
  <2>4. /\ ustep' \in [Updaters -> {"idle", "read", "loop"}]
        /\ uget' \in [Updaters -> Nat] /\ ucount' \in [Updaters -> Nat]
        /\ uvalue' \in [Updaters -> Nat]
    BY <1>1, <1>3 DEF ChType
  <2>5. /\ umode' \in [Updaters -> {"COMPLETED", "FORCE_ALL"}]
        /\ uchannel' \in [Updaters -> Channels \cup {NONE}]
    BY <1>1, <1>3 DEF ChType
  <2> QED BY <1>1, <1>3, <2>2, <2>3, <2>4, <2>5, TypeKept
<1>13. OwnerInv'
  <2>1. UNCHANGED stage
    BY <1>3 DEF pbVars, pushVars
  <2> QED BY <1>1, <1>3, <1>7, <1>8, <2>1 DEF OwnerInv
<1>14. UpdateInv'
  <2>1. NONE \notin destroyed
    BY <1>1, ChannelConstants DEF ChType
  <2> QED BY <1>1, <1>3, <1>9, <1>10, <2>1 DEF UpdateInv
<1> DEFINE G1 == [G EXCEPT ![c] = F[c]]
<1>15. G1 \in Counts /\ G1[c] = F[c] /\ \A d \in Channels : d # c => G1[d] = G[d]
  BY DEF Counts
<1> HIDE DEF G1
<1>16. ASSUME NEW d \in Channels
       PROVE  Ordered(d, E[d], G1[d], F[d])' /\ Updating(d, E[d], G1[d], F[d])'
  <2>1. Ordered(d, E[d], G[d], F[d]) /\ Updating(d, E[d], G[d], F[d])
    BY <1>4 DEF CountsInv, CountInv
  <2>2. CASE d = c
    <3>1. Frees(u, c)
      BY <1>2, <1>3 DEF Frees
    <3>2. uget[u] = SlotOf(F[c] + 1)
      BY <2>1, <2>2, <3>1 DEF Updating
    <3>3. /\ E[c] \in Nat /\ G[c] \in Nat /\ F[c] \in Nat /\ num_gpfifo_entries \in Nat
          /\ queued_value[c] \in Nat /\ current_pushes_count[c] \in Nat
      BY <1>1, ChannelConstants DEF Counts, ChType
    <3>4. queued_value[c] + current_pushes_count[c] < F[c] + num_gpfifo_entries
      BY <2>1, <2>2, <3>3 DEF Ordered
    <3>5. Ordered(c, E[c], F[c], F[c])'
      BY <1>3, <1>11, <2>1, <2>2, <3>2, <3>3, <3>4 DEF Ordered
    <3>6. \A v \in Updaters : ~Frees(v, c)'
      BY <1>9, <1>10, ChannelConstants DEF Frees
    <3>7. c \in destroyed => F[c] = E[c]
      <4> SUFFICES ASSUME c \in destroyed PROVE F[c] = E[c]
        OBVIOUS
      <4>1. umode[u] = "FORCE_ALL"
        BY <1>1, <1>2 DEF UpdateInv
      <4>2. Ordered(c, E[c], G[c], F[c]) /\ Updating(c, E[c], G[c], F[c])
        BY <2>1, <2>2
      <4> QED BY <1>1, <1>2, <1>3, <3>1, <3>3, <4>1, <4>2, AllCompleted, ZenonT(60)
    <3>8. Updating(c, E[c], F[c], F[c])'
      BY <1>3, <3>6, <3>7 DEF Updating
    <3> QED BY <1>15, <2>2, <3>5, <3>8
  <2>3. CASE d # c
    <3>1. Ordered(d, E[d], G[d], F[d])'
      BY <1>3, <1>11, <2>1, <2>3 DEF Ordered
    <3>2. \A v \in Updaters : /\ Frees(v, d)' <=> Frees(v, d)
                              /\ Frees(v, d) => uget'[v] = uget[v] /\ ucount'[v] = ucount[v]
      BY <1>2, <1>10, <2>3, ChannelConstants DEF Frees
    <3>3. \A v \in Updaters : uchannel'[v] # d => uchannel[v] # d
      BY <1>2, <1>10, <2>3
    <3>4. Updating(d, E[d], G[d], F[d])'
      BY <1>3, <2>1, <3>2, <3>3 DEF Updating
    <3> QED BY <1>15, <2>3, <3>1, <3>4
  <2> QED BY <2>2, <2>3
<1>17. CountsInv(E, G1, F)'
  BY <1>6, <1>16 DEF CountsInv, CountInv
<1> QED BY <1>3, <1>6, <1>12, <1>13, <1>14, <1>15, <1>17, ZenonT(60) DEF ChInv, StateInv

LEMMA AppendNat ==
    ASSUME NEW s \in Seq(Nat), NEW x \in Nat
    PROVE  /\ Len(s) \in Nat /\ Len(Append(s, x)) = Len(s) + 1 /\ Append(s, x) \in Seq(Nat)
           /\ \A i \in 1..Len(s) : Append(s, x)[i] = s[i]
           /\ Append(s, x)[Len(s) + 1] = x
  OBVIOUS

\* The entry an update frees next is the oldest one that is not free, and its
\* push has completed unless the channel is being destroyed.
LEMMA NextToMark ==
    ASSUME ChType, UpdateInv, NEW u \in Updaters, NEW c \in Channels, Frees(u, c), MoreToComplete(u),
           NEW e \in Nat, NEW g \in Nat, NEW f \in Nat,
           Ordered(c, e, g, f), Updating(c, e, g, f), Listed(c, e, f)
    PROVE  /\ f + 1 <= e
           /\ c \notin destroyed => f + 1 <= completed_value[c]
           /\ uget[u] = SlotOf(f + 1) /\ ucount[u] = f - g
<1>1. uget[u] = SlotOf(f + 1) /\ ucount[u] = f - g /\ uchannel[u] = c
  BY DEF Updating, Frees
<1>2. cpu_put[c] = SlotOf(e + 1) /\ f <= e /\ e <= queued_value[c]
  BY DEF Ordered
<1>3. f # e
  BY <1>1, <1>2 DEF MoreToComplete
<1>4. f + 1 <= e /\ f < queued_value[c]
  BY <1>2, <1>3 DEF ChType
<1>5. entry_value[c][SlotOf(f + 1)] = f + 1
  BY <1>4 DEF Listed
<1>6. ASSUME c \notin destroyed PROVE f + 1 <= completed_value[c]
  <2>1. umode[u] # "FORCE_ALL" /\ uvalue[u] <= completed_value[c]
    BY <1>1, <1>6, ChannelConstants DEF UpdateInv
  <2>2. f + 1 <= uvalue[u]
    BY <1>1, <1>5, <2>1 DEF MoreToComplete
  <2>3. uvalue[u] \in Nat /\ completed_value[c] \in Nat
    BY DEF ChType
  <2> QED BY <2>1, <2>2, <2>3
<1> QED BY <1>1, <1>4, <1>6

LEMMA Marks ==
    ASSUME ChInv, NEW u \in Updaters, UpdMark(u)
    PROVE  ChInv' /\ PbErrorStep
<1>1. ChType /\ OwnerInv /\ UpdateInv /\ InfoInv /\ OnceInv /\ PbShape
  BY DEF ChInv, StateInv
<1>2. PICK c \in Channels : uchannel[u] = c
  BY <1>1 DEF ChType, UpdateInv, UpdMark
<1>3. PICK get \in Nat : get = uget[u]
  BY <1>1 DEF ChType
<1> DEFINE s == available_push_infos[c]
<1>4. s \in Seq(Nat) /\ s = available_push_infos[c]
  BY <1>1 DEF ChType
<1> HIDE DEF s
<1>5. /\ ustep[u] = "loop" /\ MoreToComplete(u) /\ uvm_pushbuffer_mark_completed(<<c, get>>)
      /\ available_push_infos' =
            [available_push_infos EXCEPT ![c] = Append(s, entry_info[c][get])]
      /\ uget' = [uget EXCEPT ![u] = NextSlot(get)]
      /\ ucount' = [ucount EXCEPT ![u] = @ + 1]
      /\ UNCHANGED <<semaphoreVars, cpu_put, gpu_get, current_pushes_count, entry_value,
                     entry_info, pool_lock, ownerVars, destroyed, ustep, umode, uchannel, uvalue>>
  <2>1. available_push_infos' =
           [available_push_infos EXCEPT ![c] = Append(available_push_infos[c], entry_info[c][get])]
    BY <1>2, <1>3 DEF UpdMark
  <2> QED BY <1>2, <1>3, <1>4, <2>1 DEF UpdMark
<1>6. PICK E, G, F \in Counts : CountsInv(E, G, F)
  BY DEF ChInv
<1>7. /\ Ordered(c, E[c], G[c], F[c]) /\ Listed(c, E[c], F[c]) /\ Counted(c, F[c])
      /\ Updating(c, E[c], G[c], F[c]) /\ E[c] \in Nat /\ G[c] \in Nat /\ F[c] \in Nat
  BY <1>6 DEF CountsInv, CountInv, ListInv, LiveInv, Counts
<1>8. Frees(u, c)
  BY <1>2, <1>5 DEF Frees
<1>9. /\ F[c] + 1 <= E[c]
      /\ c \notin destroyed => F[c] + 1 <= completed_value[c]
      /\ get = SlotOf(F[c] + 1) /\ ucount[u] = F[c] - G[c]
  <2>1. MoreToComplete(u)
    BY <1>5
  <2>2. PICK e, g, f \in Nat : e = E[c] /\ g = G[c] /\ f = F[c]
    BY <1>7
  <2>3. Ordered(c, e, g, f) /\ Updating(c, e, g, f) /\ Listed(c, e, f)
    BY <1>7, <2>2
  <2>4. ChType /\ UpdateInv
    BY <1>1
  <2>5. /\ f + 1 <= e
        /\ c \notin destroyed => f + 1 <= completed_value[c]
        /\ uget[u] = SlotOf(f + 1) /\ ucount[u] = f - g
    BY <1>8, <2>1, <2>3, <2>4, NextToMark, SMT
  <2> QED BY <1>3, <2>2, <2>5
<1>10. get \in Slots /\ <<c, get>> \in Gpfifos /\ get \in Nat
  <2>1. get \in Slots
    BY <1>7, <1>9, SlotType, ZenonT(60)
  <2> QED BY <2>1, ChannelConstants
<1>11. PbErrorStep /\ UNCHANGED stage
  <2>1. UNCHANGED stage
    BY <1>5 DEF uvm_pushbuffer_mark_completed, MarkCompletedAt, pushVars
  <2> QED BY <1>5, <1>10, <2>1 DEF PbErrorStep, PbStep
<1>12. /\ OnceInv' /\ IsPending(<<c, get>>)
       /\ \A x : IsPending(x)' <=> (IsPending(x) /\ x # <<c, get>>)
  BY <1>1, <1>5, <1>10, MarkUnpends, ZenonT(60)
<1>13. PICK x \in Nat : x = entry_info[c][get]
  BY <1>1, <1>10 DEF ChType
<1>14. /\ available_push_infos'[c] = Append(s, x)
       /\ \A d \in Channels : d # c => available_push_infos'[d] = available_push_infos[d]
       /\ available_push_infos' \in [Channels -> Seq(Nat)]
  <2>1. Append(s, x) \in Seq(Nat) /\ available_push_infos \in [Channels -> Seq(Nat)]
    BY <1>1, <1>4, AppendNat DEF ChType
  <2>2. available_push_infos' = [available_push_infos EXCEPT ![c] = Append(s, x)]
    BY <1>5, <1>13
  <2> QED BY <2>1, <2>2
<1>15. \A v \in Updaters : Frees(v, c) => v = u
  <2>1. \A v \in Updaters : Frees(v, c) => pool_lock[PoolOf[c]] = v
    BY <1>1 DEF UpdateInv, Frees
  <2> QED BY <1>8, <2>1
<1>16. NextSlot(get) = SlotOf((F[c] + 1) + 1) /\ NextSlot(get) \in Nat
  <2>1. NextSlot(SlotOf(F[c] + 1)) = SlotOf(F[c] + 2)
    BY <1>7, SlotNext
  <2>2. F[c] + 2 = (F[c] + 1) + 1 /\ F[c] + 1 \in Nat
    BY <1>7
  <2>3. SlotOf((F[c] + 1) + 1) \in Slots /\ Slots \subseteq Nat
    BY <2>2, SlotType, ChannelConstants DEF Slots
  <2> QED BY <1>9, <2>1, <2>2, <2>3
<1>17. /\ uget'[u] = NextSlot(get) /\ ucount'[u] = ucount[u] + 1
       /\ \A v \in Updaters : v # u => uget'[v] = uget[v] /\ ucount'[v] = ucount[v]
       /\ uget' \in [Updaters -> Nat] /\ ucount' \in [Updaters -> Nat]
  BY <1>1, <1>5, <1>16 DEF ChType
<1> USE DEF ownerVars, semaphoreVars
<1>18. ChType'
  <2>1. UNCHANGED <<queued_value, completed_value, gpu_done, cpu_put, gpu_get,
                    current_pushes_count, entry_value, entry_info, pool_lock>>
    BY <1>5
  <2>2. UNCHANGED <<step, wanted, push_channel, push_info_index, push_size, destroyed, ustep,
                    umode, uchannel, uvalue>>
    BY <1>5
  <2> QED BY <1>1, <1>14, <1>17, <2>1, <2>2, TypeKept
<1>19. OwnerInv'
  BY <1>1, <1>5, <1>11 DEF OwnerInv
<1>20. UpdateInv'
  BY <1>1, <1>5 DEF UpdateInv
<1>21. \A d \in Channels : SameUsers(d)
  BY <1>5 DEF SameUsers, Reserved, Open, InfoHolders, Submits
<1> DEFINE F1 == [F EXCEPT ![c] = @ + 1]
<1>22. F1 \in Counts /\ F1[c] = F[c] + 1 /\ \A d \in Channels : d # c => F1[d] = F[d]
  BY <1>7 DEF Counts
<1> HIDE DEF F1
<1>23. ASSUME NEW d \in Channels
       PROVE  /\ Ordered(d, E[d], G[d], F1[d])' /\ Submitting(d, E[d])'
              /\ Updating(d, E[d], G[d], F1[d])'
  <2>1. Ordered(d, E[d], G[d], F[d]) /\ Submitting(d, E[d]) /\ Updating(d, E[d], G[d], F[d])
    BY <1>6 DEF CountsInv, CountInv
  <2>2. Submitting(d, E[d])'
    BY <1>5, <1>21, <2>1 DEF Submitting, SameUsers
  <2>3. CASE d # c
    <3>1. Ordered(d, E[d], G[d], F[d])'
      BY <1>5, <2>1 DEF Ordered
    <3>2. \A v \in Updaters : Frees(v, d) => v # u
      BY <1>2, <2>3 DEF Frees
    <3>3. Updating(d, E[d], G[d], F[d])'
      BY <1>5, <1>17, <2>1, <3>2 DEF Updating, Frees
    <3> QED BY <1>22, <2>2, <2>3, <3>1, <3>3
  <2>4. CASE d = c
    <3>1. G[c] <= F[c] + 1
      BY <1>7 DEF Ordered
    <3>2. Ordered(c, E[c], G[c], F[c] + 1)'
      BY <1>5, <1>7, <1>9, <3>1 DEF Ordered
    <3>3. ucount'[u] = (F[c] + 1) - G[c] /\ uget'[u] = SlotOf((F[c] + 1) + 1)
      BY <1>7, <1>9, <1>16, <1>17
    <3>4. Frees(u, c)' /\ \A v \in Updaters : Frees(v, c)' => v = u
      BY <1>5, <1>8, <1>15 DEF Frees
    <3>5. Updating(c, E[c], G[c], F[c] + 1)'
      BY <3>3, <3>4 DEF Updating, Frees
    <3> QED BY <1>22, <2>2, <2>4, <3>2, <3>5
  <2> QED BY <2>3, <2>4
<1>24. ASSUME NEW d \in Channels PROVE Listed(d, E[d], F1[d])'
  <2>1. Listed(d, E[d], F[d])
    BY <1>6 DEF CountsInv, ListInv
  <2>2. UNCHANGED <<queued_value, entry_value>>
    BY <1>5
  <2>3. CASE d # c
    <3>1. \A i \in Slots : IsPending(<<d, i>>)' <=> IsPending(<<d, i>>)
      BY <1>12, <2>3
    <3>2. Listed(d, E[d], F[d])'
      BY <2>1, <2>2, <3>1 DEF Listed
    <3> QED BY <1>22, <2>3, <3>2
  <2>4. CASE d = c
    <3>1. \A i \in Slots : IsPending(<<c, i>>)' <=> (IsPending(<<c, i>>) /\ i # get)
      BY <1>12
    <3>2. \A v \in Nat : /\ F[c] + 1 <= v => F[c] <= v /\ v # F[c]
                         /\ F[c] <= v /\ v # F[c] => F[c] + 1 <= v
      BY <1>7
    <3>3. \A v \in Nat : F[c] + 1 <= v /\ v < E[c] => SlotOf(v + 1) # get
      <4> SUFFICES ASSUME NEW v \in Nat, F[c] + 1 <= v, v < E[c] PROVE SlotOf(v + 1) # SlotOf(F[c] + 1)
        BY <1>9
      <4>1. num_gpfifo_entries \in Nat /\ E[c] < F[c] + num_gpfifo_entries
        <5>1. /\ queued_value[c] \in Nat /\ current_pushes_count[c] \in Nat
              /\ num_gpfifo_entries \in Nat
          BY <1>1, ChannelConstants DEF ChType
        <5> QED BY <1>7, <5>1 DEF Ordered
      <4>2. v < F[c] + num_gpfifo_entries /\ F[c] < v + num_gpfifo_entries /\ v # F[c]
        BY <1>7, <4>1
      <4> QED BY <1>7, <4>2, SlotApart, ZenonT(60)
    <3>4. ASSUME NEW i \in Slots
          PROVE  IsPending(<<c, i>>)' <=> \E v \in Nat : F[c] + 1 <= v /\ v < E[c] /\ i = SlotOf(v + 1)
      <4>1. IsPending(<<c, i>>) <=> \E v \in Nat : F[c] <= v /\ v < E[c] /\ i = SlotOf(v + 1)
        BY <1>7 DEF Listed
      <4> QED BY <1>7, <1>9, <3>1, <3>2, <3>3, <4>1, ZenonT(60)
    <3>5. \A v \in Nat : F[c] + 1 <= v /\ v < queued_value[c] => entry_value[c][SlotOf(v + 1)] = v + 1
      <4>1. \A v \in Nat : F[c] <= v /\ v < queued_value[c] => entry_value[c][SlotOf(v + 1)] = v + 1
        BY <1>7 DEF Listed
      <4> QED BY <3>2, <4>1, ZenonT(60)
    <3>6. Listed(c, E[c], F[c] + 1)'
      BY <2>2, <3>4, <3>5, ZenonT(60) DEF Listed
    <3> QED BY <1>22, <2>4, <3>6
  <2> QED BY <2>3, <2>4
<1>25. ASSUME NEW d \in Channels PROVE Counted(d, F1[d])'
  <2>1. Counted(d, F[d]) /\ SameUsers(d)
    BY <1>6, <1>21 DEF CountsInv, LiveInv
  <2>2. CASE d # c
    <3>1. /\ Reserved(d)' = Reserved(d) /\ Open(d)' = Open(d) /\ F1[d] = F[d]
          /\ available_push_infos'[d] = available_push_infos[d]
          /\ queued_value' = queued_value /\ current_pushes_count' = current_pushes_count
      BY <1>5, <1>14, <1>22, <2>1, <2>2 DEF SameUsers
    <3> QED BY <2>1, <3>1, ZenonT(60) DEF Counted
  <2>3. CASE d = c
    <3>1. PICK r, o \in Nat :
             /\ Sized(Reserved(c), r) /\ Sized(Open(c), o) /\ r + o <= current_pushes_count[c]
             /\ Len(available_push_infos[c]) + o + queued_value[c] = num_gpfifo_entries + F[c]
      BY <1>7 DEF Counted
    <3>2. PICK n, k, q, N, f \in Nat : /\ n = Len(s) /\ k = o /\ q = queued_value[c]
                                       /\ N = num_gpfifo_entries /\ f = F[c]
      <4>1. Len(s) \in Nat /\ queued_value[c] \in Nat /\ num_gpfifo_entries \in Nat
        BY <1>1, ChannelConstants DEF ChType
      <4> QED BY <1>7, <4>1
    <3>3. n + k + q = N + f
      <4>1. s = available_push_infos[c]
        BY <1>4
      <4> QED BY <3>1, <3>2, <4>1, ZenonT(60)
    <3>4. (n + 1) + k + q = N + (f + 1)
      BY <3>3
    <3>5. Len(available_push_infos'[c]) = n + 1
      BY <1>13, <1>14, <3>2, AppendNat
    <3>6. Open(c)' = Open(c) /\ Reserved(c)' = Reserved(c) /\ UNCHANGED <<queued_value, current_pushes_count>>
      BY <1>5, <1>21, <2>3 DEF SameUsers
    <3>7. Len(available_push_infos'[c]) + o + queued_value'[c] = num_gpfifo_entries + F1[c]
      BY <1>22, <3>2, <3>4, <3>5, <3>6
    <3>8. Sized(Reserved(c)', r) /\ Sized(Open(c)', o) /\ r + o <= current_pushes_count'[c]
      BY <3>1, <3>6
    <3> QED BY <2>3, <3>7, <3>8, ZenonT(60) DEF Counted
  <2> QED BY <2>2, <2>3
<1>26. ASSUME NEW d \in Channels PROVE InfoOnce(d)'
  <2>1. InfoOnce(d) /\ SameUsers(d) /\ UNCHANGED <<entry_info, cpu_put, push_info_index>>
    BY <1>1, <1>5, <1>21 DEF InfoInv
  <2>2. CASE d # c
    <3>1. \A i \in Slots : IsPending(<<d, i>>)' <=> IsPending(<<d, i>>)
      BY <1>12, <2>2
    <3>2. available_push_infos'[d] = available_push_infos[d]
      BY <1>14, <2>2
    <3>3. /\ InfoHolders(d)' = InfoHolders(d)
          /\ \A q \in Pushes : Submits(q, d)' <=> Submits(q, d)
      BY <2>1 DEF SameUsers
    <3> QED BY <2>1, <3>1, <3>2, <3>3 DEF InfoOnce
  <2>3. CASE d = c
    <3>1. \A i \in Slots : IsPending(<<c, i>>)' <=> (IsPending(<<c, i>>) /\ i # get)
      BY <1>12
    <3>2. /\ \A i, j \in 1..Len(s) : i # j => s[i] # s[j]
          /\ \A i \in 1..Len(s), j \in Slots : IsPending(<<c, j>>) => s[i] # entry_info[c][j]
          /\ \A i \in 1..Len(s), q \in InfoHolders(c) : s[i] # push_info_index[q]
          /\ \A q \in InfoHolders(c), j \in Slots :
                IsPending(<<c, j>>) => push_info_index[q] # entry_info[c][j]
          /\ \A q, r \in InfoHolders(c) : q # r => push_info_index[q] # push_info_index[r]
          /\ \A i, j \in Slots : IsPending(<<c, i>>) /\ IsPending(<<c, j>>) /\ i # j =>
                entry_info[c][i] # entry_info[c][j]
          /\ \A q \in Pushes : Submits(q, c) => entry_info[c][cpu_put[c]] = push_info_index[q]
      <4>1. InfoOnce(c)
        BY <2>1, <2>3
      <4> QED BY <4>1, ZenonT(60) DEF InfoOnce, s
    <3> DEFINE t == Append(s, x)
    <3>3. /\ Len(s) \in Nat /\ Len(t) = Len(s) + 1
          /\ \A i \in 1..Len(s) : t[i] = s[i]
          /\ t[Len(s) + 1] = x
      BY AppendNat
    <3>4. \A i \in 1..Len(t) : (i \in 1..Len(s) /\ t[i] = s[i]) \/ (i = Len(s) + 1 /\ t[i] = x)
      <4> HIDE DEF t
      <4>1. PICK n \in Nat : n = Len(s)
        BY <3>3
      <4>2. \A i \in 1..(n + 1) : i \in 1..n \/ i = n + 1
        OBVIOUS
      <4>3. \A i \in 1..Len(t) : i \in 1..Len(s) \/ i = Len(s) + 1
        BY <3>3, <4>1, <4>2, ZenonT(60)
      <4> SUFFICES ASSUME NEW i \in 1..Len(t)
                   PROVE  (i \in 1..Len(s) /\ t[i] = s[i]) \/ (i = Len(s) + 1 /\ t[i] = x)
        OBVIOUS
      <4>4. CASE i \in 1..Len(s)
        <5>1. t[i] = s[i]
          BY <3>3, <4>4
        <5> QED BY <4>4, <5>1, ZenonT(60)
      <4>5. CASE i = Len(s) + 1
        <5>1. t[Len(s) + 1] = x
          BY <3>3
        <5> QED BY <4>5, <5>1
      <4> QED BY <4>3, <4>4, <4>5, ZenonT(60)
    <3> HIDE DEF t
    <3>5. \A i \in 1..Len(s) : s[i] # x
      BY <1>10, <1>12, <1>13, <3>2
    <3>6. ASSUME NEW i \in 1..Len(t), NEW j \in 1..Len(t), i # j PROVE t[i] # t[j]
      <4>1. CASE i \in 1..Len(s) /\ t[i] = s[i] /\ j \in 1..Len(s) /\ t[j] = s[j]
        BY <3>2, <3>6, <4>1
      <4>2. CASE i \in 1..Len(s) /\ t[i] = s[i] /\ j = Len(s) + 1 /\ t[j] = x
        BY <3>5, <4>2
      <4>3. CASE i = Len(s) + 1 /\ t[i] = x /\ j \in 1..Len(s) /\ t[j] = s[j]
        BY <3>5, <4>3
      <4>4. CASE i = Len(s) + 1 /\ j = Len(s) + 1
        BY <3>6, <4>4
      <4> QED BY <3>4, <4>1, <4>2, <4>3, <4>4, ZenonT(60)
    <3>7. \A i \in 1..Len(t), j \in Slots : IsPending(<<c, j>>)' => t[i] # entry_info[c][j]
      <4>1. \A j \in Slots : IsPending(<<c, j>>)' => IsPending(<<c, j>>) /\ x # entry_info[c][j]
        BY <1>10, <1>12, <1>13, <3>1, <3>2
      <4> SUFFICES ASSUME NEW i \in 1..Len(t), NEW j \in Slots, IsPending(<<c, j>>)'
                   PROVE  t[i] # entry_info[c][j]
        OBVIOUS
      <4>2. IsPending(<<c, j>>) /\ x # entry_info[c][j]
        BY <4>1
      <4>3. CASE i \in 1..Len(s) /\ t[i] = s[i]
        BY <3>2, <4>2, <4>3
      <4>4. CASE t[i] = x
        BY <4>2, <4>4
      <4> QED BY <3>4, <4>3, <4>4, ZenonT(60)
    <3>8. \A i \in 1..Len(t), q \in InfoHolders(c) : t[i] # push_info_index[q]
      <4>1. \A q \in InfoHolders(c) : x # push_info_index[q]
        BY <1>10, <1>12, <1>13, <3>2
      <4> SUFFICES ASSUME NEW i \in 1..Len(t), NEW q \in InfoHolders(c)
                   PROVE  t[i] # push_info_index[q]
        OBVIOUS
      <4>3. CASE i \in 1..Len(s) /\ t[i] = s[i]
        BY <3>2, <4>3
      <4>4. CASE t[i] = x
        BY <4>1, <4>4
      <4> QED BY <3>4, <4>3, <4>4, ZenonT(60)
    <3>9. available_push_infos'[c] = t
      BY <1>14 DEF t
    <3> QED BY <2>1, <2>3, <3>1, <3>2, <3>6, <3>7, <3>8, <3>9 DEF InfoOnce, SameUsers
  <2> QED BY <2>2, <2>3
<1>27. CountsInv(E, G, F1)' /\ InfoInv'
  BY <1>23, <1>24, <1>25, <1>26 DEF CountsInv, CountInv, ListInv, LiveInv, InfoInv
<1>28. PbShape'
  BY <1>1, <1>11, PbShapeStep
<1> QED BY <1>11, <1>12, <1>18, <1>19, <1>20, <1>22, <1>27, <1>28, ZenonT(60) DEF ChInv, StateInv

-----------------------------------------------------------------------------
(* The steps together *)

LEMMA ReserveSteps ==
    ASSUME ChInv, NEW p \in Pushes,
           \/ \E S \in Requests : StartPush(p, S)
           \/ ReserveTryFails(p) \/ ReserveChecks(p)
           \/ \E c \in Channels : ReserveLastTry(p, c)
    PROVE  ChInv' /\ UNCHANGED pbVars
<1>1. /\ wanted \in [Pushes -> SUBSET Channels] /\ wanted[p] \in SUBSET Channels
      /\ wanted[p] \cap destroyed = {} /\ wanted = [wanted EXCEPT ![p] = wanted[p]]
  BY DEF ChInv, StateInv, ChType, OwnerInv
<1>2. {} \in SUBSET Channels /\ {} \cap destroyed = {}
  OBVIOUS
<1>3. /\ "idle" \in Steps \ Holding /\ "reserving" \in Steps \ Holding
      /\ "checking" \in Steps \ Holding /\ "failing" \in Steps \ Holding
  BY DEF Steps, Holding
<1>4. ASSUME NEW S \in Requests, StartPush(p, S) PROVE ChInv' /\ UNCHANGED pbVars
  <2>1. S \in SUBSET Channels
    BY DEF Requests
  <2>2. /\ step[p] = "idle" /\ S \cap destroyed = {} /\ step' = [step EXCEPT ![p] = "reserving"]
        /\ wanted' = [wanted EXCEPT ![p] = S]
        /\ UNCHANGED push_channel /\ UNCHANGED reserveFrame /\ UNCHANGED current_pushes_count
    BY <1>4 DEF StartPush, reserveFrame, fifoVars
  <2> QED BY <1>3, <2>1, <2>2, Reserving, ZenonT(60)
<1>5. CASE ReserveTryFails(p)
  <2>1. /\ step[p] = "reserving" /\ step' = [step EXCEPT ![p] = "checking"]
        /\ wanted' = [wanted EXCEPT ![p] = wanted[p]]
        /\ UNCHANGED push_channel /\ UNCHANGED reserveFrame /\ UNCHANGED current_pushes_count
    BY <1>1, <1>5 DEF ReserveTryFails, reserveFrame, claimFrame
  <2> QED BY <1>1, <1>3, <2>1, Reserving, ZenonT(60)
<1>6. CASE ReserveChecks(p)
  <2>1. PICK to \in {"reserving", "idle", "failing"}, S \in {wanted[p], {}} :
           step' = [step EXCEPT ![p] = to] /\ wanted' = [wanted EXCEPT ![p] = S]
    BY <1>1, <1>6 DEF ReserveChecks
  <2>2. /\ step[p] = "checking" /\ UNCHANGED push_channel /\ UNCHANGED reserveFrame
        /\ UNCHANGED current_pushes_count
    BY <1>6 DEF ReserveChecks, reserveFrame, claimFrame
  <2>3. to \in Steps \ Holding /\ S \in SUBSET Channels /\ S \cap destroyed = {}
    BY <1>1, <1>3
  <2> QED BY <1>3, <2>1, <2>2, <2>3, Reserving, ZenonT(60)
<1>7. ASSUME NEW c \in Channels, ReserveLastTry(p, c) PROVE ChInv' /\ UNCHANGED pbVars
  <2>1. /\ step[p] = "failing" /\ step' = [step EXCEPT ![p] = "idle"]
        /\ wanted' = [wanted EXCEPT ![p] = {}]
        /\ UNCHANGED push_channel /\ UNCHANGED reserveFrame
    BY <1>7 DEF ReserveLastTry, reserveFrame, claimFrame
  <2>2. UNCHANGED current_pushes_count \/ \E d \in Channels : Claims(d)
    BY <1>7 DEF ReserveLastTry, Claims
  <2> QED BY <1>2, <1>3, <2>1, <2>2, Reserving, ZenonT(60)
<1> QED BY <1>4, <1>5, <1>6, <1>7

LEMMA PushSteps ==
    ASSUME ChInv, NEW p \in Pushes, PushStep(p)
    PROVE  ChInv' /\ [PbErrorStep]_pbVars
<1>1. ASSUME NEW c \in Channels, try_claim_channel(p, c) PROVE ChInv' /\ UNCHANGED pbVars
  BY <1>1, TryClaims, ZenonT(60)
<1>2. CASE BeginInPushbuffer(p)
  BY <1>2, Begins
<1>3. CASE TakePushInfo(p)
  BY <1>3, Takes
<1>4. ASSUME NEW size \in 1..MAX_PUSH, EndSubmit(p, size) PROVE ChInv' /\ UNCHANGED pbVars
  BY <1>4, Submitted
<1>5. CASE EndFinish(p)
  BY <1>5, Finishes
<1> QED BY <1>1, <1>2, <1>3, <1>4, <1>5 DEF PushStep

LEMMA UpdateSteps ==
    ASSUME ChInv, NEW u \in Updaters,
           UpdateStep(u) \/ \E c \in Channels : channel_destroy(u, c)
    PROVE  ChInv' /\ [PbErrorStep]_pbVars
<1>1. ASSUME NEW c \in Channels, UpdRead(u, c) PROVE ChInv' /\ UNCHANGED pbVars
  BY <1>1, Reads DEF UpdRead
<1>2. ASSUME NEW c \in Channels, channel_destroy(u, c) PROVE ChInv' /\ UNCHANGED pbVars
  <2>1. /\ UpdReadFor(u, c)
        /\ \A p \in Pushes : push_channel[p] # c /\ c \notin wanted[p]
        /\ \A v \in Updaters : uchannel[v] # c
        /\ umode' = [umode EXCEPT ![u] = "FORCE_ALL"]
        /\ destroyed' = destroyed \cup {c}
    BY <1>2 DEF channel_destroy
  <2> QED BY <2>1, Reads, ZenonT(60)
<1>3. CASE UpdLock(u)
  BY <1>3, Locks
<1>4. CASE UpdMark(u)
  BY <1>4, Marks
<1>5. CASE UpdUnlock(u)
  BY <1>5, Unlocks
<1> QED BY <1>1, <1>2, <1>3, <1>4, <1>5 DEF UpdateStep

\* The invariant is inductive, and every step of the channels is a step of the
\* pushbuffer or leaves it alone.
LEMMA ChStepInv ==
    ASSUME ChInv, [ChNext \/ ErrorStep]_chVars
    PROVE  ChInv' /\ [PbErrorStep]_pbVars
<1>1. CASE UNCHANGED chVars
  <2>1. ChInv'
    <3>1. UNCHANGED <<channelFrame, ownerVars, pbVars>>
      BY <1>1 DEF chVars, channelFrame
    <3>2. ChType /\ OwnerInv
      BY DEF ChInv, StateInv
    <3>3. UNCHANGED <<pending_gpfifos, stage>> /\ UNCHANGED push_info_index
      BY <3>1 DEF pbVars, chunkVars, pushVars, ownerVars
    <3>4. ChType' /\ OwnerInv'
      BY <3>1, <3>2, <3>3 DEF ChType, OwnerInv, channelFrame, ownerVars, semaphoreVars, fifoVars, updateVars
    <3>5. \A c \in Channels : SameUsers(c)
      BY <3>1 DEF SameUsers, Reserved, Open, InfoHolders, Submits, ownerVars
    <3> QED BY <3>1, <3>3, <3>4, <3>5, FrameKept
  <2> QED BY <1>1, <2>1 DEF chVars
<1>2. CASE ChNext
  <2>1. ASSUME NEW c \in Channels, GpuRun(c) PROVE ChInv' /\ UNCHANGED pbVars
    BY <2>1, GpuRuns
  <2> QED BY <1>2, <2>1, ReserveSteps, PushSteps, UpdateSteps DEF ChNext
<1>3. CASE ErrorStep
  <2>1. ASSUME ChannelError, UNCHANGED <<semaphoreVars, fifoVars, pool_lock, ownerVars, updateVars>>
        PROVE  ChInv' /\ PbErrorStep
    BY <2>1, Errs DEF channelFrame, PbErrorStep
  <2> QED BY <1>3, <2>1, ReserveSteps, BeginErrs, UpdateSteps DEF ErrorStep
<1> QED BY <1>1, <1>2, <1>3

-----------------------------------------------------------------------------
(* What the invariant says of the properties *)

\* The entries of pushes the GPU has not run hold their values.
LEMMA EntriesIntact == ChInv => SlotIntact
<1> SUFFICES ASSUME ChInv, NEW c \in Channels \ destroyed,
                    NEW v \in (gpu_done[c] + 1) .. queued_value[c]
             PROVE  entry_value[c][SlotOf(v)] = v
  BY DEF SlotIntact
<1>1. ChType
  BY DEF ChInv, StateInv
<1>2. PICK E, G, F \in Counts : CountsInv(E, G, F)
  BY DEF ChInv
<1>3. Ordered(c, E[c], G[c], F[c]) /\ Listed(c, E[c], F[c])
  BY <1>2 DEF CountsInv, CountInv, ListInv
<1>4. PICK w \in Nat : v = w + 1 /\ gpu_done[c] <= w /\ w < queued_value[c]
  <2>1. gpu_done[c] \in Nat /\ queued_value[c] \in Nat
    BY <1>1 DEF ChType
  <2>2. v - 1 \in Nat /\ v = (v - 1) + 1 /\ gpu_done[c] <= v - 1 /\ v - 1 < queued_value[c]
    BY <2>1
  <2> QED BY <2>2
<1>5. F[c] <= w
  <2>1. F[c] <= completed_value[c] /\ completed_value[c] <= gpu_done[c]
    BY <1>3 DEF Ordered
  <2>2. F[c] \in Nat /\ completed_value[c] \in Nat /\ gpu_done[c] \in Nat
    BY <1>1 DEF ChType, Counts
  <2> QED BY <1>4, <2>1, <2>2
<1>6. entry_value[c][SlotOf(w + 1)] = w + 1
  BY <1>3, <1>4, <1>5 DEF Listed
<1> QED BY <1>4, <1>6

\* They are pending, except for one that is just being ended.
LEMMA StillPending == ChInv => UnfinishedPending
<1> SUFFICES ASSUME ChInv, NEW c \in Channels \ destroyed,
                    NEW v \in (gpu_done[c] + 1) .. queued_value[c]
             PROVE  \/ IsPending(<<c, SlotOf(v)>>)
                    \/ /\ v = queued_value[c]
                       /\ \E p \in Pushes : step[p] = "submitted" /\ push_channel[p] = c
  BY DEF UnfinishedPending
<1>1. ChType
  BY DEF ChInv, StateInv
<1>2. PICK E, G, F \in Counts : CountsInv(E, G, F)
  BY DEF ChInv
<1>3. Ordered(c, E[c], G[c], F[c]) /\ Listed(c, E[c], F[c]) /\ Submitting(c, E[c])
  BY <1>2 DEF CountsInv, CountInv, ListInv
<1>4. PICK w \in Nat : v = w + 1 /\ gpu_done[c] <= w /\ w < queued_value[c]
  <2>1. gpu_done[c] \in Nat /\ queued_value[c] \in Nat
    BY <1>1 DEF ChType
  <2>2. v - 1 \in Nat /\ v = (v - 1) + 1 /\ gpu_done[c] <= v - 1 /\ v - 1 < queued_value[c]
    BY <2>1
  <2> QED BY <2>2
<1>5. F[c] <= w
  <2>1. F[c] <= completed_value[c] /\ completed_value[c] <= gpu_done[c]
    BY <1>3 DEF Ordered
  <2>2. F[c] \in Nat /\ completed_value[c] \in Nat /\ gpu_done[c] \in Nat
    BY <1>1 DEF ChType, Counts
  <2> QED BY <1>4, <2>1, <2>2
<1>6. CASE w < E[c]
  <2>1. SlotOf(w + 1) \in Slots
    BY SlotType
  <2>2. IsPending(<<c, SlotOf(w + 1)>>)
    BY <1>3, <1>5, <1>6, <2>1 DEF Listed
  <2> QED BY <1>4, <2>2
<1>7. CASE ~(w < E[c])
  <2>1. E[c] \in Nat /\ queued_value[c] \in Nat
    BY <1>1 DEF ChType, Counts
  <2>2. \E p \in Pushes : Submits(p, c)
    BY <1>3, <1>4, <1>7, <2>1 DEF Submitting
  <2>3. v = queued_value[c]
    BY <1>3, <1>4, <1>7, <2>1, <2>2 DEF Submitting
  <2> QED BY <2>2, <2>3 DEF Submits
<1> QED BY <1>6, <1>7

\* Whoever is about to call the pushbuffer may: the entry of a push that ends is in
\* no list, and the next entry an update frees is in one.
LEMMA CallsDue == ChInv => CallsAllowed
<1> SUFFICES ASSUME ChInv PROVE CallsAllowed
  OBVIOUS
<1>1. ChType /\ OwnerInv /\ UpdateInv
  BY DEF ChInv, StateInv
<1>2. PICK E, G, F \in Counts : CountsInv(E, G, F)
  BY DEF ChInv
<1>3. ASSUME NEW c \in Channels
      PROVE  /\ E[c] \in Nat /\ G[c] \in Nat /\ F[c] \in Nat
             /\ Ordered(c, E[c], G[c], F[c]) /\ Updating(c, E[c], G[c], F[c]) /\ Listed(c, E[c], F[c])
  BY <1>2 DEF CountsInv, CountInv, ListInv, Counts
<1>4. ASSUME NEW p \in Pushes, step[p] = "submitted"
      PROVE  stage[p] = "ongoing" /\ ~IsPending(<<push_channel[p], cpu_put[push_channel[p]]>>)
  <2>1. stage[p] = "ongoing" /\ push_channel[p] # NONE
    BY <1>1, <1>4 DEF OwnerInv, Holding
  <2>2. PICK c \in Channels : push_channel[p] = c
    BY <1>1, <2>1 DEF ChType
  <2>3. ~IsPending(<<c, cpu_put[c]>>)
    <3>1. /\ E[c] \in Nat /\ G[c] \in Nat /\ F[c] \in Nat
          /\ Ordered(c, E[c], G[c], F[c]) /\ Listed(c, E[c], F[c])
      BY <1>3
    <3> QED BY <1>1, <3>1, PutFree, ZenonT(60)
  <2> QED BY <2>1, <2>2, <2>3
<1>5. ASSUME NEW u \in Updaters, ustep[u] = "loop", MoreToComplete(u)
      PROVE  IsPending(<<uchannel[u], uget[u]>>)
  <2>1. PICK c \in Channels : uchannel[u] = c
    BY <1>1, <1>5 DEF ChType, UpdateInv
  <2>2. Frees(u, c)
    BY <1>5, <2>1 DEF Frees
  <2>3. PICK e, g, f \in Nat : /\ Ordered(c, e, g, f) /\ Updating(c, e, g, f)
                                /\ Listed(c, e, f)
    BY <1>3
  <2>4. ChType /\ UpdateInv /\ MoreToComplete(u)
    BY <1>1, <1>5
  <2>5. f + 1 <= e /\ uget[u] = SlotOf(f + 1)
    BY <2>2, <2>3, <2>4, NextToMark, SMT
  <2>6. f <= f /\ f < e /\ SlotOf(f + 1) \in Slots
    BY <2>5, SlotType
  <2>7. IsPending(<<c, SlotOf(f + 1)>>)
    BY <2>3, <2>6 DEF Listed
  <2> QED BY <2>1, <2>5, <2>7
<1> QED BY <1>4, <1>5 DEF CallsAllowed

LEMMA InfosFree == ChInv => PushInfoFree
<1> SUFFICES ASSUME ChInv, NEW c \in Channels
             PROVE  LET free == available_push_infos[c] IN
                    /\ (\E p \in Pushes : push_channel[p] = c /\ step[p] = "reserved") => free # <<>>
                    /\ \A i, j \in 1..Len(free) : i # j => free[i] # free[j]
                    /\ \A i \in 1..Len(free) : free[i] \notin PendingInfos(c)
                    /\ \A p \in InfoHolders(c) :
                          /\ \A i \in 1..Len(free) : free[i] # push_info_index[p]
                          /\ push_info_index[p] \notin PendingInfos(c)
                          /\ \A q \in InfoHolders(c) \ {p} : push_info_index[p] # push_info_index[q]
  BY DEF PushInfoFree
<1>1. ChType /\ InfoOnce(c)
  BY DEF ChInv, StateInv, InfoInv
<1>2. PICK E, G, F \in Counts : CountsInv(E, G, F)
  BY DEF ChInv
<1>3. /\ Ordered(c, E[c], G[c], F[c]) /\ Counted(c, F[c])
      /\ E[c] \in Nat /\ G[c] \in Nat /\ F[c] \in Nat
  BY <1>2 DEF CountsInv, CountInv, LiveInv, Counts
<1>4. ASSUME NEW p \in Pushes, push_channel[p] = c, step[p] = "reserved"
      PROVE  available_push_infos[c] # <<>>
  <2>1. p \in Reserved(c)
    BY <1>4 DEF Reserved
  <2>2. Len(available_push_infos[c]) >= 1
    BY <1>1, <1>3, <2>1, InfoAvailable, ZenonT(60)
  <2>3. Len(<<>>) = 0
    OBVIOUS
  <2> QED BY <2>2, <2>3
<1>5. \A i \in 1..Len(available_push_infos[c]) : available_push_infos[c][i] \notin PendingInfos(c)
  BY <1>1, ZenonT(60) DEF InfoOnce, PendingInfos
<1>6. \A p \in InfoHolders(c) : push_info_index[p] \notin PendingInfos(c)
  BY <1>1, ZenonT(60) DEF InfoOnce, PendingInfos
<1> QED BY <1>1, <1>4, <1>5, <1>6, ZenonT(60) DEF InfoOnce

LEMMA NothingLeft == ChInv => DestroyedClean
<1> SUFFICES ASSUME ChInv, NEW c \in destroyed, \A u \in Updaters : uchannel[u] # c, NEW i \in Slots,
                    IsPending(<<c, i>>)
             PROVE  FALSE
  BY DEF DestroyedClean
<1>1. c \in Channels
  BY DEF ChInv, StateInv, ChType
<1>2. PICK E, G, F \in Counts : CountsInv(E, G, F)
  BY DEF ChInv
<1>3. Listed(c, E[c], F[c]) /\ Updating(c, E[c], G[c], F[c]) /\ E[c] \in Nat /\ F[c] \in Nat
  BY <1>1, <1>2 DEF CountsInv, CountInv, ListInv, Counts
<1>4. F[c] = E[c]
  BY <1>3 DEF Updating
<1>5. PICK v \in Nat : F[c] <= v /\ v < E[c]
  BY <1>3 DEF Listed
<1> QED BY <1>3, <1>4, <1>5

-----------------------------------------------------------------------------
(* The tracking semaphores *)

\* The three ways in which the values of the semaphores change
Queues(c) ==
    /\ queued_value[c] - completed_value[c] < num_gpfifo_entries - 1
    /\ queued_value' = [queued_value EXCEPT ![c] = @ + 1]
    /\ UNCHANGED <<gpu_done, completed_value>>
Runs(c) ==
    /\ gpu_done[c] < queued_value[c]
    /\ gpu_done' = [gpu_done EXCEPT ![c] = @ + 1]
    /\ UNCHANGED <<queued_value, completed_value>>
Observes(c) ==
    /\ gpu_done[c] \in completed_value[c] .. gpu_done[c]
    /\ completed_value' = [completed_value EXCEPT ![c] = gpu_done[c]]
    /\ UNCHANGED <<queued_value, gpu_done>>

\* A push that ends has been counted since its reservation, so there is room.
LEMMA EndHasRoom ==
    ASSUME ChInv, NEW p \in Pushes, NEW size \in 1..MAX_PUSH, EndSubmit(p, size)
    PROVE  \E c \in Channels : Queues(c)
<1>1. ChType /\ OwnerInv /\ UpdateInv
  BY DEF ChInv, StateInv
<1>2. PICK c \in Channels : push_channel[p] = c
  BY <1>1 DEF OwnerInv, Holding, ChType, EndSubmit
<1>3. /\ step[p] = "open" /\ ~Locked(c) /\ queued_value' = [queued_value EXCEPT ![c] = @ + 1]
      /\ UNCHANGED <<gpu_done, completed_value>> /\ c \notin destroyed
  BY <1>1, <1>2 DEF EndSubmit, OwnerInv
<1>4. PICK E, G, F \in Counts : CountsInv(E, G, F)
  BY DEF ChInv
<1>5. F[c] = G[c] /\ Ordered(c, E[c], G[c], F[c]) /\ Counted(c, F[c])
  <2>1. CountInv(E, G, F) /\ LiveInv(F)
    BY <1>4 DEF CountsInv
  <2>2. F[c] = G[c]
    BY <1>1, <1>3, <2>1, UnlockedCounts
  <2> QED BY <2>1, <2>2 DEF CountInv, LiveInv
<1>6. /\ G[c] <= completed_value[c]
      /\ queued_value[c] + current_pushes_count[c] < G[c] + num_gpfifo_entries
  BY <1>3, <1>5 DEF Ordered
<1>7. current_pushes_count[c] >= 1
  <2>1. p \in Open(c)
    BY <1>2, <1>3 DEF Open
  <2>2. PICK r, o \in Nat : Sized(Open(c), o) /\ r + o <= current_pushes_count[c]
    BY <1>5 DEF Counted
  <2>3. o >= 1
    BY <2>1, <2>2, SizedRemove, ZenonT(60)
  <2>4. current_pushes_count[c] \in Nat
    BY <1>1 DEF ChType
  <2> QED BY <2>2, <2>3, <2>4
<1>8. queued_value[c] - completed_value[c] < num_gpfifo_entries - 1
  <2>1. /\ queued_value[c] \in Nat /\ completed_value[c] \in Nat /\ current_pushes_count[c] \in Nat
        /\ G[c] \in Nat /\ num_gpfifo_entries \in Nat
    BY <1>1, ChannelConstants DEF ChType, Counts
  <2>2. PICK q, d, k, g, N \in Nat : /\ q = queued_value[c] /\ d = completed_value[c]
                                     /\ k = current_pushes_count[c] /\ g = G[c]
                                     /\ N = num_gpfifo_entries
    BY <2>1
  <2>3. g <= d /\ q + k < g + N /\ k >= 1
    BY <1>6, <1>7, <2>2
  <2>4. q - d < N - 1
    BY <2>3
  <2> QED BY <2>2, <2>4
<1>9. Queues(c)
  BY <1>3, <1>8 DEF Queues
<1> QED BY <1>9

\* Every other step leaves the semaphores alone.
LEMMA SemaphoreSteps ==
    ASSUME ChInv, [ChNext \/ ErrorStep]_chVars
    PROVE  UNCHANGED semaphoreVars \/ \E c \in Channels : Queues(c) \/ Runs(c) \/ Observes(c)
<1>1. ASSUME NEW u \in Updaters, NEW c \in Channels, UpdReadFor(u, c) PROVE Observes(c)
  <2>1. PICK E, G, F \in Counts : CountsInv(E, G, F)
    BY DEF ChInv
  <2>2. completed_value[c] <= gpu_done[c] /\ completed_value[c] \in Nat /\ gpu_done[c] \in Nat
    BY <2>1 DEF CountsInv, CountInv, Ordered, ChInv, StateInv, ChType
  <2> QED BY <1>1, <2>2 DEF UpdReadFor, Observes
<1>2. CASE UNCHANGED chVars
  BY <1>2 DEF chVars
<1>3. CASE ChNext
  <2>1. ASSUME NEW p \in Pushes, NEW S \in Requests, StartPush(p, S) PROVE UNCHANGED semaphoreVars
    BY <2>1 DEF StartPush
  <2>2. ASSUME NEW p \in Pushes, PushStep(p)
        PROVE  UNCHANGED semaphoreVars \/ \E c \in Channels : Queues(c)
    <3>1. ASSUME NEW c \in Channels, try_claim_channel(p, c) PROVE UNCHANGED semaphoreVars
      BY <3>1 DEF try_claim_channel, claimFrame
    <3>2. CASE BeginInPushbuffer(p) \/ TakePushInfo(p) \/ EndFinish(p)
      BY <3>2 DEF BeginInPushbuffer, TakePushInfo, EndFinish
    <3>3. ASSUME NEW size \in 1..MAX_PUSH, EndSubmit(p, size) PROVE \E c \in Channels : Queues(c)
      BY <3>3, EndHasRoom
    <3> QED BY <2>2, <3>1, <3>2, <3>3 DEF PushStep
  <2>3. ASSUME NEW c \in Channels, GpuRun(c) PROVE Runs(c)
    BY <2>3 DEF GpuRun, Runs
  <2>4. ASSUME NEW u \in Updaters, UpdateStep(u)
        PROVE  UNCHANGED semaphoreVars \/ \E c \in Channels : Observes(c)
    <3>1. CASE UpdLock(u) \/ UpdMark(u) \/ UpdUnlock(u)
      BY <3>1 DEF UpdLock, UpdMark, UpdUnlock
    <3> QED BY <1>1, <2>4, <3>1 DEF UpdateStep, UpdRead
  <2> QED BY <1>3, <2>1, <2>2, <2>3, <2>4 DEF ChNext
<1>4. CASE ErrorStep
  <2>1. ASSUME NEW p \in Pushes,
               \/ ReserveTryFails(p) \/ ReserveChecks(p)
               \/ (\E c \in Channels : ReserveLastTry(p, c)) \/ BeginPushFails(p)
        PROVE  UNCHANGED semaphoreVars
    BY <2>1 DEF ReserveTryFails, ReserveChecks, ReserveLastTry, BeginPushFails, claimFrame
  <2>2. ASSUME NEW u \in Updaters, NEW c \in Channels, channel_destroy(u, c) PROVE Observes(c)
    BY <1>1, <2>2 DEF channel_destroy
  <2> QED BY <1>4, <2>1, <2>2 DEF ErrorStep
<1> QED BY <1>2, <1>3, <1>4

LEMMA CounterSteps ==
    ASSUME ChInv, [ChNext \/ ErrorStep]_chVars
    PROVE  [\A c \in Channels : [Counter(c)!CounterNext]_(Counter(c)!ctrVars)]_semaphoreVars
<1>1. CASE UNCHANGED semaphoreVars
  BY <1>1
<1>2. ASSUME NEW d \in Channels, Queues(d) \/ Runs(d) \/ Observes(d), NEW c \in Channels
      PROVE  [Counter(c)!CounterNext]_(Counter(c)!ctrVars)
  <2>1. /\ queued_value \in [Channels -> Nat] /\ gpu_done \in [Channels -> Nat]
        /\ completed_value \in [Channels -> Nat]
    BY DEF ChInv, StateInv, ChType
  <2>2. CASE c # d
    BY <1>2, <2>1, <2>2 DEF Queues, Runs, Observes, Counter!ctrVars
  <2>3. CASE c = d /\ Queues(c)
    BY <2>1, <2>3 DEF Queues, Counter!CounterNext, Counter!QueueWork
  <2>4. CASE c = d /\ Runs(c)
    BY <2>1, <2>4 DEF Runs, Counter!CounterNext, Counter!FinishWork
  <2>5. CASE c = d /\ Observes(c)
    BY <2>1, <2>5 DEF Observes, Counter!CounterNext, Counter!ObserveProgress
  <2> QED BY <1>2, <2>2, <2>3, <2>4, <2>5
<1> QED BY <1>1, <1>2, SemaphoreSteps

-----------------------------------------------------------------------------
(* Theorems *)

\* The channels keep their invariant whatever the number of channels, pools,
\* entries, pushes and updaters, channel errors and channel_destroy included.
THEOREM ChInvariant == ChErrorSpec => []ChInv
<1>1. ChInit => ChInv
  BY ChInitInv
<1>2. ChInv /\ [ChNext \/ ErrorStep]_chVars => ChInv'
  BY ChStepInv
<1> QED BY <1>1, <1>2, PTL DEF ChErrorSpec

\* Every behaviour of the channels is, seen from the pushbuffer, a behaviour of
\* its own specification: uvm_channel_end_push gives uvm_pushbuffer_end_push an
\* entry that is not pending.  And whenever update_progress comes to mark an entry,
\* the entry is listed, however early the GPU has finished its push.
THEOREM ChPushbufferUsed == ChErrorSpec => PushbufferUsed
<1>1. ChInit => ChInv /\ PbInit
  BY ChInitInv DEF ChInit
<1>2. ChInv /\ [ChNext \/ ErrorStep]_chVars => ChInv' /\ [PbErrorStep]_pbVars
  BY ChStepInv
<1>3. ChInv' => CallsAllowed'
  BY CallsDue, PTL
<1>4. ChInv /\ [ChNext \/ ErrorStep]_chVars => [CallsAllowed']_chVars
  BY <1>2, <1>3
<1> QED BY <1>1, <1>2, <1>4, PTL DEF ChErrorSpec, PushbufferUsed, PbErrorSpec

\* uvm_channel_end_push never writes a GPFIFO entry that the GPU has yet to run.
THEOREM ChSlotIntact == ChErrorSpec => []SlotIntact
BY ChInvariant, EntriesIntact, PTL

\* uvm_channel_update_progress never gives pushbuffer memory back before the GPU
\* has run the push.
THEOREM ChUnfinishedPending == ChErrorSpec => []UnfinishedPending
BY ChInvariant, StillPending, PTL

\* channel_get_available_push_info_index always finds a push info, and one that
\* no open or pending push uses.
THEOREM ChPushInfoFree == ChErrorSpec => []PushInfoFree
BY ChInvariant, InfosFree, PTL

\* channel_destroy leaves no entry of the channel in the pushbuffer's chunks.
THEOREM ChDestroyedClean == ChErrorSpec => []DestroyedClean
BY ChInvariant, NothingLeft, PTL

\* The channels use each tracking semaphore as the abstract counter allows:
\* uvm_channel_end_push never has more values outstanding than the channel has
\* entries but one, whatever update_progress has read.
THEOREM ChCountersUsed == ChErrorSpec => CountersUsed
<1>1. ChInit => \A c \in Channels : Counter(c)!CounterInit
  BY DEF ChInit, Counter!CounterInit
<1>2. ChInit => ChInv
  BY ChInitInv
<1>3. ChInv /\ [ChNext \/ ErrorStep]_chVars =>
         ChInv' /\ [\A c \in Channels : [Counter(c)!CounterNext]_(Counter(c)!ctrVars)]_semaphoreVars
  BY ChStepInv, CounterSteps
<1> QED BY <1>1, <1>2, <1>3, PTL DEF ChErrorSpec, CountersUsed
=============================================================================
