--------------------------- MODULE MsgQueueProofs ---------------------------
(***************************************************************************)
(* The msgq ring, for every size of the ring and every set of messages:    *)
(* its types, that neither side ever believes in a buffer the other side   *)
(* is using, and that it implements a bounded FIFO.  And the records on    *)
(* it: the receiver accepts the oldest one and no other, with or without   *)
(* the sender's fence, and with it both ends keep to msgq's operations.    *)
(***************************************************************************)
EXTENDS GspQueue, TLAPS

\* The provers' time limit for every step, in seconds
USE SMTT(40)

\* Before a side is linked it has used nothing: a receiver may link late, when
\* the ring is full, and still start at the first message.  Before the sender
\* sees readPtr it has not gone round the ring: what the receiver consumed does
\* not come back to it.
Unlinked ==
    /\ rxLinked = 0 => readPtr = 0 /\ rxAvail = 0
    /\ txLinked = 0 => writePtr = 0 /\ txFree = 0 /\ rxLinked = 0 /\ txSwapped = 0
    /\ txSwapped = 0 => readPtr <= writePtr
    /\ txLinked = 1 /\ txSwapped = 0 => txFree = N - 1 - writePtr

MqInv == MqTypeOK /\ FreeIsSafe /\ AvailIsSafe /\ Unlinked

\* The invariant holds of zeroed memory,
LEMMA MqInitial == MqInit => MqInv
  BY NPositive DEF MqInit, MqInv, MqTypeOK, FreeIsSafe, AvailIsSafe, Unlinked, Used, Wrap

\* and all of msgq's operations keep it.
LEMMA MqStep == ASSUME MqInv, [MqNext]_mqVars PROVE MqInv'
<1> USE NPositive DEF MqInv, MqTypeOK, FreeIsSafe, AvailIsSafe, Unlinked, Used, Wrap
<1>1. CASE msgqTxCreate
  BY <1>1 DEF msgqTxCreate, rxVars
<1>2. CASE msgqTxGetFreeSpace
  BY <1>2 DEF msgqTxGetFreeSpace, FreeNow, ReadIncoming, rxVars, sharedVars
<1>3. ASSUME NEW n \in 0..N, NEW m \in Messages, FillBuffer(n, m) PROVE MqInv'
  BY <1>3 DEF FillBuffer, txVars, rxVars
<1>4. ASSUME NEW n \in 0..N, msgqTxSubmitBuffers(n) PROVE MqInv'
  BY <1>4 DEF msgqTxSubmitBuffers, rxVars
<1>5. CASE msgqRxLink
  BY <1>5 DEF msgqRxLink, txVars
<1>6. CASE msgqRxGetReadAvailable
  BY <1>6 DEF msgqRxGetReadAvailable, AvailNow, txVars, sharedVars
<1>7. ASSUME NEW n \in 0..N, msgqRxMarkConsumed(n) PROVE MqInv'
  BY <1>7 DEF msgqRxMarkConsumed, txVars
<1>8. CASE LinkBack
  BY <1>8 DEF LinkBack, rxVars, sharedVars
<1>9. CASE UNCHANGED mqVars
  BY <1>9 DEF mqVars, sharedVars, txVars, rxVars
<1> QED
  BY <1>1, <1>2, <1>3, <1>4, <1>5, <1>6, <1>7, <1>8, <1>9 DEF MqNext

\* The inductive invariant behind the other theorems: types, both cached counts
\* and the state of a side that is not linked, over all of msgq's operations.
THEOREM MqInvariant == MqSpec => []MqInv
  BY MqInitial, MqStep, PTL DEF MqSpec

\* Type correctness of both sides' metadata and of the shared memory.
THEOREM MqTypeCorrect == MqSpec => []MqTypeOK
BY MqInvariant, PTL DEF MqInv

\* msgqTxGetWriteBuffer and msgqTxSubmitBuffers, trusting the cached txFree, never
\* hand out or publish over a buffer that the receiver has not consumed.
THEOREM MqFreeIsSafe == MqSpec => []FreeIsSafe
BY MqInvariant, PTL DEF MqInv

\* msgqRxGetReadBuffer and msgqRxMarkConsumed, trusting the cached rxAvail, never
\* go beyond what has been submitted.
THEOREM MqAvailIsSafe == MqSpec => []AvailIsSafe
BY MqInvariant, PTL DEF MqInv

\* The messages under way form a sequence, whose i-th element is i - 1 buffers
\* after readPtr.
InOrder ==
    /\ Used \in 0..(N - 1)
    /\ Contents \in Seq(Messages)
    /\ Len(Contents) = Used
    /\ \A i \in 1..Used : /\ Wrap(readPtr + i - 1) \in 0..(N - 1)
                          /\ Contents[i] = mem[Wrap(readPtr + i - 1)]

\* The invariant implies it.
LEMMA ContentsSeq == MqInv => InOrder
<1> SUFFICES ASSUME MqInv PROVE InOrder
  OBVIOUS
<1> USE NPositive
<1>1. Used \in 0..(N - 1)
  BY DEF MqInv, MqTypeOK, Used, Wrap
<1>2. \A i \in 1..Used : Wrap(readPtr + i - 1) \in 0..(N - 1)
  BY <1>1 DEF MqInv, MqTypeOK, Wrap
<1>3. \A i \in 1..Used : mem[Wrap(readPtr + i - 1)] \in Messages
  BY <1>2 DEF MqInv, MqTypeOK
<1> QED
  BY <1>1, <1>2, <1>3 DEF Contents, InOrder

\* The same after a step
LEMMA ContentsSeqNext == MqInv' => InOrder'
BY ContentsSeq, PTL

\* The buffer that msgqTxGetWriteBuffer hands out holds no message under way.
LEMMA FillsElsewhere ==
    ASSUME MqInv, NEW n \in 0..N, n < txFree, NEW i \in 1..Used
    PROVE  Wrap(readPtr + i - 1) # Wrap(writePtr + n)
BY NPositive DEF MqInv, MqTypeOK, FreeIsSafe, Used, Wrap

\* Filling a buffer changes no message under way.
LEMMA FillKeeps ==
    ASSUME MqInv, MqInv', NEW n \in 0..N, NEW m \in Messages, FillBuffer(n, m)
    PROVE  Contents' = Contents /\ readPtr' = readPtr
<1> USE NPositive
<1>1. Used' = Used /\ readPtr' = readPtr
  BY DEF FillBuffer, Used, Wrap
<1>2. \A i \in 1..Used : mem'[Wrap(readPtr + i - 1)] = mem[Wrap(readPtr + i - 1)]
  <2> TAKE i \in 1..Used
  <2>1. Wrap(readPtr + i - 1) # Wrap(writePtr + n)
    BY FillsElsewhere DEF FillBuffer
  <2>2. Wrap(readPtr + i - 1) \in 0..(N - 1)
    BY ContentsSeq DEF InOrder
  <2> QED
    BY <2>1, <2>2 DEF FillBuffer, MqInv, MqTypeOK
<1>3. Contents' = [i \in 1..Used' |-> mem'[Wrap(readPtr' + i - 1)]]
  BY DEF Contents, Wrap
<1> QED
  BY <1>1, <1>2, <1>3 DEF Contents

\* A submission appends.
LEMMA SubmitPuts ==
    ASSUME MqInv, MqInv', NEW n \in 0..N, msgqTxSubmitBuffers(n)
    PROVE  [Fifo!FifoNext]_<<Contents, readPtr>>
<1> USE NPositive
<1>1. Used' = Used + n /\ readPtr' = readPtr /\ mem' = mem
  BY DEF msgqTxSubmitBuffers, Used, Wrap, MqInv, MqTypeOK, FreeIsSafe
<1>2. CASE n = 0
  <2>1. Used' = Used
    BY <1>1, <1>2, ContentsSeq DEF InOrder, Wrap, MqInv, MqTypeOK
  <2>2. Contents' = [i \in 1..Used' |-> mem'[Wrap(readPtr' + i - 1)]]
    BY DEF Contents, Wrap
  <2> QED
    BY <1>1, <2>1, <2>2 DEF Contents
<1>3. CASE n # 0
  <2>1. n \in 1 .. ((N - 1) - Len(Contents))
    BY <1>1, <1>3, ContentsSeq, ContentsSeqNext DEF InOrder
  <2>2. \A i \in 1..Len(Contents) : Contents'[i] = Contents[i]
    <3> TAKE i \in 1..Len(Contents)
    <3>1. i \in 1..Used /\ i \in 1..Used'
      BY <1>1, ContentsSeq, ContentsSeqNext DEF InOrder
    <3>2. Contents'[i] = mem'[Wrap(readPtr' + i - 1)]
      BY <3>1 DEF Contents, Wrap
    <3>3. Contents[i] = mem[Wrap(readPtr + i - 1)]
      BY <3>1 DEF Contents
    <3> QED
      BY <1>1, <3>2, <3>3
  <2>3. Len(Contents') = Len(Contents) + n
    BY <1>1, ContentsSeq, ContentsSeqNext DEF InOrder
  <2>4. Fifo!Put
    BY <1>1, <2>1, <2>2, <2>3, ContentsSeqNext, Zenon DEF InOrder, Fifo!Put
  <2> QED
    BY <2>4 DEF Fifo!FifoNext
<1> QED
  BY <1>2, <1>3

\* A consumption removes the first messages.
LEMMA ConsumeTakes ==
    ASSUME MqInv, MqInv', NEW n \in 0..N, msgqRxMarkConsumed(n)
    PROVE  [Fifo!FifoNext]_<<Contents, readPtr>>
<1> USE NPositive
<1>1. Used' = Used - n /\ n <= Used /\ mem' = mem /\ readPtr' = Wrap(readPtr + n)
  BY DEF msgqRxMarkConsumed, Used, Wrap, MqInv, MqTypeOK, AvailIsSafe
<1>2. CASE n = 0
  <2>1. Used' = Used /\ readPtr' = readPtr
    BY <1>1, <1>2, ContentsSeq DEF InOrder, Wrap, MqInv, MqTypeOK
  <2>2. Contents' = [i \in 1..Used' |-> mem'[Wrap(readPtr' + i - 1)]]
    BY DEF Contents, Wrap
  <2> QED
    BY <1>1, <2>1, <2>2 DEF Contents
<1>3. CASE n # 0
  <2>1. n \in 1..Len(Contents) /\ Len(Contents') = Len(Contents) - n
    BY <1>1, <1>3, ContentsSeq, ContentsSeqNext DEF InOrder
  <2>2. ASSUME NEW i \in 1..Len(Contents') PROVE Contents'[i] = Contents[i + n]
    <3>1. i \in 1..Used' /\ i + n \in 1..Used
      BY <1>1, <1>3, ContentsSeq, ContentsSeqNext DEF InOrder
    <3>2. Wrap(readPtr' + i - 1) = Wrap(readPtr + (i + n) - 1)
      BY <1>1, <3>1, ContentsSeq DEF InOrder, Wrap, MqInv, MqTypeOK
    <3>3. Contents'[i] = mem'[Wrap(readPtr' + i - 1)]
      BY <3>1 DEF Contents, Wrap
    <3>4. Contents[i + n] = mem[Wrap(readPtr + (i + n) - 1)]
      BY <3>1 DEF Contents
    <3> QED
      BY <1>1, <3>2, <3>3, <3>4
  <2>3. readPtr' = IF readPtr + n > N - 1 THEN readPtr + n - ((N - 1) + 1)
                                          ELSE readPtr + n
    BY <1>1 DEF Wrap, MqInv, MqTypeOK
  <2>4. Fifo!Take
    BY <2>1, <2>2, <2>3, ContentsSeqNext, Zenon DEF InOrder, Fifo!Take
  <2> QED
    BY <2>4 DEF Fifo!FifoNext
<1> QED
  BY <1>2, <1>3

\* The other steps leave the messages under way alone: a receiver that links
\* finds readPtr at 0 already.
LEMMA OthersKeep ==
    ASSUME MqInv,
           \/ msgqTxCreate \/ LinkBack \/ msgqTxGetFreeSpace \/ msgqRxLink
           \/ msgqRxGetReadAvailable \/ UNCHANGED mqVars
    PROVE  Contents' = Contents /\ readPtr' = readPtr
<1>1. writePtr' = writePtr /\ readPtr' = readPtr /\ mem' = mem
  BY DEF MqInv, Unlinked, MqTypeOK, msgqTxCreate, LinkBack, msgqTxGetFreeSpace,
         msgqRxLink, msgqRxGetReadAvailable, mqVars, sharedVars, txVars, rxVars
<1> QED
  BY <1>1 DEF Contents, Used, Wrap

\* The ring implements the bounded FIFO of messages: what msgqTxSubmitBuffers
\* publishes, msgqRxMarkConsumed removes in the same order and unchanged.
THEOREM MqRefinesFifo == MqSpec => FifoRefined
<1>1. MqInit => Fifo!FifoInit
  BY NPositive DEF MqInit, Fifo!FifoInit, Contents, Used, Wrap
<1>2. MqInv /\ MqInv' /\ [MqNext]_mqVars => [Fifo!FifoNext]_<<Contents, readPtr>>
  <2> SUFFICES ASSUME MqInv, MqInv', [MqNext]_mqVars
               PROVE  [Fifo!FifoNext]_<<Contents, readPtr>>
    OBVIOUS
  <2>1. ASSUME NEW n \in 0..N, NEW m \in Messages, FillBuffer(n, m)
        PROVE  [Fifo!FifoNext]_<<Contents, readPtr>>
    BY <2>1, FillKeeps
  <2>2. ASSUME NEW n \in 0..N, msgqTxSubmitBuffers(n)
        PROVE  [Fifo!FifoNext]_<<Contents, readPtr>>
    BY <2>2, SubmitPuts
  <2>3. ASSUME NEW n \in 0..N, msgqRxMarkConsumed(n)
        PROVE  [Fifo!FifoNext]_<<Contents, readPtr>>
    BY <2>3, ConsumeTakes
  <2>4. CASE \/ msgqTxCreate \/ LinkBack \/ msgqTxGetFreeSpace \/ msgqRxLink
             \/ msgqRxGetReadAvailable \/ UNCHANGED mqVars
    BY <2>4, OthersKeep
  <2> QED
    BY <2>1, <2>2, <2>3, <2>4 DEF MqNext
<1> QED
  BY <1>1, <1>2, MqInvariant, PTL DEF MqSpec, FifoRefined, Fifo!FifoSpec

-----------------------------------------------------------------------------
(* Records on the ring *)

\* The buffer o places after the first one that is not consumed
Slot(o) == Wrap(readPtr + o)

\* A store to buffer a is under way.
Pending(a) == \E st \in stores : st[1] = a

\* The buffer o places on holds e, or will when the store under way lands.
Landed(o, e) == mem[Slot(o)] = e /\ ~Pending(Slot(o))

Will(o, e) == Landed(o, e) \/ <<Slot(o), e>> \in stores

\* The sequence number that was expected j records ago
Back(j) == IF rxSeqNum >= j THEN rxSeqNum - j ELSE rxSeqNum - j + SEQ_MOD

\* e is no element of a record still to be accepted: it is memory that was never
\* written, or was left by one of the last d accepted records.
Stale(e, d) == e = Zeroed \/ \E j \in 1..d : e.seq = Back(j)

Records == {Record(s, k) : s \in 0..(SEQ_MOD - 1), k \in 1..MAX_ELEMENTS}

\* The sender has copied what there was room for, and, with the fence, its stores
\* are to buffers that are free, also those of a record that timed out.
SendInv ==
    /\ rxSeqNum \in 0..(SEQ_MOD - 1) /\ txSeqNum \in 0..(SEQ_MOD - 1)
    /\ sending \in Records \cup {<<>>}
    /\ copied \in 0..Len(sending) /\ copied <= txFree
    /\ sending # <<>> \/ stores # {} => txLinked = 1
    /\ stores \subseteq (0..(N - 1)) \X Messages
    /\ \A s, t \in stores : s[1] = t[1] => s = t
    /\ fenced => \A st \in stores : \E c \in 0..(txFree - 1) : st[1] = Wrap(writePtr + c)

\* Without the fence a store is under way only to a buffer of a record that has been
\* copied or sent, and until it lands that buffer, like the free ones, is stale.
StaleInv ==
    ~fenced => \A o \in 0..(N - 1) :
                  /\ Pending(Slot(o)) => o < Used + copied
                  /\ Pending(Slot(o)) \/ o >= Used + copied => Stale(mem[Slot(o)], N - o)

\* The records under way start one after the other at the offsets off.
Starts(off) ==
    /\ off \in [1..(Len(underway) + 1) -> 0..(N - 1)]
    /\ off[1] = 0 /\ off[Len(underway) + 1] = Used
    /\ \A j \in 1..Len(underway) : off[j + 1] = off[j] + Len(underway[j])
    /\ \A i, j \in 1..(Len(underway) + 1) : i <= j => off[i] <= off[j]

\* and fill the ring from readPtr to writePtr,
Filled(off) ==
    \A j \in 1..Len(underway) : \A i \in 1..Len(underway[j]) :
        Will(off[j] + i - 1, underway[j][i])

\* and the one being sent follows.
RingInv ==
    /\ underway \in Seq(Records)
    /\ \E off \in [1..(Len(underway) + 1) -> 0..(N - 1)] : Starts(off) /\ Filled(off)
    /\ \A i \in 1..copied : Will(Used + i - 1, sending[i])

\* What the receiver has copied is what is in the ring, or it is stale.
StagingInv ==
    /\ staging \in Seq(Messages)
    /\ Len(staging) <= rxAvail
    /\ \A i \in 1..Len(staging) :
          Landed(i - 1, staging[i]) \/ (~fenced /\ Stale(staging[i], N))

GspInv == MqInv /\ SendInv /\ StaleInv /\ RingInv /\ StagingInv

-----------------------------------------------------------------------------
(* Records *)

(* A record's length and elements, and that its first element gives it     *)
(* away.                                                                   *)
LEMMA RecordFacts ==
    ASSUME NEW s, NEW k \in Nat
    PROVE  /\ Len(Record(s, k)) = k
           /\ \A i \in 1..k : Record(s, k)[i] = Element(s, k, i)
           /\ DOMAIN Record(s, k) = 1..k
           /\ Record(s, k) = <<>> <=> k = 0
<1>1. Record(s, k) = [i \in 1..k |-> Element(s, k, i)]
  BY DEF Record
<1>2. Record(s, k) \in Seq({Element(s, k, i) : i \in 1..k})
  BY <1>1
<1>3. Len(Record(s, k)) = k
  BY <1>1, <1>2
<1> QED
  BY <1>1, <1>2, <1>3

(* The elements of records are messages.                                   *)
LEMMA RecordTypes ==
    ASSUME NEW r \in Records
    PROVE  /\ Len(r) \in 1..MAX_ELEMENTS /\ Len(r) \in 1..(N - 1) /\ r # <<>>
           /\ \A i \in 1..Len(r) : r[i] \in Messages
<1>1. PICK s \in 0..(SEQ_MOD - 1), k \in 1..MAX_ELEMENTS : r = Record(s, k)
  BY DEF Records
<1>2. k \in Nat /\ MAX_ELEMENTS \in 1..(N - 1) /\ k \in 1..(N - 1)
  BY SizesFit, NPositive
<1>3. Len(r) = k /\ r # <<>> /\ \A i \in 1..k : r[i] = Element(s, k, i)
  BY <1>1, <1>2, RecordFacts
<1>4. \A i \in 1..k : i \in 1..MAX_ELEMENTS
  BY <1>2
<1>5. \A i \in 1..k : Element(s, k, i) \in Elements
  BY <1>4 DEF Elements
<1> QED
  BY <1>2, <1>3, <1>5, ElementsFill

(* Records with the same first element are the same.                       *)
LEMMA RecordFirst ==
    ASSUME NEW r \in Records, NEW s, NEW k \in Nat, k # 0, r[1] = Record(s, k)[1]
    PROVE  r = Record(s, k)
<1>1. PICK t \in 0..(SEQ_MOD - 1), m \in 1..MAX_ELEMENTS : r = Record(t, m)
  BY DEF Records
<1>2. r[1] = Element(t, m, 1)
  BY <1>1, SizesFit, NPositive, RecordFacts
<1>3. Record(s, k)[1] = Element(s, k, 1)
  BY RecordFacts
<1>4. Element(s, k, 1).seq = s /\ Element(s, k, 1).k = k
  BY DEF Element
<1>5. Element(t, m, 1).seq = t /\ Element(t, m, 1).k = m
  BY DEF Element
<1>6. s = t /\ k = m
  BY <1>2, <1>3, <1>4, <1>5, ZenonT(60)
<1> QED
  BY <1>1, <1>6

-----------------------------------------------------------------------------
(* Buffers *)

(* Buffers at different offsets are different ones, and the sender's n-th  *)
(* is the one after all that are used.                                     *)
LEMMA SlotFacts ==
    ASSUME MqInv
    PROVE  /\ \A o \in 0..(N - 1) : Slot(o) \in 0..(N - 1)
           /\ \A o, p \in 0..(N - 1) : Slot(o) = Slot(p) => o = p
           /\ \A c \in 0..(N - 1) : Used + c <= N - 1 => Slot(Used + c) = Wrap(writePtr + c)
           /\ Used \in 0..(N - 1)
           /\ Used + txFree <= N - 1
           /\ rxAvail <= Used
BY NPositive DEF MqInv, MqTypeOK, FreeIsSafe, AvailIsSafe, Used, Slot, Wrap

(* Every buffer has an offset.                                             *)
LEMMA SlotOf ==
    ASSUME MqInv, NEW a \in 0..(N - 1)
    PROVE  \E o \in 0..(N - 1) : Slot(o) = a
<1>1. CASE a >= readPtr
  <2>1. a - readPtr \in 0..(N - 1) /\ Slot(a - readPtr) = a
    BY <1>1, NPositive DEF MqInv, MqTypeOK, Slot, Wrap
  <2> QED
    BY <2>1
<1>2. CASE a < readPtr
  <2>1. a - readPtr + N \in 0..(N - 1) /\ Slot(a - readPtr + N) = a
    BY <1>2, NPositive DEF MqInv, MqTypeOK, Slot, Wrap
  <2> QED
    BY <2>1
<1> QED
  BY <1>1, <1>2, NPositive DEF MqInv, MqTypeOK

(* The free count never shrinks when it is read anew.                      *)
LEMMA FreeGrows == ASSUME MqInv, msgqTxGetFreeSpace PROVE txFree' >= txFree
BY NPositive DEF MqInv, MqTypeOK, FreeIsSafe, Unlinked, Used, Wrap, msgqTxGetFreeSpace,
   FreeNow, ReadIncoming

(* Nor does the available count.                                           *)
LEMMA AvailGrows == ASSUME MqInv, msgqRxGetReadAvailable PROVE rxAvail' >= rxAvail
BY NPositive DEF MqInv, MqTypeOK, AvailIsSafe, Used, Wrap, msgqRxGetReadAvailable, AvailNow

-----------------------------------------------------------------------------
(* Sequence numbers *)

(* The next sequence number                                                *)
LEMMA NextSeq ==
    ASSUME NEW s \in 0..(SEQ_MOD - 1)
    PROVE  (s + 1) % SEQ_MOD = IF s + 1 = SEQ_MOD THEN 0 ELSE s + 1
<1>1. SEQ_MOD \in Nat \ {0}
  BY SizesFit, NPositive
<1>2. CASE s + 1 = SEQ_MOD
  BY <1>1, <1>2
<1>3. CASE s + 1 # SEQ_MOD
  BY <1>1, <1>3
<1> QED
  BY <1>2, <1>3

(* Numbers of the last N accepted records are not the one expected next,   *)
(* since the numbers wrap later than the ring.                             *)
LEMMA BackDiffers ==
    ASSUME rxSeqNum \in 0..(SEQ_MOD - 1), NEW j \in 1..N PROVE Back(j) # rxSeqNum
BY NPositive, SizesFit DEF Back

(* After one more is accepted they are one record older.                   *)
LEMMA BackShifts ==
    ASSUME rxSeqNum \in 0..(SEQ_MOD - 1), rxSeqNum' = (rxSeqNum + 1) % SEQ_MOD
    PROVE  /\ rxSeqNum' \in 0..(SEQ_MOD - 1)
           /\ \A j \in 1..(N - 1) : Back(j + 1)' = Back(j)
           /\ Back(1)' = rxSeqNum
<1>1. rxSeqNum' = IF rxSeqNum + 1 = SEQ_MOD THEN 0 ELSE rxSeqNum + 1
  BY NextSeq
<1>2. SEQ_MOD \in Nat /\ N \in Nat /\ N < SEQ_MOD /\ N > 0
  BY NPositive, SizesFit
<1>3. \A j \in 1..N : Back(j)' = IF rxSeqNum' >= j THEN rxSeqNum' - j ELSE rxSeqNum' - j + SEQ_MOD
  BY DEF Back
<1> QED
  BY <1>1, <1>2, <1>3 DEF Back

-----------------------------------------------------------------------------
(* What follows from the invariant, and what the steps do *)

(* What is stale is not expected.                                          *)
LEMMA StaleDiffers ==
    ASSUME rxSeqNum \in 0..(SEQ_MOD - 1), NEW e, NEW d \in 0..N, Stale(e, d), e # Zeroed
    PROVE  e.seq # rxSeqNum
<1>1. PICK j \in 1..d : e.seq = Back(j)
  BY DEF Stale
<1>2. j \in 1..N
  BY NPositive
<1> QED
  BY <1>1, <1>2, BackDiffers

(* A record that passes the checks has only elements that are in the ring. *)
LEMMA AcceptedLanded ==
    ASSUME GspInv, ReadAll, ChecksumGood, SeqGood
    PROVE  /\ Len(staging) \in Nat \ {0} /\ staging = Record(rxSeqNum, Len(staging))
           /\ \A i \in 1..Len(staging) :
                 Landed(i - 1, staging[i]) /\ staging[i].seq = rxSeqNum
<1>1. Len(staging) \in Nat \ {0} /\ staging \in Seq(Messages)
  BY DEF GspInv, StagingInv, ReadAll
<1>2. staging[1] \in Elements
  BY <1>1, ElementsFill
<1>3. staging[1] = Zeroed => staging = Record(0, 0)
  BY DEF ChecksumGood, Zeroed, Element
<1>4. staging[1] # Zeroed
  BY <1>1, <1>3, RecordFacts
<1>5. PICK s \in 0..(SEQ_MOD - 1), k \in 1..MAX_ELEMENTS, i \in 1..MAX_ELEMENTS :
         staging[1] = Element(s, k, i)
  BY <1>2, <1>4 DEF Elements
<1>6. staging[1].seq = s /\ staging[1].k = k
  BY <1>5 DEF Element
<1>7. k \in Nat /\ staging = Record(rxSeqNum, k)
  BY <1>6, SizesFit, NPositive DEF ChecksumGood, SeqGood
<1>8. Len(staging) = k /\ \A j \in 1..k : staging[j] = Element(rxSeqNum, k, j)
  BY <1>7, RecordFacts
<1>9. ASSUME NEW j \in 1..Len(staging)
      PROVE  Landed(j - 1, staging[j]) /\ staging[j].seq = rxSeqNum
  <2>1. staging[j].seq = rxSeqNum /\ staging[j].i = j
    BY <1>8 DEF Element
  <2>2. staging[j] # Zeroed
    BY <1>1, <2>1 DEF Zeroed, Element
  <2>3. ~Stale(staging[j], N)
    BY <2>1, <2>2, StaleDiffers, NPositive DEF GspInv, SendInv
  <2> QED
    BY <2>1, <2>3 DEF GspInv, StagingInv
<1> QED
  BY <1>1, <1>7, <1>8, <1>9

(* With no store under way to it, the buffer at readPtr has the first      *)
(* element of the oldest record.                                           *)
LEMMA OldestFirst ==
    ASSUME GspInv, Used > 0
    PROVE  /\ underway # <<>> /\ underway \in Seq(Records)
           /\ Head(underway) \in Records /\ Will(0, Head(underway)[1])
<1>1. PICK off \in [1..(Len(underway) + 1) -> 0..(N - 1)] : Starts(off) /\ Filled(off)
  BY DEF GspInv, RingInv
<1>2. underway \in Seq(Records) /\ Len(underway) \in Nat
  BY DEF GspInv, RingInv
<1>3. Len(underway) # 0
  BY <1>1 DEF Starts
<1>4. underway # <<>> /\ Head(underway) = underway[1] /\ underway[1] \in Records
  BY <1>2, <1>3
<1>5. 1 \in 1..Len(underway[1])
  BY <1>4, RecordTypes
<1>6. Will(off[1] + 1 - 1, underway[1][1])
  BY <1>1, <1>2, <1>3, <1>5 DEF Filled
<1>7. off[1] + 1 - 1 = 0
  BY <1>1 DEF Starts
<1> QED
  BY <1>2, <1>4, <1>6, <1>7

(* What passes the checks is the oldest record.                            *)
LEMMA NextOnly == ASSUME GspInv PROVE NextRecordOnly
<1> SUFFICES ASSUME ReadAll, ChecksumGood, SeqGood
             PROVE  underway # <<>> /\ staging = Head(underway)
  BY DEF NextRecordOnly
<1>1. /\ Len(staging) \in Nat \ {0} /\ staging = Record(rxSeqNum, Len(staging))
      /\ Landed(0, staging[1])
  <2>1. 1 \in 1..Len(staging)
    BY AcceptedLanded
  <2>2. Landed(1 - 1, staging[1])
    BY <2>1, AcceptedLanded
  <2> QED
    BY <2>2, AcceptedLanded
<1>2. Used > 0
  BY <1>1, SlotFacts DEF GspInv, StagingInv, MqInv, MqTypeOK
<1>3. underway # <<>> /\ Head(underway) \in Records /\ Will(0, Head(underway)[1])
  BY <1>2, OldestFirst
<1>4. Head(underway)[1] = staging[1]
  BY <1>1, <1>3 DEF Will, Landed, Pending
<1> QED
  BY <1>1, <1>3, <1>4, RecordFirst

(* No fact about records or buffers: with it in sight the provers treat    *)
(* all values alike instead of inferring types.                            *)
LEMMA Untyped == \A x : (CASE x = 0 -> 1 [] OTHER -> 2) \in {1, 2}
OBVIOUS

(* The i-th buffer of l buffers starting at a                              *)
LEMMA Within ==
    ASSUME NEW a \in Nat, NEW l \in Nat, NEW u \in 0..(N - 1), a + l <= u, NEW i \in 1..l
    PROVE  a + i - 1 \in 0..(N - 1) /\ a + i - 1 < u
BY NPositive

(* The first buffers are not the ones after all that are used.             *)
LEMMA Before ==
    ASSUME NEW u \in 0..(N - 1), NEW c \in Nat, NEW l \in Nat, l <= u, NEW i \in 1..l
    PROVE  i - 1 \in 0..(N - 1) /\ i - 1 # u + c /\ i - 1 < u
BY NPositive

(* Of c + 1 buffers in a row after u others all but the last               *)
LEMMA Among ==
    ASSUME NEW u \in 0..(N - 1), NEW c \in Nat, u + c \in 0..(N - 1),
           NEW i \in 1..(c + 1), i # c + 1
    PROVE  i \in 1..c /\ u + i - 1 \in 0..(N - 1) /\ u + i - 1 # u + c
BY NPositive

(* The buffers used, n more of them,                                       *)
LEMMA UsedMore ==
    ASSUME NEW w \in 0..(N - 1), NEW r \in 0..(N - 1), NEW n \in 0..(N - 1),
           Wrap(w + N - r) + n <= N - 1
    PROVE  Wrap(Wrap(w + n) + N - r) = Wrap(w + N - r) + n
BY NPositive DEF Wrap

(* and n fewer                                                             *)
LEMMA UsedLess ==
    ASSUME NEW w \in 0..(N - 1), NEW r \in 0..(N - 1), NEW n \in 0..(N - 1),
           n <= Wrap(w + N - r)
    PROVE  Wrap(w + N - Wrap(r + n)) = Wrap(w + N - r) - n
BY NPositive DEF Wrap

(* The offsets after n buffers have been consumed                          *)
LEMMA SlotShifts ==
    ASSUME NEW r \in 0..(N - 1), NEW n \in 0..(N - 1), NEW o \in 0..(N - 1)
    PROVE  /\ o + n <= N - 1 => Wrap(Wrap(r + n) + o) = Wrap(r + (o + n))
           /\ o + n > N - 1 => Wrap(Wrap(r + n) + o) = Wrap(r + (o + n - N))
BY NPositive DEF Wrap

(* A record of l elements at offset a is then k nearer to the start.       *)
LEMMA OffsetShifts ==
    ASSUME NEW a \in 0..(N - 1), NEW k \in 1..(N - 1), k <= a, NEW l \in Nat, a + l \in 0..(N - 1)
    PROVE  /\ a - k \in 0..(N - 1) /\ (a + l) - k = (a - k) + l
           /\ \A i \in 1..l : /\ (a - k) + i - 1 \in 0..(N - 1)
                              /\ (a - k) + i - 1 + k = a + i - 1
                              /\ (a - k) + i - 1 + k <= N - 1
BY NPositive

(* Offsets stay in order.                                                  *)
LEMMA OrderShifts == \A a, b, k \in Int : a <= b => a - k <= b - k
OBVIOUS

USE Untyped

-----------------------------------------------------------------------------
(* Steps that move no record *)

\* Nothing is stored, published, accepted or given up.
Quiet ==
    /\ UNCHANGED <<mem, writePtr, readPtr, stores, copied, fenced, rxSeqNum, underway>>
    /\ sending' = sending \/ (copied = 0 /\ sending' \in Records)
    /\ txSeqNum' \in 0..(SEQ_MOD - 1)
    /\ txFree' >= txFree /\ rxAvail' >= rxAvail
    /\ txLinked' = txLinked \/ txLinked' = 1
    /\ sending' # <<>> => txLinked' = 1
    /\ staging' = staging \/ staging' = <<>>

QuietStep ==
    \/ Link \/ WaitForSpace \/ ReceiveStatus \/ LookForMore \/ NothingToDo
    \/ ReadIncomplete \/ LengthWrong \/ Reject \/ UNCHANGED gspVars
    \/ \E k \in 1..MAX_ELEMENTS : SendCommand(k)

(* Those steps are quiet.                                                  *)
LEMMA StepsQuiet == ASSUME GspInv, QuietStep PROVE Quiet
<1> USE DEF Quiet, sendVars, recvVars, mqVars, sharedVars, txVars, rxVars
<1>0. /\ txSeqNum \in 0..(SEQ_MOD - 1) /\ (sending # <<>> => txLinked = 1)
      /\ txFree \in Nat /\ rxAvail \in Nat /\ MqInv
  BY DEF GspInv, SendInv, MqInv, MqTypeOK
<1>1. CASE GspMsgQueueInit
  BY <1>0, <1>1, NPositive DEF GspMsgQueueInit, msgqTxCreate, MqInv, Unlinked
<1>2. CASE GspStatusQueueInit
  BY <1>0, <1>2 DEF GspStatusQueueInit, LinkBack
<1>3. CASE ReceiverLinks
  BY <1>0, <1>3 DEF ReceiverLinks, msgqRxLink, MqInv, Unlinked
<1>4. CASE WaitForSpace
  BY <1>0, <1>4, FreeGrows DEF WaitForSpace, msgqTxGetFreeSpace
<1>5. CASE ReceiveStatus
  BY <1>0, <1>5 DEF ReceiveStatus
<1>6. CASE LookForMore
  BY <1>0, <1>6, AvailGrows DEF LookForMore, msgqRxGetReadAvailable
<1>7. CASE NothingToDo
  <2>1. CASE rxLinked = 0 /\ UNCHANGED mqVars
    BY <1>0, <1>7, <2>1 DEF NothingToDo, Return, Restart
  <2>2. CASE msgqRxGetReadAvailable
    BY <1>0, <1>7, <2>2, AvailGrows DEF NothingToDo, Return, Restart, msgqRxGetReadAvailable
  <2> QED
    BY <1>7, <2>1, <2>2 DEF NothingToDo
<1>8. CASE ReadIncomplete
  BY <1>0, <1>8, AvailGrows DEF ReadIncomplete, msgqRxGetReadAvailable, Again, Return, Restart
<1>9. CASE LengthWrong \/ Reject
  BY <1>0, <1>9 DEF LengthWrong, Reject, Again, Return, Restart
<1>10. ASSUME NEW k \in 1..MAX_ELEMENTS, SendCommand(k) PROVE Quiet
  <2>1. copied = 0
    BY <1>10 DEF SendCommand, GspInv, SendInv
  <2>2. Record(txSeqNum, k) \in Records
    BY <1>0 DEF Records
  <2>3. txSeqNum' \in 0..(SEQ_MOD - 1)
    BY <1>10, <1>0, NextSeq, SizesFit, NPositive DEF SendCommand
  <2> QED
    BY <1>0, <1>10, <2>1, <2>2, <2>3 DEF SendCommand
<1>11. CASE UNCHANGED gspVars
  BY <1>0, <1>11 DEF gspVars
<1> QED
  BY <1>1, <1>2, <1>3, <1>4, <1>5, <1>6, <1>7, <1>8, <1>9, <1>10, <1>11 DEF QuietStep, Link

(* Where every element of the ring stays, the records do.                  *)
LEMMA RingKept ==
    ASSUME GspInv, underway' = underway, Used' = Used, copied' \in Nat,
           \A o \in 0..(N - 1), e \in Messages : o < Used /\ Will(o, e) => Will(o, e)',
           \A i \in 1..copied' : Will(Used + i - 1, sending[i])'
    PROVE  RingInv'
<1>1. PICK off \in [1..(Len(underway) + 1) -> 0..(N - 1)] : Starts(off) /\ Filled(off)
  BY DEF GspInv, RingInv
<1>2. underway \in Seq(Records) /\ Len(underway) \in Nat /\ Used \in 0..(N - 1)
  BY SlotFacts DEF GspInv, RingInv
<1>3. Starts(off)'
  BY <1>1, <1>2 DEF Starts
<1>4. ASSUME NEW j \in 1..Len(underway), NEW i \in 1..Len(underway[j])
      PROVE  Will(off[j] + i - 1, underway[j][i])'
  <2>1. /\ underway[j] \in Records /\ Len(underway[j]) \in Nat
        /\ underway[j][i] \in Messages
    BY <1>2, RecordTypes
  <2>2. /\ j + 1 \in 1..(Len(underway) + 1) /\ Len(underway) + 1 \in 1..(Len(underway) + 1)
        /\ j + 1 <= Len(underway) + 1
    BY <1>2
  <2>3. off[j + 1] = off[j] + Len(underway[j]) /\ off[j + 1] <= Used
    BY <1>1, <2>2 DEF Starts
  <2>4. off[j] \in Nat
    BY <1>1, <1>2
  <2>5. off[j] + i - 1 \in 0..(N - 1) /\ off[j] + i - 1 < Used
    BY <2>1, <2>3, <2>4, <1>2, Within, ZenonT(60)
  <2> QED
    BY <1>1, <2>1, <2>5 DEF Filled
<1>5. Filled(off)'
  BY <1>4 DEF Filled
<1> QED
  BY <1>1, <1>2, <1>3, <1>5 DEF RingInv

(* What is in memory or under way to it stays, if nobody touches it.       *)
LEMMA SameRing ==
    ASSUME UNCHANGED <<mem, writePtr, readPtr, stores>>
    PROVE  /\ Used' = Used
           /\ \A o : Slot(o)' = Slot(o)
           /\ \A a : Pending(a)' <=> Pending(a)
           /\ \A o, e : (Landed(o, e)' <=> Landed(o, e)) /\ (Will(o, e)' <=> Will(o, e))
BY DEF Used, Slot, Pending, Landed, Will, Wrap

(* And quiet steps keep what is known of the records.                      *)
LEMMA QuietKeeps ==
    ASSUME GspInv, MqInv', Quiet PROVE SendInv' /\ StaleInv' /\ RingInv' /\ StagingInv'
<1>0. /\ txFree \in 0..(N - 1) /\ txFree' \in 0..(N - 1) /\ txLinked \in 0..1
      /\ rxAvail \in 0..(N - 1) /\ rxAvail' \in 0..(N - 1) /\ N \in Nat
  BY NPositive DEF GspInv, MqInv, MqTypeOK
<1>1. SendInv'
  <2>1. sending' \in Records \cup {<<>>} /\ copied \in 0..Len(sending')
    <3>1. CASE sending' = sending
      BY <3>1 DEF GspInv, SendInv
    <3>2. CASE copied = 0 /\ sending' \in Records
      BY <3>2, RecordTypes
    <3> QED
      BY <3>1, <3>2 DEF Quiet
  <2>2. copied \in Nat /\ copied <= txFree'
    BY <1>0, <2>1 DEF GspInv, SendInv, Quiet
  <2>3. fenced => \A st \in stores : \E c \in 0..(txFree' - 1) : st[1] = Wrap(writePtr + c)
    <3>1. 0..(txFree - 1) \subseteq 0..(txFree' - 1)
      BY <1>0 DEF Quiet
    <3> QED
      BY <3>1 DEF GspInv, SendInv
  <2>4. (sending' # <<>> \/ stores # {}) => txLinked' = 1
    BY DEF GspInv, SendInv, Quiet
  <2> QED
    BY <2>1, <2>2, <2>3, <2>4 DEF GspInv, SendInv, Quiet, Wrap
<1>2. UNCHANGED <<mem, writePtr, readPtr, stores, copied, fenced, rxSeqNum, underway>>
  BY DEF Quiet
<1>3. \A e, d : Stale(e, d)' <=> Stale(e, d)
  BY <1>2 DEF Stale, Back
<1>4. StaleInv'
  BY <1>2, <1>3, SameRing DEF GspInv, StaleInv
<1>5. RingInv'
  <2>1. \A i \in 1..copied : Will(Used + i - 1, sending'[i])
    BY DEF GspInv, SendInv, RingInv, Quiet
  <2>2. copied' \in Nat /\ Used' = Used
    BY <1>1, <1>2, SameRing DEF SendInv
  <2> QED
    BY <1>2, <2>1, <2>2, SameRing, RingKept
<1>6. StagingInv'
  <2>1. CASE staging' = staging
    BY <1>0, <1>2, <1>3, <2>1, SameRing DEF GspInv, StagingInv, Quiet
  <2>2. CASE staging' = <<>>
    BY <1>0, <2>2 DEF StagingInv
  <2> QED
    BY <2>1, <2>2 DEF Quiet
<1> QED
  BY <1>1, <1>4, <1>5, <1>6

-----------------------------------------------------------------------------
(* The sender's stores *)

(* The buffer that the next element goes to comes after all that are used. *)
LEMMA NextSlot ==
    ASSUME GspInv, CopyElement
    PROVE  /\ copied \in Nat /\ Used + copied \in 0..(N - 1)
           /\ Slot(Used + copied) = Store(sending[copied + 1])[1]
           /\ Store(sending[copied + 1]) \in (0..(N - 1)) \X Messages
           /\ copied + 1 \in 1..Len(sending)
<1>1. /\ copied \in 0..Len(sending) /\ copied < Len(sending) /\ copied < txFree
      /\ sending \in Records \cup {<<>>} /\ txFree \in 0..(N - 1)
  BY DEF GspInv, SendInv, CopyElement, MqInv, MqTypeOK
<1>2. sending \in Records
  BY <1>1
<1>3. Len(sending) \in Nat /\ copied + 1 \in 1..Len(sending) /\ sending[copied + 1] \in Messages
  BY <1>1, <1>2, RecordTypes
<1>4. Used \in 0..(N - 1) /\ Used + txFree <= N - 1
  BY SlotFacts DEF GspInv
<1>5. copied \in 0..(N - 1) /\ Used + copied \in 0..(N - 1)
  BY <1>1, <1>4, NPositive
<1>6. Slot(Used + copied) = Wrap(writePtr + copied) /\ Slot(Used + copied) \in 0..(N - 1)
  BY <1>4, <1>5, SlotFacts DEF GspInv
<1> QED
  BY <1>1, <1>3, <1>5, <1>6 DEF Store

(* Copying an element changes what is under way to that buffer only.       *)
LEMMA CopyChanges ==
    ASSUME GspInv, CopyElement, NEW o \in 0..(N - 1), o # Used + copied
    PROVE  /\ Pending(Slot(o))' <=> Pending(Slot(o))
           /\ \A e : (Landed(o, e)' <=> Landed(o, e)) /\ (Will(o, e)' <=> Will(o, e))
<1>1. Slot(o) # Store(sending[copied + 1])[1]
  BY NextSlot, SlotFacts DEF GspInv
<1>2. Slot(o)' = Slot(o) /\ mem' = mem
  BY DEF CopyElement, mqVars, sharedVars, Slot, Wrap
<1>3. \A st : st[1] = Slot(o) => (st \in stores' <=> st \in stores)
  BY <1>1 DEF CopyElement, Issue
<1>4. Pending(Slot(o))' <=> Pending(Slot(o))
  BY <1>2, <1>3 DEF Pending
<1>5. \A e : <<Slot(o), e>> \in stores' <=> <<Slot(o), e>> \in stores
  BY <1>3
<1> QED
  BY <1>2, <1>4, <1>5 DEF Landed, Will

(* Copying an element keeps the invariant.                                 *)
LEMMA CopyKeeps ==
    ASSUME GspInv, CopyElement PROVE SendInv' /\ StaleInv' /\ RingInv' /\ StagingInv'
<1> DEFINE s == Store(sending[copied + 1])
<1>0. /\ copied \in Nat /\ Used + copied \in 0..(N - 1) /\ Slot(Used + copied) = s[1]
      /\ s \in (0..(N - 1)) \X Messages /\ copied + 1 \in 1..Len(sending)
      /\ s = <<Wrap(writePtr + copied), sending[copied + 1]>>
  BY NextSlot DEF Store
<1>1. stores' = {st \in stores : st[1] # s[1]} \cup {s} /\ copied' = copied + 1
  BY DEF CopyElement, Issue
<1>2. UNCHANGED <<mem, writePtr, readPtr, txLinked, txFree, rxAvail, txSeqNum, rxSeqNum,
                  sending, fenced, staging, underway>>
  BY DEF CopyElement, mqVars, sharedVars, txVars, rxVars, recvVars
<1>3. Used' = Used /\ Used \in 0..(N - 1) /\ N \in Nat /\ txFree \in 0..(N - 1)
  BY <1>2, SlotFacts, NPositive DEF Used, Wrap, GspInv, MqInv, MqTypeOK
<1> HIDE DEF s
<1>4. SendInv'
  <2>1. copied' \in 0..Len(sending') /\ copied' <= txFree'
    BY <1>0, <1>1, <1>2, <1>3 DEF CopyElement, GspInv, SendInv
  <2>2. txLinked = 1
    BY <1>0 DEF GspInv, SendInv
  <2>3. stores' \subseteq (0..(N - 1)) \X Messages
    BY <1>0, <1>1 DEF GspInv, SendInv
  <2>4. \A p, q \in stores' : p[1] = q[1] => p = q
    BY <1>1 DEF GspInv, SendInv
  <2>5. fenced => \A st \in stores' : \E c \in 0..(txFree - 1) : st[1] = Wrap(writePtr + c)
    <3>1. copied \in 0..(txFree - 1) /\ s[1] = Wrap(writePtr + copied)
      BY <1>0, <1>3 DEF CopyElement
    <3> QED
      BY <1>1, <3>1 DEF GspInv, SendInv
  <2>6. (fenced => \A st \in stores : \E c \in 0..(txFree - 1) : st[1] = Wrap(writePtr + c))'
    BY <1>2, <2>5 DEF Wrap
  <2> QED
    BY <1>2, <2>1, <2>2, <2>3, <2>4, <2>6 DEF GspInv, SendInv
<1>5. \A e, d : Stale(e, d)' <=> Stale(e, d)
  BY <1>2 DEF Stale, Back
<1>6. StaleInv'
  <2>0. /\ Used' + copied' = Used + copied + 1 /\ (\A o : Slot(o)' = Slot(o))
        /\ fenced' = fenced /\ mem' = mem
    BY <1>0, <1>1, <1>2, <1>3 DEF Slot, Wrap
  <2> SUFFICES ASSUME ~fenced, NEW o \in 0..(N - 1)
               PROVE  /\ Pending(Slot(o))' => o < Used + copied + 1
                      /\ Pending(Slot(o))' \/ o >= Used + copied + 1 => Stale(mem[Slot(o)], N - o)
    BY <1>5, <2>0, ZenonT(60) DEF StaleInv
  <2>1. CASE o = Used + copied
    BY <2>1, <1>0, <1>3 DEF GspInv, StaleInv
  <2>2. CASE o # Used + copied
    <3>1. /\ Pending(Slot(o)) => o < Used + copied
          /\ Pending(Slot(o)) \/ o >= Used + copied => Stale(mem[Slot(o)], N - o)
      BY DEF GspInv, StaleInv
    <3>2. Pending(Slot(o))' <=> Pending(Slot(o))
      BY <2>2, CopyChanges
    <3>3. (o < Used + copied => o < Used + copied + 1)
          /\ (o >= Used + copied + 1 => o >= Used + copied)
      BY <1>0, <1>3
    <3> QED
      BY <3>1, <3>2, <3>3
  <2> QED
    BY <2>1, <2>2
<1>7. RingInv'
  <2>1. \A o \in 0..(N - 1), e \in Messages : o < Used /\ Will(o, e) => Will(o, e)'
    BY <1>0, <1>3, CopyChanges
  <2>2. ASSUME NEW i \in 1..(copied + 1) PROVE Will(Used + i - 1, sending[i])'
    <3>1. CASE i = copied + 1
      <4>1. PICK o \in 0..(N - 1) : o = Used + copied
        BY <1>0
      <4>2. <<Slot(o), sending[i]>> \in stores'
        BY <1>0, <1>1, <3>1, <4>1
      <4>3. Slot(o)' = Slot(o)
        BY <1>2 DEF Slot, Wrap
      <4>4. Will(o, sending[i])'
        BY <1>2, <4>2, <4>3 DEF Will
      <4>5. (Used + i - 1)' = o
        BY <1>0, <1>3, <3>1, <4>1
      <4> QED
        BY <4>4, <4>5
    <3>2. CASE i # copied + 1
      <4>1. i \in 1..copied /\ Used + i - 1 \in 0..(N - 1) /\ Used + i - 1 # Used + copied
        BY <1>0, <1>3, <3>2, Among
      <4>2. Will(Used + i - 1, sending[i])
        BY <4>1 DEF GspInv, RingInv
      <4>3. \A e : Will(Used + i - 1, e)' <=> Will(Used + i - 1, e)
        BY <1>3, <4>1, CopyChanges
      <4> QED
        BY <1>2, <1>3, <4>2, <4>3
    <3> QED
      BY <3>1, <3>2
  <2> QED
    BY <1>0, <1>1, <1>2, <1>3, <2>1, <2>2, RingKept
<1>8. StagingInv'
  <2>1. ASSUME NEW i \in 1..Len(staging)
        PROVE  Landed(i - 1, staging[i])' <=> Landed(i - 1, staging[i])
    <3>1. i - 1 \in 0..(N - 1) /\ i - 1 # Used + copied
      <4>1. Len(staging) \in Nat /\ Len(staging) <= Used
        BY <1>3, SlotFacts DEF GspInv, StagingInv, MqInv, MqTypeOK
      <4> QED
        BY <4>1, <1>0, <1>3, Before, ZenonT(60)
    <3>2. \A e : Landed(i - 1, e)' <=> Landed(i - 1, e)
      BY <3>1, CopyChanges
    <3> QED
      BY <1>2, <3>2
  <2> QED
    BY <1>2, <1>5, <2>1 DEF GspInv, StagingInv
<1> QED
  BY <1>4, <1>6, <1>7, <1>8

(* What a store that lands changes: its buffer has what it was to have.    *)
LEMMA LandChanges ==
    ASSUME GspInv, NEW st \in stores, Land(st), NEW o \in 0..(N - 1)
    PROVE  /\ Slot(o)' = Slot(o)
           /\ Pending(Slot(o))' <=> Pending(Slot(o)) /\ Slot(o) # st[1]
           /\ Slot(o) # st[1] => mem'[Slot(o)] = mem[Slot(o)]
           /\ \A e : (Landed(o, e) => Landed(o, e)') /\ (Will(o, e) => Will(o, e)')
<1>1. /\ st \in (0..(N - 1)) \X Messages /\ (\A s, t \in stores : s[1] = t[1] => s = t)
      /\ mem \in [0..(N - 1) -> Messages] /\ Slot(o) \in 0..(N - 1)
  BY SlotFacts, ZenonT(60) DEF GspInv, SendInv, MqInv, MqTypeOK
<1>2. stores' = stores \ {st} /\ mem' = [mem EXCEPT ![st[1]] = st[2]]
  BY DEF Land
<1>3. Slot(o)' = Slot(o)
  BY DEF Land, Slot, Wrap
<1>4. Pending(Slot(o))' <=> Pending(Slot(o)) /\ Slot(o) # st[1]
  BY <1>1, <1>2, <1>3 DEF Pending
<1>5. Slot(o) # st[1] => mem'[Slot(o)] = mem[Slot(o)]
  BY <1>1, <1>2
<1>6. Slot(o) = st[1] => mem'[Slot(o)] = st[2]
  BY <1>1, <1>2
<1>7. ASSUME NEW e PROVE Landed(o, e) => Landed(o, e)'
  BY <1>3, <1>4, <1>5 DEF Landed, Pending
<1>8. ASSUME NEW e, <<Slot(o), e>> \in stores PROVE Will(o, e)'
  <2>1. CASE Slot(o) = st[1]
    <3>1. st = <<Slot(o), e>>
      BY <1>1, <1>8, <2>1
    <3>2. mem'[Slot(o)] = e
      BY <1>6, <2>1, <3>1
    <3> QED
      BY <1>3, <1>4, <2>1, <3>2 DEF Will, Landed
  <2>2. CASE Slot(o) # st[1]
    <3>1. <<Slot(o), e>> \in stores'
      BY <1>2, <1>8, <2>2
    <3> QED
      BY <1>3, <3>1 DEF Will
  <2> QED
    BY <2>1, <2>2
<1> QED
  BY <1>3, <1>4, <1>5, <1>7, <1>8 DEF Will

(* A store that lands keeps the invariant.                                 *)
LEMMA LandKeeps ==
    ASSUME GspInv, NEW st \in stores, Land(st) PROVE GspInv'
<1>1. UNCHANGED <<writePtr, readPtr, txLinked, txFree, txSwapped, rxLinked, rxAvail, txSeqNum,
                  rxSeqNum, sending, copied, fenced, staging, underway>>
  BY DEF Land, txVars, rxVars, recvVars
<1>2. Used' = Used /\ copied \in Nat /\ Used \in 0..(N - 1)
  BY <1>1, SlotFacts DEF Used, Wrap, GspInv, SendInv
<1>3. \A e, d : Stale(e, d)' <=> Stale(e, d)
  BY <1>1 DEF Stale, Back
<1>4. MqInv'
  <2>1. st[2] \in Messages /\ mem \in [0..(N - 1) -> Messages]
    BY DEF GspInv, SendInv, MqInv, MqTypeOK
  <2>2. mem' \in [0..(N - 1) -> Messages]
    BY <2>1, ZenonT(60) DEF Land
  <2>3. MqTypeOK'
    BY <1>1, <2>2 DEF GspInv, MqInv, MqTypeOK
  <2> QED
    BY <1>1, <1>2, <2>3 DEF GspInv, MqInv, FreeIsSafe, AvailIsSafe, Unlinked
<1>5. SendInv'
  <2>1. stores' \subseteq stores
    BY DEF Land
  <2>2. (fenced => \A s \in stores : \E c \in 0..(txFree - 1) : s[1] = Wrap(writePtr + c))'
    BY <1>1, <2>1 DEF GspInv, SendInv, Wrap
  <2> QED
    BY <1>1, <2>1, <2>2 DEF GspInv, SendInv
<1>6. StaleInv'
  <2>0. Used' + copied' = Used + copied /\ fenced' = fenced
    BY <1>1, <1>2
  <2> SUFFICES ASSUME ~fenced, NEW o \in 0..(N - 1)
               PROVE  /\ Pending(Slot(o))' => o < Used + copied
                      /\ Pending(Slot(o))' \/ o >= Used + copied => Stale(mem'[Slot(o)], N - o)
    <3>1. \A o \in 0..(N - 1) : Slot(o)' = Slot(o)
      BY LandChanges
    <3> QED
      BY <1>3, <2>0, <3>1, ZenonT(60) DEF StaleInv
  <2>1. /\ Pending(Slot(o)) => o < Used + copied
        /\ Pending(Slot(o)) \/ o >= Used + copied => Stale(mem[Slot(o)], N - o)
    BY DEF GspInv, StaleInv
  <2>2. Slot(o) = st[1] => Pending(Slot(o))
    BY DEF Pending
  <2>3. o < Used + copied => ~(o >= Used + copied)
    BY <1>2
  <2> QED
    BY <2>1, <2>2, <2>3, LandChanges
<1>7. RingInv'
  <2>1. \A i \in 1..copied : Will(Used + i - 1, sending[i])'
    <3> TAKE i \in 1..copied
    <3>1. Used + i - 1 \in 0..(N - 1)
      <4>1. Used + txFree <= N - 1 /\ copied <= txFree /\ txFree \in Nat
        BY SlotFacts DEF GspInv, SendInv, MqInv, MqTypeOK
      <4> QED
        BY <4>1, <1>2, NPositive
    <3>2. Will(Used + i - 1, sending[i])
      BY DEF GspInv, RingInv
    <3>3. \A e : Will(Used + i - 1, e) => Will(Used + i - 1, e)'
      BY <1>2, <3>1, LandChanges
    <3> QED
      BY <1>1, <1>2, <3>2, <3>3
  <2> QED
    BY <1>1, <1>2, <2>1, LandChanges, RingKept
<1>8. StagingInv'
  <2>1. ASSUME NEW i \in 1..Len(staging), Landed(i - 1, staging[i]) PROVE Landed(i - 1, staging[i])'
    <3>1. Len(staging) \in Nat /\ Len(staging) <= Used
      BY <1>2, SlotFacts DEF GspInv, StagingInv, MqInv, MqTypeOK
    <3>2. i - 1 \in 0..(N - 1)
      BY <1>2, <3>1, Before
    <3>3. \A e : Landed(i - 1, e) => Landed(i - 1, e)'
      BY <3>2, LandChanges
    <3> QED
      BY <1>1, <2>1, <3>3
  <2> QED
    BY <1>1, <1>3, <2>1 DEF GspInv, StagingInv
<1> QED
  BY <1>4, <1>5, <1>6, <1>7, <1>8 DEF GspInv

(* A record that is given up keeps the invariant; its stores remain.       *)
LEMMA TimeOutKeeps ==
    ASSUME GspInv, MqInv', SendTimesOut PROVE SendInv' /\ StaleInv' /\ RingInv' /\ StagingInv'
<1>1. /\ UNCHANGED <<mem, writePtr, readPtr, stores, txLinked, rxAvail, fenced, txSeqNum, rxSeqNum,
                     staging, underway>>
      /\ fenced /\ copied' = 0 /\ sending' = <<>>
  BY DEF SendTimesOut, msgqTxGetFreeSpace, sharedVars, rxVars, recvVars
<1>2. txFree' >= txFree /\ txFree \in Nat /\ txFree' \in Nat
  BY FreeGrows DEF SendTimesOut, GspInv, MqInv, MqTypeOK
<1>3. \A e, d : Stale(e, d)' <=> Stale(e, d)
  BY <1>1 DEF Stale, Back
<1>4. SendInv'
  <2>1. 0..(txFree - 1) \subseteq 0..(txFree' - 1)
    BY <1>2
  <2>2. (fenced => \A st \in stores : \E c \in 0..(txFree - 1) : st[1] = Wrap(writePtr + c))'
    BY <1>1, <2>1 DEF GspInv, SendInv, Wrap
  <2> QED
    BY <1>1, <1>2, <2>2 DEF GspInv, SendInv
<1>5. StaleInv'
  BY <1>1 DEF StaleInv
<1>6. RingInv'
  BY <1>1, SameRing, RingKept
<1>7. StagingInv'
  BY <1>1, <1>3, SameRing DEF GspInv, StagingInv
<1> QED
  BY <1>4, <1>5, <1>6, <1>7

(* A record that is published follows the ones under way.                  *)
LEMMA SubmitKeeps ==
    ASSUME GspInv, MqInv', Submit PROVE SendInv' /\ StaleInv' /\ RingInv' /\ StagingInv'
<1> DEFINE n == Len(sending)
<1>0. /\ sending \in Records /\ n \in 1..(N - 1) /\ copied = n /\ n <= txFree
      /\ txFree \in 0..(N - 1) /\ N \in Nat
  BY RecordTypes, NPositive DEF Submit, GspInv, SendInv, MqInv, MqTypeOK, msgqTxSubmitBuffers
<1>1. /\ UNCHANGED <<mem, readPtr, stores, txLinked, rxAvail, fenced, txSeqNum, rxSeqNum, staging>>
      /\ writePtr' = Wrap(writePtr + n) /\ txFree' = txFree - n /\ txLinked = 1
      /\ copied' = 0 /\ sending' = <<>> /\ underway' = Append(underway, sending)
      /\ fenced => stores = {}
  BY DEF Submit, msgqTxSubmitBuffers, rxVars, recvVars
<1> HIDE DEF n
<1>2. /\ \A o : Slot(o)' = Slot(o)
      /\ \A a : Pending(a)' <=> Pending(a)
      /\ \A o, e : (Landed(o, e)' <=> Landed(o, e)) /\ (Will(o, e)' <=> Will(o, e))
      /\ \A e, d : Stale(e, d)' <=> Stale(e, d)
  BY <1>1 DEF Slot, Pending, Landed, Will, Wrap, Stale, Back
<1>3. Used' = Used + n /\ Used \in 0..(N - 1) /\ Used + n \in 0..(N - 1)
  <2>1. Used \in 0..(N - 1) /\ Used + txFree <= N - 1
    BY SlotFacts DEF GspInv
  <2>2. Used + n \in 0..(N - 1)
    BY <1>0, <2>1
  <2>3. writePtr \in 0..(N - 1) /\ readPtr \in 0..(N - 1) /\ readPtr' = readPtr
    BY <1>1 DEF GspInv, MqInv, MqTypeOK
  <2> QED
    BY <1>0, <1>1, <2>1, <2>2, <2>3, UsedMore DEF Used
<1>4. SendInv'
  <2>1. copied' <= txFree'
    BY <1>0, <1>1
  <2>2. (fenced => \A st \in stores : \E c \in 0..(txFree - 1) : st[1] = Wrap(writePtr + c))'
    BY <1>1
  <2> QED
    BY <1>1, <2>1, <2>2 DEF GspInv, SendInv
<1>5. StaleInv'
  <2>1. Used' + copied' = Used + copied /\ fenced' = fenced /\ mem' = mem
    BY <1>0, <1>1, <1>3
  <2> QED
    BY <1>2, <2>1 DEF GspInv, StaleInv
<1>6. RingInv'
  <2>1. PICK off \in [1..(Len(underway) + 1) -> 0..(N - 1)] : Starts(off) /\ Filled(off)
    BY DEF GspInv, RingInv
  <2>2. underway \in Seq(Records) /\ Len(underway) \in Nat
    BY DEF GspInv, RingInv
  <2>3. PICK k \in Nat : k = Len(underway)
    BY <2>2
  <2>4. /\ underway' \in Seq(Records) /\ Len(underway') = k + 1
        /\ \A j \in 1..k : underway'[j] = underway[j]
        /\ underway'[k + 1] = sending
    BY <1>0, <1>1, <2>2, <2>3
  <2>5. /\ off[1] = 0 /\ off[k + 1] = Used /\ off \in [1..(k + 1) -> 0..(N - 1)]
        /\ \A j \in 1..k : off[j + 1] = off[j] + Len(underway[j])
        /\ \A i, j \in 1..(k + 1) : i <= j => off[i] <= off[j]
    BY <2>1, <2>3 DEF Starts
  <2>6. PICK new \in [1..(k + 2) -> 0..(N - 1)] :
            (\A j \in 1..(k + 1) : new[j] = off[j]) /\ new[k + 2] = Used + n
    <3>1. \A j \in 1..(k + 2) : (IF j <= k + 1 THEN off[j] ELSE Used + n) \in 0..(N - 1)
      BY <1>3, <2>5
    <3> DEFINE f == [j \in 1..(k + 2) |-> IF j <= k + 1 THEN off[j] ELSE Used + n]
    <3>2. f \in [1..(k + 2) -> 0..(N - 1)]
      BY <3>1
    <3>3. (\A j \in 1..(k + 1) : f[j] = off[j]) /\ f[k + 2] = Used + n
      OBVIOUS
    <3> HIDE DEF f
    <3> QED
      BY <3>2, <3>3
  <2>7. k + 1 + 1 = k + 2 /\ \A j \in 1..k : j \in 1..(k + 1) /\ j + 1 \in 1..(k + 1)
    OBVIOUS
  <2>8. Starts(new)'
    <3>1. new \in [1..(Len(underway') + 1) -> 0..(N - 1)] /\ new[1] = 0
          /\ new[Len(underway') + 1] = Used'
      BY <1>3, <2>4, <2>5, <2>6, <2>7
    <3>2. ASSUME NEW j \in 1..(k + 1) PROVE new[j + 1] = new[j] + Len(underway'[j])
      <4>1. CASE j = k + 1
        BY <4>1, <2>4, <2>5, <2>6, <2>7 DEF n
      <4>2. CASE j \in 1..k
        <5>1. j \in 1..(k + 1) /\ j + 1 \in 1..(k + 1)
          BY <4>2, <2>7
        <5>2. new[j] = off[j] /\ new[j + 1] = off[j + 1]
          BY <5>1, <2>6
        <5> QED
          BY <4>2, <5>2, <2>4, <2>5, ZenonT(60)
      <4> QED
        BY <4>1, <4>2
    <3>3. ASSUME NEW i \in 1..(k + 2), NEW j \in 1..(k + 2), i <= j PROVE new[i] <= new[j]
      <4>1. CASE j = k + 2 /\ i # k + 2
        <5>1. i \in 1..(k + 1) /\ k + 1 \in 1..(k + 1) /\ i <= k + 1
          BY <4>1
        <5>2. off[i] <= Used /\ off[i] \in Nat
          BY <5>1, <2>5
        <5>3. new[i] = off[i] /\ new[j] = Used + n
          BY <4>1, <5>1, <2>6
        <5>4. off[i] <= Used + n
          BY <1>0, <1>3, <5>2
        <5> QED
          BY <5>3, <5>4
      <4>2. CASE i = j
        BY <4>2, <2>6
      <4>3. CASE i \in 1..(k + 1) /\ j \in 1..(k + 1)
        BY <4>3, <3>3, <2>5, <2>6
      <4> QED
        BY <4>1, <4>2, <4>3, <3>3
    <3> QED
      BY <2>4, <2>7, <3>1, <3>2, <3>3 DEF Starts
  <2>9. ASSUME NEW j \in 1..(k + 1), NEW i \in 1..Len(underway'[j])
        PROVE  Will(new[j] + i - 1, underway'[j][i])
    <3>1. CASE j = k + 1
      <4>1. underway'[j] = sending /\ i \in 1..copied /\ new[j] = Used
        BY <3>1, <1>0, <2>4, <2>5, <2>6 DEF n
      <4> QED
        BY <4>1 DEF GspInv, RingInv
    <3>2. CASE j \in 1..k
      BY <3>2, <2>1, <2>3, <2>4, <2>6, <2>7 DEF Filled
    <3> QED
      BY <3>1, <3>2
  <2>10. Filled(new)'
    BY <1>2, <2>4, <2>9 DEF Filled
  <2> QED
    BY <1>1, <2>4, <2>6, <2>7, <2>8, <2>10 DEF RingInv
<1>7. StagingInv'
  BY <1>1, <1>2 DEF GspInv, StagingInv
<1> QED
  BY <1>4, <1>5, <1>6, <1>7

-----------------------------------------------------------------------------
(* The receiver *)

(* With the fence, no store is under way to a buffer that was published.   *)
LEMMA FencedLanded ==
    ASSUME GspInv, fenced, NEW o \in 0..(N - 1), o < Used PROVE ~Pending(Slot(o))
<1> SUFFICES ASSUME NEW st \in stores, st[1] = Slot(o) PROVE FALSE
  BY DEF Pending
<1>1. PICK c \in 0..(txFree - 1) : Slot(o) = Wrap(writePtr + c)
  BY DEF GspInv, SendInv
<1>2. Used \in 0..(N - 1) /\ Used + txFree <= N - 1 /\ txFree \in 0..(N - 1) /\ N \in Nat
  BY SlotFacts, NPositive DEF GspInv, MqInv, MqTypeOK
<1>3. c \in 0..(N - 1) /\ Used + c \in 0..(N - 1) /\ Used + c <= N - 1 /\ o # Used + c
  BY <1>2
<1>4. Slot(Used + c) = Slot(o)
  BY <1>1, <1>3, SlotFacts DEF GspInv
<1> QED
  BY <1>3, <1>4, SlotFacts DEF GspInv

(* What the receiver copies is in the ring, or stale.                      *)
LEMMA ReadKeeps ==
    ASSUME GspInv, ReadElement PROVE SendInv' /\ StaleInv' /\ RingInv' /\ StagingInv'
<1> DEFINE o == Len(staging)
           e == mem[Slot(o)]
<1>1. /\ UNCHANGED <<mem, writePtr, readPtr, stores, txLinked, txFree, rxAvail, fenced, txSeqNum,
                     rxSeqNum, sending, copied, underway>>
      /\ staging' = Append(staging, e) /\ o < rxAvail
  BY DEF ReadElement, mqVars, sharedVars, txVars, rxVars, sendVars, CanRead, ReadBuffer, Slot
<1>2. \A x, d : Stale(x, d)' <=> Stale(x, d)
  BY <1>1 DEF Stale, Back
<1>3. SendInv'
  <2>1. (fenced => \A st \in stores : \E c \in 0..(txFree - 1) : st[1] = Wrap(writePtr + c))'
    BY <1>1 DEF GspInv, SendInv, Wrap
  <2> QED
    BY <1>1, <2>1 DEF GspInv, SendInv
<1>4. StaleInv'
  BY <1>1, <1>2, SameRing DEF GspInv, StaleInv
<1>5. RingInv'
  <2>1. copied' \in Nat /\ \A i \in 1..copied : Will(Used + i - 1, sending[i])
    BY <1>1 DEF GspInv, SendInv, RingInv
  <2> QED
    BY <1>1, <2>1, SameRing, RingKept
<1>6. StagingInv'
  <2>1. /\ staging \in Seq(Messages) /\ o \in Nat /\ rxAvail \in 0..(N - 1) /\ rxAvail <= Used
        /\ N \in Nat /\ Used \in 0..(N - 1)
    BY SlotFacts, NPositive DEF GspInv, StagingInv, MqInv, MqTypeOK
  <2>2. o \in 0..(N - 1) /\ o < Used /\ o + 1 <= rxAvail
    BY <1>1, <2>1
  <2>3. Slot(o) \in 0..(N - 1) /\ e \in Messages
    BY <2>2, SlotFacts DEF GspInv, MqInv, MqTypeOK
  <2>4. Landed(o, e) \/ (~fenced /\ Stale(e, N))
    <3>1. CASE ~Pending(Slot(o))
      BY <3>1 DEF Landed
    <3>2. CASE Pending(Slot(o))
      <4>1. ~fenced
        BY <3>2, <2>2, FencedLanded
      <4>2. Stale(e, N - o)
        BY <4>1, <3>2, <2>2 DEF GspInv, StaleInv
      <4>3. 1..(N - o) \subseteq 1..N
        BY <2>1, <2>2
      <4> QED
        BY <4>1, <4>2, <4>3 DEF Stale
    <3> QED
      BY <3>1, <3>2
  <2> HIDE DEF e
  <2>5. /\ staging' \in Seq(Messages) /\ Len(staging') = o + 1
        /\ \A i \in 1..o : staging'[i] = staging[i]
        /\ staging'[o + 1] = e
    BY <1>1, <2>1, <2>3
  <2>6. ASSUME NEW i \in 1..(o + 1)
        PROVE  Landed(i - 1, staging'[i]) \/ (~fenced /\ Stale(staging'[i], N))
    <3>1. CASE i = o + 1
      BY <3>1, <2>1, <2>4, <2>5
    <3>2. CASE i \in 1..o
      BY <3>2, <2>5 DEF GspInv, StagingInv
    <3> QED
      BY <3>1, <3>2, <2>1
  <2>7. \A x, y : Landed(x, y)' <=> Landed(x, y)
    BY <1>1, SameRing
  <2> QED
    BY <1>1, <1>2, <2>2, <2>5, <2>6, <2>7 DEF StagingInv
<1> QED
  BY <1>3, <1>4, <1>5, <1>6

(* The record that is accepted makes room at the start of the ring.        *)
LEMMA AcceptFacts ==
    ASSUME GspInv, Accept
    PROVE  \E k \in 1..(N - 1) :
              /\ k <= Used /\ Used' = Used - k
              /\ underway \in Seq(Records) /\ underway # <<>> /\ Len(underway[1]) = k
              /\ underway' = Tail(underway)
              /\ \A p \in 0..(k - 1) : mem[Slot(p)].seq = rxSeqNum /\ ~Pending(Slot(p))
              /\ \A o \in 0..(N - 1) :
                    /\ o + k <= N - 1 => Slot(o)' = Slot(o + k)
                    /\ o + k > N - 1 => Slot(o)' = Slot(o + k - N)
<1>1. PICK k : k = Len(staging)
  BY ZenonT(60)
<1>2. /\ k \in Nat \ {0} /\ k <= rxAvail /\ rxAvail <= Used /\ Used \in 0..(N - 1)
      /\ rxAvail \in 0..(N - 1) /\ N \in Nat
  BY <1>1, SlotFacts, AcceptedLanded, NPositive
  DEF Accept, GspInv, StagingInv, MqInv, MqTypeOK
<1>3. k \in 1..(N - 1) /\ k \in 0..(N - 1) /\ k <= Used
  BY <1>2
<1>4. /\ readPtr' = Wrap(readPtr + k) /\ UNCHANGED <<mem, writePtr>>
      /\ underway' = Tail(underway)
  BY <1>1 DEF Accept, ReadAll, msgqRxMarkConsumed
<1>5. readPtr \in 0..(N - 1) /\ writePtr \in 0..(N - 1)
  BY DEF GspInv, MqInv, MqTypeOK
<1>6. Used' = Used - k
  BY <1>3, <1>4, <1>5, UsedLess DEF Used
<1>7. \A o \in 0..(N - 1) :
         /\ o + k <= N - 1 => Slot(o)' = Slot(o + k)
         /\ o + k > N - 1 => Slot(o)' = Slot(o + k - N)
  BY <1>3, <1>4, <1>5, SlotShifts DEF Slot
<1>8. /\ underway \in Seq(Records) /\ underway # <<>> /\ underway[1] = Head(underway)
      /\ staging = Head(underway)
  BY NextOnly DEF NextRecordOnly, Accept, GspInv, RingInv
<1>9. ASSUME NEW p \in 0..(k - 1) PROVE mem[Slot(p)].seq = rxSeqNum /\ ~Pending(Slot(p))
  <2>1. p + 1 \in 1..k /\ (p + 1) - 1 = p
    BY <1>2
  <2>2. Landed((p + 1) - 1, staging[p + 1]) /\ staging[p + 1].seq = rxSeqNum
    BY <1>1, <2>1, AcceptedLanded DEF Accept
  <2> QED
    BY <2>1, <2>2 DEF Landed
<1>10. Len(underway[1]) = k
  BY <1>1, <1>8
<1>11. k \in 1..(N - 1)
  BY <1>3
<1> WITNESS k \in 1..(N - 1)
<1> QED
  BY <1>3, <1>4, <1>6, <1>7, <1>8, <1>9, <1>10

(* It leaves the buffers it took stale, and the others one record older.   *)
LEMMA AcceptStale ==
    ASSUME GspInv, Accept PROVE StaleInv'
<1>1. PICK k \in 1..(N - 1) :
              /\ k <= Used /\ Used' = Used - k
              /\ \A p \in 0..(k - 1) : mem[Slot(p)].seq = rxSeqNum /\ ~Pending(Slot(p))
              /\ \A o \in 0..(N - 1) :
                    /\ o + k <= N - 1 => Slot(o)' = Slot(o + k)
                    /\ o + k > N - 1 => Slot(o)' = Slot(o + k - N)
  BY AcceptFacts
<1>2. /\ UNCHANGED <<mem, stores, fenced, copied>> /\ copied \in Nat /\ Used \in 0..(N - 1)
      /\ rxSeqNum \in 0..(SEQ_MOD - 1) /\ rxSeqNum' = (rxSeqNum + 1) % SEQ_MOD /\ N \in Nat
  BY SlotFacts, NPositive DEF Accept, msgqRxMarkConsumed, sendVars, GspInv, SendInv
<1>3. \A a : Pending(a)' <=> Pending(a)
  BY <1>2 DEF Pending
<1> SUFFICES ASSUME ~fenced, NEW o \in 0..(N - 1), NEW a, a = Slot(o)'
             PROVE  /\ Pending(a) => o < Used' + copied
                    /\ Pending(a) \/ o >= Used' + copied => Stale(mem[a], N - o)'
  BY <1>2, <1>3, ZenonT(60) DEF StaleInv
<1>4. CASE o + k <= N - 1
  <2>1. o + k \in 0..(N - 1) /\ a = Slot(o + k)
    BY <1>1, <1>2, <1>4
  <2>2. /\ Pending(a) => o + k < Used + copied
        /\ Pending(a) \/ o + k >= Used + copied => Stale(mem[a], N - (o + k))
    BY <2>1 DEF GspInv, StaleInv
  <2>3. /\ o + k < Used + copied <=> o < Used' + copied
        /\ o + k >= Used + copied <=> o >= Used' + copied
    BY <1>1, <1>2
  <2>4. Stale(mem[a], N - (o + k)) => Stale(mem[a], N - o)'
    <3>1. SUFFICES ASSUME NEW j \in 1..(N - (o + k)), mem[a].seq = Back(j)
                   PROVE  \E i \in 1..(N - o) : mem[a].seq = Back(i)'
      BY <1>2, ZenonT(60) DEF Stale
    <3>2. j \in 1..(N - 1) /\ j + 1 \in 1..(N - o)
      BY <1>1, <1>2
    <3>3. Back(j + 1)' = Back(j)
      BY <1>2, <3>2, BackShifts
    <3> QED
      BY <3>1, <3>2, <3>3
  <2> QED
    BY <2>2, <2>3, <2>4
<1>5. CASE o + k > N - 1
  <2>1. o + k - N \in 0..(k - 1) /\ a = Slot(o + k - N) /\ 1 \in 1..(N - o)
    BY <1>1, <1>2, <1>5
  <2>2. mem[a].seq = Back(1)' /\ ~Pending(a)
    BY <1>1, <1>2, <2>1, BackShifts
  <2>3. Stale(mem[a], N - o)'
    BY <1>2, <2>1, <2>2 DEF Stale
  <2> QED
    BY <2>2, <2>3
<1> QED
  BY <1>1, <1>2, <1>4, <1>5

(* The records that remain start where they did.                           *)
LEMMA AcceptRing ==
    ASSUME GspInv, Accept PROVE RingInv'
<1>1. PICK k \in 1..(N - 1) :
              /\ k <= Used /\ Used' = Used - k
              /\ underway \in Seq(Records) /\ underway # <<>> /\ Len(underway[1]) = k
              /\ underway' = Tail(underway)
              /\ \A o \in 0..(N - 1) : o + k <= N - 1 => Slot(o)' = Slot(o + k)
  BY AcceptFacts
<1>2. /\ UNCHANGED <<mem, stores, sending, copied>> /\ copied \in Nat /\ copied <= txFree
      /\ Used \in 0..(N - 1) /\ Used + txFree <= N - 1 /\ txFree \in 0..(N - 1) /\ N \in Nat
  BY SlotFacts, NPositive DEF Accept, msgqRxMarkConsumed, sendVars, GspInv, SendInv, MqInv, MqTypeOK
<1>3. ASSUME NEW o \in 0..(N - 1), o + k <= N - 1
      PROVE  \A e : Will(o + k, e) => Will(o, e)'
  <2>1. Slot(o)' = Slot(o + k)
    BY <1>1, <1>3
  <2> QED
    BY <1>2, <2>1 DEF Will, Landed, Pending
<1>4. ASSUME NEW i \in 1..copied PROVE Will(Used + i - 1, sending[i])'
  <2>1. /\ (Used - k) + i - 1 \in 0..(N - 1) /\ (Used - k) + i - 1 + k = Used + i - 1
        /\ (Used - k) + i - 1 + k <= N - 1
    <3>1. Used + copied \in 0..(N - 1) /\ k <= Used
      BY <1>1, <1>2
    <3> QED
      BY <1>2, <3>1, OffsetShifts
  <2>2. PICK o \in 0..(N - 1) : o = (Used - k) + i - 1
    BY <2>1
  <2>3. Will(o + k, sending[i])
    BY <2>1, <2>2 DEF GspInv, RingInv
  <2>4. Used' + i - 1 = o
    BY <1>1, <2>2
  <2>5. Will(o, sending[i])'
    BY <1>2, <1>3, <2>1, <2>2, <2>3
  <2> QED
    BY <2>4, <2>5
<1>5. PICK off \in [1..(Len(underway) + 1) -> 0..(N - 1)] : Starts(off) /\ Filled(off)
  BY DEF GspInv, RingInv
<1>6. PICK n \in Nat : Len(underway) = n + 1
  <2>1. Len(underway) \in Nat /\ Len(underway) # 0
    BY <1>1
  <2>2. Len(underway) - 1 \in Nat /\ Len(underway) = (Len(underway) - 1) + 1
    BY <2>1
  <2> QED
    BY <2>2, ZenonT(60)
<1>7. /\ underway' \in Seq(Records) /\ Len(underway') = n
      /\ \A j \in 1..n : underway'[j] = underway[j + 1]
  BY <1>1, <1>6
<1>8. /\ off[1] = 0 /\ off[n + 2] = Used /\ off \in [1..(n + 2) -> 0..(N - 1)]
      /\ \A j \in 1..(n + 1) : off[j + 1] = off[j] + Len(underway[j])
      /\ \A i, j \in 1..(n + 2) : i <= j => off[i] <= off[j]
  <2>1. Len(underway) + 1 = n + 2
    BY <1>6
  <2> QED
    BY <1>5, <1>6, <2>1 DEF Starts
<1>9. off[2] = k
  <2>1. 1 \in 1..(n + 1) /\ 1 + 1 = 2
    OBVIOUS
  <2>2. off[2] = off[1] + Len(underway[1])
    BY <2>1, <1>8
  <2> QED
    BY <2>2, <1>1, <1>8
<1>10. ASSUME NEW j \in 1..(n + 1)
       PROVE  j + 1 \in 1..(n + 2) /\ off[j + 1] \in 0..(N - 1) /\ off[j + 1] - k \in 0..(N - 1)
  <2>1. 2 \in 1..(n + 2) /\ j + 1 \in 1..(n + 2) /\ 2 <= j + 1
    OBVIOUS
  <2>2. off[j + 1] \in 0..(N - 1) /\ k <= off[j + 1]
    BY <2>1, <1>8, <1>9, ZenonT(60)
  <2>3. off[j + 1] + 0 \in 0..(N - 1) /\ 0 \in Nat
    BY <2>2
  <2> QED
    BY <2>1, <2>2, <2>3, OffsetShifts
<1>11. PICK new \in [1..(n + 1) -> 0..(N - 1)] : \A j \in 1..(n + 1) : new[j] = off[j + 1] - k
  <2> DEFINE f == [j \in 1..(n + 1) |-> off[j + 1] - k]
  <2>1. f \in [1..(n + 1) -> 0..(N - 1)] /\ \A j \in 1..(n + 1) : f[j] = off[j + 1] - k
    BY <1>10
  <2> HIDE DEF f
  <2> QED
    BY <2>1
<1>12. Starts(new)'
  <2>1. /\ new \in [1..(Len(underway') + 1) -> 0..(N - 1)]
        /\ new[1] = 0 /\ new[Len(underway') + 1] = Used'
    <3>1. new[1] = off[2] - k /\ new[n + 1] = off[n + 2] - k
      <4>1. 1 \in 1..(n + 1) /\ n + 1 \in 1..(n + 1) /\ 1 + 1 = 2 /\ n + 1 + 1 = n + 2
        OBVIOUS
      <4> QED
        BY <4>1, <1>11, ZenonT(60)
    <3> QED
      BY <3>1, <1>1, <1>7, <1>8, <1>9, <1>11
  <2>2. ASSUME NEW j \in 1..n PROVE new[j + 1] = new[j] + Len(underway'[j])
    <3>1. /\ j \in 1..(n + 1) /\ j + 1 \in 1..(n + 1)
          /\ off[j + 1] \in 0..(N - 1) /\ off[j + 1 + 1] \in 0..(N - 1)
      BY <1>10
    <3>2. /\ new[j] = off[j + 1] - k /\ new[j + 1] = off[j + 1 + 1] - k
          /\ off[j + 1 + 1] = off[j + 1] + Len(underway[j + 1])
          /\ underway'[j] = underway[j + 1]
      BY <3>1, <1>7, <1>8, <1>11, ZenonT(60)
    <3>3. Len(underway[j + 1]) \in Nat
      BY <3>1, <1>1, <1>6, RecordTypes
    <3>4. k <= off[j + 1]
      <4>1. 2 \in 1..(n + 2) /\ j + 1 \in 1..(n + 2) /\ 2 <= j + 1
        OBVIOUS
      <4> QED
        BY <4>1, <1>8, <1>9, ZenonT(60)
    <3>5. (off[j + 1] + Len(underway[j + 1])) - k = (off[j + 1] - k) + Len(underway[j + 1])
      BY <3>1, <3>2, <3>3, <3>4, OffsetShifts, ZenonT(60)
    <3> QED
      BY <3>2, <3>5
  <2>3. ASSUME NEW i \in 1..(n + 1), NEW j \in 1..(n + 1), i <= j PROVE new[i] <= new[j]
    <3>1. off[i + 1] <= off[j + 1] /\ off[i + 1] \in 0..(N - 1) /\ off[j + 1] \in 0..(N - 1)
      <4>1. i + 1 \in 1..(n + 2) /\ j + 1 \in 1..(n + 2) /\ i + 1 <= j + 1
        BY <2>3
      <4> QED
        BY <4>1, <1>8, ZenonT(60)
    <3>2. new[i] = off[i + 1] - k /\ new[j] = off[j + 1] - k
      BY <1>11
    <3>3. off[i + 1] \in Int /\ off[j + 1] \in Int /\ k \in Int
      BY <3>1
    <3>4. off[i + 1] - k <= off[j + 1] - k
      BY <3>1, <3>3, OrderShifts, ZenonT(60)
    <3> QED
      BY <3>2, <3>4
  <2> QED
    BY <2>1, <2>2, <2>3, <1>7 DEF Starts
<1>13. ASSUME NEW j \in 1..n, NEW i \in 1..Len(underway[j + 1])
       PROVE  \A e : e = underway[j + 1][i] => Will(new[j] + i - 1, e)'
  <2>1. /\ j \in 1..(n + 1) /\ j + 1 \in 1..(n + 1) /\ n + 2 \in 1..(n + 2)
        /\ j + 1 + 1 \in 1..(n + 2) /\ j + 1 + 1 <= n + 2
    OBVIOUS
  <2>2. /\ off[j + 1] \in 0..(N - 1) /\ off[j + 1 + 1] <= Used /\ new[j] = off[j + 1] - k
        /\ new[j] \in 0..(N - 1) /\ off[j + 1 + 1] = off[j + 1] + Len(underway[j + 1])
    BY <2>1, <1>8, <1>11
  <2>3. Len(underway[j + 1]) \in Nat
    BY <2>1, <1>1, <1>6, RecordTypes
  <2>4. new[j] + i - 1 \in 0..(N - 1) /\ new[j] + i - 1 + k = off[j + 1] + i - 1
        /\ new[j] + i - 1 + k <= N - 1
    <3>1. k <= off[j + 1]
      <4>1. 2 \in 1..(n + 2) /\ j + 1 \in 1..(n + 2) /\ 2 <= j + 1
        OBVIOUS
      <4> QED
        BY <4>1, <1>8, <1>9, ZenonT(60)
    <3>2. off[j + 1] + Len(underway[j + 1]) \in 0..(N - 1)
      BY <2>1, <2>2, <1>8
    <3>3. /\ (off[j + 1] - k) + i - 1 \in 0..(N - 1)
          /\ (off[j + 1] - k) + i - 1 + k = off[j + 1] + i - 1
          /\ (off[j + 1] - k) + i - 1 + k <= N - 1
      BY <2>2, <2>3, <3>1, <3>2, OffsetShifts, ZenonT(60)
    <3> QED
      BY <2>2, <3>3
  <2>5. Will(off[j + 1] + i - 1, underway[j + 1][i])
    BY <2>1, <1>5, <1>6, ZenonT(60) DEF Filled
  <2> QED
    BY <2>4, <2>5, <1>3
<1>14. Filled(new)'
  BY <1>7, <1>13, ZenonT(60) DEF Filled
<1> QED
  BY <1>2, <1>4, <1>7, <1>11, <1>12, <1>14 DEF RingInv

(* Accepting a record keeps the invariant.                                 *)
LEMMA AcceptKeeps ==
    ASSUME GspInv, MqInv', Accept PROVE SendInv' /\ StaleInv' /\ RingInv' /\ StagingInv'
<1>1. /\ UNCHANGED <<writePtr, txLinked, txFree, sendVars>> /\ staging' = <<>>
      /\ rxSeqNum' = (rxSeqNum + 1) % SEQ_MOD
  BY DEF Accept, msgqRxMarkConsumed, txVars, Return, Restart
<1>2. rxSeqNum' \in 0..(SEQ_MOD - 1)
  BY <1>1, BackShifts DEF GspInv, SendInv
<1>3. SendInv'
  <2>1. (fenced => \A st \in stores : \E c \in 0..(txFree - 1) : st[1] = Wrap(writePtr + c))'
    BY <1>1 DEF GspInv, SendInv, Wrap, sendVars
  <2> QED
    BY <1>1, <1>2, <2>1 DEF GspInv, SendInv, sendVars
<1>4. rxAvail' \in 0..(N - 1)
  BY DEF MqInv, MqTypeOK
<1>5. StagingInv'
  BY <1>1, <1>4 DEF StagingInv
<1> QED
  BY <1>3, <1>5, AcceptStale, AcceptRing

-----------------------------------------------------------------------------
(* The theorems *)

(* All steps but a store's landing are steps of msgq, and so is that one   *)
(* if the sender has the fence.                                            *)
LEMMA StepsOfMsgq ==
    ASSUME GspInv, [GspNext]_gspVars, ~(\E st \in stores : Land(st)) PROVE [MqNext]_mqVars
<1> USE DEF MqNext, Link
<1>1. CASE GspMsgQueueInit \/ GspStatusQueueInit \/ ReceiverLinks
  BY <1>1 DEF GspMsgQueueInit, GspStatusQueueInit, ReceiverLinks
<1>2. CASE \E k \in 1..MAX_ELEMENTS : SendCommand(k)
  BY <1>2 DEF SendCommand
<1>3. CASE CopyElement \/ WaitForSpace \/ SendTimesOut
  BY <1>3 DEF CopyElement, WaitForSpace, SendTimesOut
<1>4. CASE Submit
  <2>1. sending \in Records
    BY <1>4 DEF Submit, GspInv, SendInv
  <2>2. Len(sending) \in 0..N
    BY <2>1, RecordTypes, NPositive
  <2> QED
    BY <1>4, <2>2 DEF Submit
<1>5. CASE ReceiveStatus \/ ReadElement \/ LookForMore \/ NothingToDo
  BY <1>5 DEF ReceiveStatus, ReadElement, LookForMore, NothingToDo
<1>6. CASE ReadIncomplete \/ LengthWrong \/ Reject
  BY <1>6 DEF ReadIncomplete, LengthWrong, Reject
<1>7. CASE Accept
  <2>1. nElements = Len(staging) /\ Len(staging) \in Nat
    BY <1>7 DEF Accept, ReadAll, GspInv, StagingInv
  <2>2. nElements \in 0..N
    BY <1>7, <2>1, NPositive DEF GspInv, StagingInv, MqInv, MqTypeOK
  <2> QED
    BY <1>7, <2>2 DEF Accept
<1>8. CASE UNCHANGED gspVars
  BY <1>8 DEF gspVars
<1> QED
  BY <1>1, <1>2, <1>3, <1>4, <1>5, <1>6, <1>7, <1>8 DEF GspNext, SendStep, ReceiveStep

(* With the fence, a store that lands fills a buffer that is free.         *)
LEMMA LandFills ==
    ASSUME GspInv, fenced, NEW st \in stores, Land(st) PROVE MqNext
<1>1. PICK c \in 0..(txFree - 1) : st[1] = Wrap(writePtr + c)
  BY DEF GspInv, SendInv
<1>2. c \in 0..N /\ c < txFree /\ st[2] \in Messages /\ txLinked = 1
  BY <1>1, NPositive DEF GspInv, SendInv, MqInv, MqTypeOK
<1>3. FillBuffer(c, st[2])
  BY <1>1, <1>2 DEF Land, FillBuffer
<1> QED
  BY <1>2, <1>3 DEF MqNext

(* The invariant holds when memory has been zeroed,                        *)
LEMMA GspInitial == GspInit => GspInv
<1> SUFFICES ASSUME GspInit PROVE GspInv
  OBVIOUS
<1>1. MqInv
  BY MqInitial DEF GspInit
<1>2. Used = 0 /\ N \in Nat \ {0} /\ SEQ_MOD \in Nat /\ SEQ_MOD > 0
  BY NPositive, SizesFit DEF GspInit, MqInit, Used, Wrap
<1>3. SendInv
  BY <1>2 DEF GspInit, MqInit, SendInv
<1>4. StaleInv
  BY <1>1, <1>2, SlotFacts DEF GspInit, StaleInv, Pending, Stale
<1>5. RingInv
  <2>1. underway \in Seq(Records) /\ Len(underway) = 0 /\ copied = 0
    BY DEF GspInit
  <2>2. PICK off \in [1..(Len(underway) + 1) -> 0..(N - 1)] : off[1] = 0
    <3> DEFINE f == [j \in 1..(Len(underway) + 1) |-> 0]
    <3>1. f \in [1..(Len(underway) + 1) -> 0..(N - 1)] /\ f[1] = 0
      BY <1>2, <2>1
    <3> HIDE DEF f
    <3> QED
      BY <3>1
  <2>3. Starts(off) /\ Filled(off)
    BY <1>2, <2>1, <2>2 DEF Starts, Filled
  <2> QED
    BY <2>1, <2>3 DEF RingInv
<1>6. StagingInv
  BY DEF GspInit, MqInit, StagingInv
<1> QED
  BY <1>1, <1>3, <1>4, <1>5, <1>6 DEF GspInv

(* and every step keeps it.                                                *)
LEMMA GspStep == ASSUME GspInv, [GspNext]_gspVars PROVE GspInv'
<1>1. CASE \E st \in stores : Land(st)
  BY <1>1, LandKeeps
<1>2. CASE ~(\E st \in stores : Land(st))
  <2>1. MqInv'
    BY <1>2, StepsOfMsgq, MqStep DEF GspInv
  <2>2. CASE QuietStep
    BY <2>1, <2>2, StepsQuiet, QuietKeeps DEF GspInv
  <2>3. CASE CopyElement
    BY <2>1, <2>3, CopyKeeps DEF GspInv
  <2>4. CASE SendTimesOut
    BY <2>1, <2>4, TimeOutKeeps DEF GspInv
  <2>5. CASE Submit
    BY <2>1, <2>5, SubmitKeeps DEF GspInv
  <2>6. CASE ReadElement
    BY <2>1, <2>6, ReadKeeps DEF GspInv
  <2>7. CASE Accept
    BY <2>1, <2>7, AcceptKeeps DEF GspInv
  <2> QED
    BY <1>2, <2>2, <2>3, <2>4, <2>5, <2>6, <2>7 DEF GspNext, SendStep, ReceiveStep, QuietStep
<1> QED
  BY <1>1, <1>2

(* The inductive invariant of the two functions: where the stores under    *)
(* way go, what is stale, and that the records under way fill the ring.    *)
THEOREM GspInvariant == GspSpec => []GspInv
BY GspInitial, GspStep, PTL DEF GspSpec

(* GspMsgQueueReceiveStatus accepts the oldest record not received, whole, *)
(* and no other, whenever stores become visible: for every ring, every     *)
(* record size and every sequence number range longer than the ring.       *)
THEOREM GspNextRecordOnly == GspSpec => []NextRecordOnly
BY GspInvariant, NextOnly, PTL

(* With the fence GspMsgQueueSendCommand and GspMsgQueueReceiveStatus do   *)
(* to the ring only what msgq's operations do, so what is proved of msgq   *)
(* holds of it here.                                                       *)
THEOREM GspRingUsed == GspSpec => RingUsed
<1>1. ASSUME GspInv, [GspNext]_gspVars PROVE [fenced => [MqNext]_mqVars]_gspVars
  BY <1>1, StepsOfMsgq, LandFills
<1> QED
  BY <1>1, GspInvariant, PTL DEF GspSpec, RingUsed
=============================================================================
