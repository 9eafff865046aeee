------------------------------ MODULE MsgQueue ------------------------------
(***************************************************************************)
(* msgq (src/common/shared/msgq/msgq.c): a ring of message buffers in      *)
(* memory that two processors share, the CPU and the GSP.  This is one     *)
(* direction of it, with its sender and its receiver; each side has its    *)
(* own metadata and sees the other side only through the shared headers.   *)
(*                                                                         *)
(* Each side caches how much it may use, txFree and rxAvail, and looks at  *)
(* the other side's pointer only when the cached value does not suffice.   *)
(* One step makes one access to shared memory.  The sender's copy of       *)
(* writePtr and the receiver's copy of readPtr equal the shared ones, which *)
(* nobody else writes; the copies of the other side's pointers, txReadPtr  *)
(* and rx.writePtr, are read again before every use.                       *)
(*                                                                         *)
(* Both sides ask for MSGQ_FLAGS_SWAP_RX: readPtr lives in the receiver's  *)
(* own memory, and the sender learns where that is only when it links the  *)
(* queue of the other direction.  Until then it looks at a word that       *)
(* nobody writes.                                                          *)
(***************************************************************************)
EXTENDS Integers, Sequences

CONSTANTS N,          \* msgCount
          Messages    \* contents of a buffer

ASSUME NPositive == N \in Nat \ {0}

VARIABLES
    mem,        \* the ring's buffers
    writePtr,   \* in the sender's header
    readPtr,    \* in the header the receiver writes
    txLinked, txFree,     \* of the sender
    txSwapped,            \* its rxSwapped: it knows where readPtr is
    rxLinked, rxAvail     \* of the receiver

sharedVars == <<mem, writePtr, readPtr>>
txVars == <<txLinked, txFree, txSwapped>>
rxVars == <<rxLinked, rxAvail>>
mqVars == <<sharedVars, txVars, rxVars>>

\* The memory is zeroed by GspMsgQueueInit, the metadata by msgqInit.
MqInit ==
    /\ mem \in {[i \in 0..(N - 1) |-> m] : m \in Messages}
    /\ writePtr = 0
    /\ readPtr = 0
    /\ txLinked = 0
    /\ txFree = 0
    /\ txSwapped = 0
    /\ rxLinked = 0
    /\ rxAvail = 0

\* The code's substitute for % N
Wrap(k) == IF k >= N THEN k - N ELSE k

-----------------------------------------------------------------------------
(* The sender *)

\* "Allow adding queue messages before rx is linked."
msgqTxCreate ==
    /\ txLinked = 0
    /\ txLinked' = 1
    /\ writePtr' = 0
    /\ txFree' = N - 1
    /\ UNCHANGED <<mem, readPtr, txSwapped, rxVars>>

\* msgqRxLink of the sender's handle: it links the other direction's queue, both
\* sides agree to swap and pReadIncoming points to the receiver's readPtr.
LinkBack ==
    /\ txLinked = 1
    /\ txSwapped = 0
    /\ txSwapped' = 1
    /\ UNCHANGED <<sharedVars, txLinked, txFree, rxVars>>

\* What pReadIncoming points to
ReadIncoming == IF txSwapped = 1 THEN readPtr ELSE 0

\* Mutant: no buffer is kept free.
FreeAll == Wrap(ReadIncoming + N - writePtr)

FreeNow == Wrap(ReadIncoming + N - writePtr - 1)

\* msgqTxGetFreeSpace; msgqTxSync calls it, and so do the next two when the
\* cached value does not suffice.
msgqTxGetFreeSpace ==
    /\ txLinked = 1
    /\ txFree' = FreeNow
    /\ UNCHANGED <<sharedVars, txLinked, txSwapped, rxVars>>

\* msgqTxGetWriteBuffer returns the n-th buffer, and the caller fills it.
FillBuffer(n, m) ==
    /\ txLinked = 1
    /\ n < txFree
    /\ mem' = [mem EXCEPT ![Wrap(writePtr + n)] = m]
    /\ UNCHANGED <<writePtr, readPtr, txVars, rxVars>>

\* Mutant: the cached free space is not adjusted.
SubmitKeepsFree(n) ==
    /\ txLinked = 1
    /\ n <= txFree
    /\ writePtr' = Wrap(writePtr + n)
    /\ UNCHANGED <<mem, readPtr, txVars, rxVars>>

msgqTxSubmitBuffers(n) ==
    /\ txLinked = 1
    /\ n <= txFree
    /\ writePtr' = Wrap(writePtr + n)
    /\ txFree' = txFree - n
    /\ UNCHANGED <<mem, readPtr, txLinked, txSwapped, rxVars>>

-----------------------------------------------------------------------------
(* The receiver *)

\* It fails, and is tried again, until the sender has written its header.
msgqRxLink ==
    /\ rxLinked = 0
    /\ txLinked = 1
    /\ rxLinked' = 1
    /\ readPtr' = 0
    /\ UNCHANGED <<mem, writePtr, txVars, rxAvail>>

AvailNow == Wrap(writePtr + N - readPtr)

\* msgqRxGetReadAvailable; msgqRxSync calls it, and so do msgqRxGetReadBuffer and
\* msgqRxMarkConsumed when the cached value does not suffice.
msgqRxGetReadAvailable ==
    /\ rxLinked = 1
    /\ rxAvail' = AvailNow
    /\ UNCHANGED <<sharedVars, txVars, rxLinked>>

\* msgqRxGetReadBuffer has a buffer to return, the n-th one
CanRead(n) == rxLinked = 1 /\ n < rxAvail

ReadBuffer(n) == mem[Wrap(readPtr + n)]

msgqRxMarkConsumed(n) ==
    /\ rxLinked = 1
    /\ n <= rxAvail
    /\ readPtr' = Wrap(readPtr + n)
    /\ rxAvail' = rxAvail - n
    /\ UNCHANGED <<mem, writePtr, txVars, rxLinked>>

-----------------------------------------------------------------------------
MqNext ==
    \/ msgqTxCreate
    \/ LinkBack
    \/ msgqTxGetFreeSpace
    \/ \E n \in 0..N, m \in Messages : FillBuffer(n, m)
    \/ \E n \in 0..N : msgqTxSubmitBuffers(n)
    \/ msgqRxLink
    \/ msgqRxGetReadAvailable
    \/ \E n \in 0..N : msgqRxMarkConsumed(n)

MqSpec == MqInit /\ [][MqNext]_mqVars

-----------------------------------------------------------------------------
(* Properties *)

MqTypeOK ==
    /\ mem \in [0..(N - 1) -> Messages]
    /\ writePtr \in 0..(N - 1)
    /\ readPtr \in 0..(N - 1)
    /\ txLinked \in 0..1
    /\ txFree \in 0..(N - 1)
    /\ txSwapped \in 0..1
    /\ rxLinked \in 0..1
    /\ rxAvail \in 0..(N - 1)

\* Messages published and not consumed
Used == Wrap(writePtr + N - readPtr)

\* The sender never believes that it may use a buffer the receiver has not
\* consumed, although it believes what it read or computed long ago, and may
\* have filled the ring before the receiver was there, or before it knew where to
\* find the receiver's pointer.  One buffer stays free.
FreeIsSafe == txFree + Used <= N - 1

\* The receiver never believes in messages that have not been published.
AvailIsSafe == rxAvail <= Used

\* The messages under way, in order
Contents == [i \in 1..Used |-> mem[Wrap(readPtr + i - 1)]]

\* The ring is a bounded FIFO: filling buffers changes no message under way, a
\* submission appends to them and a consumption removes the first ones.
Fifo == INSTANCE BoundedFifo WITH Capacity <- N - 1, fifo <- Contents,
                                    taken <- readPtr

FifoRefined == Fifo!FifoSpec
=============================================================================
