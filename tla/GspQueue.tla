------------------------------ MODULE GspQueue ------------------------------
(***************************************************************************)
(* Records on a msgq ring (gpu/gsp/message_queue_cpu.c).  A record is a    *)
(* header and an RPC message and takes one or more ring elements.          *)
(* GspMsgQueueSendCommand copies it element by element, waiting for space, *)
(* and publishes all of it at once; GspMsgQueueReceiveStatus collects the  *)
(* elements in the staging area, checks length, checksum and sequence      *)
(* number, and consumes all of them at once.                               *)
(*                                                                         *)
(* The two functions are the CPU's ends of two rings.  Here they meet on   *)
(* one: the firmware at the other end of each is taken to do what the CPU  *)
(* does.  Every caller holds the GPU lock, so each end has one thread.     *)
(***************************************************************************)
EXTENDS MsgQueue

CONSTANTS SEQ_MOD,       \* sequence numbers wrap; 2^32
          MAX_ELEMENTS,  \* GSP_MSG_QUEUE_ELEMENT_SIZE_MAX, in elements
          MAX_TIMEOUTS   \* bound: waits for space that last longer than a second

RETRIES == 3

ASSUME SizesFit ==
    /\ MAX_TIMEOUTS \in Nat
    /\ SEQ_MOD \in Nat /\ SEQ_MOD > N
    /\ MAX_ELEMENTS \in 1..(N - 1)

\* The i-th element of a record of k elements.  Only the first one carries the
\* length and the sequence number; the checksum ties the others to it.
Element(seq, k, i) == [seq |-> seq, k |-> k, i |-> i]

Record(seq, k) == [i \in 1..k |-> Element(seq, k, i)]

Zeroed == Element(0, 0, 0)

Elements ==
    {Zeroed} \cup
    {Element(s, k, i) : s \in 0..(SEQ_MOD - 1), k \in 1..MAX_ELEMENTS, i \in 1..MAX_ELEMENTS}

ASSUME ElementsFill == Messages = Elements

VARIABLES
    txSeqNum, rxSeqNum,
    sending,    \* the elements of the record being sent; <<>>: none
    copied,     \* and how many have been copied to the ring
    timeouts,   \* time-outs so far
    fenced,     \* the sender has the store fence, as the CPU has
    stores,     \* the stores that have not reached memory: <<buffer, element>>
    receiving,  \* the receiver's call is between its first line and its return
    staging,    \* the elements it has copied
    nElements,  \* of how many it expects; 0: the length is not valid
    nRetries,
    \* What the two ends have done, for the properties:
    underway    \* the records sent and not received

sendVars == <<txSeqNum, sending, copied, timeouts, fenced, stores>>
recvVars == <<rxSeqNum, receiving, staging, nElements, nRetries>>
gspVars == <<mqVars, sendVars, recvVars, underway>>

GspInit ==
    /\ MqInit
    /\ mem = [i \in 0..(N - 1) |-> Zeroed]
    /\ txSeqNum = 0
    /\ rxSeqNum = 0
    /\ sending = <<>>
    /\ copied = 0
    /\ timeouts = 0
    /\ fenced \in BOOLEAN
    /\ stores = {}
    /\ receiving = FALSE
    /\ staging = <<>>
    /\ nElements = 1
    /\ nRetries = 0
    /\ underway = <<>>

-----------------------------------------------------------------------------
(* Linking the two ends *)

\* GspMsgQueueInit, on memory that it has zeroed
GspMsgQueueInit == msgqTxCreate /\ UNCHANGED <<sendVars, recvVars, underway>>

\* GspStatusQueueInit by the sender; it tries until the other end is there.
GspStatusQueueInit == LinkBack /\ UNCHANGED <<sendVars, recvVars, underway>>

\* And by the receiver
ReceiverLinks == msgqRxLink /\ UNCHANGED <<sendVars, recvVars, underway>>

-----------------------------------------------------------------------------
(* GspMsgQueueSendCommand *)

\* The sequence number is taken before there is space.
SendCommand(k) ==
    /\ txLinked = 1
    /\ sending = <<>>
    /\ sending' = Record(txSeqNum, k)
    /\ txSeqNum' = (txSeqNum + 1) % SEQ_MOD
    /\ copied' = 0
    /\ UNCHANGED <<mqVars, timeouts, fenced, stores, recvVars, underway>>

Store(e) == <<Wrap(writePtr + copied), e>>

\* A later store to a buffer replaces an earlier one that is under way.
Issue(e) == {st \in stores : st[1] # Store(e)[1]} \cup {Store(e)}

\* Mutant: the buffer is taken whether it is free or not.
CopyUnchecked ==
    /\ copied < Len(sending)
    /\ stores' = Issue(sending[copied + 1])
    /\ copied' = copied + 1
    /\ UNCHANGED <<mqVars, txSeqNum, sending, timeouts, fenced, recvVars, underway>>

\* msgqTxGetWriteBuffer returns a buffer without looking at readPtr
CopyElement ==
    /\ copied < Len(sending)
    /\ copied < txFree
    /\ stores' = Issue(sending[copied + 1])
    /\ copied' = copied + 1
    /\ UNCHANGED <<mqVars, txSeqNum, sending, timeouts, fenced, recvVars, underway>>

\* A store reaches memory.
Land(st) ==
    /\ stores' = stores \ {st}
    /\ mem' = [mem EXCEPT ![st[1]] = st[2]]
    /\ UNCHANGED <<writePtr, readPtr, txVars, rxVars, txSeqNum, sending, copied,
                   timeouts, fenced, recvVars, underway>>

\* or it looks, and the caller copies, or tries again.
WaitForSpace ==
    /\ copied < Len(sending)
    /\ copied >= txFree
    /\ msgqTxGetFreeSpace
    /\ UNCHANGED <<sendVars, recvVars, underway>>

\* "buffer is full": NV_ERR_BUSY_RETRY.  This is the CPU's sender.
SendTimesOut ==
    /\ fenced
    /\ timeouts < MAX_TIMEOUTS
    /\ timeouts' = timeouts + 1
    /\ copied < Len(sending)
    /\ copied >= txFree
    /\ msgqTxGetFreeSpace
    /\ copied >= txFree'
    /\ sending' = <<>>
    /\ copied' = 0
    /\ UNCHANGED <<txSeqNum, fenced, stores, recvVars, underway>>

\* portAtomicMemoryFenceStore, and the record is published.
Submit ==
    /\ sending # <<>>
    /\ copied = Len(sending)
    /\ fenced => stores = {}
    /\ msgqTxSubmitBuffers(Len(sending))
    /\ underway' = Append(underway, sending)
    /\ sending' = <<>>
    /\ copied' = 0
    /\ UNCHANGED <<txSeqNum, timeouts, fenced, stores, recvVars>>

-----------------------------------------------------------------------------
(* GspMsgQueueReceiveStatus *)

\* The staging area is to be filled from its start.
Restart == staging' = <<>> /\ nElements' = 1

Return == Restart /\ nRetries' = 0 /\ receiving' = FALSE

ReceiveStatus ==
    /\ ~receiving
    /\ receiving' = TRUE
    /\ UNCHANGED <<mqVars, sendVars, rxSeqNum, staging, nElements, nRetries, underway>>

\* A failure: it tries again or, the third time, gives up.
Again ==
    /\ IF nRetries + 1 = RETRIES
       THEN Return
       ELSE Restart /\ nRetries' = nRetries + 1 /\ UNCHANGED receiving
    /\ UNCHANGED <<rxSeqNum, sendVars, underway>>

\* It has more elements to read.
Reading == receiving /\ Len(staging) < nElements

\* What the length in the first element amounts to.  In memory where a record does
\* not start it is whatever is there.
Lengths(e) ==
    IF e = Zeroed THEN {0} ELSE IF e.i = 1 THEN {e.k} ELSE 0..MAX_ELEMENTS

\* msgqRxGetReadBuffer returns the next buffer without looking at writePtr
ReadElement ==
    /\ Reading
    /\ CanRead(Len(staging))
    /\ LET e == ReadBuffer(Len(staging)) IN
       /\ staging' = Append(staging, e)
       /\ nElements' \in IF staging = <<>> THEN Lengths(e) ELSE {nElements}
    /\ UNCHANGED <<mqVars, sendVars, rxSeqNum, receiving, nRetries, underway>>

\* or it looks, and finds something to read,
LookForMore ==
    /\ Reading
    /\ Len(staging) >= rxAvail
    /\ msgqRxGetReadAvailable
    /\ Len(staging) < rxAvail'
    /\ UNCHANGED <<sendVars, recvVars, underway>>

\* or nothing: NV_WARN_NOTHING_TO_DO.  A queue that is not linked has nothing.
NothingToDo ==
    /\ Reading
    /\ staging = <<>>
    /\ rxAvail = 0
    /\ \/ rxLinked = 0 /\ UNCHANGED mqVars
       \/ msgqRxGetReadAvailable /\ rxAvail' = 0
    /\ Return
    /\ UNCHANGED <<sendVars, rxSeqNum, underway>>

\* "Incomplete read"
ReadIncomplete ==
    /\ Reading
    /\ staging # <<>>
    /\ Len(staging) >= rxAvail
    /\ msgqRxGetReadAvailable
    /\ Len(staging) >= rxAvail'
    /\ Again

\* "Incorrect length", found when the first element has been read
LengthWrong ==
    /\ receiving
    /\ nElements = 0
    /\ Again
    /\ UNCHANGED mqVars

ReadAll == receiving /\ nElements > 0 /\ Len(staging) = nElements

\* _checkSum32 over the record is 0: the elements of one record, in order
ChecksumGood == staging = Record(staging[1].seq, staging[1].k)

\* Mutant: the sequence number is not looked at.
AnySeq == TRUE

SeqGood == staging[1].seq = rxSeqNum

\* "Bad checksum", "Bad sequence number"
Reject ==
    /\ ReadAll
    /\ ~(ChecksumGood /\ SeqGood)
    /\ Again
    /\ UNCHANGED mqVars

\* Mutant: the next sequence number is not counted up.
AcceptKeepsSeq ==
    /\ ReadAll
    /\ ChecksumGood /\ SeqGood
    /\ msgqRxMarkConsumed(nElements)
    /\ underway' = Tail(underway)
    /\ Return
    /\ UNCHANGED <<rxSeqNum, sendVars>>

Accept ==
    /\ ReadAll
    /\ ChecksumGood /\ SeqGood
    /\ rxSeqNum' = (rxSeqNum + 1) % SEQ_MOD
    /\ msgqRxMarkConsumed(nElements)
    /\ underway' = Tail(underway)
    /\ Return
    /\ UNCHANGED sendVars

-----------------------------------------------------------------------------
Link == GspMsgQueueInit \/ GspStatusQueueInit \/ ReceiverLinks

SendStep == CopyElement \/ WaitForSpace \/ SendTimesOut \/ Submit

ReceiveStep ==
    \/ ReadElement \/ LookForMore \/ NothingToDo \/ ReadIncomplete
    \/ LengthWrong \/ Reject \/ Accept

GspNext ==
    \/ Link
    \/ \E k \in 1..MAX_ELEMENTS : SendCommand(k)
    \/ SendStep
    \/ \E st \in stores : Land(st)
    \/ ReceiveStatus
    \/ ReceiveStep

GspSpec == GspInit /\ [][GspNext]_gspVars

\* Stores reach memory, the sender's loops go on, and the receiver is called
\* again and again, by the interrupt's bottom half or by the wait for an answer.
GspFairness ==
    /\ WF_gspVars(Link)
    /\ WF_gspVars(SendStep)
    /\ WF_gspVars(\E st \in stores : Land(st))
    /\ WF_gspVars(ReceiveStatus)
    /\ WF_gspVars(ReceiveStep)

GspLiveSpec == GspSpec /\ GspFairness

-----------------------------------------------------------------------------
(* Properties *)

\* The record that GspMsgQueueReceiveStatus accepts is the oldest one that was
\* sent and not received, whole, even if stores become visible late.
NextRecordOnly ==
    ReadAll /\ ChecksumGood /\ SeqGood => underway # <<>> /\ staging = Head(underway)

Expected == underway # <<>> /\ Head(underway)[1].seq = rxSeqNum

\* With the fence, the two functions use the ring as msgq allows.
RingUsed == [][fenced => [MqNext]_mqVars]_gspVars

\* The record that the receiver expects is received, if it keeps trying.
RecordsArrive ==
    \A s \in 0..(SEQ_MOD - 1) : (Expected /\ rxSeqNum = s) ~> (rxSeqNum # s)
=============================================================================
