----------------------------- MODULE UvmProofs -----------------------------
(***************************************************************************)
(* Proofs about two small components of UVM.                               *)
(*                                                                         *)
(* TrackingSemaphore, for every width of the payload, every window smaller *)
(* than it and every set of threads.                                       *)
(*                                                                         *)
(* MmGate: the gate on the mm keeps its promise for every number of        *)
(* retainers and of concurrent shutdowns.  The code knows only a count, so *)
(* the invariant ties the count to the set of holders.                     *)
(***************************************************************************)
EXTENDS TrackingSemaphore, MmGate, FiniteSetTheorems, TLAPS

\* The provers' time limit for every step, in seconds
USE SMTT(40)

-----------------------------------------------------------------------------
(* The tracking semaphore *)

\* Euclidean division by the width of the payload
LEMMA DivMod ==
    ASSUME NEW a \in Nat
    PROVE  /\ a % W \in 0 .. (W - 1)
           /\ a \div W \in Nat
           /\ a = W * (a \div W) + (a % W)
BY SemConstants

\* Of the multiples of W only 0 and W lie between -W and 2W
LEMMA TwoTurns ==
    ASSUME NEW k \in Int, NEW x \in Int, x = W * k
    PROVE  /\ x < 2 * W => k <= 1
           /\ x > -W => k >= 0
BY SemConstants, SMTT(30)

\* Widening the low part of a value that is less than one turn ahead of the old
\* one gives that value back: the arithmetic of update_completed_value_locked.
LEMMA WidenExact ==
    ASSUME NEW old \in Nat, NEW d \in Nat, old <= d, d - old < W
    PROVE  widen(old, d % W) = d
<1> DEFINE qo == old \div W
           ro == old % W
           qd == d \div W
           rd == d % W
<1>1. ro \in 0 .. (W - 1) /\ qo \in Nat /\ old = W * qo + ro
  BY DivMod
<1>2. rd \in 0 .. (W - 1) /\ qd \in Nat /\ d = W * qd + rd
  BY DivMod
<1>3. W * (qd - qo) = (d - old) + ro - rd
  BY <1>1, <1>2, SemConstants
<1>4. qd - qo \in {0, 1}
  <2> HIDE DEF qo, ro, qd, rd
  <2> DEFINE x == W * (qd - qo)
  <2>1. x \in Int /\ x > -W /\ x < 2 * W
    BY <1>1, <1>2, <1>3, SemConstants
  <2>2. qd - qo \in Int
    BY <1>1, <1>2
  <2>3. qd - qo <= 1 /\ qd - qo >= 0
    <3> HIDE DEF x
    <3>1. x = W * (qd - qo)
      BY DEF x
    <3> QED BY <2>1, <2>2, <3>1, TwoTurns
  <2> QED BY <2>2, <2>3
<1>5. CASE qd - qo = 0
  <2>1. d - rd = old - ro
    <3> HIDE DEF qo, ro, qd, rd
    <3>1. qd = qo
      BY <1>1, <1>2, <1>5
    <3> QED BY <1>1, <1>2, <3>1, SemConstants
  <2>2. ~(rd < ro)
    BY <2>1, <1>1, <1>2
  <2> QED BY <2>1, <2>2, <1>1, <1>2, SemConstants DEF widen
<1>6. CASE qd - qo = 1
  <2>1. d - rd = old - ro + W
    BY <1>1, <1>2, <1>3, <1>6, SemConstants
  <2>2. rd < ro
    BY <2>1, <1>1, <1>2, SemConstants
  <2> QED BY <2>1, <2>2, <1>1, <1>2, SemConstants DEF widen
<1> QED BY <1>4, <1>5, <1>6

-----------------------------------------------------------------------------
\* The counters are in order, at most a window apart.
Ordered ==
    /\ completed_value <= gpu_done
    /\ gpu_done <= queued_value
    /\ queued_value - completed_value <= Window

\* A thread inside the critical section holds the lock, works on the current
\* completed_value, and has read the payload of some release since.
Locked ==
    \A t \in Threads : pc[t] = "locked" =>
        /\ lock = t
        /\ old_value[t] = completed_value
        /\ \E d \in completed_value .. gpu_done : new_sem_value[t] = d % W

SemInv == /\ SemTypeOK
          /\ payload = gpu_done % W
          /\ Ordered
          /\ Locked
          /\ NeverEarly

\* What a thread inside the critical section is about to store.
LEMMA StoredValue ==
    ASSUME SemInv, NEW t \in Threads, pc[t] = "locked"
    PROVE  /\ widen(old_value[t], new_sem_value[t]) \in completed_value .. gpu_done
           /\ lock = t
<1>1. PICK d \in completed_value .. gpu_done : new_sem_value[t] = d % W
  BY DEF SemInv, Locked
<1>2. d \in Nat /\ completed_value \in Nat /\ completed_value <= d /\ d - completed_value < W
  BY SemConstants DEF SemInv, SemTypeOK, Ordered
<1>3. widen(completed_value, d % W) = d
  BY <1>2, WidenExact
<1>4. old_value[t] = completed_value /\ lock = t
  BY DEF SemInv, Locked
<1> QED BY <1>1, <1>3, <1>4

LEMMA InitSemInv == SemInit => SemInv
<1> SUFFICES ASSUME SemInit PROVE SemInv
  OBVIOUS
<1>1. 0 % W = 0
  BY SemConstants
<1> QED BY <1>1, SemConstants DEF SemInit, SemInv, SemTypeOK, Ordered, Locked, NeverEarly

\* Steps of the GPU and of threads outside the critical section keep Locked.
LEMMA KeepLocked ==
    ASSUME SemInv, UNCHANGED <<completed_value, lock, old_value, new_sem_value>>,
           gpu_done' \in Nat, gpu_done <= gpu_done',
           \A u \in Threads : pc'[u] = "locked" => pc[u] = "locked"
    PROVE  Locked'
<1> SUFFICES ASSUME NEW u \in Threads, pc'[u] = "locked"
             PROVE  /\ lock' = u
                    /\ old_value'[u] = completed_value'
                    /\ \E d \in completed_value' .. gpu_done' : new_sem_value'[u] = d % W
  BY DEF Locked
<1>1. PICK d \in completed_value .. gpu_done : new_sem_value[u] = d % W
  BY DEF SemInv, Locked
<1>2. d \in completed_value' .. gpu_done'
  BY DEF SemInv, SemTypeOK
<1> QED BY <1>1, <1>2 DEF SemInv, Locked

LEMMA NextSemInv == SemInv /\ [SemNext]_semVars => SemInv'
<1> SUFFICES ASSUME SemInv, [SemNext]_semVars PROVE SemInv'
  OBVIOUS
<1> USE SemConstants
<1>1. CASE QueueValue
  BY <1>1 DEF QueueValue, SemInv, SemTypeOK, Ordered, Locked, NeverEarly
<1>2. CASE GpuRelease
  <2>1. gpu_done' \in Nat /\ payload' = gpu_done' % W
    BY <1>2 DEF GpuRelease, SemInv, SemTypeOK
  <2>2. payload' \in 0 .. (W - 1)
    BY <2>1, DivMod, ZenonT(60)
  <2>3. Locked'
    BY <1>2, KeepLocked DEF GpuRelease, SemInv, SemTypeOK
  <2> QED BY <1>2, <2>1, <2>2, <2>3 DEF GpuRelease, SemInv, SemTypeOK, Ordered, NeverEarly
<1>3. ASSUME NEW t \in Threads, CallUpdate(t) PROVE SemInv'
  <2>1. SemTypeOK'
    BY <1>3 DEF CallUpdate, SemInv, SemTypeOK
  <2>2. Locked'
    <3>1. \A u \in Threads : pc'[u] = "locked" => pc[u] = "locked"
      BY <1>3 DEF CallUpdate, SemInv, SemTypeOK
    <3> QED BY <1>3, <3>1, KeepLocked DEF CallUpdate, SemInv, SemTypeOK
  <2>3. NeverEarly'
    BY <1>3 DEF CallUpdate, SemInv, SemTypeOK, Ordered, NeverEarly
  <2> QED BY <1>3, <2>1, <2>2, <2>3 DEF CallUpdate, SemInv, Ordered
<1>4. ASSUME NEW t \in Threads, NEW v \in 1..queued_value, CallWait(t, v) PROVE SemInv'
  <2>1. SemTypeOK'
    BY <1>4 DEF CallWait, SemInv, SemTypeOK
  <2>2. Locked'
    <3>1. \A u \in Threads : pc'[u] = "locked" => pc[u] = "locked"
      BY <1>4 DEF CallWait, SemInv, SemTypeOK
    <3> QED BY <1>4, <3>1, KeepLocked DEF CallWait, SemInv, SemTypeOK
  <2>3. NeverEarly'
    BY <1>4 DEF CallWait, SemInv, SemTypeOK, Ordered, NeverEarly
  <2> QED BY <1>4, <2>1, <2>2, <2>3 DEF CallWait, SemInv, Ordered
<1>5. ASSUME NEW t \in Threads, ReadCompleted(t) PROVE SemInv'
  <2>1. SemTypeOK'
    BY <1>5 DEF ReadCompleted, SemInv, SemTypeOK
  <2>2. Locked'
    <3>1. \A u \in Threads : pc'[u] = "locked" => pc[u] = "locked"
      BY <1>5 DEF ReadCompleted, SemInv, SemTypeOK
    <3> QED BY <1>5, <3>1, KeepLocked DEF ReadCompleted, SemInv, SemTypeOK
  <2>3. NeverEarly'
    BY <1>5 DEF ReadCompleted, SemInv, SemTypeOK, Ordered, NeverEarly
  <2> QED BY <1>5, <2>1, <2>2, <2>3 DEF ReadCompleted, SemInv, Ordered
<1>6. ASSUME NEW t \in Threads, ReadPayload(t) PROVE SemInv'
  <2>1. SemTypeOK'
    BY <1>6 DEF ReadPayload, SemInv, SemTypeOK
  <2>2. Locked'
    <3>1. \A u \in Threads : pc'[u] = "locked" => u = t
      BY <1>6 DEF ReadPayload, SemInv, SemTypeOK, Locked
    <3>2. /\ lock' = t
          /\ old_value'[t] = completed_value'
          /\ new_sem_value'[t] = gpu_done' % W
      BY <1>6 DEF ReadPayload, SemInv, SemTypeOK
    <3>3. gpu_done' \in completed_value' .. gpu_done'
      BY <1>6 DEF ReadPayload, SemInv, SemTypeOK, Ordered
    <3> QED BY <3>1, <3>2, <3>3 DEF Locked
  <2> QED BY <1>6, <2>1, <2>2 DEF ReadPayload, SemInv, SemTypeOK, Ordered, NeverEarly
<1>7. ASSUME NEW t \in Threads, SetCompleted(t) PROVE SemInv'
  <2> DEFINE value == widen(old_value[t], new_sem_value[t])
  <2>1. value \in completed_value .. gpu_done /\ lock = t
    BY <1>7, StoredValue DEF SetCompleted
  <2>2. \A u \in Threads : u # t => pc[u] # "locked"
    BY <2>1 DEF SemInv, Locked
  <2>3. completed_value' = value
    BY <1>7 DEF SetCompleted
  <2> HIDE DEF value
  <2>4. SemTypeOK'
    <3>1. completed_value' \in Nat
      BY <2>1, <2>3 DEF SemInv, SemTypeOK
    <3> QED BY <1>7, <3>1 DEF SetCompleted, SemInv, SemTypeOK
  <2>5. Locked'
    <3>1. \A u \in Threads : pc'[u] # "locked"
      BY <1>7, <2>2 DEF SetCompleted, SemInv, SemTypeOK
    <3> QED BY <3>1 DEF Locked
  <2>6. NeverEarly'
    <3>1. CASE value >= want[t]
      <4>1. seen' = [seen EXCEPT ![t] = want[t]] /\ gpu_done' = gpu_done
        BY <1>7, <3>1 DEF SetCompleted, value
      <4>2. want[t] <= gpu_done
        BY <3>1, <2>1 DEF SemInv, SemTypeOK
      <4> QED BY <4>1, <4>2 DEF SemInv, SemTypeOK, NeverEarly
    <3>2. CASE ~(value >= want[t])
      <4>1. seen' = seen /\ gpu_done' = gpu_done
        BY <1>7, <3>2 DEF SetCompleted, value
      <4> QED BY <4>1 DEF SemInv, NeverEarly
    <3> QED BY <3>1, <3>2
  <2>7. Ordered' /\ payload' = gpu_done' % W
    BY <1>7, <2>1, <2>3 DEF SetCompleted, SemInv, SemTypeOK, Ordered
  <2> QED BY <2>4, <2>5, <2>6, <2>7 DEF SemInv
<1>8. CASE UNCHANGED semVars
  BY <1>8 DEF semVars, SemInv, SemTypeOK, Ordered, Locked, NeverEarly
<1> QED BY <1>1, <1>2, <1>3, <1>4, <1>5, <1>6, <1>7, <1>8 DEF SemNext, ThreadStep

\* The inductive invariant
THEOREM SemInvariant == SemSpec => []SemInv
BY InitSemInv, NextSemInv, PTL DEF SemSpec

\* The types of the semaphore's state
THEOREM SemTypeCorrect == SemSpec => []SemTypeOK
<1>1. SemInv => SemTypeOK
  BY DEF SemInv
<1> QED BY <1>1, SemInvariant, PTL

\* No thread is told that a value is complete before the GPU has released it,
\* for every width of the payload larger than the window of pending pushes.
THEOREM SemNeverEarly == SemSpec => []NeverEarly
<1>1. SemInv => NeverEarly
  BY DEF SemInv
<1> QED BY <1>1, SemInvariant, PTL

-----------------------------------------------------------------------------
\* Each step of the semaphore is a step of the counter that does not wrap.
LEMMA StepRefines ==
    SemInv /\ [SemNext]_semVars => [Counter!CounterNext]_(Counter!ctrVars)
<1> SUFFICES ASSUME SemInv, [SemNext]_semVars
             PROVE  [Counter!CounterNext]_(Counter!ctrVars)
  OBVIOUS
<1> USE SemConstants DEF Counter!ctrVars
<1>1. CASE QueueValue
  BY <1>1 DEF QueueValue, Counter!CounterNext, Counter!QueueWork
<1>2. CASE GpuRelease
  BY <1>2 DEF GpuRelease, Counter!CounterNext, Counter!FinishWork
<1>3. ASSUME NEW t \in Threads, SetCompleted(t)
      PROVE  [Counter!CounterNext]_(Counter!ctrVars)
  <2>1. completed_value' \in completed_value .. gpu_done
    BY <1>3, StoredValue DEF SetCompleted
  <2>2. UNCHANGED <<queued_value, gpu_done>>
    BY <1>3 DEF SetCompleted
  <2> QED BY <2>1, <2>2 DEF Counter!CounterNext, Counter!ObserveProgress
<1>4. ASSUME NEW t \in Threads, ReadCompleted(t) \/ ReadPayload(t) \/ CallUpdate(t)
      PROVE  UNCHANGED <<queued_value, gpu_done, completed_value>>
  BY <1>4 DEF ReadCompleted, ReadPayload, CallUpdate
<1>5. ASSUME NEW t \in Threads, NEW v \in 1..queued_value, CallWait(t, v)
      PROVE  UNCHANGED <<queued_value, gpu_done, completed_value>>
  BY <1>5 DEF CallWait
<1>6. CASE UNCHANGED semVars
  BY <1>6 DEF semVars
<1> QED BY <1>1, <1>2, <1>3, <1>4, <1>5, <1>6 DEF SemNext, ThreadStep

\* The tracking semaphore, built on a payload that wraps, implements a counter
\* that does not: the 64-bit values never run ahead of the GPU, never go back
\* and never miss a turn.
THEOREM SemRefinesCounter == SemSpec => CounterRefined
<1>1. SemInit => Counter!CounterInit
  BY DEF SemInit, Counter!CounterInit
<1> QED BY <1>1, StepRefines, SemInvariant, PTL DEF SemSpec, CounterRefined, Counter!CounterSpec

-----------------------------------------------------------------------------
(* The gate on the mm *)

(* The retain count is the number of holders, a shutdown that has come as  *)
(* far as to mark the mm finds it dead ever after, and the count stays     *)
(* zero once a shutdown has seen it so.                                    *)
GateInv ==
    /\ alive \in {"yes", "no"}
    /\ shutdown \in [Shutdowns -> {"none", "marked", "returned"}]
    /\ IsFiniteSet(holders)
    /\ retained_count = Cardinality(holders)
    /\ \A s \in Shutdowns : shutdown[s] # "none" => alive = "no"
    /\ \A s \in Shutdowns : shutdown[s] = "returned" => retained_count = 0

(* The states in which the gate starts satisfy the invariant.              *)
LEMMA GateInitial == GateInit => GateInv
  BY FS_EmptySet DEF GateInit, GateInv

(* Retaining is refused once the mm is dead, and adds one holder.          *)
LEMMA RetainKeeps == ASSUME GateInv, NEW t \in Retainers, Retain(t) PROVE GateInv'
<1>1. IsFiniteSet(holders') /\ Cardinality(holders') = Cardinality(holders) + 1
  BY FS_AddElement DEF GateInv, Retain
<1>2. \A s \in Shutdowns : shutdown[s] = "none"
  BY DEF GateInv, Retain
<1> QED  BY <1>1, <1>2 DEF GateInv, Retain

(* A release takes one holder away, so the count cannot be zero before it. *)
LEMMA ReleaseKeeps == ASSUME GateInv, NEW t \in Retainers, Release(t) PROVE GateInv'
<1>1. IsFiniteSet(holders') /\ Cardinality(holders') = Cardinality(holders) - 1
  BY FS_RemoveElement DEF GateInv, Release
<1>2. retained_count # 0
  BY FS_EmptySet DEF GateInv, Release
<1> QED  BY <1>1, <1>2 DEF GateInv, Release

(* A shutdown marks the mm dead, or returns when the count is zero.        *)
LEMMA ShutdownKeeps ==
    ASSUME GateInv, NEW s \in Shutdowns, MarkDead(s) \/ Return(s) PROVE GateInv'
<1>1. CASE MarkDead(s)  BY <1>1 DEF GateInv, MarkDead
<1>2. CASE Return(s)    BY <1>2, ZenonT(60) DEF GateInv, Return
<1> QED  BY <1>1, <1>2

(* The gate's invariant holds in every state.                              *)
THEOREM GateCorrect == GateSpec => []GateInv
<1>1. GateInv /\ [GateNext]_gateVars => GateInv'
  <2> SUFFICES ASSUME GateInv, [GateNext]_gateVars PROVE GateInv'
    OBVIOUS
  <2>1. CASE \E t \in Retainers : Retain(t) \/ Release(t)
    BY <2>1, RetainKeeps, ReleaseKeeps
  <2>2. CASE \E s \in Shutdowns : MarkDead(s) \/ Return(s)
    BY <2>2, ShutdownKeeps
  <2>3. CASE UNCHANGED gateVars
    BY <2>3 DEF gateVars, GateInv
  <2> QED  BY <2>1, <2>2, <2>3 DEF GateNext
<1> QED  BY GateInitial, <1>1, PTL DEF GateSpec

(* No shutdown returns while a thread still holds the mm, and none gets    *)
(* hold of it afterwards, whatever the threads and the shutdowns.          *)
THEOREM GateNobodyAfterReturn == GateSpec => []NobodyAfterReturn
<1>1. GateInv => NobodyAfterReturn
  <2> SUFFICES ASSUME GateInv, NEW s \in Shutdowns, shutdown[s] = "returned"
               PROVE  holders = {}
    BY DEF NobodyAfterReturn
  <2> QED  BY FS_EmptySet DEF GateInv
<1> QED  BY <1>1, GateCorrect, PTL
=============================================================================
