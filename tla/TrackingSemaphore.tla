------------------------- MODULE TrackingSemaphore -------------------------
(***************************************************************************)
(* The GPU tracking semaphore                                              *)
(* (kernel-open/nvidia-uvm/uvm_gpu_semaphore.c): a 64-bit counter kept on  *)
(* top of a 32-bit word in memory that the GPU writes at the end of each   *)
(* push.  CPU threads widen the word under a spinlock and compare the      *)
(* 64-bit value without it.                                                *)
(*                                                                         *)
(* One step is the lock-free read of completed_value, the read of the      *)
(* payload by the thread that has just taken the lock, or the update of    *)
(* completed_value up to the unlock.                                       *)
(***************************************************************************)
EXTENDS Integers

CONSTANTS W,          \* 2^32, the number of values of the payload
          Window,     \* pushes a channel may have pending: its entries - 1
          Threads,
          NOBODY,     \* the lock is free
          MAX_VALUE   \* bound on queued_value

\* The comment of update_completed_value_locked: "there could be at most as
\* many pending pushes as GPFIFO entries", which are far fewer than 2^32.
ASSUME SemConstants == /\ W \in Nat \ {0}
                       /\ Window \in Nat
                       /\ Window < W
                       /\ MAX_VALUE \in Nat
                       /\ NOBODY \notin Threads

VARIABLES
    payload,          \* *semaphore.payload
    completed_value,
    queued_value,
    gpu_done,         \* number of releases the GPU has executed
    lock,             \* the holder of tracking_sem->lock, or NOBODY
    pc,               \* pc[t]: where thread t is
    want,             \* want[t]: the value t waits for, 0 for a mere update
    old_value,        \* locals of update_completed_value_locked
    new_sem_value,
    seen              \* seen[t]: the last value t was told is complete

semVars == <<payload, completed_value, queued_value, gpu_done, lock, pc, want,
             old_value, new_sem_value, seen>>

\* uvm_gpu_tracking_semaphore_alloc
SemInit ==
    /\ payload = 0
    /\ completed_value = 0
    /\ queued_value = 0
    /\ gpu_done = 0
    /\ lock = NOBODY
    /\ pc = [t \in Threads |-> "idle"]
    /\ want = [t \in Threads |-> 0]
    /\ old_value = [t \in Threads |-> 0]
    /\ new_sem_value = [t \in Threads |-> 0]
    /\ seen = [t \in Threads |-> 0]

\* Mutant: an unchanged payload is taken for a full turn.
WidenEqualWraps(old, new) ==
    (old - (old % W)) + new + (IF new <= old % W THEN W ELSE 0)

\* The bottom 32 bits are replaced by the payload, one turn later if that is
\* lower than they were.
widen(old, new) ==
    IF old % W = new THEN old
    ELSE (old - (old % W)) + new + (IF new < old % W THEN W ELSE 0)

-----------------------------------------------------------------------------
(* The user of the semaphore and the GPU *)

\* Mutant: work is queued although the window is full.
QueueAnyway ==
    /\ queued_value < MAX_VALUE
    /\ queued_value' = queued_value + 1
    /\ UNCHANGED <<payload, completed_value, gpu_done, lock, pc, want,
                   old_value, new_sem_value, seen>>

\* uvm_channel_end_push, on a channel that has a free GPFIFO entry
QueueValue ==
    /\ queued_value < MAX_VALUE
    /\ queued_value - completed_value < Window
    /\ queued_value' = queued_value + 1
    /\ UNCHANGED <<payload, completed_value, gpu_done, lock, pc, want,
                   old_value, new_sem_value, seen>>

\* The release at the end of a push: the payload is the value cut to 32 bits
GpuRelease ==
    /\ gpu_done < queued_value
    /\ gpu_done' = gpu_done + 1
    /\ payload' = (gpu_done + 1) % W
    /\ UNCHANGED <<completed_value, queued_value, lock, pc, want, old_value,
                   new_sem_value, seen>>

-----------------------------------------------------------------------------
(* CPU threads *)

\* A call of uvm_gpu_tracking_semaphore_update_completed_value
CallUpdate(t) ==
    /\ pc[t] = "idle"
    /\ pc' = [pc EXCEPT ![t] = "locking"]
    /\ want' = [want EXCEPT ![t] = 0]
    /\ UNCHANGED <<payload, completed_value, queued_value, gpu_done, lock,
                   old_value, new_sem_value, seen>>

\* A thread starts to spin on is_value_completed(v), as uvm_push_wait does
CallWait(t, v) ==
    /\ pc[t] = "idle"
    /\ pc' = [pc EXCEPT ![t] = "reading"]
    /\ want' = [want EXCEPT ![t] = v]
    /\ UNCHANGED <<payload, completed_value, queued_value, gpu_done, lock,
                   old_value, new_sem_value, seen>>

\* uvm_gpu_tracking_semaphore_is_value_completed: the read without the lock
ReadCompleted(t) ==
    /\ pc[t] = "reading"
    /\ IF completed_value >= want[t]
       THEN /\ pc' = [pc EXCEPT ![t] = "idle"]
            /\ seen' = [seen EXCEPT ![t] = want[t]]
       ELSE /\ pc' = [pc EXCEPT ![t] = "locking"]
            /\ seen' = seen
    /\ UNCHANGED <<payload, completed_value, queued_value, gpu_done, lock,
                   want, old_value, new_sem_value>>

\* Mutant: the lock is not taken.
ReadPayloadUnlocked(t) ==
    /\ pc[t] = "locking"
    /\ lock' = t
    /\ pc' = [pc EXCEPT ![t] = "locked"]
    /\ old_value' = [old_value EXCEPT ![t] = completed_value]
    /\ new_sem_value' = [new_sem_value EXCEPT ![t] = payload]
    /\ UNCHANGED <<payload, completed_value, queued_value, gpu_done, want, seen>>

\* update_completed_value_locked: both reads
ReadPayload(t) ==
    /\ pc[t] = "locking"
    /\ lock = NOBODY
    /\ lock' = t
    /\ pc' = [pc EXCEPT ![t] = "locked"]
    /\ old_value' = [old_value EXCEPT ![t] = completed_value]
    /\ new_sem_value' = [new_sem_value EXCEPT ![t] = payload]
    /\ UNCHANGED <<payload, completed_value, queued_value, gpu_done, want, seen>>

\* The rest of it, the unlock, and the comparison with the value waited for; a
\* thread that waits and is told no tries again.
SetCompleted(t) ==
    /\ pc[t] = "locked"
    /\ LET value == widen(old_value[t], new_sem_value[t])
       IN  /\ completed_value' = value
           /\ IF value >= want[t]
              THEN /\ pc' = [pc EXCEPT ![t] = "idle"]
                   /\ seen' = [seen EXCEPT ![t] = want[t]]
              ELSE /\ pc' = [pc EXCEPT ![t] = "reading"]
                   /\ seen' = seen
    /\ lock' = NOBODY
    /\ UNCHANGED <<payload, queued_value, gpu_done, want, old_value, new_sem_value>>

-----------------------------------------------------------------------------
ThreadStep(t) == ReadCompleted(t) \/ ReadPayload(t) \/ SetCompleted(t)

SemNext ==
    \/ QueueValue
    \/ GpuRelease
    \/ \E t \in Threads : \/ CallUpdate(t)
                          \/ \E v \in 1..queued_value : CallWait(t, v)
                          \/ ThreadStep(t)

SemSpec == SemInit /\ [][SemNext]_semVars

\* The GPU runs what is queued.  A thread in a call runs on, and the kernel's
\* spinlocks are queued, so a thread that keeps asking for the lock gets it.
SemFairness ==
    /\ WF_semVars(GpuRelease)
    /\ \A t \in Threads : /\ WF_semVars(ReadCompleted(t) \/ SetCompleted(t))
                          /\ SF_semVars(ReadPayload(t))

SemLiveSpec == SemSpec /\ SemFairness

-----------------------------------------------------------------------------
(* Properties *)

SemTypeOK ==
    /\ payload \in 0 .. (W - 1)
    /\ completed_value \in Nat
    /\ queued_value \in Nat
    /\ gpu_done \in Nat
    /\ lock \in Threads \cup {NOBODY}
    /\ pc \in [Threads -> {"idle", "reading", "locking", "locked"}]
    /\ want \in [Threads -> Nat]
    /\ old_value \in [Threads -> Nat]
    /\ new_sem_value \in [Threads -> 0 .. (W - 1)]
    /\ seen \in [Threads -> Nat]

\* No thread is ever told that a value is complete before the GPU has released
\* it, by the lock-free read or by the locked one, across wrap-arounds of the
\* payload and however late a thread stores what it read.
NeverEarly == \A t \in Threads : seen[t] <= gpu_done

\* The 64-bit counters behave like counters that do not wrap: this semaphore
\* implements CompletionCounter.
Counter == INSTANCE CompletionCounter WITH queued <- queued_value,
                                           done <- gpu_done,
                                           completed <- completed_value

CounterRefined == Counter!CounterSpec

\* Every wait for a queued value returns, although the payload the waiting
\* threads read is cut to 32 bits.
WaitReturns == \A t \in Threads : (pc[t] = "reading") ~> (pc[t] = "idle")
=============================================================================
