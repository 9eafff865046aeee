---------------------------- MODULE GpuIsrProofs ----------------------------
(***************************************************************************)
(* That interrupts are off exactly when they have to be, for every number  *)
(* of VA spaces and of partitions.  The code keeps only counts, which      *)
(* threads, bottom halves, suspends and removals raise and lower without   *)
(* a common lock: the invariant says whose every unit of a count is.       *)
(***************************************************************************)
EXTENDS GpuIsr, Integers, FiniteSetTheorems, TLAPS

\* The provers' time limit for every step, in seconds
USE SMTT(40)

AllPcs == {"idle", "down", "unlock", "ignore", "suspend", "flush_q", "flushing",
           "flushed", "asleep", "resume", "unignore", "disable",
           "sync_non_replayable", "free"}

\* threads between the two halves of an isr_lock and their isr_unlock
Waiters(h) == {t \in Threads : lockof[t] = h}

Held(h) == IF service_lock[h] = "bh" THEN 1 ELSE 0

Ignored == IF notifications_ignored_count > 0 THEN 1 ELSE 0

IsrType ==
    /\ service_lock \in [Handlers -> Threads \cup {"bh", NONE}]
    /\ disable_intr_ref_count \in [Counted -> Nat]
    /\ handling_ref_count \in Int
    /\ notifications_ignored_count \in Int
    /\ lockof \in [Threads -> Handlers \cup {NONE}]
    /\ pc \in [Threads -> AllPcs]
    /\ DOMAIN op = Threads
    /\ queue \in Seq(Handlers \cup {"pm", "rem"})

\* A thread is in a call exactly while it has a lock in mind, and has the lock
\* when it is about to unlock.
CallInv ==
    /\ \A t \in Threads : pc[t] \in {"down", "unlock"} <=> lockof[t] # NONE
    /\ \A t \in Threads : pc[t] = "unlock" => service_lock[lockof[t]] = t
    /\ \A t \in Threads : pc[t] = "down" /\ op[t] \in {"enable", "disable"} =>
           lockof[t] = "access_counters"
    /\ \A h \in Handlers : service_lock[h] \in Threads =>
           pc[service_lock[h]] = "unlock" /\ lockof[service_lock[h]] = h

\* A bottom half that is queued or runs has its lock, and there is only one.
BhInv ==
    /\ \A i \in 1..Len(queue) : queue[i] \in Counted =>
           /\ service_lock[queue[i]] = "bh"
           /\ ~(running = queue[i] /\ bpc \in {"find", "service", "unlock"})
    /\ running \in Counted /\ bpc \in {"find", "service", "unlock"} =>
           service_lock[running] = "bh"
    /\ bpc \in {"service", "unlock"} => service_lock[running] = "bh"
    /\ bpc \in {"find", "service", "unlock"} => running \in Handlers
    /\ bpc = "lock" => running = "non_replayable"

\* The queue holds every item once, and the thread whose item it holds or runs
\* waits in its flush.
FlushInv ==
    /\ \A i, j \in 1..Len(queue) : queue[i] = queue[j] => i = j
    /\ \A i \in 1..Len(queue) : queue[i] \in {"pm", "rem"} =>
           pc[queue[i]] = "flushing" /\ ~(bpc = "flush" /\ running = queue[i])
    /\ bpc = "flush" => running \in {"pm", "rem"} /\ pc[running] = "flushing"

\* A removal stops the counting for replayable faults, and leaves the
\* interrupts off.
CountInv ==
    /\ disable_intr_ref_count["access_counters"] =
           Cardinality(Waiters("access_counters")) + Held("access_counters") + Ignored
    /\ IF "replayable" \in handling
       THEN disable_intr_ref_count["replayable"] =
                Cardinality(Waiters("replayable")) + Held("replayable")
       ELSE disable_intr_ref_count["replayable"] > 0

IsrInv == IsrType /\ CallInv /\ BhInv /\ FlushInv /\ CountInv /\ IntrExact

\* all that the invariant is about
invVars == <<service_lock, disable_intr_ref_count, intr, handling, handling_ref_count,
             notifications_ignored_count, lockof, pc, op, queue, running, bpc>>

-----------------------------------------------------------------------------
(* Facts about the counts *)

(***************************************************************************)
(* tlapm infers types for its SMT encoding, at a cost that grows with the  *)
(* obligations already treated.  A hypothesis with a CASE has no type, and *)
(* this one makes it encode the leaves that use it without types.          *)
(***************************************************************************)
LEMMA Untyped == \A x : (CASE x = 0 -> 1 [] OTHER -> 2) \in {1, 2}
  OBVIOUS

(* There are finitely many threads, and none of them is the bottom half.   *)
LEMMA ThreadsFinite == IsFiniteSet(Threads) /\ "bh" \notin Threads /\ NONE \notin Threads
<1>1. IsFiniteSet(Users \cup {"pm"})
  BY FS_AddElement, GpuIsrActors
<1>2. IsFiniteSet((Users \cup {"pm"}) \cup {"rem"})
  BY <1>1, FS_AddElement
<1>3. Threads = (Users \cup {"pm"}) \cup {"rem"}
  BY DEF Threads
<1> QED  BY <1>2, <1>3, GpuIsrActors

(* So a handler has finitely many waiters.                                 *)
LEMMA WaitersFinite ==
    \A h : IsFiniteSet(Waiters(h)) /\ Cardinality(Waiters(h)) \in Nat
  BY ThreadsFinite, FS_Subset, FS_CardinalityType DEF Waiters

(* A thread that calls isr_lock is one waiter more.                        *)
LEMMA WaitersGrow ==
    ASSUME IsrType, NEW t \in Threads, NEW h \in Handlers, lockof[t] = NONE,
           lockof' = [lockof EXCEPT ![t] = h]
    PROVE  /\ Cardinality(Waiters(h)') = Cardinality(Waiters(h)) + 1
           /\ \A g \in Handlers \ {h} : Waiters(g)' = Waiters(g)
<1>1. h # NONE /\ NONE \notin Handlers
  BY GpuIsrActors DEF Handlers, Faults
<1>2. Waiters(h)' = Waiters(h) \cup {t} /\ t \notin Waiters(h)
  BY <1>1 DEF IsrType, Waiters
<1>3. \A g \in Handlers \ {h} : Waiters(g)' = Waiters(g)
  BY <1>1 DEF IsrType, Waiters
<1>4. IsFiniteSet(Waiters(h))
  BY WaitersFinite
<1> QED  BY <1>2, <1>3, <1>4, FS_AddElement, ZenonT(60)

(* A thread that unlocks is one waiter less.                               *)
LEMMA WaitersShrink ==
    ASSUME IsrType, NEW t \in Threads, NEW h \in Handlers, lockof[t] = h,
           lockof' = [lockof EXCEPT ![t] = NONE]
    PROVE  /\ Cardinality(Waiters(h)') = Cardinality(Waiters(h)) - 1
           /\ Cardinality(Waiters(h)) > 0
           /\ \A g \in Handlers \ {h} : Waiters(g)' = Waiters(g)
<1>1. NONE \notin Handlers
  BY GpuIsrActors DEF Handlers, Faults
<1>2. Waiters(h)' = Waiters(h) \ {t} /\ t \in Waiters(h)
  BY <1>1 DEF IsrType, Waiters
<1>3. \A g \in Handlers \ {h} : Waiters(g)' = Waiters(g)
  BY <1>1 DEF IsrType, Waiters
<1>4. IsFiniteSet(Waiters(h)) /\ Cardinality(Waiters(h)) \in Nat
  BY WaitersFinite
<1>5. Cardinality(Waiters(h)) # 0
  BY <1>2, <1>4, FS_EmptySet
<1> QED  BY <1>2, <1>3, <1>4, <1>5, FS_RemoveElement

(* Disabling leaves the interrupts off, whatever the count was.            *)
LEMMA DisableExact ==
    ASSUME IsrType, IntrExact, NEW h \in Counted, uvm_gpu_intr_disable(h)
    PROVE  /\ disable_intr_ref_count' \in [Counted -> Nat]
           /\ disable_intr_ref_count'[h] = disable_intr_ref_count[h] + 1
           /\ h \notin intr'
           /\ \A g \in Counted \ {h} :
                 /\ disable_intr_ref_count'[g] = disable_intr_ref_count[g]
                 /\ g \in intr' <=> g \in intr
  BY DEF IsrType, IntrExact, uvm_gpu_intr_disable

(* Enabling takes back one disable, and the last one turns them on.        *)
LEMMA EnableExact ==
    ASSUME IsrType, IntrExact, NEW h \in Counted, uvm_gpu_intr_enable(h),
           disable_intr_ref_count[h] > 0
    PROVE  /\ disable_intr_ref_count' \in [Counted -> Nat]
           /\ disable_intr_ref_count'[h] = disable_intr_ref_count[h] - 1
           /\ h \in intr' <=> Handles(h) /\ disable_intr_ref_count'[h] = 0
           /\ \A g \in Counted \ {h} :
                 /\ disable_intr_ref_count'[g] = disable_intr_ref_count[g]
                 /\ g \in intr' <=> g \in intr
  BY DEF IsrType, IntrExact, uvm_gpu_intr_enable

(* The types of what accounts for a count.                                 *)
LEMMA HolderTypes ==
    \A g \in Counted : Cardinality(Waiters(g)) \in Nat /\ Held(g) \in {0, 1}
  BY WaitersFinite DEF Held

(* If a count changes as the number of those who account for it does, it   *)
(* is still accounted for.                                                 *)
LEMMA CountsFollow ==
    ASSUME CountInv, IsrType, disable_intr_ref_count' \in [Counted -> Nat],
           handling' = handling,
           disable_intr_ref_count'["access_counters"] - disable_intr_ref_count["access_counters"]
             = (Cardinality(Waiters("access_counters")') - Cardinality(Waiters("access_counters")))
               + (Held("access_counters")' - Held("access_counters"))
               + (Ignored' - Ignored),
           "replayable" \in handling =>
             disable_intr_ref_count'["replayable"] - disable_intr_ref_count["replayable"]
               = (Cardinality(Waiters("replayable")') - Cardinality(Waiters("replayable")))
                 + (Held("replayable")' - Held("replayable")),
           "replayable" \notin handling =>
             disable_intr_ref_count'["replayable"] >= disable_intr_ref_count["replayable"]
    PROVE  CountInv'
<1>1. \A g \in Counted : Cardinality(Waiters(g)) \in Nat /\ Held(g) \in {0, 1}
  BY HolderTypes
<1>2. (\A g \in Counted : Cardinality(Waiters(g)) \in Nat /\ Held(g) \in {0, 1})'
  BY HolderTypes, PTL
<1>3. Ignored \in {0, 1} /\ Ignored' \in {0, 1}
  BY DEF Ignored
<1>4. "replayable" \in Counted /\ "access_counters" \in Counted
  BY DEF Counted
<1>5. \A g \in Counted : disable_intr_ref_count[g] \in Nat /\ disable_intr_ref_count'[g] \in Nat
  BY DEF IsrType
<1>6. disable_intr_ref_count'["access_counters"] =
        Cardinality(Waiters("access_counters")') + Held("access_counters")' + Ignored'
  BY <1>1, <1>2, <1>3, <1>4, <1>5 DEF CountInv
<1>7. CASE "replayable" \in handling
  <2>1. disable_intr_ref_count'["replayable"] =
          Cardinality(Waiters("replayable")') + Held("replayable")'
    BY <1>1, <1>2, <1>4, <1>5, <1>7 DEF CountInv
  <2> QED  BY <1>6, <1>7, <2>1 DEF CountInv
<1>8. CASE "replayable" \notin handling
  <2>1. disable_intr_ref_count'["replayable"] > 0
    BY <1>4, <1>5, <1>8 DEF CountInv
  <2> QED  BY <1>6, <1>8, <2>1 DEF CountInv
<1> QED  BY <1>7, <1>8

USE Untyped

-----------------------------------------------------------------------------
(* The initial state, and steps that concern few of the variables *)

(* Nobody has disabled anything when the GPU has just been added.          *)
LEMMA IsrInitial == IsrInit => IsrInv
<1> SUFFICES ASSUME IsrInit PROVE IsrInv
  OBVIOUS
<1>1. \A h \in Handlers : Waiters(h) = {}
  BY GpuIsrActors DEF IsrInit, Waiters, Handlers, Faults
<1>2. IsrType
  BY DEF IsrInit, IsrType, AllPcs
<1>3. CallInv /\ BhInv /\ FlushInv
  BY ThreadsFinite, GpuIsrActors DEF IsrInit, CallInv, BhInv, FlushInv, Counted, Handlers, Faults
<1>4. CountInv
  <2>1. \A h \in Counted : Cardinality(Waiters(h)) = 0
    BY <1>1, FS_EmptySet DEF Counted, Handlers, Faults
  <2>2. \A h \in Counted : Held(h) = 0
    BY GpuIsrActors DEF IsrInit, Held, Counted, Handlers, Faults
  <2>3. Ignored = 0
    BY DEF IsrInit, Ignored
  <2>4. \A h \in Counted : disable_intr_ref_count[h] = 0
    BY DEF IsrInit
  <2>5. "replayable" \in handling
    BY DEF IsrInit, Faults
  <2>6. "replayable" \in Counted /\ "access_counters" \in Counted
    BY DEF Counted
  <2> QED  BY <2>1, <2>2, <2>3, <2>4, <2>5, <2>6 DEF CountInv
<1>5. IntrExact
  BY DEF IsrInit, IntrExact, Handles, Counted, Faults
<1> QED  BY <1>2, <1>3, <1>4, <1>5 DEF IsrInv

(* Steps that leave all of this alone.                                     *)
LEMMA FrameKeeps == ASSUME IsrInv, UNCHANGED invVars PROVE IsrInv'
<1>1. IsrType' /\ CallInv' /\ BhInv' /\ FlushInv'
  BY DEF IsrInv, invVars, IsrType, CallInv, BhInv, FlushInv
<1>2. CountInv' /\ IntrExact'
  BY DEF IsrInv, invVars, CountInv, Waiters, Held, Ignored, IntrExact, Handles
<1> QED  BY <1>1, <1>2 DEF IsrInv

(* Steps of a thread outside of calls.                                     *)
LEMMA MoveKeeps ==
    ASSUME IsrInv, NEW t \in Threads, pc[t] \notin {"down", "unlock", "flushing"},
           NEW l \in AllPcs \ {"down", "unlock"}, At(t, l),
           UNCHANGED <<service_lock, disable_intr_ref_count, intr, handling,
                       handling_ref_count, notifications_ignored_count, lockof, op,
                       queue, running, bpc>>
    PROVE  IsrInv'
<1>1. IsrType'
  BY DEF IsrInv, IsrType, At
<1>2. CallInv'
  BY DEF IsrInv, IsrType, CallInv, At
<1>3. BhInv' /\ FlushInv'
  BY DEF IsrInv, IsrType, BhInv, FlushInv, At
<1>4. CountInv' /\ IntrExact'
  BY DEF IsrInv, CountInv, Waiters, Held, Ignored, IntrExact, Handles
<1> QED  BY <1>1, <1>2, <1>3, <1>4 DEF IsrInv

(* The start of a call: the thread becomes a waiter and the count follows. *)
LEMMA CallKeeps ==
    ASSUME IsrInv, NEW t \in Threads, pc[t] \notin {"down", "unlock", "flushing"},
           NEW h \in Handlers, NEW o, o \in {"enable", "disable"} => h = "access_counters",
           Call(t, o, h),
           UNCHANGED <<handling, handling_ref_count, notifications_ignored_count, queue,
                       running, bpc>>
    PROVE  IsrInv'
<1>1. lockof[t] = NONE /\ NONE \notin Handlers
  BY GpuIsrActors DEF IsrInv, CallInv, Handlers, Faults
<1>2. lockof' = [lockof EXCEPT ![t] = h] /\ service_lock' = service_lock
  BY DEF Call, isr_lock
<1>3. Cardinality(Waiters(h)') = Cardinality(Waiters(h)) + 1
      /\ \A g \in Handlers \ {h} : Waiters(g)' = Waiters(g)
  BY <1>1, <1>2, WaitersGrow, ZenonT(60) DEF IsrInv
<1>4. /\ disable_intr_ref_count' \in [Counted -> Nat]
      /\ \A g \in Counted \ {h} :
            /\ disable_intr_ref_count'[g] = disable_intr_ref_count[g]
            /\ g \in intr' <=> g \in intr
      /\ h \in Counted => /\ disable_intr_ref_count'[h] = disable_intr_ref_count[h] + 1
                          /\ h \notin intr'
  <2>1. CASE h = "non_replayable"
    BY <2>1 DEF Call, isr_lock, IsrInv, IsrType, Counted
  <2>2. CASE h # "non_replayable"
    <3>1. uvm_gpu_intr_disable(h) /\ h \in Counted
      BY <2>2 DEF Call, isr_lock, Counted, Handlers, Faults
    <3> QED  BY <3>1, DisableExact DEF IsrInv
  <2> QED  BY <2>1, <2>2
<1>5. IsrType'
  BY <1>2, <1>4 DEF IsrInv, IsrType, Call, AllPcs
<1>6. CallInv'
  BY <1>1, <1>2 DEF IsrInv, IsrType, CallInv, Call
<1>7. BhInv' /\ FlushInv'
  BY <1>2 DEF IsrInv, IsrType, BhInv, FlushInv, Call
<1>8. CountInv'
  <2>1. Ignored' = Ignored /\ \A g \in Counted : Held(g)' = Held(g)
    BY <1>2 DEF Ignored, Held
  <2>2. \A g \in Counted : Cardinality(Waiters(g)) \in Nat /\ Held(g) \in {0, 1}
    BY WaitersFinite DEF Held
  <2>3. \A g \in Counted : g \in Handlers
    BY DEF Counted, Handlers, Faults
  <2>4. "replayable" \in Counted /\ "access_counters" \in Counted
    BY DEF Counted
  <2>5. Ignored \in {0, 1}
    BY DEF Ignored
  <2>6. disable_intr_ref_count \in [Counted -> Nat]
    BY DEF IsrInv, IsrType
  <2>7. \A g \in Counted : Cardinality(Waiters(g)') - Cardinality(Waiters(g))
                           = disable_intr_ref_count'[g] - disable_intr_ref_count[g]
    BY <1>3, <1>4, <2>2, <2>3, <2>6
  <2>8. \A g \in Counted : Cardinality(Waiters(g)') \in Nat
    BY <1>3, <2>2, <2>3
  <2>9. \A g \in Counted :
           disable_intr_ref_count'[g] - disable_intr_ref_count[g]
             = (Cardinality(Waiters(g)') - Cardinality(Waiters(g))) + (Held(g)' - Held(g))
    <3> TAKE g \in Counted
    <3>1. disable_intr_ref_count'[g] - disable_intr_ref_count[g]
            = Cardinality(Waiters(g)') - Cardinality(Waiters(g))
      BY <2>7
    <3>2. Held(g)' = Held(g) /\ Held(g) \in {0, 1} /\ Cardinality(Waiters(g)) \in Nat
          /\ Cardinality(Waiters(g)') \in Nat
      BY <2>1, <2>2, <2>8
    <3> QED
      BY <3>1, <3>2
  <2>10. disable_intr_ref_count'["access_counters"] - disable_intr_ref_count["access_counters"]
           = (Cardinality(Waiters("access_counters")') - Cardinality(Waiters("access_counters")))
             + (Held("access_counters")' - Held("access_counters"))
             + (Ignored' - Ignored)
    <3> DEFINE c == "access_counters"
    <3>1. disable_intr_ref_count'[c] - disable_intr_ref_count[c]
            = (Cardinality(Waiters(c)') - Cardinality(Waiters(c))) + (Held(c)' - Held(c))
      BY <2>4, <2>9
    <3>2. /\ Cardinality(Waiters(c)) \in Nat /\ Cardinality(Waiters(c)') \in Nat
          /\ Held(c)' = Held(c) /\ Held(c) \in {0, 1}
      BY <2>1, <2>2, <2>4, <2>8
    <3> QED
      BY <2>1, <2>5, <3>1, <3>2
  <2>11. disable_intr_ref_count'["replayable"] >= disable_intr_ref_count["replayable"]
    BY <1>4, <2>4, <2>6
  <2> QED  BY <1>4, <2>4, <2>9, <2>10, <2>11, CountsFollow DEF IsrInv
<1>9. IntrExact'
  <2>1. \A g \in Counted : Handles(g)' <=> Handles(g)
    BY DEF Handles
  <2>2. disable_intr_ref_count \in [Counted -> Nat]
    BY DEF IsrInv, IsrType
  <2> QED  BY <1>4, <2>1, <2>2 DEF IsrInv, IntrExact
<1> QED  BY <1>5, <1>6, <1>7, <1>8, <1>9 DEF IsrInv

-----------------------------------------------------------------------------
(* The top half *)

(* Scheduling adds an item to those of the queue, unless it is there.      *)
LEMMA ScheduledItems ==
    ASSUME IsrInv, NEW i \in Handlers \cup {"pm", "rem"}, queue' = Q!Scheduled(i)
    PROVE  /\ queue' \in Seq(Handlers \cup {"pm", "rem"})
           /\ \A j, k \in 1..Len(queue') : queue'[j] = queue'[k] => j = k
           /\ \A k \in 1..Len(queue') :
                 queue'[k] = i \/ \E m \in 1..Len(queue) : queue'[k] = queue[m]
<1>1. queue \in Seq(Handlers \cup {"pm", "rem"})
      /\ \A j, k \in 1..Len(queue) : queue[j] = queue[k] => j = k
  BY DEF IsrInv, IsrType, FlushInv
<1>2. CASE \E k \in 1..Len(queue) : queue[k] = i
  BY <1>1, <1>2 DEF Q!Scheduled, Q!Contains
<1>3. CASE \A k \in 1..Len(queue) : queue[k] # i
  <2>1. queue' = Append(queue, i)
    BY <1>3 DEF Q!Scheduled, Q!Contains
  <2>2. /\ Len(queue') = Len(queue) + 1 /\ Len(queue) \in Nat
        /\ queue'[Len(queue) + 1] = i
        /\ \A k \in 1..Len(queue) : queue'[k] = queue[k]
        /\ queue' \in Seq(Handlers \cup {"pm", "rem"})
    BY <1>1, <2>1
  <2>3. \A k \in 1..Len(queue') : k = Len(queue) + 1 \/ k \in 1..Len(queue)
    BY <2>2
  <2> QED  BY <1>1, <1>3, <2>2, <2>3
<1> QED  BY <1>2, <1>3

(* The top half takes a free lock and counts one disable for it.           *)
LEMMA StartKeeps ==
    ASSUME IsrInv, NEW h \in Counted, TryLock(h), Start(h),
           UNCHANGED <<handling, handling_ref_count, notifications_ignored_count, lockof,
                       pc, op, running, bpc>>
    PROVE  IsrInv'
<1>1. h \in Handlers /\ h \notin {"pm", "rem"}
  BY DEF Counted, Handlers, Faults
<1>2. service_lock[h] = NONE /\ service_lock' = [service_lock EXCEPT ![h] = "bh"]
  BY DEF TryLock, Start
<1>3. /\ queue' \in Seq(Handlers \cup {"pm", "rem"})
      /\ \A j, k \in 1..Len(queue') : queue'[j] = queue'[k] => j = k
      /\ \A k \in 1..Len(queue') :
            queue'[k] = h \/ \E m \in 1..Len(queue) : queue'[k] = queue[m]
  BY <1>1, ScheduledItems DEF Start
<1>4. /\ disable_intr_ref_count' \in [Counted -> Nat]
      /\ disable_intr_ref_count'[h] = disable_intr_ref_count[h] + 1
      /\ h \notin intr'
      /\ \A g \in Counted \ {h} :
            /\ disable_intr_ref_count'[g] = disable_intr_ref_count[g]
            /\ g \in intr' <=> g \in intr
  BY DisableExact DEF IsrInv, Start
<1>5. IsrType'
  BY <1>2, <1>3, <1>4, ZenonT(60) DEF IsrInv, IsrType
<1>6. NONE \notin Threads /\ "bh" \notin Threads /\ NONE # "bh"
  BY ThreadsFinite, GpuIsrActors
<1>7. CallInv'
  BY <1>1, <1>2, <1>6 DEF IsrInv, IsrType, CallInv
<1>8. ~(running = h /\ bpc \in {"find", "service", "unlock"})
  BY <1>2, <1>6 DEF IsrInv, BhInv
<1>9. \A g \in Handlers : service_lock[g] = "bh" => service_lock'[g] = "bh"
  BY <1>1, <1>2, <1>6 DEF IsrInv, IsrType
<1>10. BhInv'
  <2>1. \A k \in 1..Len(queue') : queue'[k] \in Counted =>
            /\ service_lock'[queue'[k]] = "bh"
            /\ ~(running = queue'[k] /\ bpc \in {"find", "service", "unlock"})
    <3>1. TAKE k \in 1..Len(queue')
    <3>2. CASE queue'[k] = h
      BY <1>1, <1>2, <1>8, <3>2 DEF IsrInv, IsrType
    <3>3. CASE queue'[k] # h
      BY <1>3, <1>9, <3>3 DEF IsrInv, BhInv, Counted, Handlers, Faults
    <3> QED  BY <3>2, <3>3
  <2>2. bpc \in {"find", "service", "unlock"} => running \in Handlers
    BY DEF IsrInv, BhInv
  <2>3. bpc = "lock" => running = "non_replayable"
    BY DEF IsrInv, BhInv
  <2>4. running \in Counted /\ bpc \in {"find", "service", "unlock"} =>
            service_lock'[running] = "bh"
    BY <1>9, <2>2 DEF IsrInv, BhInv
  <2>5. bpc \in {"service", "unlock"} => service_lock'[running] = "bh"
    BY <1>9, <2>2 DEF IsrInv, BhInv
  <2> QED  BY <2>1, <2>2, <2>3, <2>4, <2>5 DEF BhInv
<1>11. FlushInv'
  BY <1>1, <1>3 DEF IsrInv, FlushInv
<1>12. CountInv'
  <2>1. Ignored' = Ignored /\ \A g \in Counted : Waiters(g)' = Waiters(g)
    BY DEF Ignored, Waiters
  <2>2. Held(h) = 0 /\ Held(h)' = 1 /\ \A g \in Counted \ {h} : Held(g)' = Held(g)
    BY <1>1, <1>2, <1>6 DEF Held, IsrInv, IsrType, Counted, Handlers, Faults
  <2>3. \A g \in Counted : Cardinality(Waiters(g)) \in Nat /\ Held(g) \in {0, 1}
    BY HolderTypes
  <2>4. "replayable" \in Counted /\ "access_counters" \in Counted /\ Ignored \in {0, 1}
    BY DEF Counted, Ignored
  <2>5. disable_intr_ref_count \in [Counted -> Nat]
    BY DEF IsrInv, IsrType
  <2>6. \A g \in Counted :
           disable_intr_ref_count'[g] - disable_intr_ref_count[g] = Held(g)' - Held(g)
    BY <1>4, <2>2, <2>3, <2>5
  <2>7. \A g \in Counted : Held(g)' \in {0, 1}
    BY <2>2, <2>3
  <2>8. \A g \in Counted :
           disable_intr_ref_count'[g] - disable_intr_ref_count[g]
             = (Cardinality(Waiters(g)') - Cardinality(Waiters(g))) + (Held(g)' - Held(g))
    BY <2>1, <2>3, <2>5, <2>6, <2>7, <1>4
  <2>9. disable_intr_ref_count'["access_counters"] - disable_intr_ref_count["access_counters"]
           = (Cardinality(Waiters("access_counters")') - Cardinality(Waiters("access_counters")))
             + (Held("access_counters")' - Held("access_counters"))
             + (Ignored' - Ignored)
    BY <1>4, <2>1, <2>3, <2>4, <2>5, <2>6, <2>7
  <2>10. disable_intr_ref_count'["replayable"] >= disable_intr_ref_count["replayable"]
    BY <1>4, <2>4, <2>5
  <2> QED  BY <1>4, <2>4, <2>8, <2>9, <2>10, CountsFollow DEF IsrInv
<1>13. IntrExact'
  <2>1. \A g \in Counted : Handles(g)' <=> Handles(g)
    BY DEF Handles
  <2>2. disable_intr_ref_count \in [Counted -> Nat]
    BY DEF IsrInv, IsrType
  <2> QED  BY <1>4, <2>1, <2>2 DEF IsrInv, IntrExact
<1> QED  BY <1>5, <1>7, <1>10, <1>11, <1>12, <1>13 DEF IsrInv

(* Scheduling a bottom half without a lock, or the item of a flush.        *)
LEMMA ScheduleKeeps ==
    ASSUME IsrInv, NEW i \in {"non_replayable", "pm", "rem"}, queue' = Q!Scheduled(i),
           i # "non_replayable" => pc[i] = "flush_q" /\ At(i, "flushing"),
           i = "non_replayable" => UNCHANGED pc,
           UNCHANGED <<service_lock, disable_intr_ref_count, intr, handling,
                       handling_ref_count, notifications_ignored_count, lockof, op,
                       running, bpc>>
    PROVE  IsrInv'
<1>1. /\ queue' \in Seq(Handlers \cup {"pm", "rem"})
      /\ \A j, k \in 1..Len(queue') : queue'[j] = queue'[k] => j = k
      /\ \A k \in 1..Len(queue') :
            queue'[k] = i \/ \E m \in 1..Len(queue) : queue'[k] = queue[m]
  BY ScheduledItems DEF Handlers, Faults
<1>2. /\ pc' \in [Threads -> AllPcs]
      /\ \A t \in Threads : pc'[t] \in {"down", "unlock"} => pc'[t] = pc[t]
      /\ \A t \in Threads : pc[t] \in {"down", "unlock", "flushing"} => pc'[t] = pc[t]
      /\ i \in {"pm", "rem"} => pc'[i] = "flushing"
  BY DEF IsrInv, IsrType, At, AllPcs, Threads
<1>3. i \notin Counted /\ "pm" \in Threads /\ "rem" \in Threads
  BY DEF Counted, Threads
<1>4. IsrType'
  BY <1>1, <1>2 DEF IsrInv, IsrType
<1>5. CallInv'
  BY <1>2 DEF IsrInv, CallInv
<1>6. BhInv'
  BY <1>1, <1>3 DEF IsrInv, BhInv
<1>7. FlushInv'
  <2>1. ASSUME NEW k \in 1..Len(queue'), queue'[k] \in {"pm", "rem"}
        PROVE  pc'[queue'[k]] = "flushing" /\ ~(bpc = "flush" /\ running = queue'[k])
    <3>1. CASE queue'[k] = i
      BY <1>2, <2>1, <3>1 DEF IsrInv, FlushInv
    <3>2. CASE queue'[k] # i
      BY <1>1, <1>2, <1>3, <2>1, <3>2 DEF IsrInv, FlushInv
    <3> QED  BY <3>1, <3>2
  <2>2. bpc = "flush" => running \in {"pm", "rem"} /\ pc'[running] = "flushing"
    BY <1>2, <1>3 DEF IsrInv, FlushInv
  <2> QED  BY <1>1, <2>1, <2>2 DEF FlushInv
<1>8. CountInv' /\ IntrExact'
  BY DEF IsrInv, CountInv, Waiters, Held, Ignored, IntrExact, Handles
<1> QED  BY <1>4, <1>5, <1>6, <1>7, <1>8 DEF IsrInv

-----------------------------------------------------------------------------
(* The bottom half *)

(* The bottom half takes an item, whose lock it has from now on.           *)
LEMMA TakeKeeps == ASSUME IsrInv, BhTake PROVE IsrInv'
<1>1. /\ bpc = "take" /\ queue # <<>> /\ running' = Head(queue) /\ queue' = Tail(queue)
      /\ bpc' = IF running' \in Handlers THEN "find" ELSE "flush"
      /\ UNCHANGED <<service_lock, disable_intr_ref_count, intr, handling,
                     handling_ref_count, notifications_ignored_count, lockof, pc, op>>
  BY DEF BhTake, Q!Take, lockVars, handleVars, pmVars, callVars
<1>2. queue \in Seq(Handlers \cup {"pm", "rem"})
  BY DEF IsrInv, IsrType
<1>3. /\ queue' \in Seq(Handlers \cup {"pm", "rem"})
      /\ 1 \in 1..Len(queue) /\ running' = queue[1]
      /\ running' \in Handlers \cup {"pm", "rem"}
      /\ \A k \in 1..Len(queue') : k + 1 \in 1..Len(queue) /\ queue'[k] = queue[k + 1]
  BY <1>1, <1>2
<1>4. \A j, k \in 1..Len(queue) : queue[j] = queue[k] => j = k
  BY DEF IsrInv, FlushInv
<1>5. Len(queue') \in Nat
  BY <1>3
<1>6. \A k \in 1..Len(queue') : queue'[k] # running'
  <2>1. TAKE k \in 1..Len(queue')
  <2>2. k + 1 # 1
    BY <1>5
  <2> QED  BY <1>3, <1>4, <2>2
<1>7. \A j, k \in 1..Len(queue') : queue'[j] = queue'[k] => j = k
  <2>1. TAKE j, k \in 1..Len(queue')
  <2>2. j + 1 = k + 1 => j = k
    BY <1>5
  <2> QED  BY <1>3, <1>4, <2>2
<1>8. IsrType' /\ CallInv'
  BY <1>1, <1>3 DEF IsrInv, IsrType, CallInv
<1>9. BhInv'
  <2>1. running' \in Counted => service_lock[running'] = "bh"
    BY <1>3 DEF IsrInv, BhInv
  <2>2. bpc' \in {"find", "flush"} /\ (bpc' = "find" => running' \in Handlers)
    BY <1>1
  <2>3. ASSUME NEW k \in 1..Len(queue'), queue'[k] \in Counted
        PROVE  service_lock[queue'[k]] = "bh" /\ running' # queue'[k]
    BY <1>3, <1>6, <2>3, ZenonT(60) DEF IsrInv, BhInv
  <2> QED  BY <1>1, <2>1, <2>2, <2>3 DEF BhInv
<1>10. FlushInv'
  <2>1. bpc' = "flush" => running' \in {"pm", "rem"}
    BY <1>1, <1>3
  <2>2. running' \in {"pm", "rem"} => pc[running'] = "flushing"
    BY <1>3 DEF IsrInv, FlushInv
  <2>3. ASSUME NEW k \in 1..Len(queue'), queue'[k] \in {"pm", "rem"}
        PROVE  pc[queue'[k]] = "flushing" /\ running' # queue'[k]
    BY <1>3, <1>6, <2>3 DEF IsrInv, FlushInv
  <2> QED  BY <1>1, <1>7, <2>1, <2>2, <2>3 DEF FlushInv
<1>11. CountInv' /\ IntrExact'
  BY <1>1 DEF IsrInv, CountInv, Waiters, Held, Ignored, IntrExact, Handles
<1> QED  BY <1>8, <1>9, <1>10, <1>11 DEF IsrInv

(* It goes on, or is done, with its lock and its item as they are.         *)
LEMMA ProceedKeeps ==
    ASSUME IsrInv,
           \/ find_first_valid_gpu \/ BhService \/ BhPut
    PROVE  IsrInv'
<1>1. UNCHANGED <<service_lock, disable_intr_ref_count, intr, handling,
                  handling_ref_count, notifications_ignored_count, lockof, pc, op, queue>>
  BY DEF find_first_valid_gpu, BhService, BhPut, Q!Finish, lockVars, handleVars, pmVars,
         callVars, queueVars
<1>2. \/ bpc = "find" /\ running' = running /\ bpc' = "put"
      \/ bpc = "find" /\ running' = running
         /\ bpc' = IF running = "non_replayable" THEN "lock" ELSE "service"
      \/ bpc = "service" /\ running' = running /\ bpc' = "unlock"
      \/ bpc' = "take"
  BY DEF find_first_valid_gpu, BhService, BhPut, queueVars
<1>3. IsrType' /\ CallInv'
  BY <1>1 DEF IsrInv, IsrType, CallInv
<1>4. BhInv'
  BY <1>1, <1>2 DEF IsrInv, BhInv, Handlers, Faults, Counted
<1>5. FlushInv'
  BY <1>1, <1>2 DEF IsrInv, FlushInv
<1>6. CountInv' /\ IntrExact'
  BY <1>1 DEF IsrInv, CountInv, Waiters, Held, Ignored, IntrExact, Handles
<1> QED  BY <1>3, <1>4, <1>5, <1>6 DEF IsrInv

(* The thread of a flush goes on.                                          *)
LEMMA FlushedKeeps == ASSUME IsrInv, BhFlush PROVE IsrInv'
<1>1. /\ bpc = "flush" /\ bpc' = "take"
      /\ pc' = [pc EXCEPT ![running] = "flushed"]
      /\ UNCHANGED <<service_lock, disable_intr_ref_count, intr, handling,
                     handling_ref_count, notifications_ignored_count, lockof, op, queue>>
  BY DEF BhFlush, Q!Finish, lockVars, handleVars, pmVars
<1>2. running \in {"pm", "rem"} /\ pc[running] = "flushing" /\ running \in Threads
  BY <1>1 DEF IsrInv, FlushInv, Threads
<1>3. /\ pc' \in [Threads -> AllPcs] /\ pc'[running] = "flushed"
      /\ \A t \in Threads \ {running} : pc'[t] = pc[t]
  BY <1>1, <1>2 DEF IsrInv, IsrType, AllPcs
<1>4. IsrType'
  BY <1>1, <1>3 DEF IsrInv, IsrType
<1>5. CallInv'
  BY <1>1, <1>2, <1>3 DEF IsrInv, CallInv
<1>6. BhInv'
  BY <1>1 DEF IsrInv, BhInv
<1>7. FlushInv'
  BY <1>1, <1>3 DEF IsrInv, FlushInv, Threads
<1>8. CountInv' /\ IntrExact'
  BY <1>1 DEF IsrInv, CountInv, Waiters, Held, Ignored, IntrExact, Handles
<1> QED  BY <1>4, <1>5, <1>6, <1>7, <1>8 DEF IsrInv

(* The bottom half for non-replayable faults takes its lock itself.        *)
LEMMA BhLockKeeps == ASSUME IsrInv, BhLock PROVE IsrInv'
<1>1. /\ bpc = "lock" /\ bpc' = "service"
      /\ service_lock["non_replayable"] = NONE
      /\ service_lock' = [service_lock EXCEPT !["non_replayable"] = "bh"]
      /\ UNCHANGED <<disable_intr_ref_count, intr, handling, handling_ref_count,
                     notifications_ignored_count, lockof, pc, op, queue, running>>
  BY DEF BhLock, handleVars, pmVars, callVars, queueVars
<1>2. "non_replayable" \in Handlers /\ "non_replayable" \notin Counted
  BY DEF Handlers, Faults, Counted
<1>3. NONE \notin Threads /\ "bh" \notin Threads /\ NONE # "bh"
  BY ThreadsFinite, GpuIsrActors
<1>4. IsrType'
  BY <1>1, <1>2 DEF IsrInv, IsrType
<1>5. CallInv'
  BY <1>1, <1>2, <1>3 DEF IsrInv, IsrType, CallInv
<1>6. /\ running = "non_replayable" /\ service_lock'["non_replayable"] = "bh"
      /\ \A g \in Counted : service_lock'[g] = service_lock[g]
  BY <1>1, <1>2 DEF IsrInv, IsrType, BhInv, Counted, Handlers, Faults
<1>7. BhInv'
  BY <1>1, <1>2, <1>6 DEF IsrInv, BhInv
<1>8. FlushInv'
  BY <1>1 DEF IsrInv, FlushInv
<1>9. CountInv'
  BY <1>1, <1>6 DEF IsrInv, CountInv, Waiters, Held, Ignored, Counted
<1>10. IntrExact'
  BY <1>1 DEF IsrInv, IntrExact, Handles
<1> QED  BY <1>4, <1>5, <1>7, <1>8, <1>9, <1>10 DEF IsrInv

-----------------------------------------------------------------------------
(* Unlocking *)

(* An unlock takes back the disable of its lock, unless a removal has      *)
(* stopped the counting, and the interrupts are again as they should be.   *)
LEMMA UnlockExact ==
    ASSUME IsrInv, NEW h \in Handlers, isr_unlock(h),
           h = "access_counters" \/ (h = "replayable" /\ "replayable" \in handling) =>
               disable_intr_ref_count[h] > 0,
           UNCHANGED <<handling, handling_ref_count>>
    PROVE  /\ service_lock' = [service_lock EXCEPT ![h] = NONE]
           /\ disable_intr_ref_count' \in [Counted -> Nat]
           /\ h = "access_counters" \/ (h = "replayable" /\ "replayable" \in handling) =>
                 disable_intr_ref_count'[h] = disable_intr_ref_count[h] - 1
           /\ \A g \in Counted : g # h \/ (g = "replayable" /\ "replayable" \notin handling)
                 => disable_intr_ref_count'[g] = disable_intr_ref_count[g]
           /\ IntrExact'
<1>1. service_lock' = [service_lock EXCEPT ![h] = NONE]
  BY DEF isr_unlock, Free
<1>2. \A g \in Counted : Handles(g)' <=> Handles(g)
  BY DEF Handles
<1>3. IsrType /\ IntrExact /\ disable_intr_ref_count \in [Counted -> Nat]
  BY DEF IsrInv, IsrType
<1>4. Handles("replayable") <=> "replayable" \in handling
  BY DEF Handles
<1>5. CASE h = "access_counters" \/ (h = "replayable" /\ "replayable" \in handling)
  <2>1. h \in Counted /\ uvm_gpu_intr_enable(h)
    BY <1>4, <1>5 DEF isr_unlock, Counted
  <2>2. /\ disable_intr_ref_count' \in [Counted -> Nat]
        /\ disable_intr_ref_count'[h] = disable_intr_ref_count[h] - 1
        /\ h \in intr' <=> Handles(h) /\ disable_intr_ref_count'[h] = 0
        /\ \A g \in Counted \ {h} :
              /\ disable_intr_ref_count'[g] = disable_intr_ref_count[g]
              /\ g \in intr' <=> g \in intr
    BY <1>3, <1>5, <2>1, EnableExact
  <2>3. IntrExact'
    BY <1>2, <1>3, <2>1, <2>2 DEF IntrExact
  <2> QED  BY <1>1, <1>5, <2>2, <2>3
<1>6. CASE ~(h = "access_counters" \/ (h = "replayable" /\ "replayable" \in handling))
  <2>1. UNCHANGED <<disable_intr_ref_count, intr>>
    BY <1>4, <1>6 DEF isr_unlock
  <2>2. IntrExact'
    BY <1>2, <1>3, <2>1 DEF IntrExact
  <2> QED  BY <1>1, <1>3, <1>6, <2>1, <2>2
<1> QED  BY <1>5, <1>6

(* The bottom half unlocks what its top half has locked.                   *)
LEMMA BhUnlockKeeps == ASSUME IsrInv, BhUnlock PROVE IsrInv'
<1>1. /\ bpc = "unlock" /\ bpc' = "put" /\ isr_unlock(running)
      /\ UNCHANGED <<handling, handling_ref_count, notifications_ignored_count, lockof,
                     pc, op, queue, running>>
  BY DEF BhUnlock, handleVars, pmVars, callVars, queueVars
<1>2. PICK h \in Handlers : running = h /\ service_lock[h] = "bh"
  BY <1>1 DEF IsrInv, BhInv
<1>3. "replayable" \in Counted /\ "access_counters" \in Counted
      /\ \A g \in Counted : g \in Handlers
  BY DEF Counted, Handlers, Faults
<1>4. \A g \in Counted : Cardinality(Waiters(g)) \in Nat /\ Held(g) \in {0, 1}
  BY HolderTypes
<1>5. Ignored \in {0, 1} /\ Held(h) = 1 /\ disable_intr_ref_count \in [Counted -> Nat]
  BY <1>2 DEF Ignored, Held, IsrInv, IsrType
<1>6. h = "access_counters" \/ (h = "replayable" /\ "replayable" \in handling) =>
          disable_intr_ref_count[h] > 0
  <2>1. CASE h = "access_counters"
    <3>1. disable_intr_ref_count[h] = Cardinality(Waiters(h)) + 1 + Ignored
      BY <1>5, <2>1 DEF IsrInv, CountInv
    <3> QED  BY <1>3, <1>4, <1>5, <2>1, <3>1
  <2>2. CASE h = "replayable" /\ "replayable" \in handling
    <3>1. disable_intr_ref_count[h] = Cardinality(Waiters(h)) + 1
      BY <1>5, <2>2 DEF IsrInv, CountInv
    <3> QED  BY <1>3, <1>4, <2>2, <3>1
  <2> QED  BY <2>1, <2>2
<1>7. /\ service_lock' = [service_lock EXCEPT ![h] = NONE]
      /\ disable_intr_ref_count' \in [Counted -> Nat]
      /\ h = "access_counters" \/ (h = "replayable" /\ "replayable" \in handling) =>
            disable_intr_ref_count'[h] = disable_intr_ref_count[h] - 1
      /\ \A g \in Counted : g # h \/ (g = "replayable" /\ "replayable" \notin handling)
            => disable_intr_ref_count'[g] = disable_intr_ref_count[g]
      /\ IntrExact'
  BY <1>1, <1>2, <1>6, UnlockExact
<1>8. NONE \notin Threads /\ "bh" \notin Threads /\ NONE # "bh"
  BY ThreadsFinite, GpuIsrActors
<1>9. IsrType'
  BY <1>1, <1>7 DEF IsrInv, IsrType
<1>10. CallInv'
  BY <1>1, <1>2, <1>7, <1>8 DEF IsrInv, IsrType, CallInv
<1>11. BhInv'
  <2>1. \A k \in 1..Len(queue) : queue[k] \in Counted => queue[k] # h
    BY <1>1, <1>2 DEF IsrInv, BhInv
  <2>2. \A k \in 1..Len(queue) : queue[k] \in Counted => service_lock'[queue[k]] = "bh"
    BY <1>3, <1>7, <2>1 DEF IsrInv, IsrType, BhInv
  <2> QED  BY <1>1, <2>2 DEF BhInv
<1>12. FlushInv'
  BY <1>1 DEF IsrInv, FlushInv
<1>13. CountInv'
  <2>1. Ignored' = Ignored /\ \A g \in Counted : Waiters(g)' = Waiters(g)
    BY <1>1 DEF Ignored, Waiters
  <2>2. (h \in Counted => Held(h)' = 0) /\ \A g \in Counted : g # h => Held(g)' = Held(g)
    BY <1>2, <1>3, <1>7, <1>8 DEF Held, IsrInv, IsrType
  <2>3. \A g \in Counted : g = "access_counters" \/ "replayable" \in handling =>
           disable_intr_ref_count'[g] - disable_intr_ref_count[g] = Held(g)' - Held(g)
    <3>1. TAKE g \in Counted
    <3>2. HAVE g = "access_counters" \/ "replayable" \in handling
    <3>3. g \in {"access_counters", "replayable"}
      BY DEF Counted
    <3>4. CASE g = h
      BY <1>4, <1>5, <1>7, <2>2, <3>2, <3>3, <3>4
    <3>5. CASE g # h
      BY <1>4, <1>5, <1>7, <2>2, <3>5
    <3> QED  BY <3>4, <3>5
  <2>4. \A g \in Counted : Held(g)' \in {0, 1}
    BY <1>4, <2>2
  <2>5. disable_intr_ref_count'["access_counters"] - disable_intr_ref_count["access_counters"]
           = (Cardinality(Waiters("access_counters")') - Cardinality(Waiters("access_counters")))
             + (Held("access_counters")' - Held("access_counters"))
             + (Ignored' - Ignored)
    BY <1>3, <1>4, <1>5, <1>7, <2>1, <2>3, <2>4
  <2>6. "replayable" \in handling =>
          disable_intr_ref_count'["replayable"] - disable_intr_ref_count["replayable"]
             = (Cardinality(Waiters("replayable")') - Cardinality(Waiters("replayable")))
               + (Held("replayable")' - Held("replayable"))
    BY <1>3, <1>4, <1>5, <1>7, <2>1, <2>3, <2>4
  <2>7. "replayable" \notin handling =>
          disable_intr_ref_count'["replayable"] >= disable_intr_ref_count["replayable"]
    BY <1>3, <1>5, <1>7
  <2> QED  BY <1>1, <1>7, <2>5, <2>6, <2>7, CountsFollow DEF IsrInv
<1> QED  BY <1>7, <1>9, <1>10, <1>11, <1>12, <1>13 DEF IsrInv

(* A thread unlocks what it has locked.                                    *)
LEMMA UnlockKeeps == ASSUME IsrInv, NEW t \in Threads, Unlock(t) PROVE IsrInv'
<1>1. /\ pc[t] = "unlock" /\ isr_unlock(lockof[t])
      /\ pc' = [pc EXCEPT ![t] = AfterUnlock(t)]
      /\ lockof' = [lockof EXCEPT ![t] = NONE]
      /\ op' = [op EXCEPT ![t] = "none"]
      /\ UNCHANGED <<handling, handling_ref_count, notifications_ignored_count, queue,
                     running, bpc>>
  BY DEF Unlock, At, handleVars, pmVars, queueVars, bhVars
<1>2. PICK h \in Handlers : lockof[t] = h /\ service_lock[h] = t
  BY <1>1 DEF IsrInv, CallInv, IsrType
<1>3. AfterUnlock(t) \in AllPcs \ {"down", "unlock", "flushing"}
  BY DEF AfterUnlock, AllPcs
<1>4. "replayable" \in Counted /\ "access_counters" \in Counted
      /\ \A g \in Counted : g \in Handlers
  BY DEF Counted, Handlers, Faults
<1>5. \A g \in Counted : Cardinality(Waiters(g)) \in Nat /\ Held(g) \in {0, 1}
  BY HolderTypes
<1>6. Ignored \in {0, 1} /\ disable_intr_ref_count \in [Counted -> Nat]
  BY DEF Ignored, IsrInv, IsrType
<1>7. /\ Cardinality(Waiters(h)') = Cardinality(Waiters(h)) - 1
      /\ Cardinality(Waiters(h)) > 0
      /\ \A g \in Handlers \ {h} : Waiters(g)' = Waiters(g)
  BY <1>1, <1>2, WaitersShrink, ZenonT(60) DEF IsrInv
<1>8. h = "access_counters" \/ (h = "replayable" /\ "replayable" \in handling) =>
          disable_intr_ref_count[h] > 0
  <2>1. CASE h = "access_counters"
    <3>1. disable_intr_ref_count[h] = Cardinality(Waiters(h)) + Held(h) + Ignored
      BY <2>1 DEF IsrInv, CountInv
    <3> QED  BY <1>4, <1>5, <1>6, <1>7, <2>1, <3>1
  <2>2. CASE h = "replayable" /\ "replayable" \in handling
    <3>1. disable_intr_ref_count[h] = Cardinality(Waiters(h)) + Held(h)
      BY <2>2 DEF IsrInv, CountInv
    <3> QED  BY <1>4, <1>5, <1>7, <2>2, <3>1
  <2> QED  BY <2>1, <2>2
<1>9. /\ service_lock' = [service_lock EXCEPT ![h] = NONE]
      /\ disable_intr_ref_count' \in [Counted -> Nat]
      /\ h = "access_counters" \/ (h = "replayable" /\ "replayable" \in handling) =>
            disable_intr_ref_count'[h] = disable_intr_ref_count[h] - 1
      /\ \A g \in Counted : g # h \/ (g = "replayable" /\ "replayable" \notin handling)
            => disable_intr_ref_count'[g] = disable_intr_ref_count[g]
      /\ IntrExact'
  BY <1>1, <1>2, <1>8, UnlockExact
<1>10. NONE \notin Threads /\ "bh" \notin Threads /\ NONE # "bh" /\ NONE \notin Handlers
  BY ThreadsFinite, GpuIsrActors DEF Handlers, Faults
<1>11. IsrType'
  BY <1>1, <1>3, <1>9 DEF IsrInv, IsrType
<1>12. CallInv'
  <2>1. /\ pc'[t] \notin {"down", "unlock"} /\ lockof'[t] = NONE
        /\ \A r \in Threads \ {t} : pc'[r] = pc[r] /\ lockof'[r] = lockof[r] /\ op'[r] = op[r]
    BY <1>1, <1>3 DEF IsrInv, IsrType
  <2>2. \A g \in Handlers \ {h} : service_lock'[g] = service_lock[g] /\ service_lock[g] # t
    BY <1>2, <1>9 DEF IsrInv, IsrType, CallInv
  <2>3. service_lock'[h] = NONE
    BY <1>9 DEF IsrInv, IsrType
  <2>4. \A r \in Threads : pc'[r] \in {"down", "unlock"} <=> lockof'[r] # NONE
    BY <2>1 DEF IsrInv, CallInv
  <2>5. \A r \in Threads : pc'[r] = "unlock" => service_lock'[lockof'[r]] = r
    <3>1. SUFFICES ASSUME NEW r \in Threads \ {t}, pc[r] = "unlock"
                   PROVE  service_lock'[lockof[r]] = r
      BY <2>1
    <3>2. service_lock[lockof[r]] = r /\ lockof[r] \in Handlers
      BY <3>1 DEF IsrInv, IsrType, CallInv
    <3> QED  BY <1>2, <2>2, <3>1, <3>2
  <2>6. \A r \in Threads : pc'[r] = "down" /\ op'[r] \in {"enable", "disable"} =>
            lockof'[r] = "access_counters"
    BY <2>1, ZenonT(60) DEF IsrInv, CallInv
  <2>7. \A g \in Handlers : service_lock'[g] \in Threads =>
            pc'[service_lock'[g]] = "unlock" /\ lockof'[service_lock'[g]] = g
    BY <1>10, <2>1, <2>2, <2>3 DEF IsrInv, CallInv
  <2> QED  BY <2>4, <2>5, <2>6, <2>7 DEF CallInv
<1>13. \A g \in Handlers : service_lock[g] = "bh" <=> service_lock'[g] = "bh"
  BY <1>2, <1>9, <1>10 DEF IsrInv, IsrType
<1>14. BhInv'
  BY <1>1, <1>4, <1>13 DEF IsrInv, BhInv
<1>15. FlushInv'
  BY <1>1, <1>3 DEF IsrInv, IsrType, FlushInv
<1>16. CountInv'
  <2>1. Ignored' = Ignored /\ \A g \in Counted : Held(g)' = Held(g)
    BY <1>1, <1>4, <1>13 DEF Ignored, Held
  <2>2. \A g \in Counted : g = "access_counters" \/ "replayable" \in handling =>
           disable_intr_ref_count'[g] - disable_intr_ref_count[g]
             = Cardinality(Waiters(g)') - Cardinality(Waiters(g))
    <3>1. TAKE g \in Counted
    <3>2. HAVE g = "access_counters" \/ "replayable" \in handling
    <3>3. g \in {"access_counters", "replayable"} /\ g \in Handlers
      BY <1>4 DEF Counted
    <3>4. CASE g = h
      BY <1>5, <1>6, <1>7, <1>9, <3>2, <3>3, <3>4
    <3>5. CASE g # h
      BY <1>5, <1>6, <1>7, <1>9, <3>3, <3>5
    <3> QED  BY <3>4, <3>5
  <2>3. \A g \in Counted : Cardinality(Waiters(g)') \in Int
    BY <1>4, <1>5, <1>7
  <2>4. disable_intr_ref_count'["access_counters"] - disable_intr_ref_count["access_counters"]
           = (Cardinality(Waiters("access_counters")') - Cardinality(Waiters("access_counters")))
             + (Held("access_counters")' - Held("access_counters"))
             + (Ignored' - Ignored)
    BY <1>4, <1>5, <1>6, <1>9, <2>1, <2>2, <2>3
  <2>5. "replayable" \in handling =>
          disable_intr_ref_count'["replayable"] - disable_intr_ref_count["replayable"]
             = (Cardinality(Waiters("replayable")') - Cardinality(Waiters("replayable")))
               + (Held("replayable")' - Held("replayable"))
    BY <1>4, <1>5, <1>6, <1>9, <2>1, <2>2, <2>3
  <2>6. "replayable" \notin handling =>
          disable_intr_ref_count'["replayable"] >= disable_intr_ref_count["replayable"]
    BY <1>4, <1>6, <1>9
  <2> QED  BY <1>1, <1>9, <2>4, <2>5, <2>6, CountsFollow DEF IsrInv
<1> QED  BY <1>9, <1>11, <1>12, <1>14, <1>15, <1>16 DEF IsrInv

-----------------------------------------------------------------------------
(* The work under a lock *)

(* Only the first ignore and the last unignore change a count; enabling    *)
(* and disabling access counters changes what is handled while the thread  *)
(* keeps the interrupts off.                                               *)
LEMMA WorkCounts ==
    ASSUME IsrInv, NEW t \in Threads, Work(t)
    PROVE  CountInv' /\ IntrExact' /\ disable_intr_ref_count' \in [Counted -> Nat]
           /\ handling_ref_count' \in Int /\ notifications_ignored_count' \in Int
<1>1. /\ pc[t] = "down" /\ service_lock[lockof[t]] = NONE
      /\ service_lock' = [service_lock EXCEPT ![lockof[t]] = t]
      /\ UNCHANGED <<handling, lockof>>
  BY DEF Work
<1>2. /\ IsrType /\ IntrExact
      /\ disable_intr_ref_count \in [Counted -> Nat]
      /\ handling_ref_count \in Int /\ notifications_ignored_count \in Int
  BY DEF IsrInv, IsrType
<1>3. "replayable" \in Counted /\ "access_counters" \in Counted
      /\ \A g \in Counted : g \in Handlers /\ g \in {"replayable", "access_counters"}
  BY DEF Counted, Handlers, Faults
<1>4. \A g \in Counted : Cardinality(Waiters(g)) \in Nat /\ Held(g) \in {0, 1}
  BY HolderTypes
<1>5. Ignored \in {0, 1} /\ Ignored' \in {0, 1}
  BY DEF Ignored
<1>6. \A g \in Counted : Waiters(g)' = Waiters(g) /\ Held(g)' = Held(g)
  <2>1. NONE # "bh" /\ t # "bh"
    BY ThreadsFinite, GpuIsrActors
  <2> QED  BY <1>1, <1>2, <1>3, <2>1 DEF Waiters, Held, IsrType
<1>7. ASSUME disable_intr_ref_count' \in [Counted -> Nat],
             disable_intr_ref_count'["access_counters"]
               - disable_intr_ref_count["access_counters"] = Ignored' - Ignored,
             disable_intr_ref_count'["replayable"] = disable_intr_ref_count["replayable"]
      PROVE  CountInv'
  <2>1. disable_intr_ref_count'["access_counters"] - disable_intr_ref_count["access_counters"]
          = (Cardinality(Waiters("access_counters")') - Cardinality(Waiters("access_counters")))
            + (Held("access_counters")' - Held("access_counters"))
            + (Ignored' - Ignored)
    <3>1. /\ Cardinality(Waiters("access_counters")')
               - Cardinality(Waiters("access_counters")) = 0
          /\ Held("access_counters")' - Held("access_counters") = 0
      BY <1>3, <1>4, <1>6
    <3> QED  BY <1>5, <1>7, <3>1
  <2>2. disable_intr_ref_count'["replayable"] - disable_intr_ref_count["replayable"]
          = (Cardinality(Waiters("replayable")') - Cardinality(Waiters("replayable")))
            + (Held("replayable")' - Held("replayable"))
    BY <1>2, <1>3, <1>4, <1>6, <1>7
  <2>3. disable_intr_ref_count'["replayable"] >= disable_intr_ref_count["replayable"]
    BY <1>2, <1>3, <1>7
  <2> QED  BY <1>1, <1>7, <2>1, <2>2, <2>3, CountsFollow DEF IsrInv
<1>8. CASE WorkFaults(t) \/ WorkAccessFlush(t)
  <2>1. UNCHANGED <<handling_ref_count, notifications_ignored_count,
                    disable_intr_ref_count, intr>>
    BY <1>8 DEF WorkFaults, WorkAccessFlush
  <2>2. IntrExact'
    BY <1>1, <1>2, <2>1 DEF IntrExact, Handles
  <2>3. Ignored' = Ignored
    BY <2>1 DEF Ignored
  <2> QED  BY <1>2, <1>3, <1>5, <1>7, <2>1, <2>2, <2>3
<1>9. CASE WorkEnable(t) \/ WorkDisable(t)
  <2>1. /\ UNCHANGED <<notifications_ignored_count, disable_intr_ref_count, intr>>
        /\ handling_ref_count' \in Int
        /\ op[t] \in {"enable", "disable"}
    <3>1. handling_ref_count' \in {handling_ref_count - 1, handling_ref_count,
                                   handling_ref_count + 1}
      BY <1>9 DEF WorkEnable, WorkDisable
    <3>2. handling_ref_count' \in Int
      BY <1>2, <3>1
    <3> QED  BY <1>9, <3>2 DEF WorkEnable, WorkDisable
  <2>2. lockof[t] = "access_counters"
    BY <1>1, <2>1 DEF IsrInv, CallInv
  <2>3. Cardinality(Waiters("access_counters")) # 0
    <3>1. t \in Waiters("access_counters")
      BY <2>2 DEF Waiters
    <3> QED  BY <3>1, WaitersFinite, FS_EmptySet
  <2>4. disable_intr_ref_count["access_counters"] # 0
    <3>1. disable_intr_ref_count["access_counters"] =
            Cardinality(Waiters("access_counters")) + Held("access_counters") + Ignored
      BY DEF IsrInv, CountInv
    <3> QED  BY <1>3, <1>4, <1>5, <2>3, <3>1
  <2>5. "access_counters" \notin intr'
    BY <1>2, <1>3, <2>1, <2>4 DEF IntrExact
  <2>6. "replayable" \in intr' <=>
          Handles("replayable")' /\ disable_intr_ref_count'["replayable"] = 0
    BY <1>1, <1>2, <1>3, <2>1 DEF IntrExact, Handles
  <2>7. IntrExact'
    BY <1>3, <2>1, <2>4, <2>5, <2>6 DEF IntrExact
  <2>8. Ignored' = Ignored
    BY <2>1 DEF Ignored
  <2> QED  BY <1>2, <1>3, <1>5, <1>7, <2>1, <2>7, <2>8
<1>10. CASE WorkIgnore(t)
  <2>1. UNCHANGED handling_ref_count
    BY <1>10 DEF WorkIgnore
  <2>2. \A g \in Counted : Handles(g)' <=> Handles(g)
    BY <1>1, <2>1 DEF Handles
  <2>3. CASE op[t] = "ignore" /\ notifications_ignored_count = 0
    <3>1. /\ uvm_gpu_intr_disable("access_counters")
          /\ notifications_ignored_count' = 1
      BY <1>10, <2>3 DEF WorkIgnore
    <3>2. /\ disable_intr_ref_count' \in [Counted -> Nat]
          /\ disable_intr_ref_count'["access_counters"]
               = disable_intr_ref_count["access_counters"] + 1
          /\ "access_counters" \notin intr'
          /\ \A g \in Counted \ {"access_counters"} :
                /\ disable_intr_ref_count'[g] = disable_intr_ref_count[g]
                /\ g \in intr' <=> g \in intr
      BY <1>2, <1>3, <3>1, DisableExact
    <3>3. Ignored = 0 /\ Ignored' = 1
      BY <2>3, <3>1 DEF Ignored
    <3>4. IntrExact'
      BY <1>2, <2>2, <3>2 DEF IntrExact
    <3> QED  BY <1>2, <1>3, <1>7, <2>1, <3>1, <3>2, <3>3, <3>4
  <2>4. CASE op[t] # "ignore" /\ notifications_ignored_count = 1
    <3>1. /\ uvm_gpu_intr_enable("access_counters")
          /\ notifications_ignored_count' = 0
      BY <1>10, <2>4 DEF WorkIgnore
    <3>2. Ignored = 1 /\ Ignored' = 0
      BY <2>4, <3>1 DEF Ignored
    <3>3. disable_intr_ref_count["access_counters"] > 0
      <4>1. disable_intr_ref_count["access_counters"] =
              Cardinality(Waiters("access_counters")) + Held("access_counters") + Ignored
        BY DEF IsrInv, CountInv
      <4> QED  BY <1>3, <1>4, <3>2, <4>1
    <3>4. /\ disable_intr_ref_count' \in [Counted -> Nat]
          /\ disable_intr_ref_count'["access_counters"]
               = disable_intr_ref_count["access_counters"] - 1
          /\ "access_counters" \in intr' <=>
               Handles("access_counters") /\ disable_intr_ref_count'["access_counters"] = 0
          /\ \A g \in Counted \ {"access_counters"} :
                /\ disable_intr_ref_count'[g] = disable_intr_ref_count[g]
                /\ g \in intr' <=> g \in intr
      BY <1>2, <1>3, <3>1, <3>3, EnableExact
    <3>5. IntrExact'
      BY <1>2, <2>2, <3>4 DEF IntrExact
    <3> QED  BY <1>2, <1>3, <1>7, <2>1, <3>1, <3>2, <3>4, <3>5
  <2>5. CASE ~(op[t] = "ignore" /\ notifications_ignored_count = 0)
             /\ ~(op[t] # "ignore" /\ notifications_ignored_count = 1)
    <3>1. /\ UNCHANGED <<disable_intr_ref_count, intr>>
          /\ notifications_ignored_count' =
               IF op[t] = "ignore" THEN notifications_ignored_count + 1
               ELSE notifications_ignored_count - 1
      BY <1>10, <2>5 DEF WorkIgnore
    <3>2. Ignored' = Ignored /\ notifications_ignored_count' \in Int
      BY <1>2, <2>5, <3>1 DEF Ignored
    <3>3. IntrExact'
      BY <1>2, <2>2, <3>1 DEF IntrExact
    <3> QED  BY <1>2, <1>3, <1>5, <1>7, <2>1, <3>1, <3>2, <3>3
  <2> QED  BY <2>3, <2>4, <2>5
<1> QED  BY <1>8, <1>9, <1>10 DEF Work

(* A thread gets the lock it waits for.                                    *)
LEMMA WorkKeeps == ASSUME IsrInv, NEW t \in Threads, Work(t) PROVE IsrInv'
<1>1. /\ pc[t] = "down"
      /\ pc' = [pc EXCEPT ![t] = "unlock"]
      /\ UNCHANGED <<handling, lockof, op, queue, running, bpc>>
  BY DEF Work, At, queueVars, bhVars
<1>2. NONE \notin Threads /\ "bh" \notin Threads /\ NONE # "bh"
  BY ThreadsFinite, GpuIsrActors
<1>3. PICK h \in Handlers : lockof[t] = h
  BY <1>1 DEF IsrInv, IsrType, CallInv
<1>4. service_lock[h] = NONE /\ service_lock' = [service_lock EXCEPT ![h] = t]
  BY <1>3 DEF Work
<1>5. CountInv' /\ IntrExact' /\ disable_intr_ref_count' \in [Counted -> Nat]
      /\ handling_ref_count' \in Int /\ notifications_ignored_count' \in Int
  BY WorkCounts
<1>6. IsrType'
  BY <1>1, <1>4, <1>5 DEF IsrInv, IsrType, AllPcs
<1>7. CallInv'
  <2>1. /\ pc'[t] = "unlock" /\ service_lock'[h] = t
        /\ \A r \in Threads \ {t} : pc'[r] = pc[r]
        /\ \A g \in Handlers \ {h} : service_lock'[g] = service_lock[g]
    BY <1>1, <1>4 DEF IsrInv, IsrType
  <2>2. \A r \in Threads : pc'[r] = "unlock" => service_lock'[lockof[r]] = r
    <3>1. TAKE r \in Threads
    <3>2. CASE r = t
      BY <1>3, <2>1, <3>2
    <3>3. CASE r # t
      <4>1. pc[r] = "unlock" => service_lock[lockof[r]] = r /\ lockof[r] \in Handlers
        BY DEF IsrInv, IsrType, CallInv
      <4> QED  BY <1>2, <1>4, <2>1, <3>3, <4>1
    <3> QED  BY <3>2, <3>3
  <2>3. \A r \in Threads : pc'[r] \in {"down", "unlock"} <=> lockof[r] # NONE
    BY <1>1, <2>1 DEF IsrInv, CallInv
  <2>4. \A r \in Threads : pc'[r] = "down" /\ op[r] \in {"enable", "disable"} =>
            lockof[r] = "access_counters"
    BY <2>1 DEF IsrInv, CallInv
  <2>5. \A g \in Handlers : service_lock'[g] \in Threads =>
            pc'[service_lock'[g]] = "unlock" /\ lockof[service_lock'[g]] = g
    BY <1>1, <1>3, <2>1 DEF IsrInv, CallInv
  <2> QED  BY <1>1, <2>2, <2>3, <2>4, <2>5 DEF CallInv
<1>8. \A g \in Handlers : service_lock[g] = "bh" <=> service_lock'[g] = "bh"
  BY <1>2, <1>4 DEF IsrInv, IsrType
<1>9. BhInv'
  BY <1>1, <1>8 DEF IsrInv, BhInv, Counted, Handlers, Faults
<1>10. FlushInv'
  BY <1>1 DEF IsrInv, IsrType, FlushInv
<1> QED  BY <1>5, <1>6, <1>7, <1>9, <1>10 DEF IsrInv

(* A removal turns the interrupts for replayable faults off for good.      *)
LEMMA DisableIsrKeeps == ASSUME IsrInv, uvm_gpu_disable_isr PROVE IsrInv'
<1>1. /\ pc["rem"] = "disable" /\ uvm_gpu_intr_disable("replayable")
      /\ handling' = {} /\ pc' = [pc EXCEPT !["rem"] = "flush_q"]
      /\ UNCHANGED <<service_lock, handling_ref_count, notifications_ignored_count,
                     lockof, op, queue, running, bpc>>
  BY DEF uvm_gpu_disable_isr, At, remFrame, pmVars, bhVars, queueVars
<1>2. "rem" \in Threads /\ "replayable" \in Counted /\ "access_counters" \in Counted
      /\ \A g \in Counted : g \in {"replayable", "access_counters"}
  BY DEF Threads, Counted
<1>3. /\ disable_intr_ref_count' \in [Counted -> Nat]
      /\ disable_intr_ref_count'["replayable"] = disable_intr_ref_count["replayable"] + 1
      /\ "replayable" \notin intr'
      /\ \A g \in Counted \ {"replayable"} :
            /\ disable_intr_ref_count'[g] = disable_intr_ref_count[g]
            /\ g \in intr' <=> g \in intr
  BY <1>1, <1>2, DisableExact DEF IsrInv
<1>4. IsrType'
  BY <1>1, <1>3, ZenonT(60) DEF IsrInv, IsrType, AllPcs
<1>5. CallInv'
  BY <1>1, <1>2 DEF IsrInv, IsrType, CallInv
<1>6. BhInv' /\ FlushInv'
  BY <1>1, <1>2 DEF IsrInv, IsrType, BhInv, FlushInv, Threads
<1>7. CountInv'
  <2>1. disable_intr_ref_count'["replayable"] > 0
    BY <1>2, <1>3 DEF IsrInv, IsrType
  <2>2. disable_intr_ref_count'["access_counters"] = disable_intr_ref_count["access_counters"]
    BY <1>2, <1>3
  <2>3. disable_intr_ref_count'["access_counters"] =
          Cardinality(Waiters("access_counters")') + Held("access_counters")' + Ignored'
    BY <1>1, <2>2 DEF IsrInv, CountInv, Waiters, Held, Ignored
  <2> QED  BY <1>1, <2>1, <2>3 DEF CountInv
<1>8. IntrExact'
  <2>1. ~Handles("replayable")' /\ (Handles("access_counters")' <=> Handles("access_counters"))
    BY <1>1 DEF Handles
  <2>2. "access_counters" \in Counted \ {"replayable"}
    BY <1>2
  <2>3. "access_counters" \in intr' <=>
          Handles("access_counters")' /\ disable_intr_ref_count'["access_counters"] = 0
    BY <1>3, <2>1, <2>2 DEF IsrInv, IntrExact
  <2> QED  BY <1>2, <1>3, <2>1, <2>3 DEF IntrExact
<1> QED  BY <1>4, <1>5, <1>6, <1>7, <1>8 DEF IsrInv

-----------------------------------------------------------------------------
(* The theorems *)

(* The top half keeps the invariant.                                       *)
LEMMA TopKeeps == ASSUME IsrInv, TopLookup \/ TopStep PROVE IsrInv'
<1>1. CASE TopLookup \/ TopSuspended
  <2>1. UNCHANGED <<service_lock, disable_intr_ref_count, intr, handleVars, pmVars,
                    queueVars, bhVars, callVars>>
    BY <1>1 DEF TopLookup, TopSuspended, lockVars
  <2> QED  BY <2>1, FrameKeeps DEF invVars, handleVars, pmVars, queueVars, bhVars, callVars
<1>2. CASE schedule_replayable_faults_handler
  <2>1. UNCHANGED <<handleVars, pmVars, running, open, bhVars, callVars>>
    BY <1>2 DEF schedule_replayable_faults_handler
  <2>2. CASE TryLock("replayable")
    <3>1. Start("replayable") /\ "replayable" \in Counted
      BY <1>2, <2>2 DEF schedule_replayable_faults_handler, Counted
    <3> QED  BY <2>1, <2>2, <3>1, StartKeeps DEF handleVars, pmVars, bhVars, callVars
  <2>3. CASE ~TryLock("replayable")
    <3>1. UNCHANGED <<service_lock, disable_intr_ref_count, intr, queue>>
      BY <1>2, <2>3 DEF schedule_replayable_faults_handler
    <3> QED  BY <2>1, <3>1, FrameKeeps DEF invVars, handleVars, pmVars, bhVars, callVars
  <2> QED  BY <2>2, <2>3
<1>3. CASE schedule_non_replayable_faults_handler
  <2>1. UNCHANGED <<lockVars, handleVars, pmVars, running, open, bhVars, callVars>>
    BY <1>3 DEF schedule_non_replayable_faults_handler
  <2>2. queue' = Q!Scheduled("non_replayable") \/ UNCHANGED queue
    BY <1>3 DEF schedule_non_replayable_faults_handler
  <2>3. CASE queue' = Q!Scheduled("non_replayable")
    BY <2>1, <2>3, ScheduleKeeps DEF lockVars, handleVars, pmVars, bhVars, callVars
  <2>4. CASE UNCHANGED queue
    BY <2>1, <2>4, FrameKeeps DEF invVars, lockVars, handleVars, pmVars, bhVars, callVars
  <2> QED  BY <2>2, <2>3, <2>4
<1>4. CASE schedule_access_counters_handler
  <2>1. UNCHANGED <<handleVars, pmVars, running, open, bhVars, callVars>>
    BY <1>4 DEF schedule_access_counters_handler
  <2>2. CASE TryLock("access_counters")
    <3>1. Start("access_counters") /\ "access_counters" \in Counted
      BY <1>4, <2>2 DEF schedule_access_counters_handler, Counted
    <3> QED  BY <2>1, <2>2, <3>1, StartKeeps DEF handleVars, pmVars, bhVars, callVars
  <2>3. CASE ~TryLock("access_counters")
    <3>1. UNCHANGED <<service_lock, disable_intr_ref_count, intr, queue>>
      BY <1>4, <2>3 DEF schedule_access_counters_handler
    <3> QED  BY <2>1, <3>1, FrameKeeps DEF invVars, handleVars, pmVars, bhVars, callVars
  <2> QED  BY <2>2, <2>3
<1> QED  BY <1>1, <1>2, <1>3, <1>4 DEF TopStep

(* So do suspend and resume,                                               *)
LEMMA PmKeeps == ASSUME IsrInv, uvm_suspend \/ uvm_resume \/ PmStep PROVE IsrInv'
<1>1. /\ "pm" \in Threads /\ {"replayable", "access_counters"} \subseteq Handlers
      /\ {"idle", "flush_q", "asleep", "resume", "unignore"}
            \subseteq AllPcs \ {"down", "unlock"}
  BY DEF Threads, Handlers, Faults, AllPcs
<1>2. UNCHANGED <<handling, handling_ref_count, queue, running, bpc>>
  BY DEF uvm_suspend, uvm_resume, PmStep, SuspendIgnore, SuspendIsr, SuspendNext,
         ResumeIsr, ResumeUnignore, pmFrame, handleVars, queueVars, bhVars
<1>3. UNCHANGED notifications_ignored_count
  BY DEF uvm_suspend, uvm_resume, PmStep, SuspendIgnore, SuspendIsr, SuspendNext,
         ResumeIsr, ResumeUnignore, pmVars
<1>4. pc["pm"] \in {"idle", "ignore", "suspend", "flushed", "asleep", "resume", "unignore"}
  BY <1>1 DEF uvm_suspend, uvm_resume, PmStep, SuspendIgnore, SuspendIsr, SuspendNext,
         ResumeIsr, ResumeUnignore
<1>5. CASE \/ Call("pm", "flush", "replayable")
           \/ Call("pm", "ignore", "access_counters")
           \/ Call("pm", "unignore", "access_counters")
  BY <1>1, <1>2, <1>3, <1>4, <1>5, CallKeeps
<1>6. CASE /\ \E l \in {"idle", "flush_q", "asleep", "resume", "unignore"} : At("pm", l)
           /\ UNCHANGED <<lockVars, op, lockof>>
  BY <1>1, <1>2, <1>3, <1>4, <1>6, MoveKeeps DEF lockVars
<1>7. \/ Call("pm", "flush", "replayable")
      \/ Call("pm", "ignore", "access_counters")
      \/ Call("pm", "unignore", "access_counters")
      \/ /\ \E l \in {"idle", "flush_q", "asleep", "resume", "unignore"} : At("pm", l)
         /\ UNCHANGED <<lockVars, op, lockof>>
  <2>1. CASE uvm_suspend \/ SuspendIgnore \/ ResumeUnignore
    BY <2>1 DEF uvm_suspend, SuspendIgnore, ResumeUnignore
  <2>2. CASE uvm_resume \/ SuspendIsr
    BY <2>2 DEF uvm_resume, SuspendIsr
  <2>3. CASE SuspendNext
    BY <2>3 DEF SuspendNext
  <2>4. CASE ResumeIsr
    BY <2>4 DEF ResumeIsr
  <2> QED  BY <2>1, <2>2, <2>3, <2>4 DEF PmStep
<1> QED  BY <1>5, <1>6, <1>7

(* a removal,                                                              *)
LEMMA RemKeeps == ASSUME IsrInv, remove_gpu \/ RemStep PROVE IsrInv'
<1>1. /\ "rem" \in Threads /\ Faults \subseteq Handlers
      /\ {"idle", "flush_q", "disable"} \subseteq AllPcs \ {"down", "unlock"}
  BY DEF Threads, Handlers, AllPcs
<1>2. CASE remove_gpu
  <2>1. /\ pc["rem"] = "idle"
        /\ \E l \in {"flush_q", "disable"} : At("rem", l)
        /\ UNCHANGED <<remFrame, lockVars, handleVars, queueVars, op, lockof>>
    BY <1>2 DEF remove_gpu
  <2> QED  BY <1>1, <2>1, MoveKeeps DEF remFrame, pmVars, bhVars, lockVars, handleVars, queueVars
<1>3. CASE deinit_gpu
  <2>1. /\ pc["rem"] = "free" /\ At("rem", "idle")
        /\ UNCHANGED <<remFrame, lockVars, handleVars, queueVars, op, lockof>>
    BY <1>3 DEF deinit_gpu
  <2> QED  BY <1>1, <2>1, MoveKeeps DEF remFrame, pmVars, bhVars, lockVars, handleVars, queueVars
<1>4. ASSUME NEW h \in Faults, sync_parent_gpu_trackers(h) PROVE IsrInv'
  <2>1. /\ pc["rem"] \in {"flushed", "sync_non_replayable"} /\ Call("rem", "sync", h)
        /\ UNCHANGED <<remFrame, handleVars, queue, running>>
    BY <1>4 DEF sync_parent_gpu_trackers
  <2> QED  BY <1>1, <2>1, CallKeeps DEF remFrame, pmVars, bhVars, handleVars
<1> QED  BY <1>2, <1>3, <1>4, DisableIsrKeeps DEF RemStep

(* and the threads and the bottom half.                                    *)
LEMMA NextKeeps == ASSUME IsrInv, [IsrNext]_isrVars PROVE IsrInv'
<1>1. ASSUME NEW h \in Handlers, Arrive(h) PROVE IsrInv'
  <2>1. UNCHANGED invVars
    BY <1>1 DEF Arrive, invVars, handleVars, pmVars, queueVars, bhVars, callVars
  <2> QED  BY <2>1, FrameKeeps
<1>2. CASE BhStep
  BY <1>2, TakeKeeps, ProceedKeeps, BhLockKeeps, BhUnlockKeeps, FlushedKeeps DEF BhStep
<1>3. ASSUME NEW t \in Threads, Locked(t) PROVE IsrInv'
  BY <1>3, WorkKeeps, UnlockKeeps DEF Locked
<1>4. ASSUME NEW u \in Users, UserCall(u) PROVE IsrInv'
  <2>1. /\ u \in Threads /\ pc[u] = "idle"
        /\ UNCHANGED <<handleVars, pmVars, queueVars, bhVars>>
        /\ {"replayable", "access_counters"} \subseteq Handlers
    BY <1>4 DEF UserCall, Threads, Handlers, Faults
  <2>2. CASE Call(u, "flush", "replayable")
    BY <2>1, <2>2, CallKeeps DEF handleVars, pmVars, queueVars, bhVars
  <2>3. ASSUME NEW o \in {"enable", "disable", "access_flush"},
               Call(u, o, "access_counters")
        PROVE  IsrInv'
    BY <2>1, <2>3, CallKeeps DEF handleVars, pmVars, queueVars, bhVars
  <2> QED  BY <1>4, <2>2, <2>3 DEF UserCall
<1>5. ASSUME NEW t \in {"pm", "rem"}, Flush(t) PROVE IsrInv'
  <2>1. /\ queue' = Q!Scheduled(t) /\ pc[t] = "flush_q" /\ At(t, "flushing")
        /\ UNCHANGED <<lockVars, handleVars, pmVars, running, bhVars, op, lockof>>
    BY <1>5 DEF Flush
  <2> QED  BY <2>1, ScheduleKeeps DEF lockVars, handleVars, pmVars, bhVars
<1>6. CASE UNCHANGED isrVars
  <2>1. UNCHANGED invVars
    BY <1>6 DEF isrVars, invVars, lockVars, handleVars, pmVars, queueVars, bhVars, callVars
  <2> QED  BY <2>1, FrameKeeps
<1> QED  BY <1>1, <1>2, <1>3, <1>4, <1>5, <1>6, TopKeeps, PmKeeps, RemKeeps DEF IsrNext

(* Whose every unit of a count is.                                         *)
THEOREM IsrInvariant == IsrSpec => []IsrInv
  BY IsrInitial, NextKeeps, PTL DEF IsrSpec

(* The interrupts of a handler are on exactly when it handles them and     *)
(* nobody has asked for them to be off.                                    *)
THEOREM IsrIntrExact == IsrSpec => []IntrExact
<1>1. IsrInv => IntrExact
  BY DEF IsrInv
<1> QED  BY <1>1, IsrInvariant, PTL

(* The owner of a service lock accounts for a disable.                     *)
LEMMA LockedIsOff == IsrInv => NoStorm
<1> SUFFICES ASSUME IsrInv, NEW h \in Counted, service_lock[h] # NONE
             PROVE  h \notin intr
  BY DEF NoStorm
<1>1. h \in Handlers /\ h \in {"replayable", "access_counters"}
  BY DEF Counted, Handlers, Faults
<1>2. Cardinality(Waiters(h)) \in Nat /\ Held(h) \in {0, 1} /\ Ignored \in {0, 1}
  BY HolderTypes DEF Ignored
<1>3. Cardinality(Waiters(h)) > 0 \/ Held(h) = 1
  <2>1. CASE service_lock[h] = "bh"
    BY <2>1 DEF Held
  <2>2. CASE service_lock[h] \in Threads
    <3>1. service_lock[h] \in Waiters(h)
      BY <1>1, <2>2 DEF IsrInv, CallInv, Waiters
    <3> QED  BY <1>2, <3>1, WaitersFinite, FS_EmptySet
  <2> QED  BY <1>1, <2>1, <2>2 DEF IsrInv, IsrType
<1>4. Handles(h) => disable_intr_ref_count[h] # 0
  <2>1. CASE h = "access_counters"
    <3>1. disable_intr_ref_count[h] = Cardinality(Waiters(h)) + Held(h) + Ignored
      BY <2>1 DEF IsrInv, CountInv
    <3> QED  BY <1>2, <1>3, <3>1
  <2>2. CASE h = "replayable"
    <3>1. Handles(h) => disable_intr_ref_count[h] = Cardinality(Waiters(h)) + Held(h)
      BY <2>2 DEF IsrInv, CountInv, Handles
    <3> QED  BY <1>2, <1>3, <3>1
  <2> QED  BY <1>1, <2>1, <2>2
<1> QED  BY <1>4 DEF IsrInv, IntrExact

(* While someone has a service lock its interrupts are off.                *)
THEOREM IsrNoStorm == IsrSpec => []NoStorm
  BY LockedIsOff, IsrInvariant, PTL
=============================================================================
