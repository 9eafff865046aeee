------------------------ MODULE GpuIsrParentProofs ------------------------
(***************************************************************************)
(* Proofs about GpuIsr, continued: the references to the parent GPU, what  *)
(* a removal or a suspend has drained when it goes on, and that the bottom *)
(* halves' queue is used as WorkQueue says it may be.                      *)
(***************************************************************************)
EXTENDS GpuIsrProofs, WellFoundedInduction

\* The provers' time limit for every step, in seconds
USE SMTT(40)

\* what the bottom halves' queue holds
Item == Handlers \cup {"pm", "rem"}

\* item i waits
Queued(i) == \E k \in 1..Len(queue) : queue[k] = i

\* item i is the last one the queue has
Lasts(i) ==
    \/ running = i /\ queue = <<>>
    \/ queue # <<>> /\ queue[Len(queue)] = i

\* no item waits or runs
Nothing == queue = <<>> /\ running = NONE

\* Where the bottom half, the suspending, the removing and the user threads
\* can be.
Places ==
    /\ bpc \in {"take", "find", "lock", "service", "unlock", "put", "flush"}
    /\ bpc = "take" <=> running = NONE
    /\ bpc = "flush" <=> running \in {"pm", "rem"}
    /\ running \in Item \cup {NONE}
    /\ tpc \in {"idle"} \cup Handlers
    /\ \A u \in Users : pc[u] \in {"idle", "down", "unlock"}
    /\ \A u \in Users : pc[u] # "idle" =>
           op[u] \in {"flush", "enable", "disable", "access_flush"}
    /\ pc["pm"] \notin {"disable", "sync_non_replayable", "free"}
    /\ pc["pm"] \in {"down", "unlock"} => op["pm"] \in {"flush", "ignore", "unignore"}
    /\ pc["rem"] \in {"idle", "disable", "flush_q", "flushing", "flushed", "down", "unlock",
                      "sync_non_replayable", "free"}
    /\ pc["rem"] \in {"down", "unlock"} => op["rem"] = "sync"
    /\ pc["pm"] # "idle" => \A t \in Threads \ {"pm"} : pc[t] = "idle"

\* What the removal of a partition, and of the last one, has done so far.
RemInv ==
    /\ valid \subseteq Partitions
    /\ table = (valid # {})
    /\ obj \in [Threads -> Partitions \cup {NONE}]
    /\ pc["rem"] = "idle" => gpus = valid
    /\ pc["rem"] # "idle" => obj["rem"] \notin valid /\ gpus = valid \cup {obj["rem"]}
    /\ obj["rem"] # NONE <=> pc["rem"] # "idle"
    /\ pc["pm"] # "idle" => valid # {}
    /\ enabled \subseteq Users
    /\ handling_ref_count = Cardinality(enabled)
    /\ \A u \in Users : obj[u] \in valid \cup {NONE}
    /\ \A u \in Users : u \in enabled \/ pc[u] # "idle" => obj[u] # NONE
    /\ handling = IF valid = {} /\ pc["rem"] # "disable" THEN {} ELSE Faults
    /\ pc["rem"] = "disable" => valid = {}

\* Nothing is left of a queue that has been flushed after the last item that
\* could be added, and only such a queue is stopped.
DrainInv ==
    /\ valid = {} /\ pc["rem"] = "flushing" => Lasts("rem")
    /\ valid = {} /\ pc["rem"] \notin {"disable", "flush_q", "flushing"} => Nothing
    /\ ~open => valid = {} /\ pc["rem"] \notin {"disable", "flush_q", "flushing"}
    /\ open \in BOOLEAN
    /\ is_suspended => tpc \in {"idle", "replayable"}
    /\ pc["pm"] \in {"flush_q", "flushing", "flushed", "asleep"} => is_suspended
    /\ pc["pm"] = "flushing" => Lasts("pm")
    /\ pc["pm"] \in {"flushed", "asleep"} => Nothing

\* The bottom half works on a partition that is not yet flushed out.
GpuInv ==
    bgpu # NONE =>
       /\ bpc \in {"lock", "service", "unlock"}
       /\ \/ bgpu \in valid
          \/ /\ bgpu = obj["rem"]
             /\ \/ pc["rem"] \in {"disable", "flush_q"}
                \/ pc["rem"] = "flushing" /\ Queued("rem")

\* How many times the notifications are ignored.
Ignoring ==
    /\ left \subseteq valid
    /\ pc["pm"] = "idle" => left = {} /\ notifications_ignored_count = 0
    /\ pc["pm"] = "asleep" =>
          left = {} /\ notifications_ignored_count = Cardinality(valid)
    /\ pc["pm"] = "ignore" \/ (pc["pm"] = "down" /\ op["pm"] = "ignore")
         \/ (pc["pm"] \in {"down", "unlock"} /\ op["pm"] = "flush") =>
          left # {} /\ notifications_ignored_count = Cardinality(valid) - Cardinality(left)
    /\ pc["pm"] \in {"suspend", "flush_q", "flushing", "flushed"}
         \/ (pc["pm"] = "unlock" /\ op["pm"] = "ignore") =>
          left # {} /\ notifications_ignored_count = Cardinality(valid) - Cardinality(left) + 1
    /\ pc["pm"] = "resume" \/ (pc["pm"] = "unlock" /\ op["pm"] = "unignore") =>
          notifications_ignored_count = Cardinality(left)
    /\ pc["pm"] = "unignore" \/ (pc["pm"] = "down" /\ op["pm"] = "unignore") =>
          notifications_ignored_count = Cardinality(left) + 1

\* the bottom halves that wait
Waiting == {i \in Handlers : Q!Contains(queue, i)}

\* a truth value as a number
Bit(b) == IF b THEN 1 ELSE 0

\* KrefExact, by who has a reference
KrefOf ==
    gpu_kref = Cardinality(Waiting) + Bit(running \in Handlers) + Bit(tpc # "idle")
               + Bit(pc["rem"] # "idle") + Bit(gpus # {})

\* With IsrInv, the inductive invariant.
ParInv == Places /\ RemInv /\ DrainInv /\ GpuInv /\ Ignoring /\ KrefOf

(* Every step keeps everyone in the places they can be.                    *)
LEMMA PlacesStep == ASSUME IsrInv, ParInv, [IsrNext]_isrVars PROVE Places'
<1> USE GpuIsrActors, Untyped
    DEF ParInv, IsrInv, IsrType, Places, Threads, Item, Handlers, Faults, AllPcs, parentVars,
        lockVars, handleVars, pmVars, queueVars, bhVars, callVars, pmFrame, remFrame
<1>1. ASSUME NEW h \in Handlers, Arrive(h) PROVE Places'
  BY <1>1 DEF Arrive
<1>2. CASE TopLookup
  BY <1>2 DEF TopLookup
<1>3. CASE TopSuspended
  BY <1>3 DEF TopSuspended
<1>4. CASE schedule_replayable_faults_handler
  BY <1>4 DEF schedule_replayable_faults_handler
<1>5. CASE schedule_non_replayable_faults_handler
  BY <1>5 DEF schedule_non_replayable_faults_handler
<1>6. CASE schedule_access_counters_handler
  BY <1>6 DEF schedule_access_counters_handler
<1>7. CASE BhTake
  BY <1>7 DEF BhTake, Q!Take
<1>8. CASE find_first_valid_gpu
  BY <1>8 DEF find_first_valid_gpu
<1>9. CASE BhLock
  BY <1>9 DEF BhLock
<1>10. CASE BhService
  BY <1>10 DEF BhService
<1>11. CASE BhUnlock
  BY <1>11 DEF BhUnlock
<1>12. CASE BhPut
  BY <1>12 DEF BhPut, Q!Finish
<1>13. CASE BhFlush
  <2>1. running \in {"pm", "rem"} /\ pc[running] = "flushing"
    BY <1>13 DEF BhFlush, FlushInv
  <2>2. pc' = [pc EXCEPT ![running] = "flushed"] /\ UNCHANGED <<op, tpc>>
        /\ running' = NONE /\ bpc' = "take"
    BY <1>13 DEF BhFlush, Q!Finish
  <2>3. CASE running = "pm"
    BY <2>1, <2>2, <2>3
  <2>4. CASE running = "rem"
    BY <2>1, <2>2, <2>4
  <2> QED
    BY <2>1, <2>3, <2>4
<1>14. ASSUME NEW t \in Threads, Work(t) PROVE Places'
  BY <1>14 DEF Work, At
<1>15. ASSUME NEW t \in Threads, Unlock(t) PROVE Places'
  <2>1. /\ pc[t] = "unlock" /\ pc' = [pc EXCEPT ![t] = AfterUnlock(t)]
        /\ op' = [op EXCEPT ![t] = "none"]
        /\ UNCHANGED <<bpc, running, tpc>>
    BY <1>15 DEF Unlock, At
  <2>2. AfterUnlock(t) \in CASE t \in Users -> {"idle"}
                             [] t = "pm" -> {"ignore", "suspend", "resume"}
                             [] t = "rem" -> {"sync_non_replayable", "free"}
    <3>1. CASE t \in Users
      BY <3>1 DEF AfterUnlock
    <3>2. CASE t = "pm"
      <4>1. op["pm"] \in {"flush", "ignore", "unignore"} /\ t \notin Users
        BY <2>1, <3>2
      <4> QED
        BY <3>2, <4>1 DEF AfterUnlock
    <3>3. CASE t = "rem"
      <4>1. op["rem"] = "sync" /\ t \notin Users
        BY <2>1, <3>3
      <4> QED
        BY <3>3, <4>1 DEF AfterUnlock
    <3> QED
      BY <3>1, <3>2, <3>3
  <2>3. CASE t \in Users
    BY <2>1, <2>2, <2>3
  <2>4. CASE t = "pm"
    BY <2>1, <2>2, <2>4
  <2>5. CASE t = "rem"
    BY <2>1, <2>2, <2>5
  <2> QED
    BY <2>3, <2>4, <2>5
<1>16. ASSUME NEW u \in Users, UserCall(u) PROVE Places'
  BY <1>16 DEF UserCall, Call, isr_lock
<1>17. CASE uvm_suspend
  BY <1>17 DEF uvm_suspend, Call, isr_lock
<1>18. CASE uvm_resume
  BY <1>18 DEF uvm_resume, At
<1>19. CASE SuspendIgnore
  BY <1>19 DEF SuspendIgnore, Call, isr_lock
<1>20. CASE SuspendIsr
  BY <1>20 DEF SuspendIsr, At
<1>21. CASE SuspendNext
  BY <1>21 DEF SuspendNext, Call, isr_lock, At
<1>22. CASE ResumeIsr
  BY <1>22 DEF ResumeIsr, At
<1>23. CASE ResumeUnignore
  BY <1>23 DEF ResumeUnignore, Call, isr_lock
<1>24. ASSUME NEW t \in {"pm", "rem"}, Flush(t) PROVE Places'
  BY <1>24 DEF Flush, At
<1>25. CASE remove_gpu
  BY <1>25 DEF remove_gpu, At
<1>26. CASE uvm_gpu_disable_isr
  BY <1>26 DEF uvm_gpu_disable_isr, At
<1>27. CASE deinit_gpu
  BY <1>27 DEF deinit_gpu, At
<1>28. ASSUME NEW h \in Faults, sync_parent_gpu_trackers(h) PROVE Places'
  BY <1>28 DEF sync_parent_gpu_trackers, Call, isr_lock
<1>29. CASE UNCHANGED isrVars
  BY <1>29 DEF isrVars
<1> HIDE DEF ParInv, IsrInv, IsrType, Places, Threads, Item, Handlers, Faults, AllPcs,
        parentVars, lockVars, handleVars, pmVars, queueVars, bhVars, callVars, pmFrame, remFrame
<1> QED
  BY <1>1, <1>2, <1>3, <1>4, <1>5, <1>6, <1>7, <1>8, <1>9, <1>10, <1>11, <1>12, <1>13,
     <1>14, <1>15, <1>16, <1>17, <1>18, <1>19, <1>20, <1>21, <1>22, <1>23, <1>24,
     <1>25, <1>26, <1>27, <1>28, <1>29
  DEF IsrNext, TopStep, BhStep, Locked, PmStep, RemStep

(* What the steps of the interrupt handlers leave alone.                   *)
LEMMA HandlersFrame ==
    ASSUME \/ \E h \in Handlers : Arrive(h)
           \/ TopLookup \/ TopStep \/ BhTake \/ find_first_valid_gpu \/ BhLock \/ BhService
           \/ BhUnlock \/ BhPut
           \/ UNCHANGED isrVars
    PROVE  UNCHANGED <<parentVars, callVars, handleVars, pmVars, enabled>>
<1>1. CASE \E h \in Handlers : Arrive(h)
  BY <1>1 DEF Arrive
<1>2. CASE TopLookup \/ TopSuspended
  BY <1>2 DEF TopLookup, TopSuspended
<1>3. CASE schedule_replayable_faults_handler \/ schedule_non_replayable_faults_handler
           \/ schedule_access_counters_handler
  BY <1>3 DEF schedule_replayable_faults_handler, schedule_non_replayable_faults_handler,
              schedule_access_counters_handler
<1>4. CASE BhTake \/ find_first_valid_gpu \/ BhLock
  BY <1>4 DEF BhTake, find_first_valid_gpu, BhLock
<1>5. CASE BhService \/ BhUnlock \/ BhPut
  BY <1>5 DEF BhService, BhUnlock, BhPut
<1>6. CASE UNCHANGED isrVars
  BY <1>6 DEF isrVars
<1> QED
  BY <1>1, <1>2, <1>3, <1>4, <1>5, <1>6 DEF TopStep

(* What suspend and resume leave alone.                                    *)
LEMMA PmFrame ==
    ASSUME IsrInv, ParInv,
           uvm_suspend \/ uvm_resume \/ PmStep \/ Flush("pm")
             \/ (BhFlush /\ running = "pm")
    PROVE  /\ UNCHANGED <<parentVars, obj, enabled, handleVars, open>>
           /\ \A t \in Threads \ {"pm"} : pc'[t] = pc[t] /\ op'[t] = op[t]
           /\ pc["pm"] # "idle" \/ (table /\ pc["rem"] = "idle")
<1> USE Untyped DEF IsrInv, IsrType, pmFrame, Threads, queueVars
<1>1. CASE uvm_suspend
  BY <1>1 DEF uvm_suspend, Call
<1>2. CASE uvm_resume
  BY <1>2 DEF uvm_resume, At
<1>3. CASE SuspendIgnore \/ ResumeUnignore
  BY <1>3 DEF SuspendIgnore, ResumeUnignore, Call
<1>4. CASE SuspendIsr \/ ResumeIsr
  BY <1>4 DEF SuspendIsr, ResumeIsr, At
<1>5. CASE SuspendNext
  BY <1>5 DEF SuspendNext, At, Call
<1>6. CASE Flush("pm")
  BY <1>6 DEF Flush, At
<1>7. CASE BhFlush /\ running = "pm"
  BY <1>7 DEF BhFlush, FlushInv, Q!Finish
<1> QED
  BY <1>1, <1>2, <1>3, <1>4, <1>5, <1>6, <1>7 DEF PmStep

(* Every step keeps what a removal has done.                               *)
LEMMA RemInvStep == ASSUME IsrInv, ParInv, [IsrNext]_isrVars PROVE RemInv'
<1> USE GpuIsrActors, GpuIsrConstants, Untyped DEF Threads, parentVars, handleVars, callVars
<1>0. RemInv /\ Places /\ IsrType /\ FlushInv
  BY DEF ParInv, IsrInv
<1>1. CASE \/ \E h \in Handlers : Arrive(h)
           \/ TopLookup \/ TopStep \/ BhTake \/ find_first_valid_gpu \/ BhLock \/ BhService
           \/ BhUnlock \/ BhPut
           \/ UNCHANGED isrVars
  BY <1>0, <1>1, HandlersFrame DEF RemInv, IsrType
<1>2. CASE uvm_suspend \/ uvm_resume \/ PmStep \/ Flush("pm")
             \/ (BhFlush /\ running = "pm")
  BY <1>0, <1>2, PmFrame, ZenonT(60) DEF RemInv, IsrType
<1>3. CASE (BhFlush /\ running = "rem") \/ Flush("rem")
  <2>1. /\ \E l \in {"flushing", "flushed"} : pc' = [pc EXCEPT !["rem"] = l]
        /\ pc["rem"] \in {"flush_q", "flushing"}
        /\ UNCHANGED <<parentVars, obj, enabled, handleVars>>
    BY <1>0, <1>3 DEF BhFlush, Flush, At, FlushInv
  <2> QED
    BY <1>0, <2>1 DEF RemInv, IsrType
<1>4. ASSUME NEW t \in Threads, Work(t) PROVE RemInv'
  <2>1. /\ pc[t] = "down" /\ pc' = [pc EXCEPT ![t] = "unlock"]
        /\ UNCHANGED <<parentVars, obj, handling>>
    BY <1>4 DEF Work, At
  <2>2. \/ UNCHANGED <<handling_ref_count, enabled>>
        \/ /\ op[t] = "enable" /\ t \notin enabled
           /\ handling_ref_count' = handling_ref_count + 1 /\ enabled' = enabled \cup {t}
        \/ /\ op[t] = "disable" /\ t \in enabled
           /\ handling_ref_count' = handling_ref_count - 1 /\ enabled' = enabled \ {t}
        \/ /\ op[t] = "disable" /\ t \notin enabled
           /\ handling_ref_count' = handling_ref_count /\ enabled' = enabled
    BY <1>4, ZenonT(60) DEF Work, WorkFaults, WorkAccessFlush, WorkEnable, WorkDisable, WorkIgnore
  <2>3. op[t] \in {"enable", "disable"} => t \in Users
    BY <1>0, <2>1 DEF Places
  <2>4. IsFiniteSet(enabled)
    BY <1>0, FS_Subset DEF RemInv
  <2>5. enabled' \subseteq Users /\ handling_ref_count' = Cardinality(enabled')
    <3>1. enabled \subseteq Users /\ handling_ref_count = Cardinality(enabled)
      BY <1>0 DEF RemInv
    <3>2. /\ t \notin enabled => Cardinality(enabled \cup {t}) = Cardinality(enabled) + 1
          /\ t \in enabled => Cardinality(enabled \ {t}) = Cardinality(enabled) - 1
      BY <2>4, FS_AddElement, FS_RemoveElement, ZenonT(60)
    <3> QED
      BY <2>2, <2>3, <3>1, <3>2, ZenonT(60)
  <2>6. \A u \in Users : u \in enabled' \/ pc'[u] # "idle" => obj[u] # NONE
    BY <1>0, <2>1, <2>2 DEF RemInv, IsrType
  <2> QED
    BY <1>0, <2>1, <2>5, <2>6 DEF RemInv, IsrType
<1>5. ASSUME NEW t \in Threads, Unlock(t) PROVE RemInv'
  <2>1. /\ pc[t] = "unlock" /\ pc' = [pc EXCEPT ![t] = AfterUnlock(t)]
        /\ obj' = [obj EXCEPT ![t] = IF t \in Users \ enabled THEN NONE ELSE @]
        /\ UNCHANGED <<parentVars, handling, handling_ref_count, enabled>>
    BY <1>5 DEF Unlock, At
  <2>2. t \in Users => AfterUnlock(t) = "idle"
    BY DEF AfterUnlock
  <2>3. t \notin Users => AfterUnlock(t) \notin {"idle", "disable"}
    BY DEF AfterUnlock
  <2> QED
    BY <1>0, <2>1, <2>2, <2>3 DEF RemInv, IsrType
<1>6. ASSUME NEW u \in Users, UserCall(u) PROVE RemInv'
  <2>1. /\ pc[u] = "idle" /\ pc' = [pc EXCEPT ![u] = "down"]
        /\ \E p \in valid : obj' = [obj EXCEPT ![u] = p]
        /\ UNCHANGED <<parentVars, handleVars, enabled>>
    BY <1>6, ZenonT(60) DEF UserCall, Call
  <2> QED
    BY <1>0, <2>1 DEF RemInv, IsrType
<1>7. CASE remove_gpu
  <2>1. PICK p \in valid : /\ \A u \in Users : obj[u] # p
                           /\ valid' = valid \ {p}
                           /\ obj' = [obj EXCEPT !["rem"] = p]
    BY <1>7, ZenonT(60) DEF remove_gpu
  <2>2. /\ pc["rem"] = "idle" /\ pc["pm"] = "idle" /\ table' = (valid' # {})
        /\ pc' = [pc EXCEPT !["rem"] = IF table' THEN "flush_q" ELSE "disable"]
        /\ UNCHANGED <<gpus, handleVars, enabled>>
    BY <1>7 DEF remove_gpu, At, remFrame
  <2>3. /\ pc'["rem"] # "idle" /\ obj'["rem"] = p /\ pc'["pm"] = "idle"
        /\ \A u \in Users : pc'[u] = pc[u] /\ obj'[u] = obj[u]
        /\ obj' \in [Threads -> Partitions \cup {NONE}]
        /\ pc'["rem"] = "disable" <=> valid' = {}
    BY <1>0, <2>1, <2>2, ZenonT(60) DEF RemInv, IsrType
  <2>4. gpus = valid' \cup {p} /\ handling = Faults /\ p # NONE
    BY <1>0, <2>1, <2>2 DEF RemInv
  <2> QED
    BY <1>0, <2>1, <2>2, <2>3, <2>4 DEF RemInv
<1>8. CASE uvm_gpu_disable_isr
  <2>1. /\ pc["rem"] = "disable" /\ handling' = {}
        /\ pc' = [pc EXCEPT !["rem"] = "flush_q"]
        /\ UNCHANGED <<parentVars, obj, enabled, handling_ref_count>>
    BY <1>8 DEF uvm_gpu_disable_isr, At, remFrame
  <2> QED
    BY <1>0, <2>1 DEF RemInv, IsrType
<1>9. CASE deinit_gpu
  <2>1. /\ pc["rem"] = "free" /\ gpus' = gpus \ {obj["rem"]}
        /\ obj' = [obj EXCEPT !["rem"] = NONE] /\ pc' = [pc EXCEPT !["rem"] = "idle"]
        /\ UNCHANGED <<table, valid, handleVars, enabled>>
    BY <1>9 DEF deinit_gpu, At, remFrame
  <2> QED
    BY <1>0, <2>1 DEF RemInv, IsrType
<1>10. ASSUME NEW h \in Faults, sync_parent_gpu_trackers(h) PROVE RemInv'
  <2>1. /\ pc["rem"] \in {"flushed", "sync_non_replayable"}
        /\ pc' = [pc EXCEPT !["rem"] = "down"]
        /\ UNCHANGED <<parentVars, obj, handleVars, enabled>>
    BY <1>10 DEF sync_parent_gpu_trackers, Call, remFrame
  <2> QED
    BY <1>0, <2>1 DEF RemInv, IsrType
<1>11. BhFlush => running \in {"pm", "rem"}
  BY <1>0 DEF BhFlush, FlushInv
<1> QED
  BY <1>1, <1>2, <1>3, <1>4, <1>5, <1>6, <1>7, <1>8, <1>9, <1>10, <1>11
  DEF IsrNext, BhStep, Locked, RemStep

(* Whoever has nothing left to handle schedules nothing, and neither does  *)
(* a top half that finds the system suspended.                             *)
LEMMA TopQueue ==
    ASSUME IsrInv, ParInv, TopLookup \/ TopStep
    PROVE  /\ UNCHANGED <<running, open, bpc, bgpu, is_suspended, pc, valid>>
           /\ is_suspended \/ (valid = {} /\ pc["rem"] # "disable") => queue' = queue
           /\ is_suspended => tpc' \in {"idle", "replayable"}
<1> USE Untyped DEF pmVars, bhVars, callVars, parentVars, queueVars
<1>1. valid = {} /\ pc["rem"] # "disable" => \A h \in Handlers : ~Handles(h)
  <2>1. SUFFICES ASSUME valid = {}, pc["rem"] # "disable" PROVE \A h \in Handlers : ~Handles(h)
    OBVIOUS
  <2>2. enabled = {} /\ handling = {} /\ handling_ref_count = Cardinality(enabled)
    BY <2>1 DEF ParInv, RemInv
  <2>3. handling_ref_count = 0
    BY <2>2, FS_EmptySet
  <2> QED
    BY <2>2, <2>3 DEF Handles
<1>2. is_suspended => tpc \in {"idle", "replayable"}
  BY DEF ParInv, DrainInv
<1>3. CASE TopLookup
  BY <1>2, <1>3 DEF TopLookup
<1>4. CASE TopSuspended
  BY <1>4 DEF TopSuspended
<1>5. CASE schedule_replayable_faults_handler
  BY <1>1, <1>5 DEF schedule_replayable_faults_handler, TryLock, Handlers, Faults
<1>6. CASE schedule_non_replayable_faults_handler
  BY <1>1, <1>2, <1>6 DEF schedule_non_replayable_faults_handler, Handlers, Faults
<1>7. CASE schedule_access_counters_handler
  BY <1>1, <1>2, <1>7 DEF schedule_access_counters_handler, TryLock, Handlers, Faults
<1> QED
  BY <1>3, <1>4, <1>5, <1>6, <1>7 DEF TopStep

(* The item of a flush goes to the end of the queue,                       *)
LEMMA FlushLast ==
    ASSUME IsrInv, NEW t \in {"pm", "rem"}, Flush(t)
    PROVE  /\ Lasts(t)' /\ Queued(t)' /\ pc[t] = "flush_q"
           /\ queue' = Append(queue, t) /\ ~Queued(t)
<1>1. queue \in Seq(Handlers \cup {"pm", "rem"}) /\ pc[t] = "flush_q"
  BY DEF IsrInv, IsrType, Flush
<1>2. ~\E k \in 1..Len(queue) : queue[k] = t
  BY <1>1 DEF IsrInv, FlushInv
<1>3. queue' = Append(queue, t)
  BY <1>2 DEF Flush, Q!Scheduled, Q!Contains
<1>4. queue' # <<>> /\ queue'[Len(queue')] = t /\ Len(queue') \in 1..Len(queue')
  BY <1>1, <1>3
<1> QED
  BY <1>1, <1>2, <1>3, <1>4 DEF Lasts, Queued

(* and stays there while nobody adds another.                              *)
LEMMA TakeLast ==
    ASSUME IsrInv, Places, BhTake
    PROVE  /\ \A i : Lasts(i) => Lasts(i)'
           /\ ~Nothing
           /\ UNCHANGED <<parentVars, callVars, pmVars, open, tpc>>
<1>1. queue \in Seq(Handlers \cup {"pm", "rem"})
  BY DEF IsrInv, IsrType
<1>2. queue # <<>> /\ running' = Head(queue) /\ queue' = Tail(queue) /\ running = NONE
      /\ UNCHANGED <<parentVars, callVars, pmVars, open, tpc>>
  BY DEF BhTake, Q!Take, queueVars
<1>3. CASE Len(queue) = 1
  BY <1>1, <1>2, <1>3 DEF Lasts, Nothing
<1>4. CASE Len(queue) # 1
  <2>1. Len(queue) \in Nat /\ Len(queue) # 0
    BY <1>1, <1>2
  <2>2. /\ Len(queue') = Len(queue) - 1 /\ queue' \in Seq(Handlers \cup {"pm", "rem"})
        /\ \A k \in 1..Len(queue) - 1 : queue'[k] = queue[k + 1]
    BY <1>1, <1>2
  <2>3. queue'[Len(queue')] = queue[Len(queue)]
    BY <1>4, <2>1, <2>2
  <2>4. queue' # <<>>
    BY <1>4, <2>1, <2>2
  <2> QED
    BY <1>2, <2>3, <2>4 DEF Lasts, Nothing
<1> QED
  BY <1>3, <1>4

(* Every step leaves a flushed queue empty.                                *)
LEMMA DrainStep == ASSUME IsrInv, ParInv, [IsrNext]_isrVars PROVE DrainInv'
<1> USE GpuIsrActors, GpuIsrConstants, Untyped
    DEF Threads, parentVars, handleVars, callVars, pmVars, queueVars, bhVars
<1>0. DrainInv /\ RemInv /\ Places /\ IsrType /\ FlushInv /\ IsrInv /\ ParInv
  BY DEF ParInv, IsrInv
<1>1. ASSUME UNCHANGED <<queue, running>>
      PROVE  (Nothing' <=> Nothing) /\ \A i : Lasts(i)' <=> Lasts(i)
  BY <1>1 DEF Nothing, Lasts
<1>2. CASE TopLookup \/ TopStep
  <2>1. CASE is_suspended \/ (valid = {} /\ pc["rem"] # "disable")
    <3>1. (Nothing' <=> Nothing) /\ \A i : Lasts(i)' <=> Lasts(i)
      BY <1>0, <1>1, <1>2, <2>1, TopQueue
    <3>2. DrainInv
      BY <1>0
    <3> QED
      BY <1>0, <1>2, <3>1, <3>2, TopQueue DEF DrainInv
  <2>2. CASE ~is_suspended /\ (valid # {} \/ pc["rem"] = "disable")
    BY <1>0, <1>2, <2>2, TopQueue DEF DrainInv
  <2> QED
    BY <2>1, <2>2
<1>3. CASE BhTake
  <2>1. DrainInv /\ (\A i : Lasts(i) => Lasts(i)') /\ ~Nothing
    BY <1>0, <1>3, TakeLast
  <2>2. UNCHANGED <<valid, pc, open, is_suspended, tpc>>
    BY <1>0, <1>3, TakeLast
  <2> QED
    BY <2>1, <2>2 DEF DrainInv
<1>4. CASE BhPut
  <2>1. running \in Handlers /\ running' = NONE
        /\ UNCHANGED <<valid, pc, open, is_suspended, tpc, queue>>
    BY <1>0, <1>4 DEF BhPut, Q!Finish, Places, Item
  <2>2. ~Nothing /\ \A i \in {"pm", "rem"} : Lasts(i) => Lasts(i)'
    BY <2>1 DEF Nothing, Lasts, Handlers, Faults
  <2> QED
    BY <1>0, <2>1, <2>2 DEF DrainInv
<1>5. CASE BhFlush
  <2>1. /\ bpc = "flush" /\ pc' = [pc EXCEPT ![running] = "flushed"] /\ running' = NONE
        /\ UNCHANGED <<valid, open, is_suspended, tpc, queue>>
    BY <1>5 DEF BhFlush, Q!Finish
  <2>2. running \in {"pm", "rem"} /\ pc[running] = "flushing"
    BY <1>0, <2>1 DEF FlushInv
  <2>3. Lasts(running) => Nothing'
    <3>1. queue # <<>> => Len(queue) \in 1..Len(queue)
      BY <1>0 DEF IsrType
    <3> QED
      BY <1>0, <2>1, <2>2, <3>1 DEF Lasts, Nothing, FlushInv
  <2>4. CASE running = "pm"
    <3>1. valid # {} /\ Nothing' /\ is_suspended
      BY <1>0, <2>2, <2>3, <2>4 DEF RemInv, DrainInv
    <3> QED
      BY <1>0, <2>1, <2>4, <3>1 DEF DrainInv, IsrType
  <2>5. CASE running = "rem"
    <3>1. pc["pm"] = "idle" /\ (valid = {} => Nothing')
      BY <1>0, <2>2, <2>3, <2>5 DEF Places, DrainInv
    <3> QED
      BY <1>0, <2>1, <2>2, <2>5, <3>1 DEF DrainInv, IsrType
  <2> QED
    BY <2>2, <2>4, <2>5
<1>6. CASE Flush("pm")
  <2>1. /\ pc["pm"] = "flush_q" /\ pc' = [pc EXCEPT !["pm"] = "flushing"]
        /\ UNCHANGED <<valid, open, is_suspended, tpc, running>>
    BY <1>6 DEF Flush, At
  <2>2. valid # {} /\ is_suspended
    BY <1>0, <2>1 DEF RemInv, DrainInv
  <2>3. Lasts("pm")'
    BY <1>0, <1>6, FlushLast
  <2> QED
    BY <1>0, <2>1, <2>2, <2>3 DEF DrainInv, IsrType
<1>7. CASE Flush("rem")
  <2>1. /\ pc["rem"] = "flush_q" /\ pc' = [pc EXCEPT !["rem"] = "flushing"]
        /\ UNCHANGED <<valid, open, is_suspended, tpc, running>>
    BY <1>7 DEF Flush, At
  <2>2. pc["pm"] = "idle"
    BY <1>0, <2>1 DEF Places
  <2>3. Lasts("rem")'
    BY <1>0, <1>7, FlushLast
  <2> QED
    BY <1>0, <2>1, <2>2, <2>3 DEF DrainInv, IsrType
<1>8. ASSUME UNCHANGED <<queue, running, tpc, valid, open>>,
             \/ UNCHANGED <<is_suspended, pc>>
             \/ \E t \in Threads \ {"pm"},
                   l \in {"idle", "down", "unlock", "sync_non_replayable", "free", "flush_q"} :
                   /\ pc' = [pc EXCEPT ![t] = l] /\ UNCHANGED is_suspended
                   /\ l # "flush_q" => pc[t] \notin {"disable", "flush_q", "flushing"}
                   /\ l = "flush_q" => t = "rem" /\ pc[t] = "disable"
      PROVE  DrainInv'
  <2>1. DrainInv /\ (Nothing' <=> Nothing) /\ \A i : Lasts(i)' <=> Lasts(i)
    BY <1>0, <1>1, <1>8
  <2> QED
    BY <1>0, <1>8, <2>1 DEF DrainInv, IsrType
<1>9. CASE \/ \E h \in Handlers : Arrive(h)
           \/ find_first_valid_gpu \/ BhLock \/ BhService \/ BhUnlock \/ UNCHANGED isrVars
  <2>1. UNCHANGED <<queue, running, tpc, valid, open, is_suspended, pc>>
    BY <1>9 DEF Arrive, find_first_valid_gpu, BhLock, BhService, BhUnlock, isrVars
  <2> QED
    BY <1>8, <2>1
<1>10. ASSUME NEW t \in Threads, Work(t) PROVE DrainInv'
  <2>1. /\ pc[t] = "down" /\ pc' = [pc EXCEPT ![t] = "unlock"]
        /\ UNCHANGED <<queue, running, tpc, valid, open, is_suspended>>
    BY <1>10 DEF Work, At
  <2>2. CASE t # "pm"
    BY <1>8, <2>1, <2>2, ZenonT(60)
  <2>3. CASE t = "pm"
    BY <1>0, <2>1, <2>3 DEF DrainInv, IsrType, RemInv
  <2> QED
    BY <2>2, <2>3
<1>11. ASSUME NEW t \in Threads, Unlock(t) PROVE DrainInv'
  <2>1. /\ pc[t] = "unlock" /\ pc' = [pc EXCEPT ![t] = AfterUnlock(t)]
        /\ UNCHANGED <<queue, running, tpc, valid, open, is_suspended>>
    BY <1>11 DEF Unlock, At
  <2>2. CASE t \in Users
    BY <1>8, <2>1, <2>2, ZenonT(60) DEF AfterUnlock
  <2>3. CASE t = "rem"
    <3>1. AfterUnlock(t) \in {"sync_non_replayable", "free"}
      BY <1>0, <2>1, <2>3 DEF AfterUnlock, Places
    <3> QED
      BY <1>8, <2>1, <2>3, <3>1, ZenonT(60)
  <2>4. CASE t = "pm"
    <3>1. AfterUnlock(t) \in {"ignore", "suspend", "resume"}
      BY <1>0, <2>1, <2>4 DEF AfterUnlock, Places
    <3> QED
      BY <1>0, <2>1, <2>4, <3>1 DEF DrainInv, IsrType, RemInv
  <2> QED
    BY <2>2, <2>3, <2>4
<1>12. ASSUME NEW u \in Users, UserCall(u) PROVE DrainInv'
  <2>1. /\ pc[u] = "idle" /\ pc' = [pc EXCEPT ![u] = "down"]
        /\ UNCHANGED <<queue, running, tpc, valid, open, is_suspended>>
    BY <1>12, ZenonT(60) DEF UserCall, Call, parentVars, queueVars, pmVars
  <2> QED
    BY <1>8, <2>1, ZenonT(60)
<1>13. CASE remove_gpu
  <2>1. /\ valid # {} /\ pc["pm"] = "idle" /\ pc["rem"] = "idle"
        /\ pc' = [pc EXCEPT !["rem"] = IF valid' # {} THEN "flush_q" ELSE "disable"]
        /\ UNCHANGED <<queue, running, tpc, open, is_suspended>>
    BY <1>13, ZenonT(60) DEF remove_gpu, At, remFrame
  <2> QED
    BY <1>0, <2>1 DEF DrainInv, IsrType
<1>14. CASE uvm_gpu_disable_isr
  <2>1. /\ pc["rem"] = "disable" /\ pc' = [pc EXCEPT !["rem"] = "flush_q"]
        /\ UNCHANGED <<queue, running, tpc, valid, open, is_suspended>>
    BY <1>14 DEF uvm_gpu_disable_isr, At, remFrame
  <2> QED
    BY <1>8, <2>1, ZenonT(60)
<1>15. CASE deinit_gpu
  <2>1. /\ pc["rem"] = "free" /\ pc' = [pc EXCEPT !["rem"] = "idle"]
        /\ UNCHANGED <<queue, running, tpc, valid, open, is_suspended>>
    BY <1>15 DEF deinit_gpu, At, remFrame
  <2> QED
    BY <1>8, <2>1, ZenonT(60)
<1>16. ASSUME NEW h \in Faults, sync_parent_gpu_trackers(h) PROVE DrainInv'
  <2>0. pc["rem"] \in {"flushed", "sync_non_replayable"}
    BY <1>16 DEF sync_parent_gpu_trackers
  <2>1. /\ pc' = [pc EXCEPT !["rem"] = "down"] /\ open' = table
        /\ UNCHANGED <<queue, running, tpc, valid, is_suspended>>
    BY <1>16, ZenonT(60) DEF sync_parent_gpu_trackers, Call, remFrame
  <2>2. table = (valid # {})
    BY <1>0 DEF RemInv
  <2>3. (Nothing' <=> Nothing) /\ \A i : Lasts(i)' <=> Lasts(i)
    BY <1>1, <2>1
  <2> QED
    BY <1>0, <2>0, <2>1, <2>2, <2>3 DEF DrainInv, IsrType
<1>17. CASE uvm_suspend \/ uvm_resume \/ PmStep
  <2>1. UNCHANGED <<queue, running, tpc, valid, open>>
    BY <1>17 DEF uvm_suspend, uvm_resume, PmStep, SuspendIgnore, SuspendIsr, SuspendNext,
                 ResumeIsr, ResumeUnignore, pmFrame
  <2>2. (Nothing' <=> Nothing) /\ \A i : Lasts(i)' <=> Lasts(i)
    BY <1>1, <2>1
  <2>3. \/ /\ pc' = [pc EXCEPT !["pm"] = "down"] /\ UNCHANGED is_suspended
        \/ /\ is_suspended' = TRUE /\ InterruptsLockFree
           /\ pc' = [pc EXCEPT !["pm"] = "flush_q"]
        \/ /\ pc["pm"] = "flushed" /\ UNCHANGED is_suspended
           /\ pc' = [pc EXCEPT !["pm"] = "asleep"]
        \/ pc' = [pc EXCEPT !["pm"] = "resume"] /\ UNCHANGED is_suspended
        \/ /\ is_suspended' = FALSE
           /\ pc' = [pc EXCEPT !["pm"] = IF left = {} THEN "idle" ELSE "unignore"]
    <3>1. CASE uvm_suspend \/ SuspendIgnore \/ ResumeUnignore
      BY <3>1 DEF uvm_suspend, SuspendIgnore, ResumeUnignore, Call
    <3>2. CASE uvm_resume \/ SuspendIsr \/ ResumeIsr
      BY <3>2 DEF uvm_resume, SuspendIsr, ResumeIsr, At
    <3>3. CASE SuspendNext
      BY <3>3 DEF SuspendNext, Call, At
    <3> QED
      BY <1>17, <3>1, <3>2, <3>3, ZenonT(60) DEF PmStep
  <2>4. pc["rem"] = pc'["rem"] /\ \A l : pc' = [pc EXCEPT !["pm"] = l] => pc'["pm"] = l
    BY <1>0, <2>3 DEF IsrType
  <2> QED
    BY <1>0, <2>1, <2>2, <2>3, <2>4 DEF DrainInv, InterruptsLockFree
<1> QED
  BY <1>2, <1>3, <1>4, <1>5, <1>6, <1>7, <1>9, <1>10, <1>11, <1>12, <1>13, <1>14, <1>15, <1>16,
     <1>17 DEF IsrNext, BhStep, Locked, RemStep

(* The first of the valid partitions is one of them.                       *)
LEMMA FirstIsValid == \A S \in SUBSET Partitions : S # {} => Min(S) \in S
<1> SUFFICES ASSUME NEW S \in SUBSET Partitions, S # {} PROVE Min(S) \in S
  OBVIOUS
<1>1. S \subseteq Nat
  BY GpuIsrConstants
<1>2. PICK x \in S : \A y \in S : ~(<<y, x>> \in OpToRel(<, Nat))
  BY <1>1, WFMin, NatLessThanWellFounded, ZenonT(60)
<1>3. \A y \in S : <<y, x>> \in OpToRel(<, Nat) <=> y < x
  BY <1>1, ZenonT(60) DEF OpToRel
<1>4. \A y \in S : ~(y < x)
  BY <1>2, <1>3, ZenonT(60)
<1>5. \A y \in S : x <= y
  BY <1>1, <1>4
<1> QED
  BY <1>5 DEF Min

(* The top half takes nothing from the queue.                              *)
LEMMA TopAdds == ASSUME IsrInv, TopLookup \/ TopStep, NEW i, Queued(i) PROVE Queued(i)'
<1>1. queue \in Seq(Handlers \cup {"pm", "rem"})
  BY DEF IsrInv, IsrType
<1>2. queue' = queue \/ \E h \in Handlers : queue' = Append(queue, h)
  BY ZenonT(60) DEF TopLookup, TopStep, TopSuspended, schedule_replayable_faults_handler,
     schedule_non_replayable_faults_handler, schedule_access_counters_handler, Start,
     Q!Scheduled, queueVars, Handlers, Faults
<1>3. CASE queue' = queue
  BY <1>3 DEF Queued
<1>4. ASSUME NEW h \in Handlers, queue' = Append(queue, h) PROVE Queued(i)'
  <2>1. Len(queue) \in Nat /\ Len(queue') = Len(queue) + 1
        /\ \A k \in 1..Len(queue) : queue'[k] = queue[k]
    BY <1>1, <1>4
  <2> QED
    BY <2>1 DEF Queued
<1> QED
  BY <1>2, <1>3, <1>4

(* Every step leaves the bottom half a partition that is not freed.        *)
LEMMA GpuStep == ASSUME IsrInv, ParInv, [IsrNext]_isrVars PROVE GpuInv'
<1> USE GpuIsrActors, GpuIsrConstants, Untyped
    DEF Threads, parentVars, callVars, queueVars, bhVars
<1>0. GpuInv /\ RemInv /\ Places /\ IsrType /\ IsrInv /\ ParInv
  BY DEF ParInv, IsrInv
<1>1. ASSUME UNCHANGED <<bgpu, bpc, valid, queue>>,
             pc'["rem"] = pc["rem"], obj'["rem"] = obj["rem"]
      PROVE  GpuInv'
  BY <1>0, <1>1 DEF GpuInv, Queued
<1>2. CASE TopLookup \/ TopStep
  <2>1. UNCHANGED <<bgpu, bpc, valid, pc, obj>>
    BY <1>0, <1>2, HandlersFrame, TopQueue
  <2>2. Queued("rem") => Queued("rem")'
    BY <1>0, <1>2, TopAdds
  <2> QED
    BY <1>0, <2>1, <2>2 DEF GpuInv
<1>3. CASE BhTake \/ BhPut \/ BhFlush
  <2>1. bpc \notin {"lock", "service", "unlock"} /\ bgpu' = bgpu
    BY <1>3 DEF BhTake, BhPut, BhFlush
  <2> QED
    BY <1>0, <2>1 DEF GpuInv
<1>4. CASE find_first_valid_gpu
  <2>1. CASE valid = {}
    BY <1>0, <1>4, <2>1 DEF find_first_valid_gpu, GpuInv
  <2>2. CASE valid # {}
    <3>1. bgpu' = Min(valid) /\ bpc' \in {"lock", "service"} /\ valid' = valid
      BY <1>4, <2>2 DEF find_first_valid_gpu
    <3>2. Min(valid) \in valid
      BY <1>0, <2>2, FirstIsValid DEF RemInv
    <3> QED
      BY <3>1, <3>2 DEF GpuInv
  <2> QED
    BY <2>1, <2>2
<1>5. CASE BhLock \/ BhService
  <2>1. UNCHANGED <<bgpu, valid, queue, pc, obj>> /\ bpc' \in {"lock", "service", "unlock"}
    BY <1>5 DEF BhLock, BhService
  <2> QED
    BY <1>0, <2>1 DEF GpuInv, Queued
<1>6. CASE BhUnlock
  BY <1>6 DEF BhUnlock, GpuInv
<1>7. ASSUME NEW t \in Threads, Work(t) \/ Unlock(t) PROVE GpuInv'
  <2>1. /\ pc[t] \in {"down", "unlock"} /\ \A r \in Threads \ {t} : pc'[r] = pc[r]
        /\ UNCHANGED <<bgpu, bpc, valid, queue>>
    BY <1>0, <1>7 DEF Work, Unlock, At, IsrType
  <2>2. obj'["rem"] = obj["rem"]
    BY <1>0, <1>7 DEF Work, Unlock, RemInv
  <2> QED
    BY <1>0, <2>1, <2>2 DEF GpuInv, Queued
<1>8. CASE (\E h \in Handlers : Arrive(h)) \/ UNCHANGED isrVars
  <2>1. UNCHANGED <<bgpu, bpc, valid, queue, pc, obj>>
    BY <1>8 DEF Arrive, isrVars
  <2> QED
    BY <1>1, <2>1
<1>15. ASSUME NEW u \in Users, UserCall(u) PROVE GpuInv'
  <2>1. UNCHANGED <<bgpu, bpc, valid, queue>>
        /\ pc'["rem"] = pc["rem"] /\ obj'["rem"] = obj["rem"]
    BY <1>0, <1>15 DEF UserCall, Call, RemInv, IsrType
  <2> QED
    BY <1>1, <2>1
<1>9. CASE uvm_suspend \/ uvm_resume \/ PmStep
  <2>1. pc'["rem"] = pc["rem"] /\ UNCHANGED <<valid, obj>>
    BY <1>0, <1>9, PmFrame
  <2>2. UNCHANGED <<bgpu, bpc, queue>>
    BY <1>9 DEF uvm_suspend, uvm_resume, PmStep, SuspendIgnore, SuspendIsr, SuspendNext,
                ResumeIsr, ResumeUnignore, pmFrame
  <2> QED
    BY <1>1, <2>1, <2>2
<1>10. CASE Flush("pm")
  <2>1. pc["pm"] = "flush_q" /\ UNCHANGED <<bgpu, bpc, valid>>
    BY <1>10 DEF Flush
  <2>2. pc["rem"] = "idle"
    BY <1>0, <2>1 DEF Places
  <2> QED
    BY <1>0, <2>1, <2>2 DEF GpuInv
<1>11. CASE Flush("rem")
  <2>1. /\ pc["rem"] = "flush_q" /\ pc'["rem"] = "flushing"
        /\ UNCHANGED <<bgpu, bpc, valid, obj>>
    BY <1>0, <1>11 DEF Flush, At, IsrType
  <2>2. Queued("rem")'
    BY <1>0, <1>11, FlushLast
  <2> QED
    BY <1>0, <2>1, <2>2 DEF GpuInv
<1>12. CASE remove_gpu
  <2>1. PICK p \in valid : valid' = valid \ {p} /\ obj' = [obj EXCEPT !["rem"] = p]
    BY <1>12, ZenonT(60) DEF remove_gpu
  <2>2. /\ pc["rem"] = "idle" /\ pc'["rem"] \in {"flush_q", "disable"}
        /\ UNCHANGED <<bgpu, bpc>>
    BY <1>0, <1>12 DEF remove_gpu, At, IsrType, remFrame
  <2>3. obj'["rem"] = p
    BY <1>0, <2>1 DEF RemInv
  <2> QED
    BY <1>0, <2>1, <2>2, <2>3 DEF GpuInv
<1>13. CASE uvm_gpu_disable_isr
  <2>1. /\ pc["rem"] = "disable" /\ pc'["rem"] = "flush_q"
        /\ UNCHANGED <<bgpu, bpc, valid, obj>>
    BY <1>0, <1>13 DEF uvm_gpu_disable_isr, At, IsrType, remFrame
  <2> QED
    BY <1>0, <2>1 DEF GpuInv
<1>14. CASE deinit_gpu \/ \E h \in Faults : sync_parent_gpu_trackers(h)
  <2>1. pc["rem"] \notin {"disable", "flush_q", "flushing"}
    BY <1>14 DEF deinit_gpu, sync_parent_gpu_trackers
  <2>2. UNCHANGED <<bgpu, bpc, valid>>
    BY <1>14, ZenonT(60) DEF deinit_gpu, sync_parent_gpu_trackers, remFrame, bhVars, parentVars
  <2> QED
    BY <1>0, <2>1, <2>2 DEF GpuInv
<1> QED
  BY <1>2, <1>3, <1>4, <1>5, <1>6, <1>7, <1>8, <1>9, <1>10, <1>11, <1>12, <1>13,
     <1>14, <1>15, ZenonT(60)
  DEF IsrNext, BhStep, Locked, RemStep

(* Every step keeps how many times the notifications are ignored.          *)
LEMMA IgnoringStep == ASSUME IsrInv, ParInv, [IsrNext]_isrVars PROVE Ignoring'
<1> USE GpuIsrActors, GpuIsrConstants, Untyped DEF Threads, parentVars, callVars, pmVars
<1>0. Ignoring /\ RemInv /\ Places /\ IsrType /\ FlushInv /\ IsrInv /\ ParInv
  BY DEF ParInv, IsrInv
<1>1. ASSUME UNCHANGED <<left, valid, notifications_ignored_count>>,
             pc'["pm"] = pc["pm"], op'["pm"] = op["pm"]
      PROVE  Ignoring'
  BY <1>0, <1>1 DEF Ignoring
<1>2. /\ IsFiniteSet(valid) /\ IsFiniteSet(left)
      /\ Cardinality(valid) \in Nat /\ Cardinality(left) \in Nat
  BY <1>0, FS_Subset, FS_CardinalityType, ZenonT(60) DEF RemInv, Ignoring
<1>3. CASE \/ \E h \in Handlers : Arrive(h)
           \/ TopLookup \/ TopStep \/ BhTake \/ find_first_valid_gpu \/ BhLock \/ BhService
           \/ BhUnlock \/ BhPut
           \/ UNCHANGED isrVars
  BY <1>1, <1>3, HandlersFrame
<1>4. CASE BhFlush
  <2>1. /\ bpc = "flush" /\ pc' = [pc EXCEPT ![running] = "flushed"]
        /\ UNCHANGED <<left, valid, notifications_ignored_count, op>>
    BY <1>4 DEF BhFlush
  <2>2. running \in {"pm", "rem"} /\ pc[running] = "flushing"
    BY <1>0, <2>1 DEF FlushInv
  <2> QED
    BY <1>0, <2>1, <2>2 DEF Ignoring, IsrType
<1>5. ASSUME NEW t \in Threads, Work(t) PROVE Ignoring'
  <2>1. /\ pc[t] = "down" /\ pc' = [pc EXCEPT ![t] = "unlock"]
        /\ UNCHANGED <<left, valid, op>>
    BY <1>5 DEF Work, At
  <2>2. CASE t # "pm"
    <3>1. op[t] \notin {"ignore", "unignore"}
      BY <1>0, <2>1, <2>2 DEF Places
    <3>2. UNCHANGED notifications_ignored_count
      BY <1>5, <3>1 DEF Work, WorkFaults, WorkAccessFlush, WorkEnable, WorkDisable, WorkIgnore
    <3> QED
      BY <1>0, <1>1, <2>1, <2>2, <3>2 DEF IsrType
  <2>3. CASE t = "pm"
    <3>1. op["pm"] \in {"flush", "ignore", "unignore"}
      BY <1>0, <2>1, <2>3 DEF Places
    <3>2. /\ op["pm"] = "flush" => UNCHANGED notifications_ignored_count
          /\ op["pm"] = "ignore" =>
                notifications_ignored_count' = notifications_ignored_count + 1
          /\ op["pm"] = "unignore" =>
                notifications_ignored_count' = notifications_ignored_count - 1
      BY <1>5, <2>3, <3>1 DEF Work, WorkFaults, WorkAccessFlush, WorkEnable, WorkDisable,
                              WorkIgnore
    <3>3. pc'["pm"] = "unlock" /\ notifications_ignored_count \in Int
      BY <1>0, <2>1, <2>3 DEF IsrType
    <3> QED
      BY <1>0, <1>2, <2>1, <2>3, <3>1, <3>2, <3>3 DEF Ignoring
  <2> QED
    BY <2>2, <2>3
<1>6. ASSUME NEW t \in Threads, Unlock(t) PROVE Ignoring'
  <2>1. /\ pc[t] = "unlock" /\ pc' = [pc EXCEPT ![t] = AfterUnlock(t)]
        /\ op' = [op EXCEPT ![t] = "none"]
        /\ UNCHANGED <<left, valid, notifications_ignored_count>>
    BY <1>6 DEF Unlock, At
  <2>2. CASE t # "pm"
    BY <1>0, <1>1, <2>1, <2>2 DEF IsrType
  <2>3. CASE t = "pm"
    <3>1. op["pm"] \in {"flush", "ignore", "unignore"} /\ "pm" \notin Users
      BY <1>0, <2>1, <2>3 DEF Places
    <3>2. pc'["pm"] = IF op["pm"] = "flush" THEN "ignore"
                      ELSE IF op["pm"] = "ignore" THEN "suspend" ELSE "resume"
      BY <1>0, <2>1, <2>3, <3>1 DEF AfterUnlock, IsrType
    <3> QED
      BY <1>0, <2>1, <2>3, <3>1, <3>2 DEF Ignoring
  <2> QED
    BY <2>2, <2>3
<1>7. ASSUME NEW u \in Users, UserCall(u) PROVE Ignoring'
  <2>1. /\ \E o : op' = [op EXCEPT ![u] = o]
        /\ pc' = [pc EXCEPT ![u] = "down"]
        /\ UNCHANGED <<left, valid, notifications_ignored_count>>
    BY <1>7, ZenonT(60) DEF UserCall, Call, parentVars, pmVars
  <2> QED
    BY <1>0, <1>1, <2>1 DEF IsrType
<1>8. CASE uvm_suspend
  <2>1. /\ left' = valid /\ table /\ pc["pm"] = "idle"
        /\ op' = [op EXCEPT !["pm"] = "flush"] /\ pc' = [pc EXCEPT !["pm"] = "down"]
        /\ UNCHANGED <<valid, notifications_ignored_count>>
    BY <1>8 DEF uvm_suspend, Call, pmFrame
  <2>2. pc'["pm"] = "down" /\ op'["pm"] = "flush" /\ valid # {}
    BY <1>0, <2>1, ZenonT(60) DEF IsrType, RemInv
  <2> QED
    BY <1>0, <1>2, <2>1, <2>2 DEF Ignoring
<1>9. CASE SuspendIgnore \/ ResumeUnignore
  <2>1. /\ \/ pc["pm"] = "ignore" /\ op' = [op EXCEPT !["pm"] = "ignore"]
           \/ pc["pm"] = "unignore" /\ op' = [op EXCEPT !["pm"] = "unignore"]
        /\ pc' = [pc EXCEPT !["pm"] = "down"]
        /\ UNCHANGED <<left, valid, notifications_ignored_count>>
    BY <1>9 DEF SuspendIgnore, ResumeUnignore, Call, pmFrame
  <2>2. pc'["pm"] = "down" /\ op'["pm"] = pc["pm"]
    BY <1>0, <2>1 DEF IsrType
  <2> QED
    BY <1>0, <2>1, <2>2 DEF Ignoring
<1>10. CASE SuspendIsr \/ Flush("pm")
  <2>1. /\ pc["pm"] \in {"suspend", "flush_q"}
        /\ \E l \in {"flush_q", "flushing"} : pc' = [pc EXCEPT !["pm"] = l]
        /\ UNCHANGED <<left, valid, notifications_ignored_count, op>>
    BY <1>10 DEF SuspendIsr, Flush, At, pmFrame
  <2>2. pc'["pm"] \in {"flush_q", "flushing"}
    BY <1>0, <2>1 DEF IsrType
  <2> QED
    BY <1>0, <2>1, <2>2 DEF Ignoring
<1>11. left # {} => Cardinality(left \ {Min(left)}) = Cardinality(left) - 1
  <2>1. left # {} => Min(left) \in left
    BY <1>0, FirstIsValid DEF RemInv, Ignoring
  <2> QED
    BY <1>2, <2>1, FS_RemoveElement, ZenonT(60)
<1>12. CASE SuspendNext
  <2>1. /\ pc["pm"] = "flushed" /\ left' = left \ {Min(left)}
        /\ UNCHANGED <<valid, notifications_ignored_count>>
    BY <1>12 DEF SuspendNext, pmFrame
  <2>2. /\ left' = {} => pc'["pm"] = "asleep"
        /\ left' # {} => pc'["pm"] = "down" /\ op'["pm"] = "flush"
    BY <1>0, <1>12 DEF SuspendNext, At, Call, IsrType
  <2>3. /\ notifications_ignored_count = Cardinality(valid) - Cardinality(left')
        /\ left' \subseteq valid /\ (left' = {} => Cardinality(left') = 0)
    BY <1>0, <1>2, <1>11, <2>1, FS_EmptySet DEF Ignoring
  <2> QED
    BY <1>2, <2>1, <2>2, <2>3 DEF Ignoring
<1>13. CASE uvm_resume
  <2>1. /\ pc["pm"] = "asleep" /\ left' = valid /\ pc' = [pc EXCEPT !["pm"] = "resume"]
        /\ UNCHANGED <<valid, notifications_ignored_count>>
    BY <1>13 DEF uvm_resume, At, pmFrame
  <2> QED
    BY <1>0, <2>1 DEF Ignoring, IsrType
<1>14. CASE ResumeIsr
  <2>1. /\ pc["pm"] = "resume" /\ left' = IF left = {} THEN {} ELSE left \ {Min(left)}
        /\ pc' = [pc EXCEPT !["pm"] = IF left = {} THEN "idle" ELSE "unignore"]
        /\ UNCHANGED <<valid, notifications_ignored_count>>
    BY <1>14 DEF ResumeIsr, At, pmFrame
  <2>2. notifications_ignored_count = Cardinality(left) /\ left \subseteq valid
    BY <1>0, <2>1 DEF Ignoring
  <2>3. CASE left = {}
    <3>1. pc'["pm"] = "idle" /\ left' = {} /\ notifications_ignored_count' = 0
      BY <1>0, <2>1, <2>2, <2>3, FS_EmptySet DEF IsrType
    <3> QED
      BY <3>1 DEF Ignoring
  <2>4. CASE left # {}
    <3>1. pc'["pm"] = "unignore" /\ left' \subseteq valid'
          /\ notifications_ignored_count' = Cardinality(left') + 1
      BY <1>0, <1>2, <1>11, <2>1, <2>2, <2>4 DEF IsrType
    <3> QED
      BY <3>1 DEF Ignoring
  <2> QED
    BY <2>3, <2>4
<1>15. CASE remove_gpu
  <2>1. /\ pc["pm"] = "idle" /\ pc'["pm"] = "idle"
        /\ UNCHANGED <<left, notifications_ignored_count>>
    BY <1>0, <1>15 DEF remove_gpu, At, remFrame, IsrType
  <2> QED
    BY <1>0, <2>1 DEF Ignoring
<1>16. CASE RemStep \/ Flush("rem")
  <2>1. /\ pc'["pm"] = pc["pm"] /\ op'["pm"] = op["pm"]
        /\ UNCHANGED <<left, valid, notifications_ignored_count>>
    <3>1. CASE uvm_gpu_disable_isr \/ deinit_gpu \/ Flush("rem")
      BY <1>0, <3>1 DEF uvm_gpu_disable_isr, deinit_gpu, Flush, At, remFrame, IsrType
    <3>2. ASSUME NEW h \in Faults, sync_parent_gpu_trackers(h)
          PROVE  /\ pc'["pm"] = pc["pm"] /\ op'["pm"] = op["pm"]
                 /\ UNCHANGED <<left, valid, notifications_ignored_count>>
      <4>1. /\ pc' = [pc EXCEPT !["rem"] = "down"] /\ op' = [op EXCEPT !["rem"] = "sync"]
            /\ UNCHANGED <<left, valid, notifications_ignored_count>>
        BY <3>2, ZenonT(60) DEF sync_parent_gpu_trackers, Call, remFrame, parentVars, pmVars
      <4> QED
        BY <1>0, <4>1 DEF IsrType
    <3> QED
      BY <1>16, <3>1, <3>2 DEF RemStep
  <2> QED
    BY <1>1, <2>1
<1> QED
  BY <1>3, <1>4, <1>5, <1>6, <1>7, <1>8, <1>9, <1>10, <1>12, <1>13, <1>14, <1>15, <1>16, ZenonT(60)
  DEF IsrNext, BhStep, Locked, PmStep

-----------------------------------------------------------------------------
(* The references to the parent GPU *)

(* A bit is a number.                                                      *)
LEMMA BitType == \A b : Bit(b) \in {0, 1}
  BY DEF Bit

(* There are finitely many bottom halves.                                  *)
LEMMA HandlersFinite ==
    \A S \in SUBSET Handlers : IsFiniteSet(S) /\ Cardinality(S) \in Nat
<1>1. IsFiniteSet({}) /\ IsFiniteSet({} \cup {"replayable"})
  BY FS_EmptySet, FS_AddElement
<1>2. IsFiniteSet(({} \cup {"replayable"}) \cup {"non_replayable"})
  BY <1>1, FS_AddElement
<1>3. IsFiniteSet((({} \cup {"replayable"}) \cup {"non_replayable"}) \cup {"access_counters"})
  BY <1>2, FS_AddElement
<1>4. Handlers = (({} \cup {"replayable"}) \cup {"non_replayable"}) \cup {"access_counters"}
  BY DEF Handlers, Faults
<1>5. IsFiniteSet(Handlers)
  BY <1>3, <1>4
<1> QED
  BY <1>5, FS_Subset, FS_CardinalityType

(* Finitely many wait.                                                     *)
LEMMA WaitingFinite == IsFiniteSet(Waiting) /\ Cardinality(Waiting) \in Nat
  BY HandlersFinite DEF Waiting

(* The two ways of counting agree.                                         *)
LEMMA KrefSame == KrefExact <=> KrefOf
<1>1. Cardinality({running} \cap Handlers) = Bit(running \in Handlers)
  <2>1. CASE running \in Handlers
    <3>1. {running} \cap Handlers = {running}
      BY <2>1
    <3>2. Cardinality({running}) = 1
      BY FS_Singleton
    <3> QED
      BY <2>1, <3>1, <3>2 DEF Bit
  <2>2. CASE running \notin Handlers
    <3>1. {running} \cap Handlers = {}
      BY <2>2
    <3> QED
      BY <2>2, <3>1, FS_EmptySet DEF Bit
  <2> QED
    BY <2>1, <2>2
<1> QED
  BY <1>1 DEF KrefExact, KrefOf, Waiting, Bit

(* Scheduling a bottom half that does not wait is one more.                *)
LEMMA WaitingMore ==
    ASSUME IsrType, NEW h \in Handlers, ~Q!Contains(queue, h), queue' = Append(queue, h)
    PROVE  Cardinality(Waiting') = Cardinality(Waiting) + 1
<1>1. Len(queue) \in Nat /\ Len(queue') = Len(queue) + 1 /\ queue'[Len(queue) + 1] = h
      /\ \A k \in 1..Len(queue) : queue'[k] = queue[k]
  BY DEF IsrType
<1>2. \A i : Q!Contains(queue', i) <=> Q!Contains(queue, i) \/ i = h
  BY <1>1 DEF Q!Contains
<1>3. Waiting' = Waiting \cup {h} /\ h \notin Waiting
  BY <1>2 DEF Waiting
<1> QED
  BY <1>3, WaitingFinite, FS_AddElement, ZenonT(60)

(* The item of a flush has no reference.                                   *)
LEMMA WaitingAsMany ==
    ASSUME IsrType, NEW t \in {"pm", "rem"}, queue' = Append(queue, t)
    PROVE  Waiting' = Waiting
<1>1. Len(queue) \in Nat /\ Len(queue') = Len(queue) + 1 /\ queue'[Len(queue) + 1] = t
      /\ \A k \in 1..Len(queue) : queue'[k] = queue[k]
  BY DEF IsrType
<1>2. \A i : Q!Contains(queue', i) <=> Q!Contains(queue, i) \/ i = t
  BY <1>1 DEF Q!Contains
<1> QED
  BY <1>2 DEF Waiting, Handlers, Faults

(* A bottom half that is taken from the queue takes its reference along.   *)
LEMMA WaitingLess ==
    ASSUME IsrInv, queue # <<>>, queue' = Tail(queue)
    PROVE  Cardinality(Waiting) = Cardinality(Waiting') + Bit(Head(queue) \in Handlers)
<1>1. queue \in Seq(Handlers \cup {"pm", "rem"})
      /\ \A i, j \in 1..Len(queue) : queue[i] = queue[j] => i = j
  BY DEF IsrInv, IsrType, FlushInv
<1>2. Len(queue) \in Nat /\ Len(queue) # 0 /\ Head(queue) = queue[1]
  BY <1>1
<1>3. Len(queue') = Len(queue) - 1 /\ \A k \in 1..Len(queue) - 1 : queue'[k] = queue[k + 1]
  BY <1>1
<1>4. \A i : Q!Contains(queue, i) <=> Q!Contains(queue', i) \/ i = Head(queue)
  <2>1. TAKE i
  <2>2. ASSUME NEW k \in 1..Len(queue), queue[k] = i, k # 1 PROVE Q!Contains(queue', i)
    <3>1. k - 1 \in 1..Len(queue') /\ queue'[k - 1] = i
      BY <1>2, <1>3, <2>2
    <3> QED
      BY <3>1 DEF Q!Contains
  <2>3. ASSUME NEW k \in 1..Len(queue'), queue'[k] = i PROVE Q!Contains(queue, i)
    <3>1. k + 1 \in 1..Len(queue) /\ queue[k + 1] = i
      BY <1>2, <1>3, <2>3
    <3> QED
      BY <3>1 DEF Q!Contains
  <2>4. 1 \in 1..Len(queue)
    BY <1>2
  <2>5. Q!Contains(queue, i) => Q!Contains(queue', i) \/ i = Head(queue)
    BY <1>2, <2>2 DEF Q!Contains
  <2>6. Q!Contains(queue', i) => Q!Contains(queue, i)
    BY <2>3 DEF Q!Contains
  <2>7. i = Head(queue) => Q!Contains(queue, i)
    BY <1>2, <2>4 DEF Q!Contains
  <2> QED
    BY <2>5, <2>6, <2>7
<1>5. ~Q!Contains(queue', Head(queue))
  <2>1. SUFFICES ASSUME NEW k \in 1..Len(queue'), queue'[k] = Head(queue) PROVE FALSE
    BY DEF Q!Contains
  <2>2. k + 1 \in 1..Len(queue) /\ 1 \in 1..Len(queue) /\ queue[k + 1] = queue[1] /\ k + 1 # 1
    BY <1>2, <1>3, <2>1
  <2> QED
    BY <1>1, <2>2
<1>6. CASE Head(queue) \in Handlers
  <2>1. Waiting = Waiting' \cup {Head(queue)} /\ Head(queue) \notin Waiting'
    BY <1>4, <1>5, <1>6 DEF Waiting
  <2>2. Waiting' = Waiting \ {Head(queue)} /\ Head(queue) \in Waiting
    BY <2>1
  <2>3. Cardinality(Waiting') = Cardinality(Waiting) - 1
    BY <2>2, WaitingFinite, FS_RemoveElement, ZenonT(60)
  <2> QED
    BY <1>6, <2>3, WaitingFinite DEF Bit
<1>7. CASE Head(queue) \notin Handlers
  <2>1. Waiting = Waiting'
    BY <1>4, <1>7 DEF Waiting
  <2> QED
    BY <1>7, <2>1, WaitingFinite DEF Bit
<1> QED
  BY <1>6, <1>7

(* Every step keeps the account of the references.                         *)
LEMMA KrefStep == ASSUME IsrInv, ParInv, [IsrNext]_isrVars PROVE KrefOf'
<1> USE GpuIsrActors, Untyped DEF Threads, parentVars, callVars, queueVars
<1>0. KrefOf /\ RemInv /\ Places /\ IsrType /\ FlushInv /\ BhInv /\ IsrInv /\ ParInv
  BY DEF ParInv, IsrInv
<1>1. ASSUME UNCHANGED <<gpu_kref, queue, running, tpc, gpus>>,
             pc'["rem"] = "idle" <=> pc["rem"] = "idle"
      PROVE  KrefOf'
  BY <1>0, <1>1 DEF KrefOf, Waiting, Bit
<1>2. /\ Cardinality(Waiting) \in Nat /\ \A b : Bit(b) \in {0, 1}
      /\ Bit(TRUE) = 1 /\ Bit(FALSE) = 0
  BY WaitingFinite, BitType DEF Bit
<1>3. CASE TopLookup
  <2>1. /\ tpc = "idle" /\ UNCHANGED <<pc, gpus, queue, running>>
        /\ \/ gpu_kref' = gpu_kref + 1 /\ tpc' = "replayable"
           \/ UNCHANGED <<gpu_kref, tpc>>
    BY <1>3 DEF TopLookup
  <2>2. Waiting' = Waiting
    BY <2>1 DEF Waiting
  <2> QED
    BY <1>0, <1>2, <2>1, <2>2 DEF KrefOf, Bit
<1>4. CASE TopSuspended
  <2>1. /\ tpc = "replayable" /\ tpc' = "idle" /\ gpu_kref' = gpu_kref - 1
        /\ UNCHANGED <<pc, gpus, queue, running>>
    BY <1>4 DEF TopSuspended
  <2>2. Waiting' = Waiting
    BY <2>1 DEF Waiting
  <2> QED
    BY <1>0, <1>2, <2>1, <2>2 DEF KrefOf, Bit
<1>5. \A h \in Counted : TryLock(h) => ~Q!Contains(queue, h)
  <2>1. "bh" # NONE
    OBVIOUS
  <2> QED
    BY <1>0, <2>1 DEF TryLock, Q!Contains, BhInv
<1>6. CASE schedule_replayable_faults_handler
  <2>1. tpc = "replayable" /\ tpc' = "non_replayable" /\ UNCHANGED <<pc, gpus, running>>
    BY <1>6 DEF schedule_replayable_faults_handler
  <2>2. CASE TryLock("replayable")
    <3>1. gpu_kref' = gpu_kref + 1 /\ queue' = Append(queue, "replayable")
      BY <1>5, <1>6, <2>2 DEF schedule_replayable_faults_handler, Start, Q!Scheduled, Counted
    <3>2. Cardinality(Waiting') = Cardinality(Waiting) + 1
      BY <1>0, <1>5, <2>2, <3>1, WaitingMore DEF Counted, Handlers, Faults
    <3> QED
      BY <1>0, <1>2, <2>1, <3>1, <3>2 DEF KrefOf, Bit
  <2>3. CASE ~TryLock("replayable")
    <3>1. UNCHANGED <<gpu_kref, queue>>
      BY <1>6, <2>3 DEF schedule_replayable_faults_handler
    <3> QED
      BY <1>0, <1>2, <2>1, <3>1 DEF KrefOf, Waiting, Bit
  <2> QED
    BY <2>2, <2>3
<1>7. CASE schedule_non_replayable_faults_handler
  <2>1. tpc = "non_replayable" /\ tpc' = "access_counters" /\ UNCHANGED <<pc, gpus, running>>
    BY <1>7 DEF schedule_non_replayable_faults_handler
  <2>2. CASE UNCHANGED queue
    <3>1. UNCHANGED gpu_kref
      BY <1>7, <2>2 DEF schedule_non_replayable_faults_handler
    <3> QED
      BY <1>0, <1>2, <2>1, <2>2, <3>1 DEF KrefOf, Waiting, Bit
  <2>3. CASE queue' # queue
    <3>1. /\ gpu_kref' = gpu_kref + 1 /\ queue' = Append(queue, "non_replayable")
          /\ ~Q!Contains(queue, "non_replayable")
      BY <1>7, <2>3 DEF schedule_non_replayable_faults_handler, Q!Scheduled
    <3>2. Cardinality(Waiting') = Cardinality(Waiting) + 1
      BY <1>0, <3>1, WaitingMore DEF Handlers, Faults
    <3> QED
      BY <1>0, <1>2, <2>1, <3>1, <3>2 DEF KrefOf, Bit
  <2> QED
    BY <2>2, <2>3
<1>8. CASE schedule_access_counters_handler
  <2>1. tpc = "access_counters" /\ tpc' = "idle" /\ UNCHANGED <<pc, gpus, running>>
    BY <1>8 DEF schedule_access_counters_handler
  <2>2. CASE TryLock("access_counters")
    <3>1. gpu_kref' = gpu_kref /\ queue' = Append(queue, "access_counters")
      BY <1>5, <1>8, <2>2 DEF schedule_access_counters_handler, Start, Q!Scheduled, Counted
    <3>2. Cardinality(Waiting') = Cardinality(Waiting) + 1
      BY <1>0, <1>5, <2>2, <3>1, WaitingMore DEF Counted, Handlers
    <3> QED
      BY <1>0, <1>2, <2>1, <3>1, <3>2 DEF KrefOf, Bit
  <2>3. CASE ~TryLock("access_counters")
    <3>1. gpu_kref' = gpu_kref - 1 /\ UNCHANGED queue
      BY <1>8, <2>3 DEF schedule_access_counters_handler
    <3> QED
      BY <1>0, <1>2, <2>1, <3>1 DEF KrefOf, Waiting, Bit
  <2> QED
    BY <2>2, <2>3
<1>9. CASE BhTake
  <2>1. /\ queue # <<>> /\ queue' = Tail(queue) /\ running = NONE /\ running' = Head(queue)
        /\ UNCHANGED <<gpu_kref, tpc, pc, gpus>>
    BY <1>9 DEF BhTake, Q!Take
  <2>2. Cardinality(Waiting) = Cardinality(Waiting') + Bit(Head(queue) \in Handlers)
    BY <1>0, <2>1, WaitingLess
  <2>3. Cardinality(Waiting') \in Nat
    BY HandlersFinite DEF Waiting
  <2>4. Bit(running \in Handlers) = 0
        /\ Bit(running' \in Handlers) = Bit(Head(queue) \in Handlers)
    BY <2>1 DEF Bit, Handlers, Faults
  <2> QED
    BY <1>0, <1>2, <2>1, <2>2, <2>3, <2>4 DEF KrefOf, Bit
<1>10. CASE BhPut
  <2>1. /\ gpu_kref' = gpu_kref - 1 /\ running' = NONE
        /\ UNCHANGED <<queue, tpc, pc, gpus>>
    BY <1>10 DEF BhPut, Q!Finish
  <2>2. running \in Handlers /\ NONE \notin Handlers
    BY <1>0, <1>10 DEF Places, Item, BhPut, Q!Finish, Handlers, Faults
  <2> QED
    BY <1>0, <1>2, <2>1, <2>2 DEF KrefOf, Waiting, Bit
<1>11. CASE BhFlush
  <2>1. /\ bpc = "flush" /\ running' = NONE /\ pc' = [pc EXCEPT ![running] = "flushed"]
        /\ UNCHANGED <<queue, gpu_kref, tpc, gpus>>
    BY <1>11 DEF BhFlush, Q!Finish
  <2>2. /\ running \notin Handlers /\ NONE \notin Handlers /\ pc[running] = "flushing"
        /\ running \in {"pm", "rem"}
    BY <1>0, <2>1 DEF FlushInv, Handlers, Faults
  <2>3. pc'["rem"] = "idle" <=> pc["rem"] = "idle"
    BY <1>0, <2>1, <2>2 DEF IsrType
  <2> QED
    BY <1>0, <1>2, <2>1, <2>2, <2>3 DEF KrefOf, Waiting, Bit
<1>12. ASSUME NEW t \in {"pm", "rem"}, Flush(t) PROVE KrefOf'
  <2>1. queue' = Append(queue, t) /\ pc[t] = "flush_q"
    BY <1>0, <1>12, FlushLast
  <2>2. Waiting' = Waiting
    BY <1>0, <2>1, WaitingAsMany
  <2>3. UNCHANGED <<gpu_kref, running, tpc, gpus>> /\ pc' = [pc EXCEPT ![t] = "flushing"]
    BY <1>12 DEF Flush, At
  <2>4. pc'["rem"] = "idle" <=> pc["rem"] = "idle"
    BY <1>0, <2>1, <2>3 DEF IsrType
  <2> QED
    BY <1>0, <2>2, <2>3, <2>4 DEF KrefOf, Bit
<1>13. CASE \/ \E h \in Handlers : Arrive(h)
            \/ find_first_valid_gpu \/ BhLock \/ BhService \/ BhUnlock \/ UNCHANGED isrVars
  <2>1. UNCHANGED <<gpu_kref, queue, running, tpc, gpus, pc>>
    BY <1>13 DEF Arrive, find_first_valid_gpu, BhLock, BhService, BhUnlock, isrVars
  <2> QED
    BY <1>1, <2>1
<1>14. ASSUME NEW t \in Threads, Work(t) \/ Unlock(t) PROVE KrefOf'
  <2>1. /\ UNCHANGED <<gpu_kref, queue, running, tpc, gpus>>
        /\ pc[t] \in {"down", "unlock"}
        /\ \E l \in {"unlock", AfterUnlock(t)} : pc' = [pc EXCEPT ![t] = l]
    BY <1>14 DEF Work, Unlock, At
  <2>2. t \notin Users => AfterUnlock(t) # "idle"
    BY DEF AfterUnlock
  <2>3. pc'["rem"] = "idle" <=> pc["rem"] = "idle"
    BY <1>0, <2>1, <2>2 DEF IsrType
  <2> QED
    BY <1>1, <2>1, <2>3
<1>15. ASSUME NEW u \in Users, UserCall(u) PROVE KrefOf'
  <2>1. UNCHANGED <<gpu_kref, queue, running, tpc, gpus>> /\ pc' = [pc EXCEPT ![u] = "down"]
    BY <1>15, ZenonT(60) DEF UserCall, Call, parentVars, queueVars
  <2> QED
    BY <1>0, <1>1, <2>1 DEF IsrType
<1>16. CASE uvm_suspend \/ uvm_resume \/ PmStep
  <2>1. pc'["rem"] = pc["rem"]
    BY <1>0, <1>16, PmFrame
  <2>2. UNCHANGED <<gpu_kref, queue, running, tpc, gpus>>
    BY <1>16 DEF uvm_suspend, uvm_resume, PmStep, SuspendIgnore, SuspendIsr, SuspendNext,
                 ResumeIsr, ResumeUnignore, pmFrame
  <2> QED
    BY <1>1, <2>1, <2>2
<1>17. CASE remove_gpu
  <2>1. /\ pc["rem"] = "idle" /\ pc'["rem"] # "idle" /\ gpu_kref' = gpu_kref + 1
        /\ UNCHANGED <<queue, running, tpc, gpus>>
    BY <1>0, <1>17 DEF remove_gpu, At, remFrame, IsrType
  <2> QED
    BY <1>0, <1>2, <2>1 DEF KrefOf, Waiting, Bit
<1>18. CASE uvm_gpu_disable_isr
  <2>1. /\ UNCHANGED <<gpu_kref, queue, running, tpc, gpus>>
        /\ pc["rem"] # "idle" /\ pc'["rem"] # "idle"
    BY <1>0, <1>18 DEF uvm_gpu_disable_isr, At, remFrame, IsrType
  <2> QED
    BY <1>1, <2>1
<1>19. CASE deinit_gpu
  <2>1. /\ pc["rem"] = "free" /\ pc'["rem"] = "idle" /\ gpus' = gpus \ {obj["rem"]}
        /\ gpu_kref' = IF table THEN gpu_kref - 1 ELSE gpu_kref - 2
        /\ UNCHANGED <<queue, running, tpc>>
    BY <1>0, <1>19 DEF deinit_gpu, At, remFrame, IsrType
  <2>2. /\ obj["rem"] \notin valid /\ gpus = valid \cup {obj["rem"]}
        /\ table = (valid # {})
    BY <1>0, <2>1, ZenonT(60) DEF RemInv
  <2>4. gpus # {} /\ gpus' = valid
    BY <2>1, <2>2, ZenonT(60)
  <2>3. Waiting' = Waiting
    BY <2>1 DEF Waiting
  <2>5. Bit(pc["rem"] # "idle") = 1 /\ Bit(pc'["rem"] # "idle") = 0 /\ Bit(gpus # {}) = 1
    BY <1>2, <2>1, <2>4, ZenonT(60)
  <2>6. gpu_kref' + 1 = gpu_kref - 1 + Bit(gpus' # {})
    <3>1. gpu_kref \in Int
      BY <1>0, <1>2 DEF KrefOf
    <3>2. CASE valid # {}
      <4>1. gpu_kref' = gpu_kref - 1 /\ Bit(gpus' # {}) = 1
        BY <1>2, <2>1, <2>2, <2>4, <3>2, ZenonT(60)
      <4> QED
        BY <3>1, <4>1
    <3>3. CASE valid = {}
      <4>1. gpu_kref' = gpu_kref - 2 /\ Bit(gpus' # {}) = 0
        BY <1>2, <2>1, <2>2, <2>4, <3>3, ZenonT(60)
      <4> QED
        BY <3>1, <4>1
    <3> QED
      BY <3>2, <3>3
  <2> QED
    BY <1>0, <1>2, <2>1, <2>3, <2>5, <2>6 DEF KrefOf
<1>20. ASSUME NEW h \in Faults, sync_parent_gpu_trackers(h) PROVE KrefOf'
  <2>1. pc["rem"] \in {"flushed", "sync_non_replayable"}
    BY <1>20 DEF sync_parent_gpu_trackers
  <2>2. /\ UNCHANGED <<gpu_kref, queue, running, tpc, gpus>>
        /\ pc' = [pc EXCEPT !["rem"] = "down"]
    BY <1>20, ZenonT(60) DEF sync_parent_gpu_trackers, Call, remFrame, parentVars
  <2> QED
    BY <1>0, <1>1, <2>1, <2>2 DEF IsrType
<1> QED
  BY <1>3, <1>4, <1>6, <1>7, <1>8, <1>9, <1>10, <1>11, <1>12, <1>13, <1>14, <1>15, <1>16, <1>17,
     <1>18, <1>19, <1>20, ZenonT(60) DEF IsrNext, TopStep, BhStep, Locked, RemStep

-----------------------------------------------------------------------------
(* The invariant and what follows from it *)

(* It holds of the initial states.                                         *)
LEMMA ParInitial == IsrInit => ParInv
<1> SUFFICES ASSUME IsrInit PROVE ParInv
  OBVIOUS
<1> USE GpuIsrActors, GpuIsrConstants, Untyped DEF IsrInit, Threads
<1>1. Places
  BY DEF Places, Item, Handlers, Faults
<1>2. RemInv
  <2>1. Cardinality({}) = 0
    BY FS_EmptySet
  <2>2. handling_ref_count = Cardinality(enabled)
    BY <2>1
  <2>3. obj \in [Threads -> Partitions \cup {NONE}] /\ pc["rem"] = "idle" /\ pc["pm"] = "idle"
    OBVIOUS
  <2>4. \A u \in Users : obj[u] = NONE /\ pc[u] = "idle"
    OBVIOUS
  <2> QED
    BY <2>2, <2>3, <2>4, ZenonT(60) DEF RemInv
<1>3. DrainInv
  BY DEF DrainInv
<1>4. GpuInv
  BY DEF GpuInv
<1>5. Ignoring
  BY DEF Ignoring
<1>6. KrefOf
  <2>1. Waiting = {}
    BY DEF Waiting, Q!Contains
  <2>2. Cardinality(Waiting) = 0
    BY <2>1, FS_EmptySet
  <2>3. /\ Bit(running \in Handlers) = 0 /\ Bit(tpc # "idle") = 0
        /\ Bit(pc["rem"] # "idle") = 0 /\ Bit(gpus # {}) = 1
    BY DEF Bit, Handlers, Faults
  <2>4. gpu_kref = 1
    OBVIOUS
  <2> QED
    BY <2>2, <2>3, <2>4 DEF KrefOf
<1> QED
  BY <1>1, <1>2, <1>3, <1>4, <1>5, <1>6 DEF ParInv

(* Where the bottom half, the threads that suspend and remove and the      *)
(* users are, and the account of what each of them holds, stay right.      *)
THEOREM ParInvariant == IsrSpec => []ParInv
<1>1. IsrInv /\ ParInv /\ [IsrNext]_isrVars => ParInv'
  BY PlacesStep, RemInvStep, DrainStep, GpuStep, IgnoringStep, KrefStep, ZenonT(60) DEF ParInv
<1> QED
  BY <1>1, ParInitial, IsrInvariant, PTL DEF IsrSpec

(* gpu_kref is the number of those who hold a reference to the parent GPU: *)
(* each queued or running bottom half, the top half, the thread that       *)
(* removes and the registered GPU.                                         *)
THEOREM IsrKrefExact == IsrSpec => []KrefExact
<1>1. ParInv => KrefExact
  BY KrefSame DEF ParInv
<1> QED
  BY <1>1, ParInvariant, PTL

(* A bottom half services with its service lock, on a GPU that has not     *)
(* been freed.                                                             *)
THEOREM IsrBottomHalfSafe == IsrSpec => []BottomHalfSafe
<1>1. IsrInv /\ ParInv => BottomHalfSafe
  <2> SUFFICES ASSUME IsrInv, ParInv PROVE BottomHalfSafe
    OBVIOUS
  <2>1. bpc \in {"service", "unlock"} => service_lock[running] = "bh"
    BY DEF IsrInv, BhInv
  <2>2. ASSUME bgpu # NONE PROVE bgpu \in gpus
    BY <2>2, ZenonT(60) DEF ParInv, GpuInv, RemInv
  <2> QED
    BY <2>1, <2>2 DEF BottomHalfSafe
<1> QED
  BY <1>1, IsrInvariant, ParInvariant, PTL

(* While the system sleeps no bottom half waits or runs, and the access    *)
(* counter interrupts are off.                                             *)
THEOREM IsrAsleepQuiet == IsrSpec => []AsleepQuiet
<1>1. IsrInv /\ ParInv => AsleepQuiet
  <2> SUFFICES ASSUME IsrInv, ParInv, pc["pm"] = "asleep"
               PROVE  queue = <<>> /\ running = NONE /\ "access_counters" \notin intr
    BY DEF AsleepQuiet
  <2>1. queue = <<>> /\ running = NONE
    BY DEF ParInv, DrainInv, Nothing
  <2>2. valid # {} /\ IsFiniteSet(valid)
    BY GpuIsrConstants, FS_Subset, ZenonT(60) DEF ParInv, RemInv
  <2>3. Cardinality(valid) \in Nat /\ Cardinality(valid) # 0
    BY <2>2, FS_CardinalityType, FS_EmptySet
  <2>4. notifications_ignored_count = Cardinality(valid)
    BY DEF ParInv, Ignoring
  <2>5. Ignored = 1
    BY <2>3, <2>4 DEF Ignored
  <2>6. Cardinality(Waiters("access_counters")) \in Nat /\ Held("access_counters") \in {0, 1}
    BY HolderTypes DEF Counted
  <2>7. disable_intr_ref_count["access_counters"] # 0
    BY <2>5, <2>6 DEF IsrInv, CountInv
  <2> QED
    BY <2>1, <2>7 DEF IsrInv, IntrExact, Counted
<1> QED
  BY <1>1, IsrInvariant, ParInvariant, PTL

(* What the top half does to the queue.                                    *)
LEMMA TopSchedules ==
    ASSUME TopLookup \/ TopStep
    PROVE  /\ UNCHANGED <<running, open>>
           /\ queue' = queue \/ \E h \in Handlers : queue' = Q!Scheduled(h)
<1> USE Untyped DEF queueVars, Handlers, Faults
<1>1. CASE TopLookup
  BY <1>1 DEF TopLookup
<1>2. CASE TopSuspended
  BY <1>2 DEF TopSuspended
<1>3. CASE schedule_replayable_faults_handler
  BY <1>3 DEF schedule_replayable_faults_handler, Start
<1>4. CASE schedule_non_replayable_faults_handler
  BY <1>4 DEF schedule_non_replayable_faults_handler
<1>5. CASE schedule_access_counters_handler
  BY <1>5 DEF schedule_access_counters_handler, Start
<1> QED
  BY <1>1, <1>2, <1>3, <1>4, <1>5, ZenonT(60) DEF TopStep

(* Every step is one of the queue's client: nothing is scheduled on a      *)
(* stopped queue, and only an empty and idle one is stopped.               *)
LEMMA QueueStep ==
    ASSUME IsrInv, ParInv, [IsrNext]_isrVars PROVE [Q!WqNext]_(Q!wqVars)
<1> USE Untyped DEF queueVars
<1>0. DrainInv /\ RemInv
  BY DEF ParInv
<1>1. ASSUME UNCHANGED <<queue, running, open>> PROVE [Q!WqNext]_(Q!wqVars)
  BY <1>1 DEF Q!wqVars
<1>2. CASE TopLookup \/ TopStep
  <2>1. UNCHANGED <<running, open>>
        /\ (queue' = queue \/ \E h \in Handlers : queue' = Q!Scheduled(h))
    BY <1>2, TopSchedules
  <2>2. CASE queue' = queue
    BY <1>1, <2>1, <2>2
  <2>3. CASE queue' # queue
    <3>1. PICK h \in Handlers : queue' = Q!Scheduled(h)
      BY <2>1, <2>3
    <3>2. open
      BY <1>0, <1>2, <2>3, TopQueue DEF DrainInv
    <3> QED
      BY <2>1, <3>1, <3>2, ZenonT(60) DEF Q!WqNext, Q!Schedule
  <2> QED
    BY <2>2, <2>3
<1>3. ASSUME NEW t \in {"pm", "rem"}, Flush(t) PROVE [Q!WqNext]_(Q!wqVars)
  <2>1. pc[t] = "flush_q" /\ queue' = Q!Scheduled(t) /\ UNCHANGED <<running, open>>
    BY <1>3 DEF Flush
  <2>2. open
    BY <1>0, <2>1 DEF DrainInv, RemInv
  <2> QED
    BY <2>1, <2>2, ZenonT(60) DEF Q!WqNext, Q!Schedule
<1>4. CASE BhTake
  BY <1>4, ZenonT(60) DEF BhTake, Q!WqNext
<1>5. CASE BhPut \/ BhFlush
  BY <1>5, ZenonT(60) DEF BhPut, BhFlush, Q!WqNext
<1>6. ASSUME NEW h \in Faults, sync_parent_gpu_trackers(h) PROVE [Q!WqNext]_(Q!wqVars)
  <2>1. /\ pc["rem"] \in {"flushed", "sync_non_replayable"}
        /\ open' = table /\ UNCHANGED <<queue, running>>
    BY <1>6 DEF sync_parent_gpu_trackers
  <2>2. CASE valid # {}
    <3>1. table = TRUE /\ open = TRUE
      BY <1>0, <2>2, ZenonT(60) DEF DrainInv, RemInv
    <3> QED
      BY <1>1, <2>1, <3>1
  <2>3. CASE valid = {}
    <3>1. table = FALSE /\ queue = <<>> /\ running = NONE
      BY <1>0, <2>1, <2>3, ZenonT(60) DEF DrainInv, RemInv, Nothing
    <3>2. CASE open
      BY <2>1, <3>1, <3>2, ZenonT(60) DEF Q!WqNext, Q!Close
    <3>3. CASE ~open
      <4>1. open = FALSE
        BY <1>0, <3>3, ZenonT(60) DEF DrainInv
      <4> QED
        BY <1>1, <2>1, <3>1, <4>1, ZenonT(60)
    <3> QED
      BY <3>2, <3>3
  <2> QED
    BY <2>2, <2>3
<1>7. CASE \/ \E h \in Handlers : Arrive(h)
           \/ find_first_valid_gpu \/ BhLock \/ BhService \/ BhUnlock \/ UNCHANGED isrVars
  <2>1. UNCHANGED <<queue, running, open>>
    BY <1>7 DEF Arrive, find_first_valid_gpu, BhLock, BhService, BhUnlock, isrVars
  <2> QED
    BY <1>1, <2>1
<1>8. CASE (\E t \in Threads : Locked(t)) \/ (\E u \in Users : UserCall(u))
  <2>1. UNCHANGED <<queue, running, open>>
    BY <1>8, ZenonT(60) DEF Locked, Work, Unlock, UserCall, queueVars
  <2> QED
    BY <1>1, <2>1
<1>9. CASE uvm_suspend \/ uvm_resume \/ PmStep
  <2>1. UNCHANGED <<queue, running, open>>
    BY <1>9 DEF uvm_suspend, uvm_resume, PmStep, SuspendIgnore, SuspendIsr, SuspendNext,
                ResumeIsr, ResumeUnignore, pmFrame
  <2> QED
    BY <1>1, <2>1
<1>10. CASE remove_gpu \/ uvm_gpu_disable_isr \/ deinit_gpu
  <2>1. UNCHANGED <<queue, running, open>>
    BY <1>10 DEF remove_gpu, uvm_gpu_disable_isr, deinit_gpu, remFrame
  <2> QED
    BY <1>1, <2>1
<1> QED
  BY <1>2, <1>3, <1>4, <1>5, <1>6, <1>7, <1>8, <1>9, <1>10, ZenonT(60) DEF IsrNext, BhStep, RemStep

(* Top half, suspend and removal use the bottom half's queue as a work     *)
(* queue may be used: nothing is scheduled on it after its stop, and it is *)
(* stopped when no bottom half is left.                                    *)
THEOREM IsrQueueUsed == IsrSpec => QueueUsed
<1>1. IsrInit => Q!WqInit
  BY DEF IsrInit, Q!WqInit
<1> QED
  BY <1>1, QueueStep, IsrInvariant, ParInvariant, PTL DEF IsrSpec, QueueUsed, Q!WqSpec
=============================================================================
