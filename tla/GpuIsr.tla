------------------------------- MODULE GpuIsr -------------------------------
(***************************************************************************)
(* The interrupts of one parent GPU: uvm_gpu_isr.c of                      *)
(* kernel-open/nvidia-uvm, with the parts of uvm_gpu.c, uvm_global.c and   *)
(* uvm_gpu_access_counters.c that share its state.                         *)
(*                                                                         *)
(* The top half takes the service lock of a handler and schedules its      *)
(* bottom half on a work queue; the bottom half releases the lock.  User   *)
(* threads take the same locks to flush buffers and to enable access       *)
(* counters, "pm" does for suspend and resume, and "rem" removes the       *)
(* partitions of the GPU one by one, the last with the parent.  Without    *)
(* SMC the GPU is its only partition.                                      *)
(*                                                                         *)
(* What a thread does under interrupts_lock is one step, except that the   *)
(* top half tries its handlers in three; gpu_table_lock covers one step    *)
(* each.  Interrupts are pulses: once delivered an interrupt comes back    *)
(* only when its condition becomes true or is evaluated again.             *)
(***************************************************************************)
EXTENDS Naturals, FiniteSets, FiniteSetsExt, Sequences

CONSTANTS Users,        \* VA spaces, each with a thread
          Partitions,   \* sub-processor indexes
          BUSY_PARTITIONS,   \* bound: users call when no more partitions than this are left
          NONE

ASSUME GpuIsrConstants ==
    /\ Partitions \subseteq Nat /\ IsFiniteSet(Partitions) /\ Partitions # {}
    /\ NONE \notin Partitions

ASSUME GpuIsrActors ==
    /\ IsFiniteSet(Users)
    /\ Users \cap {"pm", "rem", "bh"} = {}
    /\ NONE \notin Users \cup {"pm", "rem", "bh", "replayable", "non_replayable",
                              "access_counters"}

Faults == {"replayable", "non_replayable"}
Handlers == Faults \cup {"access_counters"}
Counted == {"replayable", "access_counters"}   \* with interrupts that UVM owns
Threads == Users \cup {"pm", "rem"}

VARIABLES
    \* uvm_parent_gpu_t
    table,                    \* whether it is in g_uvm_global.parent_gpus
    valid, gpus,              \* valid_gpus, and the partitions not freed
    gpu_kref,
    \* uvm_isr_info_t
    handling, was_handling,   \* the fault handlers with these flags
    handling_ref_count,       \* of the access counters
    service_lock,             \* service_lock[h]: its owner; "bh" is the bottom half
    disable_intr_ref_count,
    is_suspended,
    notifications_ignored_count,
    \* the GPU
    intr,                     \* the handlers whose interrupts are enabled
    pending,                  \* those whose buffers are not empty
    irq,                      \* an interrupt is to be delivered
    \* bottom_half_q
    queue, running, open,
    bpc, bgpu,                \* the bottom half and the partition it works on
    \* the others
    tpc,                      \* the top half
    pc, op, lockof, obj,      \* the call of a thread, its lock and partition
    enabled,                  \* VA spaces that have enabled access counters
    left                      \* the partitions that a suspend has not done

parentVars == <<table, valid, gpus>>
lockVars == <<service_lock, disable_intr_ref_count, intr, irq>>
handleVars == <<handling, was_handling, handling_ref_count>>
pmVars == <<is_suspended, notifications_ignored_count, left>>
queueVars == <<queue, running, open>>
bhVars == <<bpc, bgpu>>
callVars == <<pc, op, lockof, obj>>
isrVars == <<parentVars, gpu_kref, lockVars, handleVars, pmVars, pending,
             queueVars, bhVars, tpc, callVars, enabled>>

Q == INSTANCE WorkQueue WITH Items <- Handlers \cup {"pm", "rem"}

IsrInit ==
    /\ table = TRUE
    /\ valid = Partitions
    /\ gpus = Partitions
    /\ gpu_kref = 1
    /\ handling = Faults
    /\ was_handling = {}
    /\ handling_ref_count = 0
    /\ service_lock = [h \in Handlers |-> NONE]
    /\ disable_intr_ref_count = [h \in Counted |-> 0]
    /\ is_suspended = FALSE
    /\ notifications_ignored_count = 0
    /\ intr = {"replayable"}
    /\ pending = {}
    /\ irq = FALSE
    /\ queue = <<>> /\ running = NONE /\ open = TRUE
    /\ bpc = "take" /\ bgpu = NONE
    /\ tpc = "idle"
    /\ pc = [t \in Threads |-> "idle"]
    /\ op = [t \in Threads |-> "none"]
    /\ lockof = [t \in Threads |-> NONE]
    /\ obj = [t \in Threads |-> NONE]
    /\ enabled = {}
    /\ left = {}

-----------------------------------------------------------------------------
(* Interrupts and service locks *)

Handles(h) == IF h = "access_counters" THEN handling_ref_count > 0 ELSE h \in handling

\* nobody is in a critical section of interrupts_lock that takes several steps
InterruptsLockFree == tpc \in {"idle", "replayable"}

uvm_gpu_intr_disable(h) ==
    /\ disable_intr_ref_count' = [disable_intr_ref_count EXCEPT ![h] = @ + 1]
    /\ intr' = IF Handles(h) /\ disable_intr_ref_count[h] = 0 THEN intr \ {h} ELSE intr

\* Mutant: the interrupts come on although nobody handles them
EnableUnhandled(h) ==
    /\ disable_intr_ref_count' = [disable_intr_ref_count EXCEPT ![h] = @ - 1]
    /\ intr' = IF disable_intr_ref_count[h] = 1 THEN intr \cup {h} ELSE intr

uvm_gpu_intr_enable(h) ==
    /\ disable_intr_ref_count' = [disable_intr_ref_count EXCEPT ![h] = @ - 1]
    /\ intr' = IF Handles(h) /\ disable_intr_ref_count[h] = 1 THEN intr \cup {h} ELSE intr

\* Mutant: pulses are not rearmed
NoRearm(h) == UNCHANGED irq

\* clear_replayable_faults and clear_access_counter_notifications: the interrupt
\* condition is evaluated again
Rearm(h) == irq' = (irq \/ (h \in pending /\ h \in intr'))

Free(h) == service_lock' = [service_lock EXCEPT ![h] = NONE]

\* Mutant: nothing is unlocked when the interrupts are not handled
UnlockHandled(h) ==
    /\ IF Handles(h) THEN Free(h) ELSE UNCHANGED service_lock
    /\ h # "non_replayable" => InterruptsLockFree
    /\ IF h = "access_counters" \/ (h = "replayable" /\ Handles(h))
       THEN uvm_gpu_intr_enable(h)
       ELSE UNCHANGED <<disable_intr_ref_count, intr>>
    /\ IF h \in Counted /\ Handles(h) THEN Rearm(h) ELSE UNCHANGED irq

\* the isr_unlock function of handler h
isr_unlock(h) ==
    /\ Free(h)
    /\ h # "non_replayable" => InterruptsLockFree
    /\ IF h = "access_counters" \/ (h = "replayable" /\ Handles(h))
       THEN uvm_gpu_intr_enable(h)
       ELSE UNCHANGED <<disable_intr_ref_count, intr>>
    /\ IF h \in Counted /\ Handles(h) THEN Rearm(h) ELSE UNCHANGED irq

\* the first half of the isr_lock function of handler h: a thread that has
\* disabled the interrupts goes on to wait for the lock
isr_lock(t, h) ==
    /\ lockof' = [lockof EXCEPT ![t] = h]
    /\ IF h = "non_replayable"
       THEN UNCHANGED <<disable_intr_ref_count, intr>>
       ELSE InterruptsLockFree /\ uvm_gpu_intr_disable(h)
    /\ UNCHANGED <<service_lock, irq>>

-----------------------------------------------------------------------------
(* The GPU *)

\* A fault or a notification in an empty buffer.  While the system is suspended
\* no channel runs, but access counters may still notify.
Arrive(h) ==
    /\ h \notin pending
    /\ IF h = "access_counters" THEN handling_ref_count > 0
       ELSE pc["pm"] = "idle" /\ gpus # {}
    /\ pending' = pending \cup {h}
    /\ irq' = (irq \/ h = "non_replayable" \/ h \in intr)
    /\ UNCHANGED <<parentVars, gpu_kref, service_lock, disable_intr_ref_count, intr,
                   handleVars, pmVars, queueVars, bhVars, tpc, callVars, enabled>>

-----------------------------------------------------------------------------
(* uvm_isr_top_half; RM calls it for interrupts of its own as well *)

TopLookup ==
    /\ tpc = "idle"
    /\ irq' = FALSE
    /\ IF table
       THEN gpu_kref' = gpu_kref + 1 /\ tpc' = "replayable"
       ELSE UNCHANGED <<gpu_kref, tpc>>
    /\ UNCHANGED <<parentVars, service_lock, disable_intr_ref_count, intr, handleVars,
                   pmVars, pending, queueVars, bhVars, callVars, enabled>>

TopSuspended ==
    /\ tpc = "replayable"
    /\ is_suspended
    /\ tpc' = "idle"
    /\ gpu_kref' = gpu_kref - 1
    /\ UNCHANGED <<parentVars, lockVars, handleVars, pmVars, pending, queueVars, bhVars,
                   callVars, enabled>>

\* down_trylock succeeds and there is work
TryLock(h) == Handles(h) /\ service_lock[h] = NONE /\ h \in pending

\* Mutant: the interrupts stay on
StartEnabled(h) ==
    /\ service_lock' = [service_lock EXCEPT ![h] = "bh"]
    /\ UNCHANGED <<disable_intr_ref_count, intr>>
    /\ queue' = Q!Scheduled(h)

\* the bottom half is scheduled, with the lock
Start(h) ==
    /\ service_lock' = [service_lock EXCEPT ![h] = "bh"]
    /\ uvm_gpu_intr_disable(h)
    /\ queue' = Q!Scheduled(h)

schedule_replayable_faults_handler ==
    /\ tpc = "replayable"
    /\ ~is_suspended
    /\ IF TryLock("replayable")
       THEN Start("replayable") /\ gpu_kref' = gpu_kref + 1
       ELSE UNCHANGED <<service_lock, disable_intr_ref_count, intr, queue, gpu_kref>>
    /\ tpc' = "non_replayable"
    /\ UNCHANGED <<parentVars, irq, handleVars, pmVars, pending, running, open, bhVars,
                   callVars, enabled>>

\* Mutant: the reference of an item that was queued already is kept
ScheduleKeepsKref ==
    /\ tpc = "non_replayable"
    /\ IF Handles("non_replayable") /\ "non_replayable" \in pending
       THEN queue' = Q!Scheduled("non_replayable") /\ gpu_kref' = gpu_kref + 1
       ELSE UNCHANGED <<queue, gpu_kref>>
    /\ tpc' = "access_counters"
    /\ UNCHANGED <<parentVars, lockVars, handleVars, pmVars, pending, running, open,
                   bhVars, callVars, enabled>>

schedule_non_replayable_faults_handler ==
    /\ tpc = "non_replayable"
    /\ IF Handles("non_replayable") /\ "non_replayable" \in pending
       THEN /\ queue' = Q!Scheduled("non_replayable")
            /\ gpu_kref' = IF queue' = queue THEN gpu_kref ELSE gpu_kref + 1
       ELSE UNCHANGED <<queue, gpu_kref>>
    /\ tpc' = "access_counters"
    /\ UNCHANGED <<parentVars, lockVars, handleVars, pmVars, pending, running, open,
                   bhVars, callVars, enabled>>

\* schedule_access_counters_handler, and the top half drops its own reference
schedule_access_counters_handler ==
    /\ tpc = "access_counters"
    /\ IF TryLock("access_counters")
       THEN Start("access_counters") /\ UNCHANGED gpu_kref
       ELSE /\ gpu_kref' = gpu_kref - 1
            /\ UNCHANGED <<service_lock, disable_intr_ref_count, intr, queue>>
    /\ tpc' = "idle"
    /\ UNCHANGED <<parentVars, irq, handleVars, pmVars, pending, running, open, bhVars,
                   callVars, enabled>>

TopStep == TopSuspended \/ schedule_replayable_faults_handler
           \/ schedule_non_replayable_faults_handler \/ schedule_access_counters_handler

-----------------------------------------------------------------------------
(* The bottom halves, and the items of flushes *)

BhTake ==
    /\ bpc = "take"
    /\ Q!Take
    /\ bpc' = IF running' \in Handlers THEN "find" ELSE "flush"
    /\ UNCHANGED <<parentVars, gpu_kref, lockVars, handleVars, pmVars, pending, bgpu,
                   tpc, callVars, enabled>>

\* a bottom half that finds no partition goes to put_kref
find_first_valid_gpu ==
    /\ bpc = "find"
    /\ IF valid = {}
       THEN bpc' = "put" /\ UNCHANGED bgpu
       ELSE /\ bgpu' = Min(valid)
            /\ bpc' = IF running = "non_replayable" THEN "lock" ELSE "service"
    /\ UNCHANGED <<parentVars, gpu_kref, lockVars, handleVars, pmVars, pending,
                   queueVars, tpc, callVars, enabled>>

BhLock ==
    /\ bpc = "lock"
    /\ service_lock["non_replayable"] = NONE
    /\ service_lock' = [service_lock EXCEPT !["non_replayable"] = "bh"]
    /\ bpc' = "service"
    /\ UNCHANGED <<parentVars, gpu_kref, disable_intr_ref_count, intr, irq, handleVars,
                   pmVars, pending, queueVars, bgpu, tpc, callVars, enabled>>

\* Faults may be left because of throttling or errors, and while notifications
\* are ignored they all are; non-replayable faults never.
BhService ==
    /\ bpc = "service"
    /\ \/ /\ running = "access_counters" => notifications_ignored_count = 0
          /\ pending' = pending \ {running}
       \/ running # "non_replayable" /\ UNCHANGED pending
    /\ bpc' = "unlock"
    /\ UNCHANGED <<parentVars, gpu_kref, lockVars, handleVars, pmVars, queueVars, bgpu,
                   tpc, callVars, enabled>>

BhUnlock ==
    /\ bpc = "unlock"
    /\ isr_unlock(running)
    /\ bpc' = "put"
    /\ bgpu' = NONE
    /\ UNCHANGED <<parentVars, gpu_kref, handleVars, pmVars, pending, queueVars, tpc,
                   callVars, enabled>>

BhPut ==
    /\ bpc = "put"
    /\ gpu_kref' = gpu_kref - 1
    /\ Q!Finish
    /\ bpc' = "take"
    /\ UNCHANGED <<parentVars, lockVars, handleVars, pmVars, pending, bgpu, tpc,
                   callVars, enabled>>

\* the item of a flush runs: its thread goes on
BhFlush ==
    /\ bpc = "flush"
    /\ Q!Finish
    /\ pc' = [pc EXCEPT ![running] = "flushed"]
    /\ bpc' = "take"
    /\ UNCHANGED <<parentVars, gpu_kref, lockVars, handleVars, pmVars, pending, bgpu,
                   tpc, op, lockof, obj, enabled>>

BhStep == BhTake \/ find_first_valid_gpu \/ BhLock \/ BhService \/ BhUnlock \/ BhPut
          \/ BhFlush

-----------------------------------------------------------------------------
(* Threads: a thread that has called isr_lock waits for the lock, works    *)
(* and unlocks.                                                            *)

Call(t, o, h) ==
    /\ isr_lock(t, h)
    /\ op' = [op EXCEPT ![t] = o]
    /\ pc' = [pc EXCEPT ![t] = "down"]

At(t, l) == pc' = [pc EXCEPT ![t] = l]

\* uvm_gpu_fault_buffer_flush, and the wait for trackers, which changes nothing here
WorkFaults(t) ==
    /\ op[t] \in {"flush", "sync"}
    /\ pending' = IF op[t] = "flush" THEN pending \ {"replayable"} ELSE pending
    /\ UNCHANGED <<handling_ref_count, enabled, notifications_ignored_count,
                   disable_intr_ref_count, intr>>

\* uvm_gpu_access_counter_buffer_flush
WorkAccessFlush(t) ==
    /\ op[t] = "access_flush"
    /\ pending' = IF handling_ref_count > 0 THEN pending \ {"access_counters"} ELSE pending
    /\ UNCHANGED <<handling_ref_count, enabled, notifications_ignored_count,
                   disable_intr_ref_count, intr>>

\* uvm_gpu_access_counters_enable; taking ownership from RM clears the buffer
\* and may fail
WorkEnable(t) ==
    /\ op[t] = "enable"
    /\ \/ /\ t \notin enabled
          /\ handling_ref_count' = handling_ref_count + 1
          /\ enabled' = enabled \cup {t}
          /\ pending' = IF handling_ref_count = 0 THEN pending \ {"access_counters"}
                        ELSE pending
       \/ /\ t \in enabled \/ handling_ref_count = 0
          /\ UNCHANGED <<handling_ref_count, enabled, pending>>
    /\ UNCHANGED <<notifications_ignored_count, disable_intr_ref_count, intr>>

\* uvm_gpu_access_counters_disable; ownership goes back to RM
WorkDisable(t) ==
    /\ op[t] = "disable"
    /\ handling_ref_count' = IF t \in enabled THEN handling_ref_count - 1
                             ELSE handling_ref_count
    /\ enabled' = enabled \ {t}
    /\ pending' = IF handling_ref_count' = 0 THEN pending \ {"access_counters"} ELSE pending
    /\ UNCHANGED <<notifications_ignored_count, disable_intr_ref_count, intr>>

\* uvm_gpu_access_counters_set_ignore
WorkIgnore(t) ==
    /\ op[t] \in {"ignore", "unignore"}
    /\ InterruptsLockFree
    /\ IF op[t] = "ignore"
       THEN /\ notifications_ignored_count' = notifications_ignored_count + 1
            /\ UNCHANGED pending
            /\ IF notifications_ignored_count = 0
               THEN uvm_gpu_intr_disable("access_counters")
               ELSE UNCHANGED <<disable_intr_ref_count, intr>>
       ELSE /\ notifications_ignored_count' = notifications_ignored_count - 1
            /\ IF notifications_ignored_count = 1
               THEN /\ uvm_gpu_intr_enable("access_counters")
                    /\ pending' \in {pending, pending \ {"access_counters"}}
               ELSE UNCHANGED <<disable_intr_ref_count, intr, pending>>
    /\ UNCHANGED <<handling_ref_count, enabled>>

\* the thread gets the lock and works under it
Work(t) ==
    /\ pc[t] = "down"
    /\ service_lock[lockof[t]] = NONE
    /\ service_lock' = [service_lock EXCEPT ![lockof[t]] = t]
    /\ \/ WorkFaults(t) \/ WorkAccessFlush(t) \/ WorkEnable(t) \/ WorkDisable(t)
       \/ WorkIgnore(t)
    /\ At(t, "unlock")
    /\ UNCHANGED <<parentVars, gpu_kref, irq, handling, was_handling, is_suspended, left, queueVars, bhVars, tpc, op, lockof, obj>>

\* where a thread goes on after it has unlocked
AfterUnlock(t) ==
    IF t \in Users THEN "idle"
    ELSE CASE op[t] = "flush" -> "ignore"
           [] op[t] = "ignore" -> "suspend"
           [] op[t] = "unignore" -> "resume"
           [] OTHER -> IF lockof[t] = "replayable" THEN "sync_non_replayable" ELSE "free"

Unlock(t) ==
    /\ pc[t] = "unlock"
    /\ isr_unlock(lockof[t])
    /\ At(t, AfterUnlock(t))
    /\ lockof' = [lockof EXCEPT ![t] = NONE]
    /\ op' = [op EXCEPT ![t] = "none"]
    /\ obj' = [obj EXCEPT ![t] = IF t \in Users \ enabled THEN NONE ELSE @]
    /\ UNCHANGED <<parentVars, gpu_kref, handleVars, pmVars, pending, queueVars, bhVars,
                   tpc, enabled>>

\* nv_kthread_q_flush: an item of its own goes through the queue
Flush(t) ==
    /\ pc[t] = "flush_q"
    /\ queue' = Q!Scheduled(t)
    /\ At(t, "flushing")
    /\ UNCHANGED <<parentVars, gpu_kref, lockVars, handleVars, pmVars, pending, running,
                   open, bhVars, tpc, op, lockof, obj, enabled>>

\* A thread of a VA space calls one of the functions above, on a partition that
\* it retains for the call or for as long as access counters are enabled.
UserCall(u) ==
    /\ pc[u] = "idle"
    /\ pc["pm"] = "idle"
    /\ Cardinality(gpus) <= BUSY_PARTITIONS
    /\ \E p \in valid :
          /\ obj[u] \in {NONE, p}
          /\ obj' = [obj EXCEPT ![u] = p]
    /\ \/ Call(u, "flush", "replayable")
       \/ \E o \in {"enable", "disable", "access_flush"} : Call(u, o, "access_counters")
    /\ UNCHANGED <<parentVars, gpu_kref, handleVars, pmVars, pending, queueVars, bhVars,
                   tpc, enabled>>

-----------------------------------------------------------------------------
(* uvm_suspend and uvm_resume; pm.lock keeps user threads and removals out *)

pmFrame == <<parentVars, gpu_kref, handleVars, pending, queueVars, bhVars, tpc, obj,
             enabled>>

\* for each partition: flush the fault buffer, ignore notifications, ...
uvm_suspend ==
    /\ \A t \in Threads : pc[t] = "idle"
    /\ table
    /\ left' = valid
    /\ Call("pm", "flush", "replayable")
    /\ UNCHANGED <<pmFrame, is_suspended, notifications_ignored_count>>

SuspendIgnore ==
    /\ pc["pm"] = "ignore"
    /\ Call("pm", "ignore", "access_counters")
    /\ UNCHANGED <<pmFrame, pmVars>>

\* Mutant: the bottom halves are not waited for
SuspendNoFlush ==
    /\ pc["pm"] = "suspend"
    /\ InterruptsLockFree
    /\ is_suspended' = TRUE
    /\ At("pm", "flushed")
    /\ UNCHANGED <<pmFrame, lockVars, notifications_ignored_count, left, op, lockof>>

\* ... turn the top half off, and wait for the bottom halves
SuspendIsr ==
    /\ pc["pm"] = "suspend"
    /\ InterruptsLockFree
    /\ is_suspended' = TRUE
    /\ At("pm", "flush_q")
    /\ UNCHANGED <<pmFrame, lockVars, notifications_ignored_count, left, op, lockof>>

\* ... and go on with the next partition
SuspendNext ==
    /\ pc["pm"] = "flushed"
    /\ left' = left \ {Min(left)}
    /\ IF left' = {}
       THEN At("pm", "asleep") /\ UNCHANGED <<lockVars, op, lockof>>
       ELSE Call("pm", "flush", "replayable")
    /\ UNCHANGED <<pmFrame, is_suspended, notifications_ignored_count>>

uvm_resume ==
    /\ pc["pm"] = "asleep"
    /\ left' = valid
    /\ At("pm", "resume")
    /\ UNCHANGED <<pmFrame, lockVars, is_suspended, notifications_ignored_count, op,
                   lockof>>

ResumeIsr ==
    /\ pc["pm"] = "resume"
    /\ InterruptsLockFree
    /\ is_suspended' = FALSE
    /\ left' = IF left = {} THEN {} ELSE left \ {Min(left)}
    /\ At("pm", IF left = {} THEN "idle" ELSE "unignore")
    /\ UNCHANGED <<pmFrame, lockVars, notifications_ignored_count, op, lockof>>

ResumeUnignore ==
    /\ pc["pm"] = "unignore"
    /\ Call("pm", "unignore", "access_counters")
    /\ UNCHANGED <<pmFrame, pmVars>>

PmStep == SuspendIgnore \/ SuspendIsr \/ SuspendNext \/ ResumeIsr \/ ResumeUnignore

-----------------------------------------------------------------------------
(* uvm_gpu_release_locked of the last reference to a partition *)

remFrame == <<pmVars, pending, bhVars, tpc, enabled>>

\* Mutant: a partition other than the last is removed without a flush
RemoveNoFlush ==
    /\ pc["rem"] = "idle"
    /\ pc["pm"] = "idle"
    /\ \E p \in valid :
          /\ \A u \in Users : obj[u] # p
          /\ valid' = valid \ {p}
          /\ obj' = [obj EXCEPT !["rem"] = p]
    /\ table' = (valid' # {})
    /\ gpu_kref' = gpu_kref + 1
    /\ At("rem", IF table' THEN "flushed" ELSE "disable")
    /\ UNCHANGED <<remFrame, gpus, lockVars, handleVars, queueVars, op, lockof>>

\* remove_gpu up to its critical section: the last partition takes the parent
\* out of the table
remove_gpu ==
    /\ pc["rem"] = "idle"
    /\ pc["pm"] = "idle"
    /\ \E p \in valid :
          /\ \A u \in Users : obj[u] # p
          /\ valid' = valid \ {p}
          /\ obj' = [obj EXCEPT !["rem"] = p]
    /\ table' = (valid' # {})
    /\ gpu_kref' = gpu_kref + 1
    /\ At("rem", IF table' THEN "flush_q" ELSE "disable")
    /\ UNCHANGED <<remFrame, gpus, lockVars, handleVars, queueVars, op, lockof>>

\* Mutant: handling is not cleared, so that a top half may still schedule
DisableKeepsHandling ==
    /\ pc["rem"] = "disable"
    /\ InterruptsLockFree
    /\ uvm_gpu_intr_disable("replayable")
    /\ was_handling' = handling
    /\ At("rem", "flush_q")
    /\ UNCHANGED <<remFrame, parentVars, gpu_kref, service_lock, irq, handling,
                   handling_ref_count, queueVars, op, lockof, obj>>

\* the critical section of uvm_gpu_disable_isr
uvm_gpu_disable_isr ==
    /\ pc["rem"] = "disable"
    /\ InterruptsLockFree
    /\ uvm_gpu_intr_disable("replayable")
    /\ was_handling' = handling
    /\ handling' = {}
    /\ At("rem", "flush_q")
    /\ UNCHANGED <<remFrame, parentVars, gpu_kref, service_lock, irq, handling_ref_count,
                   queueVars, op, lockof, obj>>

\* sync_parent_gpu_trackers: for the parent's other partitions, or, when the queue
\* has been stopped and with the flags that were saved, for the parent itself
sync_parent_gpu_trackers(h) ==
    /\ pc["rem"] = IF h = "replayable" THEN "flushed" ELSE "sync_non_replayable"
    /\ h \in (IF table THEN handling ELSE was_handling)
    /\ Call("rem", "sync", h)
    /\ open' = table
    /\ UNCHANGED <<remFrame, parentVars, gpu_kref, handleVars, queue, running, obj>>

\* the partition is freed; deinit_parent_gpu drops the reference of the table, and
\* uvm_gpu_release_locked its own
deinit_gpu ==
    /\ pc["rem"] = "free"
    /\ gpus' = gpus \ {obj["rem"]}
    /\ obj' = [obj EXCEPT !["rem"] = NONE]
    /\ gpu_kref' = IF table THEN gpu_kref - 1 ELSE gpu_kref - 2
    /\ At("rem", "idle")
    /\ UNCHANGED <<remFrame, table, valid, lockVars, handleVars, queueVars, op, lockof>>

RemStep == uvm_gpu_disable_isr \/ deinit_gpu
           \/ \E h \in Faults : sync_parent_gpu_trackers(h)

-----------------------------------------------------------------------------

Locked(t) == Work(t) \/ Unlock(t)

IsrNext ==
    \/ \E h \in Handlers : Arrive(h)
    \/ TopLookup \/ TopStep \/ BhStep
    \/ \E t \in Threads : Locked(t)
    \/ \E u \in Users : UserCall(u)
    \/ uvm_suspend \/ uvm_resume \/ PmStep \/ Flush("pm")
    \/ remove_gpu \/ RemStep \/ Flush("rem")

(* Interrupts that are raised are delivered, the threads in the driver are *)
(* scheduled, and get the locks they wait for: up() hands a semaphore to   *)
(* its first waiter, and spin locks queue.  Nobody has to make a call.     *)
IsrFairness ==
    /\ WF_isrVars((irq /\ TopLookup) \/ TopStep)
    /\ SF_isrVars(BhStep)
    /\ \A u \in Users : SF_isrVars(Locked(u))
    /\ SF_isrVars(Locked("pm") \/ PmStep \/ Flush("pm"))
    /\ SF_isrVars(Locked("rem") \/ RemStep \/ Flush("rem"))

IsrSpec == IsrInit /\ [][IsrNext]_isrVars /\ IsrFairness

-----------------------------------------------------------------------------
(* Properties *)

(* The interrupts of a handler are on exactly when it handles them and     *)
(* nobody has asked for them to be off; handling_ref_count, which is read  *)
(* under interrupts_lock but written without it, may not break this, and   *)
(* once a removal has cleared handling they stay off.                      *)
IntrExact ==
    \A h \in Counted : h \in intr <=> Handles(h) /\ disable_intr_ref_count[h] = 0

(* While someone has a service lock its interrupts are off: the top half   *)
(* would find the lock taken, and be called again at once.                 *)
NoStorm == \A h \in Counted : service_lock[h] # NONE => h \notin intr

(* A bottom half works under the lock that its top half has taken, and on  *)
(* a partition that is not freed meanwhile.                                *)
BottomHalfSafe ==
    /\ bpc \in {"service", "unlock"} => service_lock[running] = "bh"
    /\ bgpu # NONE => bgpu \in gpus

(* Every reference to the parent GPU is somebody's, who drops it: the      *)
(* table, the top half, a removal, and each scheduled bottom half.         *)
KrefExact ==
    gpu_kref = Cardinality({i \in Handlers : Q!Contains(queue, i)})
               + Cardinality({running} \cap Handlers)
               + (IF tpc = "idle" THEN 0 ELSE 1)
               + (IF pc["rem"] = "idle" THEN 0 ELSE 1)
               + (IF gpus = {} THEN 0 ELSE 1)

(* While the system sleeps no bottom half is queued or at work.            *)
AsleepQuiet ==
    pc["pm"] = "asleep" => queue = <<>> /\ running = NONE /\ "access_counters" \notin intr

(* bottom_half_q is used as WorkQueue demands: nothing is scheduled after  *)
(* it was stopped, and it is stopped when it has nothing to do.            *)
QueueUsed == Q!WqSpec

(* "The bottom half releases the GPU ISR lock as part of its cleanup."     *)
BottomHalfReleases ==
    \A h \in Handlers : service_lock[h] = "bh" => Q!Contains(queue, h) \/ running = h

(* A fault or notification that UVM handles is not lost: while it is       *)
(* pending its bottom half runs, or a thread takes the lock, again and     *)
(* again, until it is serviced or a suspend or a removal comes.            *)
FaultsServed ==
    \A h \in Counted :
        []<>(h \in pending /\ Handles(h) /\ pc["pm"] = "idle" =>
                running = h \/ service_lock[h] \in Threads)

(* Every call returns, unless a bottom half has kept a lock for good.      *)
IsrCallsReturn ==
    \A t \in Threads : []<>(pc[t] \in {"idle", "asleep"} \/ ~BottomHalfReleases)
=============================================================================
