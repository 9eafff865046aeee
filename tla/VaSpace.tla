------------------------------ MODULE VaSpace ------------------------------
(***************************************************************************)
(* A UVM VA space from the registration of its GPU VA spaces and user      *)
(* channels to its end: uvm_va_space.c, uvm_user_channel.c and             *)
(* uvm_va_space_mm.c of kernel-open/nvidia-uvm, for one GPU that can fault.*)
(*                                                                         *)
(* User threads register and unregister; "exit" is the teardown of the     *)
(* process whose mm the VA space was initialized with, "close" the last    *)
(* close of the file, perhaps by another process, and "bh" the replayable  *)
(* fault bottom half.  exit and close both run uvm_va_space_mm_shutdown.   *)
(*                                                                         *)
(* Every section under the VA space lock, in write mode or in the read     *)
(* mode for RM calls, excludes the others through serialize_writers_lock:  *)
(* a section is one step, or several with lock naming its owner.  The      *)
(* fault handler takes the lock in plain read mode, so it excludes writers *)
(* only.                                                                   *)
(***************************************************************************)
EXTENDS VaSpaceState

VsInit ==
    /\ lock = NONE
    /\ user_channels_stopped = FALSE
    /\ disallow_new_registers = FALSE
    /\ num_pending = 0
    /\ alive = TRUE
    /\ retained_count = 0
    /\ notifier = TRUE
    /\ state = [s \in Spaces |-> "DEAD"]
    /\ page_dir = {}
    /\ no_channels = {}
    /\ ats = {}
    /\ gpu_va_space = [c \in Channels |-> NONE]
    /\ listed = {}
    /\ table = {}
    /\ bound = {}
    /\ used = {}
    /\ faults = {}
    /\ pc = [t \in Threads |-> "idle"]
    /\ op = [t \in Threads |-> "none"]
    /\ obj = [t \in Threads |-> NONE]
    /\ chan = [t \in Threads |-> NONE]
    /\ deferred = [t \in Threads |-> {}]
    /\ holders = {}
    /\ ops = 0

-----------------------------------------------------------------------------
(* The mm *)

Go(t, l) == pc' = [pc EXCEPT ![t] = l]

\* the same where the call may be over
GoOn(t, l) == /\ Go(t, l)
              /\ op' = [op EXCEPT ![t] = IF l = "idle" THEN "none" ELSE @]

uvm_va_space_mm_retain(t) ==
    /\ retained_count' = IF alive THEN retained_count + 1 ELSE retained_count
    /\ holders' = IF alive THEN holders \cup {t} ELSE holders
    /\ UNCHANGED alive

uvm_va_space_mm_or_current_retain(t) ==
    IF t \in Owners THEN UNCHANGED mmVars ELSE uvm_va_space_mm_retain(t)

\* where a thread goes on after it has released the mm
AfterRelease(t) ==
    CASE op[t] = "register_channel" /\ lock = t -> "bind"
      [] op[t] \in {"register", "fault"} -> "idle"
      [] OTHER -> "free"

uvm_va_space_mm_release(t) ==
    /\ pc[t] = "release"
    /\ LET do_wake == t \in holders /\ retained_count = 1 /\ ~alive
       IN  GoOn(t, IF do_wake THEN "wake" ELSE AfterRelease(t))
    /\ IF t \in holders
       THEN /\ retained_count' = retained_count - 1
            /\ holders' = holders \ {t}
       ELSE UNCHANGED <<retained_count, holders>>
    /\ UNCHANGED <<lock, notifier, faults, ops, flagVars, alive, spaceVars,
                   chanVars, obj, chan, deferred>>

\* pc of the threads after wake_up_all of the queue whose sleepers are at l
Woken(l, to) == [t \in Threads |-> IF pc[t] = l THEN to ELSE pc[t]]

ReleaseWake(t) ==
    /\ pc[t] = "wake"
    /\ pc' = [Woken("sleep_retained", "wait_retained") EXCEPT ![t] = AfterRelease(t)]
    /\ op' = [op EXCEPT ![t] = IF AfterRelease(t) = "idle" THEN "none" ELSE @]
    /\ UNCHANGED <<lock, notifier, faults, ops, flagVars, mmVars, spaceVars,
                   chanVars, obj, chan, deferred>>

-----------------------------------------------------------------------------
(* Detaching, removing and destroying *)

\* remove_gpu_va_space of the GPU VA spaces ss, at most one, by t
Remove(t, ss) ==
    /\ Detach(t, UNION {ChannelsOf(s) : s \in ss})
    /\ num_pending' = num_pending + Cardinality(ss)
    /\ state' = [s \in Spaces |-> IF s \in ss THEN "DEAD" ELSE state[s]]

\* where a thread goes on after its deferred_free_list, or its destroy
AfterFree(t) == CASE op[t] \in {"unregister", "close"} /\ obj[t] # NONE -> "unset"
                  [] op[t] = "close" /\ obj[t] = NONE -> "notifier"
                  [] op[t] = "shutdown" -> "wait_retained"
                  [] OTHER -> "idle"
AfterDestroy(t) == CASE op[t] = "register" -> "release"
                     [] op[t] = "close" -> "notifier"
                     [] OTHER -> "idle"

\* the channels of the list; a GPU VA space on it comes last
uvm_deferred_free_object_list(t) ==
    /\ pc[t] = "free"
    /\ IF deferred[t] = {} THEN UNCHANGED faults ELSE Flushable /\ faults' = {}
    /\ used' = used \ deferred[t]
    /\ deferred' = [deferred EXCEPT ![t] = {}]
    /\ chan' = [chan EXCEPT ![t] = NONE]
    /\ GoOn(t, AfterFree(t))
    /\ UNCHANGED <<lock, notifier, ops, flagVars, mmVars, spaceVars,
                   gpu_va_space, listed, table, bound, obj>>

\* destroy_gpu_va_space up to its count: one that was never registered is
\* unset without the lock
DestroyUnset(t) ==
    /\ pc[t] = "unset"
    /\ state[obj[t]] = "DEAD" => CanWrite
    /\ page_dir' = page_dir \ {obj[t]}
    /\ Go(t, IF state[obj[t]] = "DEAD" THEN "count" ELSE "ats")
    /\ UNCHANGED <<lock, notifier, faults, ops, flagVars, mmVars, state,
                   no_channels, ats, chanVars, op, obj, chan, deferred>>

\* Mutant: the ATS context goes first.
DestroyCountLate(t) ==
    /\ pc[t] = "count"
    /\ obj[t] \in ats => op["exit"] # "shutdown"
    /\ num_pending' = num_pending - 1
    /\ pc' = [IF num_pending = 1 THEN Woken("sleep_pending", "wait_pending") ELSE pc
              EXCEPT ![t] = "ats"]
    /\ UNCHANGED <<lock, notifier, faults, ops, user_channels_stopped,
                   disallow_new_registers, mmVars, spaceVars, chanVars, op, obj,
                   chan, deferred>>

DestroyCount(t) ==
    /\ pc[t] = "count"
    /\ num_pending' = num_pending - 1
    /\ pc' = [IF num_pending = 1 THEN Woken("sleep_pending", "wait_pending") ELSE pc
              EXCEPT ![t] = "ats"]
    /\ UNCHANGED <<lock, notifier, faults, ops, user_channels_stopped,
                   disallow_new_registers, mmVars, spaceVars, chanVars, op, obj,
                   chan, deferred>>

\* uvm_ats_unregister_gpu_va_space unregisters a notifier of the kernel's own on
\* the same mm, which waits for the callbacks of the mm's teardown.  Only a
\* thread of the mm's process can have made that context.
DestroyAts(t) ==
    /\ pc[t] = "ats"
    /\ obj[t] \in ats => ~InShutdown("exit") /\ CanWrite
    /\ obj' = [obj EXCEPT ![t] = NONE]
    /\ state' = [state EXCEPT ![obj[t]] = "DEAD"]
    /\ no_channels' = no_channels \ {obj[t]}
    /\ GoOn(t, AfterDestroy(t))
    /\ UNCHANGED <<lock, notifier, faults, ops, flagVars, mmVars, page_dir,
                   ats, chanVars, chan, deferred>>

-----------------------------------------------------------------------------
(* Registration of GPU VA spaces *)

\* an ioctl needs the file to be open and its process to live
Start(u, o, l) ==
    /\ pc[u] = "idle"
    /\ pc["close"] = "idle"
    /\ u \in Owners => pc["exit"] = "idle"
    /\ ops < MAX_OPS
    /\ ops' = ops + 1
    /\ op' = [op EXCEPT ![u] = o]
    /\ Go(u, l)

uvm_va_space_register_gpu_va_space(u) == \E s \in Spaces :
    /\ Unused(s)
    /\ s = CHOOSE free \in Spaces : Unused(free)
    /\ Start(u, "register", "check")
    /\ uvm_va_space_mm_or_current_retain(u)
    /\ obj' = [obj EXCEPT ![u] = s]
    /\ state' = [state EXCEPT ![s] = "INIT"]
    /\ ats' = IF u \in Owners THEN ats \cup {s} ELSE ats \ {s}
    /\ UNCHANGED <<lock, notifier, faults, flagVars, page_dir, no_channels, chanVars, chan,
                   deferred>>

RegisterCheck(u) ==
    /\ pc[u] = "check"
    /\ CanWrite
    /\ Go(u, IF MayRegister THEN "set" ELSE "unset")
    /\ UNCHANGED <<lock, notifier, faults, ops, flagVars, mmVars, spaceVars,
                   chanVars, op, obj, chan, deferred>>

\* uvm_gpu_va_space_set_page_dir, without the VA space lock; RM may refuse
RegisterSetPageDir(u) ==
    /\ pc[u] = "set"
    /\ \/ page_dir' = page_dir \cup {obj[u]} /\ Go(u, "add")
       \/ UNCHANGED page_dir /\ Go(u, "unset")
    /\ UNCHANGED <<lock, notifier, faults, ops, flagVars, mmVars, state,
                   no_channels, ats, chanVars, op, obj, chan, deferred>>

RegisterAdd(u) ==
    /\ pc[u] = "add"
    /\ CanWrite
    /\ IF MayRegister
       THEN \/ /\ state' = [state EXCEPT ![obj[u]] = "ACTIVE"]
               /\ obj' = [obj EXCEPT ![u] = NONE]
               /\ UNCHANGED num_pending
               /\ Go(u, "release")
            \/ \* no memory for a mapping: added, and removed under the same lock
               /\ state' = [state EXCEPT ![obj[u]] = "DEAD"]
               /\ num_pending' = num_pending + 1
               /\ UNCHANGED obj
               /\ Go(u, "unset")
       ELSE UNCHANGED <<state, obj, num_pending>> /\ Go(u, "unset")
    /\ UNCHANGED <<lock, notifier, faults, ops, user_channels_stopped,
                   disallow_new_registers, mmVars, page_dir, no_channels, ats,
                   chanVars, op, chan, deferred>>

uvm_va_space_unregister_gpu_va_space(u) ==
    /\ CanRead
    /\ \E s \in Registered :
          /\ Start(u, "unregister", "retain")
          /\ obj' = [obj EXCEPT ![u] = s]
          /\ bound' = bound \ ChannelsOf(s)
          /\ no_channels' = no_channels \cup {s}
    /\ UNCHANGED <<lock, notifier, faults, flagVars, mmVars, state, page_dir, ats,
                   gpu_va_space, listed, table, used, chan, deferred>>

UnregisterRetain(u) ==
    /\ pc[u] = "retain"
    /\ IF op[u] = "unregister"
       THEN uvm_va_space_mm_or_current_retain(u) /\ Go(u, "remove")
       ELSE uvm_va_space_mm_retain(u) /\ Go(u, "insert")
    /\ UNCHANGED <<lock, notifier, faults, ops, flagVars, spaceVars, chanVars, op,
                   obj, chan, deferred>>

\* another thread may have removed it since the lock was dropped
UnregisterRemove(u) ==
    /\ pc[u] = "remove"
    /\ CanWrite
    /\ Remove(u, {obj[u]} \cap Registered)
    /\ obj' = [obj EXCEPT ![u] = IF @ \in Registered THEN @ ELSE NONE]
    /\ Go(u, "release")
    /\ UNCHANGED <<lock, notifier, faults, ops, user_channels_stopped,
                   disallow_new_registers, mmVars, page_dir, no_channels, ats, op,
                   chan>>

-----------------------------------------------------------------------------
(* Registration of user channels *)

uvm_register_channel(u, c) ==
    /\ CanRead
    /\ c \notin used /\ \A t \in Users : chan[t] # c
    /\ \E s \in Registered : gpu_va_space' = [gpu_va_space EXCEPT ![c] = s]
    /\ used' = used \cup {c}
    /\ chan' = [chan EXCEPT ![u] = c]
    /\ Start(u, "register_channel", "retain")
    /\ UNCHANGED <<lock, notifier, faults, flagVars, mmVars, spaceVars, listed,
                   table, bound, obj, deferred>>

\* on success the lock is kept, downgraded, until the channel is bound
RegisterInsert(u) ==
    /\ pc[u] = "insert"
    /\ CanWrite
    /\ IF MayInsert(chan[u])
       THEN /\ listed' = listed \cup {chan[u]}
            /\ lock' = u
            /\ UNCHANGED <<gpu_va_space, table, bound, used, deferred>>
       ELSE Detach(u, {chan[u]}) /\ UNCHANGED lock
    /\ Go(u, "release")
    /\ UNCHANGED <<notifier, faults, ops, flagVars, mmVars, spaceVars, op, obj,
                   chan>>

RegisterBind(u) ==
    /\ pc[u] = "bind"
    /\ lock' = NONE
    /\ \/ /\ table' = table \cup {chan[u]}
          /\ bound' = bound \cup {chan[u]}
          /\ chan' = [chan EXCEPT ![u] = NONE]
          /\ GoOn(u, "idle")
       \/ \* mapping, or binding after the instance pointer was added, fails
          /\ table' \in {table, table \cup {chan[u]}}
          /\ UNCHANGED <<bound, chan, op>>
          /\ Go(u, "detach")
    /\ UNCHANGED <<notifier, faults, ops, flagVars, mmVars, spaceVars,
                   gpu_va_space, listed, used, obj, deferred>>

uvm_unregister_channel(u) ==
    /\ CanRead
    /\ \E c \in listed :
          /\ Start(u, "unregister_channel", "detach")
          /\ chan' = [chan EXCEPT ![u] = c]
          /\ bound' = bound \ {c}
    /\ UNCHANGED <<lock, notifier, faults, flagVars, mmVars, spaceVars,
                   gpu_va_space, listed, table, used, obj, deferred>>

\* the second half of uvm_unregister_channel, and of a failed registration:
\* unless another thread has detached the channel meanwhile
DetachChannel(u) ==
    /\ pc[u] = "detach"
    /\ CanWrite
    /\ Detach(u, {chan[u]} \cap listed)
    /\ Go(u, "free")
    /\ UNCHANGED <<lock, notifier, faults, ops, flagVars, mmVars, spaceVars, op,
                   obj, chan>>

-----------------------------------------------------------------------------
(* uvm_va_space_mm_shutdown: the notifier's callback *)

ShutdownStart(t) ==
    /\ pc[t] = "shutdown"
    /\ CanWrite
    /\ lock' = t
    /\ disallow_new_registers' = TRUE
    /\ Go(t, "stop")
    /\ UNCHANGED <<notifier, faults, ops, user_channels_stopped, num_pending,
                   mmVars, spaceVars, chanVars, op, obj, chan, deferred>>

\* uvm_va_space_stop_all_user_channels; it returns early when called again, and
\* then there is nothing left to stop
ShutdownStop(t) ==
    /\ pc[t] = "stop"
    /\ lock' = NONE
    /\ bound' = IF user_channels_stopped THEN bound ELSE bound \ listed
    /\ user_channels_stopped' = TRUE
    /\ Go(t, "detach_all")
    /\ UNCHANGED <<notifier, faults, ops, disallow_new_registers, num_pending,
                   mmVars, spaceVars, gpu_va_space, listed, table, used, op, obj,
                   chan, deferred>>

\* the GPU leaves faultable_processors when uvm_va_space_destroy unregisters it
Faultable == pc["close"] \in {"idle", "unregister_all"}

ShutdownDetach(t) ==
    /\ pc[t] = "detach_all"
    /\ CanWrite
    /\ Detach(t, listed)
    /\ Go(t, IF Faultable THEN "flush" ELSE "unset_all")
    /\ UNCHANGED <<lock, notifier, faults, ops, flagVars, mmVars, spaceVars, op,
                   obj, chan>>

ShutdownFlush(t) ==
    /\ pc[t] = "flush"
    /\ Flushable
    /\ faults' = {}
    /\ Go(t, "unset_all")
    /\ UNCHANGED <<lock, notifier, ops, flagVars, mmVars, spaceVars, chanVars, op,
                   obj, chan, deferred>>

ShutdownUnset(t) ==
    /\ pc[t] = "unset_all"
    /\ CanWrite
    /\ page_dir' = page_dir \ Registered
    /\ Go(t, "wait_pending")
    /\ UNCHANGED <<lock, notifier, faults, ops, flagVars, mmVars, state,
                   no_channels, ats, chanVars, op, obj, chan, deferred>>

ShutdownWaitPending(t) ==
    /\ pc[t] = "wait_pending"
    /\ Go(t, IF num_pending = 0 THEN "mark" ELSE "sleep_pending")
    /\ UNCHANGED <<lock, notifier, faults, ops, flagVars, mmVars, spaceVars,
                   chanVars, op, obj, chan, deferred>>

ShutdownMark(t) ==
    /\ pc[t] = "mark"
    /\ alive' = FALSE
    /\ Go(t, "free")
    /\ UNCHANGED <<lock, notifier, faults, ops, flagVars, retained_count, holders,
                   spaceVars, chanVars, op, obj, chan, deferred>>

\* Mutant: the retainers are not waited for.
ReturnWithRetainers(t) ==
    /\ pc[t] = "wait_retained"
    /\ Go(t, "returned")
    /\ UNCHANGED <<lock, notifier, faults, ops, flagVars, mmVars, spaceVars,
                   chanVars, op, obj, chan, deferred>>

ShutdownWaitRetained(t) ==
    /\ pc[t] = "wait_retained"
    /\ Go(t, IF retained_count = 0 THEN "returned" ELSE "sleep_retained")
    /\ UNCHANGED <<lock, notifier, faults, ops, flagVars, mmVars, spaceVars,
                   chanVars, op, obj, chan, deferred>>

\* The kernel: after its callback each caller takes the notifier off the mm's
\* list, and goes on when the other's callback is over.  External.
NotifierCalls(t) ==
    /\ op' = [op EXCEPT ![t] = IF notifier THEN "shutdown" ELSE "skipped"]
    /\ Go(t, IF notifier THEN "shutdown" ELSE "synchronize")

NotifierRemoved(t) ==
    /\ pc[t] = "returned"
    /\ notifier' = FALSE
    /\ op' = [op EXCEPT ![t] = "done"]
    /\ Go(t, "synchronize")
    /\ UNCHANGED <<lock, faults, ops, flagVars, mmVars, spaceVars, chanVars, obj,
                   chan, deferred>>

NotifierSynchronized(t) ==
    /\ pc[t] = "synchronize"
    /\ \A e \in Enders : ~InShutdown(e)
    /\ Go(t, "end")
    /\ UNCHANGED <<lock, notifier, faults, ops, flagVars, mmVars, spaceVars,
                   chanVars, op, obj, chan, deferred>>

ProcessExit ==
    /\ pc["exit"] = "idle"
    /\ \A u \in Owners : pc[u] = "idle"
    /\ NotifierCalls("exit")
    /\ UNCHANGED <<lock, notifier, faults, ops, flagVars, mmVars, spaceVars,
                   chanVars, obj, chan, deferred>>

-----------------------------------------------------------------------------
(* uvm_va_space_destroy: the last close of the file *)

uvm_va_space_destroy ==
    /\ pc["close"] = "idle"
    /\ \A u \in Users : pc[u] = "idle"
    /\ CanRead
    /\ bound' = IF user_channels_stopped THEN bound ELSE bound \ listed
    /\ user_channels_stopped' = TRUE
    /\ op' = [op EXCEPT !["close"] = "close"]
    /\ Go("close", "unregister_all")
    /\ UNCHANGED <<lock, notifier, faults, ops, disallow_new_registers,
                   num_pending, mmVars, spaceVars, gpu_va_space, listed, table,
                   used, obj, chan, deferred>>

DestroyUnregister ==
    /\ pc["close"] = "unregister_all"
    /\ CanWrite
    /\ Remove("close", Registered)
    /\ obj' = [obj EXCEPT !["close"] = IF Registered = {} THEN NONE
                                       ELSE CHOOSE s \in Registered : TRUE]
    /\ Go("close", "flush_queues")
    /\ UNCHANGED <<lock, notifier, faults, ops, user_channels_stopped,
                   disallow_new_registers, mmVars, page_dir, no_channels, ats, op,
                   chan>>

DestroyFlushQueues ==
    /\ pc["close"] = "flush_queues"
    /\ pc["bh"] = "idle"
    /\ Go("close", "free")
    /\ UNCHANGED <<lock, notifier, faults, ops, flagVars, mmVars, spaceVars,
                   chanVars, op, obj, chan, deferred>>

\* Mutant: an mm that is dead already is not unregistered.
UnregisterIfAlive ==
    /\ pc["close"] = "notifier"
    /\ IF alive THEN NotifierCalls("close") ELSE Go("close", "end") /\ UNCHANGED op
    /\ UNCHANGED <<lock, notifier, faults, ops, flagVars, mmVars, spaceVars,
                   chanVars, obj, chan, deferred>>

uvm_va_space_mm_unregister ==
    /\ pc["close"] = "notifier"
    /\ NotifierCalls("close")
    /\ UNCHANGED <<lock, notifier, faults, ops, flagVars, mmVars, spaceVars,
                   chanVars, obj, chan, deferred>>

-----------------------------------------------------------------------------
(* The replayable fault bottom half *)

\* the GPU faults in a context that runs
Fault(c) ==
    /\ c \in bound \ faults
    /\ faults' = faults \cup {c}
    /\ UNCHANGED <<lock, notifier, ops, flagVars, mmVars, spaceVars, chanVars,
                   threadVars>>

\* uvm_gpu_fault_entry_to_va_space of an entry that is taken out of the buffer;
\* an unknown instance pointer is cancelled
FaultTranslate(c) ==
    /\ pc["bh"] = "idle"
    /\ c \in faults
    /\ faults' = faults \ {c}
    /\ IF c \in table
       THEN /\ Go("bh", "fault_retain")
            /\ op' = [op EXCEPT !["bh"] = "fault"]
            /\ chan' = [chan EXCEPT !["bh"] = c]
       ELSE UNCHANGED <<pc, op, chan>>
    /\ UNCHANGED <<lock, notifier, ops, flagVars, mmVars, spaceVars, chanVars, obj,
                   deferred>>

\* service_fault_batch: retain the mm, take the VA space lock in read mode ...
FaultRetain ==
    /\ pc["bh"] = "fault_retain"
    /\ uvm_va_space_mm_retain("bh")
    /\ Go("bh", "fault_lock")
    /\ UNCHANGED <<lock, notifier, faults, ops, flagVars, spaceVars, chanVars, op,
                   obj, chan, deferred>>

\* ... which a holder that has not downgraded yet keeps
FaultLock ==
    /\ pc["bh"] = "fault_lock"
    /\ lock # NONE => pc[lock] \in {"bind", "stop"}
    /\ Go("bh", "service")
    /\ UNCHANGED <<lock, notifier, faults, ops, flagVars, mmVars, spaceVars,
                   chanVars, op, obj, chan, deferred>>

FaultServiced ==
    /\ pc["bh"] = "service"
    /\ Go("bh", "release")
    /\ chan' = [chan EXCEPT !["bh"] = NONE]
    /\ UNCHANGED <<lock, notifier, faults, ops, flagVars, mmVars, spaceVars,
                   chanVars, op, obj, deferred>>

-----------------------------------------------------------------------------

Ioctl(u) ==
    \/ uvm_va_space_register_gpu_va_space(u)
    \/ uvm_va_space_unregister_gpu_va_space(u)
    \/ \E c \in Channels : uvm_register_channel(u, c)
    \/ uvm_unregister_channel(u)

\* what a thread does once it is in the driver
Step(t) ==
    \/ uvm_va_space_mm_release(t) \/ ReleaseWake(t)
    \/ uvm_deferred_free_object_list(t)
    \/ DestroyUnset(t) \/ DestroyCount(t) \/ DestroyAts(t)

UserStep(u) ==
    \/ Step(u)
    \/ RegisterCheck(u) \/ RegisterSetPageDir(u) \/ RegisterAdd(u)
    \/ UnregisterRetain(u) \/ UnregisterRemove(u)
    \/ RegisterInsert(u) \/ RegisterBind(u) \/ DetachChannel(u)

ShutdownStep(t) ==
    \/ ShutdownStart(t) \/ ShutdownStop(t) \/ ShutdownDetach(t) \/ ShutdownFlush(t)
    \/ ShutdownUnset(t) \/ ShutdownWaitPending(t) \/ ShutdownMark(t)
    \/ ShutdownWaitRetained(t) \/ NotifierRemoved(t) \/ NotifierSynchronized(t)

EnderStep(t) == Step(t) \/ ShutdownStep(t)

CloseStep == DestroyUnregister \/ DestroyFlushQueues \/ uvm_va_space_mm_unregister

ServiceStep ==
    \/ FaultRetain \/ FaultLock \/ FaultServiced
    \/ \E c \in Channels : FaultTranslate(c)

FaultStep == ServiceStep \/ uvm_va_space_mm_release("bh") \/ ReleaseWake("bh")

VsNext ==
    \/ \E u \in Users : Ioctl(u) \/ UserStep(u)
    \/ \E t \in Enders : EnderStep(t)
    \/ ProcessExit \/ uvm_va_space_destroy \/ CloseStep
    \/ FaultStep \/ \E c \in Channels : Fault(c)

(* Threads in the driver are scheduled, and get the locks they wait for:   *)
(* rw_semaphores and semaphores of Linux queue their waiters, so the fault *)
(* handler cannot overtake them for ever.  The bottom half runs while      *)
(* there are faults.  Nobody has to make ioctls, exit, close or fault.     *)
VsFairness ==
    /\ \A u \in Users : SF_vsVars(UserStep(u))
    /\ \A t \in Enders : SF_vsVars(EnderStep(t))
    /\ SF_vsVars(CloseStep)
    /\ WF_vsVars(FaultStep)

VsSpec == VsInit /\ [][VsNext]_vsVars /\ VsFairness

-----------------------------------------------------------------------------
(* Properties *)

(* What the comment on uvm_va_space_mm_shutdown requires of the callback:  *)
(* once either caller has returned from it the GPU and the driver are done *)
(* with the mm.  No page directory is set, also not by a thread that was   *)
(* registering without the lock; no channel runs; nobody holds the mm.     *)
QuietAfterShutdown ==
    \A t \in Enders : pc[t] \in {"returned", "synchronize", "end"} =>
        page_dir = {} /\ bound = {} /\ retained_count = 0 /\ holders = {}

(* An instance pointer goes back to RM only when no fault with it is left  *)
(* in the buffer or in the bottom half's hands, so that no old fault is    *)
(* attributed to a new channel (uvm_deferred_free_object_channel).         *)
NoStaleFault ==
    \A c \in Channels \ used : c \notin faults /\ chan["bh"] # c

(* After uvm_va_space_destroy has freed the VA space nobody is in a        *)
(* function that uses it; the wake-up that ends uvm_va_space_mm_release is *)
(* outside the lock.                                                       *)
NobodyAfterFree ==
    pc["close"] = "end" =>
        /\ \A t \in Users \cup {"bh"} : pc[t] = "idle"
        /\ ~InShutdown("exit")

(* Every ioctl, the teardown and the close come to an end: no wake-up is   *)
(* lost, and none of the waits for deferred frees, retainers, flushes, the *)
(* kernel's own notifier and the other callback waits for itself.          *)
TeardownEnds ==
    /\ \A u \in Users : []<>(pc[u] = "idle")
    /\ \A t \in {"exit", "close"} : []<>(pc[t] \in {"idle", "end"})

\* how far a shutdown is, for MmGate
ShutdownState(t) ==
    CASE pc[t] = "returned" \/ op[t] = "done" -> "returned"
      [] InShutdown(t) /\ pc[t] \in {"free", "wait_retained", "sleep_retained"} -> "marked"
      [] OTHER -> "none"

Gate == INSTANCE MmGate WITH
    Retainers <- Users \cup {"bh"}, Shutdowns <- Enders,
    alive <- IF alive THEN "yes" ELSE "no",
    shutdown <- [t \in Enders |-> ShutdownState(t)]

(* Retaining, releasing and the two shutdowns keep the promise of MmGate.  *)
GateKept == Gate!GateSpec
=============================================================================
