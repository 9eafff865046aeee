---------------------------- MODULE VaSpaceState ----------------------------
(***************************************************************************)
(* The state of a UVM VA space and of the threads that use it, and what    *)
(* the code asks of it under the VA space lock.  VaSpace has the steps,    *)
(* VaSpaceInv the invariant.                                               *)
(***************************************************************************)
EXTENDS Integers, FiniteSets

CONSTANTS Users,      \* threads that make ioctls
          Owners,     \* those of the process that owns the mm
          Spaces,     \* memory for GPU VA spaces
          Channels,   \* memory for user channels, and their instance pointers
          MAX_OPS,    \* bound on the ioctls
          NONE

ASSUME VaSpaceConstants == Owners \subseteq Users /\ MAX_OPS \in Nat

ASSUME VaSpaceActors ==
    /\ IsFiniteSet(Users)
    /\ Users \cap {"exit", "close", "bh"} = {}
    /\ NONE \notin Spaces \cup Channels \cup Users \cup {"exit", "close", "bh"}

Enders == {"exit", "close"}
Threads == Users \cup Enders \cup {"bh"}

VARIABLES
    \* uvm_va_space_t
    lock,                     \* the owner of serialize_writers_lock
    user_channels_stopped, disallow_new_registers,
    num_pending,              \* gpu_va_space_deferred_free.num_pending
    alive, retained_count,    \* va_space_mm
    notifier,                 \* whether the mmu_notifier is registered
    \* uvm_gpu_va_space_t
    state,                    \* state[s]: "INIT", "ACTIVE" or "DEAD"
    page_dir,                 \* those with did_set_page_directory
    no_channels,              \* those with disallow_new_channels
    ats,                      \* those with an ATS context of the kernel
    \* uvm_user_channel_t
    gpu_va_space,             \* gpu_va_space[c]
    listed, table, bound,     \* in registered_channels, in the instance pointer
                              \* table, and is_bound
    used,                     \* channels that have not been destroyed
    faults,                   \* instance pointers in the replayable fault buffer
    \* threads
    pc, op, obj, chan,        \* the call of a thread and the objects it is about
    deferred,                 \* the channels on its deferred_free_list
    holders,                  \* threads that have retained the mm
    ops

spaceVars == <<state, page_dir, no_channels, ats>>
chanVars == <<gpu_va_space, listed, table, bound, used>>
mmVars == <<alive, retained_count, holders>>
flagVars == <<user_channels_stopped, disallow_new_registers, num_pending>>
threadVars == <<pc, op, obj, chan, deferred>>
vsVars == <<lock, notifier, faults, ops, flagVars, mmVars, spaceVars, chanVars,
            threadVars>>

-----------------------------------------------------------------------------
CanRead == lock = NONE
CanWrite == lock = NONE /\ pc["bh"] # "service"

\* the GPU's entry of va_space->gpu_va_spaces, as a set
Registered == {s \in Spaces : state[s] = "ACTIVE"}
ChannelsOf(s) == {c \in listed : gpu_va_space[c] = s}
Unused(s) == /\ state[s] = "DEAD"
             /\ \A t \in Threads : obj[t] # s
             /\ \A c \in Channels : gpu_va_space[c] # s

\* uvm_user_channel_detach of the channels cs by t
Detach(t, cs) ==
    /\ gpu_va_space' = [c \in Channels |-> IF c \in cs THEN NONE ELSE gpu_va_space[c]]
    /\ listed' = listed \ cs
    /\ table' = table \ cs
    /\ deferred' = [deferred EXCEPT ![t] = @ \cup cs]
    /\ UNCHANGED <<bound, used>>

\* Mutant: the flush does not take the ISR lock.
FlushUnlocked == TRUE

\* uvm_gpu_fault_buffer_flush: under the replayable ISR lock, so no bottom half
\* is at work
Flushable == pc["bh"] = "idle"

\* mmu_notifier callbacks in progress
InShutdown(t) == op[t] = "shutdown"

\* Mutant: a teardown that has begun is not noticed.
MayRegisterAnyway == Registered = {}

\* check_gpu_va_space
MayRegister == Registered = {} /\ ~disallow_new_registers

\* Mutant: an unregister that has begun is not noticed.
MayInsertAnyway(c) == gpu_va_space[c] \in Registered /\ ~user_channels_stopped

\* what uvm_register_channel and uvm_register_channel_under_write check
MayInsert(c) ==
    /\ gpu_va_space[c] \in Registered
    /\ ~user_channels_stopped
    /\ gpu_va_space[c] \notin no_channels

-----------------------------------------------------------------------------
(* uvm_user_channel_detach requires its callers to have stopped the        *)
(* channel, in an earlier section of the lock: a running channel is still  *)
(* registered, in a GPU VA space that is.                                  *)
RunningIsRegistered ==
    bound \subseteq listed /\ \A c \in listed : gpu_va_space[c] \in Registered
=============================================================================
