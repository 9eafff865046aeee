------------------------- MODULE CompletionCounter -------------------------
(***************************************************************************)
(* What a channel's tracking semaphore promises its users                  *)
(* (struct uvm_gpu_tracking_semaphore_struct in                            *)
(* kernel-open/nvidia-uvm/uvm_gpu_semaphore.h): three counters of work     *)
(* that never wrap.  Work is queued while fewer than Window values are     *)
(* not known to be complete, the GPU completes it in order, and what the   *)
(* CPU believes complete never runs ahead of the GPU and never goes back.  *)
(***************************************************************************)
EXTENDS Integers

CONSTANT Window

VARIABLES queued,     \* value of the last piece of work queued
          done,       \* value of the last piece of work the GPU finished
          completed   \* last value the CPU knows to be complete

ctrVars == <<queued, done, completed>>

CounterInit == queued = 0 /\ done = 0 /\ completed = 0

\* The work of uvm_channel_end_push
QueueWork ==
    /\ queued - completed < Window
    /\ queued' = queued + 1
    /\ UNCHANGED <<done, completed>>

\* The GPU's semaphore release at the end of a push
FinishWork ==
    /\ done < queued
    /\ done' = done + 1
    /\ UNCHANGED <<queued, completed>>

\* uvm_gpu_tracking_semaphore_update_completed_value
ObserveProgress ==
    /\ \E v \in completed .. done : completed' = v
    /\ UNCHANGED <<queued, done>>

CounterNext == QueueWork \/ FinishWork \/ ObserveProgress

CounterSpec == CounterInit /\ [][CounterNext]_ctrVars
=============================================================================
