# TLA+ models of the NVIDIA open kernel modules

The repository holds the Linux kernel modules of the NVIDIA driver: `nvidia.ko` (the resource
manager RM and its Linux layer), `nvidia-uvm.ko` (unified virtual memory, UVM), `nvidia-modeset.ko`,
`nvidia-drm.ko` and `nvidia-peermem.ko`. This directory models the parts in which several threads, the
GPU, or the GPU's firmware share state, model-checks them with TLC on small instances, and proves the
safety properties of all of them but the trackers with TLAPS for instances of every size.

`PROJECT.json` lists every component with its status, the source lines of every definition, the runs,
the hazards each property is aimed at, the finding and the theorems. Paths below are under `src/`.

## 1. Inventory

How the modelled parts fit together. A UVM operation *pushes* methods to the GPU. A push reserves an
entry of a **channel**, takes memory of the **pushbuffer**, is submitted, and is finished when the GPU
writes its value to the channel's **tracking semaphore**. What somebody has to wait for is kept in
**trackers**. A process gives its page tables to a GPU by registering a *GPU VA space* and its own
channels with a **VA space**, which lives between the process's memory descriptor (*mm*) and the open
file. Faults and access counter notifications raise **interrupts**, whose bottom halves and other
deferred work run on **nv-kthread-q** queues. RM talks to the GPU's system processor (GSP) through
records on a pair of **msgq** rings in shared memory.

| Component | State | Operations | What makes it hard |
|---|---|---|---|
| nv-kthread-q (`kernel-open/nvidia/nv-kthread-q.c`) | list, counting semaphore, exit flag, kthread | init, schedule, flush, stop, the main loop | `up()` after the lock is dropped; callbacks that reschedule themselves; flush items on a stack; stop against late items |
| pushbuffer (`uvm_pushbuffer.c`) | idle and available bitmaps; per chunk a list of pending GPFIFO entries, the on-going push, the next start | begin, end, mark completed | ring space reclaimed out of order; a start read outside the lock; full looks like empty; errors while claiming |
| tracking semaphore (`uvm_gpu_semaphore.c`) | 32-bit payload, 64-bit completed value, lock | update, is completed, wait | the payload wraps; lock-free readers; late stores |
| channels (`uvm_channel.c`, `uvm_push.c`) | put, get, current pushes, GPFIFO entries, push infos, pool lock | reserve, begin, end, update progress, destroy | room counted in one critical section and used in another; stale completed values; GPU faster than the CPU; waits in a circle; errors half way |
| trackers (`uvm_tracker.c`) | entry lists, static and allocated storage | init, reserve, add, merge, overwrite, remove completed, wait, wait for other GPUs | failing allocations; entries completing while they are counted; racing errors |
| VA space, user channels, mm (`uvm_va_space.c`, `uvm_va_space_mm.c`, `uvm_user_channel.c`) | GPU VA spaces and their states, page directories, channel lists, retain count of the mm | register and unregister, bind, stop, destroy; retain and release; two shutdowns; faults | the VA space lock is dropped between the steps of every call; process exit races with ioctls and with file close; instance pointers reused while faults are in the buffer |
| interrupts (`uvm_gpu_isr.c`, with removal in `uvm_gpu.c` and suspend in `uvm_global.c`) | service locks, disable counts, GPU reference count, partition table, bottom-half queue | top half, three bottom halves, lock and unlock, enable and disable, ignore, suspend, resume, removal | a lock taken by the top half and released by the bottom half; counts that several callers share; removal while interrupts are under way |
| msgq (`src/common/shared/msgq/msgq.c`) | read and write pointers in shared memory, cached counts on both sides | create, link, get space, submit, get available, mark consumed | stale cached counts; arbitrary order of linking; full and empty |
| GSP queues (`message_queue_cpu.c`) | sequence numbers, staging area, the ring | init, send command, receive status | records of several elements; stores that become visible late; time-outs after part of a record |
| everything else | | | see "What is not modelled" |

Correctness, in a sentence each: queued work runs, and flush and stop keep their promises; memory the
GPU may still read is never written; nobody is told that work is complete before it is; no GPFIFO
entry or push info is used twice; no dependency is lost; once a shutdown has returned nothing reaches
the process's memory any more; interrupts are on exactly when somebody will serve them, and a bottom
half finds what it works on alive; the receiver of a ring sees exactly what was sent, in order, whole;
and whoever waits gets an answer.

## 2. Modules

| Module | Models | Extends / instantiates |
|---|---|---|
| `WorkQueue` | abstract: what a work queue promises its clients | |
| `KthreadQ` | nv-kthread-q | implements `WorkQueue` |
| `Pushbuffer` | the pushbuffer | |
| `CompletionCounter` | abstract: a completion counter that does not wrap | |
| `TrackingSemaphore` | the semaphore's counter | implements `CompletionCounter` |
| `Channel` | channels and pushes composed with the pushbuffer, their semaphores taken as counters | extends `Pushbuffer`, instantiates `CompletionCounter` |
| `Tracker` | trackers | |
| `MmGate` | abstract: retaining an mm against its shutdowns | |
| `VaSpaceState`, `VaSpace` | VA spaces, GPU VA spaces, user channels, faults and the two shutdowns; the state and the questions asked of it, and the steps | implements `MmGate` |
| `GpuIsr` | interrupt handling of one parent GPU with removal, suspend and resume | uses `WorkQueue` |
| `BoundedFifo` | abstract: a bounded FIFO | |
| `MsgQueue` | both ends of one direction of a msgq | implements `BoundedFifo` |
| `GspQueue` | records over a `MsgQueue` | extends `MsgQueue` |
| `MC*` | the instances for TLC | |
| `VaSpaceInv` | the inductive invariant of `VaSpace` | extends `VaSpaceState` |
| `KthreadQProofs`, `PushbufferProofs`, `ChannelProofs`, `VaSpaceProofs`, `GpuIsrProofs`, `GpuIsrParentProofs`, `MsgQueueProofs` (also of `GspQueue`), `UvmProofs` (of `TrackingSemaphore` and `MmGate`) | theorems | |

Definitions keep the names of the functions they model. A function that runs without a point at which
another thread can interfere is one action; otherwise each critical section, lock-free read and store is
an action of its own. Definitions whose comment begins with "Mutant:" are the faulty variants that each
property was tried against; no specification uses them.

**KthreadQ.** The state is `q_list`, `q_sem`, `should_exit`, `q_kthread`; `kpc` and `kitem` are the
position and the item of `_main_loop`; `pc`, `op`, `arg`, `round` are the positions of callers, of
which the running callback is one. A flush item lives on its caller's stack and is named by the caller.
`direct` and `indirect` are ghosts: which flushes owe their caller an item because it was there when they
were called, or because such an item scheduled it. Callers keep the rules of the header: no call races
with a stop, and who stops the queue first tells callbacks not to reschedule (`no_resched`).

**Pushbuffer.** Per chunk: `pending_gpfifos` (offset and size), `current_push`, `next_push_start`. Sizes are
small numbers; the ring arithmetic of `gpu_get`, `cpu_put` and `update_chunk` is that of the code.
`status` is what `uvm_channel_manager_check_errors` answers. `claim_chunk` is split into its tries and
its error check, so the try after an error is there.

**TrackingSemaphore.** `payload` is `gpu_done % W` in memory (W stands for 2^32), `completed_value` is the
widened counter. `Window` is the number of pushes a channel may have pending, smaller than W by the
size of the GPFIFO. `seen[t]` is the largest value thread t was told is complete.

**Channel.** `reserve` (with its spin), `begin` (pushbuffer, then push info), `end` (submit under the
pool lock, list the entry in the pushbuffer, unlock) and `update_progress` (lock-free read of the
semaphore, lock, entry by entry, unlock) are steps of pushes and *updaters*, the threads that call
`update_progress`. `GpuRun` executes the next entry once the semaphore it acquires has been
released; a push acquires a value that is already submitted, as a tracker entry is. With
`ChErrorSpec` a channel error fails reservations and begins, and channels are destroyed: with work pending after an
error, or when the GPU has run everything.

**Tracker.** An entry is a channel and a value. One step makes one read of a semaphore, of a channel's
status or of the global error, so the GPU runs between any two. `needs` is a ghost: what callers rely
on a tracker to wait for. Allocations may fail at every call. The ECC status of a GPU and the error
notifier of a channel are set at any moment.

**VaSpace.** Users are threads that make ioctls, some of them (`Owners`) of the process that owns the mm;
`exit` and `close` are the two callers of `uvm_va_space_mm_shutdown`, `bh` is the fault bottom half. Every section under
the VA space lock is one step. A GPU VA space goes through the states of
`uvm_gpu_va_space_state_t`; its page directory is set and unset outside the lock. The instance pointer of a channel is
reused as soon as the channel is freed, and `faults` names instance pointers, so an old fault could reach a new channel.

**GpuIsr.** One parent GPU with several partitions (SMC). The top half is three steps under
`interrupts_lock` after its look-up; each bottom half takes, finds a GPU, locks where it has to, services,
unlocks, and drops its reference. `Users` are VA spaces that flush buffers and enable or disable access counters;
`pm` suspends and resumes, `rem` removes one partition after the other. The bottom halves' queue is the
`WorkQueue` that `KthreadQ` implements. A thread takes a service lock, and the interrupts' disable count, in one step
and does its work under the lock in another.

**MsgQueue and GspQueue.** One direction: sender state `txFree`, `txLinked`, `txSwapped`, receiver state
`rxAvail`, `rxLinked`, shared `mem`, `writePtr`, `readPtr`. The sender finds the receiver's read pointer
in the header of the other direction; until it has linked that, it reads a word nobody writes
(`txSwapped = 0`). The ends link in any order. `GspQueue` adds records of several elements: in a behaviour
with `fenced` the elements are in memory before the write pointer is (the code's memory fence); without it
they are in `stores` and land later, which the receiver's checksum is there for. The firmware's end
is not in the repository: it is taken to do what the CPU's end does.

## 3. Runs

Run one with `tlc -workers 2 -config <cfg> <module>`. All passing runs are exhaustive.

| Run | cfg | Distinct states | Question |
|---|---|---|---|
| `kthread_q` | `MCKthreadQ.cfg` | 50,371 | Two callers and an item whose callback reschedules it. `NeverEmptyTake`: the kthread never finds the list empty. `FlushComplete`: flush waits for what was there and for what that scheduled. `NoDanglingItem`: no flush item outlives its frame. `QueueRefined`: the queue is a `WorkQueue`, so a stop drops no item. `CallsReturn`. |
| `pushbuffer_ring` | `MCPushbuffer.cfg` | 874,653 | Three threads, two chunks of four units, pushes of up to two, three GPFIFO entries, completion in any order, an error at any moment. `WriteIsSafe`: no overlap with memory the GPU may read. `BitmapsExact`: the bitmaps are what the header says. |
| `semaphore` | `MCTrackingSemaphore.cfg` | 247,328 | A payload that wraps at three, two threads. `NeverEarly`: nobody is told too early. `CounterRefined`: the counter implements one that does not wrap. `WaitReturns`. |
| `channel_safety` | `MCChannel_safety.cfg` | 397,562 | Two channels in one pool, two pushers and two updaters, one chunk, errors and destruction. `SlotIntact`, `UnfinishedPending`, `PushInfoFree`: no entry, memory or push info is reused early. `DestroyedClean`: a destroyed channel leaves nothing in the pushbuffer. `PushbufferUsed`: the channels keep to the specification of the pushbuffer, and call it only when its functions allow it (`CallsAllowed`); in particular an entry that `update_progress` comes to mark is listed, also when the GPU has finished its push before `uvm_channel_end_push` listed it. `CountersUsed`: nor do they ask more of a semaphore than its specification allows. |
| `channel_live` | `MCChannel_live.cfg` | 3,840 | The tightest case, one push of memory and one entry per channel. `PushFinishes`, `AllRun`: neither pushers nor channels wait in a circle. |
| `tracker_safety` | `MCTracker_safety.cfg` | 1,835,160 | Two trackers, two channels on two GPUs. `NothingLost`: no dependency disappears unless the driver is in a global error. `StorageSuffices`: what was reserved is enough. |
| `tracker_live` | `MCTracker_live.cfg` | 72,392 | `CallsReturn`, also when the awaited channel fails. |
| `msgq_ring` | `MCMsgQueue.cfg` | 3,521 | A ring of five. `FreeIsSafe`, `FifoRefined`: the ring is a FIFO although both sides trust old counts and link in any order. |
| `gsp_records` | `MCGspQueue.cfg` | 56,988 | Records of one or two elements on a ring of three, with and without the fence. `NextRecordOnly`: what is accepted is the oldest record, whole. `RingUsed`: with the fence both ends keep to msgq's operations. `RecordsArrive`. |
| `va_space` | `MCVaSpace.cfg` | 69,194 | Two threads, one of them of the process that owns the mm, two GPU VA spaces and a channel that faults, process exit and file close. `QuietAfterShutdown`: after the mm's shutdown nothing uses the mm. `RunningIsRegistered`. `NoStaleFault`: no old fault reaches a new channel. `NobodyAfterFree`. `GateKept`: the VA space implements `MmGate`. `TeardownEnds`. |
| `gpu_isr` | `MCGpuIsr.cfg` | 104,125 | Two partitions, three handlers, a VA space that flushes buffers and enables access counters, suspend, resume, removal. `IntrExact`, `NoStorm`: interrupts are on when they should be, and off while their lock is taken. `KrefExact`: references are balanced. `BottomHalfSafe`. `AsleepQuiet`: nothing runs when suspended. `QueueUsed`: the queue is used as it allows. `FaultsServed`, `IsrCallsReturn`. |
| `isr_leak` | `MCGpuIsr_leak.cfg` | violation | `BottomHalfReleases`, see Findings. |

**Bounds.** `MaxCallbackCalls` (1): a callback may reschedule its item, which is what the second flush is for.
`CHUNK_SIZE`, `MAX_PUSH`: a chunk holds several pushes, whose sizes differ, so pushes wrap around and leave gaps
at its end. `W`, `Window`, `MAX_VALUE`: the payload wraps and a full window of pushes may complete between two
updates. `num_gpfifo_entries` (2): the smallest that "one entry stays free" allows; full and empty are one step
apart. `MAX_PUSHES` bounds all pushes of a run; the third push of a channel reuses an entry. `MAX_COMPLETE` is
the number of entries one `update_progress` completes. `FIRST_SIZE` (2 instead of 8): a tracker outgrows its
static entry. `SEQ_MOD` (4): sequence numbers wrap, but not within the records a ring can hold.
`MAX_ELEMENTS` (2), `MAX_TIMEOUTS` (1). `MAX_OPS` (5) bounds the ioctls of `va_space`; with one channel that is enough to
register, bind, unregister and register again on both spaces while the shutdowns run. `BUSY_PARTITIONS` (1): VA spaces
make calls only when no more partitions than this are left. The theorems of section 4 have none of these bounds.
Larger instances that were also exhausted: `VaSpace` with two channels and four ioctls (94,770 states), with five (241,810);
`GpuIsr` with `BUSY_PARTITIONS` 2 (764,368); `KthreadQ` with two items (940,059); the invariant of `GspQueue` with a
ring of four and records of up to three elements (3,131,491).

**Deadlock** is checked everywhere but in `channel_safety` and `va_space`, where everything ends: the bound is
used up and channels are destroyed, or the VA space is freed.

**Symmetry** is used only for model values that no definition distinguishes, and in no run with a
liveness property.

**Fairness.** Threads inside a call are scheduled (weak fairness of each step); callbacks return. Where
a step needs a lock other threads keep taking, fairness is strong: the kernel's spinlocks, rw-semaphores and
semaphores queue, so who keeps asking gets the lock. That is why `ReadPayload`, the pool lock's users in `Channel`, the
callers and shutdowns of `VaSpace` and the lock holders of `GpuIsr` have it. The GPU executes what it is given. In `channel_live` the
updater calls `update_progress` for every channel again and again, as `uvm_channel_reserve` and
`claim_chunk` do while they wait, and the owner of a push ends it. In `gpu_isr` a raised interrupt is delivered while it is enabled.
In `gsp_records` the receiver is called again and again (interrupts, or polling for an answer) and stores reach memory. No fairness is
assumed of callers that start a new call, of errors or of failing allocations.

`FaultsServed` is about replayable faults: for non-replayable ones the code itself has an open TODO (Bug 2535118).
`IsrCallsReturn` excepts calls that wait for a lock the finding below leaves taken.

## 4. Proofs

Checked with `tlapm <module>.tla`; every step is proved, for every value of the constants that satisfies the named
assumptions. `PROJECT.json` lists the theorems. The proofs all go the same way: an inductive invariant, checked with TLC
on small instances first, one step per action, and where actions have much in common a lemma that reduces them to the effect they share.

The lemma `Untyped` that some modules state is no fact about the system. tlapm infers types for its SMT backend,
and in modules with many variables the inference takes longer than the proof; a `CASE` in sight makes it fall back
to an untyped translation.

**KthreadQProofs** (assumes finitely many callers): `NeverEmpty`, `FlushIsComplete`, `NothingDangles`, `QueueIsRefined`. `NeverEmptyTake` is the
comment in `_main_loop`, "The q_sem semaphore prevents us from getting here unless there is at least one item in
the list". `SemCounts` accounts for every listed item by one unit of the
semaphore, one actor between adding and `up()`, or the kthread between `down()` and taking (and for the
extra unit of a stop); `Places` says where actors can be when the exit flag is raised or there is no
kthread. The lemmas on `Ups`, the actors about to call `up()`, carry the cardinality argument.
For flush and stop: no item is listed twice (`Once`), calls are where their items are (`Calls`), what is owed to a flush is
ahead of the item it waits for (`Owed`), and the flush inside a stop is owed all that waits or runs (`Emptied`). Then the list is
empty and no callback runs when the queue closes, which is what `WorkQueue` asks of the step.

**PushbufferProofs** (any number of chunks and pushes, any sizes with `MAX_PUSH <= CHUNK_SIZE`): `PbWriteIsSafe` and `PbBitmapsExact` from
`PbInvariant`. The pending entries of a chunk are not in the order of their offsets: they are in ring order, that is
going round the chunk from the first one meets the others in the order of the list (`Ring`, `Cyclic`), and the worst-case space of an on-going push comes after the last (`Fits`). A chunk belongs to one push
from its claim to its end, and without an on-going push the bitmaps are what `update_chunk` would make them of the list. That makes it enough to call
`update_chunk` for the first and the last entry only.

**ChannelProofs** (any number of channels, pools, entries, pushes and updaters; pushes and updaters are different threads): `ChInvariant`, and from it
`ChSlotIntact`, `ChUnfinishedPending`, `ChPushInfoFree`, `ChDestroyedClean`, `ChPushbufferUsed` and `ChCountersUsed`. The invariant counts, for each channel, the pushes
that have ended (e), whose entries are free (g), and whose entries the update under way has freed (f). `cpu_put`, `gpu_get` and `uget` are these counts modulo
the number of entries, the entries pending are those from f to e, and reservations and push infos add up (`Counted`; `Sized` is a finite set's size as a
bijection). So indices never have to be compared across a wrap-around. `ChPushbufferUsed` contains the pushbuffer's own specification, so `PbWriteIsSafe` and
`PbBitmapsExact` hold of the channels' pushbuffer as well.

**UvmProofs**, the semaphore (assumes Window < W, the comment of `update_completed_value_locked`): `SemNeverEarly` and
`SemRefinesCounter`, for every width W, every window and every set of
threads. The arithmetic is in `WidenExact`: widening `d % W` against an older value less than W behind
yields d. The invariant `SemInv` adds that the payload is `gpu_done % W`, the order
completed <= done <= queued within the window (`Ordered`), and what the thread that holds the lock knows (`Locked`).

**MsgQueueProofs**, the ring (assumes N > 0): `MqFreeIsSafe`, `MqAvailIsSafe` and `MqRefinesFifo`. `Unlinked` says what
is known while a side is not linked; in particular that a
sender that has not linked back cannot have wrapped around. The refinement goes through `InOrder`, which gives the i-th message under way
as the buffer i - 1 places after the read pointer.

**MsgQueueProofs**, the records (assumes a sequence number range longer than the ring, and that a record fits in
the ring): `GspNextRecordOnly` and `GspRingUsed`. The invariant `GspInv` counts buffers from the first one that is not consumed.
The records under way fill the ring from there one after the other (`RingInv`), each element being in memory or in a store under
way. Without the fence a buffer whose store has not landed is *stale* (`StaleInv`): it holds zeroes, or a sequence number of
one of the last N accepted records. Those are not the one expected next, because numbers wrap later than the ring (`BackDiffers`).
So what passes the check of the sequence number has landed, its first element is that of the oldest record, and by the checksum the rest is too
(`NextOnly`). With the fence stores under way go to free buffers only, also those left by a record that timed out (`SendInv`), so their landing is
msgq's `FillBuffer`.

**UvmProofs**, the gate: `GateCorrect`, and that no thread holds the mm once any shutdown has returned.

**VaSpaceProofs** (any number of threads, GPU VA spaces and channels): `VsQuietAfterShutdown`, `VsRunningIsRegistered`,
`VsNoStaleFault`, `VsNobodyAfterFree`, and `VsGateKept`, the refinement of `MmGate`. The invariant (`VaSpaceInv`) says where each thread can be
and who has the lock; that the retain count is the number of holders; that each GPU VA space in creation has one owner and each
channel is in one hand; that running channels are listed in a registered space that may have channels; that `num_pending` counts the threads between removing
and destroying; that whoever set a page directory will unset it, and did so holding the mm or belonging to its process; and that what a
shutdown has unset or waited for does not come back. The proof first shows that effects (a thread moves on, a channel changes
hands, a space is removed) keep the invariant, and then that each action has one of these effects.

**GpuIsrProofs** (any number of VA spaces and partitions): `IsrIntrExact` and `IsrNoStorm`. `IsrInv` has the disable counts as
sums over those who have asked, and locks belonging to who works under them. Interrupts are exact although `handling_ref_count` is read under
another lock than it is written under, because who writes it has the interrupts disabled by a count of its own.
**GpuIsrParentProofs** builds on it: `IsrKrefExact`, `IsrBottomHalfSafe`, `IsrAsleepQuiet`, and `IsrQueueUsed`, that the interrupt code
is a client `WorkQueue` allows. `ParInv` says where everyone can be, what a flush of the queue has drained (`DrainInv`), which
partitions the removal has passed (`RemInv`) and the bottom half may still find (`GpuInv`), how often notifications are ignored, and
who holds a reference (`KrefOf`).

Only model-checked: all liveness (`CallsReturn` of `KthreadQ` and of `Tracker`, `WaitReturns`, `PushFinishes`, `AllRun`, `RecordsArrive`, `TeardownEnds`,
`FaultsServed`, `IsrCallsReturn`), since fairness and ENABLED are out of the prover's reach; and `NothingLost` and `StorageSuffices` of `Tracker`, whose merge of
entry lists is written with folds: what a fold computes needs an induction that the prover cannot make.

## 5. Findings

* `uvm_gpu_isr.c:102-104` says that the bottom half releases the lock its top half took. A replayable-fault bottom
  half for which `find_first_valid_gpu` returns no GPU leaves by `goto put_kref` (line 487) and does not. It happens when a
  removal clears the valid bit after the top half scheduled the bottom half; the same removal later waits for that lock (`isr_leak`).

Observations that no comment or test contradicts, so they are modelled as they are:

* `claim_chunk` and `uvm_channel_reserve` try once more after they saw a channel error and return the error
  although the try succeeded; the chunk stays claimed and the reservation counted.
  `uvm_channel_begin_push` does not take the reservation back either when it fails. A channel
  error is fatal for the driver, so only what is torn down afterwards is affected.
* The assertion `status == uvm_global_get_status()` after the waits of `uvm_tracker.c` compares two
  values that an ECC error and a channel error may set in either order.

## 6. What is not modelled

Left out inside modelled components:

* everywhere: procfs output, logging, statistics, argument checks that a caller cannot fail;
* pushbuffer: the `on_complete` callback of a push, which `uvm_pushbuffer_mark_completed` makes before it takes the pushbuffer's lock;
* channels: channel manager creation and engine choice. In an orderly teardown all channels are idle when the first is destroyed; in
  the model only the one destroyed has to be;
* kthreads: `thread_create_on_node`'s placement;
* msgq: cache maintenance callbacks, and the checks that the other side's pointer is within the ring, which hold as long as the other end runs this code;
* GSP queues: allocation and cleanup of their memory. `_checkSum32` is a 32-bit XOR and is modelled as exact: it is 0 for the elements of one record in their order and for
  nothing else. `NextRecordOnly` without the fence relies on that; with it, nothing else is read. What the firmware does with the gap in the sequence
  numbers that a time-out leaves is not in the repository, so `RecordsArrive` speaks of the record the receiver expects;
* VA spaces: the mmap lock, GPU registration and peers, test ioctls, the duplicate-handle check of `find_user_channel`, the VA ranges of channel
  resources. A fault comes from a bound channel (the runlist TODO of Bug 1737765 is about others). Failures of `create_gpu_va_space` and of
  the ATS registration are one failure of the registration, and whether a GPU VA space uses ATS is fixed when its registration begins. That the shutdown waits for ATS is modelled for threads of the owning process;
* interrupts: `kill_channel_q`, adding a GPU again, `destroy_nvlink_peers`, the early returns under `CONFIG_DEBUG_SHIRQ` and for a GPU without UUID,
  the second round of the queue's flush (no bottom half reschedules itself). `find_first_valid_gpu` has one form: `valid` stands for
  the valid bits with SMC, and for the GPU's place in the table without; the assertion of the latter branch, that the GPU is there, is left out. Closing the queue (`nv_kthread_q_stop`) and the trackers' synchronisation after it are one step. With more than two
  partitions their trackers are synchronised once for all. One top half runs at a time, as the interrupt line is
  not re-entrant. Access counters are taken as supported.

Components that are not modelled are listed in `PROJECT.json` with the reason for each: the memory manager, page tables and VA
blocks, RM proper, NVLink, NVSwitch, DisplayPort and display. Hardware programming and generated code have no
protocol to check; some of the others are too large to come before the parts they rest on.

## 7. Plan

1. Proofs: `NothingLost` and `StorageSuffices` of `Tracker`, with its merge as steps instead of folds.
2. `SemaphorePool` (free count against bitmaps), the fault buffer ring, the range allocator against a reference definition.
3. RPC polling of `kernel_gsp.c` on `GspQueue`; then the event buffers shared with user space.
