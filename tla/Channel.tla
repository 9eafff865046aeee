------------------------------ MODULE Channel ------------------------------
(***************************************************************************)
(* UVM channels (kernel-open/nvidia-uvm/uvm_channel.c) on top of the       *)
(* pushbuffer they share.  A push reserves a GPFIFO entry of a channel,    *)
(* begins in the pushbuffer, takes a push info, is written by its owner,   *)
(* and is submitted to the GPU.  Whoever needs space or waits calls        *)
(* uvm_channel_update_progress, which frees what the GPU has finished.     *)
(*                                                                         *)
(* A thread holds pool->lock from EndSubmit to EndFinish and from UpdLock  *)
(* to UpdUnlock; the GPU and the users of the pushbuffer's own lock run    *)
(* meanwhile.  The tracking semaphore is the CompletionCounter that        *)
(* TrackingSemaphore is shown to implement.  A push may acquire the        *)
(* semaphore of another channel, so that the GPU runs it after a push of   *)
(* that channel (uvm_push.c).                                              *)
(***************************************************************************)
EXTENDS Pushbuffer

CONSTANTS Channels,
          PoolOf,         \* PoolOf[c]: the pool of channel c
          num_gpfifo_entries,
          Updaters,       \* calls of update_progress that may overlap
          MAX_COMPLETE,   \* max_to_complete of one such call
          MAX_PUSHES       \* bound on the pushes of all channels

Pools == {PoolOf[c] : c \in Channels}
Slots == 0 .. (num_gpfifo_entries - 1)

ASSUME ChannelConstants ==
    /\ num_gpfifo_entries \in Nat \ {0, 1}
    /\ MAX_COMPLETE \in Nat \ {0}
    /\ MAX_PUSHES \in Nat
    /\ Gpfifos = Channels \X Slots
    /\ NONE \notin Channels \cup Updaters
    /\ Pushes \cap Updaters = {}

VARIABLES
    queued_value, completed_value,   \* of the channel's tracking semaphore
    gpu_done,                        \* pushes of the channel the GPU has run
    cpu_put, gpu_get, current_pushes_count,
    entry_value,            \* gpfifo_entries[i].tracking_semaphore_value
    entry_info,             \* gpfifo_entries[i].push_info, as an index
    entry_acquire,          \* what the push of entry i acquires, or NONE
    available_push_infos,
    pool_lock,              \* pool_lock[pool]: the holder, or NONE
    step,                   \* step[p]: where the push is
    wanted,                 \* wanted[p]: the channels the push may use
    push_channel, push_info_index, push_acquire, push_size,
    destroyed,              \* channels that channel_destroy has emptied
    ustep, umode, uchannel, uvalue, uget, ucount   \* update_progress_with_max

semaphoreVars == <<queued_value, completed_value, gpu_done>>
fifoVars == <<cpu_put, gpu_get, current_pushes_count, entry_value, entry_info,
              entry_acquire, available_push_infos>>
ownerVars == <<step, wanted, push_channel, push_info_index, push_acquire, push_size>>
updateVars == <<destroyed, ustep, umode, uchannel, uvalue, uget, ucount>>
chVars == <<pbVars, semaphoreVars, fifoVars, pool_lock, ownerVars, updateVars>>

\* channel_create
ChInit ==
    /\ PbInit
    /\ queued_value = [c \in Channels |-> 0]
    /\ completed_value = [c \in Channels |-> 0]
    /\ gpu_done = [c \in Channels |-> 0]
    /\ cpu_put = [c \in Channels |-> 0]
    /\ gpu_get = [c \in Channels |-> 0]
    /\ current_pushes_count = [c \in Channels |-> 0]
    /\ entry_value = [c \in Channels |-> [i \in Slots |-> 0]]
    /\ entry_info = [c \in Channels |-> [i \in Slots |-> 0]]
    /\ entry_acquire = [c \in Channels |-> [i \in Slots |-> NONE]]
    /\ available_push_infos =
          [c \in Channels |-> [i \in 1..num_gpfifo_entries |-> i - 1]]
    /\ pool_lock = [pool \in Pools |-> NONE]
    /\ step = [p \in Pushes |-> "idle"]
    /\ wanted = [p \in Pushes |-> {}]
    /\ push_channel = [p \in Pushes |-> NONE]
    /\ push_info_index = [p \in Pushes |-> num_gpfifo_entries]
    /\ push_acquire = [p \in Pushes |-> NONE]
    /\ push_size = [p \in Pushes |-> 0]
    /\ destroyed = {}
    /\ ustep = [u \in Updaters |-> "idle"]
    /\ umode = [u \in Updaters |-> "COMPLETED"]
    /\ uchannel = [u \in Updaters |-> NONE]
    /\ uvalue = [u \in Updaters |-> 0]
    /\ uget = [u \in Updaters |-> 0]
    /\ ucount = [u \in Updaters |-> 0]

Locked(c) == pool_lock[PoolOf[c]] # NONE

NextSlot(i) == (i + 1) % num_gpfifo_entries

-----------------------------------------------------------------------------
(* Reserving a channel and beginning a push *)

\* A caller asks for a channel of a pool (uvm_channel_reserve_type) or for a
\* given channel (uvm_channel_reserve).
StartPush(p, S) ==
    /\ step[p] = "idle"
    /\ S \cap destroyed = {}
    /\ step' = [step EXCEPT ![p] = "reserving"]
    /\ wanted' = [wanted EXCEPT ![p] = S]
    /\ UNCHANGED <<pbVars, semaphoreVars, fifoVars, pool_lock, push_channel,
                   push_info_index, push_acquire, push_size, updateVars>>

\* Mutant: pushes that have begun and not ended are not counted.
AvailableIgnoringPushes(c) == (cpu_put[c] + 1) % num_gpfifo_entries # gpu_get[c]

channel_is_available(c) ==
    (cpu_put[c] + current_pushes_count[c] + 1) % num_gpfifo_entries # gpu_get[c]

ClaimedOn(c) == current_pushes_count' = [current_pushes_count EXCEPT ![c] = @ + 1]

claimFrame == <<pbVars, semaphoreVars, cpu_put, gpu_get, entry_value, entry_info,
                entry_acquire, available_push_infos, pool_lock, push_info_index,
                push_acquire, push_size, updateVars>>

\* try_claim_channel, when it succeeds
try_claim_channel(p, c) ==
    /\ step[p] = "reserving"
    /\ c \in wanted[p]
    /\ ~Locked(c)
    /\ channel_is_available(c)
    /\ ClaimedOn(c)
    /\ push_channel' = [push_channel EXCEPT ![p] = c]
    /\ step' = [step EXCEPT ![p] = "reserved"]
    /\ UNCHANGED <<wanted, claimFrame>>

\* Both reserve loops: try_claim_channel fails for a channel
ReserveTryFails(p) ==
    /\ step[p] = "reserving"
    /\ \E c \in wanted[p] : ~Locked(c) /\ ~channel_is_available(c)
    /\ step' = [step EXCEPT ![p] = "checking"]
    /\ UNCHANGED <<current_pushes_count, wanted, push_channel, claimFrame>>

\* Both reserve loops: uvm_channel_check_errors.  channel_reserve_in_pool returns
\* the error; uvm_channel_reserve, for one channel, first evaluates its loop
\* condition again.
ReserveChecks(p) ==
    /\ step[p] = "checking"
    /\ \/ /\ status = "NV_OK"
          /\ step' = [step EXCEPT ![p] = "reserving"]
          /\ UNCHANGED wanted
       \/ /\ status # "NV_OK"
          /\ step' = [step EXCEPT ![p] = "idle"]
          /\ wanted' = [wanted EXCEPT ![p] = {}]
       \/ /\ status # "NV_OK"
          /\ Cardinality(wanted[p]) = 1
          /\ step' = [step EXCEPT ![p] = "failing"]
          /\ UNCHANGED wanted
    /\ UNCHANGED <<current_pushes_count, push_channel, claimFrame>>

\* uvm_channel_reserve: the last call of try_claim_channel; the error is returned
\* whatever that call did.
ReserveLastTry(p, c) ==
    /\ step[p] = "failing"
    /\ c \in wanted[p]
    /\ ~Locked(c)
    /\ IF channel_is_available(c) THEN ClaimedOn(c) ELSE UNCHANGED current_pushes_count
    /\ step' = [step EXCEPT ![p] = "idle"]
    /\ wanted' = [wanted EXCEPT ![p] = {}]
    /\ UNCHANGED <<push_channel, claimFrame>>

\* uvm_channel_begin_push: the pushbuffer's part
BeginInPushbuffer(p) ==
    /\ step[p] = "reserved"
    /\ stage[p] # "failed"
    /\ uvm_pushbuffer_begin_push(p)
    /\ UNCHANGED <<semaphoreVars, fifoVars, pool_lock, ownerVars, updateVars>>

\* uvm_channel_begin_push returns the pushbuffer's error; the reservation is
\* not undone.
BeginPushFails(p) ==
    /\ BeginFail(p)
    /\ step' = [step EXCEPT ![p] = "idle"]
    /\ wanted' = [wanted EXCEPT ![p] = {}]
    /\ push_channel' = [push_channel EXCEPT ![p] = NONE]
    /\ UNCHANGED <<semaphoreVars, fifoVars, pool_lock, push_info_index,
                   push_acquire, push_size, updateVars>>

\* Value of the last push of c that has ended: the highest one a tracker holds
EndedValue(c) ==
    queued_value[c] - Cardinality({p \in Pushes : step[p] = "submitted" /\ push_channel[p] = c})

\* Mutant: a push acquires work that has not been submitted.
AcquirableNext(p) ==
    {NONE} \cup {<<c, queued_value[c] + 1>> : c \in Channels \ {push_channel[p]}}

\* A tracker's entry for another channel than the push's own
\* (push_acquire_tracker_entry), if its work may still be running
Acquirable(p) ==
    {NONE} \cup {<<c, EndedValue(c)>> :
                     c \in {d \in Channels \ {push_channel[p]} : EndedValue(d) > completed_value[d]}}

\* Mutant: the push info stays in the list.
TakeWithoutRemoval(p) ==
    LET c == push_channel[p] IN
    /\ step[p] = "reserved"
    /\ stage[p] = "ongoing"
    /\ ~Locked(c)
    /\ push_info_index' = [push_info_index EXCEPT ![p] = Head(available_push_infos[c])]
    /\ \E a \in Acquirable(p) : push_acquire' = [push_acquire EXCEPT ![p] = a]
    /\ step' = [step EXCEPT ![p] = "open"]
    /\ UNCHANGED <<pbVars, semaphoreVars, fifoVars, pool_lock, wanted, push_channel,
                   push_size, updateVars>>

\* uvm_channel_begin_push: channel_get_available_push_info_index; then
\* uvm_push_acquire_tracker
TakePushInfo(p) ==
    LET c == push_channel[p] IN
    /\ step[p] = "reserved"
    /\ stage[p] = "ongoing"
    /\ ~Locked(c)
    /\ push_info_index' = [push_info_index EXCEPT ![p] = Head(available_push_infos[c])]
    /\ available_push_infos' = [available_push_infos EXCEPT ![c] = Tail(@)]
    /\ \E a \in Acquirable(p) : push_acquire' = [push_acquire EXCEPT ![p] = a]
    /\ step' = [step EXCEPT ![p] = "open"]
    /\ UNCHANGED <<pbVars, semaphoreVars, cpu_put, gpu_get, current_pushes_count,
                   entry_value, entry_info, entry_acquire, pool_lock, wanted,
                   push_channel, push_size, updateVars>>

-----------------------------------------------------------------------------
(* uvm_channel_end_push *)

\* Up to the write of GPPUT: the GPU may run the push from here on.
EndSubmit(p, size) ==
    LET c == push_channel[p] IN
    /\ step[p] = "open"
    /\ ~Locked(c)
    /\ pool_lock' = [pool_lock EXCEPT ![PoolOf[c]] = p]
    /\ queued_value' = [queued_value EXCEPT ![c] = @ + 1]
    /\ entry_value' = [entry_value EXCEPT ![c][cpu_put[c]] = queued_value[c] + 1]
    /\ entry_info' = [entry_info EXCEPT ![c][cpu_put[c]] = push_info_index[p]]
    /\ entry_acquire' = [entry_acquire EXCEPT ![c][cpu_put[c]] = push_acquire[p]]
    /\ current_pushes_count' = [current_pushes_count EXCEPT ![c] = @ - 1]
    /\ push_size' = [push_size EXCEPT ![p] = size]
    /\ step' = [step EXCEPT ![p] = "submitted"]
    /\ UNCHANGED <<pbVars, completed_value, gpu_done, cpu_put, gpu_get,
                   available_push_infos, wanted, push_channel, push_info_index,
                   push_acquire, updateVars>>

\* Mutant: the lock is dropped before the pushbuffer is told of the entry, which
\* push_acquire[p] remembers.
EndUnlocksEarly(p) ==
    LET c == push_channel[p] IN
    \/ /\ step[p] = "submitted"
       /\ cpu_put' = [cpu_put EXCEPT ![c] = NextSlot(@)]
       /\ pool_lock' = [pool_lock EXCEPT ![PoolOf[c]] = NONE]
       /\ push_acquire' = [push_acquire EXCEPT ![p] = <<c, cpu_put[c]>>]
       /\ step' = [step EXCEPT ![p] = "unlocked"]
       /\ UNCHANGED <<pbVars, semaphoreVars, gpu_get, current_pushes_count, entry_value,
                      entry_info, entry_acquire, available_push_infos, updateVars,
                      wanted, push_channel, push_info_index, push_size>>
    \/ /\ step[p] = "unlocked"
       /\ uvm_pushbuffer_end_push(p, push_acquire[p], push_size[p])
       /\ push_channel' = [push_channel EXCEPT ![p] = NONE]
       /\ push_info_index' = [push_info_index EXCEPT ![p] = num_gpfifo_entries]
       /\ push_acquire' = [push_acquire EXCEPT ![p] = NONE]
       /\ push_size' = [push_size EXCEPT ![p] = 0]
       /\ wanted' = [wanted EXCEPT ![p] = {}]
       /\ step' = [step EXCEPT ![p] = "idle"]
       /\ UNCHANGED <<semaphoreVars, fifoVars, pool_lock, updateVars>>

\* The rest, up to the unlock
EndFinish(p) ==
    LET c == push_channel[p] IN
    /\ step[p] = "submitted"
    /\ uvm_pushbuffer_end_push(p, <<c, cpu_put[c]>>, push_size[p])
    /\ cpu_put' = [cpu_put EXCEPT ![c] = NextSlot(@)]
    /\ pool_lock' = [pool_lock EXCEPT ![PoolOf[c]] = NONE]
    /\ push_channel' = [push_channel EXCEPT ![p] = NONE]
    /\ push_info_index' = [push_info_index EXCEPT ![p] = num_gpfifo_entries]
    /\ push_acquire' = [push_acquire EXCEPT ![p] = NONE]
    /\ push_size' = [push_size EXCEPT ![p] = 0]
    /\ wanted' = [wanted EXCEPT ![p] = {}]
    /\ step' = [step EXCEPT ![p] = "idle"]
    /\ UNCHANGED <<semaphoreVars, gpu_get, current_pushes_count, entry_value,
                   entry_info, entry_acquire, available_push_infos, updateVars>>

SlotOf(v) == (v - 1) % num_gpfifo_entries

\* The GPU runs the next push of a channel, once what it acquires has been
\* released, and releases the channel's semaphore.
GpuRun(c) ==
    /\ c \notin destroyed
    /\ gpu_done[c] < queued_value[c]
    /\ LET a == entry_acquire[c][SlotOf(gpu_done[c] + 1)]
       IN  a # NONE => gpu_done[a[1]] >= a[2]
    /\ gpu_done' = [gpu_done EXCEPT ![c] = @ + 1]
    /\ UNCHANGED <<pbVars, queued_value, completed_value, fifoVars, pool_lock,
                   ownerVars, updateVars>>

-----------------------------------------------------------------------------
(* uvm_channel_update_progress_with_max *)

\* uvm_channel_update_completed_value, before the pool's lock is taken
UpdReadFor(u, c) ==
    /\ ustep[u] = "idle"
    /\ c \notin destroyed
    /\ completed_value' = [completed_value EXCEPT ![c] = gpu_done[c]]
    /\ uvalue' = [uvalue EXCEPT ![u] = gpu_done[c]]
    /\ uchannel' = [uchannel EXCEPT ![u] = c]
    /\ ustep' = [ustep EXCEPT ![u] = "read"]
    /\ UNCHANGED <<pbVars, queued_value, gpu_done, fifoVars, pool_lock,
                   ownerVars, uget, ucount>>

UpdRead(u, c) == UpdReadFor(u, c) /\ UNCHANGED <<destroyed, umode>>

\* channel_destroy, when the GPU has run everything or after an error: nobody pushes
\* to the channel any more, and all its entries are completed, run or not.
channel_destroy(u, c) ==
    /\ status # "NV_OK" \/ gpu_done[c] = queued_value[c]
    /\ \A p \in Pushes : push_channel[p] # c /\ c \notin wanted[p]
    /\ \A v \in Updaters : uchannel[v] # c
    /\ queued_value[c] > 0
    /\ UpdReadFor(u, c)
    /\ umode' = [umode EXCEPT ![u] = "FORCE_ALL"]
    /\ destroyed' = destroyed \cup {c}

UpdLock(u) ==
    LET c == uchannel[u] IN
    /\ ustep[u] = "read"
    /\ ~Locked(c)
    /\ pool_lock' = [pool_lock EXCEPT ![PoolOf[c]] = u]
    /\ uget' = [uget EXCEPT ![u] = gpu_get[c]]
    /\ ucount' = [ucount EXCEPT ![u] = 0]
    /\ ustep' = [ustep EXCEPT ![u] = "loop"]
    /\ UNCHANGED <<pbVars, semaphoreVars, fifoVars, ownerVars, destroyed, umode,
                   uchannel, uvalue>>

\* Mutant: entries are completed whatever their value.
MoreUnchecked(u) == uget[u] # cpu_put[uchannel[u]] /\ ucount[u] < MAX_COMPLETE

\* Mutant: the last completed entry is left for the next call.
MoreStrict(u) ==
    /\ uget[u] # cpu_put[uchannel[u]]
    /\ ucount[u] < MAX_COMPLETE
    /\ entry_value[uchannel[u]][uget[u]] < uvalue[u]

\* Mutant: the mode is ignored.
MoreIgnoringMode(u) ==
    /\ uget[u] # cpu_put[uchannel[u]]
    /\ ucount[u] < num_gpfifo_entries
    /\ entry_value[uchannel[u]][uget[u]] <= uvalue[u]

\* The loop goes on with the entry at uget[u].
MoreToComplete(u) ==
    /\ uget[u] # cpu_put[uchannel[u]]
    /\ ucount[u] < IF umode[u] = "FORCE_ALL" THEN num_gpfifo_entries ELSE MAX_COMPLETE
    /\ umode[u] = "FORCE_ALL" \/ entry_value[uchannel[u]][uget[u]] <= uvalue[u]

UpdMark(u) ==
    LET c == uchannel[u] IN
    /\ ustep[u] = "loop"
    /\ MoreToComplete(u)
    /\ uvm_pushbuffer_mark_completed(<<c, uget[u]>>)
    /\ available_push_infos' =
          [available_push_infos EXCEPT ![c] = Append(@, entry_info[c][uget[u]])]
    /\ uget' = [uget EXCEPT ![u] = NextSlot(@)]
    /\ ucount' = [ucount EXCEPT ![u] = @ + 1]
    /\ UNCHANGED <<semaphoreVars, cpu_put, gpu_get, current_pushes_count,
                   entry_value, entry_info, entry_acquire, pool_lock, ownerVars,
                   destroyed, ustep, umode, uchannel, uvalue>>

UpdUnlock(u) ==
    LET c == uchannel[u] IN
    /\ ustep[u] = "loop"
    /\ ~MoreToComplete(u)
    /\ gpu_get' = [gpu_get EXCEPT ![c] = uget[u]]
    /\ pool_lock' = [pool_lock EXCEPT ![PoolOf[c]] = NONE]
    /\ ustep' = [ustep EXCEPT ![u] = "idle"]
    /\ umode' = [umode EXCEPT ![u] = "COMPLETED"]
    /\ uchannel' = [uchannel EXCEPT ![u] = NONE]
    /\ uvalue' = [uvalue EXCEPT ![u] = 0]
    /\ uget' = [uget EXCEPT ![u] = 0]
    /\ ucount' = [ucount EXCEPT ![u] = 0]
    /\ UNCHANGED <<pbVars, semaphoreVars, cpu_put, current_pushes_count,
                   entry_value, entry_info, entry_acquire, available_push_infos,
                   ownerVars, destroyed>>

-----------------------------------------------------------------------------
\* What callers ask for: any channel of a pool, or one channel
Requests == {{c} : c \in Channels} \cup {{c \in Channels : PoolOf[c] = q} : q \in Pools}

\* The bound: MAX_PUSHES pushes over all channels
MayStart(p) ==
    Cardinality({w \in Channels \X (1..MAX_PUSHES) : w[2] <= queued_value[w[1]]})
        + Cardinality({q \in Pushes : step[q] \notin {"idle", "submitted"}}) < MAX_PUSHES

PushStep(p) ==
    \/ \E c \in Channels : try_claim_channel(p, c)
    \/ BeginInPushbuffer(p)
    \/ TakePushInfo(p)
    \/ \E size \in 1..MAX_PUSH : EndSubmit(p, size)
    \/ EndFinish(p)

UpdateStep(u) ==
    \/ \E c \in Channels : UpdRead(u, c)
    \/ UpdLock(u)
    \/ UpdMark(u)
    \/ UpdUnlock(u)

ChNext ==
    \/ \E p \in Pushes : \/ \E S \in Requests : MayStart(p) /\ StartPush(p, S)
                         \/ PushStep(p)
    \/ \E c \in Channels : GpuRun(c)
    \/ \E u \in Updaters : UpdateStep(u)

ChSpec == ChInit /\ [][ChNext]_chVars

\* The same with channel errors and the destruction of channels
ErrorStep ==
    \/ ChannelError /\ UNCHANGED <<semaphoreVars, fifoVars, pool_lock, ownerVars, updateVars>>
    \/ \E p \in Pushes : \/ ReserveTryFails(p)
                         \/ ReserveChecks(p)
                         \/ \E c \in Channels : ReserveLastTry(p, c)
                         \/ BeginPushFails(p)
    \/ \E u \in Updaters, c \in Channels : channel_destroy(u, c)

ChErrorSpec == ChInit /\ [][ChNext \/ ErrorStep]_chVars

\* The GPU runs what it is given, every push is ended by its owner, and the
\* threads that wait for space call update_progress for every channel in turn.
\* The kernel's spinlocks are queued: a thread that keeps asking gets the lock.
ChFairness ==
    /\ \A c \in Channels : WF_chVars(GpuRun(c))
    /\ \A p \in Pushes :
          /\ SF_chVars(\E c \in Channels : try_claim_channel(p, c))
          /\ WF_chVars(BeginInPushbuffer(p))
          /\ SF_chVars(TakePushInfo(p))
          /\ SF_chVars(\E size \in 1..MAX_PUSH : EndSubmit(p, size))
          /\ WF_chVars(EndFinish(p))
    /\ \A u \in Updaters :
          /\ \A c \in Channels : SF_chVars(UpdRead(u, c))
          /\ SF_chVars(UpdLock(u))
          /\ WF_chVars(UpdMark(u) \/ UpdUnlock(u))

ChLiveSpec == ChSpec /\ ChFairness

-----------------------------------------------------------------------------
(* Properties *)

\* A GPFIFO entry is not written again before the GPU has run it, although
\* room is counted by current_pushes_count at reservation, long before the
\* entry is chosen by cpu_put at the end of the push.
SlotIntact ==
    \A c \in Channels \ destroyed : \A v \in (gpu_done[c] + 1) .. queued_value[c] :
        entry_value[c][SlotOf(v)] = v

\* The pushbuffer memory of a push stays pending until the GPU has run the push:
\* no update_progress, stale as the value it compares with may be, gives it
\* back early.
UnfinishedPending ==
    \A c \in Channels \ destroyed : \A v \in (gpu_done[c] + 1) .. queued_value[c] :
        \/ IsPending(<<c, SlotOf(v)>>)
        \/ v = queued_value[c] /\ \E p \in Pushes : step[p] = "submitted" /\ push_channel[p] = c

\* Pushes of channel c that hold a push info
InfoHolders(c) == {p \in Pushes : push_channel[p] = c /\ step[p] \in {"open", "submitted"}}

PendingInfos(c) == {entry_info[c][i] : i \in {j \in Slots : IsPending(<<c, j>>)}}

\* channel_get_available_push_info_index always finds a push info (its first
\* assertion), and the one it finds is used by no open or pending push.
PushInfoFree ==
    \A c \in Channels :
        LET free == available_push_infos[c] IN
        /\ (\E p \in Pushes : push_channel[p] = c /\ step[p] = "reserved") => free # <<>>
        /\ \A i, j \in 1..Len(free) : i # j => free[i] # free[j]
        /\ \A i \in 1..Len(free) : free[i] \notin PendingInfos(c)
        /\ \A p \in InfoHolders(c) :
              /\ \A i \in 1..Len(free) : free[i] # push_info_index[p]
              /\ push_info_index[p] \notin PendingInfos(c)
              /\ \A q \in InfoHolders(c) \ {p} : push_info_index[p] # push_info_index[q]

\* channel_destroy: "Remove all remaining GPFIFOs from their pushbuffer chunk,
\* since the pushbuffer has a longer lifetime."
DestroyedClean ==
    \A c \in destroyed : (\A u \in Updaters : uchannel[u] # c) =>
        \A i \in Slots : ~IsPending(<<c, i>>)

\* What the two functions of the pushbuffer ask of their callers, at the moment of
\* the call: the push that uvm_pushbuffer_end_push ends is on-going and its entry is
\* in no list; the entry that update_progress gives to mark_completed, which calls
\* list_del without looking, is in one.
CallsAllowed ==
    /\ \A p \in Pushes : step[p] = "submitted" =>
          stage[p] = "ongoing" /\ ~IsPending(<<push_channel[p], cpu_put[push_channel[p]]>>)
    /\ \A u \in Updaters : ustep[u] = "loop" /\ MoreToComplete(u) =>
          IsPending(<<uchannel[u], uget[u]>>)

\* The channels use the pushbuffer as its own model assumes, and no step leads to a
\* call that it does not allow (no call is due in the initial state); so what holds
\* of Pushbuffer holds here.  The GPU may finish a push before uvm_channel_end_push
\* has listed its entry: "Notably uvm_pushbuffer_end_push() has to be called first",
\* before the pool is unlocked.
PushbufferUsed == PbErrorSpec /\ [][CallsAllowed']_chVars

\* Each tracking semaphore never has more values outstanding than the channel
\* has entries but one, which is what its wrap-around logic relies on.
Counter(c) == INSTANCE CompletionCounter
              WITH Window <- num_gpfifo_entries - 1, queued <- queued_value[c],
                   done <- gpu_done[c], completed <- completed_value[c]

CountersUsed ==
    /\ \A c \in Channels : Counter(c)!CounterInit
    /\ [][\A c \in Channels : [Counter(c)!CounterNext]_(Counter(c)!ctrVars)]_semaphoreVars

\* Everything submitted is run: the semaphores that pushes acquire never make
\* the channels wait for each other in a circle.
AllRun == \A c \in Channels : \A v \in 1..MAX_PUSHES :
              (queued_value[c] = v) ~> (gpu_done[c] >= v)

\* Every push that starts gets its channel, its memory and its push info, and
\* is submitted: nobody waits for ever, with every channel and chunk full.
PushFinishes == \A p \in Pushes : (step[p] # "idle") ~> (step[p] = "idle")
=============================================================================
