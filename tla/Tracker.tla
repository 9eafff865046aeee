------------------------------ MODULE Tracker ------------------------------
(***************************************************************************)
(* UVM trackers (kernel-open/nvidia-uvm/uvm_tracker.c): lists of tracking  *)
(* semaphore values, one per channel, that stand for GPU work somebody     *)
(* has to wait for.  Completed entries are dropped, values of a channel    *)
(* are merged, lists grow by allocations that may fail, and the "safe"     *)
(* operations then wait for the work instead of recording it.              *)
(*                                                                         *)
(* A tracker is used by one thread at a time, under its owner's lock.  The *)
(* GPU and the errors of other channels go on meanwhile, so one step makes *)
(* one read of a semaphore, of a channel's status or of the global error.  *)
(*                                                                         *)
(* needs[t][c] is not in the code: the value of channel c that the callers *)
(* of the operations on tracker t rely on it to wait for, or 0 if there is *)
(* none or the GPU has reached it.                                         *)
(***************************************************************************)
EXTENDS Integers, Sequences, SequencesExt, FiniteSets, FiniteSetsExt

CONSTANTS Channels, Trackers, Threads,
          GpuOf,        \* GpuOf[c]: the GPU of channel c
          FIRST_SIZE,   \* the size the first allocation makes, 8 in the code
          MAX_PUSHES,   \* bound on the pushes of all channels
          NONE

Gpus == {GpuOf[c] : c \in Channels}

\* ARRAY_SIZE(tracker->static_entries)
STATIC_SIZE == 1

ASSUME TrackerConstants ==
    /\ IsFiniteSet(Channels)
    /\ FIRST_SIZE \in Nat \ {0, 1}
    /\ MAX_PUSHES \in Nat
    /\ NONE \notin Channels \cup Trackers

VARIABLES
    entries,         \* entries[t]: sequence of [channel, value]
    max_size,
    needs,
    queued, done,    \* pushes ended and pushes run by the GPU, per channel
    notifier,        \* channels whose error notifier is set
    ecc,             \* GPUs whose ECC error notifier is set
    fatal_error,     \* g_uvm_global.fatal_error
    pc, op, dst, src, gpu,   \* the call each thread makes
    entry,               \* the entry it adds or waits for
    on, idx,             \* the tracker its loop is on, and the index
    next,                \* where it goes on after uvm_tracker_remove_completed
    ret                  \* its status

trackerVars == <<entries, max_size, needs>>
gpuVars == <<queued, done, notifier, ecc>>
callVars == <<pc, op, dst, src, gpu, entry, on, idx, next, ret>>
trVars == <<trackerVars, gpuVars, fatal_error, callVars>>

Errors == {"NV_ERR_RC_ERROR", "NV_ERR_ECC_ERROR"}
NoEntry == [channel |-> NONE, value |-> 0]
Nothing == [c \in Channels |-> 0]

TrInit ==
    /\ entries = [t \in Trackers |-> <<>>]
    /\ max_size = [t \in Trackers |-> STATIC_SIZE]
    /\ needs = [t \in Trackers |-> Nothing]
    /\ queued = Nothing
    /\ done = Nothing
    /\ notifier = {}
    /\ ecc = {}
    /\ fatal_error = "NV_OK"
    /\ pc = [th \in Threads |-> "idle"]
    /\ op = [th \in Threads |-> "none"]
    /\ dst = [th \in Threads |-> NONE]
    /\ src = [th \in Threads |-> NONE]
    /\ gpu = [th \in Threads |-> NONE]
    /\ entry = [th \in Threads |-> NoEntry]
    /\ on = [th \in Threads |-> NONE]
    /\ idx = [th \in Threads |-> 0]
    /\ next = [th \in Threads |-> "none"]
    /\ ret = [th \in Threads |-> "NV_OK"]

-----------------------------------------------------------------------------
(* Entries and storage *)

\* roundup_pow_of_two
RoundUpPow2(n) == CHOOSE m \in {2^k : k \in 0..n} : m >= n /\ m < 2 * n

\* The size uvm_tracker_reserve allocates for n entries
Grown(n) == Max({FIRST_SIZE, RoundUpPow2(n)})


PositionOf(list, c) == {i \in DOMAIN list : list[i].channel = c}

\* uvm_tracker_add_entry, the list: values of one channel are merged
WithEntry(list, e) ==
    IF PositionOf(list, e.channel) = {}
    THEN Append(list, e)
    ELSE [i \in DOMAIN list |->
             IF list[i].channel = e.channel /\ list[i].value < e.value THEN e ELSE list[i]]

WithEntries(list, more) == FoldLeft(WithEntry, list, more)

\* Mutant: one entry too few is reserved.
NeededOneLess(to, from) ==
    Max({0, Cardinality({i \in DOMAIN from : PositionOf(to, from[i].channel) = {}}) - 1})

\* reserve_for_entries_from_tracker: entries of src whose channel dst lacks
NeededFree(to, from) ==
    Cardinality({i \in DOMAIN from : PositionOf(to, from[i].channel) = {}})

\* uvm_tracker_is_entry_completed
Completed(e) == e.channel = NONE \/ done[e.channel] >= e.value

\* The entry at i is overwritten by the last one, and the list cut.
Drop(list, i) ==
    LET last == list[Len(list)]
    IN  Front(IF i = Len(list) THEN list ELSE [list EXCEPT ![i] = last])

MaxNeeds(a, b) == [c \in Channels |-> Max({a[c], b[c]})]
NeedOf(e) == [c \in Channels |-> IF c = e.channel /\ done[c] < e.value THEN e.value ELSE 0]

\* Mutant: only ECC errors are reported.
StatusEccOnly(c) ==
    IF c \in notifier /\ GpuOf[c] \in ecc THEN "NV_ERR_ECC_ERROR" ELSE "NV_OK"

\* uvm_channel_get_status
Status(c) ==
    IF c \notin notifier THEN "NV_OK"
    ELSE IF GpuOf[c] \in ecc THEN "NV_ERR_ECC_ERROR" ELSE "NV_ERR_RC_ERROR"
-----------------------------------------------------------------------------
(* Calls that return at once *)

\* The thread's caller holds the locks of the trackers it passes.
Free(t) == \A th \in Threads : pc[th] # "idle" => t \notin {dst[th], src[th]}

MayCall(th, t) == pc[th] = "idle" /\ Free(t)

HasFree(t, size, n) == size + n <= max_size[t]

\* uvm_tracker_reserve succeeds, for n entries beyond size
Reserved(t, size, n) ==
    IF HasFree(t, size, n) THEN UNCHANGED max_size
    ELSE max_size' = [max_size EXCEPT ![t] = Grown(size + n)]

NewSlots(t, e) == IF PositionOf(entries[t], e.channel) = {} THEN 1 ELSE 0

\* uvm_tracker_add_entry and uvm_tracker_add_push
uvm_tracker_add_entry(th, t, e) ==
    /\ MayCall(th, t)
    /\ Reserved(t, Len(entries[t]), NewSlots(t, e))
    /\ entries' = [entries EXCEPT ![t] = WithEntry(@, e)]
    /\ needs' = [needs EXCEPT ![t] = MaxNeeds(@, NeedOf(e))]
    /\ UNCHANGED <<gpuVars, fatal_error, callVars>>

\* uvm_tracker_overwrite_with_entry and _with_push
uvm_tracker_overwrite_with_entry(th, t, e) ==
    /\ MayCall(th, t)
    /\ entries' = [entries EXCEPT ![t] = <<e>>]
    /\ needs' = [needs EXCEPT ![t] = NeedOf(e)]
    /\ UNCHANGED <<max_size, gpuVars, fatal_error, callVars>>

uvm_tracker_overwrite(th, d, s) ==
    /\ MayCall(th, d) /\ Free(s) /\ d # s
    /\ Reserved(d, 0, Len(entries[s]))
    /\ entries' = [entries EXCEPT ![d] = entries[s]]
    /\ needs' = [needs EXCEPT ![d] = needs[s]]
    /\ UNCHANGED <<gpuVars, fatal_error, callVars>>

\* uvm_tracker_init_from, of a tracker that has been deinitialized; if there is
\* no memory it ends up empty.
uvm_tracker_init_from(th, d, s) ==
    /\ MayCall(th, d) /\ Free(s) /\ d # s
    /\ \/ /\ entries' = [entries EXCEPT ![d] = entries[s]]
          /\ needs' = [needs EXCEPT ![d] = needs[s]]
          /\ max_size' = [max_size EXCEPT ![d] =
                IF Len(entries[s]) <= STATIC_SIZE THEN STATIC_SIZE ELSE Grown(Len(entries[s]))]
       \/ /\ Len(entries[s]) > STATIC_SIZE
          /\ entries' = [entries EXCEPT ![d] = <<>>]
          /\ needs' = [needs EXCEPT ![d] = Nothing]
          /\ max_size' = [max_size EXCEPT ![d] = STATIC_SIZE]
    /\ UNCHANGED <<gpuVars, fatal_error, callVars>>

\* uvm_tracker_add_tracker, when the first uvm_tracker_reserve succeeds
uvm_tracker_add_tracker(th, d, s) ==
    /\ MayCall(th, d) /\ Free(s) /\ d # s
    /\ Reserved(d, Len(entries[d]), Len(entries[s]))
    /\ entries' = [entries EXCEPT ![d] = WithEntries(@, entries[s])]
    /\ needs' = [needs EXCEPT ![d] = MaxNeeds(@, needs[s])]
    /\ UNCHANGED <<gpuVars, fatal_error, callVars>>

-----------------------------------------------------------------------------
(* Calls that take several steps *)

Call(th, name, at, d, s, g, e, tracker, then) ==
    /\ op' = [op EXCEPT ![th] = name]
    /\ pc' = [pc EXCEPT ![th] = at]
    /\ dst' = [dst EXCEPT ![th] = d]
    /\ src' = [src EXCEPT ![th] = s]
    /\ gpu' = [gpu EXCEPT ![th] = g]
    /\ entry' = [entry EXCEPT ![th] = e]
    /\ on' = [on EXCEPT ![th] = tracker]
    /\ idx' = [idx EXCEPT ![th] = 1]
    /\ next' = [next EXCEPT ![th] = then]
    /\ UNCHANGED ret

\* uvm_tracker_add_entry_safe and _add_push_safe without memory
AddEntryNoMemory(th, t, e) ==
    /\ MayCall(th, t)
    /\ ~HasFree(t, Len(entries[t]), NewSlots(t, e))
    /\ Call(th, "add_entry_safe", "entry", t, NONE, NONE, e, t, "none")
    /\ UNCHANGED <<trackerVars, gpuVars, fatal_error>>

\* uvm_tracker_overwrite without memory: dst is already cleared.  The safe
\* variant goes on with uvm_tracker_wait(src).
OverwriteNoMemory(th, d, s) ==
    /\ MayCall(th, d) /\ Free(s) /\ d # s
    /\ ~HasFree(d, 0, Len(entries[s]))
    /\ entries' = [entries EXCEPT ![d] = <<>>]
    /\ needs' = [needs EXCEPT ![d] = Nothing]
    /\ \/ UNCHANGED callVars
       \/ Call(th, "overwrite_safe", "remove", d, s, NONE, NoEntry, s, "waited")
    /\ UNCHANGED <<max_size, gpuVars, fatal_error>>

\* uvm_tracker_add_tracker without memory first removes what has completed.
AddTrackerNoMemory(th, d, s) ==
    /\ MayCall(th, d) /\ Free(s) /\ d # s
    /\ ~HasFree(d, Len(entries[d]), Len(entries[s]))
    /\ \E name \in {"add_tracker", "add_tracker_safe"} :
          Call(th, name, "remove", d, s, NONE, NoEntry, d, "remove_src")
    /\ UNCHANGED <<trackerVars, gpuVars, fatal_error>>

uvm_tracker_wait(th, t) ==
    /\ MayCall(th, t)
    /\ Call(th, "wait", "remove", t, NONE, NONE, NoEntry, t, "waited")
    /\ UNCHANGED <<trackerVars, gpuVars, fatal_error>>

uvm_tracker_wait_for_other_gpus(th, t, g) ==
    /\ MayCall(th, t)
    /\ Call(th, "wait_others", "others", t, NONE, g, NoEntry, t, "others_done")
    /\ UNCHANGED <<trackerVars, gpuVars, fatal_error>>

uvm_tracker_query(th, t) ==
    /\ MayCall(th, t)
    /\ Call(th, "query", "remove", t, NONE, NONE, NoEntry, t, "global")
    /\ UNCHANGED <<trackerVars, gpuVars, fatal_error>>

Return(th) ==
    /\ pc' = [pc EXCEPT ![th] = "idle"]
    /\ op' = [op EXCEPT ![th] = "none"]
    /\ dst' = [dst EXCEPT ![th] = NONE]
    /\ src' = [src EXCEPT ![th] = NONE]
    /\ gpu' = [gpu EXCEPT ![th] = NONE]
    /\ entry' = [entry EXCEPT ![th] = NoEntry]
    /\ on' = [on EXCEPT ![th] = NONE]
    /\ idx' = [idx EXCEPT ![th] = 0]
    /\ next' = [next EXCEPT ![th] = "none"]
    /\ ret' = [ret EXCEPT ![th] = "NV_OK"]

\* What the caller relies on once a call that had to wait returns NV_OK
NeedsAfter(th) ==
    CASE op[th] = "add_entry_safe" ->
            [needs EXCEPT ![dst[th]] = MaxNeeds(@, NeedOf(entry[th]))]
      [] op[th] = "overwrite_safe" -> [needs EXCEPT ![dst[th]] = needs[src[th]]]
      [] op[th] \in {"add_tracker", "add_tracker_safe"} ->
            [needs EXCEPT ![dst[th]] = MaxNeeds(@, needs[src[th]])]
      [] OTHER -> needs

Goto(th, at) == pc' = [pc EXCEPT ![th] = at]
At(th, i) == idx' = [idx EXCEPT ![th] = i]
sameCall == UNCHANGED <<op, dst, src, gpu>>

\* uvm_tracker_remove_completed: one entry
RemoveStep(th) ==
    LET list == entries[on[th]]
        i == idx[th]
    IN  /\ pc[th] = "remove"
        /\ i <= Len(list)
        /\ IF Completed(list[i])
           THEN /\ entries' = [entries EXCEPT ![on[th]] = Drop(list, i)]
                /\ UNCHANGED idx
           ELSE At(th, i + 1) /\ UNCHANGED entries
        /\ sameCall
        /\ UNCHANGED <<max_size, needs, gpuVars, fatal_error, pc, entry, on, next, ret>>

\* uvm_tracker_add_tracker calls it for dst and then for src.
RemoveDone(th) ==
    /\ pc[th] = "remove"
    /\ idx[th] > Len(entries[on[th]])
    /\ At(th, 1)
    /\ IF next[th] = "remove_src"
       THEN /\ on' = [on EXCEPT ![th] = src[th]]
            /\ next' = [next EXCEPT ![th] = "retry"]
            /\ UNCHANGED pc
       ELSE Goto(th, next[th]) /\ UNCHANGED <<on, next>>
    /\ sameCall
    /\ UNCHANGED <<trackerVars, gpuVars, fatal_error, entry, ret>>

\* reserve_for_entries_from_tracker and the rest of uvm_tracker_add_tracker
AddTrackerRetry(th) ==
    LET d == dst[th]
        s == src[th]
        n == NeededFree(entries[d], entries[s])
    IN  /\ pc[th] = "retry"
        /\ \/ /\ Reserved(d, Len(entries[d]), n)
              /\ entries' = [entries EXCEPT ![d] = WithEntries(@, entries[s])]
              /\ needs' = NeedsAfter(th)
              /\ Return(th)
           \/ /\ ~HasFree(d, Len(entries[d]), n)
              /\ op[th] = "add_tracker"
              /\ Return(th)
              /\ UNCHANGED trackerVars
           \/ /\ ~HasFree(d, Len(entries[d]), n)
              /\ op[th] = "add_tracker_safe"
              /\ Goto(th, "remove") /\ At(th, 1)
              /\ on' = [on EXCEPT ![th] = s]
              /\ next' = [next EXCEPT ![th] = "waited"]
              /\ sameCall
              /\ UNCHANGED <<trackerVars, entry, ret>>
        /\ UNCHANGED <<gpuVars, fatal_error>>
-----------------------------------------------------------------------------
(* Waiting *)

\* The end of uvm_tracker_wait, after its loop condition has been evaluated
WaitReturns(th) ==
    /\ pc[th] = "waited"
    /\ ret[th] = "NV_OK"
    /\ entries[on[th]] = <<>>
    /\ needs' = NeedsAfter(th)
    /\ Return(th)
    /\ UNCHANGED <<entries, max_size, gpuVars, fatal_error>>

WaitFails(th) ==
    /\ pc[th] = "waited"
    /\ ret[th] # "NV_OK"
    /\ entries' = [entries EXCEPT ![on[th]] = <<>>]
    /\ Return(th)
    /\ UNCHANGED <<max_size, needs, gpuVars, fatal_error>>

WaitLoops(th) ==
    /\ pc[th] = "waited"
    /\ ret[th] = "NV_OK"
    /\ entries[on[th]] # <<>>
    /\ Goto(th, "global")
    /\ sameCall
    /\ UNCHANGED <<trackerVars, gpuVars, fatal_error, entry, on, idx, next, ret>>

\* Back to the loop condition of uvm_tracker_wait, which removes what has
\* completed even when there is an error; uvm_tracker_query just returns.
LoopAgain(th, status) ==
    IF op[th] = "query" THEN Return(th)
    ELSE /\ Goto(th, "remove") /\ At(th, 1)
         /\ ret' = [ret EXCEPT ![th] = status]
         /\ sameCall
         /\ UNCHANGED <<entry, on, next>>

\* uvm_tracker_check_errors: the global status
CheckGlobal(th) ==
    /\ pc[th] = "global"
    /\ IF fatal_error # "NV_OK" THEN LoopAgain(th, fatal_error)
       ELSE /\ Goto(th, "channels") /\ At(th, 1)
            /\ sameCall
            /\ UNCHANGED <<entry, on, next, ret>>
    /\ UNCHANGED <<trackerVars, gpuVars, fatal_error>>

\* uvm_tracker_check_errors: the status of the next channel
CheckChannel(th) ==
    LET list == entries[on[th]]
        i == idx[th]
    IN  /\ pc[th] = "channels"
        /\ IF i > Len(list) THEN LoopAgain(th, "NV_OK")
           ELSE /\ IF Status(list[i].channel) = "NV_OK"
                   THEN At(th, i + 1) /\ UNCHANGED <<pc, ret>>
                   ELSE /\ Goto(th, "set_fatal")
                        /\ ret' = [ret EXCEPT ![th] = Status(list[i].channel)]
                        /\ UNCHANGED idx
                /\ sameCall
                /\ UNCHANGED <<entry, on, next>>
        /\ UNCHANGED <<trackerVars, gpuVars, fatal_error>>

\* Mutant: the global error is not set.
ReportOnly(error) == fatal_error

\* nv_atomic_cmpxchg: the first error stays
set_fatal_error(error) == IF fatal_error = "NV_OK" THEN error ELSE fatal_error

\* uvm_channel_check_errors: uvm_global_set_fatal_error
SetFatal(th) ==
    /\ pc[th] = "set_fatal"
    /\ fatal_error' = set_fatal_error(ret[th])
    /\ IF op[th] \in {"add_entry_safe", "wait_others"}
       THEN /\ Goto(th, "entry")
            /\ sameCall
            /\ UNCHANGED <<entry, on, idx, next, ret>>
       ELSE LoopAgain(th, ret[th])
    /\ UNCHANGED <<trackerVars, gpuVars>>

\* wait_for_entry_with_spin: the loop condition, and what follows the loop
WaitForEntry(th) ==
    /\ pc[th] = "entry"
    /\ \/ /\ ret[th] = "NV_OK"
          /\ ~Completed(entry[th])
          /\ Goto(th, "entry_channel")
          /\ sameCall
          /\ UNCHANGED <<trackerVars, entry, on, idx, next, ret>>
       \/ /\ ret[th] = "NV_OK"
          /\ Completed(entry[th])
          /\ op[th] = "add_entry_safe"
          /\ needs' = NeedsAfter(th)
          /\ Return(th)
          /\ UNCHANGED <<entries, max_size>>
       \/ /\ ret[th] = "NV_OK"
          /\ Completed(entry[th])
          /\ op[th] = "wait_others"
          /\ Goto(th, "others") /\ At(th, idx[th] + 1)
          /\ sameCall
          /\ UNCHANGED <<trackerVars, entry, on, next, ret>>
       \/ /\ ret[th] # "NV_OK"
          /\ entries' = IF op[th] = "wait_others"
                        THEN [entries EXCEPT ![on[th]] = <<>>] ELSE entries
          /\ Return(th)
          /\ UNCHANGED <<max_size, needs>>
    /\ UNCHANGED <<gpuVars, fatal_error>>

\* wait_for_entry_with_spin: uvm_channel_check_errors, before the global status
EntryChannel(th) ==
    LET status == Status(entry[th].channel) IN
    /\ pc[th] = "entry_channel"
    /\ IF status = "NV_OK" THEN Goto(th, "entry_global") /\ UNCHANGED ret
       ELSE Goto(th, "set_fatal") /\ ret' = [ret EXCEPT ![th] = status]
    /\ sameCall
    /\ UNCHANGED <<trackerVars, gpuVars, fatal_error, entry, on, idx, next>>

EntryGlobal(th) ==
    /\ pc[th] = "entry_global"
    /\ ret' = [ret EXCEPT ![th] = fatal_error]
    /\ Goto(th, "entry")
    /\ sameCall
    /\ UNCHANGED <<trackerVars, gpuVars, fatal_error, entry, on, idx, next>>

\* The loop of uvm_tracker_wait_for_other_gpus is at its end.
OthersSeen(th) == idx[th] > Len(entries[on[th]])

\* uvm_tracker_wait_for_other_gpus: the next entry
OtherGpus(th) ==
    LET i == idx[th]
        e == entries[on[th]][i]
    IN  /\ pc[th] = "others"
        /\ IF OthersSeen(th) THEN Goto(th, "remove") /\ At(th, 1) /\ UNCHANGED entry
           ELSE IF GpuOf[e.channel] = gpu[th] THEN At(th, i + 1) /\ UNCHANGED <<pc, entry>>
           ELSE Goto(th, "entry") /\ entry' = [entry EXCEPT ![th] = e] /\ UNCHANGED idx
        /\ sameCall
        /\ UNCHANGED <<trackerVars, gpuVars, fatal_error, on, next, ret>>

OthersReturn(th) ==
    /\ pc[th] = "others_done"
    /\ Return(th)
    /\ UNCHANGED <<trackerVars, gpuVars, fatal_error>>

-----------------------------------------------------------------------------
(* The GPUs, and the other users of the channels *)

\* uvm_channel_end_push: there is a new value to track.
EndPush(c) ==
    /\ MapThenSumSet(LAMBDA d : queued[d], Channels) < MAX_PUSHES
    /\ queued' = [queued EXCEPT ![c] = @ + 1]
    /\ UNCHANGED <<trackerVars, done, notifier, ecc, fatal_error, callVars>>

GpuRun(c) ==
    /\ c \notin notifier
    /\ done[c] < queued[c]
    /\ done' = [done EXCEPT ![c] = @ + 1]
    /\ needs' = [t \in Trackers |-> [needs[t] EXCEPT ![c] = IF @ <= done[c] + 1 THEN 0 ELSE @]]
    /\ UNCHANGED <<entries, max_size, queued, notifier, ecc, fatal_error, callVars>>

\* A channel fails; it runs nothing more.
ChannelFails(c) ==
    /\ c \notin notifier
    /\ notifier' = notifier \cup {c}
    /\ UNCHANGED <<trackerVars, queued, done, ecc, fatal_error, callVars>>

\* An ECC error of a GPU; its notifier may be set after that of the channels.
EccError(g) ==
    /\ g \notin ecc
    /\ ecc' = ecc \cup {g}
    /\ UNCHANGED <<trackerVars, queued, done, notifier, fatal_error, callVars>>

\* uvm_gpu_check_ecc_error, called by other threads
uvm_gpu_check_ecc_error(g) ==
    /\ g \in ecc
    /\ fatal_error = "NV_OK"
    /\ fatal_error' = set_fatal_error("NV_ERR_ECC_ERROR")
    /\ UNCHANGED <<trackerVars, gpuVars, callVars>>

\* uvm_channel_check_errors, called by other threads
uvm_channel_check_errors(c) ==
    /\ Status(c) # "NV_OK"
    /\ fatal_error = "NV_OK"
    /\ fatal_error' = set_fatal_error(Status(c))
    /\ UNCHANGED <<trackerVars, gpuVars, callVars>>

-----------------------------------------------------------------------------
Ended == {e \in [channel : Channels, value : 1..MAX_PUSHES] : e.value <= queued[e.channel]}

StartCall(th) ==
    \/ \E t \in Trackers :
          \/ \E e \in Ended : \/ uvm_tracker_add_entry(th, t, e)
                              \/ uvm_tracker_overwrite_with_entry(th, t, e)
                              \/ AddEntryNoMemory(th, t, e)
          \/ uvm_tracker_wait(th, t)
          \/ \E g \in Gpus : uvm_tracker_wait_for_other_gpus(th, t, g)
          \/ uvm_tracker_query(th, t)
    \/ \E d, s \in Trackers :
          \/ uvm_tracker_overwrite(th, d, s)
          \/ uvm_tracker_init_from(th, d, s)
          \/ uvm_tracker_add_tracker(th, d, s)
          \/ OverwriteNoMemory(th, d, s)
          \/ AddTrackerNoMemory(th, d, s)

CallStep(th) ==
    \/ RemoveStep(th)
    \/ RemoveDone(th)
    \/ AddTrackerRetry(th)
    \/ WaitReturns(th)
    \/ WaitFails(th)
    \/ WaitLoops(th)
    \/ CheckGlobal(th)
    \/ CheckChannel(th)
    \/ SetFatal(th)
    \/ WaitForEntry(th)
    \/ EntryChannel(th)
    \/ EntryGlobal(th)
    \/ OtherGpus(th)
    \/ OthersReturn(th)

GpuStep == \E c \in Channels : EndPush(c) \/ GpuRun(c)

TrNext == GpuStep \/ \E th \in Threads : StartCall(th) \/ CallStep(th)

TrSpec == TrInit /\ [][TrNext]_trVars

\* The same with errors
TrErrorNext ==
    \/ TrNext
    \/ \E c \in Channels : ChannelFails(c) \/ uvm_channel_check_errors(c)
    \/ \E g \in Gpus : EccError(g) \/ uvm_gpu_check_ecc_error(g)

TrErrorSpec == TrInit /\ [][TrErrorNext]_trVars

\* A GPU runs what its working channels are given, and threads run.
TrFairness ==
    /\ \A c \in Channels : WF_trVars(GpuRun(c))
    /\ \A th \in Threads : WF_trVars(CallStep(th))

TrLiveSpec == TrErrorSpec /\ TrFairness

-----------------------------------------------------------------------------
(* Properties *)

\* No dependency is lost: work that the operations on a tracker were told of has
\* been run, or an entry of the tracker still waits for it, or the driver is in
\* a global error; whatever was merged, removed while the GPU ran, or waited
\* for instead of being recorded.
NothingLost ==
    \A t \in Trackers, c \in Channels :
        \/ needs[t][c] = 0
        \/ \E i \in DOMAIN entries[t] :
              entries[t][i].channel = c /\ entries[t][i].value >= needs[t][c]
        \/ fatal_error # "NV_OK"

\* A tracker has one entry per channel, which the reservations count on, and
\* never more entries than storage: the assertion of get_new_entry, and "Expected
\* success with reserved memory" of uvm_tracker_add_tracker.
StorageSuffices ==
    \A t \in Trackers :
        /\ Len(entries[t]) <= max_size[t]
        /\ \A i, j \in DOMAIN entries[t] :
              i # j => entries[t][i].channel # entries[t][j].channel

\* Every call returns, also when the channel it waits for has failed.
CallsReturn == \A th \in Threads : (pc[th] # "idle") ~> (pc[th] = "idle")
=============================================================================
