---------------------------- MODULE VaSpaceInv -----------------------------
(***************************************************************************)
(* The inductive invariant of VaSpace.  The code drops the VA space lock   *)
(* between the steps of every call, so the invariant says for each thread  *)
(* where it can be, what it holds there, and who is still to undo what.    *)
(***************************************************************************)
EXTENDS VaSpaceState

Retainers == Users \cup {"bh"}

\* Where the calls of the threads can be.
UserAt(u) ==
    \/ op[u] = "none" /\ pc[u] = "idle"
    \/ op[u] = "register" /\ pc[u] \in {"check", "set", "add", "unset", "count",
                                        "ats", "release", "wake"}
    \/ op[u] = "unregister" /\ pc[u] \in {"retain", "remove", "release", "wake",
                                          "free", "unset", "count", "ats"}
    \/ op[u] = "register_channel" /\ pc[u] \in {"retain", "insert", "release", "wake",
                                                "bind", "detach", "free"}
    \/ op[u] = "unregister_channel" /\ pc[u] \in {"detach", "free"}

ShutdownPcs == {"shutdown", "stop", "detach_all", "flush", "unset_all", "wait_pending",
                "sleep_pending", "mark", "free", "wait_retained", "sleep_retained",
                "returned"}

EnderAt(t) ==
    \/ op[t] = "none" /\ pc[t] = "idle"
    \/ t = "close" /\ op[t] = "close" /\ pc[t] \in {"unregister_all", "flush_queues",
                                       "free", "unset", "count", "ats", "notifier"}
    \/ op[t] = "shutdown" /\ pc[t] \in ShutdownPcs
    \/ op[t] \in {"skipped", "done"} /\ pc[t] \in {"synchronize", "end"}

FaultAt ==
    \/ op["bh"] = "none" /\ pc["bh"] = "idle"
    \/ op["bh"] = "fault" /\ pc["bh"] \in {"fault_retain", "fault_lock", "service",
                                           "release", "wake"}

PcInv ==
    /\ DOMAIN pc = Threads /\ DOMAIN op = Threads
    /\ \A u \in Users : UserAt(u)
    /\ \A t \in Enders : EnderAt(t)
    /\ FaultAt

\* The lock is kept between steps by a thread that registers a channel and by one
\* that stops them all.
LockInv ==
    /\ lock \in Users \cup Enders \cup {NONE}
    /\ lock \in Users => /\ op[lock] = "register_channel"
                         /\ pc[lock] \in {"release", "wake", "bind"}
    /\ lock \in Enders => pc[lock] = "stop"
    /\ \A u \in Users : pc[u] = "bind" => lock = u
    /\ \A t \in Enders : pc[t] = "stop" => lock = t

\* The calls during which a thread holds the mm, if it got it.
Retaining(t) ==
    \/ op[t] = "register" /\ pc[t] \in {"check", "set", "add", "unset", "count", "ats",
                                        "release"}
    \/ op[t] = "unregister" /\ pc[t] \in {"remove", "release"}
    \/ op[t] = "register_channel" /\ pc[t] \in {"insert", "release"}
    \/ op[t] = "fault" /\ pc[t] \in {"fault_lock", "service", "release"}

\* Shutdowns past the step that marks the mm dead, and past the last wait.
Returned(t) == pc[t] = "returned" \/ op[t] = "done"
Marked(t) == Returned(t) \/ (InShutdown(t) /\ pc[t] \in {"free", "wait_retained",
                                                        "sleep_retained"})

HoldInv ==
    /\ holders \subseteq Retainers
    /\ \A t \in holders : Retaining(t)
    /\ IsFiniteSet(holders) /\ retained_count = Cardinality(holders)
    /\ \A t \in Enders : Marked(t) => ~alive
    /\ \A t \in Enders : Returned(t) => holders = {}

\* A GPU VA space that a thread is registering is its own; one that it destroys is
\* not registered any more.
Creating(t) == op[t] = "register" /\ pc[t] \in {"check", "set", "add"}
Dying(t) ==
    \/ op[t] = "register" /\ pc[t] \in {"unset", "count", "ats"}
    \/ op[t] = "unregister" /\ pc[t] \in {"release", "wake", "free", "unset", "count", "ats"}
    \/ op[t] = "close" /\ pc[t] \in {"flush_queues", "free", "unset", "count", "ats"}

ObjInv ==
    /\ obj \in [Threads -> Spaces \cup {NONE}]
    /\ state \in [Spaces -> {"INIT", "ACTIVE", "DEAD"}]
    /\ \A t \in Threads : Creating(t) => obj[t] # NONE /\ state[obj[t]] = "INIT"
    /\ \A t \in Threads : Dying(t) /\ obj[t] # NONE => state[obj[t]] # "ACTIVE"
    /\ \A t \in Threads : Dying(t) /\ obj[t] # NONE /\ op[t] # "register"
                         => state[obj[t]] = "DEAD"
    /\ \A t \in Threads : pc[t] \in {"unset", "count", "ats"} => obj[t] # NONE
    /\ \A t \in Threads : pc[t] = "count" => state[obj[t]] = "DEAD"
    /\ \A t, v \in Threads : t # v /\ obj[t] = obj[v] /\ obj[t] # NONE
                             => state[obj[t]] # "INIT"
    /\ \A r, s \in Registered : r = s

\* A channel is being registered by one thread, or listed, or on one list of
\* channels to free.
New(u) == op[u] = "register_channel" /\ pc[u] \in {"retain", "insert"}

ChanInv ==
    /\ DOMAIN chan = Threads
    /\ deferred \in [Threads -> SUBSET Channels]
    /\ gpu_va_space \in [Channels -> Spaces \cup {NONE}]
    /\ listed \subseteq used /\ used \subseteq Channels
    /\ \A t \in Threads : deferred[t] \subseteq used /\ deferred[t] \cap listed = {}
    /\ \A t, v \in Threads : t # v => deferred[t] \cap deferred[v] = {}
    /\ \A u \in Users : New(u) => /\ chan[u] \in used \ listed
                                  /\ \A t \in Threads : chan[u] \notin deferred[t]
                                  /\ \A v \in Users : v # u => chan[v] # chan[u]

\* A channel runs only while it is listed in a registered GPU VA space that nobody
\* has begun to unregister; the one that is being bound does not run yet.
RunInv ==
    /\ RunningIsRegistered
    /\ \A c \in bound : gpu_va_space[c] \notin no_channels
    /\ lock \in Users => /\ chan[lock] \in listed \ bound
                         /\ gpu_va_space[chan[lock]] \notin no_channels
                         /\ ~user_channels_stopped
                         /\ \A v \in Users : pc[v] = "detach" => chan[v] # chan[lock]
    /\ \A u \in Users : pc[u] = "detach" => chan[u] \notin bound
    /\ \A u \in Users : /\ op[u] = "unregister" /\ pc[u] \in {"retain", "remove"}
                        /\ obj[u] \in Registered
                        => obj[u] \in no_channels
    /\ user_channels_stopped => bound = {}
    /\ \A t \in Enders : /\ op[t] = "close" \/ InShutdown(t) \/ op[t] = "done"
                         /\ pc[t] \notin {"shutdown", "stop"}
                         => user_channels_stopped

\* The removed GPU VA spaces that still count in num_pending.
Pending(t) ==
    /\ obj[t] # NONE
    /\ \/ op[t] = "register" /\ pc[t] \in {"unset", "count"} /\ state[obj[t]] = "DEAD"
       \/ op[t] = "unregister" /\ pc[t] \in {"release", "wake", "free", "unset", "count"}
       \/ op[t] = "close" /\ pc[t] \in {"flush_queues", "free", "unset", "count"}

\* What a step may do to them.
PendSame == num_pending' = num_pending /\ \A t \in Threads : Pending(t)' <=> Pending(t)
PendMore(v) ==
    /\ num_pending' = num_pending + 1
    /\ ~Pending(v) /\ Pending(v)'
    /\ \A t \in Threads \ {v} : Pending(t)' <=> Pending(t)
PendLess(v) ==
    /\ num_pending' = num_pending - 1
    /\ Pending(v) /\ ~Pending(v)'
    /\ \A t \in Threads \ {v} : Pending(t)' <=> Pending(t)
PendStep == PendSame \/ \E v \in Threads : PendMore(v) \/ PendLess(v)

PendInv == num_pending = Cardinality({t \in Threads : Pending(t)})
NoneCounted == num_pending = 0 => \A t \in Threads : ~Pending(t)

\* Shutdowns past the unsetting of the page directories, and past the wait for the
\* pending ones.
Unset(t) == Marked(t) \/ (InShutdown(t) /\ pc[t] \in {"wait_pending", "sleep_pending", "mark"})
Waited(t) == Marked(t) \/ (InShutdown(t) /\ pc[t] = "mark")

\* Who will unset a page directory that is set.
Setter(t) ==
    /\ op[t] = "register"
    /\ pc[t] = "set" \/ (pc[t] \in {"add", "unset"} /\ obj[t] \in page_dir)
Unsets(t, s) == obj[t] = s /\ (Setter(t) \/ (Pending(t) /\ pc[t] # "count"))

UnsetInv ==
    \A s \in page_dir : s \in Registered \/ \E t \in Threads : Unsets(t, s)

\* Nobody is in the middle of setting one who does not hold the mm or belong to its
\* process.
SetterInv ==
    /\ \A u \in Users : Setter(u) => u \in holders \cup Owners
    /\ \A u \in Users : Creating(u) /\ pc[u] = "check"
                        => u \in holders \cup Owners \/ disallow_new_registers
    /\ ~alive => disallow_new_registers

QuietInv ==
    /\ \A t \in Enders : InShutdown(t) /\ pc[t] # "shutdown" => disallow_new_registers
    /\ \A t \in Enders : Unset(t) => disallow_new_registers /\ page_dir \cap Registered = {}
    /\ \A t \in Enders : Waited(t) => \A v \in Threads : Pending(v) => obj[v] \notin page_dir

\* Whose threads are out of the driver when the process exits or the file is closed,
\* and that a notifier that is gone was shut down.
EndInv ==
    /\ pc["exit"] # "idle" => \A u \in Owners : pc[u] = "idle"
    /\ pc["close"] # "idle" => \A u \in Users : pc[u] = "idle"
    /\ ~notifier => \E t \in Enders : op[t] = "done"

\* The fault buffer and the bottom half know channels that still exist, and none
\* once the queues were flushed by the close.
Emptied == op["close"] \in {"close", "shutdown", "skipped", "done"} /\ pc["close"] # "unregister_all"
FaultInv ==
    /\ faults \subseteq used
    /\ chan["bh"] \in used \cup {NONE}
    /\ pc["bh"] \in {"idle", "release", "wake"} => chan["bh"] = NONE
    /\ table \subseteq listed
    /\ Emptied => listed = {} /\ (pc["close"] # "flush_queues" => pc["bh"] = "idle")
    /\ \A t \in Enders : op[t] \in {"skipped", "done"} => ~notifier
    /\ pc["close"] = "end" => ~InShutdown("exit")

VsInv ==
    /\ PcInv /\ LockInv /\ HoldInv /\ ObjInv /\ ChanInv /\ RunInv /\ PendInv
    /\ UnsetInv /\ SetterInv /\ QuietInv /\ EndInv /\ FaultInv

-----------------------------------------------------------------------------
(* What the steps do, variable by variable: the form that the proofs use.  *)
(* ops and ats bind no safety property.                                    *)

Moves(t, o, l) ==
    /\ t \in Threads /\ DOMAIN pc' = Threads /\ DOMAIN op' = Threads
    /\ op'[t] = o /\ pc'[t] = l
    /\ \A v \in Threads \ {t} : pc'[v] = pc[v] /\ op'[v] = op[v]

Starts(u, o, l) ==
    /\ pc[u] = "idle" /\ pc["close"] = "idle" /\ (u \in Owners => pc["exit"] = "idle")
    /\ Moves(u, o, l)
    /\ UNCHANGED <<lock, notifier, faults, user_channels_stopped, disallow_new_registers,
                   num_pending, page_dir, listed, table, deferred>>

Retains(t) ==
    /\ alive /\ retained_count' = retained_count + 1 /\ holders' = holders \cup {t}
    /\ UNCHANGED alive

\* uvm_va_space_register_gpu_va_space, with the memory it is given
Registers(u, s) ==
    /\ Unused(s) /\ Starts(u, "register", "check")
    /\ IF u \in Owners \/ ~alive THEN UNCHANGED <<alive, retained_count, holders>>
       ELSE Retains(u)
    /\ obj' = [obj EXCEPT ![u] = s]
    /\ state' = [state EXCEPT ![s] = "INIT"]
    /\ UNCHANGED <<no_channels, gpu_va_space, bound, used, chan>>

\* the other ioctls: uvm_va_space_unregister_gpu_va_space ...
Unregisters(u, s) ==
    /\ lock = NONE /\ state[s] = "ACTIVE" /\ Starts(u, "unregister", "retain")
    /\ obj' = [obj EXCEPT ![u] = s]
    /\ bound' = bound \ ChannelsOf(s)
    /\ no_channels' = no_channels \cup {s}
    /\ UNCHANGED <<alive, retained_count, holders, state, gpu_va_space, used, chan>>

\* ... uvm_register_channel and uvm_unregister_channel
UsesChannel(u, c) ==
    /\ lock = NONE
    /\ \/ /\ Starts(u, "register_channel", "retain")
          /\ c \notin used /\ \A t \in Users : chan[t] # c
          /\ \E s \in Registered : gpu_va_space' = [gpu_va_space EXCEPT ![c] = s]
          /\ used' = used \cup {c} /\ UNCHANGED bound
       \/ /\ Starts(u, "unregister_channel", "detach")
          /\ c \in listed
          /\ bound' = bound \ {c} /\ UNCHANGED <<gpu_va_space, used>>
    /\ chan' = [chan EXCEPT ![u] = c]
    /\ UNCHANGED <<alive, retained_count, holders, state, no_channels, obj>>

SameChannels == UNCHANGED <<gpu_va_space, listed, table, bound, used, chan, deferred, faults>>
SameSpaces == UNCHANGED <<state, page_dir, no_channels, obj, num_pending>>
SameMm == UNCHANGED <<alive, retained_count, holders>>
SameFlags == UNCHANGED <<user_channels_stopped, disallow_new_registers, notifier>>

CallsNotifier(t) ==
    IF notifier THEN Moves(t, "shutdown", "shutdown") ELSE Moves(t, "skipped", "synchronize")

\* Steps in which a thread only moves.
Goes(t) ==
    /\ \/ /\ t \in Users /\ op[t] = "register" /\ pc[t] = "check"
          /\ \/ Moves(t, "register", "set") /\ MayRegister
             \/ Moves(t, "register", "unset")
       \/ /\ t = "bh" /\ op[t] = "fault" /\ pc[t] = "fault_lock"
          /\ Moves(t, "fault", "service")
       \/ /\ t = "close" /\ op[t] = "close" /\ pc[t] = "flush_queues" /\ pc["bh"] = "idle"
          /\ Moves(t, "close", "free")
       \/ t = "close" /\ op[t] = "close" /\ pc[t] = "notifier" /\ CallsNotifier(t)
       \/ /\ t = "exit" /\ op[t] = "none" /\ pc[t] = "idle" /\ \A u \in Owners : pc[u] = "idle"
          /\ CallsNotifier(t)
    /\ SameChannels /\ SameSpaces /\ SameMm /\ SameFlags /\ UNCHANGED lock

\* uvm_va_space_mm_retain of a thread that has started
RetainsLater(t) ==
    /\ \/ /\ t \in Users /\ op[t] = "unregister" /\ pc[t] = "retain"
          /\ Moves(t, "unregister", "remove")
       \/ /\ t \in Users /\ op[t] = "register_channel" /\ pc[t] = "retain"
          /\ Moves(t, "register_channel", "insert")
       \/ t = "bh" /\ op[t] = "fault" /\ pc[t] = "fault_retain" /\ Moves(t, "fault", "fault_lock")
    /\ SameMm \/ Retains(t)
    /\ SameChannels /\ SameSpaces /\ SameFlags /\ UNCHANGED lock

\* uvm_va_space_mm_release, and the wake-up that ends it
Releases(t) ==
    /\ t \in Retainers /\ t \in Threads /\ DOMAIN pc' = Threads /\ DOMAIN op' = Threads
    /\ \/ pc[t] = "release" /\ pc'[t] = "wake" /\ op'[t] = op[t]
       \/ /\ pc[t] \in {"release", "wake"}
          /\ \/ op[t] = "unregister" /\ pc'[t] = "free" /\ op'[t] = op[t]
             \/ op[t] \in {"register", "fault"} /\ pc'[t] = "idle" /\ op'[t] = "none"
             \/ /\ op[t] = "register_channel" /\ op'[t] = op[t]
                /\ pc'[t] = IF lock = t THEN "bind" ELSE "free"
    /\ \A v \in Threads \ {t} :
          /\ op'[v] = op[v]
          /\ \/ pc'[v] = pc[v]
             \/ pc[v] = "sleep_retained" /\ pc'[v] = "wait_retained"
    /\ IF pc[t] = "release" /\ t \in holders
       THEN retained_count' = retained_count - 1 /\ holders' = holders \ {t} /\ UNCHANGED alive
       ELSE SameMm
    /\ SameChannels /\ SameSpaces /\ SameFlags /\ UNCHANGED lock

\* RegisterSetPageDir and RegisterAdd
Adds(u) ==
    /\ u \in Users /\ op[u] = "register"
    /\ \/ /\ pc[u] = "set" /\ Moves(u, "register", "add")
          /\ page_dir' = page_dir \cup {obj[u]} /\ UNCHANGED <<state, obj, num_pending>>
       \/ /\ pc[u] \in {"set", "add"} /\ Moves(u, "register", "unset")
          /\ UNCHANGED <<page_dir, state, obj, num_pending>>
       \/ /\ pc[u] = "add" /\ MayRegister /\ Moves(u, "register", "release")
          /\ state' = [state EXCEPT ![obj[u]] = "ACTIVE"]
          /\ obj' = [obj EXCEPT ![u] = NONE]
          /\ UNCHANGED <<page_dir, num_pending>>
       \/ /\ pc[u] = "add" /\ MayRegister /\ Moves(u, "register", "unset")
          /\ state' = [state EXCEPT ![obj[u]] = "DEAD"]
          /\ num_pending' = num_pending + 1
          /\ UNCHANGED <<page_dir, obj>>
    /\ SameChannels /\ SameMm /\ SameFlags /\ UNCHANGED <<no_channels, lock>>

\* UnregisterRemove
Removes(u) ==
    /\ op[u] = "unregister" /\ pc[u] = "remove" /\ Moves(u, "unregister", "release")
    /\ CanWrite
    /\ IF obj[u] \in Registered
       THEN /\ state' = [state EXCEPT ![obj[u]] = "DEAD"]
            /\ num_pending' = num_pending + Cardinality({obj[u]})
            /\ Detach(u, ChannelsOf(obj[u]))
            /\ UNCHANGED obj
       ELSE /\ obj' = [obj EXCEPT ![u] = NONE]
            /\ num_pending' = num_pending + Cardinality({})
            /\ UNCHANGED <<state, gpu_va_space, listed, table, bound, used, deferred>>
    /\ SameMm /\ SameFlags /\ UNCHANGED <<page_dir, no_channels, chan, faults, lock>>

\* RegisterInsert, RegisterBind and DetachChannel
Attaches(u) ==
    /\ u \in Users
    /\ \/ /\ op[u] = "register_channel" /\ pc[u] = "insert" /\ CanWrite
          /\ Moves(u, op[u], "release") /\ UNCHANGED chan
          /\ \/ /\ MayInsert(chan[u]) /\ lock' = u
                /\ listed' = listed \cup {chan[u]}
                /\ UNCHANGED <<gpu_va_space, table, bound, used, deferred>>
             \/ Detach(u, {chan[u]}) /\ UNCHANGED lock
       \/ /\ op[u] = "register_channel" /\ pc[u] = "bind" /\ lock' = NONE
          /\ \/ /\ Moves(u, "none", "idle") /\ table' = table \cup {chan[u]}
                /\ bound' = bound \cup {chan[u]} /\ chan' = [chan EXCEPT ![u] = NONE]
             \/ /\ Moves(u, op[u], "detach") /\ table' \in {table, table \cup {chan[u]}}
                /\ UNCHANGED <<bound, chan>>
          /\ UNCHANGED <<gpu_va_space, listed, used, deferred>>
       \/ /\ op[u] \in {"register_channel", "unregister_channel"} /\ pc[u] = "detach" /\ CanWrite
          /\ Moves(u, op[u], "free")
          /\ Detach(u, {chan[u]} \cap listed) /\ UNCHANGED <<lock, chan>>
    /\ SameSpaces /\ SameMm /\ SameFlags /\ UNCHANGED faults

\* uvm_deferred_free_object_list
Frees(t) ==
    /\ pc[t] = "free"
    /\ \/ op[t] \in {"unregister", "close"} /\ obj[t] # NONE /\ Moves(t, op[t], "unset")
       \/ op[t] = "unregister" /\ obj[t] = NONE /\ Moves(t, "none", "idle")
       \/ t = "close" /\ op[t] = "close" /\ obj[t] = NONE /\ Moves(t, "close", "notifier")
       \/ t \in Enders /\ op[t] = "shutdown" /\ Moves(t, "shutdown", "wait_retained")
       \/ /\ t \in Users /\ op[t] \in {"register_channel", "unregister_channel"}
          /\ Moves(t, "none", "idle")
    /\ \/ deferred[t] = {} /\ UNCHANGED faults
       \/ Flushable /\ faults' = {}
    /\ used' = used \ deferred[t]
    /\ deferred' = [deferred EXCEPT ![t] = {}]
    /\ chan' = [chan EXCEPT ![t] = NONE]
    /\ SameSpaces /\ SameMm /\ SameFlags
    /\ UNCHANGED <<gpu_va_space, listed, table, bound, lock>>

\* DestroyUnset, DestroyCount and DestroyAts
Destroys(t) ==
    /\ t \in Threads /\ DOMAIN pc' = Threads /\ DOMAIN op' = Threads
    /\ \/ t \in Users /\ op[t] \in {"register", "unregister"}
       \/ t = "close" /\ op[t] = "close"
    /\ \A v \in Threads \ {t} :
          /\ op'[v] = op[v]
          /\ \/ pc'[v] = pc[v]
             \/ pc[v] = "sleep_pending" /\ pc'[v] = "wait_pending"
    /\ \/ /\ pc[t] = "unset" /\ page_dir' = page_dir \ {obj[t]} /\ op'[t] = op[t]
          /\ pc'[t] = IF state[obj[t]] = "DEAD" THEN "count" ELSE "ats"
          /\ UNCHANGED <<state, no_channels, obj, num_pending>>
       \/ /\ pc[t] = "count" /\ num_pending' = num_pending - 1 /\ op'[t] = op[t]
          /\ pc'[t] = "ats"
          /\ UNCHANGED <<state, no_channels, obj, page_dir>>
       \/ /\ pc[t] = "ats"
          /\ \/ op[t] = "register" /\ op'[t] = "register" /\ pc'[t] = "release"
             \/ op[t] = "unregister" /\ op'[t] = "none" /\ pc'[t] = "idle"
             \/ op[t] = "close" /\ op'[t] = "close" /\ pc'[t] = "notifier"
          /\ obj' = [obj EXCEPT ![t] = NONE] /\ state' = [state EXCEPT ![obj[t]] = "DEAD"]
          /\ no_channels' = no_channels \ {obj[t]}
          /\ UNCHANGED <<num_pending, page_dir>>
    /\ SameChannels /\ SameMm /\ SameFlags /\ UNCHANGED lock

\* A step of a shutdown.
ShutsDown(t) ==
    /\ t \in Threads /\ DOMAIN pc' = Threads /\ DOMAIN op' = Threads
    /\ IF pc[t] = "synchronize" THEN op[t] \in {"skipped", "done"} ELSE op[t] = "shutdown"
    /\ \/ pc[t] = "shutdown" /\ pc'[t] = "stop" /\ CanWrite
       \/ pc[t] = "stop" /\ pc'[t] = "detach_all"
       \/ pc[t] = "detach_all" /\ pc'[t] \in {"flush", "unset_all"}
       \/ pc[t] = "flush" /\ pc'[t] = "unset_all" /\ Flushable
       \/ pc[t] = "unset_all" /\ pc'[t] = "wait_pending"
       \/ pc[t] = "wait_pending" /\ pc'[t] \in {"mark", "sleep_pending"}
       \/ pc[t] = "mark" /\ pc'[t] = "free"
       \/ pc[t] = "wait_retained" /\ pc'[t] \in {"returned", "sleep_retained"}
       \/ pc[t] = "returned" /\ pc'[t] = "synchronize"
       \/ pc[t] = "synchronize" /\ pc'[t] = "end" /\ \A e \in Enders : ~InShutdown(e)
    /\ pc'[t] = "mark" => num_pending = 0
    /\ pc'[t] = "returned" => retained_count = 0
    /\ op'[t] = IF pc[t] = "returned" THEN "done" ELSE op[t]
    /\ \A v \in Threads \ {t} : pc'[v] = pc[v] /\ op'[v] = op[v]
    /\ lock' = IF pc[t] = "shutdown" THEN t ELSE IF pc[t] = "stop" THEN NONE ELSE lock
    /\ IF pc[t] = "shutdown" THEN disallow_new_registers' = TRUE
       ELSE UNCHANGED disallow_new_registers
    /\ IF pc[t] = "stop" THEN user_channels_stopped' = TRUE
       ELSE UNCHANGED user_channels_stopped
    /\ bound' = IF pc[t] = "stop" /\ ~user_channels_stopped THEN bound \ listed ELSE bound
    /\ IF pc[t] = "detach_all" THEN Detach(t, listed)
       ELSE UNCHANGED <<gpu_va_space, listed, table, deferred, used>>
    /\ faults' = IF pc[t] = "flush" THEN {} ELSE faults
    /\ page_dir' = IF pc[t] = "unset_all" THEN page_dir \ Registered ELSE page_dir
    /\ IF pc[t] = "mark" THEN alive' = FALSE ELSE UNCHANGED alive
    /\ IF pc[t] = "returned" THEN notifier' = FALSE ELSE UNCHANGED notifier
    /\ UNCHANGED <<obj, chan, state, no_channels, num_pending, retained_count, holders>>

\* uvm_va_space_destroy
Closes ==
    /\ pc["close"] = "idle" /\ op["close"] = "none" /\ \A u \in Users : pc[u] = "idle"
    /\ Moves("close", "close", "unregister_all") /\ lock = NONE
    /\ bound' = IF user_channels_stopped THEN bound ELSE bound \ listed
    /\ user_channels_stopped' = TRUE
    /\ SameSpaces /\ SameMm
    /\ UNCHANGED <<disallow_new_registers, notifier, gpu_va_space, listed, table, used, chan,
                   deferred, faults, lock>>

\* DestroyUnregister; at most one GPU VA space is registered
UnregistersAll ==
    /\ op["close"] = "close" /\ pc["close"] = "unregister_all"
    /\ Moves("close", "close", "flush_queues") /\ CanWrite
    /\ state' = [s \in Spaces |-> IF state[s] = "ACTIVE" THEN "DEAD" ELSE state[s]]
    /\ num_pending' = num_pending + Cardinality(Registered)
    /\ \/ Registered = {} /\ obj' = [obj EXCEPT !["close"] = NONE]
       \/ \E s \in Registered : Registered = {s} /\ obj' = [obj EXCEPT !["close"] = s]
    /\ Detach("close", {c \in listed : gpu_va_space[c] \in Registered})
    /\ SameMm /\ SameFlags /\ UNCHANGED <<page_dir, no_channels, chan, faults, lock>>

\* The faults, and what the bottom half does with them.
Faults(c) ==
    /\ \/ c \in bound /\ faults' = faults \cup {c} /\ UNCHANGED <<pc, op, chan>>
       \/ c \in faults \ table /\ faults' = faults \ {c} /\ UNCHANGED <<pc, op, chan>>
       \/ /\ c \in faults \cap table /\ pc["bh"] = "idle" /\ op["bh"] = "none"
          /\ faults' = faults \ {c}
          /\ Moves("bh", "fault", "fault_retain") /\ chan' = [chan EXCEPT !["bh"] = c]
       \/ /\ pc["bh"] = "service" /\ op["bh"] = "fault" /\ UNCHANGED faults
          /\ Moves("bh", "fault", "release") /\ chan' = [chan EXCEPT !["bh"] = NONE]
    /\ SameSpaces /\ SameMm /\ SameFlags
    /\ UNCHANGED <<gpu_va_space, listed, table, bound, used, deferred, lock>>

Effect ==
    \/ \E u \in Users : \/ \E s \in Spaces : Registers(u, s) \/ Unregisters(u, s)
                        \/ \E c \in Channels : UsesChannel(u, c)
                        \/ Adds(u) \/ Removes(u) \/ Attaches(u)
    \/ \E t \in Threads : Goes(t) \/ RetainsLater(t) \/ Releases(t)
    \/ \E t \in Users \cup Enders : Frees(t) \/ Destroys(t)
    \/ \E t \in Enders : ShutsDown(t)
    \/ Closes \/ UnregistersAll
    \/ \E c \in Channels \cup {NONE} : Faults(c)

-----------------------------------------------------------------------------
\* What a step may do to the state of MmGate.
SameEnds == \A t \in Enders : (Returned(t)' <=> Returned(t)) /\ (Marked(t)' <=> Marked(t))
MmRetain(t) ==
    /\ alive /\ t \notin holders
    /\ retained_count' = retained_count + 1 /\ holders' = holders \cup {t} /\ UNCHANGED alive
MmRelease(t) ==
    /\ t \in holders
    /\ retained_count' = retained_count - 1 /\ holders' = holders \ {t} /\ UNCHANGED alive
EndMarks(t) ==
    /\ ~Marked(t) /\ Marked(t)' /\ ~Returned(t)'
    /\ \A e \in Enders \ {t} : (Returned(e)' <=> Returned(e)) /\ (Marked(e)' <=> Marked(e))
    /\ alive' = FALSE /\ UNCHANGED <<retained_count, holders>>
EndReturns(t) ==
    /\ Marked(t) /\ ~Returned(t) /\ Returned(t)' /\ retained_count = 0
    /\ \A e \in Enders \ {t} : (Returned(e)' <=> Returned(e)) /\ (Marked(e)' <=> Marked(e))
    /\ UNCHANGED mmVars
GateMove ==
    \/ SameEnds /\ UNCHANGED mmVars
    \/ SameEnds /\ \E t \in Retainers : MmRetain(t) \/ MmRelease(t)
    \/ \E t \in Enders : EndMarks(t) \/ EndReturns(t)
=============================================================================
