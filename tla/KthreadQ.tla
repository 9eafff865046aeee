------------------------------ MODULE KthreadQ ------------------------------
(***************************************************************************)
(* nv_kthread_q: the deferred-work queue that every bottom half of the     *)
(* kernel modules uses (kernel-open/nvidia/nv-kthread-q.c).  One kthread   *)
(* serves a FIFO list of caller-owned items; a counting semaphore wakes    *)
(* it; flush queues an on-stack item twice and waits for it; stop flushes, *)
(* raises main_loop_should_exit and joins the kthread.                     *)
(*                                                                         *)
(* A step is what the code does between two points at which another thread *)
(* can run: the test of main_loop_should_exit, the critical section of     *)
(* q_lock, and the up() that follows it are separate steps.                *)
(*                                                                         *)
(* Callers keep the rules the header states: nobody calls into the queue   *)
(* while a stop is in progress, and a client that stops the queue first    *)
(* raises the flag that tells its callbacks to stop rescheduling.  Calls   *)
(* made after the stop are allowed; the code refuses them.                 *)
(***************************************************************************)
EXTENDS Naturals, Sequences, FiniteSets, Functions

CONSTANTS Threads,           \* the callers
          Items,             \* caller-owned nv_kthread_q_item_t objects
          Kthread,           \* the queue's own thread
          MaxCallbackCalls   \* bound: schedule calls made by one callback

ASSUME ActorsDistinct == /\ Kthread \notin Threads
                         /\ Threads \cap Items = {}
                         /\ Kthread \notin Items

ASSUME FiniteActors == IsFiniteSet(Threads)

ASSUME MaxCallbackCallsNat == MaxCallbackCalls \in Nat

Actors == Threads \cup {Kthread}

\* A queued element is a user item, or the on-stack item of the flush that
\* thread t is executing, which is written t.
Queued == Items \cup Threads

VARIABLES
    q_list,       \* q_list_head, first element at the head
    q_sem,        \* the count of the semaphore
    should_exit,  \* main_loop_should_exit, 0 or 1
    q_kthread,    \* q->q_kthread: "null" or "task"
    kpc,          \* where the kthread is in _main_loop
    kitem,        \* the item it took last
    kcalls,       \* schedule calls the running callback has made
    pc,           \* where an actor is in an API call
    op,           \* which call that is
    arg,          \* the item _raw_q_schedule was given
    round,        \* first or second _raw_q_flush of nv_kthread_q_flush
    completed,    \* completed[t]: the completion of t's flush item is done
    no_resched,   \* the client's flag: a stop has been called
    direct,       \* ghost: the flushes that wait for the queued instance of
                  \* an item, or (at Kthread) for the running one, because
                  \* it was there when they were called,
    indirect      \* ghost: ... because such an item scheduled it

callVars == <<op, arg, round>>
kVars == <<kpc, kitem, kcalls>>
ghostVars == <<direct, indirect>>
vars == <<q_list, q_sem, should_exit, q_kthread, kVars, pc, callVars,
          completed, no_resched, ghostVars>>

Instances == Items \cup {Kthread}

Init ==
    /\ q_list = <<>>
    /\ q_sem = 0
    /\ should_exit = 0
    /\ q_kthread = "null"
    /\ kpc = "exited"
    /\ kitem = Kthread
    /\ kcalls = 0
    /\ pc = [a \in Actors |-> "idle"]
    /\ op = [a \in Actors |-> "schedule"]
    /\ arg = [a \in Actors |-> Kthread]
    /\ round = [t \in Threads |-> 1]
    /\ completed = [t \in Threads |-> 0]
    /\ no_resched = 0
    /\ direct = [i \in Instances |-> {}]
    /\ indirect = [i \in Instances |-> {}]

AllIdle == \A t \in Threads : pc[t] = "idle"

-----------------------------------------------------------------------------
(* The API calls *)

\* nv_kthread_q_init_on_node: the queue object is reset and, unless creating
\* the thread fails, a kthread is started on it.
nv_kthread_q_init ==
    /\ AllIdle
    /\ q_kthread = "null"
    /\ q_list' = <<>>
    /\ q_sem' = 0
    /\ should_exit' = 0
    /\ \/ q_kthread' = "task" /\ kpc' = "down"
       \/ q_kthread' = "null" /\ kpc' = "exited"
    /\ kitem' = Kthread
    /\ kcalls' = 0
    /\ no_resched' = 0
    /\ UNCHANGED <<pc, callVars, completed, ghostVars>>

\* A thread may call schedule or flush on a live queue that nobody stops, and
\* (against the rules, but handled) on one that has been stopped.
MayCall == \/ q_kthread = "task" /\ no_resched = 0
           \/ q_kthread = "null" /\ should_exit = 1

Call(a, o, i) ==
    /\ pc' = [pc EXCEPT ![a] = "enter"]
    /\ op' = [op EXCEPT ![a] = o]
    /\ arg' = [arg EXCEPT ![a] = i]

\* nv_kthread_q_schedule_q_item, called by a thread or by a running callback
nv_kthread_q_schedule_q_item(a, i) ==
    /\ pc[a] = "idle"
    /\ \/ a \in Threads /\ MayCall /\ UNCHANGED kcalls
       \/ /\ a = Kthread /\ kpc = "run" /\ kitem \in Items
          /\ no_resched = 0 /\ kcalls < MaxCallbackCalls
          /\ kcalls' = kcalls + 1
    /\ Call(a, "schedule", i)
    /\ UNCHANGED <<q_list, q_sem, should_exit, q_kthread, kpc, kitem, round,
                   completed, no_resched, ghostVars>>

\* What a flush that starts now waits for: every queued item and the item
\* whose callback runs.
Outstanding(i) == \/ i \in Items /\ i \in Range(q_list)
                  \/ i = Kthread /\ kpc = "run" /\ kitem \in Items

OwedTo(t) ==
    /\ direct' = [i \in Instances |-> IF Outstanding(i) THEN direct[i] \cup {t}
                                      ELSE direct[i]]
    /\ UNCHANGED indirect

nv_kthread_q_flush(t) ==
    /\ pc[t] = "idle"
    /\ MayCall
    /\ Call(t, "flush", t)
    /\ round' = [round EXCEPT ![t] = 1]
    /\ IF should_exit = 1 THEN UNCHANGED ghostVars ELSE OwedTo(t)
    /\ UNCHANGED <<q_list, q_sem, should_exit, q_kthread, kVars, completed,
                   no_resched>>

\* Mutant: stop does not flush.
StopWithoutFlush(t) ==
    /\ AllIdle
    /\ IF q_kthread = "task"
       THEN /\ pc' = [pc EXCEPT ![t] = "stop"]
            /\ op' = [op EXCEPT ![t] = "stop"]
            /\ no_resched' = 1
            /\ UNCHANGED <<arg, round>>
       ELSE UNCHANGED <<pc, callVars, no_resched>>
    /\ UNCHANGED <<q_list, q_sem, should_exit, q_kthread, kVars, completed,
                   ghostVars>>

\* nv_kthread_q_stop: a no-op on a queue without a kthread
nv_kthread_q_stop(t) ==
    /\ AllIdle
    /\ IF q_kthread = "task"
       THEN /\ Call(t, "stop", t)
            /\ round' = [round EXCEPT ![t] = 1]
            /\ no_resched' = 1
            /\ OwedTo(t)
       ELSE UNCHANGED <<pc, callVars, no_resched, ghostVars>>
    /\ UNCHANGED <<q_list, q_sem, should_exit, q_kthread, kVars, completed>>

-----------------------------------------------------------------------------
(* Steps inside a call *)

\* The test of main_loop_should_exit at the top of schedule and flush
CheckAlive(a) ==
    /\ pc[a] = "enter"
    /\ pc' = [pc EXCEPT ![a] = IF should_exit = 0 THEN "add"
                               ELSE IF op[a] = "stop" THEN "stop" ELSE "idle"]
    /\ UNCHANGED <<q_list, q_sem, should_exit, q_kthread, kVars, callVars,
                   completed, no_resched, ghostVars>>

\* A callback that a flush waits for directly makes it wait for what the
\* callback schedules.
Inherit(a, i) ==
    IF a = Kthread
    THEN [indirect EXCEPT ![i] = @ \cup direct[Kthread]]
    ELSE indirect

\* Mutant: the test for a pending item is missing.
AddPendingAgain(a) ==
    /\ pc[a] = "add"
    /\ IF arg[a] \in Items
       THEN indirect' = Inherit(a, arg[a]) /\ UNCHANGED completed
       ELSE completed' = [completed EXCEPT ![a] = 0] /\ UNCHANGED indirect
    /\ Len(q_list) < 4
    /\ pc' = [pc EXCEPT ![a] = "up"]
    /\ q_list' = Append(q_list, arg[a])
    /\ UNCHANGED <<q_sem, should_exit, q_kthread, kVars, callVars,
                   no_resched, direct>>

\* Mutant: up() whether or not the item was added.
UpWithoutAdd(a) ==
    /\ pc[a] = "add"
    /\ IF arg[a] \in Items
       THEN indirect' = Inherit(a, arg[a]) /\ UNCHANGED completed
       ELSE completed' = [completed EXCEPT ![a] = 0] /\ UNCHANGED indirect
    /\ q_sem < 4
    /\ pc' = [pc EXCEPT ![a] = "up"]
    /\ q_list' = IF arg[a] \in Range(q_list) THEN q_list
                 ELSE Append(q_list, arg[a])
    /\ UNCHANGED <<q_sem, should_exit, q_kthread, kVars, callVars,
                   no_resched, direct>>

\* The critical section of _raw_q_schedule: add the item unless it is pending.
\* The on-stack item of a flush is freshly initialised, completion included.
_raw_q_schedule_add(a) ==
    /\ pc[a] = "add"
    /\ IF arg[a] \in Items
       THEN /\ indirect' = Inherit(a, arg[a])
            /\ UNCHANGED completed
       ELSE /\ completed' = [completed EXCEPT ![a] = 0]
            /\ UNCHANGED indirect
    /\ IF arg[a] \in Range(q_list)
       THEN /\ pc' = [pc EXCEPT ![a] = "idle"]
            /\ UNCHANGED q_list
       ELSE /\ pc' = [pc EXCEPT ![a] = "up"]
            /\ q_list' = Append(q_list, arg[a])
    /\ UNCHANGED <<q_sem, should_exit, q_kthread, kVars, callVars,
                   no_resched, direct>>

\* up(&q->q_sem), after q_lock has been dropped
_raw_q_schedule_up(a) ==
    /\ pc[a] = "up"
    /\ q_sem' = q_sem + 1
    /\ pc' = [pc EXCEPT ![a] = IF op[a] = "schedule" THEN "idle" ELSE "wait"]
    /\ UNCHANGED <<q_list, should_exit, q_kthread, kVars, callVars,
                   completed, no_resched, ghostVars>>

\* Mutant: nv_kthread_q_flush flushes once.
SingleFlush(t) ==
    /\ pc[t] = "wait"
    /\ completed[t] = 1
    /\ pc' = [pc EXCEPT ![t] = IF op[t] = "stop" THEN "stop" ELSE "idle"]
    /\ UNCHANGED <<q_list, q_sem, should_exit, q_kthread, kVars, callVars,
                   completed, no_resched, ghostVars>>

\* wait_for_completion in _raw_q_flush, and the second _raw_q_flush
_raw_q_flush_wait(t) ==
    /\ pc[t] = "wait"
    /\ completed[t] = 1
    /\ round' = [round EXCEPT ![t] = 2]
    /\ pc' = [pc EXCEPT ![t] = IF round[t] = 1 THEN "add"
                               ELSE IF op[t] = "stop" THEN "stop" ELSE "idle"]
    /\ UNCHANGED <<q_list, q_sem, should_exit, q_kthread, kVars, op, arg,
                   completed, no_resched, ghostVars>>

\* nv_kthread_q_stop after the flush: main_loop_should_exit, then up()
StopSetExit(t) ==
    /\ pc[t] = "stop"
    /\ should_exit' = 1
    /\ pc' = [pc EXCEPT ![t] = "stop_up"]
    /\ UNCHANGED <<q_list, q_sem, q_kthread, kVars, callVars, completed,
                   no_resched, ghostVars>>

StopUp(t) ==
    /\ pc[t] = "stop_up"
    /\ q_sem' = q_sem + 1
    /\ pc' = [pc EXCEPT ![t] = "kthread_stop"]
    /\ UNCHANGED <<q_list, should_exit, q_kthread, kVars, callVars,
                   completed, no_resched, ghostVars>>

\* kthread_stop waits until _main_loop has left its loop
KthreadStop(t) ==
    /\ pc[t] = "kthread_stop"
    /\ kpc = "exited"
    /\ q_kthread' = "null"
    /\ pc' = [pc EXCEPT ![t] = "idle"]
    /\ UNCHANGED <<q_list, q_sem, should_exit, kVars, callVars, completed,
                   no_resched, ghostVars>>

-----------------------------------------------------------------------------
(* _main_loop *)

\* down_interruptible(&q->q_sem)
MainDown ==
    /\ kpc = "down"
    /\ q_sem > 0
    /\ q_sem' = q_sem - 1
    /\ kpc' = "check"
    /\ UNCHANGED <<q_list, should_exit, q_kthread, kitem, kcalls, pc,
                   callVars, completed, no_resched, ghostVars>>

MainCheckExit ==
    /\ kpc = "check"
    /\ kpc' = IF should_exit = 1 THEN "exited" ELSE "take"
    /\ UNCHANGED <<q_list, q_sem, should_exit, q_kthread, kitem, kcalls, pc,
                   callVars, completed, no_resched, ghostVars>>

\* Mutant: the item added last is taken first.
TakeLast ==
    /\ kpc = "take"
    /\ q_list # <<>>
    /\ kpc' = "run"
    /\ kitem' = q_list[Len(q_list)]
    /\ kcalls' = 0
    /\ q_list' = SubSeq(q_list, 1, Len(q_list) - 1)
    /\ UNCHANGED <<q_sem, should_exit, q_kthread, pc, callVars, completed,
                   no_resched, ghostVars>>

\* The instance of i on the list becomes the running instance.
HandOver(f, i) == [f EXCEPT ![Kthread] = f[i], ![i] = {}]

\* The critical section that takes the first item; an empty list is reported
\* as a bug and the loop goes on.
MainTake ==
    /\ kpc = "take"
    /\ IF q_list = <<>>
       THEN /\ kpc' = "down"
            /\ UNCHANGED <<q_list, kitem, kcalls, ghostVars>>
       ELSE /\ kpc' = "run"
            /\ kitem' = Head(q_list)
            /\ kcalls' = 0
            /\ q_list' = Tail(q_list)
            /\ IF Head(q_list) \in Items
               THEN /\ direct' = HandOver(direct, Head(q_list))
                    /\ indirect' = HandOver(indirect, Head(q_list))
               ELSE UNCHANGED ghostVars
    /\ UNCHANGED <<q_sem, should_exit, q_kthread, pc, callVars, completed,
                   no_resched>>

\* function_to_run returns: a user callback has made its calls, or
\* _q_flush_function has completed the flush's completion.
MainRun ==
    /\ kpc = "run"
    /\ pc[Kthread] = "idle"
    /\ kpc' = "down"
    /\ kitem' = Kthread
    /\ IF kitem \in Threads
       THEN completed' = [completed EXCEPT ![kitem] = 1]
       ELSE UNCHANGED completed
    /\ direct' = [direct EXCEPT ![Kthread] = {}]
    /\ indirect' = [indirect EXCEPT ![Kthread] = {}]
    /\ UNCHANGED <<q_list, q_sem, should_exit, q_kthread, kcalls, pc,
                   callVars, no_resched>>

-----------------------------------------------------------------------------
MainLoop == MainDown \/ MainCheckExit \/ MainTake \/ MainRun

InCall(a) == CheckAlive(a) \/ _raw_q_schedule_add(a) \/ _raw_q_schedule_up(a)

ThreadInCall(t) ==
    \/ InCall(t)
    \/ _raw_q_flush_wait(t)
    \/ StopSetExit(t)
    \/ StopUp(t)
    \/ KthreadStop(t)

Next ==
    \/ nv_kthread_q_init
    \/ \E a \in Actors, i \in Items : nv_kthread_q_schedule_q_item(a, i)
    \/ \E t \in Threads : nv_kthread_q_flush(t) \/ nv_kthread_q_stop(t)
    \/ \E t \in Threads : ThreadInCall(t)
    \/ InCall(Kthread)
    \/ MainLoop

\* The kernel schedules every runnable thread; callbacks return.
Fairness ==
    /\ WF_vars(MainLoop)
    /\ WF_vars(InCall(Kthread))
    /\ \A t \in Threads : WF_vars(ThreadInCall(t))

Spec == Init /\ [][Next]_vars /\ Fairness

-----------------------------------------------------------------------------
(* Properties *)

Pcs == {"idle", "enter", "add", "up", "wait", "stop", "stop_up",
        "kthread_stop"}

TypeOK ==
    /\ q_list \in Seq(Queued)
    /\ q_sem \in Nat
    /\ should_exit \in {0, 1}
    /\ q_kthread \in {"null", "task"}
    /\ kpc \in {"down", "check", "take", "run", "exited"}
    /\ kitem \in Queued \cup {Kthread}
    /\ kcalls \in Nat
    /\ pc \in [Actors -> Pcs]
    /\ op \in [Actors -> {"schedule", "flush", "stop"}]
    /\ arg \in [Actors -> Queued \cup {Kthread}]
    /\ round \in [Threads -> {1, 2}]
    /\ completed \in [Threads -> {0, 1}]
    /\ no_resched \in {0, 1}
    /\ direct \in [Instances -> SUBSET Threads]
    /\ indirect \in [Instances -> SUBSET Threads]

\* "The q_sem semaphore prevents us from getting here unless there is at least
\* one item in the list": the kthread never finds the list empty, although
\* up() is called after the lock has been dropped and by several actors.
NeverEmptyTake == kpc = "take" => q_list # <<>>

InFlush(t) == op[t] \in {"flush", "stop"} /\ pc[t] \in {"enter", "add", "up", "wait"}

\* The promise of nv_kthread_q_flush: when it has returned, every item that
\* was queued or running when it was called has run, and so has every item
\* those items scheduled (or found already pending).
FlushComplete ==
    \A t \in Threads : ~InFlush(t) =>
        \A i \in Instances : t \notin direct[i] /\ t \notin indirect[i]

\* An item is never on the list twice, and the on-stack item of a flush is
\* neither on the list nor in the kthread's hands once the flush has returned.
NoDanglingItem ==
    /\ IsInjective(q_list)
    /\ \A t \in Threads :
          (t \in Range(q_list) \/ (kpc = "run" /\ kitem = t)) =>
              pc[t] \in {"up", "wait"} /\ arg[t] = t /\ completed[t] = 0

\* Every call returns: a flush is served although other callers and callbacks
\* keep adding items, and a stop joins the kthread.
CallsReturn == \A t \in Threads : (pc[t] # "idle") ~> (pc[t] = "idle")

\* The queue keeps the promise of WorkQueue: FIFO order, one item at a time, no
\* item twice; and when main_loop_should_exit is raised nothing is queued, runs
\* or is still being added, so that no work is dropped ("list not empty after
\* flushing" is not reported).
Abstract == INSTANCE WorkQueue WITH
    Items <- Queued, NONE <- Kthread, queue <- q_list,
    running <- IF kpc = "run" THEN kitem ELSE Kthread,
    open <- q_kthread = "task" /\ should_exit = 0

QueueRefined == Abstract!WqSpec
=============================================================================
