--------------------------- MODULE KthreadQProofs ---------------------------
(***************************************************************************)
(* Proofs about KthreadQ for any number of callers and items: the types,   *)
(* that the kthread never finds its list empty, what flush waits for, that *)
(* no on-stack item is left behind, and that the queue implements          *)
(* WorkQueue.                                                              *)
(***************************************************************************)
EXTENDS KthreadQ, FiniteSetTheorems, TLAPS

\* The provers' time limit for every step, in seconds
USE SMTT(40)

(***************************************************************************)
(* tlapm infers types for its SMT encoding, at a cost that grows with the  *)
(* obligations already treated.  A hypothesis with a CASE has no type, and *)
(* this one makes it encode the leaves of the module without types.        *)
(***************************************************************************)
LEMMA Untyped == \A x : (CASE x = 0 -> 1 [] OTHER -> 2) \in {1, 2}
  OBVIOUS

USE Untyped

\* The actors that have added an item and not yet called up() for it
Ups == {a \in Actors : pc[a] = "up"}

\* The kthread has taken a count from the semaphore and not yet an item
Woken == IF kpc \in {"check", "take"} THEN 1 ELSE 0

\* On a live queue every item on the list is accounted for exactly once: by
\* the semaphore, by an up() still to come, or by the woken kthread.
SemCounts == should_exit = 0 => Len(q_list) = q_sem + Cardinality(Ups) + Woken

\* Who may be where: callbacks only run inside the kthread's "run", there is
\* no kthread without q_kthread, and stop's own up() follows its flag.
Places ==
    /\ pc[Kthread] # "idle" => kpc = "run"
    /\ q_kthread = "null" => kpc = "exited"
    /\ \A t \in Threads : pc[t] = "stop_up" => should_exit = 1

\* An actor inside a call has been given an item.
ArgOK == \A a \in Actors : pc[a] # "idle" => arg[a] \in Queued

IInv == TypeOK /\ ArgOK /\ SemCounts /\ Places /\ NeverEmptyTake

-----------------------------------------------------------------------------
\* Handing over what is owed keeps its type.
LEMMA HandOverType ==
  ASSUME NEW f \in [Instances -> SUBSET Threads], NEW i \in Items
  PROVE  HandOver(f, i) \in [Instances -> SUBSET Threads]
BY DEF HandOver, Instances

\* So does owing every outstanding item to one more thread.
LEMMA OwedType ==
  ASSUME direct \in [Instances -> SUBSET Threads], NEW t \in Threads, OwedTo(t)
  PROVE  direct' \in [Instances -> SUBSET Threads] /\ indirect' = indirect
BY DEF OwedTo

\* Every step keeps the types.
LEMMA TypeStep == TypeOK /\ ArgOK /\ [Next]_vars => TypeOK'
<1> SUFFICES ASSUME TypeOK, ArgOK, [Next]_vars PROVE TypeOK'
  OBVIOUS
<1> USE ActorsDistinct, MaxCallbackCallsNat
    DEF TypeOK, ArgOK, Actors, Queued, Instances, Pcs, kVars, callVars, ghostVars
<1>1. ASSUME nv_kthread_q_init PROVE TypeOK'
  BY <1>1 DEF nv_kthread_q_init
<1>2. ASSUME NEW a \in Actors, NEW i \in Items, nv_kthread_q_schedule_q_item(a, i) PROVE TypeOK'
  BY <1>2 DEF nv_kthread_q_schedule_q_item, Call
<1>3. ASSUME NEW t \in Threads, nv_kthread_q_flush(t) PROVE TypeOK'
  <2>1. direct' \in [Instances -> SUBSET Threads] /\ indirect' = indirect
    BY <1>3, OwedType DEF nv_kthread_q_flush
  <2>2. pc' \in [Actors -> Pcs] /\ op' \in [Actors -> {"schedule", "flush", "stop"}]
    BY <1>3 DEF nv_kthread_q_flush, Call
  <2>3. arg' \in [Actors -> Queued \cup {Kthread}]
    BY <1>3 DEF nv_kthread_q_flush, Call
  <2> QED
    BY <1>3, <2>1, <2>2, <2>3, ZenonT(60) DEF nv_kthread_q_flush
<1>4. ASSUME NEW t \in Threads, nv_kthread_q_stop(t) PROVE TypeOK'
  <2>1. CASE q_kthread = "task"
    <3>1. direct' \in [Instances -> SUBSET Threads] /\ indirect' = indirect
      BY <1>4, <2>1, OwedType DEF nv_kthread_q_stop
    <3>2. pc' \in [Actors -> Pcs] /\ op' \in [Actors -> {"schedule", "flush", "stop"}]
      BY <1>4, <2>1, ZenonT(60) DEF nv_kthread_q_stop, Call
    <3>3. arg' \in [Actors -> Queued \cup {Kthread}]
      BY <1>4, <2>1 DEF nv_kthread_q_stop, Call
    <3> QED
      BY <1>4, <2>1, <3>1, <3>2, <3>3, ZenonT(60) DEF nv_kthread_q_stop
  <2>2. CASE q_kthread # "task"
    BY <1>4, <2>2 DEF nv_kthread_q_stop
  <2> QED
    BY <2>1, <2>2
<1>5. ASSUME NEW a \in Actors, CheckAlive(a) PROVE TypeOK'
  BY <1>5 DEF CheckAlive
<1>6. ASSUME NEW a \in Actors, _raw_q_schedule_add(a) PROVE TypeOK'
  <2>1. arg[a] \in Queued
    BY <1>6 DEF _raw_q_schedule_add
  <2>2. q_list' \in Seq(Queued)
    <3>1. q_list' = q_list \/ q_list' = Append(q_list, arg[a])
      BY <1>6 DEF _raw_q_schedule_add
    <3>2. Append(q_list, arg[a]) \in Seq(Queued)
      BY <2>1
    <3> QED
      BY <3>1, <3>2, ZenonT(60)
  <2>4. pc' \in [Actors -> Pcs]
    BY <1>6 DEF _raw_q_schedule_add
  <2>3. indirect' \in [Instances -> SUBSET Threads] /\ completed' \in [Threads -> {0, 1}]
    BY <1>6, <2>1 DEF _raw_q_schedule_add, Inherit
  <2> QED
    BY <1>6, <2>2, <2>3, <2>4 DEF _raw_q_schedule_add
<1>7. ASSUME NEW a \in Actors, _raw_q_schedule_up(a) PROVE TypeOK'
  BY <1>7 DEF _raw_q_schedule_up
<1>8. ASSUME NEW t \in Threads, _raw_q_flush_wait(t) PROVE TypeOK'
  BY <1>8 DEF _raw_q_flush_wait
<1>9. ASSUME NEW t \in Threads, StopSetExit(t) \/ StopUp(t) \/ KthreadStop(t) PROVE TypeOK'
  BY <1>9 DEF StopSetExit, StopUp, KthreadStop
<1>10. ASSUME MainDown PROVE TypeOK'
  BY <1>10 DEF MainDown
<1>11. ASSUME MainCheckExit PROVE TypeOK'
  BY <1>11 DEF MainCheckExit
<1>12. ASSUME MainTake PROVE TypeOK'
  <2>1. CASE q_list = <<>>
    BY <1>12, <2>1 DEF MainTake
  <2>2. CASE q_list # <<>>
    <3> DEFINE h == Head(q_list)
               tl == Tail(q_list)
    <3>1. h \in Queued /\ tl \in Seq(Queued)
      BY <2>2
    <3>2. /\ kpc' = "run" /\ kitem' = h /\ kcalls' = 0 /\ q_list' = tl
          /\ IF h \in Items
             THEN direct' = HandOver(direct, h) /\ indirect' = HandOver(indirect, h)
             ELSE direct' = direct /\ indirect' = indirect
          /\ UNCHANGED <<q_sem, should_exit, q_kthread, pc, op, arg, round,
                         completed, no_resched>>
      BY <1>12, <2>2 DEF MainTake
    <3> HIDE DEF h, tl
    <3>3. direct' \in [Instances -> SUBSET Threads] /\ indirect' \in [Instances -> SUBSET Threads]
      <4> HIDE DEF Instances
      <4>1. CASE h \in Items
        BY <3>2, <4>1, HandOverType
      <4>2. CASE h \notin Items
        BY <3>2, <4>2
      <4> QED
        BY <4>1, <4>2
    <3> QED
      BY <3>1, <3>2, <3>3
  <2> QED
    BY <2>1, <2>2
<1>13. ASSUME MainRun PROVE TypeOK'
  BY <1>13 DEF MainRun
<1>14. ASSUME UNCHANGED vars PROVE TypeOK'
  BY <1>14 DEF vars
<1> QED
  BY <1>1, <1>2, <1>3, <1>4, <1>5, <1>6, <1>7, <1>8, <1>9, <1>10, <1>11,
     <1>12, <1>13, <1>14, ZenonT(60) DEF Next, ThreadInCall, InCall, MainLoop

\* Every call works on an item it has been given.
LEMMA ArgStep == TypeOK /\ ArgOK /\ [Next]_vars => ArgOK'
<1> SUFFICES ASSUME TypeOK, ArgOK, [Next]_vars PROVE ArgOK'
  OBVIOUS
<1>1. CASE UNCHANGED <<pc, arg>>
  BY <1>1 DEF ArgOK
<1>2. ASSUME NEW a \in Actors, NEW x \in Queued, NEW o, Call(a, o, x) PROVE ArgOK'
  BY <1>2 DEF ArgOK, TypeOK, Call
<1>3. ASSUME NEW a \in Actors, pc[a] # "idle", NEW v, pc' = [pc EXCEPT ![a] = v], arg' = arg
      PROVE  ArgOK'
  BY <1>3 DEF ArgOK, TypeOK
<1>4. CASE \/ nv_kthread_q_init \/ MainLoop \/ UNCHANGED vars
  BY <1>1, <1>4 DEF nv_kthread_q_init, MainLoop, MainDown, MainCheckExit, MainTake, MainRun,
                    callVars, vars
<1>5. CASE \E a \in Actors, i \in Items : nv_kthread_q_schedule_q_item(a, i)
  BY <1>2, <1>5 DEF nv_kthread_q_schedule_q_item, Queued
<1>6. CASE \E t \in Threads : nv_kthread_q_flush(t) \/ nv_kthread_q_stop(t)
  BY <1>1, <1>2, <1>6 DEF nv_kthread_q_flush, nv_kthread_q_stop, callVars, Queued, Actors
<1>7. ASSUME NEW a \in Actors, InCall(a) PROVE ArgOK'
  BY <1>3, <1>7 DEF InCall, CheckAlive, _raw_q_schedule_add, _raw_q_schedule_up, callVars
<1>8. ASSUME NEW t \in Threads, ThreadInCall(t) PROVE ArgOK'
  BY <1>3, <1>7, <1>8 DEF ThreadInCall, _raw_q_flush_wait, StopSetExit, StopUp, KthreadStop,
                          callVars, Actors
<1> QED
  BY <1>4, <1>5, <1>6, <1>7, <1>8 DEF Next, Actors

\* The types of the queue's state are kept by every operation.
THEOREM TypeCorrect == Spec => []TypeOK
<1>1. Init => TypeOK /\ ArgOK
  BY ActorsDistinct DEF Init, TypeOK, ArgOK, Actors, Queued, Pcs, Instances
<1>2. TypeOK /\ ArgOK /\ [Next]_vars => TypeOK' /\ ArgOK'
  BY TypeStep, ArgStep
<1> QED
  BY <1>1, <1>2, PTL DEF Spec

-----------------------------------------------------------------------------
\* The pending up() calls can be counted.
LEMMA UpsFinite == IsFiniteSet(Ups) /\ Cardinality(Ups) \in Nat
<1>1. IsFiniteSet(Actors)
  BY FiniteActors, FS_AddElement DEF Actors
<1> QED
  BY <1>1, FS_Subset, FS_CardinalityType DEF Ups

\* What moving one actor does to the number of pending up() calls
LEMMA UpsAdd ==
  ASSUME TypeOK, NEW a \in Actors, pc[a] # "up", pc' = [pc EXCEPT ![a] = "up"]
  PROVE  Cardinality(Ups') = Cardinality(Ups) + 1
<1>1. Ups' = Ups \cup {a} /\ a \notin Ups
  BY DEF Ups, TypeOK
<1> QED
  BY <1>1, UpsFinite, FS_AddElement

\* An up() that is done is no longer pending.
LEMMA UpsRemove ==
  ASSUME TypeOK, NEW a \in Actors, pc[a] = "up", NEW v, v # "up", pc' = [pc EXCEPT ![a] = v]
  PROVE  Cardinality(Ups') = Cardinality(Ups) - 1
<1>1. Ups' = Ups \ {a} /\ a \in Ups
  BY DEF Ups, TypeOK
<1> QED
  BY <1>1, UpsFinite, FS_RemoveElement

\* A step of an actor that is not at its up() leaves the count alone.
LEMMA UpsSame ==
  ASSUME TypeOK, NEW a \in Actors, pc[a] # "up", NEW v, v # "up", pc' = [pc EXCEPT ![a] = v]
  PROVE  Cardinality(Ups') = Cardinality(Ups)
<1>1. Ups' = Ups
  BY DEF Ups, TypeOK
<1> QED
  BY <1>1

\* Every step keeps the places.
LEMMA PlacesStep == TypeOK /\ Places /\ [Next]_vars => Places'
<1> SUFFICES ASSUME TypeOK, Places, [Next]_vars PROVE Places'
  OBVIOUS
<1> USE ActorsDistinct DEF TypeOK, Places, Actors, Pcs, kVars, callVars
<1>1. CASE nv_kthread_q_init
  BY <1>1 DEF nv_kthread_q_init, AllIdle
<1>2. ASSUME NEW a \in Actors, NEW i \in Items, nv_kthread_q_schedule_q_item(a, i) PROVE Places'
  BY <1>2 DEF nv_kthread_q_schedule_q_item, Call
<1>3. ASSUME NEW t \in Threads, nv_kthread_q_flush(t) \/ nv_kthread_q_stop(t) PROVE Places'
  BY <1>3 DEF nv_kthread_q_flush, nv_kthread_q_stop, Call
<1>4. ASSUME NEW a \in Actors, InCall(a) PROVE Places'
  BY <1>4 DEF InCall, CheckAlive, _raw_q_schedule_add, _raw_q_schedule_up
<1>5. ASSUME NEW t \in Threads, ThreadInCall(t) PROVE Places'
  BY <1>4, <1>5 DEF ThreadInCall, _raw_q_flush_wait, StopSetExit, StopUp, KthreadStop
<1>6. CASE MainLoop
  BY <1>6 DEF MainLoop, MainDown, MainCheckExit, MainTake, MainRun
<1>7. CASE UNCHANGED vars
  BY <1>7 DEF vars
<1> QED
  BY <1>1, <1>2, <1>3, <1>4, <1>5, <1>6, <1>7 DEF Next

\* Every step keeps the account of the semaphore.
LEMMA SemStep == IInv /\ [Next]_vars => SemCounts' /\ NeverEmptyTake'
<1> SUFFICES ASSUME IInv, [Next]_vars PROVE SemCounts' /\ NeverEmptyTake'
  OBVIOUS
<1> USE DEF IInv, SemCounts, NeverEmptyTake, Woken
<1>n. /\ Cardinality(Ups) \in Nat /\ q_sem \in Nat /\ Len(q_list) \in Nat
      /\ q_list \in Seq(Queued)
  BY UpsFinite DEF TypeOK
<1>s. ASSUME NEW a \in Actors, pc[a] # "up", NEW v, v # "up", pc' = [pc EXCEPT ![a] = v],
             UNCHANGED <<q_list, q_sem, should_exit, kpc>>
      PROVE  SemCounts' /\ NeverEmptyTake'
  BY <1>s, UpsSame, ZenonT(60)
<1>1. CASE nv_kthread_q_init
  <2>1. Ups' = {} /\ q_list' = <<>> /\ q_sem' = 0 /\ kpc' \notin {"check", "take"}
    BY <1>1 DEF nv_kthread_q_init, AllIdle, Ups, Actors, Places
  <2> QED
    BY <2>1, FS_EmptySet
<1>2. ASSUME NEW a \in Actors, NEW i \in Items, nv_kthread_q_schedule_q_item(a, i)
      PROVE  SemCounts' /\ NeverEmptyTake'
  BY <1>2, <1>s, ZenonT(60) DEF nv_kthread_q_schedule_q_item, Call
<1>3. ASSUME NEW t \in Threads, nv_kthread_q_flush(t) \/ nv_kthread_q_stop(t)
      PROVE  SemCounts' /\ NeverEmptyTake'
  <2>1. CASE UNCHANGED <<q_list, q_sem, should_exit, kpc, pc>>
    BY <2>1 DEF Ups
  <2>2. CASE pc[t] = "idle" /\ pc' = [pc EXCEPT ![t] = "enter"]
    BY <1>3, <1>s, <2>2, ZenonT(60) DEF nv_kthread_q_flush, nv_kthread_q_stop, kVars, Actors
  <2> QED
    BY <1>3, <2>1, <2>2 DEF nv_kthread_q_flush, nv_kthread_q_stop, Call, AllIdle, kVars
<1>4. ASSUME NEW a \in Actors, CheckAlive(a) PROVE SemCounts' /\ NeverEmptyTake'
  BY <1>4, <1>s, ZenonT(60) DEF CheckAlive, kVars
<1>5. ASSUME NEW a \in Actors, _raw_q_schedule_add(a) PROVE SemCounts' /\ NeverEmptyTake'
  <2>1. CASE q_list' = q_list /\ pc' = [pc EXCEPT ![a] = "idle"]
    BY <1>5, <1>s, <2>1, ZenonT(60) DEF _raw_q_schedule_add, kVars
  <2>2. CASE q_list' = Append(q_list, arg[a]) /\ pc' = [pc EXCEPT ![a] = "up"]
    <3>1. arg[a] \in Queued
      BY <1>5 DEF _raw_q_schedule_add, ArgOK
    <3>2. Len(q_list') = Len(q_list) + 1 /\ q_list' # <<>>
      BY <1>n, <2>2, <3>1
    <3>3. Cardinality(Ups') = Cardinality(Ups) + 1
      BY <1>5, <2>2, UpsAdd, ZenonT(60) DEF _raw_q_schedule_add
    <3> QED
      BY <1>5, <1>n, <3>2, <3>3 DEF _raw_q_schedule_add, kVars
  <2> QED
    BY <1>5, <2>1, <2>2 DEF _raw_q_schedule_add
<1>6. ASSUME NEW a \in Actors, _raw_q_schedule_up(a) PROVE SemCounts' /\ NeverEmptyTake'
  <2>1. Cardinality(Ups') = Cardinality(Ups) - 1
    <3> DEFINE v == IF op[a] = "schedule" THEN "idle" ELSE "wait"
    <3>1. pc[a] = "up" /\ v # "up" /\ pc' = [pc EXCEPT ![a] = v]
      BY <1>6 DEF _raw_q_schedule_up
    <3> HIDE DEF v
    <3> QED
      BY <3>1, UpsRemove, ZenonT(60)
  <2> QED
    BY <1>6, <1>n, <2>1 DEF _raw_q_schedule_up, kVars
<1>7. ASSUME NEW t \in Threads, _raw_q_flush_wait(t) PROVE SemCounts' /\ NeverEmptyTake'
  BY <1>7, <1>s, ZenonT(60) DEF _raw_q_flush_wait, kVars, Actors
<1>8. ASSUME NEW t \in Threads, StopSetExit(t) \/ StopUp(t) \/ KthreadStop(t)
      PROVE  SemCounts' /\ NeverEmptyTake'
  <2>1. CASE StopSetExit(t) \/ StopUp(t)
    BY <1>8, <2>1 DEF StopSetExit, StopUp, kVars, Places
  <2>2. CASE KthreadStop(t)
    BY <1>s, <2>2, ZenonT(60) DEF KthreadStop, kVars, Actors
  <2> QED
    BY <1>8, <2>1, <2>2
<1>9. CASE MainDown
  BY <1>9, <1>n DEF MainDown, Ups
<1>10. CASE MainCheckExit
  <2>1. q_list = <<>> => Len(q_list) = 0
    OBVIOUS
  <2> QED
    BY <1>10, <1>n, <2>1, UpsFinite DEF MainCheckExit, Ups, TypeOK
<1>11. CASE MainTake
  <2>1. q_list # <<>> /\ Len(Tail(q_list)) = Len(q_list) - 1
    BY <1>11, <1>n DEF MainTake
  <2> QED
    BY <1>11, <1>n, <2>1 DEF MainTake, Ups
<1>12. CASE MainRun
  BY <1>12, <1>n DEF MainRun, Ups
<1>13. CASE UNCHANGED vars
  BY <1>13 DEF vars, kVars, Ups
<1> QED
  BY <1>1, <1>2, <1>3, <1>4, <1>5, <1>6, <1>7, <1>8, <1>9, <1>10, <1>11, <1>12, <1>13
  DEF Next, ThreadInCall, InCall, MainLoop, Actors

\* The comment in _main_loop, "The q_sem semaphore prevents us from getting
\* here unless there is at least one item in the list", is true for any number
\* of callers, items and callbacks.
THEOREM NeverEmpty == Spec => []NeverEmptyTake
<1>1. Init => IInv
  <2>1. Init => Ups = {}
    BY DEF Init, Ups
  <2>2. Init => TypeOK /\ ArgOK
    BY ActorsDistinct DEF Init, TypeOK, ArgOK, Actors, Queued, Pcs, Instances
  <2>3. Init => SemCounts /\ NeverEmptyTake
    <3> SUFFICES ASSUME Init PROVE SemCounts /\ NeverEmptyTake
      OBVIOUS
    <3>1. q_list = <<>> /\ q_sem = 0 /\ kpc = "exited"
      BY DEF Init
    <3>2. Cardinality(Ups) = 0
      BY <2>1, FS_EmptySet
    <3> QED
      BY <3>1, <3>2 DEF SemCounts, NeverEmptyTake, Woken
  <2>4. Init => Places
    <3> SUFFICES ASSUME Init PROVE Places
      OBVIOUS
    <3>1. pc[Kthread] = "idle" /\ \A t \in Threads : pc[t] = "idle"
      BY DEF Init, Actors
    <3> QED
      BY <3>1 DEF Init, Places
  <2> QED
    BY <2>2, <2>3, <2>4 DEF IInv
<1>2. IInv /\ [Next]_vars => IInv'
  BY TypeStep, ArgStep, PlacesStep, SemStep DEF IInv
<1>3. IInv => NeverEmptyTake
  BY DEF IInv
<1> QED
  BY <1>1, <1>2, <1>3, PTL DEF Spec

-----------------------------------------------------------------------------
(***************************************************************************)
(* What flush and stop rely on.                                            *)
(***************************************************************************)
\* On list s no x comes after a y.
Ahead(s, x, y) == \A m, n \in 1..Len(s) : s[m] = x /\ s[n] = y => m < n

\* Who makes which call, and when: a thread flushes or stops with an item of
\* its own, nothing is added before init or after stop's flag, and a stop is
\* alone.
Calls ==
    /\ \A a \in Actors : pc[a] # "idle" =>
          \/ op[a] = "schedule" /\ arg[a] \in Items /\ pc[a] \in {"enter", "add", "up"}
          \/ a \in Threads /\ op[a] \in {"flush", "stop"} /\ arg[a] = a
    /\ \A a \in Actors : pc[a] \in {"add", "up", "wait"} => should_exit = 0
    /\ \A a \in Actors : pc[a] # "idle" /\ should_exit = 0 => q_kthread = "task"
    /\ \A t \in Threads : pc[t] # "idle" /\ op[t] = "stop" =>
          /\ no_resched = 1 /\ q_kthread = "task"
          /\ \A u \in Threads \ {t} : pc[u] = "idle"
    /\ \A t \in Threads : pc[t] \in {"stop", "stop_up", "kthread_stop"} => op[t] = "stop"
    /\ \A t \in Threads : pc[t] \in {"stop_up", "kthread_stop"} => should_exit = 1
    /\ q_kthread = "task" /\ should_exit = 1 =>
          \E t \in Threads : pc[t] \in {"stop_up", "kthread_stop"}
    /\ pc[Kthread] # "idle" => op[Kthread] = "schedule" /\ kpc = "run" /\ kitem \in Items
    /\ kpc = "run" => kitem \in Queued
    /\ q_kthread = "null" => kpc = "exited"

\* Where the item of a flush may be: on the list once, then with the kthread.
Once ==
    /\ NoDanglingItem
    /\ \A t \in Threads : kpc = "run" /\ kitem = t => t \notin Range(q_list)

\* What is owed to a flush waits or runs, and is ahead of the item the flush
\* waits for: what was there at the call of the first item, what those items
\* scheduled of the second.
OwedInTurn(t) ==
    /\ \A i \in Items : t \in direct[i] \/ t \in indirect[i] => i \in Range(q_list)
    /\ t \in direct[Kthread] \/ t \in indirect[Kthread] => kpc = "run" /\ kitem \in Items
    /\ \A i \in Instances : t \in direct[i] \/ t \in indirect[i] => InFlush(t) /\ should_exit = 0
    /\ \A i \in Instances : t \in direct[i] =>
          round[t] = 1 /\ (pc[t] \in {"enter", "add"} \/ t \in Range(q_list))
    /\ \A i \in Instances : t \in indirect[i] /\ round[t] = 2 =>
          pc[t] = "add" \/ t \in Range(q_list)
    /\ \A i \in Items : t \in direct[i] => Ahead(q_list, i, t)
    /\ \A i \in Items : t \in indirect[i] /\ round[t] = 2 => Ahead(q_list, i, t)

Owed == \A t \in Threads : OwedInTurn(t)

\* The flush of a stop is owed everything that waits or runs, so nothing is
\* left when it is over.
Emptied ==
    /\ \A t \in Threads : InFlush(t) /\ op[t] = "stop" =>
          /\ \A i \in Items : i \in Range(q_list) => t \in direct[i] \/ t \in indirect[i]
          /\ kpc = "run" /\ kitem \in Items => t \in direct[Kthread] \/ t \in indirect[Kthread]
          /\ pc[Kthread] # "idle" => t \in direct[Kthread]
    /\ \A t \in Threads : pc[t] \in {"stop", "stop_up", "kthread_stop"} =>
          q_list = <<>> /\ kpc # "run"
    /\ q_kthread = "null" => q_list = <<>>

FlushInv == TypeOK /\ Calls /\ Once /\ Owed /\ Emptied

-----------------------------------------------------------------------------
\* What adding an item to the list and taking the first one do to it
LEMMA AppendFacts ==
  ASSUME NEW S, NEW s \in Seq(S), NEW x \in S
  PROVE  /\ \A y : y \in Range(Append(s, x)) <=> y \in Range(s) \/ y = x
         /\ \A y, z : z # x /\ y # x /\ Ahead(s, y, z) => Ahead(Append(s, x), y, z)
         /\ \A y : y # x /\ x \notin Range(s) => Ahead(Append(s, x), y, x)
         /\ IsInjective(s) /\ x \notin Range(s) => IsInjective(Append(s, x))
<1> DEFINE r == Append(s, x)
<1>1. Len(s) \in Nat /\ DOMAIN s = 1..Len(s)
  OBVIOUS
<1>2. Len(r) = Len(s) + 1 /\ DOMAIN r = 1..Len(s) + 1
  OBVIOUS
<1>3. r[Len(s) + 1] = x /\ \A m \in 1..Len(s) : r[m] = s[m]
  OBVIOUS
<1> HIDE DEF r
<1>4. \A m \in 1..Len(r) : m = Len(s) + 1 \/ m \in 1..Len(s)
  BY <1>1, <1>2
<1>5. \A m \in 1..Len(s) : m \in 1..Len(r) /\ m < Len(s) + 1
  BY <1>1, <1>2
<1>6. Len(s) + 1 \in 1..Len(r)
  BY <1>1, <1>2
<1>7. \A y : y \in Range(r) <=> y \in Range(s) \/ y = x
  BY <1>3, <1>4, <1>5, <1>6 DEF Range
<1>8. \A y, z : z # x /\ y # x /\ Ahead(s, y, z) => Ahead(r, y, z)
  BY <1>3, <1>4 DEF Ahead
<1>9. \A y : y # x /\ x \notin Range(s) => Ahead(r, y, x)
  BY <1>3, <1>4, <1>5 DEF Ahead, Range
<1>10. IsInjective(s) /\ x \notin Range(s) => IsInjective(r)
  BY <1>1, <1>2, <1>3, <1>4 DEF IsInjective, Range
<1> QED
  BY <1>7, <1>8, <1>9, <1>10 DEF r

\* What taking the first item does to a list without duplicates
LEMMA TailFacts ==
  ASSUME NEW S, NEW s \in Seq(S), s # <<>>, IsInjective(s)
  PROVE  /\ \A y : y \in Range(Tail(s)) <=> y \in Range(s) /\ y # Head(s)
         /\ \A y, z : Ahead(s, y, z) => Ahead(Tail(s), y, z)
         /\ \A y : Ahead(s, y, Head(s)) => y \notin Range(s)
         /\ IsInjective(Tail(s))
         /\ Head(s) \in Range(s)
<1> DEFINE r == Tail(s)
           h == Head(s)
<1>1. Len(s) \in Nat \ {0} /\ DOMAIN s = 1..Len(s)
  OBVIOUS
<1>2. Len(r) = Len(s) - 1 /\ DOMAIN r = 1..Len(s) - 1
  BY <1>1
<1>3. h = s[1] /\ \A m \in 1..Len(s) - 1 : r[m] = s[m + 1]
  BY <1>1
<1> HIDE DEF r, h
<1>4. \A m \in 1..Len(r) : m + 1 \in 1..Len(s) /\ m + 1 # 1
  BY <1>1, <1>2
<1>5. \A m \in 1..Len(s) : m = 1 \/ (m - 1 \in 1..Len(r) /\ m = (m - 1) + 1)
  BY <1>1, <1>2
<1>6. 1 \in 1..Len(s)
  BY <1>1
<1>7. \A y : y \in Range(r) <=> y \in Range(s) /\ y # h
  <2> TAKE y
  <2>1. ASSUME y \in Range(r) PROVE y \in Range(s) /\ y # h
    BY <1>1, <1>2, <1>3, <1>4, <1>6, <2>1 DEF Range, IsInjective
  <2>2. ASSUME y \in Range(s), y # h PROVE y \in Range(r)
    BY <1>2, <1>3, <1>5, <2>2 DEF Range
  <2> QED
    BY <2>1, <2>2
<1>8. ASSUME NEW y, NEW z, Ahead(s, y, z) PROVE Ahead(r, y, z)
  <2>1. ASSUME NEW m \in 1..Len(r), NEW n \in 1..Len(r), r[m] = y, r[n] = z PROVE m < n
    <3>1. m + 1 \in 1..Len(s) /\ n + 1 \in 1..Len(s) /\ s[m + 1] = y /\ s[n + 1] = z
      BY <1>2, <1>3, <1>4, <2>1
    <3>2. m + 1 < n + 1
      BY <1>8, <3>1 DEF Ahead
    <3> QED
      BY <1>1, <1>2, <3>2
  <2> QED
    BY <2>1 DEF Ahead
<1>9. \A y : Ahead(s, y, h) => y \notin Range(s)
  BY <1>1, <1>3, <1>6 DEF Ahead, Range
<1>10. IsInjective(r)
  <2> SUFFICES ASSUME NEW m \in 1..Len(r), NEW n \in 1..Len(r), r[m] = r[n] PROVE m = n
    BY <1>2 DEF IsInjective
  <2>1. m + 1 = n + 1
    BY <1>1, <1>2, <1>3, <1>4 DEF IsInjective
  <2> QED
    BY <1>1, <1>2, <2>1
<1>11. h \in Range(s)
  BY <1>3, <1>6 DEF Range
<1> QED
  BY <1>7, <1>8, <1>9, <1>10, <1>11 DEF r, h

\* AppendFacts for the queue's list
LEMMA ListAdd ==
  ASSUME TypeOK, NEW x \in Queued, q_list' = Append(q_list, x)
  PROVE  /\ \A y : y \in Range(q_list') <=> y \in Range(q_list) \/ y = x
         /\ \A y, z : z # x /\ y # x /\ Ahead(q_list, y, z) => Ahead(q_list', y, z)
         /\ \A y : y # x /\ x \notin Range(q_list) => Ahead(q_list', y, x)
         /\ IsInjective(q_list) /\ x \notin Range(q_list) => IsInjective(q_list')
<1>1. q_list \in Seq(Queued)
  BY DEF TypeOK
<1> QED
  BY <1>1, AppendFacts, ZenonT(60)

\* TailFacts for the kthread's list_del_init
LEMMA ListTake ==
  ASSUME TypeOK, Once, MainTake, q_list # <<>>
  PROVE  /\ \A y : y \in Range(q_list') <=> y \in Range(q_list) /\ y # kitem'
         /\ \A y, z : Ahead(q_list, y, z) => Ahead(q_list', y, z)
         /\ \A y : Ahead(q_list, y, kitem') => y \notin Range(q_list)
         /\ IsInjective(q_list') /\ kitem' \in Range(q_list)
         /\ kpc' = "run" /\ kitem' \in Queued
<1>1. q_list \in Seq(Queued) /\ IsInjective(q_list)
  BY DEF TypeOK, Once, NoDanglingItem
<1>2. kpc' = "run" /\ q_list' = Tail(q_list) /\ kitem' = Head(q_list)
  BY DEF MainTake
<1>3. Head(q_list) \in Queued
  BY <1>1
<1> QED
  BY <1>1, <1>2, <1>3, TailFacts, ZenonT(60)

\* A list that contains no item is the empty list.
LEMMA ListEmpty ==
  ASSUME TypeOK, \A y \in Queued : y \notin Range(q_list)
  PROVE  q_list = <<>>
<1> SUFFICES ASSUME q_list # <<>> PROVE FALSE
  OBVIOUS
<1>1. q_list \in Seq(Queued)
  BY DEF TypeOK
<1>2. 1 \in 1..Len(q_list) /\ q_list[1] \in Queued
  BY <1>1
<1> QED
  BY <1>2 DEF Range

-----------------------------------------------------------------------------
\* Every step keeps who makes which call.
LEMMA CallsStep ==
  ASSUME TypeOK, Calls, Emptied, [Next]_vars
  PROVE  Calls'
<1> USE ActorsDistinct DEF TypeOK, Calls, Actors, Queued, Pcs
<1>1. CASE nv_kthread_q_init
  BY <1>1 DEF nv_kthread_q_init, AllIdle, callVars
<1>2. ASSUME NEW a \in Actors, NEW i \in Items, nv_kthread_q_schedule_q_item(a, i) PROVE Calls'
  BY <1>2 DEF nv_kthread_q_schedule_q_item, Call, MayCall
<1>3. ASSUME NEW t \in Threads, nv_kthread_q_flush(t) PROVE Calls'
  BY <1>3 DEF nv_kthread_q_flush, Call, MayCall, kVars
<1>4. ASSUME NEW t \in Threads, nv_kthread_q_stop(t) PROVE Calls'
  BY <1>4 DEF nv_kthread_q_stop, AllIdle, Call, kVars, callVars
<1>5. ASSUME NEW a \in Actors, CheckAlive(a) PROVE Calls'
  BY <1>5 DEF CheckAlive, kVars, callVars
<1>6. ASSUME NEW a \in Actors, _raw_q_schedule_add(a) PROVE Calls'
  <2>1. UNCHANGED <<op, arg, should_exit, q_kthread, no_resched, kpc, kitem>>
    BY <1>6 DEF _raw_q_schedule_add, kVars, callVars
  <2>2. /\ pc[a] = "add" /\ pc'[a] \in {"idle", "up"}
        /\ \A b \in Actors \ {a} : pc'[b] = pc[b]
    BY <1>6 DEF _raw_q_schedule_add
  <2>3. should_exit = 0 /\ should_exit' = 0 /\ q_kthread' = "task"
    BY <2>1, <2>2
  <2>4. (\A b \in Actors : pc'[b] # "idle" =>
           \/ op[b] = "schedule" /\ arg[b] \in Items /\ pc'[b] \in {"enter", "add", "up"}
           \/ b \in Threads /\ op[b] \in {"flush", "stop"} /\ arg[b] = b)
    BY <2>2
  <2>5. \A t \in Threads : pc'[t] # "idle" /\ op[t] = "stop" =>
           /\ no_resched = 1 /\ q_kthread = "task"
           /\ \A u \in Threads \ {t} : pc'[u] = "idle"
    BY <2>2
  <2>6. \A t \in Threads : pc'[t] \notin {"stop", "stop_up", "kthread_stop"} \/ pc'[t] = pc[t]
    BY <2>2
  <2>7. pc'[Kthread] # "idle" => op[Kthread] = "schedule" /\ kpc = "run" /\ kitem \in Items
    BY <2>2
  <2> QED
    BY <2>1, <2>3, <2>4, <2>5, <2>6, <2>7
<1>7. ASSUME NEW a \in Actors, _raw_q_schedule_up(a) PROVE Calls'
  BY <1>7 DEF _raw_q_schedule_up, kVars, callVars
<1>8. ASSUME NEW t \in Threads, _raw_q_flush_wait(t) PROVE Calls'
  BY <1>8 DEF _raw_q_flush_wait, kVars
<1>9. ASSUME NEW t \in Threads, StopSetExit(t) PROVE Calls'
  <2>1. pc[Kthread] = "idle" /\ \A u \in Threads \ {t} : pc[u] = "idle"
    BY <1>9 DEF StopSetExit, Emptied
  <2> QED
    BY <1>9, <2>1 DEF StopSetExit, kVars, callVars
<1>10. ASSUME NEW t \in Threads, StopUp(t) PROVE Calls'
  BY <1>10 DEF StopUp, kVars, callVars
<1>13. ASSUME NEW t \in Threads, KthreadStop(t) PROVE Calls'
  <2>1. op[t] = "stop" /\ should_exit = 1 /\ \A u \in Threads \ {t} : pc[u] = "idle"
    BY <1>13 DEF KthreadStop
  <2> QED
    BY <1>13, <2>1 DEF KthreadStop, kVars, callVars
<1>11. CASE MainLoop
  BY <1>11 DEF MainLoop, MainDown, MainCheckExit, MainTake, MainRun, callVars
<1>12. CASE UNCHANGED vars
  BY <1>12 DEF vars, kVars, callVars
<1> QED
  BY <1>1, <1>2, <1>3, <1>4, <1>5, <1>6, <1>7, <1>8, <1>9, <1>10, <1>11, <1>12, <1>13, ZenonT(60)
  DEF Next, ThreadInCall, InCall

\* Every step leaves an item on the list at most once.
LEMMA OnceStep ==
  ASSUME TypeOK, Calls, Once, Emptied, [Next]_vars
  PROVE  Once'
<1> USE ActorsDistinct DEF TypeOK, Actors, Queued, Once, NoDanglingItem
<1>1. CASE nv_kthread_q_init
  <2>1. q_list' = q_list /\ kpc' # "run" /\ pc' = pc /\ arg' = arg /\ completed' = completed
    BY <1>1 DEF nv_kthread_q_init, Emptied, callVars
  <2> QED
    BY <2>1
<1>2. ASSUME NEW a \in Actors, NEW i \in Items, nv_kthread_q_schedule_q_item(a, i) PROVE Once'
  BY <1>2 DEF nv_kthread_q_schedule_q_item, Call
<1>3. ASSUME NEW t \in Threads, nv_kthread_q_flush(t) \/ nv_kthread_q_stop(t) PROVE Once'
  BY <1>3 DEF nv_kthread_q_flush, nv_kthread_q_stop, AllIdle, Call, kVars, callVars
<1>4. ASSUME NEW a \in Actors, CheckAlive(a) PROVE Once'
  BY <1>4 DEF CheckAlive, kVars, callVars
<1>5. ASSUME NEW a \in Actors, _raw_q_schedule_add(a) PROVE Once'
  <2>1. arg[a] \in Queued /\ (arg[a] \notin Items => a \in Threads /\ arg[a] = a /\ a \notin Range(q_list))
    BY <1>5 DEF _raw_q_schedule_add, Calls
  <2>2. CASE arg[a] \in Range(q_list)
    BY <1>5, <2>1, <2>2 DEF _raw_q_schedule_add, kVars, callVars
  <2>3. CASE arg[a] \notin Range(q_list)
    <3>1. /\ \A y : y \in Range(q_list') <=> y \in Range(q_list) \/ y = arg[a]
          /\ IsInjective(q_list')
      BY <1>5, <2>1, <2>3, ListAdd DEF _raw_q_schedule_add
    <3> QED
      BY <1>5, <2>1, <2>3, <3>1 DEF _raw_q_schedule_add, kVars, callVars
  <2> QED
    BY <2>2, <2>3
<1>6. ASSUME NEW a \in Actors, _raw_q_schedule_up(a) PROVE Once'
  BY <1>6 DEF _raw_q_schedule_up, Calls, kVars, callVars
<1>7. ASSUME NEW t \in Threads, _raw_q_flush_wait(t) PROVE Once'
  BY <1>7 DEF _raw_q_flush_wait, kVars
<1>8. ASSUME NEW t \in Threads, StopSetExit(t) \/ StopUp(t) \/ KthreadStop(t) PROVE Once'
  <2>1. /\ UNCHANGED <<q_list, kpc, kitem, arg, completed>>
        /\ pc[t] \notin {"up", "wait"} /\ \A u \in Threads \ {t} : pc'[u] = pc[u]
    BY <1>8 DEF StopSetExit, StopUp, KthreadStop, kVars, callVars
  <2> QED
    BY <2>1
<1>9. CASE MainDown \/ MainCheckExit
  BY <1>9 DEF MainDown, MainCheckExit, callVars
<1>10. CASE MainTake
  <2>1. CASE q_list = <<>>
    BY <1>10, <2>1 DEF MainTake, callVars
  <2>2. CASE q_list # <<>>
    BY <1>10, <2>2, ListTake DEF MainTake, callVars
  <2> QED
    BY <2>1, <2>2
<1>11. CASE MainRun
  BY <1>11 DEF MainRun, callVars
<1>12. CASE UNCHANGED vars
  BY <1>12 DEF vars, kVars, callVars
<1> QED
  BY <1>1, <1>2, <1>3, <1>4, <1>5, <1>6, <1>7, <1>8, <1>9, <1>10, <1>11, <1>12, ZenonT(60)
  DEF Next, ThreadInCall, InCall, MainLoop

\* Every step keeps what is owed to one thread's flush ahead of its item.
LEMMA OwedStep ==
  ASSUME TypeOK, Calls, Once, Emptied, [Next]_vars, NEW u \in Threads, OwedInTurn(u)
  PROVE  OwedInTurn(u)'
<1> USE ActorsDistinct DEF TypeOK, Actors, Queued, Instances, OwedInTurn, InFlush
<1> DEFINE Nothing == \A i \in Instances : u \notin direct[i] /\ u \notin indirect[i]
<1>n. ASSUME Nothing, UNCHANGED <<direct, indirect>> PROVE OwedInTurn(u)'
  BY <1>n
<1>1. CASE nv_kthread_q_init
  <2>1. Nothing
    BY <1>1 DEF nv_kthread_q_init, AllIdle
  <2> QED
    BY <1>1, <1>n, <2>1 DEF nv_kthread_q_init, ghostVars
<1>2. ASSUME NEW a \in Actors, NEW i \in Items, nv_kthread_q_schedule_q_item(a, i)
      PROVE  OwedInTurn(u)'
  BY <1>2 DEF nv_kthread_q_schedule_q_item, Call, ghostVars
<1>3. ASSUME NEW t \in Threads, nv_kthread_q_flush(t) \/ nv_kthread_q_stop(t)
      PROVE  OwedInTurn(u)'
  <2>1. /\ UNCHANGED <<q_list, kpc, kitem, should_exit, indirect>> /\ pc[t] = "idle"
        /\ u # t => pc'[u] = pc[u] /\ op'[u] = op[u] /\ round'[u] = round[u]
    BY <1>3 DEF nv_kthread_q_flush, nv_kthread_q_stop, AllIdle, Call, OwedTo, kVars, callVars,
       ghostVars
  <2>2. CASE u # t
    <3>1. \A i \in Instances : u \in direct'[i] <=> u \in direct[i]
      BY <1>3, <2>2 DEF nv_kthread_q_flush, nv_kthread_q_stop, OwedTo, ghostVars
    <3> QED
      BY <2>1, <2>2, <3>1
  <2>3. CASE u = t
    <3>1. Nothing
      BY <2>1, <2>3
    <3>2. \A i \in Instances : u \in direct'[i] =>
             /\ Outstanding(i) /\ should_exit = 0
             /\ pc'[u] = "enter" /\ op'[u] \in {"flush", "stop"} /\ round'[u] = 1
      BY <1>3, <2>3, <3>1 DEF nv_kthread_q_flush, nv_kthread_q_stop, AllIdle, Call, Calls, OwedTo,
         ghostVars
    <3>3. \A i \in Items : Ahead(q_list, i, u)
      BY <2>1, <2>3 DEF Once, NoDanglingItem, Ahead, Range
    <3> QED
      BY <2>1, <3>1, <3>2, <3>3 DEF Outstanding
  <2> QED
    BY <2>2, <2>3
<1>4. ASSUME NEW a \in Actors, CheckAlive(a) PROVE OwedInTurn(u)'
  BY <1>4 DEF CheckAlive, kVars, callVars, ghostVars
<1>5. ASSUME NEW a \in Actors, _raw_q_schedule_add(a) PROVE OwedInTurn(u)'
  <2>1. /\ arg[a] \in Queued
        /\ UNCHANGED <<kpc, kitem, should_exit, direct, op, round>>
        /\ u # a => pc'[u] = pc[u]
    BY <1>5 DEF _raw_q_schedule_add, Calls, kVars, callVars
  <2>2. \A y : y \in Range(q_list) => y \in Range(q_list')
    BY <1>5, <2>1, ListAdd DEF _raw_q_schedule_add
  <2>3. CASE arg[a] \in Items
    <3>1. \A i \in Instances : u \in indirect'[i] =>
             u \in indirect[i] \/ (i = arg[a] /\ u \in direct[Kthread])
      BY <1>5, <2>3 DEF _raw_q_schedule_add, Inherit
    <3>2. u = a => Nothing
      BY <1>5, <2>3 DEF _raw_q_schedule_add, Calls
    <3>3. arg[a] \in Range(q_list')
      BY <1>5, <2>1, ListAdd DEF _raw_q_schedule_add
    <3>4. \A i \in Items : i \in Range(q_list) /\ Ahead(q_list, i, u) => Ahead(q_list', i, u)
      <4>1. CASE q_list' = q_list
        BY <4>1
      <4>2. CASE q_list' = Append(q_list, arg[a]) /\ arg[a] \notin Range(q_list)
        <5>1. u # arg[a]
          BY <2>3
        <5> QED
          BY <2>1, <4>2, <5>1, ListAdd
      <4> QED
        BY <1>5, <4>1, <4>2 DEF _raw_q_schedule_add
    <3> QED
      BY <2>1, <2>2, <2>3, <3>1, <3>2, <3>3, <3>4
  <2>4. CASE arg[a] \notin Items
    <3>1. a \in Threads /\ arg[a] = a /\ op[a] # "schedule" /\ a \notin Range(q_list)
      BY <1>5, <2>4 DEF _raw_q_schedule_add, Calls, Once, NoDanglingItem
    <3>2. indirect' = indirect /\ pc'[a] = "up" /\ q_list' = Append(q_list, a)
      BY <1>5, <2>4, <3>1 DEF _raw_q_schedule_add
    <3>3. a \in Range(q_list')
      BY <3>1, <3>2, ListAdd
    <3>4. \A i \in Items : u = a \/ Ahead(q_list, i, u) => Ahead(q_list', i, u)
      BY <3>1, <3>2, ListAdd
    <3> QED
      BY <1>5, <2>1, <2>2, <3>1, <3>2, <3>3, <3>4 DEF _raw_q_schedule_add
  <2> QED
    BY <2>3, <2>4
<1>6. ASSUME NEW a \in Actors, _raw_q_schedule_up(a) PROVE OwedInTurn(u)'
  BY <1>6 DEF _raw_q_schedule_up, Calls, kVars, callVars, ghostVars
<1>7. ASSUME NEW t \in Threads, _raw_q_flush_wait(t) PROVE OwedInTurn(u)'
  <2>1. /\ UNCHANGED <<q_list, kpc, kitem, should_exit, op, direct, indirect>>
        /\ u # t => pc'[u] = pc[u] /\ round'[u] = round[u]
    BY <1>7 DEF _raw_q_flush_wait, kVars, ghostVars
  <2>2. CASE u # t
    BY <2>1, <2>2
  <2>3. CASE u = t
    <3>1. u \notin Range(q_list) /\ pc[u] = "wait" /\ (round[u] = 1 => pc'[u] = "add")
      BY <1>7, <2>3 DEF _raw_q_flush_wait, Once, NoDanglingItem
    <3>2. \A i \in Instances : u \notin direct[i] /\ (u \in indirect[i] => round[u] = 1)
      BY <3>1
    <3>3. \A i \in Items : Ahead(q_list, i, u)
      BY <3>1 DEF Ahead, Range
    <3> QED
      BY <2>1, <3>1, <3>2, <3>3
  <2> QED
    BY <2>2, <2>3
<1>8. ASSUME NEW t \in Threads, StopSetExit(t) PROVE OwedInTurn(u)'
  <2>1. Nothing
    BY <1>8 DEF StopSetExit, Calls
  <2> QED
    BY <1>8, <1>n, <2>1 DEF StopSetExit, ghostVars
<1>9. ASSUME NEW t \in Threads, StopUp(t) \/ KthreadStop(t) PROVE OwedInTurn(u)'
  BY <1>9 DEF StopUp, KthreadStop, kVars, callVars, ghostVars
<1>10. CASE MainDown \/ MainCheckExit
  BY <1>10 DEF MainDown, MainCheckExit, callVars, ghostVars
<1>11. CASE MainTake
  <2>1. CASE q_list = <<>>
    BY <1>11, <2>1 DEF MainTake, callVars, ghostVars
  <2>2. CASE q_list # <<>>
    <3>1. UNCHANGED <<should_exit, pc, op, round>> /\ kpc # "run"
      BY <1>11 DEF MainTake, callVars
    <3>2. CASE kitem' \in Items
      <4>1. /\ direct' = HandOver(direct, kitem') /\ indirect' = HandOver(indirect, kitem')
        BY <1>11, <2>2, <3>2 DEF MainTake
      <4>2. /\ \A i \in Items : /\ u \in direct'[i] => u \in direct[i] /\ i # kitem'
                                /\ u \in indirect'[i] => u \in indirect[i] /\ i # kitem'
            /\ u \in direct'[Kthread] => u \in direct[kitem']
            /\ u \in indirect'[Kthread] => u \in indirect[kitem']
        BY <3>2, <4>1, ZenonT(60) DEF HandOver
      <4>3. u \in Range(q_list) => u \in Range(q_list')
        BY <1>11, <2>2, <3>2, ListTake
      <4>4. \A i \in Items : i \in Range(q_list) /\ i # kitem' => i \in Range(q_list')
        BY <1>11, <2>2, ListTake
      <4>5. kpc' = "run" /\ \A i \in Items : Ahead(q_list, i, u) => Ahead(q_list', i, u)
        BY <1>11, <2>2, ListTake
      <4> QED
        BY <3>1, <3>2, <4>2, <4>3, <4>4, <4>5
    <3>3. CASE kitem' \in Threads
      <4>1. direct' = direct /\ indirect' = indirect
        BY <1>11, <2>2, <3>3 DEF MainTake, ghostVars
      <4> QED
        BY <1>11, <2>2, <3>1, <3>3, <4>1, ListTake
    <3> QED
      BY <1>11, <2>2, <3>2, <3>3, ListTake
  <2> QED
    BY <2>1, <2>2
<1>12. CASE MainRun
  BY <1>12 DEF MainRun, callVars
<1>13. CASE UNCHANGED vars
  BY <1>13 DEF vars, kVars, callVars, ghostVars
<1> QED
  BY <1>1, <1>2, <1>3, <1>4, <1>5, <1>6, <1>7, <1>8, <1>9, <1>10, <1>11, <1>12, <1>13, ZenonT(60)
  DEF Next, ThreadInCall, InCall, MainLoop

\* Every step leaves a stop's flush owed all there is.
LEMMA EmptiedStep ==
  ASSUME TypeOK, Calls, Once, Owed, Emptied, [Next]_vars
  PROVE  Emptied'
<1> USE ActorsDistinct DEF TypeOK, Actors, Queued, Instances, Emptied, InFlush
<1>1. CASE nv_kthread_q_init
  BY <1>1 DEF nv_kthread_q_init, AllIdle
<1>2. ASSUME NEW a \in Actors, NEW i \in Items, nv_kthread_q_schedule_q_item(a, i) PROVE Emptied'
  BY <1>2 DEF nv_kthread_q_schedule_q_item, MayCall, Call, Calls, ghostVars
<1>3. ASSUME NEW t \in Threads, nv_kthread_q_flush(t) PROVE Emptied'
  <2>1. /\ UNCHANGED <<q_list, kpc, kitem, q_kthread>> /\ pc'[Kthread] = pc[Kthread]
        /\ pc'[t] = "enter" /\ op'[t] = "flush"
        /\ \A u \in Threads \ {t} : pc'[u] = pc[u] /\ op'[u] = op[u]
    BY <1>3 DEF nv_kthread_q_flush, Call, kVars
  <2>2. \A u \in Threads \ {t} : pc[u] # "idle" => op[u] # "stop"
    BY <1>3 DEF nv_kthread_q_flush, MayCall, Calls
  <2>3. \A u \in Threads \ {t} : pc[u] \notin {"stop", "stop_up", "kthread_stop"}
    BY <2>2 DEF Calls
  <2> QED
    BY <2>1, <2>2, <2>3
<1>4. ASSUME NEW t \in Threads, nv_kthread_q_stop(t) PROVE Emptied'
  BY <1>4 DEF nv_kthread_q_stop, AllIdle, Call, OwedTo, Outstanding, Calls, kVars, callVars,
     ghostVars
<1>5. ASSUME NEW a \in Actors, CheckAlive(a) PROVE Emptied'
  <2>1. CASE should_exit = 0
    BY <1>5, <2>1 DEF CheckAlive, Calls, kVars, callVars, ghostVars
  <2>2. CASE should_exit # 0
    BY <1>5, <2>2 DEF CheckAlive, Calls, kVars, callVars, ghostVars
  <2> QED
    BY <2>1, <2>2
<1>6. ASSUME NEW a \in Actors, _raw_q_schedule_add(a) PROVE Emptied'
  <2>1. /\ UNCHANGED <<kpc, kitem, q_kthread, direct, op>> /\ arg[a] \in Queued
        /\ \A b \in Actors \ {a} : pc'[b] = pc[b]
        /\ pc[a] = "add" /\ pc'[a] \in {"idle", "up"} /\ q_kthread = "task"
    BY <1>6 DEF _raw_q_schedule_add, Calls, kVars, callVars
  <2>2. \A y : y \in Range(q_list') => y \in Range(q_list) \/ y = arg[a]
    BY <1>6, <2>1, ListAdd DEF _raw_q_schedule_add
  <2>3. \A u \in Threads, i \in Instances : u \in indirect[i] => u \in indirect'[i]
    BY <1>6 DEF _raw_q_schedule_add, Inherit
  <2>4. \A u \in Threads : pc[u] \notin {"stop", "stop_up", "kthread_stop"}
    BY <2>1 DEF Calls
  <2>5. ASSUME NEW u \in Threads, InFlush(u)', op[u] = "stop", arg[a] \in Items
        PROVE  u \in indirect'[arg[a]]
    BY <1>6, <2>1, <2>5 DEF _raw_q_schedule_add, Inherit, Calls
  <2> QED
    BY <2>1, <2>2, <2>3, <2>4, <2>5
<1>7. ASSUME NEW a \in Actors, _raw_q_schedule_up(a) PROVE Emptied'
  BY <1>7 DEF _raw_q_schedule_up, Calls, kVars, callVars, ghostVars
<1>8. ASSUME NEW t \in Threads, _raw_q_flush_wait(t) PROVE Emptied'
  <2>1. /\ UNCHANGED <<q_list, kpc, kitem, q_kthread, op, direct, indirect>>
        /\ \A b \in Actors \ {t} : pc'[b] = pc[b]
        /\ pc[t] = "wait" /\ t \notin Range(q_list) /\ ~(kpc = "run" /\ kitem = t)
        /\ pc'[t] \in {"stop", "stop_up", "kthread_stop"} => op[t] = "stop" /\ round[t] = 2
    BY <1>8 DEF _raw_q_flush_wait, Once, NoDanglingItem, kVars, ghostVars
  <2>2. ASSUME pc'[t] = "stop" PROVE q_list = <<>> /\ kpc # "run"
    <3>1. \A i \in Instances : t \notin direct[i] /\ t \notin indirect[i]
      BY <2>1, <2>2 DEF Owed, OwedInTurn
    <3>2. \A i \in Items : i \notin Range(q_list)
      BY <2>1, <2>2, <3>1
    <3>3. \A v \in Threads : v \notin Range(q_list) /\ ~(kpc = "run" /\ kitem = v)
      BY <2>1, <2>2 DEF Calls, Once, NoDanglingItem
    <3>4. q_list = <<>>
      BY <3>2, <3>3, ListEmpty
    <3> QED
      BY <2>1, <2>2, <3>1, <3>3, <3>4 DEF Calls
  <2> QED
    BY <1>8, <2>1, <2>2 DEF _raw_q_flush_wait
<1>9. ASSUME NEW t \in Threads, StopSetExit(t) \/ StopUp(t) \/ KthreadStop(t) PROVE Emptied'
  BY <1>9 DEF StopSetExit, StopUp, KthreadStop, Calls, kVars, callVars, ghostVars
<1>10. CASE MainDown \/ MainCheckExit
  BY <1>10 DEF MainDown, MainCheckExit, callVars, ghostVars
<1>11. CASE MainTake
  <2>1. CASE q_list = <<>>
    BY <1>11, <2>1 DEF MainTake, callVars, ghostVars
  <2>2. CASE q_list # <<>>
    <3>1. UNCHANGED <<pc, op, q_kthread>> /\ pc[Kthread] = "idle"
      BY <1>11 DEF MainTake, Calls, callVars
    <3>2. /\ \A i \in Items : i \in Range(q_list') => i \in Range(q_list) /\ i # kitem'
          /\ kitem' \in Range(q_list)
      BY <1>11, <2>2, ListTake
    <3>3. /\ kitem' \in Items => direct' = HandOver(direct, kitem') /\ indirect' = HandOver(indirect, kitem')
          /\ kitem' \notin Items => direct' = direct /\ indirect' = indirect
      BY <1>11, <2>2 DEF MainTake, ghostVars
    <3>4. /\ \A i \in Items \ {kitem'} : direct'[i] = direct[i] /\ indirect'[i] = indirect[i]
          /\ kitem' \in Items => direct'[Kthread] = direct[kitem'] /\ indirect'[Kthread] = indirect[kitem']
      BY <3>3 DEF HandOver
    <3> QED
      BY <2>2, <3>1, <3>2, <3>4
  <2> QED
    BY <2>1, <2>2
<1>12. CASE MainRun
  BY <1>12 DEF MainRun, callVars
<1>13. CASE UNCHANGED vars
  BY <1>13 DEF vars, kVars, callVars, ghostVars
<1> QED
  BY <1>1, <1>2, <1>3, <1>4, <1>5, <1>6, <1>7, <1>8, <1>9, <1>10, <1>11, <1>12, <1>13, ZenonT(60)
  DEF Next, ThreadInCall, InCall, MainLoop

\* The invariant behind flush and stop, for any number of callers and items:
\* the list holds no item twice, what is owed to a flush is ahead of the item
\* it waits for, and a stop's flush is owed everything.
THEOREM FlushInvariant == Spec => []FlushInv
<1>1. Init => FlushInv
  <2> SUFFICES ASSUME Init PROVE FlushInv
    OBVIOUS
  <2>1. TypeOK
    BY ActorsDistinct DEF Init, TypeOK, Actors, Queued, Pcs, Instances
  <2>2. q_list = <<>> /\ \A y : y \notin Range(q_list)
    BY DEF Init, Range
  <2>3. Calls
    BY DEF Init, Calls, Actors
  <2>4. Once
    BY <2>2 DEF Init, Once, NoDanglingItem, IsInjective
  <2>5. Owed
    BY DEF Init, Owed, OwedInTurn, Instances
  <2>6. Emptied
    BY <2>2 DEF Init, Emptied, InFlush, Actors
  <2> QED
    BY <2>1, <2>3, <2>4, <2>5, <2>6 DEF FlushInv
<1>2. FlushInv /\ [Next]_vars => FlushInv'
  <2> SUFFICES ASSUME FlushInv, [Next]_vars PROVE FlushInv'
    OBVIOUS
  <2>1. ArgOK
    BY DEF FlushInv, Calls, ArgOK, Queued
  <2>2. TypeOK' /\ Calls' /\ Once'
    BY <2>1, TypeStep, CallsStep, OnceStep DEF FlushInv
  <2>3. Owed' /\ Emptied'
    BY OwedStep, EmptiedStep DEF FlushInv, Owed
  <2> QED
    BY <2>2, <2>3 DEF FlushInv
<1> QED
  BY <1>1, <1>2, PTL DEF Spec

\* When nv_kthread_q_flush has returned, everything that was queued or running
\* at its call has run, and so has everything those items scheduled.
THEOREM FlushIsComplete == Spec => []FlushComplete
<1>1. FlushInv => FlushComplete
  BY DEF FlushInv, Owed, OwedInTurn, FlushComplete
<1> QED
  BY <1>1, FlushInvariant, PTL

\* No item is on the list twice, and nobody has a flush's on-stack item once
\* the flush has returned.
THEOREM NothingDangles == Spec => []NoDanglingItem
<1>1. FlushInv => NoDanglingItem
  BY DEF FlushInv, Once
<1> QED
  BY <1>1, FlushInvariant, PTL

-----------------------------------------------------------------------------
\* A step of the queue is one that WorkQueue allows: in particular stop raises
\* main_loop_should_exit over an empty list, and init finds one.
LEMMA QueueStep ==
  ASSUME FlushInv, [Next]_vars
  PROVE  [Abstract!WqNext]_(Abstract!wqVars)
<1> USE DEF FlushInv, Abstract!WqNext, Abstract!wqVars
<1>1. CASE nv_kthread_q_init
  BY <1>1 DEF nv_kthread_q_init, Calls, Emptied, Abstract!Open
<1>2. ASSUME UNCHANGED <<q_list, kpc, kitem, q_kthread, should_exit>>
      PROVE  UNCHANGED Abstract!wqVars
  BY <1>2
<1>3. ASSUME NEW a \in Actors, NEW i \in Items, nv_kthread_q_schedule_q_item(a, i)
      PROVE  UNCHANGED Abstract!wqVars
  BY <1>2, <1>3 DEF nv_kthread_q_schedule_q_item
<1>4. ASSUME NEW t \in Threads, nv_kthread_q_flush(t) \/ nv_kthread_q_stop(t)
      PROVE  UNCHANGED Abstract!wqVars
  BY <1>2, <1>4 DEF nv_kthread_q_flush, nv_kthread_q_stop, kVars
<1>5. ASSUME NEW a \in Actors, _raw_q_schedule_add(a)
      PROVE  arg[a] \in Queued /\ Abstract!Schedule(arg[a])
  <2>1. DOMAIN q_list = 1..Len(q_list)
    BY DEF TypeOK
  <2>2. arg[a] \in Range(q_list) <=> Abstract!Contains(q_list, arg[a])
    BY <2>1 DEF Range, Abstract!Contains
  <2> QED
    BY <1>5, <2>2 DEF _raw_q_schedule_add, Calls, Actors, Queued, kVars,
       Abstract!Schedule, Abstract!Scheduled
<1>6. ASSUME NEW a \in Actors, CheckAlive(a) \/ _raw_q_schedule_up(a)
      PROVE  UNCHANGED Abstract!wqVars
  BY <1>2, <1>6 DEF CheckAlive, _raw_q_schedule_up, kVars
<1>7. ASSUME NEW t \in Threads, _raw_q_flush_wait(t) \/ StopUp(t) PROVE UNCHANGED Abstract!wqVars
  BY <1>2, <1>7 DEF _raw_q_flush_wait, StopUp, kVars
<1>8. ASSUME NEW t \in Threads, StopSetExit(t)
      PROVE  Abstract!Close \/ UNCHANGED Abstract!wqVars
  BY <1>8 DEF StopSetExit, Emptied, kVars, Abstract!Close
<1>9. ASSUME NEW t \in Threads, KthreadStop(t) PROVE UNCHANGED Abstract!wqVars
  BY <1>9 DEF KthreadStop, Calls, kVars
<1>10. CASE MainDown \/ MainCheckExit
  BY <1>10 DEF MainDown, MainCheckExit
<1>11. CASE MainTake
  BY <1>11 DEF MainTake, Abstract!Take
<1>12. CASE MainRun
  BY <1>12, ActorsDistinct DEF MainRun, Calls, Queued, Abstract!Finish
<1>13. CASE UNCHANGED vars
  BY <1>2, <1>13 DEF vars, kVars
<1> QED
  BY <1>1, <1>3, <1>4, <1>5, <1>6, <1>7, <1>8, <1>9, <1>10, <1>11, <1>12, <1>13
  DEF Next, ThreadInCall, InCall, MainLoop, Actors

\* nv_kthread_q implements WorkQueue: FIFO order, one item at a time, no item
\* twice, and closed only when it is empty and idle, for any number of callers.
THEOREM QueueIsRefined == Spec => QueueRefined
<1>1. Init => Abstract!WqInit
  BY DEF Init, Abstract!WqInit
<1> QED
  BY <1>1, QueueStep, FlushInvariant, PTL DEF Spec, QueueRefined, Abstract!WqSpec

=============================================================================
