----------------------------- MODULE WorkQueue -----------------------------
(***************************************************************************)
(* What nv_kthread_q promises its clients: items run one at a time in the  *)
(* order in which they were scheduled, an item that waits is not queued    *)
(* again, and the queue is closed only when it is empty and idle.  The     *)
(* items include those with which flushes wait for their turn.             *)
(***************************************************************************)
EXTENDS Naturals, Sequences

CONSTANTS Items, NONE

VARIABLES
    queue,     \* the items that wait
    running,   \* the item whose callback runs, or NONE
    open       \* whether items may be scheduled

wqVars == <<queue, running, open>>

WqInit == queue = <<>> /\ running = NONE /\ open \in BOOLEAN

Contains(s, e) == \E k \in 1..Len(s) : s[k] = e

\* the queue after item i has been scheduled
Scheduled(i) == IF Contains(queue, i) THEN queue ELSE Append(queue, i)

Open == /\ ~open /\ open' = TRUE
        /\ UNCHANGED <<queue, running>>

Schedule(i) == /\ open
               /\ queue' = Scheduled(i)
               /\ UNCHANGED <<running, open>>

Take == /\ running = NONE /\ queue # <<>>
        /\ running' = Head(queue)
        /\ queue' = Tail(queue)
        /\ UNCHANGED open

Finish == /\ running # NONE
          /\ running' = NONE
          /\ UNCHANGED <<queue, open>>

Close == /\ open /\ queue = <<>> /\ running = NONE
         /\ open' = FALSE
         /\ UNCHANGED <<queue, running>>

WqNext == Open \/ (\E i \in Items : Schedule(i)) \/ Take \/ Finish \/ Close

WqSpec == WqInit /\ [][WqNext]_wqVars
=============================================================================
