---------------------------- MODULE BoundedFifo ----------------------------
(* What a msgq promises: messages come out in the order they were put in,  *)
(* none lost or changed, and no more than Capacity are under way; only the *)
(* receiver takes one out, which its count shows.                          *)
EXTENDS Integers, Sequences

CONSTANTS Messages, Capacity

VARIABLES fifo,   \* the messages under way
          taken   \* how many were taken, modulo Capacity + 1

FifoInit == fifo = <<>> /\ taken = 0

\* n messages are published at once.
Put == \E n \in 1 .. (Capacity - Len(fifo)) :
          /\ fifo' \in Seq(Messages)
          /\ Len(fifo') = Len(fifo) + n
          /\ \A i \in 1..Len(fifo) : fifo'[i] = fifo[i]
          /\ taken' = taken

\* The first n messages are consumed.
Take == \E n \in 1..Len(fifo) :
          /\ fifo' \in Seq(Messages)
          /\ Len(fifo') = Len(fifo) - n
          /\ \A i \in 1..Len(fifo') : fifo'[i] = fifo[i + n]
          /\ taken' = IF taken + n > Capacity THEN taken + n - (Capacity + 1)
                                              ELSE taken + n

FifoNext == Put \/ Take

FifoSpec == FifoInit /\ [][FifoNext]_<<fifo, taken>>
=============================================================================
