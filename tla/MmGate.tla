------------------------------- MODULE MmGate -------------------------------
(***************************************************************************)
(* What uvm_va_space_mm.c promises about the mm_struct of a VA space:      *)
(* threads retain it while it is alive, shutdowns mark it dead, and a      *)
(* shutdown returns only when no retainer is left.  Several shutdowns may  *)
(* run at once.  The retain count is a count, as in the code; who the      *)
(* retainers are is known to themselves only.                              *)
(***************************************************************************)
EXTENDS Integers, FiniteSets

CONSTANTS Retainers, Shutdowns

VARIABLES
    alive,            \* va_space_mm->alive: "yes" or "no"
    retained_count,   \* va_space_mm->retained_count
    holders,          \* the threads that have retained and not released
    shutdown          \* shutdown[s]: "none", "marked" or "returned"

gateVars == <<alive, retained_count, holders, shutdown>>

GateInit ==
    /\ alive = "yes"
    /\ retained_count = 0
    /\ holders = {}
    /\ shutdown = [s \in Shutdowns |-> "none"]

Retain(t) ==
    /\ alive = "yes"
    /\ t \notin holders
    /\ retained_count' = retained_count + 1
    /\ holders' = holders \cup {t}
    /\ UNCHANGED <<alive, shutdown>>

Release(t) ==
    /\ t \in holders
    /\ retained_count' = retained_count - 1
    /\ holders' = holders \ {t}
    /\ UNCHANGED <<alive, shutdown>>

MarkDead(s) ==
    /\ shutdown[s] = "none"
    /\ alive' = "no"
    /\ shutdown' = [shutdown EXCEPT ![s] = "marked"]
    /\ UNCHANGED <<retained_count, holders>>

Return(s) ==
    /\ shutdown[s] = "marked"
    /\ retained_count = 0
    /\ shutdown' = [shutdown EXCEPT ![s] = "returned"]
    /\ UNCHANGED <<alive, retained_count, holders>>

GateNext ==
    \/ \E t \in Retainers : Retain(t) \/ Release(t)
    \/ \E s \in Shutdowns : MarkDead(s) \/ Return(s)

GateSpec == GateInit /\ [][GateNext]_gateVars

(* "This function won't return until all in-flight retainers have called   *)
(* uvm_va_space_mm_release(). Subsequent calls to uvm_va_space_mm_retain() *)
(* will return NULL."                                                      *)
NobodyAfterReturn ==
    \A s \in Shutdowns : shutdown[s] = "returned" => holders = {}
=============================================================================
