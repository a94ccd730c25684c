------------------------------- MODULE Delays -------------------------------
(***************************************************************************)
(* What the delay calls of the kernel promise: a task that asked to sleep  *)
(* for n ticks is woken by the n-th tick from then, not before and not     *)
(* after; one that asks for a time that has come does not sleep. There are *)
(* no lists, no pended ticks and no wrap-around here.                      *)
(***************************************************************************)
EXTENDS Integers

CONSTANTS
    Sleepers,    \* the tasks
    Increments,  \* the xTimeIncrement of each task
    Batches      \* the numbers of ticks that may be processed at once

VARIABLES
    live,       \* the tasks that have started and were not deleted
    remaining,  \* the ticks each task has still to sleep, 0 if it is awake
    age         \* the ticks since the last wake time each live task asked for

NotBefore(n) == IF n > 0 THEN n ELSE 0

DelaysInit ==
    /\ live = {}
    /\ remaining = [t \in Sleepers |-> 0]
    /\ age = [t \in Sleepers |-> 0]

(* The task takes the time and sleeps for one tick, to start with others. *)
Begin(t) ==
    /\ t \notin live
    /\ live' = live \cup {t}
    /\ remaining' = [remaining EXCEPT ![t] = 1]
    /\ age' = [age EXCEPT ![t] = 0]

(* The next wake time is an increment after the last one. *)
SleepUntilNext(t) ==
    /\ t \in live
    /\ remaining[t] = 0
    /\ remaining' = [remaining EXCEPT ![t] = NotBefore(Increments[t] - age[t])]
    /\ age' = [age EXCEPT ![t] = @ - Increments[t]]
    /\ UNCHANGED live

Cancel(t) ==
    /\ live' = live \ {t}
    /\ remaining' = [remaining EXCEPT ![t] = 0]
    /\ age' = [age EXCEPT ![t] = 0]

Pass(n) ==
    /\ remaining' = [t \in Sleepers |-> NotBefore(remaining[t] - n)]
    /\ age' = [t \in Sleepers |-> IF t \in live THEN age[t] + n ELSE age[t]]
    /\ UNCHANGED live

DelaysNext ==
    \/ \E t \in Sleepers : Begin(t) \/ SleepUntilNext(t) \/ Cancel(t)
    \/ \E n \in Batches : Pass(n)

DelaysSpec == DelaysInit /\ [][DelaysNext]_<<live, remaining, age>>

=============================================================================
