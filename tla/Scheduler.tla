----------------------------- MODULE Scheduler -----------------------------
(***************************************************************************)
(* What a preemptive fixed-priority scheduler for several cores promises:  *)
(* a core that chooses takes a ready task of the highest priority among    *)
(* those it may run and no other core runs. No lists, ticks or pending     *)
(* yields here; when a core has to choose is left open.                    *)
(***************************************************************************)
EXTENDS Integers

CONSTANTS
    Tasks,       \* the tasks
    Processors,  \* the cores
    Idle         \* what a core runs when it runs no task

VARIABLES
    priority,  \* the priority of each task
    affinity,  \* the cores each task may run on
    state,     \* "new", "ready", "blocked", "suspended" or "deleted"
    running    \* the task on each core

SchedulerInit ==
    /\ state = [t \in Tasks |-> "new"]
    /\ running = [c \in Processors |-> Idle]

(* Before the start tasks are configured; then some of them become ready. *)
Configure ==
    /\ \A t \in Tasks : state[t] = "new"
    /\ UNCHANGED <<state, running>>

Start ==
    /\ \A t \in Tasks : state[t] = "new"
    /\ \A t \in Tasks : state'[t] \in {"new", "ready"}
    /\ UNCHANGED <<priority, affinity, running>>

Eligible(c) ==
    {t \in Tasks : /\ state[t] = "ready"
                   /\ c \in affinity[t]
                   /\ \A d \in Processors \ {c} : running[d] # t}

Dispatch(c) ==
    /\ \/ Eligible(c) = {} /\ running' = [running EXCEPT ![c] = Idle]
       \/ \E t \in Eligible(c) :
             /\ \A u \in Eligible(c) : priority[u] <= priority[t]
             /\ running' = [running EXCEPT ![c] = t]
    /\ UNCHANGED <<priority, affinity, state>>

Becomes(t, old, new) ==
    /\ state[t] \in old
    /\ state' = [state EXCEPT ![t] = new]
    /\ UNCHANGED <<priority, affinity, running>>

(* Only a task on a core puts itself to sleep. *)
Stop(c) ==
    /\ running[c] # Idle
    /\ \/ Becomes(running[c], {"ready"}, "blocked")
       \/ Becomes(running[c], {"ready"}, "suspended")

(* Time wakes the blocked, never the suspended or the deleted. *)
Wake ==
    /\ \A t \in Tasks : state'[t] # state[t] => state[t] = "blocked" /\ state'[t] = "ready"
    /\ UNCHANGED <<priority, affinity, running>>

SchedulerNext ==
    \/ Configure
    \/ Start
    \/ Wake
    \/ \E c \in Processors : Dispatch(c) \/ Stop(c)
    \/ \E t \in Tasks :
          \/ Becomes(t, {"suspended"}, "ready")
          \/ Becomes(t, {"ready", "blocked", "suspended"}, "deleted")

SchedulerSpec ==
    SchedulerInit /\ [][SchedulerNext]_<<priority, affinity, state, running>>

=============================================================================
