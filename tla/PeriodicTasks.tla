--------------------------- MODULE PeriodicTasks ---------------------------
(***************************************************************************)
(* The running system of smp_test/main.c: the periodic tasks vTask0 ..     *)
(* vTask7 (run_task, Periodic_Job), the hand-over from the body of a split *)
(* task to its tail, and MonitorTask, on the scheduler of SmpKernel.       *)
(*                                                                         *)
(* A step is one kernel call, or the code between two looks at the tick    *)
(* count. A step takes no time: the tick (10 ms) only comes when every     *)
(* core idles, spins or waits for it in the busy loop. But the cores do    *)
(* not see it at once: the code of a task goes on on a core that another   *)
(* core has asked to switch (Executes), up to its next kernel call (Calls).*)
(***************************************************************************)
EXTENDS Partition, SmpKernel

CONSTANT DEADLINE_MODULUS  \* 2^16: Periodic_Job takes the deadline as uint16_t

ASSUME ModulusAssumption == DEADLINE_MODULUS \in Nat \ {0}

VARIABLES
    at,           \* where each task is in its code
    last,         \* LastRequestTime
    Deadline,     \* the deadline run_task computed
    left,         \* iterations of the busy loop still to do
    counter,      \* the tick the busy loop waits for
    ran,          \* history: ticks the task held a core during this job
    preempted,    \* history: how often this job was switched out in its busy loop
    schedulable,  \* the flag the monitor reads
    monitor,      \* where MonitorTask is in its code
    victim,       \* index of the monitor's deletion loop
    verdict       \* what the monitor printed, "none" before

taskVars == <<at, last, Deadline, left, counter, ran, preempted>>
monitorVars == <<monitor, victim, verdict>>
runVars == <<kernelVars, taskVars, schedulable, monitorVars>>

----------------------------------------------------------------------------
(* gcd and lcm by repeated division, and the hyperperiod of the table.     *)

gcd(m, n) ==
    LET g[a \in Nat, b \in Nat] == IF b = 0 THEN a ELSE g[b, a % b] IN g[m, n]

lcm(a, b) == (a * b) \div gcd(a, b)

calculate_lcm(periods) ==
    LET l[k \in 0 .. NUM_OF_TASK - 1] ==
            IF k = 0 THEN periods[0] ELSE lcm(l[k - 1], periods[k])
    IN l[NUM_OF_TASK - 1]

Hyperperiod == calculate_lcm([t \in 0 .. NUM_OF_TASK - 1 |-> task_list[t].Period])

----------------------------------------------------------------------------
RunInit ==
    /\ at = [s \in Slots |-> "entry"]
    /\ last = [s \in Slots |-> 0]
    /\ Deadline = [s \in Slots |-> 0]
    /\ left = [s \in Slots |-> 0]
    /\ counter = [s \in Slots |-> 0]
    /\ ran = [s \in Slots |-> 0]
    /\ preempted = [s \in Slots |-> 0]
    /\ schedulable = TRUE
    /\ monitor = "entry"
    /\ victim = 0
    /\ verdict = "none"

(* vTaskN: the first request is now; a delay of one tick, for sync. No     *)
(* core signals another before the first tick, so that this is one step.   *)
Entry(t, c) ==
    /\ Calls(t, c)
    /\ at[t] = "entry"
    /\ last' = [last EXCEPT ![t] = xTickCount]
    /\ at' = [at EXCEPT ![t] = "request"]
    /\ DelayUntilTick(c, xTickCount + 1)
    /\ UNCHANGED <<Deadline, left, counter, ran, preempted, schedulable, monitorVars>>

\* fault: a tail does not wait for its body
RequestWithoutWaiting(t, c) ==
    /\ Executes(t, c)
    /\ at[t] = "request"
    /\ Deadline' = [Deadline EXCEPT ![t] = last[t] + task_list[t].Period]
    /\ at' = [at EXCEPT ![t] = "job"]
    /\ UNCHANGED <<last, left, counter, ran, preempted, schedulable, kernelVars,
                   monitorVars>>

(* run_task, up to Periodic_Job: the deadline is set, and a tail suspends  *)
(* itself until its body is done.                                          *)
Request(t, c) ==
    /\ Executes(t, c)
    /\ at[t] = "request"
    /\ Deadline' = [Deadline EXCEPT ![t] = last[t] + task_list[t].Period]
    /\ at' = [at EXCEPT ![t] = "job"]
    /\ IF task_list[t].Dependency
         THEN Calls(t, c) /\ SuspendSelf(c)
         ELSE UNCHANGED kernelVars
    /\ UNCHANGED <<last, left, counter, ran, preempted, schedulable, monitorVars>>

(* The deadline as Periodic_Job sees it. *)
SeenDeadline(t) == Deadline[t] % DEADLINE_MODULUS

(* "OVERFLOW": the flag is cleared and the task spins for ever. *)
Overflow(t) ==
    /\ schedulable' = FALSE
    /\ at' = [at EXCEPT ![t] = "spin"]
    /\ UNCHANGED <<left, ran, preempted>>

(* The job may start; one without work has no iteration of the busy loop. *)
Begin(t) ==
    /\ left' = [left EXCEPT ![t] = task_list[t].Runtime]
    /\ ran' = [ran EXCEPT ![t] = 0]
    /\ preempted' = [preempted EXCEPT ![t] = 0]
    /\ at' = [at EXCEPT ![t] = IF task_list[t].Runtime = 0 THEN "check" ELSE "loop"]
    /\ UNCHANGED schedulable

\* fault: a job that would end at its deadline is given up too
StartJobEarlier(t, c) ==
    /\ Executes(t, c)
    /\ at[t] = "job"
    /\ IF xTickCount + task_list[t].Runtime >= SeenDeadline(t) THEN Overflow(t) ELSE Begin(t)
    /\ UNCHANGED <<last, Deadline, counter, kernelVars, monitorVars>>

(* Periodic_Job, its first check. *)
StartJob(t, c) ==
    /\ Executes(t, c)
    /\ at[t] = "job"
    /\ IF xTickCount + task_list[t].Runtime > SeenDeadline(t) THEN Overflow(t) ELSE Begin(t)
    /\ UNCHANGED <<last, Deadline, counter, kernelVars, monitorVars>>

(* The first iteration of the busy loop reads the tick count. *)
StartLoop(t, c) ==
    /\ Executes(t, c)
    /\ at[t] = "loop"
    /\ counter' = [counter EXCEPT ![t] = xTickCount + 1]
    /\ at' = [at EXCEPT ![t] = "busy"]
    /\ UNCHANGED <<last, Deadline, left, ran, preempted, schedulable, kernelVars,
                   monitorVars>>

\* fault: the next tick to wait for is counted on from the one before
BusyTurnByTheClock(t, c) ==
    /\ Executes(t, c)
    /\ at[t] = "busy"
    /\ xTickCount >= counter[t]
    /\ left' = [left EXCEPT ![t] = @ - 1]
    /\ counter' = [counter EXCEPT ![t] = @ + 1]
    /\ at' = [at EXCEPT ![t] = IF left[t] = 1 THEN "check" ELSE "busy"]
    /\ UNCHANGED <<last, Deadline, ran, preempted, schedulable, kernelVars,
                   monitorVars>>

(* One iteration of the busy loop ends, since the tick it waited for has   *)
(* come, and the next one reads the tick count. (A switch between the two  *)
(* looks at the tick count has the effect of one before the first.)        *)
BusyTurn(t, c) ==
    /\ Executes(t, c)
    /\ at[t] = "busy"
    /\ xTickCount >= counter[t]
    /\ left' = [left EXCEPT ![t] = @ - 1]
    /\ counter' = [counter EXCEPT ![t] = xTickCount + 1]
    /\ at' = [at EXCEPT ![t] = IF left[t] = 1 THEN "check" ELSE "busy"]
    /\ UNCHANGED <<last, Deadline, ran, preempted, schedulable, kernelVars,
                   monitorVars>>

(* The second check. *)
EndJob(t, c) ==
    /\ Executes(t, c)
    /\ at[t] = "check"
    /\ IF xTickCount > SeenDeadline(t)
         THEN Overflow(t)
         ELSE /\ at' = [at EXCEPT ![t] =
                           IF task_list[t].splitted_ptr = NULL THEN "sleep" ELSE "resume"]
              /\ UNCHANGED <<left, ran, preempted, schedulable>>
    /\ UNCHANGED <<last, Deadline, counter, kernelVars, monitorVars>>

(* The body resumes its tail. *)
ResumeTail(t, c) ==
    /\ Calls(t, c)
    /\ at[t] = "resume"
    /\ at' = [at EXCEPT ![t] = "sleep"]
    /\ Resume(task_list[t].splitted_ptr, c)
    /\ UNCHANGED <<last, Deadline, left, counter, ran, preempted, schedulable,
                   monitorVars>>

\* fault: the delay is taken from now, not from the last request
SleepFromNow(t, c) ==
    /\ Calls(t, c)
    /\ at[t] = "sleep"
    /\ last' = [last EXCEPT ![t] = xTickCount + task_list[t].Period]
    /\ at' = [at EXCEPT ![t] = "request"]
    /\ DelayUntilTick(c, xTickCount + task_list[t].Period)
    /\ UNCHANGED <<Deadline, left, counter, ran, preempted, schedulable, monitorVars>>

(* vTaskDelayUntil: to the next request, or on at once if that has passed. *)
Sleep(t, c) ==
    /\ Calls(t, c)
    /\ at[t] = "sleep"
    /\ last' = [last EXCEPT ![t] = @ + task_list[t].Period]
    /\ at' = [at EXCEPT ![t] = "request"]
    /\ IF last[t] + task_list[t].Period > xTickCount
         THEN DelayUntilTick(c, last[t] + task_list[t].Period)
         ELSE YieldWithinAPI(c)
    /\ UNCHANGED <<Deadline, left, counter, ran, preempted, schedulable, monitorVars>>

----------------------------------------------------------------------------
(* MonitorTask                                                             *)

MonitorEntry(c) ==
    /\ Calls(MONITOR, c)
    /\ monitor = "entry"
    /\ monitor' = "verdict"
    /\ DelayUntilTick(c, xTickCount + Hyperperiod + 1)
    /\ UNCHANGED <<taskVars, schedulable, victim, verdict>>

MonitorVerdict(c) ==
    /\ Executes(MONITOR, c)
    /\ monitor = "verdict"
    /\ monitor' = "delete"
    /\ verdict' = IF schedulable THEN "ALL TASKS SCHEDULABLE" ELSE "NOT SCHEDULABLE"
    /\ UNCHANGED <<kernelVars, taskVars, schedulable, victim>>

\* fault: the tasks are deleted from the last slot down
MonitorDeleteDown(c) ==
    /\ Calls(MONITOR, c)
    /\ monitor = "delete"
    /\ LET handle == IF victim < MAX_NUM_TASKS
                       THEN task_list[MAX_NUM_TASKS - 1 - victim].my_ptr ELSE NULL
       IN Delete(IF handle = NULL THEN MONITOR ELSE handle, c)
    /\ victim' = victim + 1
    /\ UNCHANGED <<taskVars, schedulable, monitor, verdict>>

\* fault: the loop stops before the slots of the tails
MonitorDeleteTable(c) ==
    /\ Calls(MONITOR, c)
    /\ monitor = "delete"
    /\ LET handle == IF victim < NUM_OF_TASK THEN task_list[victim].my_ptr ELSE NULL
       IN Delete(IF handle = NULL THEN MONITOR ELSE handle, c)
    /\ victim' = victim + 1
    /\ UNCHANGED <<taskVars, schedulable, monitor, verdict>>

(* One vTaskDelete of the loop; a NULL handle means the monitor itself,    *)
(* which is also the last call after the loop.                             *)
MonitorDelete(c) ==
    /\ Calls(MONITOR, c)
    /\ monitor = "delete"
    /\ LET handle == IF victim < MAX_NUM_TASKS THEN task_list[victim].my_ptr ELSE NULL
       IN Delete(IF handle = NULL THEN MONITOR ELSE handle, c)
    /\ victim' = victim + 1
    /\ UNCHANGED <<taskVars, schedulable, monitor, verdict>>

----------------------------------------------------------------------------
Waits(c) ==
    /\ ~ yield[c]
    /\ \/ current[c] = IDLE
       \/ /\ current[c] \in Slots
          /\ \/ at[current[c]] = "spin"
             \/ at[current[c]] = "busy" /\ xTickCount < counter[current[c]]

(* The tick interrupt. The model ends when the monitor has deleted itself. *)
Tick ==
    /\ MONITOR \notin deleted
    /\ \A c \in Cores : Waits(c)
    /\ IncrementTick
    /\ ran' = [s \in Slots |-> IF RunsOn(s) # {} /\ at[s] = "busy" THEN ran[s] + 1 ELSE ran[s]]
    /\ UNCHANGED <<at, last, Deadline, left, counter, preempted, schedulable,
                   monitorVars>>

(* A core takes the yield it was asked for; in its busy loop a task may    *)
(* find that a tick has passed when it comes back.                         *)
Switch(c) ==
    /\ SwitchContext(c)
    /\ preempted' = [s \in Slots |->
           IF current[c] = s /\ current'[c] # s /\ at[s] = "busy"
             THEN preempted[s] + 1 ELSE preempted[s]]
    /\ UNCHANGED <<at, last, Deadline, left, counter, ran, schedulable, monitorVars>>

TaskStep(t, c) ==
    \/ Entry(t, c)
    \/ Request(t, c)
    \/ StartJob(t, c)
    \/ StartLoop(t, c)
    \/ BusyTurn(t, c)
    \/ EndJob(t, c)
    \/ ResumeTail(t, c)
    \/ Sleep(t, c)

MonitorStep(c) == MonitorEntry(c) \/ MonitorVerdict(c) \/ MonitorDelete(c)

RunNext ==
    \/ \E c \in Cores : Switch(c) \/ MonitorStep(c)
    \/ \E t \in Slots, c \in Cores : TaskStep(t, c)
    \/ Tick

=============================================================================
