------------------------------- MODULE System -------------------------------
(***************************************************************************)
(* The whole program: the boot of Partition, and from vTaskStartScheduler  *)
(* on the tasks of PeriodicTasks with the task_list and the kernel tasks   *)
(* that the boot left behind.                                              *)
(***************************************************************************)
EXTENDS PeriodicTasks

sysVars == <<vars, runVars>>

SystemInit == Init /\ KernelInit /\ RunInit

(* A step of main() before the scheduler starts. *)
BootStep ==
    /\ Next
    /\ pc' # "started"
    /\ UNCHANGED runVars

(* The tasks that xTaskCreate had room for, the monitor among them. *)
Existing == Created \cup (IF heap_size > 0 THEN {MONITOR} ELSE {})

(* vTaskStartScheduler *)
Launch ==
    /\ pc # "started"
    /\ Next
    /\ pc' = "started"
    /\ StartKernel(Existing)
    /\ UNCHANGED <<taskVars, schedulable, monitorVars>>

RunStep == pc = "started" /\ RunNext /\ UNCHANGED vars

(* Nothing happens after the monitor has deleted itself. *)
Ended ==
    /\ MONITOR \in deleted
    /\ \A c \in Cores : Waits(c)
    /\ UNCHANGED sysVars

SystemNext == BootStep \/ Launch \/ RunStep \/ Ended

SystemSpec == SystemInit /\ [][SystemNext]_sysVars /\ WF_sysVars(SystemNext)

----------------------------------------------------------------------------
(* Properties                                                              *)

Running(t) == RunsOn(t) # {}
IsSplit(t) == task_list[t].splitted_ptr # NULL
NoPendingSwitch == \A c \in Cores : ~ yield[c]

(* The tail s of body t has been resumed and has not looked at its         *)
(* deadline yet, while the body is between two jobs.                       *)
HandedOver(t, s) ==
    /\ task_list[t].splitted_ptr = s
    /\ at[t] \in {"sleep", "request"}
    /\ at[s] = "job"
    /\ IsReady(s)

(* The kernel and the tasks stay within their ranges, and a task that was  *)
(* created is in exactly one of the ready, delayed and suspended lists,    *)
(* once, until it is deleted (vListInsertEnd after uxListRemove).          *)
RunTypeOK ==
    /\ xTickCount \in Nat
    /\ current \in [Cores -> Threads \cup {IDLE}]
    /\ yield \in [Cores -> BOOLEAN]
    /\ signalled \subseteq {c \in Cores : yield[c]}
    /\ at \in [Slots -> {"entry", "request", "job", "loop", "busy", "check", "resume",
                         "sleep", "spin"}]
    /\ \A s \in Slots : left[s] \in 0 .. task_list[s].Runtime
    /\ monitor \in {"entry", "verdict", "delete"}
    /\ victim \in 0 .. MAX_NUM_TASKS + 1
    /\ verdict \in {"none", "ALL TASKS SCHEDULABLE", "NOT SCHEDULABLE"}
    /\ pc = "started" =>
         \A t \in Existing :
            LET occurrences(list) == Cardinality({k \in 1 .. Len(list) : list[k] = t})
                in(set) == IF t \in set THEN 1 ELSE 0
            IN occurrences(ready) + occurrences(delayed) + in(suspended) + in(deleted) = 1

(* prvYieldForTask and prvSelectHighestPriorityTask (tasks.c 890-1265):    *)
(* once no switch is pending, a ready task that no core executes finds, on *)
(* every core it may use, a task of at least its own kernel priority.      *)
HighestPriorityRuns ==
    pc = "started" /\ NoPendingSwitch =>
        \A k \in 1 .. Len(ready) :
            \/ Running(ready[k])
            \/ \A c \in uxCoreAffinityMask(ready[k]) :
                  uxPriority(current[c]) >= uxPriority(ready[k])

(* tasks.c 890-1265, 3130-3300, 3382-3450, 4725-4965 implement a           *)
(* preemptive fixed-priority scheduler: whatever the order of the yields,  *)
(* a core only ever switches to a task of the highest priority among those *)
(* it may take, the tick wakes no suspended or deleted task, and only a    *)
(* task on a core puts itself to sleep.                                    *)
ImplementsScheduler == Contract!SchedulerSpec

(* Periodic_Job (task_manager.c 22-33): a job never holds a core for more  *)
(* ticks than its Runtime; and a job that comes out of the busy loop has   *)
(* held a core for all of them but one for each time it was preempted,     *)
(* whichever tick it came back on, and although on a core that is slow to  *)
(* switch it already looks at the tick count of the next tick.             *)
JobTakesItsRuntime ==
    \A t \in Slots :
        /\ ran[t] <= task_list[t].Runtime
        /\ at[t] = "check" => ran[t] + preempted[t] >= task_list[t].Runtime

(* run_task (main.c 225-243): the tail of a split task works on a request  *)
(* only after its body has completed that request.                         *)
TailFollowsBody ==
    \A t, s \in Slots :
        /\ task_list[t].splitted_ptr = s
        /\ at[s] \in {"loop", "busy", "check"}
        => last[t] > last[s] \/ (last[t] = last[s] /\ at[t] = "sleep")

(* main.c 225-243: if the body has any work, the tail has suspended itself *)
(* by the time the body resumes it, so that no resumption is lost and the  *)
(* tail works against the deadline of the request its body just completed. *)
HandOverIsCurrent ==
    \A t, s \in Slots :
        HandedOver(t, s) /\ task_list[t].Runtime > 0 => Deadline[s] = Deadline[t]

(* Periodic_Job (task_manager.c 4-44) gets the deadline through a uint16_t. *)
(* A job that completes has met its deadline all the same; and if one      *)
(* hyperperiod and the longest period are within the range of a uint16_t,  *)
(* a task is only ever stopped for a deadline it has missed, or cannot     *)
(* meet any more.                                                          *)
OverflowIsExact ==
    [][\A t \in Slots :
          /\ at[t] = "check" /\ at'[t] \in {"resume", "sleep"} => xTickCount <= Deadline[t]
          /\ /\ at[t] # "spin" /\ at'[t] = "spin"
             /\ \A u \in 0 .. NUM_OF_TASK - 1 :
                   Hyperperiod + task_list[u].Period < DEADLINE_MODULUS
             => xTickCount + (IF at[t] = "job" THEN task_list[t].Runtime ELSE 0) > Deadline[t]
      ]_sysVars

(* MonitorTask (main.c 79-82) deletes the tasks while the other core still *)
(* executes some of them: a body never resumes a tail that was deleted.    *)
ResumedTaskExists ==
    [][\A t \in Slots :
          at[t] = "resume" /\ at'[t] = "sleep" => task_list[t].splitted_ptr \notin deleted]_sysVars

(* vTaskDelete by the monitor of a task that the other core is executing   *)
(* (tasks.c 2198-2312): the task may go on until the interrupt arrives.    *)
(* But nothing brings it back to a core, neither a resumption, nor a wake- *)
(* up, nor an eviction, and no kernel call of its takes effect any more,   *)
(* also when it was about to enter one (tasks.c 822-884).                  *)
DeletedTasksStop ==
    [][\A t \in Slots \cap deleted :
          /\ \A c \in Cores : current'[c] = t => current[c] = t
          /\ \/ at[t] \in {"entry", "resume", "sleep"}
             \/ at[t] = "request" /\ task_list[t].Dependency
             => at'[t] = at[t]
      ]_sysVars

(* MonitorTask (main.c 54-87): the experiment ends. However the tasks      *)
(* behave, also when they spin after an overflow, the monitor gets a core, *)
(* prints its verdict and deletes every task and itself.                   *)
ExperimentEnds ==
    <>(pc = "undefined" \/ (verdict # "none" /\ Created \cup {MONITOR} \subseteq deleted))

(* Fixed-priority scheduling by the priorities of the table (main.c        *)
(* 26-34): once no switch is pending, a core executes the ready task       *)
(* pinned to it that has the highest configured priority.                  *)
ConfiguredPriorityRuns ==
    pc = "started" /\ NoPendingSwitch =>
        \A k \in 1 .. Len(ready) : ready[k] \in Slots =>
            \/ Running(ready[k])
            \/ \A c \in uxCoreAffinityMask(ready[k]) :
                  current[c] \in Slots =>
                      task_list[current[c]].priority >= task_list[ready[k]].priority

(* main.c 76: when "ALL TASKS SCHEDULABLE" is printed no task has a job    *)
(* that is unfinished past its deadline.                                   *)
VerdictIsSound ==
    verdict = "ALL TASKS SCHEDULABLE" =>
        \A t \in Created : at[t] \in {"job", "loop", "busy", "check"} => xTickCount <= Deadline[t]

(* main.c 26 and 30-36: a job executes for the Run ticks of the table.     *)
JobRunsInFull ==
    \A t \in Slots : at[t] = "check" => ran[t] = task_list[t].Runtime

=============================================================================
