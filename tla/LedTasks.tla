------------------------------ MODULE LedTasks ------------------------------
(***************************************************************************)
(* led_task/main.c: periodic tasks of falling priority that are pinned to  *)
(* no core, on the scheduler of SmpKernel. task1 .. task4 are one function *)
(* written four times; they are the slots 0 .. NUM_OF_TASK - 1.            *)
(*                                                                         *)
(* As in PeriodicTasks a step takes no time and the tick comes when every  *)
(* core waits for it. sleep_ms of the SDK does not give the core away: it  *)
(* watches the clock, whether the task executes meanwhile or not.          *)
(***************************************************************************)
EXTENDS SmpKernel

CONSTANTS
    RunPeriodTables,  \* the tables considered: Run_tick and Period of each task
    OVERFLOW_TICKS,   \* sleep_ms(5000), in ticks
    HORIZON           \* bound: the tick at which the model ends

ASSUME TablesAssumption ==
    RunPeriodTables \subseteq
        [0 .. NUM_OF_TASK - 1 -> [Run_tick : Nat \ {0}, Period : Nat \ {0}]]
ASSUME OverflowTicksAssumption == OVERFLOW_TICKS \in Nat \ {0}
ASSUME HorizonAssumption == HORIZON \in Nat

VARIABLES
    rows,      \* Run_tick and Period of each task
    at,        \* where each task is in its code
    last,      \* LastRequestTime
    Deadline,  \* Deadline
    left,      \* iterations of the execution loop still to do
    until,     \* when the sleep_ms in progress ends
    halted     \* a task function has returned: panic

ledVars == <<at, last, Deadline, left, until>>
vars == <<tcb, rows, kernelVars, ledVars, halted>>

LedTask == 0 .. NUM_OF_TASK - 1

(* main: the four xTaskCreate calls, and vTaskStartScheduler. *)
Init ==
    /\ rows \in RunPeriodTables
    /\ tcb = [s \in Slots |->
                 IF s \in LedTask THEN [uxPriority |-> NUM_OF_TASK - s, affinity |-> Cores]
                 ELSE NoTCB]
    /\ KernelInit
    /\ at = [t \in LedTask |-> "entry"]
    /\ last = [t \in LedTask |-> 0]
    /\ Deadline = [t \in LedTask |-> 0]
    /\ left = [t \in LedTask |-> 0]
    /\ until = [t \in LedTask |-> 0]
    /\ halted = FALSE

Launch ==
    /\ ready = <<>> /\ delayed = <<>>
    /\ StartKernel(LedTask)
    /\ UNCHANGED <<tcb, rows, ledVars, halted>>

(* The first request is now; a delay of one tick, for sync. No core        *)
(* signals another before the first tick, so that this is one step.        *)
Entry(t, c) ==
    /\ Calls(t, c)
    /\ at[t] = "entry"
    /\ last' = [last EXCEPT ![t] = xTickCount]
    /\ at' = [at EXCEPT ![t] = "job"]
    /\ DelayUntilTick(c, xTickCount + 1)
    /\ UNCHANGED <<tcb, rows, Deadline, left, until, halted>>

(* "OVERFLOW": the task sleeps on its core before it returns. *)
Overflow(t) ==
    /\ at' = [at EXCEPT ![t] = "overflow"]
    /\ until' = [until EXCEPT ![t] = xTickCount + OVERFLOW_TICKS]
    /\ UNCHANGED left

(* The deadline, and the check before the execution. *)
StartJob(t, c) ==
    /\ Executes(t, c)
    /\ at[t] = "job"
    /\ Deadline' = [Deadline EXCEPT ![t] = last[t] + rows[t].Period]
    /\ IF xTickCount + rows[t].Run_tick >= last[t] + rows[t].Period
         THEN Overflow(t)
         ELSE /\ at' = [at EXCEPT ![t] = "loop"]
              /\ left' = [left EXCEPT ![t] = rows[t].Run_tick]
              /\ UNCHANGED until
    /\ UNCHANGED <<tcb, rows, last, halted, kernelVars>>

(* The first sleep_ms of the execution loop looks at the clock. *)
StartLoop(t, c) ==
    /\ Executes(t, c)
    /\ at[t] = "loop"
    /\ at' = [at EXCEPT ![t] = "busy"]
    /\ until' = [until EXCEPT ![t] = xTickCount + 1]
    /\ UNCHANGED <<tcb, rows, last, Deadline, left, halted, kernelVars>>

(* A sleep_ms of the execution loop is over, and the next one begins. *)
SleepTurn(t, c) ==
    /\ Executes(t, c)
    /\ at[t] = "busy"
    /\ xTickCount >= until[t]
    /\ left' = [left EXCEPT ![t] = @ - 1]
    /\ until' = [until EXCEPT ![t] = xTickCount + 1]
    /\ at' = [at EXCEPT ![t] = IF left[t] = 1 THEN "check" ELSE "busy"]
    /\ UNCHANGED <<tcb, rows, last, Deadline, halted, kernelVars>>

(* The check after the execution. *)
EndJob(t, c) ==
    /\ Executes(t, c)
    /\ at[t] = "check"
    /\ IF xTickCount > Deadline[t]
         THEN Overflow(t)
         ELSE at' = [at EXCEPT ![t] = "sleep"] /\ UNCHANGED <<left, until>>
    /\ UNCHANGED <<tcb, rows, last, Deadline, halted, kernelVars>>

\* fault: the delay is taken from now, not from the last request
SleepFromNow(t, c) ==
    /\ Calls(t, c)
    /\ at[t] = "sleep"
    /\ at' = [at EXCEPT ![t] = "job"]
    /\ last' = [last EXCEPT ![t] = @ + rows[t].Period]
    /\ DelayUntilTick(c, xTickCount + rows[t].Period)
    /\ UNCHANGED <<tcb, rows, Deadline, left, until, halted>>

(* vTaskDelayUntil: to the next request, or on at once if that has passed. *)
Sleep(t, c) ==
    /\ Calls(t, c)
    /\ at[t] = "sleep"
    /\ at' = [at EXCEPT ![t] = "job"]
    /\ last' = [last EXCEPT ![t] = @ + rows[t].Period]
    /\ IF last[t] + rows[t].Period > xTickCount
         THEN DelayUntilTick(c, last[t] + rows[t].Period)
         ELSE YieldWithinAPI(c)
    /\ UNCHANGED <<tcb, rows, Deadline, left, until, halted>>

\* fault: the task deletes itself instead of returning, and the others go on
ReturnDeletes(t, c) ==
    /\ Calls(t, c)
    /\ at[t] = "overflow"
    /\ xTickCount >= until[t]
    /\ Delete(t, c)
    /\ UNCHANGED <<tcb, rows, ledVars, halted>>

(* sleep_ms(5000) is over and the task function returns, which FreeRTOS    *)
(* does not allow: prvTaskExitError panics.                                *)
Return(t, c) ==
    /\ Executes(t, c)
    /\ at[t] = "overflow"
    /\ xTickCount >= until[t]
    /\ halted' = TRUE
    /\ UNCHANGED <<tcb, rows, ledVars, kernelVars>>

Switch(c) == ~ halted /\ SwitchContext(c) /\ UNCHANGED <<tcb, rows, ledVars, halted>>

Waits(c) ==
    /\ ~ yield[c]
    /\ \/ current[c] = IDLE
       \/ /\ current[c] \in LedTask
          /\ at[current[c]] \in {"busy", "overflow"}
          /\ xTickCount < until[current[c]]

Tick ==
    /\ ~ halted
    /\ ready # <<>> \/ delayed # <<>>
    /\ xTickCount < HORIZON
    /\ \A c \in Cores : Waits(c)
    /\ IncrementTick
    /\ UNCHANGED <<tcb, rows, ledVars, halted>>

(* Nothing is modelled after a panic, or after the horizon. *)
Ended ==
    /\ halted \/ (xTickCount = HORIZON /\ \A c \in Cores : Waits(c))
    /\ UNCHANGED vars

TaskStep(t, c) ==
    /\ ~ halted
    /\ \/ Entry(t, c)
       \/ StartJob(t, c)
       \/ StartLoop(t, c)
       \/ SleepTurn(t, c)
       \/ EndJob(t, c)
       \/ Sleep(t, c)
       \/ Return(t, c)

Next ==
    \/ Launch
    \/ \E c \in Cores : Switch(c)
    \/ \E t \in LedTask, c \in Cores : TaskStep(t, c)
    \/ Tick
    \/ Ended

Spec == Init /\ [][Next]_vars /\ WF_vars(Next)

----------------------------------------------------------------------------
(* Properties                                                              *)

(* prvYieldForTask (tasks.c 890-1000) with tasks that may use every core:  *)
(* global fixed-priority scheduling. Once no switch is pending the cores   *)
(* execute the ready tasks of highest priority, as many as there are cores,*)
(* wherever the tasks that were preempted, woken or sleeping had been.     *)
TopTasksRun ==
    (\A c \in Cores : ~ yield[c]) =>
        \A k \in 1 .. Len(ready) :
            \/ RunsOn(ready[k]) # {}
            \/ \A c \in Cores : uxPriority(current[c]) > uxPriority(ready[k])

(* led_task/main.c 10-53: the tasks of highest priority, one for each core,*)
(* depend on nobody. If such a task has two ticks to spare in its period   *)
(* (one for the sync delay, one for the strict check) it never overflows,  *)
(* however overloaded the tasks below it are, and also while they hold a   *)
(* core in the sleep after their overflow.                                 *)
TopTasksNeverOverflow ==
    \A t \in LedTask :
        t < configNUMBER_OF_CORES /\ rows[t].Run_tick + 1 < rows[t].Period
            => at[t] # "overflow"

(* led_task/main.c 30-35 and 45-50, port.c 199-205: an overflow ends the   *)
(* program. The task that overflowed may be preempted in its sleep again   *)
(* and again, but it gets a core after the sleep, or a task above it       *)
(* overflows in turn; a task function returns and the port panics. Stated  *)
(* for the overflows that leave two of these sleeps before the horizon.    *)
OverflowEndsInPanic ==
    (\E t \in LedTask : at[t] = "overflow" /\ xTickCount + 2 * OVERFLOW_TICKS <= HORIZON)
        ~> halted

=============================================================================
