----------------------------- MODULE SmpKernel -----------------------------
(***************************************************************************)
(* The FreeRTOS SMP scheduler (tasks.c) as smp_test uses it: the lists a   *)
(* task can be in, the task each core runs, the yields requested of the    *)
(* cores, and the tick. Each kernel call is atomic, as in the code, which  *)
(* runs it in a critical section or with the scheduler suspended.          *)
(*                                                                         *)
(* The lists of equal priority are interleaved into one sequence `ready`:  *)
(* only the order within a priority is ever looked at. As in the kernel a  *)
(* running task stays in its ready list. The idle tasks, one per core,     *)
(* always ready, and of a priority below every other, are the value IDLE.  *)
(***************************************************************************)
EXTENDS TaskControl, SequencesExt

VARIABLES
    xTickCount,  \* ticks since the scheduler was started
    ready,       \* the ready lists, in list order
    delayed,     \* the delayed list, in the order of wake times
    wake,        \* when each delayed task is to be woken
    suspended,   \* the suspended list
    deleted,     \* tasks taken out of every list by vTaskDelete
    current,     \* pxCurrentTCBs: the task on each core
    yield,       \* cores asked to switch: yield pending, or scheduled to yield
    signalled    \* those among them that another core asked, by an interrupt
                 \* through the FIFO that they have not taken yet

kernelVars == <<xTickCount, ready, delayed, wake, suspended, deleted, current, yield,
                signalled>>

IDLE == NULL
MONITOR == MAX_NUM_TASKS
configTICK_CORE == 0
Threads == Slots \cup {MONITOR}

uxPriority(t) ==
    CASE t = IDLE    -> -1
      [] t = MONITOR -> ClampedPriority(10)
      [] OTHER       -> tcb[t].uxPriority

uxCoreAffinityMask(t) == IF t \in Slots THEN tcb[t].affinity ELSE Cores

IsReady(t) == \E k \in 1 .. Len(ready) : ready[k] = t
RunsOn(t) == {c \in Cores : current[c] = t}

(* Task t runs code of its own on core c. A core that asks itself to       *)
(* switch does so before it returns to the task; one that another core     *)
(* asked lets the task go on until the interrupt arrives.                  *)
Executes(t, c) == current[c] = t /\ (yield[c] => c \in signalled)

\* fault: a kernel call does not look whether its core has been asked to switch
CallsUnchecked(t, c) == Executes(t, c)

(* Task t enters a kernel call on core c. prvCheckForRunStateChange holds  *)
(* the call up on a core that has been asked to switch, until t is back.   *)
Calls(t, c) == current[c] = t /\ ~ yield[c]

(* prvYieldCore on core c: the other cores it newly asks are signalled. *)
SignalledBy(c) == {d \in Cores \ {c} : yield'[d] /\ ~ yield[d]}

----------------------------------------------------------------------------
(* prvYieldForTask(t): of the cores t may run on that run something of     *)
(* lower priority and are not about to switch anyway, the one with the     *)
(* least priority is asked to switch; of equals, the last.                 *)

\* fault: the affinity of t is not looked at
PreemptableAnywhere(t, pending) ==
    {c \in Cores : ~ pending[c] /\ uxPriority(current[c]) < uxPriority(t)}

Preemptable(t, pending) ==
    {c \in uxCoreAffinityMask(t) : ~ pending[c] /\ uxPriority(current[c]) < uxPriority(t)}

\* fault: the core with the greatest priority that t exceeds
NearestCore(cores) ==
    CHOOSE c \in cores : \A d \in cores :
        /\ uxPriority(current[c]) >= uxPriority(current[d])
        /\ d > c => uxPriority(current[c]) > uxPriority(current[d])

WorstCore(cores) ==
    CHOOSE c \in cores : \A d \in cores :
        /\ uxPriority(current[c]) <= uxPriority(current[d])
        /\ d > c => uxPriority(current[c]) < uxPriority(current[d])

YieldForTask(t, pending) ==
    LET cores == Preemptable(t, pending) IN
        IF RunsOn(t) # {} \/ cores = {}
          THEN pending
          ELSE [pending EXCEPT ![WorstCore(cores)] = TRUE]

----------------------------------------------------------------------------
(* vTaskSwitchContext and prvSelectHighestPriorityTask on core c.          *)

\* fault: a task that another core executes is a candidate too
MayRunOnTwice(t, c) == c \in uxCoreAffinityMask(t)

MayRunOn(t, c) ==
    /\ c \in uxCoreAffinityMask(t)
    /\ RunsOn(t) \subseteq {c}

(* The ready lists after the outgoing task went to the end of its list. *)
Requeued(c) ==
    IF IsReady(current[c]) THEN Append(RemoveFirst(ready, current[c]), current[c]) ELSE ready

(* The first of the highest priority in list order; IDLE if there is none. *)
Selected(c) ==
    LET lists == Requeued(c)
        candidates == {k \in 1 .. Len(lists) : MayRunOn(lists[k], c)}
        best(k) == \A j \in candidates :
                      /\ uxPriority(lists[k]) >= uxPriority(lists[j])
                      /\ j < k => uxPriority(lists[k]) > uxPriority(lists[j])
    IN IF candidates = {} THEN IDLE ELSE lists[CHOOSE k \in candidates : best(k)]

(* A ready task that was evicted is offered the cores its successor may    *)
(* not use: the one of least priority is asked to switch.                  *)
EvictionCores(c, evicted, successor) ==
    {d \in uxCoreAffinityMask(evicted) \ uxCoreAffinityMask(successor) :
        ~ yield[d] /\ uxPriority(current[d]) < uxPriority(evicted)}

SwitchContext(c) ==
    /\ yield[c]
    /\ LET t == Selected(c)
           cores == IF t # current[c] /\ IsReady(current[c])
                      THEN EvictionCores(c, current[c], t) ELSE {}
       IN /\ current' = [current EXCEPT ![c] = t]
          /\ yield' = [d \in Cores |->
                 IF d = c THEN FALSE
                 ELSE yield[d] \/ (cores # {} /\ d = WorstCore(cores))]
    /\ signalled' = (signalled \ {c}) \cup SignalledBy(c)
    /\ ready' = Requeued(c)
    /\ UNCHANGED <<xTickCount, delayed, wake, suspended, deleted>>

----------------------------------------------------------------------------
(* The calls of the application. c is the core of the calling task.        *)

(* The first items of the delayed list, those to be woken by a time. *)
DueBy(time) == Max({n \in 0 .. Len(delayed) : \A k \in 1 .. n : wake[delayed[k]] <= time})

(* vTaskDelay and the blocking branch of xTaskDelayUntil; vListInsert puts *)
(* the task behind those of the same or an earlier time.                   *)
DelayUntilTick(c, time) ==
    /\ ready' = RemoveFirst(ready, current[c])
    /\ delayed' = InsertAt(delayed, DueBy(time) + 1, current[c])
    /\ wake' = [wake EXCEPT ![current[c]] = time]
    /\ yield' = [yield EXCEPT ![c] = TRUE]
    /\ UNCHANGED <<xTickCount, suspended, deleted, current, signalled>>

(* taskYIELD_WITHIN_API, the other branch of xTaskDelayUntil. *)
YieldWithinAPI(c) ==
    /\ yield' = [yield EXCEPT ![c] = TRUE]
    /\ UNCHANGED <<xTickCount, ready, delayed, wake, suspended, deleted, current, signalled>>

(* vTaskSuspend of the calling task. *)
SuspendSelf(c) ==
    /\ ready' = RemoveFirst(ready, current[c])
    /\ suspended' = suspended \cup {current[c]}
    /\ yield' = [yield EXCEPT ![c] = TRUE]
    /\ UNCHANGED <<xTickCount, delayed, wake, deleted, current, signalled>>

\* fault: a task that is not suspended is made ready all the same
ResumeAlways(t, c) ==
    /\ suspended' = suspended \ {t}
    /\ ready' = Append(ready, t)
    /\ yield' = YieldForTask(t, yield)
    /\ signalled' = signalled \cup SignalledBy(c)
    /\ UNCHANGED <<xTickCount, delayed, wake, deleted, current>>

(* vTaskResume: without effect on a task that is not suspended. *)
Resume(t, c) ==
    /\ IF t \in suspended
         THEN /\ suspended' = suspended \ {t}
              /\ ready' = Append(ready, t)
              /\ yield' = YieldForTask(t, yield)
         ELSE UNCHANGED <<suspended, ready, yield>>
    /\ signalled' = signalled \cup SignalledBy(c)
    /\ UNCHANGED <<xTickCount, delayed, wake, deleted, current>>

(* vTaskDelete: the task leaves every list; the core it runs on switches.  *)
Delete(t, c) ==
    /\ ready' = RemoveFirst(ready, t)
    /\ delayed' = RemoveFirst(delayed, t)
    /\ suspended' = suspended \ {t}
    /\ deleted' = deleted \cup {t}
    /\ yield' = [d \in Cores |-> yield[d] \/ current[d] = t]
    /\ signalled' = signalled \cup SignalledBy(c)
    /\ UNCHANGED <<xTickCount, wake, current>>

(* The cores asked to switch for the first n tasks of the delayed list. *)
YieldsFor(n) ==
    LET yields[k \in 0 .. n] ==
            IF k = 0 THEN yield ELSE YieldForTask(delayed[k], yields[k - 1])
    IN yields[n]

(* xTaskIncrementTick: due tasks are made ready in list order, then a core *)
(* whose task shares its priority with another ready task is asked to      *)
(* switch. An idle core always is: there is an idle task per core.         *)
(* configTICK_CORE switches when its interrupt ends, the others later.     *)
SharesItsPriority(c, lists) ==
    IF current[c] = IDLE
      THEN configNUMBER_OF_CORES > 1
      ELSE \E k, j \in 1 .. Len(lists) :
              /\ j # k
              /\ uxPriority(lists[k]) = uxPriority(current[c])
              /\ uxPriority(lists[j]) = uxPriority(current[c])

IncrementTick ==
    \E n \in {DueBy(xTickCount + 1)} : \E pending \in {YieldsFor(n)} :
        /\ xTickCount' = xTickCount + 1
        /\ delayed' = SubSeq(delayed, n + 1, Len(delayed))
        /\ ready' = ready \o SubSeq(delayed, 1, n)
        /\ yield' = [c \in Cores |-> pending[c] \/ SharesItsPriority(c, ready')]
        /\ signalled' = signalled \cup SignalledBy(configTICK_CORE)
        /\ UNCHANGED <<wake, suspended, deleted, current>>

----------------------------------------------------------------------------
(* The scheduler this kernel implements.                                   *)

(* The list a task is in, as a task state. *)
TaskState(t) ==
    CASE t \in deleted -> "deleted"
      [] IsReady(t) -> "ready"
      [] \E k \in 1 .. Len(delayed) : delayed[k] = t -> "blocked"
      [] t \in suspended -> "suspended"
      [] OTHER -> "new"

Contract == INSTANCE Scheduler WITH
    Tasks      <- Threads,
    Processors <- Cores,
    Idle       <- IDLE,
    priority   <- [t \in Threads |-> uxPriority(t)],
    affinity   <- [t \in Threads |-> uxCoreAffinityMask(t)],
    state      <- [t \in Threads |-> TaskState(t)],
    running    <- current

----------------------------------------------------------------------------
(* Before vTaskStartScheduler no core runs a task. *)
KernelInit ==
    /\ xTickCount = 0
    /\ ready = <<>>
    /\ delayed = <<>>
    /\ wake = [t \in Threads |-> 0]
    /\ suspended = {}
    /\ deleted = {}
    /\ current = [c \in Cores |-> IDLE]
    /\ yield = [c \in Cores |-> FALSE]
    /\ signalled = {}

(* Tasks in the order of their creation, the monitor first. *)
CreationOrder(created) ==
    LET upTo[n \in 0 .. MAX_NUM_TASKS] ==
            IF n = 0 THEN IF MONITOR \in created THEN <<MONITOR>> ELSE <<>>
            ELSE IF n - 1 \in created THEN Append(upTo[n - 1], n - 1) ELSE upTo[n - 1]
    IN upTo[MAX_NUM_TASKS]

(* vTaskStartScheduler: the created tasks are ready in the order of their  *)
(* creation; every core starts in its idle task, which yields at once.     *)
StartKernel(created) ==
    /\ ready' = CreationOrder(created)
    /\ yield' = [c \in Cores |-> TRUE]
    /\ UNCHANGED <<xTickCount, delayed, wake, suspended, deleted, current, signalled>>

----------------------------------------------------------------------------
(* Properties                                                              *)

(* prvSelectHighestPriorityTask (tasks.c 1005-1265): whatever order the    *)
(* cores switch in, no task is ever executed by two cores, and a task on a *)
(* core has the core in its affinity mask.                                 *)
OneCoreAtATime ==
    \A c \in Cores : current[c] # IDLE =>
        /\ RunsOn(current[c]) = {c}
        /\ c \in uxCoreAffinityMask(current[c])

=============================================================================
