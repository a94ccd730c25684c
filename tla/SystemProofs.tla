---------------------------- MODULE SystemProofs ----------------------------
(***************************************************************************)
(* Theorems about the whole program (module System), for every number of   *)
(* tasks and cores, task table, heap and bound: the boot and, from         *)
(* vTaskStartScheduler on, the periodic tasks and the monitor on the SMP   *)
(* kernel.                                                                 *)
(***************************************************************************)
EXTENDS System, KernelProofs, SplitProofs

Listed(t) == Occurs(t, ready) \/ Occurs(t, delayed) \/ t \in suspended \/ t \in deleted

(* The kernel knows the tasks that were created, and no other. *)
ListedExist == \A t : Listed(t) <=> t \in Existing

Positions ==
    {"entry", "request", "job", "loop", "busy", "check", "resume", "sleep", "spin"}

TasksTyped ==
    /\ at \in [Slots -> Positions]
    /\ last \in [Slots -> Nat]
    /\ left \in [Slots -> Nat]
    /\ counter \in [Slots -> Nat]
    /\ ran \in [Slots -> Nat]
    /\ preempted \in [Slots -> Nat]
    /\ monitor \in {"entry", "verdict", "delete"}
    /\ victim \in Nat
    /\ verdict \in {"none", "ALL TASKS SCHEDULABLE", "NOT SCHEDULABLE"}

(* A turn of the busy loop whose tick has come may be late by that one; no *)
(* turn is credited to a job without a tick that it was on a core for, or  *)
(* a switch that took it off the core.                                     *)
JobInTime(t) ==
    /\ left[t] <= task_list[t].Runtime
    /\ at[t] = "loop" => left[t] = task_list[t].Runtime /\ left[t] >= 1 /\ ran[t] = 0
    /\ at[t] = "check" => task_list[t].Runtime <= ran[t] + preempted[t]
    /\ IF at[t] = "busy"
         THEN /\ left[t] >= 1
              /\ counter[t] <= xTickCount + 1
              /\ ran[t] + left[t] <=
                   task_list[t].Runtime + (IF xTickCount >= counter[t] THEN 1 ELSE 0)
              /\ task_list[t].Runtime +
                   (IF xTickCount >= counter[t] \/ RunsOn(t) = {} THEN 1 ELSE 0)
                   <= ran[t] + preempted[t] + left[t]
         ELSE ran[t] <= task_list[t].Runtime

(* The monitor deletes the tasks in the order of their slots. *)
DeletedInOrder ==
    /\ MONITOR \notin deleted => victim <= MAX_NUM_TASKS
    /\ victim <= MAX_NUM_TASKS + 1
    /\ \A t \in deleted : t # MONITOR => t < victim
    /\ \A t \in Created : t < victim => t \in deleted

RunInv ==
    /\ KernelInv
    /\ ListedExist
    /\ TasksTyped
    /\ \A t \in Slots : JobInTime(t)
    /\ DeletedInOrder

SystemInv ==
    /\ PlacementInv
    /\ HandleInv
    /\ pc # "started" => KernelInit /\ RunInit
    /\ pc = "started" => RunInv

----------------------------------------------------------------------------
(* The boot, and the start of the scheduler.                               *)

(* What the boot leaves to the kernel. *)
LEMMA TCBFacts == PlacementInv => MasksAndPriorities
<1> SUFFICES ASSUME PlacementInv PROVE MasksAndPriorities
  OBVIOUS
<1>1. tcb \in TCBTables
  BY DEF PlacementInv, TypeOK
<1>2. \A t \in Slots : tcb[t].affinity \subseteq Cores /\ tcb[t].uxPriority \in 0 .. configMAX_PRIORITIES - 1
  BY <1>1 DEF TCBTables
<1>3. configMAX_PRIORITIES - 1 \in Nat
  BY ConstantFacts
<1> QED BY <1>2, <1>3 DEF MasksAndPriorities

LEMMA ExistingAreThreads == Existing \in SUBSET Threads
  BY DEF Existing, Created, Threads

(* The table is not touched by the step that starts the scheduler. *)
LEMMA LaunchEffect ==
    ASSUME Launch
    PROVE  /\ UNCHANGED <<tcb, task_list, heap_size>>
           /\ Existing' = Existing
<1>1. pc # "started" /\ Next /\ pc' = "started"
  BY DEF Launch
<1>2. ReportFull \/ StartScheduler
  <2>1. InitTask \/ PreAssign \/ Queue \/ AssignWhole \/ AssignSplit \/ Finished => pc' = pc
    BY DEF InitTask, PreAssign, Queue, AssignWhole, AssignSplit, Finished, vars
  <2>2. Boot \/ InitQueues \/ PreAssignNull \/ PreAssignDone \/ NormalAssignUndefined
          => pc' # "started"
    BY DEF Boot, InitQueues, PreAssignNull, PreAssignDone, NormalAssignUndefined
  <2> QED BY <1>1, <2>1, <2>2 DEF Next
<1>3. UNCHANGED <<tcb, task_list, heap_size>>
  BY <1>2 DEF ReportFull, StartScheduler
<1> QED BY <1>3 DEF Existing, Created

LEMMA BootFacts == SystemNext => [Next]_vars
  BY DEF SystemNext, BootStep, Launch, RunStep, Ended, sysVars

LEMMA SystemInvInit == SystemInit => SystemInv
<1> SUFFICES ASSUME SystemInit PROVE SystemInv
  OBVIOUS
<1>1. Init /\ KernelInit /\ RunInit /\ pc = "boot"
  BY DEF SystemInit, Init
<1> QED BY <1>1, PlacementInit, HandleInit DEF SystemInv

LEMMA LaunchInv == ASSUME SystemInv, Launch PROVE RunInv'
<1> USE ThreadFacts
<1>1. /\ UNCHANGED <<tcb, task_list, heap_size>> /\ Existing' = Existing
      /\ KernelInit /\ RunInit /\ StartKernel(Existing)
      /\ UNCHANGED <<at, last, left, counter, ran, preempted, monitor, victim, verdict>>
  BY LaunchEffect DEF SystemInv, Launch, taskVars, monitorVars
<1>2. /\ KernelInv'
      /\ \A t : Occurs(t, ready)' <=> t \in Existing
      /\ \A t : ~ Occurs(t, delayed)'
      /\ suspended' = {} /\ deleted' = {} /\ xTickCount' = 0
  BY <1>1, ExistingAreThreads, StartEffect
<1>3. ListedExist'
  BY <1>1, <1>2 DEF ListedExist, Listed
<1>4. TasksTyped'
  BY <1>1 DEF RunInit, TasksTyped, Positions
<1>5. ASSUME NEW t \in Slots PROVE JobInTime(t)'
  <2>1. task_list[t].Runtime \in Nat
    BY DEF SystemInv, PlacementInv, TypeOK, TaskInfos
  <2> QED BY <1>1, <2>1 DEF RunInit, JobInTime
<1>6. DeletedInOrder'
  <2>1. victim' = 0 /\ \A t \in Created' : t \in Nat
    BY <1>1 DEF RunInit, Created
  <2>2. \A t \in Created' : ~ (t < victim')
    BY <2>1
  <2> QED BY <1>2, <2>1, <2>2 DEF DeletedInOrder
<1> QED BY <1>2, <1>3, <1>4, <1>5, <1>6 DEF RunInv

----------------------------------------------------------------------------
(* The steps of the tasks and the kernel's lists.                          *)

(* A task that executes is in no list but a ready one; the monitor may     *)
(* have deleted it a moment ago.                                           *)
LEMMA ExecutingFacts ==
    ASSUME RunInv, NEW t \in Threads, NEW c \in Cores, Executes(t, c)
    PROVE  /\ current[c] = t /\ current[c] # IDLE
           /\ Occurs(t, ready) \/ t \in deleted
           /\ ~ Occurs(t, delayed) /\ t \notin suspended
           /\ t \in Existing /\ (t \in Slots => t \in Created)
<1>1. current[c] = t /\ t # IDLE /\ (yield[c] => c \in signalled)
  BY ThreadFacts DEF Executes
<1>2. Occurs(t, ready) \/ t \in deleted
  BY <1>1 DEF RunInv, KernelInv, ExecutingListed, IsReady, Occurs
<1>3. ~ Occurs(t, delayed) /\ t \notin suspended
  BY <1>2 DEF RunInv, KernelInv, OneListEach
<1>4. t \in Existing
  BY <1>2 DEF RunInv, ListedExist, Listed
<1>5. t \in Slots => t \in Created
  BY <1>4, ThreadFacts DEF Existing
<1> QED BY <1>1, <1>2, <1>3, <1>4, <1>5

(* A task whose kernel call is not held up is ready, and was not deleted. *)
LEMMA CallingFacts ==
    ASSUME RunInv, NEW t \in Threads, NEW c \in Cores, Calls(t, c)
    PROVE  /\ Executes(t, c)
           /\ current[c] = t /\ current[c] # IDLE /\ ~ yield[c]
           /\ Occurs(t, ready) /\ ~ Occurs(t, delayed) /\ t \notin suspended /\ t \notin deleted
           /\ t \in Existing /\ (t \in Slots => t \in Created)
<1>1. current[c] = t /\ t # IDLE /\ ~ yield[c] /\ Executes(t, c)
  BY ThreadFacts DEF Calls, Executes
<1>2. Occurs(t, ready)
  BY <1>1 DEF RunInv, KernelInv, CallersReady, IsReady, Occurs
<1>3. t \notin deleted
  BY <1>2 DEF RunInv, KernelInv, OneListEach
<1> QED BY <1>1, <1>2, <1>3, ExecutingFacts

(* The steps of a task between two kernel calls. *)
OwnCode(t, c) == StartJob(t, c) \/ StartLoop(t, c) \/ BusyTurn(t, c) \/ EndJob(t, c)

(* The steps that enter the kernel, and those that do not. *)
LEMMA StepKinds ==
    ASSUME NEW t \in Slots, NEW c \in Cores, TaskStep(t, c)
    PROVE  /\ t \in Threads /\ Executes(t, c)
           /\ Entry(t, c) \/ ResumeTail(t, c) \/ Sleep(t, c) => Calls(t, c)
           /\ Request(t, c) /\ task_list[t].Dependency => Calls(t, c)
           /\ Request(t, c) /\ ~ task_list[t].Dependency => UNCHANGED kernelVars
           /\ OwnCode(t, c) => UNCHANGED kernelVars
<1>1. t \in Threads
  BY DEF Threads
<1>2. Entry(t, c) \/ ResumeTail(t, c) \/ Sleep(t, c) => Calls(t, c)
  BY DEF Entry, ResumeTail, Sleep
<1>3. Request(t, c) /\ task_list[t].Dependency => Calls(t, c)
  BY DEF Request
<1>4. Request(t, c) /\ ~ task_list[t].Dependency => UNCHANGED kernelVars
  BY DEF Request
<1>5. OwnCode(t, c) => UNCHANGED kernelVars
  BY DEF OwnCode, StartJob, StartLoop, BusyTurn, EndJob, kernelVars
<1>6. Calls(t, c) => Executes(t, c)
  BY DEF Calls, Executes
<1>7. Request(t, c) \/ OwnCode(t, c) => Executes(t, c)
  BY DEF Request, OwnCode, StartJob, StartLoop, BusyTurn, EndJob
<1> QED BY <1>1, <1>2, <1>3, <1>4, <1>5, <1>6, <1>7 DEF TaskStep, OwnCode

(* What the monitor deletes: the task of the slot it has come to, or itself. *)
DeletedNow ==
    LET handle == IF victim < MAX_NUM_TASKS THEN task_list[victim].my_ptr ELSE NULL
    IN IF handle = NULL THEN MONITOR ELSE handle

LEMMA DeletedNowFacts ==
    ASSUME HandleInv, RunInv, NEW c \in Cores, MonitorDelete(c)
    PROVE  /\ DeletedNow \in Threads
           /\ DeletedNow \in Existing
           /\ DeletedNow \notin deleted
           /\ Delete(DeletedNow, c)
           /\ DeletedNow # MONITOR => DeletedNow = victim /\ victim < MAX_NUM_TASKS
           /\ victim \in Created => DeletedNow = victim
           /\ victim <= MAX_NUM_TASKS
<1> USE ThreadFacts
<1>1. MONITOR \in Threads /\ MONITOR \in Existing /\ MONITOR \notin deleted
  BY CallingFacts DEF MonitorDelete
<1>2. victim \in Nat /\ victim <= MAX_NUM_TASKS
  BY <1>1 DEF RunInv, TasksTyped, DeletedInOrder
<1>3. Delete(DeletedNow, c)
  BY DEF MonitorDelete, DeletedNow
<1>4. CASE victim < MAX_NUM_TASKS /\ task_list[victim].my_ptr # NULL
  <2>1. victim \in Slots /\ victim # MONITOR
    BY <1>2, <1>4
  <2>2. DeletedNow = victim /\ victim \in Created
    BY <1>4, <2>1 DEF HandleInv, DeletedNow, Created
  <2>3. victim \notin deleted
    <3>1. ~ (victim < victim)
      BY <1>2
    <3> QED BY <2>1, <3>1 DEF RunInv, DeletedInOrder
  <2> QED BY <1>2, <1>3, <1>4, <2>1, <2>2, <2>3 DEF Existing
<1>5. CASE ~ (victim < MAX_NUM_TASKS /\ task_list[victim].my_ptr # NULL)
  <2>1. DeletedNow = MONITOR
    BY <1>5 DEF DeletedNow
  <2>2. victim \notin Created
    BY <1>2, <1>5 DEF Created
  <2> QED BY <1>1, <1>2, <1>3, <2>1, <2>2
<1> QED BY <1>4, <1>5

(* A step that moves t, if anyone, between the lists of the kernel. *)
LEMMA ListedKept ==
    ASSUME ListedExist, Existing' = Existing, NEW t, \A u : u # t => SameLists(u),
           Listed(t), Listed(t)'
    PROVE  ListedExist'
<1>1. \A u : u # t => (Listed(u)' <=> Listed(u))
  BY DEF SameLists, Listed
<1> QED BY <1>1 DEF ListedExist

LEMMA ListedSame ==
    ASSUME ListedExist, Existing' = Existing, \A u : SameLists(u) PROVE ListedExist'
  BY DEF ListedExist, SameLists, Listed

(* What is true of the kernel after a step, whoever took it. *)
KernelKept ==
    /\ KernelInv'
    /\ ListedExist'
    /\ Contract!SchedulerNext \/ UNCHANGED SchedulerVars

LEMMA KernelUntouched ==
    ASSUME RunInv, UNCHANGED vars, UNCHANGED kernelVars PROVE KernelKept
<1>1. UNCHANGED <<tcb, task_list, heap_size>> /\ Existing' = Existing
  BY DEF vars, Existing, Created
<1>2. KernelInv' /\ \A t : SameLists(t)
  <2>1. UNCHANGED <<xTickCount, ready, delayed, suspended, deleted, current, yield, signalled>>
    BY DEF kernelVars
  <2>2. KernelInv'
    BY <1>1, <2>1 DEF RunInv, KernelInv, KernelTyped, OneListEach, OneCoreAtATime,
          CallersReady, ExecutingListed, SignalsPending, RunsOn, IsReady, uxCoreAffinityMask,
          Occurs, Once
  <2> QED BY <2>1, <2>2 DEF SameLists, Occurs
<1>3. UNCHANGED SchedulerVars
  BY <1>1, <1>2, RefinesStutter DEF RunInv, KernelInv, SchedulerVars, kernelVars
<1> QED BY <1>1, <1>2, <1>3, ListedSame DEF KernelKept, RunInv

LEMMA KernelDelay ==
    ASSUME RunInv, UNCHANGED vars, NEW t \in Threads, NEW c \in Cores, Calls(t, c),
           NEW time, DelayUntilTick(c, time)
    PROVE  KernelKept
<1>1. KernelInv /\ ListedExist /\ UNCHANGED tcb /\ Existing' = Existing
  BY DEF RunInv, vars, Existing, Created
<1>2. current[c] = t /\ current[c] # IDLE /\ ~ yield[c] /\ Occurs(t, ready)
  BY CallingFacts
<1>3. /\ KernelInv' /\ \A u : u # t => SameLists(u)
      /\ Occurs(t, delayed)'
  BY <1>1, <1>2, DelayEffect
<1>4. Contract!SchedulerNext
  BY <1>1, <1>2, DelayRefines
<1>5. Listed(t) /\ Listed(t)'
  BY <1>2, <1>3 DEF Listed
<1> QED BY <1>1, <1>3, <1>4, <1>5, ListedKept DEF KernelKept

LEMMA KernelTask ==
    ASSUME RunInv, UNCHANGED vars, NEW t \in Slots, NEW c \in Cores, TaskStep(t, c)
    PROVE  KernelKept
<1>1. KernelInv /\ ListedExist /\ UNCHANGED tcb /\ Existing' = Existing /\ t \in Threads
  BY StepKinds DEF RunInv, vars, Existing, Created
<1>2. Calls(t, c) => current[c] = t /\ current[c] # IDLE /\ ~ yield[c] /\ Occurs(t, ready)
  BY <1>1, CallingFacts
<1>3. CASE Entry(t, c)
  BY <1>1, <1>3, KernelDelay DEF Entry
<1>4. CASE Request(t, c) /\ task_list[t].Dependency
  <2>1. SuspendSelf(c) /\ Calls(t, c)
    BY <1>4 DEF Request
  <2>2. /\ KernelInv' /\ \A u : u # t => SameLists(u)
        /\ suspended' = suspended \cup {t}
    BY <1>1, <1>2, <2>1, SuspendEffect
  <2>3. Contract!SchedulerNext
    BY <1>1, <1>2, <2>1, SuspendRefines
  <2>4. Listed(t) /\ Listed(t)'
    BY <1>2, <2>1, <2>2 DEF Listed
  <2> QED BY <1>1, <2>2, <2>3, <2>4, ListedKept DEF KernelKept
<1>5. CASE OwnCode(t, c) \/ (Request(t, c) /\ ~ task_list[t].Dependency)
  BY <1>5, StepKinds, KernelUntouched
<1>6. CASE ResumeTail(t, c)
  <2>0. PICK s : s = task_list[t].splitted_ptr /\ Resume(s, c)
    BY <1>6 DEF ResumeTail
  <2>1. /\ KernelInv'
        /\ \A u : u # s => SameLists(u)
        /\ s \notin suspended => UNCHANGED <<ready, suspended, yield>>
        /\ s \in suspended => Occurs(s, ready)'
        /\ UNCHANGED <<delayed, deleted>>
    BY <1>1, <2>0, ResumeEffect
  <2>2. Contract!SchedulerNext \/ UNCHANGED SchedulerVars
    BY <1>1, <2>0, ResumeRefines
  <2>3. ListedExist'
    <3>1. CASE s \in suspended
      <4>1. Listed(s) /\ Listed(s)'
        BY <2>1, <3>1 DEF Listed
      <4> QED BY <1>1, <2>1, <4>1, ListedKept
    <3>2. CASE s \notin suspended
      <4>1. \A u : SameLists(u)
        BY <2>1, <3>2 DEF SameLists, Occurs
      <4> QED BY <1>1, <4>1, ListedSame
    <3> QED BY <3>1, <3>2
  <2> QED BY <2>1, <2>2, <2>3 DEF KernelKept
<1>7. CASE Sleep(t, c)
  <2>1. CASE YieldWithinAPI(c)
    <3>1. /\ KernelInv' /\ \A u : SameLists(u)
          /\ UNCHANGED <<xTickCount, ready, delayed, suspended, deleted, current>>
      BY <1>1, <2>1, YieldEffect
    <3>2. UNCHANGED SchedulerVars
      BY <1>1, <3>1, RefinesStutter DEF KernelInv, SchedulerVars
    <3> QED BY <1>1, <3>1, <3>2, ListedSame DEF KernelKept
  <2>2. CASE DelayUntilTick(c, last[t] + task_list[t].Period)
    BY <1>1, <1>7, <2>2, KernelDelay DEF Sleep
  <2> QED BY <1>7, <2>1, <2>2 DEF Sleep
<1> QED BY <1>3, <1>4, <1>5, <1>6, <1>7 DEF TaskStep, OwnCode

LEMMA KernelMonitor ==
    ASSUME PlacementInv, HandleInv, RunInv, UNCHANGED vars, NEW c \in Cores, MonitorStep(c)
    PROVE  KernelKept
<1>1. KernelInv /\ ListedExist /\ UNCHANGED tcb /\ Existing' = Existing
  BY DEF RunInv, vars, Existing, Created
<1>2. CASE MonitorEntry(c)
  <2>1. MONITOR \in Threads /\ Calls(MONITOR, c)
    BY <1>2, ThreadFacts DEF MonitorEntry
  <2> QED BY <1>2, <2>1, KernelDelay DEF MonitorEntry
<1>3. CASE MonitorVerdict(c)
  BY <1>3, KernelUntouched DEF MonitorVerdict, kernelVars
<1>4. CASE MonitorDelete(c)
  <2>1. PICK d \in Threads : d \in Existing /\ d \notin deleted /\ Delete(d, c)
    BY <1>4, DeletedNowFacts
  <2>2. /\ KernelInv' /\ \A u : u # d => SameLists(u)
        /\ deleted' = deleted \cup {d}
    BY <1>1, <2>1, DeleteEffect
  <2>3. Listed(d) /\ Listed(d)'
    BY <1>1, <2>1, <2>2 DEF Listed, ListedExist
  <2>4. Contract!SchedulerNext
    BY <1>1, <2>1, <2>3, DeleteRefines DEF Listed
  <2> QED BY <1>1, <2>2, <2>3, <2>4, ListedKept DEF KernelKept
<1> QED BY <1>2, <1>3, <1>4 DEF MonitorStep

LEMMA KernelTick == ASSUME RunInv, UNCHANGED vars, Tick PROVE KernelKept
<1>1. KernelInv /\ ListedExist /\ UNCHANGED tcb /\ Existing' = Existing /\ IncrementTick
  BY DEF RunInv, vars, Existing, Created, Tick
<1>2. /\ KernelInv'
      /\ \A t : Occurs(t, ready) => Occurs(t, ready)'
      /\ \A t : Occurs(t, ready)' => Occurs(t, ready) \/ Occurs(t, delayed)
      /\ \A t : Occurs(t, delayed) => Occurs(t, ready)' \/ Occurs(t, delayed)'
      /\ \A t : Occurs(t, delayed)' => Occurs(t, delayed)
      /\ UNCHANGED <<suspended, deleted>>
  BY <1>1, TickEffect
<1>3. Contract!SchedulerNext
  BY <1>1, TickRefines
<1>4. ListedExist'
  BY <1>1, <1>2 DEF ListedExist, Listed
<1> QED BY <1>2, <1>3, <1>4 DEF KernelKept

LEMMA KernelSwitch ==
    ASSUME PlacementInv, RunInv, UNCHANGED vars, NEW c \in Cores, Switch(c) PROVE KernelKept
<1>1. /\ KernelInv /\ ListedExist /\ UNCHANGED tcb /\ Existing' = Existing
      /\ MasksAndPriorities /\ SwitchContext(c)
  BY TCBFacts DEF RunInv, vars, Existing, Created, Switch
<1>2. KernelInv' /\ \A t : SameLists(t)
  BY <1>1, SwitchEffect
<1>3. Contract!SchedulerNext
  BY <1>1, SwitchRefines
<1> QED BY <1>1, <1>2, <1>3, ListedSame DEF KernelKept

LEMMA KernelStep ==
    ASSUME PlacementInv, HandleInv, RunInv, UNCHANGED vars, RunNext PROVE KernelKept
  BY KernelTask, KernelMonitor, KernelTick, KernelSwitch DEF RunNext

----------------------------------------------------------------------------
(* The steps of the tasks and their own variables.                         *)

(* Only the tick moves the clock, only the monitor deletes. *)
LEMMA TaskEffect ==
    ASSUME NEW t \in Slots, NEW c \in Cores, TaskStep(t, c)
    PROVE  UNCHANGED <<xTickCount, deleted, monitorVars, current>>
<1>1. CASE Entry(t, c)
  BY <1>1 DEF Entry, DelayUntilTick
<1>2. CASE Request(t, c)
  BY <1>2 DEF Request, SuspendSelf, kernelVars
<1>3. CASE OwnCode(t, c)
  BY <1>3 DEF OwnCode, StartJob, StartLoop, BusyTurn, EndJob, kernelVars
<1>4. CASE ResumeTail(t, c)
  BY <1>4 DEF ResumeTail, Resume
<1>5. CASE Sleep(t, c)
  BY <1>5 DEF Sleep, DelayUntilTick, YieldWithinAPI
<1> QED BY <1>1, <1>2, <1>3, <1>4, <1>5 DEF TaskStep, OwnCode

LEMMA OtherEffect ==
    ASSUME NEW c \in Cores, MonitorStep(c) \/ Switch(c)
    PROVE  /\ UNCHANGED <<xTickCount, at, last, Deadline, left, counter, ran>>
           /\ MonitorStep(c) => UNCHANGED <<taskVars, current>>
<1>1. Switch(c) => UNCHANGED <<xTickCount, at, last, Deadline, left, counter, ran>>
  BY DEF Switch, SwitchContext
<1>2. MonitorEntry(c) => UNCHANGED <<xTickCount, taskVars, current>>
  BY DEF MonitorEntry, DelayUntilTick
<1>3. MonitorVerdict(c) => UNCHANGED <<xTickCount, taskVars, current>>
  BY DEF MonitorVerdict, kernelVars
<1>4. MonitorDelete(c) => UNCHANGED <<xTickCount, taskVars, current>>
  BY DEF MonitorDelete, Delete
<1> QED BY <1>1, <1>2, <1>3, <1>4 DEF MonitorStep, taskVars

LEMMA UpdateTyped ==
    ASSUME NEW S, NEW f \in [Slots -> S], NEW t, NEW v \in S
    PROVE  [f EXCEPT ![t] = v] \in [Slots -> S]
  OBVIOUS

(* Where a step takes the task in its code, whoever else steps. *)
LEMMA Moves ==
    ASSUME NEW t \in Slots, NEW c \in Cores, TaskStep(t, c)
    PROVE  \E l \in Positions :
              /\ at' = [at EXCEPT ![t] = l]
              /\ Entry(t, c) => at[t] = "entry" /\ l = "request"
              /\ Request(t, c) => at[t] = "request" /\ l = "job"
              /\ StartJob(t, c) => at[t] = "job" /\ l \in {"loop", "check", "spin"}
              /\ StartLoop(t, c) => at[t] = "loop" /\ l = "busy"
              /\ BusyTurn(t, c) => at[t] = "busy" /\ l \in {"busy", "check"}
              /\ EndJob(t, c) => at[t] = "check" /\ l \in {"resume", "sleep", "spin"}
              /\ ResumeTail(t, c) => at[t] = "resume" /\ l = "sleep"
              /\ Sleep(t, c) => at[t] = "sleep" /\ l = "request"
<1> DEFINE Goes(S) == \E l \in S : at' = [at EXCEPT ![t] = l]
<1>1. Entry(t, c) => at[t] = "entry" /\ Goes({"request"})
  BY DEF Entry
<1>2. Request(t, c) => at[t] = "request" /\ Goes({"job"})
  BY DEF Request
<1>3. StartJob(t, c) => at[t] = "job" /\ Goes({"loop", "check", "spin"})
  <2> SUFFICES ASSUME StartJob(t, c) PROVE at[t] = "job" /\ Goes({"loop", "check", "spin"})
    OBVIOUS
  <2>1. at[t] = "job" /\ (Overflow(t) \/ Begin(t))
    BY DEF StartJob
  <2>2. Overflow(t) => Goes({"spin"})
    BY DEF Overflow
  <2>3. Begin(t) => Goes({"loop", "check"})
    <3>1. PICK l : l = IF task_list[t].Runtime = 0 THEN "check" ELSE "loop"
      OBVIOUS
    <3>2. l \in {"loop", "check"}
      BY <3>1
    <3>3. Begin(t) => at' = [at EXCEPT ![t] = l]
      BY <3>1 DEF Begin
    <3> QED BY <3>2, <3>3
  <2> QED BY <2>1, <2>2, <2>3
<1>4. StartLoop(t, c) => at[t] = "loop" /\ Goes({"busy"})
  BY DEF StartLoop
<1>5. BusyTurn(t, c) => at[t] = "busy" /\ Goes({"busy", "check"})
  <2>1. PICK l : l = IF left[t] = 1 THEN "check" ELSE "busy"
    OBVIOUS
  <2>2. l \in {"busy", "check"}
    BY <2>1
  <2>3. BusyTurn(t, c) => at[t] = "busy" /\ at' = [at EXCEPT ![t] = l]
    BY <2>1 DEF BusyTurn
  <2> QED BY <2>2, <2>3
<1>6. EndJob(t, c) => at[t] = "check" /\ Goes({"resume", "sleep", "spin"})
  <2>1. PICK l : l = IF task_list[t].splitted_ptr = NULL THEN "sleep" ELSE "resume"
    OBVIOUS
  <2>2. l \in {"sleep", "resume"}
    BY <2>1
  <2>3. EndJob(t, c) => at[t] = "check" /\ (at' = [at EXCEPT ![t] = l] \/ Goes({"spin"}))
    BY <2>1 DEF EndJob, Overflow
  <2> QED BY <2>2, <2>3
<1>7. ResumeTail(t, c) => at[t] = "resume" /\ Goes({"sleep"})
  BY DEF ResumeTail
<1>8. Sleep(t, c) => at[t] = "sleep" /\ Goes({"request"})
  BY DEF Sleep
<1>9. CASE Entry(t, c) \/ Request(t, c) \/ StartLoop(t, c)
  BY <1>1, <1>2, <1>3, <1>4, <1>5, <1>6, <1>7, <1>8, <1>9 DEF Positions
<1>10. CASE StartJob(t, c)
  BY <1>1, <1>2, <1>3, <1>4, <1>5, <1>6, <1>7, <1>8, <1>10 DEF Positions
<1>11. CASE BusyTurn(t, c)
  BY <1>1, <1>2, <1>3, <1>4, <1>5, <1>6, <1>7, <1>8, <1>11 DEF Positions
<1>12. CASE EndJob(t, c)
  BY <1>1, <1>2, <1>3, <1>4, <1>5, <1>6, <1>7, <1>8, <1>12 DEF Positions
<1>13. CASE ResumeTail(t, c) \/ Sleep(t, c)
  BY <1>1, <1>2, <1>3, <1>4, <1>5, <1>6, <1>7, <1>8, <1>13 DEF Positions
<1> QED BY <1>9, <1>10, <1>11, <1>12, <1>13 DEF TaskStep

LEMMA TypedTask ==
    ASSUME PlacementInv, RunInv, NEW t \in Slots, NEW c \in Cores, TaskStep(t, c)
    PROVE  TasksTyped'
<1>1. TasksTyped /\ xTickCount \in Nat
  BY DEF RunInv, KernelInv, KernelTyped
<1>2. task_list[t].Runtime \in Nat /\ task_list[t].Period \in Nat
  BY DEF PlacementInv, TypeOK, TaskInfos
<1>3. UNCHANGED <<monitor, victim, verdict>>
  BY TaskEffect DEF monitorVars
<1>4. last[t] \in Nat /\ left[t] \in Nat
  BY <1>1 DEF TasksTyped
<1>5. at' \in [Slots -> Positions]
  <2>1. PICK l \in Positions : at' = [at EXCEPT ![t] = l]
    BY Moves
  <2> QED BY <1>1, <2>1, UpdateTyped DEF TasksTyped
<1>6. SUFFICES /\ last' \in [Slots -> Nat] /\ left' \in [Slots -> Nat] /\ counter' \in [Slots -> Nat]
               /\ ran' \in [Slots -> Nat] /\ preempted' \in [Slots -> Nat]
  BY <1>1, <1>3, <1>5 DEF TasksTyped
<1>7. /\ last \in [Slots -> Nat] /\ left \in [Slots -> Nat] /\ counter \in [Slots -> Nat]
      /\ ran \in [Slots -> Nat] /\ preempted \in [Slots -> Nat]
  BY <1>1 DEF TasksTyped
<1>8. 0 \in Nat /\ xTickCount + 1 \in Nat /\ last[t] + task_list[t].Period \in Nat
  BY <1>1, <1>2, <1>4
<1>9. CASE Entry(t, c)
  <2>1. last' = [last EXCEPT ![t] = xTickCount] /\ UNCHANGED <<left, counter, ran, preempted>>
    BY <1>9 DEF Entry
  <2> QED BY <1>1, <1>7, <2>1, UpdateTyped
<1>10. CASE Request(t, c) \/ EndJob(t, c) \/ ResumeTail(t, c)
  <2>1. UNCHANGED <<last, left, counter, ran, preempted>>
    BY <1>10 DEF Request, EndJob, Overflow, ResumeTail
  <2> QED BY <1>7, <2>1
<1>11. CASE StartJob(t, c)
  <2>1. CASE Overflow(t)
    <3>1. UNCHANGED <<last, left, counter, ran, preempted>>
      BY <1>11, <2>1 DEF StartJob, Overflow
    <3> QED BY <1>7, <3>1
  <2>2. CASE Begin(t)
    <3>1. /\ left' = [left EXCEPT ![t] = task_list[t].Runtime]
          /\ ran' = [ran EXCEPT ![t] = 0] /\ preempted' = [preempted EXCEPT ![t] = 0]
          /\ UNCHANGED <<last, counter>>
      BY <1>11, <2>2 DEF StartJob, Begin
    <3> QED BY <1>2, <1>7, <1>8, <3>1, UpdateTyped
  <2> QED BY <1>11, <2>1, <2>2 DEF StartJob
<1>12. CASE StartLoop(t, c)
  <2>1. counter' = [counter EXCEPT ![t] = xTickCount + 1] /\ UNCHANGED <<last, left, ran, preempted>>
    BY <1>12 DEF StartLoop
  <2> QED BY <1>7, <1>8, <2>1, UpdateTyped
<1>13. CASE BusyTurn(t, c)
  <2>1. left[t] - 1 \in Nat
    BY <1>4, <1>13 DEF BusyTurn, RunInv, JobInTime
  <2>2. /\ left' = [left EXCEPT ![t] = left[t] - 1]
        /\ counter' = [counter EXCEPT ![t] = xTickCount + 1] /\ UNCHANGED <<last, ran, preempted>>
    BY <1>13 DEF BusyTurn
  <2> QED BY <1>7, <1>8, <2>1, <2>2, UpdateTyped
<1>14. CASE Sleep(t, c)
  <2>1. /\ last' = [last EXCEPT ![t] = last[t] + task_list[t].Period]
        /\ UNCHANGED <<left, counter, ran, preempted>>
    BY <1>14 DEF Sleep
  <2> QED BY <1>7, <1>8, <2>1, UpdateTyped
<1> QED BY <1>9, <1>10, <1>11, <1>12, <1>13, <1>14 DEF TaskStep

LEMMA TypedStep ==
    ASSUME PlacementInv, RunInv, RunNext PROVE TasksTyped'
<1>1. /\ TasksTyped /\ victim \in Nat
      /\ ran \in [Slots -> Nat] /\ preempted \in [Slots -> Nat]
  BY DEF RunInv, TasksTyped
<1>2. CASE \E c \in Cores : Switch(c)
  <2>1. PICK c \in Cores : Switch(c)
    BY <1>2
  <2>2. UNCHANGED <<at, last, left, counter, ran, monitor, victim, verdict>>
    BY <2>1 DEF Switch, monitorVars
  <2>3. preempted' \in [Slots -> Nat]
    <3>1. preempted' = [s \in Slots |->
             IF current[c] = s /\ current'[c] # s /\ at[s] = "busy"
               THEN preempted[s] + 1 ELSE preempted[s]]
      BY <2>1 DEF Switch
    <3>2. \A s \in Slots : preempted[s] \in Nat /\ preempted[s] + 1 \in Nat
      BY <1>1
    <3> QED BY <3>1, <3>2
  <2> QED BY <1>1, <2>2, <2>3 DEF TasksTyped
<1>3. CASE \E c \in Cores : MonitorStep(c)
  <2>1. PICK c \in Cores : MonitorStep(c)
    BY <1>3
  <2>2. UNCHANGED <<at, last, left, counter, ran, preempted>>
    BY <2>1, OtherEffect DEF taskVars
  <2>3. /\ monitor' \in {monitor, "verdict", "delete"}
        /\ victim' = victim \/ victim' = victim + 1
        /\ verdict' \in {verdict, "ALL TASKS SCHEDULABLE", "NOT SCHEDULABLE"}
    BY <2>1 DEF MonitorStep, MonitorEntry, MonitorVerdict, MonitorDelete
  <2>4. victim' \in Nat
    <3>1. victim \in Nat /\ (victim' = victim \/ victim' = victim + 1)
      BY <1>1, <2>3
    <3> QED BY <3>1
  <2>5. /\ monitor' \in {"entry", "verdict", "delete"}
        /\ verdict' \in {"none", "ALL TASKS SCHEDULABLE", "NOT SCHEDULABLE"}
    BY <1>1, <2>3 DEF TasksTyped
  <2> QED BY <1>1, <2>2, <2>4, <2>5 DEF TasksTyped
<1>4. CASE Tick
  <2>1. UNCHANGED <<at, last, left, counter, preempted, monitor, victim, verdict>>
    BY <1>4 DEF Tick, monitorVars
  <2>2. ran' = [s \in Slots |-> IF RunsOn(s) # {} /\ at[s] = "busy" THEN ran[s] + 1 ELSE ran[s]]
    BY <1>4 DEF Tick
  <2>3. ran' \in [Slots -> Nat]
    <3>1. \A s \in Slots : ran[s] \in Nat /\ ran[s] + 1 \in Nat
      BY <1>1
    <3> QED BY <2>2, <3>1
  <2> QED BY <1>1, <2>1, <2>3 DEF TasksTyped
<1> QED BY <1>2, <1>3, <1>4, TypedTask DEF RunNext

(* Periodic_Job: the ticks a task held a core, and the turns it has left. *)
LEMMA JobTask ==
    ASSUME PlacementInv, RunInv, UNCHANGED vars, NEW t \in Slots, NEW c \in Cores,
           TaskStep(t, c), NEW s \in Slots
    PROVE  JobInTime(s)'
<1>1. /\ TasksTyped /\ xTickCount \in Nat /\ UNCHANGED <<xTickCount, task_list, current>>
      /\ JobInTime(s) /\ RunsOn(s)' = RunsOn(s)
  BY TaskEffect DEF RunInv, KernelInv, KernelTyped, vars, RunsOn
<1>2. task_list[s].Runtime \in Nat
  BY DEF PlacementInv, TypeOK, TaskInfos
<1>3. left[s] \in Nat /\ counter[s] \in Nat /\ ran[s] \in Nat /\ preempted[s] \in Nat
  BY <1>1 DEF TasksTyped
<1>4. RunsOn(t) # {}
  BY StepKinds DEF Executes, RunsOn
<1>5. PICK l \in Positions :
         /\ at' = [at EXCEPT ![t] = l]
         /\ Entry(t, c) => at[t] = "entry" /\ l = "request"
         /\ Request(t, c) => at[t] = "request" /\ l = "job"
         /\ StartJob(t, c) => at[t] = "job" /\ l \in {"loop", "check", "spin"}
         /\ EndJob(t, c) => at[t] = "check" /\ l \in {"resume", "sleep", "spin"}
         /\ ResumeTail(t, c) => at[t] = "resume" /\ l = "sleep"
         /\ Sleep(t, c) => at[t] = "sleep" /\ l = "request"
  BY Moves
<1>6. at'[t] = l /\ (s # t => at'[s] = at[s])
  BY <1>1, <1>5 DEF TasksTyped
<1>7. CASE s # t
  <2>1. /\ left'[s] = left[s] /\ counter'[s] = counter[s] /\ ran'[s] = ran[s]
        /\ preempted'[s] = preempted[s]
    BY <1>1, <1>7 DEF TaskStep, Entry, Request, StartJob, StartLoop, BusyTurn, EndJob, ResumeTail,
                      Sleep, Overflow, Begin, TasksTyped
  <2> QED BY <1>1, <1>6, <1>7, <2>1 DEF JobInTime
<1>8. ASSUME s = t, at[t] # "busy", l \notin {"loop", "busy", "check"},
             UNCHANGED <<left, counter, ran, preempted>>
      PROVE  JobInTime(s)'
  BY <1>1, <1>6, <1>8 DEF JobInTime
<1>9. CASE s = t /\ (Entry(t, c) \/ Request(t, c) \/ EndJob(t, c) \/ ResumeTail(t, c) \/ Sleep(t, c))
  <2>1. at[t] # "busy" /\ l \notin {"loop", "busy", "check"}
    BY <1>5, <1>9
  <2>2. UNCHANGED <<left, counter, ran, preempted>>
    BY <1>9 DEF Entry, Request, EndJob, ResumeTail, Sleep, Overflow
  <2> QED BY <1>8, <1>9, <2>1, <2>2
<1>10. CASE s = t /\ StartJob(t, c)
  <2>1. CASE Overflow(t)
    <3>1. UNCHANGED <<left, counter, ran, preempted>> /\ at' = [at EXCEPT ![t] = "spin"]
      BY <1>10, <2>1 DEF StartJob, Overflow
    <3>2. l = "spin" /\ at[t] # "busy"
      BY <1>1, <1>5, <1>6, <1>10, <3>1 DEF TasksTyped
    <3> QED BY <1>8, <1>10, <3>1, <3>2
  <2>2. CASE Begin(t)
    <3>1. /\ left'[t] = task_list[t].Runtime /\ ran'[t] = 0 /\ preempted'[t] = 0
          /\ at'[t] = IF task_list[t].Runtime = 0 THEN "check" ELSE "loop"
      BY <1>1, <2>2 DEF Begin, TasksTyped
    <3> QED BY <1>1, <1>2, <1>10, <3>1 DEF JobInTime
  <2> QED BY <1>10, <2>1, <2>2 DEF StartJob
<1>11. CASE s = t /\ StartLoop(t, c)
  <2>1. /\ at[t] = "loop" /\ at'[t] = "busy" /\ counter'[t] = xTickCount + 1
        /\ left'[t] = left[t] /\ ran'[t] = ran[t] /\ preempted'[t] = preempted[t]
    BY <1>1, <1>11 DEF StartLoop, TasksTyped
  <2> QED BY <1>1, <1>2, <1>3, <1>4, <1>11, <2>1 DEF JobInTime
<1>12. CASE s = t /\ BusyTurn(t, c)
  <2>1. /\ at[t] = "busy" /\ xTickCount >= counter[t]
        /\ left'[t] = left[t] - 1 /\ counter'[t] = xTickCount + 1 /\ ran'[t] = ran[t]
        /\ preempted'[t] = preempted[t]
        /\ at'[t] = IF left[t] = 1 THEN "check" ELSE "busy"
    BY <1>1, <1>12 DEF BusyTurn, TasksTyped
  <2> QED BY <1>1, <1>2, <1>3, <1>4, <1>12, <2>1 DEF JobInTime
<1> QED BY <1>7, <1>9, <1>10, <1>11, <1>12 DEF TaskStep

(* A tick counts for a busy task on a core, which waits for just that tick. *)
LEMMA JobTick ==
    ASSUME PlacementInv, RunInv, UNCHANGED vars, Tick, NEW s \in Slots
    PROVE  JobInTime(s)'
<1>1. /\ TasksTyped /\ xTickCount \in Nat
      /\ UNCHANGED <<task_list, at, left, counter, preempted, current>> /\ JobInTime(s)
      /\ xTickCount' = xTickCount + 1 /\ RunsOn(s)' = RunsOn(s)
  BY DEF RunInv, KernelInv, KernelTyped, vars, Tick, IncrementTick, RunsOn
<1>2. task_list[s].Runtime \in Nat
  BY DEF PlacementInv, TypeOK, TaskInfos
<1>3. left[s] \in Nat /\ counter[s] \in Nat /\ ran[s] \in Nat /\ preempted[s] \in Nat
  BY <1>1 DEF TasksTyped
<1>4. ran'[s] = IF RunsOn(s) # {} /\ at[s] = "busy" THEN ran[s] + 1 ELSE ran[s]
  BY DEF Tick
<1>5. RunsOn(s) # {} /\ at[s] = "busy" => xTickCount < counter[s]
  <2> SUFFICES ASSUME RunsOn(s) # {}, at[s] = "busy" PROVE xTickCount < counter[s]
    OBVIOUS
  <2>1. PICK c \in Cores : current[c] = s
    BY DEF RunsOn
  <2>2. s # IDLE
    BY ThreadFacts
  <2> QED BY <2>1, <2>2 DEF Tick, Waits
<1>6. CASE at[s] # "busy"
  BY <1>1, <1>4, <1>6 DEF JobInTime
<1>7. CASE at[s] = "busy" /\ RunsOn(s) # {}
  BY <1>1, <1>2, <1>3, <1>4, <1>5, <1>7 DEF JobInTime
<1>8. CASE at[s] = "busy" /\ RunsOn(s) = {}
  BY <1>1, <1>2, <1>3, <1>4, <1>8 DEF JobInTime
<1> QED BY <1>6, <1>7, <1>8

(* A task that is switched out of its busy loop may be credited a tick. *)
LEMMA JobSwitch ==
    ASSUME PlacementInv, RunInv, UNCHANGED vars, NEW c \in Cores, Switch(c), NEW s \in Slots
    PROVE  JobInTime(s)'
<1>1. /\ TasksTyped /\ xTickCount \in Nat
      /\ UNCHANGED <<task_list, at, left, counter, ran, xTickCount>> /\ JobInTime(s)
      /\ current \in [Cores -> Threads \cup {IDLE}]
  BY OtherEffect DEF RunInv, KernelInv, KernelTyped, vars
<1>2. task_list[s].Runtime \in Nat
  BY DEF PlacementInv, TypeOK, TaskInfos
<1>3. left[s] \in Nat /\ counter[s] \in Nat /\ ran[s] \in Nat /\ preempted[s] \in Nat
  BY <1>1 DEF TasksTyped
<1>4. preempted'[s] = IF current[c] = s /\ current'[c] # s /\ at[s] = "busy"
                        THEN preempted[s] + 1 ELSE preempted[s]
  BY DEF Switch
<1>5. RunsOn(s)' = {} => RunsOn(s) = {} \/ (current[c] = s /\ current'[c] # s)
  <2>1. \A d \in Cores : d # c => current'[d] = current[d]
    BY <1>1 DEF Switch, SwitchContext
  <2> QED BY <2>1 DEF RunsOn
<1>6. CASE at[s] # "busy"
  BY <1>1, <1>4, <1>6 DEF JobInTime
<1>7. CASE at[s] = "busy" /\ current[c] = s /\ current'[c] # s
  BY <1>1, <1>2, <1>3, <1>4, <1>7 DEF JobInTime
<1>8. CASE at[s] = "busy" /\ ~ (current[c] = s /\ current'[c] # s)
  <2>1. preempted'[s] = preempted[s] /\ (RunsOn(s)' = {} => RunsOn(s) = {})
    BY <1>4, <1>5, <1>8
  <2> QED BY <1>1, <1>2, <1>3, <1>8, <2>1 DEF JobInTime
<1> QED BY <1>6, <1>7, <1>8

LEMMA JobStep ==
    ASSUME PlacementInv, RunInv, UNCHANGED vars, RunNext, NEW s \in Slots PROVE JobInTime(s)'
<1>1. CASE \E c \in Cores : MonitorStep(c)
  <2>1. UNCHANGED <<xTickCount, taskVars, task_list, current>>
    BY <1>1, OtherEffect DEF vars
  <2> QED BY <2>1 DEF RunInv, JobInTime, taskVars, RunsOn
<1> QED BY <1>1, JobTask, JobTick, JobSwitch DEF RunNext

LEMMA DeletedStep ==
    ASSUME HandleInv, RunInv, UNCHANGED vars, RunNext PROVE DeletedInOrder'
<1> USE ThreadFacts
<1>1. DeletedInOrder /\ victim \in Nat /\ Created' = Created
  BY DEF RunInv, TasksTyped, vars, Created
<1>2. CASE UNCHANGED <<deleted, victim>>
  BY <1>1, <1>2 DEF DeletedInOrder
<1>3. CASE \E c \in Cores : MonitorDelete(c)
  <2>1. PICK c \in Cores : MonitorDelete(c)
    BY <1>3
  <2>2. PICK d : d = DeletedNow
    OBVIOUS
  <2>3. /\ Delete(d, c)
        /\ d # MONITOR => d = victim /\ victim < MAX_NUM_TASKS
        /\ victim \in Created => d = victim
        /\ victim <= MAX_NUM_TASKS
    BY <2>1, <2>2, DeletedNowFacts
  <2>4. deleted' = deleted \cup {d} /\ victim' = victim + 1
    BY <2>1, <2>3 DEF Delete, MonitorDelete
  <2>5. \A t \in deleted : t # MONITOR => t < victim
    BY <1>1 DEF DeletedInOrder
  <2>6. deleted \subseteq Threads
    BY DEF RunInv, KernelInv, KernelTyped
  <2>7. MONITOR \notin deleted' => victim' <= MAX_NUM_TASKS
    BY <1>1, <2>3, <2>4
  <2>8. victim' <= MAX_NUM_TASKS + 1
    BY <1>1, <2>3, <2>4
  <2>9. ASSUME NEW t \in deleted', t # MONITOR PROVE t < victim'
    <3>1. t \in deleted \/ t = d
      BY <2>4
    <3>2. t \in deleted => t < victim /\ t \in Nat
      BY <2>5, <2>6, <2>9
    <3> QED BY <1>1, <2>3, <2>4, <2>9, <3>1, <3>2
  <2>10. ASSUME NEW t \in Created', t < victim' PROVE t \in deleted'
    <3>1. t \in Nat /\ t \in Created
      BY <1>1 DEF Created
    <3>2. t < victim \/ t = victim
      BY <1>1, <2>4, <2>10, <3>1
    <3> QED BY <1>1, <2>3, <2>4, <3>1, <3>2 DEF DeletedInOrder
  <2> QED BY <2>7, <2>8, <2>9, <2>10 DEF DeletedInOrder
<1>4. CASE \E t \in Slots, c \in Cores : TaskStep(t, c)
  <2>1. UNCHANGED <<deleted, victim>>
    BY <1>4, TaskEffect DEF monitorVars
  <2> QED BY <1>2, <2>1
<1>5. CASE Tick \/ \E c \in Cores : Switch(c) \/ MonitorEntry(c) \/ MonitorVerdict(c)
  <2>1. UNCHANGED <<deleted, victim>>
    BY <1>5 DEF Tick, IncrementTick, monitorVars, Switch, SwitchContext, MonitorEntry,
                DelayUntilTick, MonitorVerdict, kernelVars
  <2> QED BY <1>2, <2>1
<1> QED BY <1>3, <1>4, <1>5 DEF RunNext, MonitorStep

LEMMA RunInvStep ==
    ASSUME PlacementInv, HandleInv, RunInv, UNCHANGED vars, RunNext PROVE RunInv'
<1>1. KernelInv' /\ ListedExist'
  BY KernelStep DEF KernelKept
<1>2. \A s \in Slots : JobInTime(s)'
  BY JobStep
<1> QED BY <1>1, <1>2, TypedStep, DeletedStep DEF RunInv

LEMMA RunInvStutter == ASSUME RunInv, UNCHANGED sysVars PROVE RunInv'
<1>1. UNCHANGED vars /\ UNCHANGED kernelVars
  BY DEF sysVars, runVars
<1>2. KernelInv' /\ ListedExist'
  BY <1>1, KernelUntouched DEF KernelKept
<1>3. UNCHANGED <<at, last, left, counter, ran, preempted, monitor, victim, verdict, deleted,
                  xTickCount, current, task_list>>
  BY DEF sysVars, runVars, taskVars, monitorVars, kernelVars, vars
<1>4. Created' = Created
  BY <1>3 DEF Created
<1>5. TasksTyped' /\ DeletedInOrder' /\ \A s \in Slots : JobInTime(s)'
  BY <1>3, <1>4 DEF RunInv, TasksTyped, DeletedInOrder, JobInTime, RunsOn
<1> QED BY <1>2, <1>5 DEF RunInv

LEMMA SystemInvStep == SystemInv /\ [SystemNext]_sysVars => SystemInv'
<1> SUFFICES ASSUME SystemInv, [SystemNext]_sysVars PROVE SystemInv'
  OBVIOUS
<1>1. [Next]_vars
  BY BootFacts DEF sysVars
<1>2. PlacementInv' /\ HandleInv'
  BY <1>1, PlacementStep, HandleStep DEF SystemInv
<1>3. CASE BootStep
  <2>1. pc' # "started" /\ UNCHANGED runVars
    BY <1>3 DEF BootStep
  <2>2. pc # "started"
    <3> SUFFICES ASSUME pc = "started" PROVE pc' = "started"
      BY <2>1
    <3>1. Next
      BY <1>3 DEF BootStep
    <3> QED BY <3>1 DEF Next, Boot, InitTask, InitQueues, PreAssign, PreAssignNull, Queue,
              PreAssignDone, AssignWhole, AssignSplit, ReportFull, NormalAssignUndefined,
              StartScheduler, Finished, InNormalAssign, vars
  <2>3. KernelInit' /\ RunInit'
    BY <2>1, <2>2 DEF SystemInv, KernelInit, RunInit, runVars, kernelVars, taskVars, monitorVars
  <2> QED BY <1>2, <2>1, <2>3 DEF SystemInv
<1>4. CASE Launch
  <2>1. RunInv' /\ pc' = "started"
    BY <1>4, LaunchInv DEF Launch
  <2> QED BY <1>2, <2>1 DEF SystemInv
<1>5. CASE RunStep
  <2>1. pc = "started" /\ UNCHANGED vars /\ RunNext /\ UNCHANGED pc
    BY <1>5 DEF RunStep, vars
  <2> QED BY <1>2, <2>1, RunInvStep DEF SystemInv
<1>6. CASE Ended \/ UNCHANGED sysVars
  <2>1. UNCHANGED sysVars /\ UNCHANGED pc /\ UNCHANGED runVars
    BY <1>6 DEF Ended, sysVars, vars
  <2>2. CASE pc = "started"
    BY <1>2, <2>1, <2>2, RunInvStutter DEF SystemInv
  <2>3. CASE pc # "started"
    BY <1>2, <2>1, <2>3 DEF SystemInv, KernelInit, RunInit, runVars, kernelVars, taskVars,
                            monitorVars
  <2> QED BY <2>2, <2>3
<1> QED BY <1>3, <1>4, <1>5, <1>6 DEF SystemNext

LEMMA SystemInvariant == SystemSpec => []SystemInv
  BY SystemInvInit, SystemInvStep, PTL DEF SystemSpec

----------------------------------------------------------------------------
(* The theorems.                                                           *)

LEMMA TypeOfInv == SystemInv => RunTypeOK
<1> USE ThreadFacts
<1> SUFFICES ASSUME SystemInv PROVE RunTypeOK
  OBVIOUS
<1>1. \A s \in Slots : task_list[s].Runtime \in Nat
  BY DEF SystemInv, PlacementInv, TypeOK, TaskInfos
<1>2. CASE pc # "started"
  <2>1. KernelInit /\ RunInit
    BY <1>2 DEF SystemInv
  <2>2. \A s \in Slots : left[s] \in 0 .. task_list[s].Runtime
    BY <1>1, <2>1 DEF RunInit
  <2> QED BY <1>2, <2>1, <2>2 DEF KernelInit, RunInit, RunTypeOK
<1>3. CASE pc = "started"
  <2>1. RunInv
    BY <1>3 DEF SystemInv
  <2>2. /\ xTickCount \in Nat
        /\ current \in [Cores -> Threads \cup {IDLE}]
        /\ yield \in [Cores -> BOOLEAN]
        /\ signalled \subseteq {c \in Cores : yield[c]}
        /\ ready \in Seq(Threads) /\ delayed \in Seq(Threads)
        /\ Once(ready) /\ Once(delayed)
    BY <2>1 DEF RunInv, KernelInv, KernelTyped, OneListEach, SignalsPending
  <2>3. /\ at \in [Slots -> Positions]
        /\ monitor \in {"entry", "verdict", "delete"}
        /\ verdict \in {"none", "ALL TASKS SCHEDULABLE", "NOT SCHEDULABLE"}
    BY <2>1 DEF RunInv, TasksTyped
  <2>4. \A s \in Slots : left[s] \in 0 .. task_list[s].Runtime
    <3>1. left \in [Slots -> Nat] /\ \A s \in Slots : left[s] <= task_list[s].Runtime
      BY <2>1 DEF RunInv, TasksTyped, JobInTime
    <3> QED BY <1>1, <3>1
  <2>5. victim \in 0 .. MAX_NUM_TASKS + 1
    <3>1. victim \in Nat /\ victim <= MAX_NUM_TASKS + 1
      BY <2>1 DEF RunInv, TasksTyped, DeletedInOrder
    <3> QED BY <3>1
  <2>6. ASSUME NEW t \in Existing
        PROVE  LET occurrences(list) == Cardinality({k \in 1 .. Len(list) : list[k] = t})
                   in(set) == IF t \in set THEN 1 ELSE 0
               IN occurrences(ready) + occurrences(delayed) + in(suspended) + in(deleted) = 1
    <3>1. /\ Cardinality({k \in 1 .. Len(ready) : ready[k] = t}) = IF Occurs(t, ready) THEN 1 ELSE 0
          /\ Cardinality({k \in 1 .. Len(delayed) : delayed[k] = t}) = IF Occurs(t, delayed) THEN 1 ELSE 0
      BY <2>2, OccurrenceCount
    <3>2. Occurs(t, ready) \/ Occurs(t, delayed) \/ t \in suspended \/ t \in deleted
      BY <2>1 DEF RunInv, ListedExist, Listed
    <3>3. /\ Occurs(t, ready) => ~ Occurs(t, delayed) /\ t \notin suspended /\ t \notin deleted
          /\ Occurs(t, delayed) => t \notin suspended /\ t \notin deleted
          /\ t \in suspended => t \notin deleted
      BY <2>1 DEF RunInv, KernelInv, OneListEach
    <3> QED BY <3>1, <3>2, <3>3
  <2> QED BY <2>2, <2>3, <2>4, <2>5, <2>6 DEF RunTypeOK, Positions
<1> QED BY <1>2, <1>3

(* For every set of tasks, heap and number of cores: from the boot on the  *)
(* kernel and the tasks stay within their ranges, and a task that exists   *)
(* is at any moment in exactly one list of the kernel, and once.           *)
THEOREM RunTyping == SystemSpec => []RunTypeOK
  BY SystemInvariant, TypeOfInv, PTL

LEMMA CoresOfInv == SystemInv => OneCoreAtATime
<1> SUFFICES ASSUME SystemInv PROVE OneCoreAtATime
  OBVIOUS
<1>1. CASE pc # "started"
  BY <1>1 DEF SystemInv, KernelInit, OneCoreAtATime
<1>2. CASE pc = "started"
  BY <1>2 DEF SystemInv, RunInv, KernelInv
<1> QED BY <1>1, <1>2

(* In whatever order the cores switch, no task is executed by two cores,   *)
(* and none by a core that is not in its affinity mask                     *)
(* (prvSelectHighestPriorityTask).                                         *)
THEOREM TasksKeepToOneCore == SystemSpec => []OneCoreAtATime
  BY SystemInvariant, CoresOfInv, PTL

LEMMA RuntimeOfInv == SystemInv => JobTakesItsRuntime
<1> SUFFICES ASSUME SystemInv, NEW t \in Slots
             PROVE  /\ ran[t] <= task_list[t].Runtime
                    /\ at[t] = "check" => ran[t] + preempted[t] >= task_list[t].Runtime
  BY DEF JobTakesItsRuntime
<1>1. task_list[t].Runtime \in Nat
  BY DEF SystemInv, PlacementInv, TypeOK, TaskInfos
<1>2. CASE pc # "started"
  BY <1>1, <1>2 DEF SystemInv, RunInit
<1>3. CASE pc = "started"
  <2>1. /\ left[t] \in Nat /\ ran[t] \in Nat /\ preempted[t] \in Nat /\ counter[t] \in Nat
        /\ xTickCount \in Nat /\ JobInTime(t)
    BY <1>3 DEF SystemInv, RunInv, TasksTyped, KernelInv, KernelTyped
  <2> QED BY <1>1, <2>1 DEF JobInTime
<1> QED BY <1>2, <1>3

(* Periodic_Job, for any table, any number of cores and also after a boot  *)
(* that gave up half-way: no job ever holds a core for more ticks than the *)
(* Runtime of its task, and a job that comes out of the busy loop has held *)
(* one for all of them but at most one for each time it was preempted,     *)
(* however late a core takes the switch it was asked for.                  *)
THEOREM JobsTakeTheirRuntime == SystemSpec => []JobTakesItsRuntime
  BY SystemInvariant, RuntimeOfInv, PTL

(* What a step does to where a task is in its code. *)
LEMMA WhoMoved ==
    ASSUME SystemInv, [SystemNext]_sysVars, NEW t \in Slots, at'[t] # at[t]
    PROVE  RunInv /\ \E c \in Cores : TaskStep(t, c)
<1>1. CASE Ended \/ BootStep \/ Launch \/ UNCHANGED sysVars
  <2>1. UNCHANGED at
    BY <1>1 DEF Ended, BootStep, Launch, sysVars, runVars, taskVars
  <2> QED BY <2>1
<1>2. CASE RunStep
  <2>1. RunInv /\ RunNext
    BY <1>2 DEF RunStep, SystemInv
  <2>2. CASE Tick \/ \E c \in Cores : Switch(c) \/ MonitorStep(c)
    <3>1. UNCHANGED at
      BY <2>2, OtherEffect DEF taskVars, Tick
    <3> QED BY <3>1
  <2>3. CASE \E u \in Slots, c \in Cores : TaskStep(u, c)
    <3>1. PICK u \in Slots, c \in Cores : TaskStep(u, c)
      BY <2>3
    <3>2. \E l \in Positions : at' = [at EXCEPT ![u] = l]
      BY <3>1, Moves
    <3>3. u = t
      BY <2>1, <3>2 DEF RunInv, TasksTyped
    <3> QED BY <2>1, <3>1, <3>3
  <2> QED BY <2>1, <2>2, <2>3 DEF RunNext
<1> QED BY <1>1, <1>2 DEF SystemNext

(* vTaskDelete by the monitor, whatever the other cores are doing: from    *)
(* then on no core switches to the task, and none of its kernel calls      *)
(* takes effect, although it may still execute its own code until the      *)
(* interrupt of its core arrives.                                          *)
THEOREM DeletedTasksEnd == SystemSpec => DeletedTasksStop
<1>1. ASSUME SystemInv, [SystemNext]_sysVars, NEW t \in Slots, t \in deleted
      PROVE  /\ \A c \in Cores : current'[c] = t => current[c] = t
             /\ \/ at[t] \in {"entry", "resume", "sleep"}
                \/ at[t] = "request" /\ task_list[t].Dependency
                => at'[t] = at[t]
  <2>1. t \in Threads /\ t # IDLE
    BY ThreadFacts
  <2>2. ASSUME NEW c \in Cores, current'[c] = t PROVE current[c] = t
    <3>1. CASE UNCHANGED current
      BY <2>2, <3>1
    <3>2. CASE RunStep /\ \E d \in Cores : Switch(d)
      <4>0. PICK d \in Cores : SwitchContext(d)
        BY <3>2 DEF Switch
      <4>1. RunInv /\ KernelInv /\ MasksAndPriorities /\ SwitchContext(d)
        BY <1>1, <3>2, <4>0, TCBFacts DEF RunStep, SystemInv, RunInv
      <4>2. current' = [current EXCEPT ![d] = Selected(d)] /\ current \in [Cores -> Threads \cup {IDLE}]
        BY <4>1 DEF SwitchContext, KernelInv, KernelTyped
      <4>3. Selected(d) # t
        <5>1. ~ Occurs(t, ready)
          BY <1>1, <4>1 DEF KernelInv, OneListEach
        <5>2. Selected(d) = IDLE \/ Occurs(Selected(d), ready)
          BY <4>1, SelectedIsBest
        <5> QED BY <2>1, <5>1, <5>2
      <4> QED BY <2>2, <4>2, <4>3
    <3>3. CASE RunStep /\ ~ \E d \in Cores : Switch(d)
      <4>1. UNCHANGED current
        BY <3>3, TaskEffect, OtherEffect DEF RunStep, RunNext, Tick, IncrementTick
      <4> QED BY <3>1, <4>1
    <3>4. CASE BootStep \/ Launch \/ Ended \/ UNCHANGED sysVars
      <4>1. UNCHANGED current
        BY <3>4 DEF BootStep, Launch, StartKernel, Ended, sysVars, runVars, kernelVars
      <4> QED BY <3>1, <4>1
    <3> QED BY <1>1, <3>2, <3>3, <3>4 DEF SystemNext
  <2>3. ASSUME \/ at[t] \in {"entry", "resume", "sleep"}
               \/ at[t] = "request" /\ task_list[t].Dependency,
               at'[t] # at[t]
        PROVE  FALSE
    <3>1. RunInv /\ \E c \in Cores : TaskStep(t, c)
      BY <1>1, <2>3, WhoMoved
    <3>2. PICK c \in Cores : TaskStep(t, c)
      BY <3>1
    <3>3. Calls(t, c)
      <4>1. \/ Entry(t, c) \/ ResumeTail(t, c) \/ Sleep(t, c)
            \/ Request(t, c) /\ task_list[t].Dependency
        BY <2>3, <3>2, Moves DEF TaskStep
      <4> QED BY <3>2, <4>1, StepKinds
    <3> QED BY <1>1, <2>1, <3>1, <3>3, CallingFacts
  <2> QED BY <2>2, <2>3
<1>2. SystemInv /\ [SystemNext]_sysVars =>
        [\A t \in Slots \cap deleted :
            /\ \A c \in Cores : current'[c] = t => current[c] = t
            /\ \/ at[t] \in {"entry", "resume", "sleep"}
               \/ at[t] = "request" /\ task_list[t].Dependency
               => at'[t] = at[t]]_sysVars
  BY <1>1
<1> QED
  BY <1>2, SystemInvariant, PTL DEF SystemSpec, DeletedTasksStop

(* While the monitor deletes the tasks one by one and the other cores go   *)
(* on, a body never resumes a tail that is gone: the body, in an earlier   *)
(* slot, was deleted before.                                               *)
THEOREM ResumedTasksExist == SystemSpec => ResumedTaskExists
<1>1. SystemInv /\ [SystemNext]_sysVars =>
        [\A t \in Slots :
            at[t] = "resume" /\ at'[t] = "sleep" => task_list[t].splitted_ptr \notin deleted]_sysVars
  <2> SUFFICES ASSUME SystemInv, [SystemNext]_sysVars, NEW t \in Slots,
                      at[t] = "resume", at'[t] = "sleep",
                      task_list[t].splitted_ptr \in deleted
               PROVE  FALSE
    OBVIOUS
  <2> DEFINE s == task_list[t].splitted_ptr
  <2>1. RunInv /\ \E c \in Cores : Calls(t, c)
    <3>1. RunInv /\ \E c \in Cores : TaskStep(t, c)
      BY WhoMoved
    <3> QED BY <3>1, Moves, StepKinds DEF TaskStep
  <2>2. t \notin deleted /\ t \in Created
    BY <2>1, CallingFacts, ThreadFacts
  <2>3. s \in Slots \cup {NULL} /\ s # NULL /\ s \in Slots /\ s # MONITOR
    <3>1. s \in Slots \cup {NULL}
      BY DEF SystemInv, PlacementInv, TypeOK, TaskInfos
    <3>2. deleted \subseteq Threads
      BY <2>1 DEF RunInv, KernelInv, KernelTyped
    <3> QED BY <3>1, <3>2, ThreadFacts DEF IDLE
  <2>4. t < s
    BY <2>3 DEF SystemInv, HandleInv, TailOf
  <2>5. s < victim /\ victim \in Nat
    BY <2>1, <2>3 DEF RunInv, TasksTyped, DeletedInOrder
  <2>6. t < victim
    BY <2>3, <2>4, <2>5, ThreadFacts
  <2> QED BY <2>1, <2>2, <2>6 DEF RunInv, DeletedInOrder
<1> QED
  BY <1>1, SystemInvariant, PTL DEF SystemSpec, ResumedTaskExists

(* Whatever its lists, ticks and pending yields do, the FreeRTOS kernel as *)
(* this program uses it implements the abstract fixed-priority scheduler:  *)
(* a core only switches to an eligible task of the highest priority, the   *)
(* tick wakes no suspended or deleted task, only a task on a core goes to  *)
(* sleep.                                                                  *)
THEOREM KernelImplementsScheduler == SystemSpec => ImplementsScheduler
<1>1. SystemInit => Contract!SchedulerInit
  <2> SUFFICES ASSUME SystemInit PROVE Contract!SchedulerInit
    OBVIOUS
  <2>1. /\ ready = <<>> /\ delayed = <<>> /\ suspended = {} /\ deleted = {}
        /\ current = [c \in Cores |-> IDLE]
    BY DEF SystemInit, KernelInit
  <2>2. \A t \in Threads : TaskState(t) = "new"
    BY <2>1 DEF TaskState, IsReady
  <2> QED BY <2>1, <2>2 DEF Contract!SchedulerInit
<1>2. SystemInv /\ [SystemNext]_sysVars => [Contract!SchedulerNext]_SchedulerVars
  <2> SUFFICES ASSUME SystemInv, [SystemNext]_sysVars
               PROVE  Contract!SchedulerNext \/ UNCHANGED SchedulerVars
    OBVIOUS
  <2>1. CASE BootStep
    <3>1. UNCHANGED kernelVars /\ KernelInit
      <4>1. pc # "started"
        <5>1. Next /\ pc' # "started"
          BY <2>1 DEF BootStep
        <5> QED BY <5>1 DEF Next, Boot, InitTask, InitQueues, PreAssign, PreAssignNull, Queue,
              PreAssignDone, AssignWhole, AssignSplit, ReportFull, NormalAssignUndefined,
              StartScheduler, Finished, InNormalAssign, vars
      <4> QED BY <2>1, <4>1 DEF BootStep, SystemInv, runVars
    <3>2. \A t \in Threads : TaskState(t) = "new" /\ TaskState(t)' = "new"
      BY <3>1 DEF KernelInit, kernelVars, TaskState, IsReady
    <3>3. Contract!Configure
      BY <3>1, <3>2 DEF Contract!Configure, kernelVars
    <3> QED BY <3>3 DEF Contract!SchedulerNext
  <2>2. CASE Launch
    <3>1. KernelInit /\ UNCHANGED tcb /\ StartKernel(Existing)
      BY <2>2, LaunchEffect DEF SystemInv, Launch
    <3>2. PICK created \in SUBSET Threads : StartKernel(created)
      BY <3>1, ExistingAreThreads
    <3> QED BY <3>1, <3>2, StartRefines
  <2>3. CASE RunStep
    <3>1. PlacementInv /\ HandleInv /\ RunInv /\ UNCHANGED vars /\ RunNext
      BY <2>3 DEF SystemInv, RunStep
    <3> QED BY <3>1, KernelStep DEF KernelKept
  <2>4. CASE Ended \/ UNCHANGED sysVars
    <3>1. UNCHANGED <<tcb, ready, delayed, suspended, deleted, current>>
      BY <2>4 DEF Ended, sysVars, vars, runVars, kernelVars
    <3>2. [t \in Threads |-> TaskState(t)]' = [t \in Threads |-> TaskState(t)]
      BY <3>1 DEF TaskState, IsReady
    <3> QED BY <3>1, <3>2, SameTCBs DEF SchedulerVars
  <2> QED BY <2>1, <2>2, <2>3, <2>4 DEF SystemNext
<1> QED
  BY <1>1, <1>2, SystemInvariant, PTL
     DEF SystemSpec, ImplementsScheduler, Contract!SchedulerSpec, SchedulerVars

----------------------------------------------------------------------------
(* The body and the tail of a split task.                                  *)

Multiple(x, P) == \E k \in Nat : x = k * P

(* At the first tick of all, the tasks that are still to enter are ready,  *)
(* and a ready task that no core executes finds no core idle for good.     *)
FirstTick ==
    xTickCount = 0 =>
        /\ suspended = {} /\ deleted = {}
        /\ \A t \in Created : Occurs(t, ready) => at[t] = "entry"
        /\ \A t \in Created : at[t] = "entry" => Occurs(t, ready)
        /\ Occurs(MONITOR, ready) => monitor = "entry"
        /\ \A c \in Cores : yield[c] => ~ Occurs(current[c], ready)
        /\ \A t : Occurs(t, ready) =>
              RunsOn(t) # {} \/ \A c \in uxCoreAffinityMask(t) : yield[c] \/ current[c] # IDLE

(* Requests come at the multiples of the period; all tasks start together. *)
RequestTimes ==
    \A s \in Slots :
        /\ Multiple(last[s], task_list[s].Period)
        /\ at[s] = "entry" => last[s] = 0
        /\ at[s] = "entry" /\ s \in Created => xTickCount = 0
        /\ Occurs(s, delayed) => at[s] = "request"

(* Not started on its request yet, or started on it. A tail that the       *)
(* monitor deletes may still go on with its own code, if it was on a core. *)
Live(s) == Occurs(s, ready) \/ \E c \in Cores : Executes(s, c)
BeforeJob(s) == at[s] \in {"entry", "request"} \/ (at[s] = "job" /\ s \in suspended)
InJob(s) ==
    at[s] \in {"loop", "busy", "check", "resume", "sleep"} \/ (at[s] = "job" /\ Live(s))

(* The request that the next hand-over of t belongs to. *)
NextEnd(t) == IF at[t] = "sleep" THEN last[t] + task_list[t].Period ELSE last[t]

(* A tail that waits will be resumed for its own request or a later one; a *)
(* tail that was resumed has a body that is done with that request.        *)
InTurn(t, s) ==
    /\ BeforeJob(s) => last[s] <= NextEnd(t)
    /\ InJob(s) => last[t] > last[s] \/ (last[t] = last[s] /\ at[t] = "sleep")

HandOverInv ==
    pc = "started" =>
        /\ FirstTick
        /\ RequestTimes
        /\ \A t, s \in Slots : task_list[t].splitted_ptr = s => InTurn(t, s)

LEMMA NextMultiple ==
    ASSUME NEW P \in Nat, P > 0, NEW x, NEW y, Multiple(x, P), Multiple(y, P), x > y
    PROVE  x >= y + P
<1>1. PICK k \in Nat : x = k * P
  BY DEF Multiple
<1>2. PICK j \in Nat : y = j * P
  BY DEF Multiple
<1>3. k * P \in Nat /\ j * P \in Nat /\ (j + 1) * P = j * P + P
  OBVIOUS
<1>4. k <= j => k * P <= j * P
  OBVIOUS
<1>5. k >= j + 1
  BY <1>1, <1>2, <1>3, <1>4
<1>6. k * P >= (j + 1) * P
  BY <1>5
<1> QED BY <1>1, <1>2, <1>3, <1>6

LEMMA MultipleFacts ==
    ASSUME NEW P \in Nat
    PROVE  /\ Multiple(0, P)
           /\ \A x : Multiple(x, P) => Multiple(x + P, P)
<1>1. Multiple(0, P)
  <2>1. 0 = 0 * P /\ 0 \in Nat
    OBVIOUS
  <2> QED BY <2>1 DEF Multiple
<1>2. ASSUME NEW x, Multiple(x, P) PROVE Multiple(x + P, P)
  <2>1. PICK k \in Nat : x = k * P
    BY <1>2 DEF Multiple
  <2>2. k + 1 \in Nat /\ x + P = (k + 1) * P
    BY <2>1
  <2> QED BY <2>2 DEF Multiple
<1> QED BY <1>1, <1>2

(* No step but a switch puts a task on a core, or lets one go on there. *)
LEMMA StillExecutes ==
    ASSUME PlacementInv, HandleInv, RunInv, UNCHANGED vars, RunNext,
           NEW s \in Threads, NEW d \in Cores, Executes(s, d)'
    PROVE  Executes(s, d) \/ Occurs(s, ready)
<1>1. KernelInv /\ UNCHANGED tcb /\ SignalsPending /\ yield \in [Cores -> BOOLEAN]
  BY DEF RunInv, KernelInv, KernelTyped, vars
<1>2. ASSUME UNCHANGED current, SignalsGrow PROVE Executes(s, d)
  BY <1>2 DEF Executes, SignalsGrow
<1>3. ASSUME NEW c, UNCHANGED <<current, signalled>>,
             yield' = yield \/ yield' = [yield EXCEPT ![c] = TRUE]
      PROVE  Executes(s, d)
  <2>1. \A e \in Cores : yield[e] => yield'[e]
    BY <1>1, <1>3
  <2>2. SignalsGrow
    BY <1>1, <1>3, <2>1, SignalsKept
  <2> QED BY <1>2, <1>3, <2>2
<1>4. CASE \E t \in Slots, c \in Cores : TaskStep(t, c)
  <2>1. PICK t \in Slots, c \in Cores : TaskStep(t, c)
    BY <1>4
  <2>2. CASE ResumeTail(t, c)
    <3>1. PICK r : Resume(r, c)
      BY <2>2 DEF ResumeTail
    <3>2. UNCHANGED current /\ \A e \in Cores : yield[e] => yield'[e]
      BY <1>1, <3>1, ResumeEffect
    <3>3. SignalsGrow
      BY <1>1, <3>1, <3>2, SignalsKept DEF Resume
    <3> QED BY <1>2, <3>2, <3>3
  <2>3. CASE UNCHANGED kernelVars
    BY <1>3, <2>3 DEF kernelVars
  <2>4. CASE Entry(t, c)
    BY <1>3, <2>4 DEF Entry, DelayUntilTick
  <2>5. CASE Request(t, c) /\ task_list[t].Dependency
    BY <1>3, <2>5 DEF Request, SuspendSelf
  <2>6. CASE Sleep(t, c)
    BY <1>3, <2>6 DEF Sleep, DelayUntilTick, YieldWithinAPI
  <2> QED BY <2>1, <2>2, <2>3, <2>4, <2>5, <2>6, StepKinds DEF TaskStep, OwnCode
<1>5. CASE \E c \in Cores : MonitorStep(c)
  <2>1. PICK c \in Cores : MonitorStep(c)
    BY <1>5
  <2>2. CASE MonitorEntry(c)
    BY <1>3, <2>2 DEF MonitorEntry, DelayUntilTick
  <2>3. CASE MonitorVerdict(c)
    BY <1>3, <2>3 DEF MonitorVerdict, kernelVars
  <2>4. CASE MonitorDelete(c)
    <3>1. PICK r \in Threads : Delete(r, c)
      BY <2>4, DeletedNowFacts
    <3>2. UNCHANGED current /\ \A e \in Cores : yield[e] => yield'[e]
      BY <1>1, <3>1, DeleteEffect
    <3>3. SignalsGrow
      BY <1>1, <3>1, <3>2, SignalsKept DEF Delete
    <3> QED BY <1>2, <3>2, <3>3
  <2> QED BY <2>1, <2>2, <2>3, <2>4 DEF MonitorStep
<1>6. CASE Tick
  <2>1. UNCHANGED current /\ ~ yield[d]
    BY <1>6 DEF Tick, IncrementTick, Waits
  <2> QED BY <2>1 DEF Executes
<1>7. CASE \E c \in Cores : Switch(c)
  <2>1. PICK c \in Cores : SwitchContext(c)
    BY <1>7 DEF Switch
  <2>2. /\ current' = [current EXCEPT ![c] = Selected(c)]
        /\ current \in [Cores -> Threads \cup {IDLE}]
        /\ \A e \in Cores : e # c /\ yield[e] => yield'[e]
        /\ \A e \in signalled' : e \in signalled \/ ~ yield[e]
        /\ MasksAndPriorities
    BY <1>1, <2>1, TCBFacts, SwitchEffect DEF KernelInv, KernelTyped, SwitchContext, SignalledBy
  <2>3. CASE d = c
    <3>1. Selected(c) = s /\ s # IDLE
      BY <2>2, <2>3, ThreadFacts DEF Executes
    <3> QED BY <1>1, <2>2, <3>1, SelectedIsBest
  <2>4. CASE d # c
    BY <2>2, <2>4 DEF Executes
  <2> QED BY <2>3, <2>4
<1> QED BY <1>4, <1>5, <1>6, <1>7 DEF RunNext

(* What a step of task t does to the lists, seen from the other tasks. *)
LEMMA TaskLists ==
    ASSUME RunInv, UNCHANGED vars, NEW t \in Slots, NEW c \in Cores, TaskStep(t, c)
    PROVE  /\ \A u : u # t /\ (ResumeTail(t, c) => u # task_list[t].splitted_ptr) => SameLists(u)
           /\ Entry(t, c) \/ Sleep(t, c) \/ ~ Occurs(t, delayed)'
           /\ Request(t, c) /\ task_list[t].Dependency => t \in suspended' /\ ~ Occurs(t, ready)'
           /\ ResumeTail(t, c) => /\ suspended' \subseteq suspended
                                  /\ \A u : Occurs(u, ready)' => Occurs(u, ready) \/ u \in suspended
                                  /\ UNCHANGED delayed
<1>1. KernelInv /\ UNCHANGED tcb /\ KernelInv' /\ t \in Threads /\ Executes(t, c)
  BY StepKinds, KernelTask DEF RunInv, vars, KernelKept
<1>2. ~ Occurs(t, delayed)
  BY <1>1, ExecutingFacts
<1>3. Calls(t, c) => current[c] = t /\ current[c] # IDLE /\ ~ yield[c]
  BY <1>1, CallingFacts
<1>4. CASE Entry(t, c)
  <2>1. \A u : u # t => SameLists(u)
    BY <1>1, <1>3, <1>4, DelayEffect DEF Entry
  <2> QED BY <1>4, <2>1 DEF Entry, Request, ResumeTail
<1>5. CASE Sleep(t, c)
  <2>1. CASE YieldWithinAPI(c)
    <3>1. \A u : SameLists(u)
      BY <1>1, <2>1, YieldEffect
    <3> QED BY <1>5, <3>1 DEF Sleep, Request, ResumeTail
  <2>2. CASE DelayUntilTick(c, last[t] + task_list[t].Period)
    <3>1. \A u : u # t => SameLists(u)
      BY <1>1, <1>3, <1>5, <2>2, DelayEffect DEF Sleep
    <3> QED BY <1>5, <3>1 DEF Sleep, Request, ResumeTail
  <2> QED BY <1>5, <2>1, <2>2 DEF Sleep
<1>6. CASE OwnCode(t, c) \/ (Request(t, c) /\ ~ task_list[t].Dependency)
  <2>1. UNCHANGED kernelVars
    BY <1>6, StepKinds
  <2>2. \A u : SameLists(u)
    BY <2>1 DEF kernelVars, SameLists, Occurs
  <2>3. ~ Occurs(t, delayed)'
    BY <1>2, <2>2 DEF SameLists
  <2>4. ~ (Request(t, c) /\ task_list[t].Dependency) /\ ~ ResumeTail(t, c)
    BY <1>6 DEF OwnCode, Request, StartJob, StartLoop, BusyTurn, EndJob, ResumeTail
  <2> QED BY <2>2, <2>3, <2>4
<1>7. CASE Request(t, c) /\ task_list[t].Dependency
  <2>1. SuspendSelf(c) /\ Calls(t, c)
    BY <1>7 DEF Request
  <2>2. /\ \A u : u # t => SameLists(u)
        /\ suspended' = suspended \cup {t}
    BY <1>1, <1>3, <2>1, SuspendEffect
  <2>3. t \in suspended' /\ ~ Occurs(t, ready)' /\ ~ Occurs(t, delayed)'
    BY <1>1, <2>2 DEF KernelInv, OneListEach
  <2>4. ~ ResumeTail(t, c)
    BY <1>7 DEF Request, ResumeTail
  <2> QED BY <2>2, <2>3, <2>4
<1>8. CASE ResumeTail(t, c)
  <2>1. PICK s : s = task_list[t].splitted_ptr /\ Resume(s, c)
    BY <1>8 DEF ResumeTail
  <2>2. /\ \A u : u # s => SameLists(u)
        /\ s \notin suspended => UNCHANGED <<ready, suspended, yield>>
        /\ s \in suspended => s \notin suspended'
        /\ UNCHANGED delayed
    BY <1>1, <2>1, ResumeEffect
  <2>3. suspended' \subseteq suspended
    <3>1. \A u : u \in suspended' => u \in suspended
      BY <2>2 DEF SameLists
    <3> QED BY <3>1
  <2>4. \A u : Occurs(u, ready)' => Occurs(u, ready) \/ u \in suspended
    <3>1. \A u : u # s => (Occurs(u, ready)' => Occurs(u, ready))
      BY <2>2 DEF SameLists
    <3>2. s \notin suspended => (Occurs(s, ready)' => Occurs(s, ready))
      BY <2>2 DEF Occurs
    <3> QED BY <3>1, <3>2
  <2>5. ~ Occurs(t, delayed)'
    BY <1>2, <2>2 DEF Occurs
  <2>6. ~ Request(t, c)
    BY <1>8 DEF Request, ResumeTail
  <2> QED BY <1>8, <2>1, <2>2, <2>3, <2>4, <2>5, <2>6
<1> QED BY <1>4, <1>5, <1>6, <1>7, <1>8 DEF TaskStep, OwnCode

(* What the kernel and the monitor do to the lists, seen from a task. *)
LEMMA OtherLists ==
    ASSUME PlacementInv, HandleInv, RunInv, UNCHANGED vars, NEW c \in Cores,
           MonitorStep(c) \/ Switch(c), NEW s \in Slots
    PROVE  /\ Occurs(s, delayed)' => Occurs(s, delayed)
           /\ Occurs(s, ready)' => Occurs(s, ready)
           /\ s \in suspended' => s \in suspended
<1>1. KernelInv /\ UNCHANGED tcb /\ MasksAndPriorities /\ s # MONITOR
  BY TCBFacts, ThreadFacts DEF RunInv, vars
<1>2. CASE Switch(c)
  <2>1. SameLists(s)
    BY <1>1, <1>2, SwitchEffect DEF Switch
  <2> QED BY <2>1 DEF SameLists
<1>3. CASE MonitorEntry(c)
  <2>1. MONITOR \in Threads /\ Calls(MONITOR, c)
    BY <1>3, ThreadFacts DEF MonitorEntry
  <2>2. current[c] = MONITOR /\ current[c] # IDLE /\ ~ yield[c]
    BY <2>1, CallingFacts
  <2>3. SameLists(s)
    BY <1>1, <1>3, <2>2, DelayEffect DEF MonitorEntry
  <2> QED BY <2>3 DEF SameLists
<1>4. CASE MonitorVerdict(c)
  BY <1>4 DEF MonitorVerdict, kernelVars, Occurs
<1>5. CASE MonitorDelete(c)
  <2>1. PICK d \in Threads : Delete(d, c)
    BY <1>5, DeletedNowFacts
  <2>2. /\ \A u : u # d => SameLists(u)
        /\ ~ Occurs(d, ready)' /\ ~ Occurs(d, delayed)' /\ d \notin suspended'
    BY <1>1, <2>1, DeleteEffect
  <2> QED BY <2>2 DEF SameLists
<1> QED BY <1>2, <1>3, <1>4, <1>5 DEF MonitorStep

(* A step of task u, seen from the variables of the tasks. *)
LEMMA TaskOwn ==
    ASSUME TasksTyped, NEW u \in Slots, NEW c \in Cores, TaskStep(u, c)
    PROVE  /\ \A s \in Slots : s # u => at'[s] = at[s] /\ last'[s] = last[s]
           /\ Entry(u, c) => at[u] = "entry" /\ at'[u] = "request" /\ last'[u] = xTickCount
           /\ Request(u, c) => at[u] = "request" /\ at'[u] = "job" /\ last'[u] = last[u]
           /\ OwnCode(u, c) => /\ at[u] \in {"job", "loop", "busy", "check"} /\ last'[u] = last[u]
                               /\ at'[u] \in {"loop", "busy", "check", "resume", "sleep", "spin"}
           /\ OwnCode(u, c) => (at'[u] = "sleep" => at[u] = "check")
           /\ ResumeTail(u, c) => at[u] = "resume" /\ at'[u] = "sleep" /\ last'[u] = last[u]
           /\ Sleep(u, c) => /\ at[u] = "sleep" /\ at'[u] = "request"
                             /\ last'[u] = last[u] + task_list[u].Period
<1>1. at \in [Slots -> Positions] /\ last \in [Slots -> Nat]
  BY DEF TasksTyped
<1>2. PICK l \in Positions :
              /\ at' = [at EXCEPT ![u] = l]
              /\ Entry(u, c) => at[u] = "entry" /\ l = "request"
              /\ Request(u, c) => at[u] = "request" /\ l = "job"
              /\ StartJob(u, c) => at[u] = "job" /\ l \in {"loop", "check", "spin"}
              /\ StartLoop(u, c) => at[u] = "loop" /\ l = "busy"
              /\ BusyTurn(u, c) => at[u] = "busy" /\ l \in {"busy", "check"}
              /\ EndJob(u, c) => at[u] = "check" /\ l \in {"resume", "sleep", "spin"}
              /\ ResumeTail(u, c) => at[u] = "resume" /\ l = "sleep"
              /\ Sleep(u, c) => at[u] = "sleep" /\ l = "request"
  BY Moves
<1>3. at'[u] = l /\ \A s \in Slots : s # u => at'[s] = at[s]
  BY <1>1, <1>2
<1>4. Entry(u, c) => last' = [last EXCEPT ![u] = xTickCount]
  BY DEF Entry
<1>5. Request(u, c) \/ OwnCode(u, c) \/ ResumeTail(u, c) => UNCHANGED last
  BY DEF Request, OwnCode, StartJob, StartLoop, BusyTurn, EndJob, ResumeTail
<1>6. Sleep(u, c) => last' = [last EXCEPT ![u] = last[u] + task_list[u].Period]
  BY DEF Sleep
<1>7. \A s \in Slots : s # u => last'[s] = last[s]
  BY <1>1, <1>4, <1>5, <1>6 DEF TaskStep, OwnCode
<1>8. OwnCode(u, c) => /\ at[u] \in {"job", "loop", "busy", "check"}
                       /\ l \in {"loop", "busy", "check", "resume", "sleep", "spin"}
                       /\ l = "sleep" => at[u] = "check"
  BY <1>2 DEF OwnCode
<1> QED BY <1>1, <1>2, <1>3, <1>4, <1>5, <1>6, <1>7, <1>8

LEMMA HandOverLaunch ==
    ASSUME SystemInv, Launch, RunInv' PROVE HandOverInv'
<1> USE ThreadFacts
<1>1. /\ UNCHANGED <<tcb, task_list, heap_size>> /\ Existing' = Existing
      /\ KernelInit /\ RunInit /\ StartKernel(Existing)
      /\ UNCHANGED <<at, last, monitor>>
  BY LaunchEffect DEF SystemInv, Launch, taskVars, monitorVars
<1>2. /\ \A t : Occurs(t, ready)' <=> t \in Existing
      /\ \A t : ~ Occurs(t, delayed)'
      /\ suspended' = {} /\ deleted' = {} /\ xTickCount' = 0
      /\ \A c \in Cores : current'[c] = IDLE /\ yield'[c]
  BY <1>1, ExistingAreThreads, StartEffect
<1>3. /\ \A s \in Slots : at'[s] = "entry" /\ last'[s] = 0
      /\ monitor' = "entry"
  BY <1>1 DEF RunInit
<1>4. IDLE \notin Existing
  BY ExistingAreThreads
<1>5. \A t \in Created' : t \in Slots /\ t \in Existing
  <2>1. Created' = Created
    BY <1>1 DEF Created
  <2> QED BY <2>1 DEF Existing, Created
<1>6. FirstTick'
  <2>1. \A t : uxCoreAffinityMask(t)' \subseteq Cores
    <3>1. MasksAndPriorities
      BY TCBFacts DEF SystemInv
    <3>2. \A t \in Threads \cup {IDLE} : uxCoreAffinityMask(t) \subseteq Cores
      BY <3>1, MasksTyped
    <3> QED BY <1>1, <3>2 DEF uxCoreAffinityMask
  <2> QED BY <1>2, <1>3, <1>4, <1>5, <2>1 DEF FirstTick
<1>7. \A s \in Slots : task_list'[s].Period \in Nat
  BY <1>1 DEF SystemInv, PlacementInv, TypeOK, TaskInfos
<1>8. RequestTimes'
  <2>1. \A s \in Slots : Multiple(last'[s], task_list'[s].Period)
    BY <1>3, <1>7, MultipleFacts
  <2> QED BY <1>2, <1>3, <2>1 DEF RequestTimes, Multiple
<1>9. ASSUME NEW t \in Slots, NEW s \in Slots PROVE InTurn(t, s)'
  BY <1>3 DEF InTurn, BeforeJob, InJob, NextEnd
<1> QED BY <1>6, <1>8, <1>9 DEF HandOverInv

(* A thread that delays itself at the first tick. *)
LEMMA FirstTickDelay ==
    ASSUME RunInv, FirstTick, UNCHANGED vars, xTickCount = 0, NEW e \in Threads, NEW c \in Cores,
           Calls(e, c), NEW time, DelayUntilTick(c, time),
           \A t \in Slots : t # e => at'[t] = at[t],
           e \in Slots => at'[e] # "entry",
           e # MONITOR => UNCHANGED monitor
    PROVE  FirstTick'
<1> USE ThreadFacts
<1>1. KernelInv /\ UNCHANGED tcb /\ Created' = Created /\ Created \subseteq Slots
  BY DEF RunInv, vars, Created
<1>2. current[c] = e /\ current[c] # IDLE /\ ~ yield[c]
  BY CallingFacts
<1>3. /\ KernelInv'
      /\ \A t : t # e => SameLists(t)
      /\ Occurs(e, delayed)'
      /\ UNCHANGED <<xTickCount, suspended, deleted, current>>
      /\ yield' = [yield EXCEPT ![c] = TRUE] /\ yield \in [Cores -> BOOLEAN]
  <2>1. yield \in [Cores -> BOOLEAN]
    BY <1>1 DEF KernelInv, KernelTyped
  <2> QED BY <1>1, <1>2, <2>1, DelayEffect
<1>4. ~ Occurs(e, ready)' /\ \A t : Occurs(t, ready)' <=> t # e /\ Occurs(t, ready)
  <2>1. ~ Occurs(e, ready)'
    BY <1>3 DEF KernelInv, OneListEach
  <2> QED BY <1>3, <2>1 DEF SameLists
<1>5. \A t \in Created : Occurs(t, ready)' => at'[t] = "entry"
  BY <1>1, <1>4 DEF FirstTick
<1>6. \A t \in Created : at'[t] = "entry" => Occurs(t, ready)'
  BY <1>1, <1>4 DEF FirstTick
<1>7. Occurs(MONITOR, ready)' => monitor' = "entry"
  BY <1>4 DEF FirstTick
<1>8. \A d \in Cores : yield'[d] => ~ Occurs(current[d], ready)'
  BY <1>2, <1>3, <1>4 DEF FirstTick
<1>9. \A t : uxCoreAffinityMask(t)' = uxCoreAffinityMask(t) /\ RunsOn(t)' = RunsOn(t)
  BY <1>1, <1>3 DEF uxCoreAffinityMask, RunsOn
<1>10. \A d : yield[d] => yield'[d]
  BY <1>3
<1>11. \A t : Occurs(t, ready)' =>
          RunsOn(t)' # {} \/ \A d \in uxCoreAffinityMask(t)' : yield'[d] \/ current'[d] # IDLE
  BY <1>3, <1>4, <1>9, <1>10 DEF FirstTick
<1> QED BY <1>1, <1>3, <1>5, <1>6, <1>7, <1>8, <1>11 DEF FirstTick

(* At the first tick a core only switches because its task has left. *)
LEMMA FirstTickSwitch ==
    ASSUME PlacementInv, RunInv, FirstTick, UNCHANGED vars, xTickCount = 0, NEW c \in Cores, Switch(c)
    PROVE  FirstTick'
<1>1. /\ KernelInv /\ UNCHANGED tcb /\ Created' = Created
      /\ MasksAndPriorities /\ SwitchContext(c) /\ UNCHANGED <<at, monitor>>
  BY TCBFacts DEF RunInv, vars, Created, Switch, taskVars, monitorVars
<1>2. PICK n : n = Selected(c)
  OBVIOUS
<1>3. /\ \A t : SameLists(t)
      /\ UNCHANGED <<xTickCount, suspended, deleted>>
      /\ current' = [current EXCEPT ![c] = n]
      /\ current \in [Cores -> Threads \cup {IDLE}] /\ yield \in [Cores -> BOOLEAN]
  <2>1. current \in [Cores -> Threads \cup {IDLE}] /\ yield \in [Cores -> BOOLEAN]
    BY <1>1 DEF KernelInv, KernelTyped
  <2> QED BY <1>1, <1>2, <2>1, SwitchEffect
<1>4. yield[c] /\ ~ Occurs(current[c], ready)
  BY <1>1 DEF SwitchContext, FirstTick
<1>5. yield' = [yield EXCEPT ![c] = FALSE]
  <2>1. ~ IsReady(current[c])
    BY <1>4 DEF IsReady, Occurs
  <2>2. yield' = [d \in Cores |-> IF d = c THEN FALSE ELSE yield[d]]
    BY <1>1, <1>3, <2>1 DEF SwitchContext
  <2> QED BY <1>3, <2>2
<1>6. \A t : Occurs(t, ready)' <=> Occurs(t, ready)
  BY <1>3 DEF SameLists
<1>7. \A d \in Cores : yield'[d] => ~ Occurs(current[d], ready)'
  BY <1>3, <1>5, <1>6 DEF FirstTick
<1>8. ASSUME NEW t, Occurs(t, ready), RunsOn(t)' = {}, NEW d \in uxCoreAffinityMask(t)
      PROVE  yield'[d] \/ current'[d] # IDLE
  <2>1. d \in Cores
    BY <1>1, <1>8, MasksTyped DEF KernelInv, KernelTyped, Occurs
  <2>2. RunsOn(t) = {}
    BY <1>3, <1>4, <1>8 DEF RunsOn
  <2>3. yield[d] \/ current[d] # IDLE
    BY <1>8, <2>2 DEF FirstTick
  <2>4. CASE d # c
    BY <1>3, <1>5, <2>1, <2>3, <2>4
  <2>5. CASE d = c
    <3>1. MayRunOn(t, c)
      BY <1>8, <2>2, <2>5 DEF MayRunOn
    <3>2. n # IDLE
      BY <1>1, <1>2, <1>8, <3>1, SelectedIsBest, ThreadFacts
    <3> QED BY <1>3, <2>5, <3>2
  <2> QED BY <2>4, <2>5
<1>9. \A t : uxCoreAffinityMask(t)' = uxCoreAffinityMask(t)
  BY <1>1 DEF uxCoreAffinityMask
<1>10. \A t : Occurs(t, ready)' =>
          RunsOn(t)' # {} \/ \A d \in uxCoreAffinityMask(t)' : yield'[d] \/ current'[d] # IDLE
  BY <1>6, <1>8, <1>9
<1> QED BY <1>1, <1>3, <1>6, <1>7, <1>10 DEF FirstTick

LEMMA FirstTickStep ==
    ASSUME PlacementInv, RunInv, FirstTick, UNCHANGED vars, RunNext PROVE FirstTick'
<1> USE ThreadFacts
<1>1. xTickCount \in Nat /\ TasksTyped
  BY DEF RunInv, KernelInv, KernelTyped
<1>2. CASE Tick
  <2>1. xTickCount' # 0
    BY <1>1, <1>2 DEF Tick, IncrementTick
  <2> QED BY <2>1 DEF FirstTick
<1>3. CASE xTickCount # 0 /\ ~ Tick
  <2>1. UNCHANGED xTickCount
    BY <1>3, TaskEffect, OtherEffect DEF RunNext
  <2> QED BY <1>3, <2>1 DEF FirstTick
<1>4. CASE xTickCount = 0 /\ \E c \in Cores : Switch(c)
  BY <1>4, FirstTickSwitch
<1>5. CASE xTickCount = 0 /\ \E c \in Cores : MonitorStep(c)
  <2>1. PICK c \in Cores : MonitorStep(c)
    BY <1>5
  <2>2. MONITOR \in Threads /\ Executes(MONITOR, c)
    BY <2>1 DEF MonitorStep, MonitorEntry, MonitorVerdict, MonitorDelete, Calls, Executes
  <2>3. monitor = "entry"
    BY <1>5, <2>2, ExecutingFacts DEF FirstTick
  <2>4. /\ DelayUntilTick(c, xTickCount + Hyperperiod + 1) /\ UNCHANGED at
        /\ Calls(MONITOR, c)
    BY <2>1, <2>3 DEF MonitorStep, MonitorEntry, MonitorVerdict, MonitorDelete, taskVars
  <2> QED BY <1>5, <2>2, <2>4, FirstTickDelay
<1>6. CASE xTickCount = 0 /\ \E t \in Slots, c \in Cores : TaskStep(t, c)
  <2>1. PICK t \in Slots, c \in Cores : TaskStep(t, c)
    BY <1>6
  <2>2. t \in Threads /\ Executes(t, c) /\ t # MONITOR
    BY <2>1, StepKinds
  <2>3. at[t] = "entry"
    BY <1>6, <2>2, ExecutingFacts DEF FirstTick
  <2>4. Entry(t, c) /\ Calls(t, c)
    BY <2>1, <2>3, Moves, StepKinds DEF TaskStep
  <2>5. DelayUntilTick(c, xTickCount + 1) /\ UNCHANGED monitor
    BY <2>4 DEF Entry, monitorVars
  <2>6. at'[t] # "entry" /\ \A u \in Slots : u # t => at'[u] = at[u]
    BY <1>1, <2>1, <2>4, TaskOwn
  <2> QED BY <1>6, <2>2, <2>4, <2>5, <2>6, FirstTickDelay
<1> QED BY <1>2, <1>3, <1>4, <1>5, <1>6 DEF RunNext

(* When the first tick comes, every task has made its first request. *)
LEMMA AllHaveEntered ==
    ASSUME PlacementInv, HandleInv, RunInv, FirstTick, RequestTimes, Tick,
           NEW s \in Slots, s \in Created
    PROVE  at[s] # "entry"
<1> USE ThreadFacts
<1> SUFFICES ASSUME at[s] = "entry" PROVE FALSE
  OBVIOUS
<1>1. xTickCount = 0 /\ MasksAndPriorities /\ \A c \in Cores : Waits(c)
  BY TCBFacts DEF RequestTimes, Tick
<1>2. Occurs(s, ready)
  BY <1>1 DEF FirstTick
<1>3. ASSUME NEW c \in Cores, current[c] # IDLE PROVE FALSE
  <2>1. ~ yield[c] /\ current[c] \in Slots /\ at[current[c]] # "entry"
    BY <1>1, <1>3 DEF Waits
  <2>2. PICK t \in Slots : t = current[c] /\ at[t] # "entry"
    BY <2>1
  <2>3. Calls(t, c) /\ t \in Threads
    BY <2>1, <2>2 DEF Calls
  <2>4. Occurs(t, ready) /\ t \in Created
    BY <2>3, CallingFacts
  <2> QED BY <1>1, <2>2, <2>4 DEF FirstTick
<1>4. RunsOn(s) = {}
  BY <1>3 DEF RunsOn
<1>5. uxCoreAffinityMask(s) \subseteq Cores /\ uxCoreAffinityMask(s) # {}
  BY <1>1, MasksTyped DEF HandleInv, uxCoreAffinityMask
<1>6. PICK c \in Cores : yield[c] \/ current[c] # IDLE
  BY <1>1, <1>2, <1>4, <1>5 DEF FirstTick
<1>7. ~ yield[c]
  BY <1>1 DEF Waits
<1> QED BY <1>3, <1>6, <1>7

LEMMA RequestTimesTask ==
    ASSUME PlacementInv, RunInv, RequestTimes, UNCHANGED vars, NEW u \in Slots, NEW c \in Cores,
           TaskStep(u, c), NEW s \in Slots
    PROVE  /\ Multiple(last'[s], task_list[s].Period)
           /\ at'[s] = "entry" => last'[s] = 0
           /\ at'[s] = "entry" /\ s \in Created => xTickCount' = 0
           /\ Occurs(s, delayed)' => at'[s] = "request"
<1> USE ThreadFacts
<1>1. /\ Multiple(last[s], task_list[s].Period)
      /\ at[s] = "entry" => last[s] = 0
      /\ at[s] = "entry" /\ s \in Created => xTickCount = 0
      /\ Occurs(s, delayed) => at[s] = "request"
  BY DEF RequestTimes
<1>2. TasksTyped /\ UNCHANGED xTickCount
  BY TaskEffect DEF RunInv
<1>3. task_list[s].Period \in Nat
  BY DEF PlacementInv, TypeOK, TaskInfos
<1>4. CASE s # u
  <2>1. at'[s] = at[s] /\ last'[s] = last[s]
    BY <1>2, <1>4, TaskOwn
  <2>2. Occurs(s, delayed)' => Occurs(s, delayed)
    <3>1. CASE ResumeTail(u, c)
      <4>1. UNCHANGED delayed
        BY <3>1, TaskLists
      <4> QED BY <4>1 DEF Occurs
    <3>2. CASE ~ ResumeTail(u, c)
      <4>1. SameLists(s)
        BY <1>4, <3>2, TaskLists
      <4> QED BY <4>1 DEF SameLists
    <3> QED BY <3>1, <3>2
  <2> QED BY <1>1, <1>2, <2>1, <2>2
<1>5. CASE s = u
  <2>1. u \in Created
    <3>1. u \in Threads /\ Executes(u, c)
      BY StepKinds
    <3> QED BY <3>1, ExecutingFacts
  <2>2. CASE Entry(u, c)
    <3>1. last'[s] = 0 /\ at'[s] = "request"
      BY <1>1, <1>2, <1>5, <2>1, <2>2, TaskOwn
    <3> QED BY <1>3, <3>1, MultipleFacts
  <2>3. CASE Sleep(u, c)
    <3>1. last'[s] = last[s] + task_list[s].Period /\ at'[s] = "request"
      BY <1>2, <1>5, <2>3, TaskOwn
    <3> QED BY <1>1, <1>3, <3>1, MultipleFacts
  <2>4. CASE ~ Entry(u, c) /\ ~ Sleep(u, c)
    <3>1. last'[s] = last[s] /\ at'[s] # "entry"
      BY <1>2, <1>5, <2>4, TaskOwn DEF TaskStep, OwnCode
    <3>2. ~ Occurs(s, delayed)'
      BY <1>5, <2>4, TaskLists
    <3> QED BY <1>1, <3>1, <3>2
  <2> QED BY <2>2, <2>3, <2>4
<1> QED BY <1>4, <1>5

LEMMA RequestTimesStep ==
    ASSUME PlacementInv, HandleInv, RunInv, FirstTick, RequestTimes, UNCHANGED vars, RunNext
    PROVE  RequestTimes'
<1>1. UNCHANGED task_list /\ Created' = Created
  BY DEF vars, Created
<1>2. CASE \E u \in Slots, c \in Cores : TaskStep(u, c)
  <2>1. ASSUME NEW s \in Slots
        PROVE  /\ Multiple(last'[s], task_list[s].Period)
               /\ at'[s] = "entry" => last'[s] = 0
               /\ at'[s] = "entry" /\ s \in Created => xTickCount' = 0
               /\ Occurs(s, delayed)' => at'[s] = "request"
    BY <1>2, RequestTimesTask
  <2> QED BY <1>1, <2>1 DEF RequestTimes, Multiple
<1>3. CASE \E c \in Cores : Switch(c) \/ MonitorStep(c)
  <2>1. UNCHANGED <<xTickCount, at, last>>
    BY <1>3, OtherEffect DEF taskVars
  <2>2. \A s \in Slots : Occurs(s, delayed)' => Occurs(s, delayed)
    BY <1>3, OtherLists
  <2> QED BY <1>1, <2>1, <2>2 DEF RequestTimes, Multiple
<1>4. CASE Tick
  <2>1. UNCHANGED <<at, last>> /\ KernelInv /\ UNCHANGED tcb /\ IncrementTick
    BY <1>4 DEF Tick, RunInv, vars
  <2>2. \A s \in Slots : Occurs(s, delayed)' => Occurs(s, delayed)
    BY <2>1, TickEffect
  <2>3. \A s \in Slots : s \in Created => at[s] # "entry"
    BY <1>4, AllHaveEntered
  <2> QED BY <1>1, <2>1, <2>2, <2>3 DEF RequestTimes, Multiple
<1> QED BY <1>2, <1>3, <1>4 DEF RunNext

(* A step that leaves the variables and the lists of body and tail alone. *)
LEMMA InTurnKept ==
    ASSUME NEW t \in Slots, NEW s \in Slots, InTurn(t, s), UNCHANGED task_list,
           at'[t] = at[t], last'[t] = last[t], at'[s] = at[s], last'[s] = last[s],
           at[s] = "job" /\ Live(s)' => Live(s),
           at[s] = "job" /\ s \in suspended' => s \in suspended
    PROVE  InTurn(t, s)'
  BY DEF InTurn, BeforeJob, InJob, NextEnd

(* What is known of a body t and its tail s. *)
LEMMA BodyFacts ==
    ASSUME PlacementInv, HandleInv, RunInv, RequestTimes,
           NEW t \in Slots, NEW s \in Slots, task_list[t].splitted_ptr = s
    PROVE  /\ t # s
           /\ task_list[s].Dependency
           /\ task_list[t].Period \in Nat /\ task_list[t].Period > 0
           /\ task_list[s].Period = task_list[t].Period
           /\ last[t] \in Nat /\ last[s] \in Nat
           /\ last[t] > last[s] => last[t] >= last[s] + task_list[t].Period
           /\ \A r \in Slots : task_list[r].splitted_ptr = s => r = t
<1> USE ThreadFacts
<1>1. s # NULL
  BY DEF IDLE
<1>2. TailOf(s, t)
  BY <1>1 DEF HandleInv
<1>3. t # s
  <2>1. t < s
    BY <1>2 DEF TailOf
  <2> QED BY <2>1
<1>4. /\ task_list[s].Dependency /\ task_list[s].Period = task_list[t].Period
      /\ t \in Created
  BY <1>2 DEF TailOf
<1>5. task_list[t].Period \in Nat /\ task_list[t].Period > 0
  BY <1>4 DEF PlacementInv, TypeOK, TaskInfos, HandleInv
<1>6. last[t] \in Nat /\ last[s] \in Nat
  BY DEF RunInv, TasksTyped
<1>7. last[t] > last[s] => last[t] >= last[s] + task_list[t].Period
  <2>1. Multiple(last[t], task_list[t].Period) /\ Multiple(last[s], task_list[t].Period)
    BY <1>4 DEF RequestTimes
  <2> QED BY <1>5, <2>1, NextMultiple
<1>8. \A r \in Slots : task_list[r].splitted_ptr = s => r = t
  BY <1>1 DEF HandleInv
<1> QED BY <1>3, <1>4, <1>5, <1>6, <1>7, <1>8

(* The tail takes a step. *)
LEMMA InTurnTail ==
    ASSUME PlacementInv, HandleInv, RunInv, RequestTimes, UNCHANGED vars,
           NEW t \in Slots, NEW s \in Slots, task_list[t].splitted_ptr = s, InTurn(t, s),
           RunNext, NEW c \in Cores, TaskStep(s, c)
    PROVE  InTurn(t, s)'
<1>1. PICK P : P = task_list[t].Period
  OBVIOUS
<1>2. /\ t # s /\ task_list[s].Dependency
      /\ P \in Nat /\ P > 0 /\ task_list[s].Period = P /\ task_list'[t].Period = P
      /\ last[t] \in Nat /\ last[s] \in Nat
      /\ last[t] > last[s] => last[t] >= last[s] + P
  BY <1>1, BodyFacts DEF vars
<1>3. TasksTyped /\ at'[t] = at[t] /\ last'[t] = last[t]
  BY <1>2, TaskOwn DEF RunInv
<1>4. s \in Threads /\ Executes(s, c)
  BY StepKinds
<1>5. Live(s) /\ s \in Created /\ s \notin suspended
  BY <1>4, ExecutingFacts DEF Live
<1>6. NextEnd(t)' = NextEnd(t) /\ NextEnd(t) \in Nat /\ NextEnd(t) >= last[t]
  BY <1>1, <1>2, <1>3 DEF NextEnd
<1>7. /\ BeforeJob(s) => last[s] <= NextEnd(t)
      /\ InJob(s) => last[t] > last[s] \/ (last[t] = last[s] /\ at[t] = "sleep")
  BY DEF InTurn
<1>8. CASE Entry(s, c)
  <2>1. last'[s] = 0 /\ at'[s] = "request"
    BY <1>3, <1>5, <1>8, TaskOwn DEF RequestTimes
  <2>2. ~ InJob(s)'
    BY <2>1 DEF InJob
  <2> QED BY <1>6, <2>1, <2>2 DEF InTurn
<1>9. CASE Request(s, c)
  <2>1. at[s] = "request" /\ last'[s] = last[s] /\ at'[s] = "job"
    BY <1>3, <1>9, TaskOwn
  <2>2. ~ Live(s)'
    <3>1. Calls(s, c) /\ SuspendSelf(c) /\ KernelInv /\ UNCHANGED tcb
      BY <1>2, <1>9 DEF Request, RunInv, vars
    <3>2. current[c] = s /\ current[c] # IDLE /\ ~ yield[c]
      BY <1>4, <3>1, CallingFacts
    <3>3. /\ KernelInv' /\ current' = current /\ yield'[c] /\ signalled' = signalled
      BY <3>1, <3>2, SuspendEffect DEF SuspendSelf, KernelInv, KernelTyped
    <3>4. c \notin signalled
      BY <3>2 DEF RunInv, KernelInv, SignalsPending
    <3>5. ASSUME NEW d \in Cores PROVE ~ Executes(s, d)'
      <4>1. current[d] = s => d = c
        BY <3>1, <3>2 DEF KernelInv, OneCoreAtATime, RunsOn
      <4> QED BY <3>3, <3>4, <4>1 DEF Executes
    <3>6. ~ Occurs(s, ready)'
      BY <1>2, <1>9, TaskLists
    <3> QED BY <3>5, <3>6 DEF Live
  <2>3. ~ InJob(s)' /\ BeforeJob(s)
    BY <2>1, <2>2 DEF InJob, BeforeJob
  <2> QED BY <1>6, <1>7, <2>1, <2>3 DEF InTurn
<1>10. CASE OwnCode(s, c) \/ ResumeTail(s, c)
  <2>1. /\ at[s] \in {"job", "loop", "busy", "check", "resume"} /\ last'[s] = last[s]
        /\ at'[s] \in {"loop", "busy", "check", "resume", "sleep", "spin"}
    BY <1>3, <1>10, TaskOwn
  <2>2. ~ BeforeJob(s)' /\ InJob(s)
    BY <1>5, <2>1 DEF InJob, BeforeJob
  <2> QED BY <1>3, <1>7, <2>1, <2>2 DEF InTurn
<1>11. CASE Sleep(s, c)
  <2>1. at[s] = "sleep" /\ last'[s] = last[s] + P /\ at'[s] = "request"
    BY <1>2, <1>3, <1>11, TaskOwn
  <2>2. ~ InJob(s)' /\ InJob(s)
    BY <2>1 DEF InJob
  <2>3. last[s] + P <= NextEnd(t)
    <3>1. CASE last[t] > last[s]
      BY <1>2, <1>6, <3>1
    <3>2. CASE last[t] = last[s] /\ at[t] = "sleep"
      BY <1>1, <1>2, <3>2 DEF NextEnd
    <3> QED BY <1>7, <2>2, <3>1, <3>2
  <2> QED BY <1>6, <2>1, <2>2, <2>3 DEF InTurn
<1> QED BY <1>8, <1>9, <1>10, <1>11 DEF TaskStep, OwnCode

(* The body takes a step. *)
LEMMA InTurnBody ==
    ASSUME PlacementInv, HandleInv, RunInv, RequestTimes, UNCHANGED vars,
           NEW t \in Slots, NEW s \in Slots, task_list[t].splitted_ptr = s, InTurn(t, s),
           RunNext, NEW c \in Cores, TaskStep(t, c)
    PROVE  InTurn(t, s)'
<1>1. PICK P : P = task_list[t].Period
  OBVIOUS
<1>2. /\ t # s /\ P \in Nat /\ P > 0 /\ task_list'[t].Period = P
      /\ last[t] \in Nat /\ last[s] \in Nat
  BY <1>1, BodyFacts DEF vars
<1>3. TasksTyped /\ at'[s] = at[s] /\ last'[s] = last[s]
  BY <1>2, TaskOwn DEF RunInv
<1>4. t \in Threads /\ Executes(t, c)
  BY StepKinds
<1>5. t \in Created
  BY <1>4, ExecutingFacts
<1>6. /\ BeforeJob(s) => last[s] <= NextEnd(t)
      /\ InJob(s) => last[t] > last[s] \/ (last[t] = last[s] /\ at[t] = "sleep")
  BY DEF InTurn
<1>7. /\ BeforeJob(s)' => BeforeJob(s)
      /\ InJob(s)' => InJob(s) \/ (ResumeTail(t, c) /\ BeforeJob(s))
  <2>1. s \in suspended' => s \in suspended
    BY <1>2, TaskLists DEF SameLists
  <2>2. Occurs(s, ready)' => Occurs(s, ready) \/ (ResumeTail(t, c) /\ s \in suspended)
    BY <1>2, TaskLists DEF SameLists
  <2>3. \A d \in Cores : Executes(s, d)' => Executes(s, d) \/ Occurs(s, ready)
    BY StillExecutes DEF Threads
  <2>4. Live(s)' => Live(s) \/ (ResumeTail(t, c) /\ s \in suspended)
    BY <2>2, <2>3 DEF Live
  <2> QED BY <1>3, <2>1, <2>4 DEF BeforeJob, InJob
<1>8. CASE Entry(t, c)
  <2>1. at[t] = "entry" /\ last[t] = 0 /\ last'[t] = 0 /\ at'[t] = "request" /\ ~ ResumeTail(t, c)
    BY <1>3, <1>5, <1>8, TaskOwn DEF RequestTimes, ResumeTail
  <2>2. NextEnd(t)' = NextEnd(t) /\ ~ InJob(s)
    BY <1>2, <1>6, <2>1 DEF NextEnd
  <2> QED BY <1>3, <1>6, <1>7, <2>1, <2>2 DEF InTurn
<1>9. CASE Request(t, c) \/ OwnCode(t, c)
  <2>1. /\ at[t] # "sleep" /\ last'[t] = last[t] /\ at[t] # "resume"
        /\ at'[t] = "sleep" => at[t] = "check"
    BY <1>3, <1>9, TaskOwn
  <2>2. NextEnd(t)' >= NextEnd(t) /\ ~ ResumeTail(t, c) /\ NextEnd(t) \in Nat /\ NextEnd(t)' \in Nat
    BY <1>1, <1>2, <2>1 DEF NextEnd, ResumeTail
  <2>3. BeforeJob(s)' => last'[s] <= NextEnd(t)'
    BY <1>2, <1>3, <1>6, <1>7, <2>2
  <2>4. InJob(s)' => last'[t] > last'[s] \/ (last'[t] = last'[s] /\ at'[t] = "sleep")
    BY <1>2, <1>3, <1>6, <1>7, <2>1, <2>2
  <2> QED BY <2>3, <2>4 DEF InTurn
<1>10. CASE ResumeTail(t, c)
  <2>1. at[t] = "resume" /\ last'[t] = last[t] /\ at'[t] = "sleep"
    BY <1>3, <1>10, TaskOwn
  <2>2. NextEnd(t) = last[t] /\ NextEnd(t)' = last[t] + P
    BY <1>1, <1>2, <2>1 DEF NextEnd
  <2>3. BeforeJob(s)' => last'[s] <= NextEnd(t)'
    BY <1>2, <1>3, <1>6, <1>7, <2>2
  <2>4. InJob(s)' => last'[t] > last'[s] \/ (last'[t] = last'[s] /\ at'[t] = "sleep")
    BY <1>2, <1>3, <1>6, <1>7, <2>1, <2>2
  <2> QED BY <2>3, <2>4 DEF InTurn
<1>11. CASE Sleep(t, c)
  <2>1. at[t] = "sleep" /\ last'[t] = last[t] + P /\ at'[t] = "request" /\ ~ ResumeTail(t, c)
    BY <1>1, <1>3, <1>11, TaskOwn DEF ResumeTail
  <2>2. NextEnd(t)' = NextEnd(t)
    BY <1>1, <2>1 DEF NextEnd
  <2>3. InJob(s) => last[t] + P > last[s]
    BY <1>2, <1>6
  <2> QED BY <1>3, <1>6, <1>7, <2>1, <2>2, <2>3 DEF InTurn
<1> QED BY <1>8, <1>9, <1>10, <1>11 DEF TaskStep, OwnCode

LEMMA InTurnStep ==
    ASSUME PlacementInv, HandleInv, RunInv, RequestTimes, UNCHANGED vars, RunNext,
           NEW t \in Slots, NEW s \in Slots, task_list[t].splitted_ptr = s, InTurn(t, s)
    PROVE  InTurn(t, s)'
<1>1. UNCHANGED task_list /\ TasksTyped
  BY DEF vars, RunInv
<1>1a. \A d \in Cores : Executes(s, d)' => Executes(s, d) \/ Occurs(s, ready)
  BY StillExecutes DEF Threads
<1>2. CASE \E u \in Slots, c \in Cores : TaskStep(u, c)
  <2>1. PICK u \in Slots, c \in Cores : TaskStep(u, c)
    BY <1>2
  <2>2. CASE u # t /\ u # s
    <3>1. at'[t] = at[t] /\ last'[t] = last[t] /\ at'[s] = at[s] /\ last'[s] = last[s]
      BY <1>1, <2>1, <2>2, TaskOwn
    <3>2. task_list[u].splitted_ptr # s
      BY <2>2, BodyFacts
    <3>3. SameLists(s)
      BY <2>1, <2>2, <3>2, TaskLists
    <3>4. Live(s)' => Live(s)
      BY <1>1a, <3>3 DEF Live, SameLists
    <3> QED BY <1>1, <3>1, <3>3, <3>4, InTurnKept DEF SameLists
  <2> QED BY <2>1, <2>2, InTurnTail, InTurnBody
<1>3. CASE \E c \in Cores : Switch(c) \/ MonitorStep(c)
  <2>1. UNCHANGED <<at, last>>
    BY <1>3, OtherEffect DEF taskVars
  <2>2. /\ Occurs(s, ready)' => Occurs(s, ready)
        /\ s \in suspended' => s \in suspended
    BY <1>3, OtherLists
  <2>3. Live(s)' => Live(s)
    BY <1>1a, <2>2 DEF Live
  <2> QED BY <1>1, <2>1, <2>2, <2>3, InTurnKept
<1>4. CASE Tick
  <2>1. UNCHANGED <<at, last>> /\ KernelInv /\ UNCHANGED tcb /\ IncrementTick
    BY <1>4 DEF Tick, RunInv, vars
  <2>2. /\ Occurs(s, ready)' => Occurs(s, ready) \/ Occurs(s, delayed)
        /\ UNCHANGED suspended
    BY <2>1, TickEffect
  <2>3. Occurs(s, delayed) => at[s] # "job"
    BY DEF RequestTimes
  <2>4. at[s] = "job" /\ Live(s)' => Live(s)
    BY <1>1a, <2>2, <2>3 DEF Live
  <2> QED BY <1>1, <2>1, <2>2, <2>4, InTurnKept
<1> QED BY <1>2, <1>3, <1>4 DEF RunNext

LEMMA HandOverStep == SystemInv /\ SystemInv' /\ HandOverInv /\ [SystemNext]_sysVars => HandOverInv'
<1> SUFFICES ASSUME SystemInv, SystemInv', HandOverInv, [SystemNext]_sysVars PROVE HandOverInv'
  OBVIOUS
<1>1. CASE BootStep
  BY <1>1 DEF BootStep, HandOverInv
<1>2. CASE Launch
  <2>1. RunInv'
    BY <1>2, LaunchInv
  <2> QED BY <1>2, <2>1, HandOverLaunch
<1>3. CASE RunStep
  <2>1. /\ pc = "started" /\ UNCHANGED vars /\ RunNext /\ UNCHANGED task_list
        /\ PlacementInv /\ HandleInv /\ RunInv
    BY <1>3 DEF RunStep, SystemInv, vars
  <2>2. FirstTick /\ RequestTimes
    BY <2>1 DEF HandOverInv
  <2>3. FirstTick' /\ RequestTimes'
    BY <2>1, <2>2, FirstTickStep, RequestTimesStep
  <2>4. ASSUME NEW t \in Slots, NEW s \in Slots, task_list'[t].splitted_ptr = s PROVE InTurn(t, s)'
    <3>1. task_list[t].splitted_ptr = s /\ InTurn(t, s)
      BY <2>1, <2>4 DEF HandOverInv
    <3> QED BY <2>1, <2>2, <3>1, InTurnStep
  <2> QED BY <2>3, <2>4 DEF HandOverInv
<1>4. CASE Ended \/ UNCHANGED sysVars
  <2>1. UNCHANGED <<pc, task_list, tcb, at, last, monitor, xTickCount, ready, delayed, suspended,
                    deleted, current, yield, signalled>>
    BY <1>4 DEF Ended, sysVars, vars, runVars, kernelVars, taskVars, monitorVars
  <2>2. /\ \A t : Occurs(t, ready)' <=> Occurs(t, ready)
        /\ \A t : Occurs(t, delayed)' <=> Occurs(t, delayed)
        /\ Created' = Created
        /\ \A t : uxCoreAffinityMask(t)' = uxCoreAffinityMask(t) /\ RunsOn(t)' = RunsOn(t)
        /\ \A t, c : Executes(t, c)' <=> Executes(t, c)
    BY <2>1 DEF Occurs, Created, uxCoreAffinityMask, RunsOn, Executes
  <2>3. pc = "started" => FirstTick'
    BY <2>1, <2>2 DEF HandOverInv, FirstTick
  <2>4. pc = "started" => RequestTimes'
    BY <2>1, <2>2 DEF HandOverInv, RequestTimes, Multiple
  <2>5. ASSUME NEW t \in Slots, NEW s \in Slots, InTurn(t, s) PROVE InTurn(t, s)'
    BY <2>1, <2>2, <2>5 DEF InTurn, BeforeJob, InJob, Live, NextEnd
  <2> QED BY <2>1, <2>3, <2>4, <2>5 DEF HandOverInv
<1> QED BY <1>1, <1>2, <1>3, <1>4 DEF SystemNext

LEMMA TailOfInv == SystemInv /\ HandOverInv => TailFollowsBody
<1> SUFFICES ASSUME SystemInv, HandOverInv, NEW t \in Slots, NEW s \in Slots,
                    task_list[t].splitted_ptr = s, at[s] \in {"loop", "busy", "check"}
             PROVE  last[t] > last[s] \/ (last[t] = last[s] /\ at[t] = "sleep")
  BY DEF TailFollowsBody
<1>1. pc = "started"
  BY DEF SystemInv, RunInit
<1> QED BY <1>1 DEF HandOverInv, InTurn, InJob

(* run_task, vTaskSuspend and vTaskResume: whatever the table, and in      *)
(* whatever order body, tail, monitor and ticks come, the tail of a split  *)
(* task works on a request only after its body has completed it.           *)
THEOREM TailsFollowBodies == SystemSpec => []TailFollowsBody
<1>1. SystemInit => HandOverInv
  BY DEF SystemInit, Init, HandOverInv
<1> QED BY <1>1, SystemInvariant, HandOverStep, TailOfInv, PTL DEF SystemSpec

----------------------------------------------------------------------------
(* The highest priority gets the core.                                     *)

AllPinned == \A s \in Created : Pinned(s)

(* Where every task is pinned and none is above the monitor, nobody waits  *)
(* for a core that executes a task of lower priority and goes on with it.  *)
ServedInv == pc = "started" /\ AllPinned /\ MonitorOnTop => Served

LEMMA PinnedTasks == ASSUME RunInv, AllPinned PROVE TasksPinned
<1> SUFFICES ASSUME NEW t \in Slots, Occurs(t, ready) \/ Occurs(t, delayed) \/ t \in suspended
             PROVE  \E c \in Cores : tcb[t].affinity = {c}
  BY DEF TasksPinned
<1>1. t \in Existing
  BY DEF RunInv, ListedExist, Listed
<1>2. t \in Created
  BY <1>1, ThreadFacts DEF Existing
<1> QED BY <1>2 DEF AllPinned, Pinned

LEMMA ServedUntouched ==
    ASSUME Served, UNCHANGED <<tcb, ready, current>>, \A c \in Cores : yield[c] => yield'[c]
    PROVE  Served'
<1>1. \A t : Occurs(t, ready)' => Occurs(t, ready)
  BY DEF Occurs
<1>2. \A u : Ahead(u, MONITOR, ready)' => Ahead(u, MONITOR, ready)
  BY DEF Ahead
<1> QED BY <1>1, <1>2, ServedKept

LEMMA ServedTask ==
    ASSUME PlacementInv, RunInv, AllPinned, Served, UNCHANGED vars,
           NEW t \in Slots, NEW c \in Cores, TaskStep(t, c)
    PROVE  Served'
<1>1. KernelInv /\ UNCHANGED tcb /\ yield \in [Cores -> BOOLEAN]
  BY DEF RunInv, vars, KernelInv, KernelTyped
<1>2. ASSUME NEW time, DelayUntilTick(c, time) PROVE Served'
  <2>1. ready' = RemoveFirst(ready, current[c]) /\ yield' = [yield EXCEPT ![c] = TRUE] /\ UNCHANGED current
    BY <1>2 DEF DelayUntilTick
  <2>2. \A d \in Cores : yield[d] => yield'[d]
    BY <1>1, <2>1
  <2> QED BY <1>1, <2>1, <2>2, ServedRemove
<1>3. CASE UNCHANGED kernelVars
  BY <1>1, <1>3, ServedUntouched DEF kernelVars
<1>4. CASE Entry(t, c)
  BY <1>2, <1>4 DEF Entry
<1>5. CASE Request(t, c)
  <2>1. CASE SuspendSelf(c)
    <3>1. ready' = RemoveFirst(ready, current[c]) /\ yield' = [yield EXCEPT ![c] = TRUE] /\ UNCHANGED current
      BY <2>1 DEF SuspendSelf
    <3>2. \A d \in Cores : yield[d] => yield'[d]
      BY <1>1, <3>1
    <3> QED BY <1>1, <3>1, <3>2, ServedRemove
  <2> QED BY <1>3, <1>5, <2>1 DEF Request
<1>6. CASE OwnCode(t, c)
  BY <1>3, <1>6, StepKinds
<1>7. CASE ResumeTail(t, c)
  <2>1. PICK s : s = task_list[t].splitted_ptr /\ Resume(s, c)
    BY <1>7 DEF ResumeTail
  <2>2. s \in Slots \cup {NULL}
    BY <2>1 DEF PlacementInv, TypeOK, TaskInfos
  <2>3. CASE s \in suspended
    <3>1. s \in Slots
      <4>1. suspended \subseteq Threads
        BY <1>1 DEF KernelInv, KernelTyped
      <4> QED BY <2>2, <2>3, <4>1, ThreadFacts DEF IDLE
    <3> QED BY <1>1, <2>1, <2>3, <3>1, TCBFacts, PinnedTasks, ServedResume
  <2>4. CASE s \notin suspended
    BY <1>1, <2>1, <2>4, ServedUntouched DEF Resume
  <2> QED BY <2>3, <2>4
<1>8. CASE Sleep(t, c)
  <2>1. CASE YieldWithinAPI(c)
    <3>1. UNCHANGED <<ready, current>> /\ yield' = [yield EXCEPT ![c] = TRUE]
      BY <2>1 DEF YieldWithinAPI
    <3>2. \A d \in Cores : yield[d] => yield'[d]
      BY <1>1, <3>1
    <3> QED BY <1>1, <3>1, <3>2, ServedUntouched
  <2> QED BY <1>2, <1>8, <2>1 DEF Sleep
<1> QED BY <1>4, <1>5, <1>6, <1>7, <1>8 DEF TaskStep, OwnCode

LEMMA ServedMonitor ==
    ASSUME RunInv, Served, UNCHANGED vars, NEW c \in Cores, MonitorStep(c) PROVE Served'
<1>1. KernelInv /\ UNCHANGED tcb /\ yield \in [Cores -> BOOLEAN]
  BY DEF RunInv, vars, KernelInv, KernelTyped
<1>2. CASE MonitorVerdict(c)
  BY <1>1, <1>2, ServedUntouched DEF MonitorVerdict, kernelVars
<1>3. CASE MonitorEntry(c) \/ MonitorDelete(c)
  <2>1. PICK e : /\ ready' = RemoveFirst(ready, e) /\ UNCHANGED current
                 /\ \/ yield' = [yield EXCEPT ![c] = TRUE]
                    \/ yield' = [d \in Cores |-> yield[d] \/ current[d] = e]
    BY <1>3 DEF MonitorEntry, MonitorDelete, DelayUntilTick, Delete
  <2>2. \A d \in Cores : yield[d] => yield'[d]
    BY <1>1, <2>1
  <2> QED BY <1>1, <2>1, <2>2, ServedRemove
<1> QED BY <1>2, <1>3 DEF MonitorStep

LEMMA ServedStep ==
    ASSUME PlacementInv, RunInv, AllPinned, MonitorOnTop, Served, UNCHANGED vars, RunNext
    PROVE  Served'
<1>1. KernelInv /\ UNCHANGED tcb /\ MasksAndPriorities /\ TasksPinned
  BY TCBFacts, PinnedTasks DEF RunInv, vars
<1>2. CASE Tick
  <2>1. IncrementTick /\ \A c \in Cores : ~ yield[c]
    BY <1>2 DEF Tick, Waits
  <2> QED BY <1>1, <2>1, ServedTick
<1>3. ASSUME NEW c \in Cores, Switch(c) PROVE Served'
  BY <1>1, <1>3, ServedSwitch DEF Switch
<1> QED BY <1>2, <1>3, ServedTask, ServedMonitor DEF RunNext

LEMMA ServedInvStep == SystemInv /\ ServedInv /\ [SystemNext]_sysVars => ServedInv'
<1> SUFFICES ASSUME SystemInv, ServedInv, [SystemNext]_sysVars, pc' = "started",
                    AllPinned', MonitorOnTop'
             PROVE  Served'
  BY DEF ServedInv
<1>1. CASE BootStep
  BY <1>1 DEF BootStep
<1>2. CASE Launch
  <2>1. \A c \in Cores : yield'[c]
    BY <1>2 DEF Launch, StartKernel
  <2> QED BY <2>1, ServedStart
<1>3. ASSUME pc = "started", UNCHANGED vars PROVE Served
  <2>1. UNCHANGED <<tcb, task_list>>
    BY <1>3 DEF vars
  <2>2. AllPinned /\ MonitorOnTop
    BY <2>1, SamePriority DEF AllPinned, Pinned, Created, MonitorOnTop
  <2> QED BY <1>3, <2>2 DEF ServedInv
<1>4. CASE RunStep
  <2>1. pc = "started" /\ UNCHANGED vars /\ RunNext /\ PlacementInv /\ RunInv
    BY <1>4 DEF RunStep, SystemInv
  <2>2. AllPinned /\ MonitorOnTop /\ UNCHANGED <<tcb, task_list>>
    BY <2>1, SamePriority DEF vars, AllPinned, Pinned, Created, MonitorOnTop
  <2> QED BY <1>3, <2>1, <2>2, ServedStep
<1>5. CASE Ended \/ UNCHANGED sysVars
  <2>1. UNCHANGED vars /\ UNCHANGED kernelVars /\ UNCHANGED <<pc, tcb>>
    BY <1>5 DEF Ended, sysVars, runVars, vars
  <2>2. Served
    BY <1>3, <2>1
  <2> QED BY <2>1, <2>2, ServedUntouched DEF kernelVars
<1> QED BY <1>1, <1>2, <1>4, <1>5 DEF SystemNext

(* The monitor's 10 is at least the highest priority the kernel has. *)
LEMMA MonitorIsOnTop ==
    ASSUME configMAX_PRIORITIES <= 11, PlacementInv PROVE MonitorOnTop
<1>1. ClampedPriority(10) = configMAX_PRIORITIES - 1 /\ configMAX_PRIORITIES \in Nat \ {0}
  BY PrioritiesAssumption DEF ClampedPriority
<1>2. \A t \in Slots : tcb[t].uxPriority \in 0 .. configMAX_PRIORITIES - 1
  BY DEF PlacementInv, TypeOK, TCBTables
<1>3. uxPriority(MONITOR) = configMAX_PRIORITIES - 1
  BY <1>1, ThreadFacts DEF uxPriority
<1>4. \A t \in Slots : uxPriority(t) = tcb[t].uxPriority
  BY ThreadFacts DEF uxPriority
<1> QED BY <1>1, <1>2, <1>3, <1>4 DEF MonitorOnTop

LEMMA HighestOfInv ==
    ASSUME SystemInv, AssignedInv, ServedInv, PinnedInv, MonitorOnTop, ~ full
    PROVE  HighestPriorityRuns
<1> SUFFICES ASSUME pc = "started", NoPendingSwitch, NEW k \in 1 .. Len(ready),
                    ~ Running(ready[k]), NEW c \in uxCoreAffinityMask(ready[k])
             PROVE  uxPriority(current[c]) >= uxPriority(ready[k])
  BY DEF HighestPriorityRuns
<1>1. RunInv /\ KernelInv /\ MasksAndPriorities
  BY TCBFacts DEF SystemInv, RunInv
<1>2. AllPinned
  BY CreatedPinned DEF PinnedInv, AllPinned, SystemInv
<1>3. Served /\ TasksPinned
  BY <1>1, <1>2, PinnedTasks DEF ServedInv
<1>4. PICK t : t = ready[k]
  OBVIOUS
<1>5. Occurs(t, ready) /\ RunsOn(t) = {} /\ c \in uxCoreAffinityMask(t)
  BY <1>4 DEF Occurs, Running
<1>6. \A d \in Cores : ~ yield[d]
  BY DEF NoPendingSwitch
<1>7. uxPriority(t) <= uxPriority(current[c])
  BY <1>1, <1>3, <1>5, <1>6, ServedIsHighest
<1>8. uxPriority(t) \in Int /\ uxPriority(current[c]) \in Int
  <2>1. t \in Threads /\ uxCoreAffinityMask(t) \subseteq Cores
    BY <1>1, <1>4, MasksTyped DEF KernelInv, KernelTyped
  <2> QED BY <1>1, <1>5, <2>1, PrioritiesTyped DEF KernelInv, KernelTyped
<1> QED BY <1>4, <1>7, <1>8

(* prvYieldForTask, prvSelectHighestPriorityTask and the eviction in       *)
(* vTaskSwitchContext, on any number of cores: unless the boot gave up     *)
(* half-way, and while the kernel has no priority above the monitor's, a   *)
(* ready task that no core executes finds, once no switch is pending, a    *)
(* task of at least its own priority on every core it may use.             *)
THEOREM HighestPriorityExecutes ==
    configMAX_PRIORITIES <= 11 => (SystemSpec => [](~ full => HighestPriorityRuns))
<1> SUFFICES ASSUME configMAX_PRIORITIES <= 11
             PROVE  SystemSpec => [](~ full => HighestPriorityRuns)
  OBVIOUS
<1> DEFINE Inv == SystemInv /\ AssignedInv /\ QueueHasRoom /\ PinnedInv /\ ServedInv
<1>1. SystemInit => Inv
  BY SystemInvInit, RoomInit, AssignedInit, PinnedInit DEF SystemInit, Init, ServedInv
<1>2. Inv /\ [SystemNext]_sysVars => Inv'
  <2> SUFFICES ASSUME Inv, [SystemNext]_sysVars PROVE Inv'
    OBVIOUS
  <2>1. [Next]_vars /\ PlacementInv /\ HandleInv
    BY BootFacts DEF sysVars, SystemInv
  <2> QED BY <2>1, SystemInvStep, ServedInvStep, RoomStep, AssignedStep, PinnedStep
<1>3. Inv => (~ full => HighestPriorityRuns)
  BY MonitorIsOnTop, HighestOfInv DEF SystemInv
<1> QED BY <1>1, <1>2, <1>3, PTL DEF SystemSpec

----------------------------------------------------------------------------
(* An admissible set, from the boot to its jobs.                           *)

LEMMA SystemBoots == SystemSpec => Spec
<1>1. SystemInit => Init
  BY DEF SystemInit
<1>2. [SystemNext]_sysVars => [Next]_vars
  BY BootFacts DEF sysVars
<1> QED BY <1>1, <1>2, PTL DEF SystemSpec, Spec

(* main() and the scheduler together, on the two cores of the RP2040: a    *)
(* set within the bound of the cores is never given up on and every        *)
(* created task is pinned; from then on a job never holds a core longer    *)
(* than its Runtime, nor for less than it but for a tick per preemption,   *)
(* and no ready task waits for a core that executes a lower priority.      *)
THEOREM AdmissibleSetsRun ==
    TwoCores /\ configMAX_PRIORITIES <= 11 =>
        (SystemSpec => [](Admissible => AdmissionOK /\ JobTakesItsRuntime /\ HighestPriorityRuns))
<1> SUFFICES ASSUME TwoCores, configMAX_PRIORITIES <= 11
    PROVE
        (SystemSpec => [](Admissible => AdmissionOK /\ JobTakesItsRuntime /\ HighestPriorityRuns))
  OBVIOUS
<1>1. Spec => []AdmissionOK
  BY AdmissibleSetsArePlaced
<1>2. SystemSpec => [](~ full => HighestPriorityRuns)
  BY HighestPriorityExecutes
<1>3. AdmissionOK /\ Admissible => ~ full
  BY DEF AdmissionOK
<1> QED BY <1>1, <1>2, <1>3, SystemBoots, JobsTakeTheirRuntime, PTL

=============================================================================
