----------------------------- MODULE Partition -----------------------------
(***************************************************************************)
(* The boot of smp_test: main() up to vTaskStartScheduler, in the SPA2     *)
(* build. It creates the monitor and the periodic tasks, gives heavy tasks *)
(* a core of their own (PRE-ASSIGN), and spreads the rest over the cores,  *)
(* splitting the task that does not fit into a body and a tail             *)
(* (NORMAL-ASSIGN). One action per iteration of each loop.                 *)
(*                                                                         *)
(* Where the code reads memory it does not own (list[-1], NULL) the boot   *)
(* has no defined continuation: pc becomes "undefined" and stays there.    *)
(* Pinning a task that was never created stores through its NULL handle    *)
(* (configASSERT is empty in this build): the store faults, or is lost in  *)
(* the boot ROM and the boot goes on. Both are possible here.              *)
(***************************************************************************)
EXTENDS TaskControl

CONSTANTS
    HeapSizes,    \* the heaps considered, as the xTaskCreate calls they serve
    TaskTables    \* the task tables considered, each on 0 .. NUM_OF_TASK - 1

ASSUME HeapAssumption == HeapSizes \subseteq Nat

(* A table row, its period short enough that UNIT resolves one tick of it. *)
Rows == [Runtime : Nat \ {0}, Period : 1 .. UNIT, priority : Nat]

ASSUME TablesAssumption == TaskTables \subseteq [0 .. NUM_OF_TASK - 1 -> Rows]

VARIABLES
    pc,                 \* the loop main() is in; "spa1" only in the build of Spa1
    i,                  \* the index of the init_task and PRE-ASSIGN loops
    table,              \* history: the table task_list was initialised with
    heap_size,          \* history: the xTaskCreate calls the whole heap serves
    task_list,          \* the task_info array
    assigned,           \* history: the core Assign_task was given for each slot
    core_list,          \* the core_info array
    core_manager,       \* stack of the cores for normal assignment
    pre_assigned_core,  \* stack of the cores that hold a heavy task
    task_manager,       \* stack of all tasks of the table
    UQ,                 \* stack of the tasks still without a core
    curr_idx,           \* the next free slot of task_list
    heap,               \* xTaskCreate calls the heap still serves
    full                \* "ALL PROCESSORS FULLY UTILIZED" was printed

vars == <<pc, i, table, heap_size, task_list, assigned, tcb, core_list, core_manager,
          pre_assigned_core, task_manager, UQ, curr_idx, heap, full>>

----------------------------------------------------------------------------
(* The kernel calls of the boot.                                           *)

(* xTaskCreate(slot): on success the handle is stored, the TCB is runnable *)
(* on every core; without heap nothing is stored, and no caller looks.     *)
CreatedIn(slot, list) ==
    IF heap > 0 THEN [list EXCEPT ![slot].my_ptr = slot] ELSE list

CreateTCB(slot, priority) ==
    tcb' = IF heap > 0
             THEN [tcb EXCEPT ![slot] = [uxPriority |-> ClampedPriority(priority),
                                         affinity   |-> Cores]]
             ELSE tcb

HeapAfterCreate == IF heap > 0 THEN heap - 1 ELSE heap

(* Assign_task(T, C): vTaskCoreAffinitySet on the handle, then the ledger. *)
\* fault: the core forgets what it was charged before
ChargedAfresh(C, u) == [core_list EXCEPT ![C].Utilization = u]

PinnedTo(T, C, tcbs) ==
    IF task_list[T].my_ptr = NULL THEN tcbs ELSE [tcbs EXCEPT ![T].affinity = {C}]
Charged(C, u) == [core_list EXCEPT ![C].Utilization = @ + u]

----------------------------------------------------------------------------
Init ==
    /\ pc = "boot"
    /\ i = 0
    /\ table \in TaskTables
    /\ task_list = [s \in Slots |->
           IF s < NUM_OF_TASK
             THEN Row(table[s].Runtime, table[s].Period, table[s].priority)
             ELSE ExtraRow]
    /\ assigned = [s \in Slots |-> NULL]
    /\ tcb = [s \in Slots |-> NoTCB]
    /\ core_list = [c \in Cores |-> [Utilization |-> 0, pre_assigned |-> FALSE]]
    /\ core_manager = ZeroCoreStack
    /\ pre_assigned_core = ZeroCoreStack
    /\ task_manager = ZeroTaskStack
    /\ UQ = ZeroTaskStack
    /\ curr_idx = 0
    /\ heap_size \in HeapSizes
    /\ heap = heap_size
    /\ full = FALSE

(* main: create MONITOR, init_core, the head of init_task. *)
Boot ==
    /\ pc = "boot"
    /\ pc' = "init_task"
    /\ heap' = HeapAfterCreate
    /\ core_manager' = AllCores
    /\ task_manager' = init_stack(task_manager)
    /\ UNCHANGED <<i, table, heap_size, task_list, assigned, tcb, core_list,
                   pre_assigned_core, UQ, curr_idx, full>>

(* One iteration of the loop of init_task. *)
InitTask ==
    /\ pc = "init_task"
    /\ i < NUM_OF_TASK
    /\ task_manager' = Push_task(i, task_manager)
    /\ LET T == task_manager'.list[i] IN
         /\ task_list' = CreatedIn(T, [task_list EXCEPT ![T] = Classified(@)])
         /\ CreateTCB(T, task_list[T].priority)
    /\ heap' = HeapAfterCreate
    /\ i' = i + 1
    /\ UNCHANGED <<pc, table, heap_size, assigned, core_list, core_manager,
                   pre_assigned_core, UQ, curr_idx, full>>

(* main, between init_task and PRE-ASSIGN. *)
InitQueues ==
    /\ pc = "init_task"
    /\ i = NUM_OF_TASK
    /\ pc' = "pre_assign"
    /\ i' = 0
    /\ curr_idx' = NUM_OF_TASK
    /\ pre_assigned_core' = init_stack(pre_assigned_core)
    /\ UQ' = init_stack(UQ)
    /\ UNCHANGED <<table, heap_size, task_list, assigned, tcb, core_list,
                   core_manager, task_manager, heap, full>>

----------------------------------------------------------------------------
(* PRE-ASSIGN                                                              *)

TakesOwnCore(T) ==
    task_list[T].Heavy /\ simple_test(i, task_list, task_manager, core_manager)

(* The pre-assigned task: its core leaves core_manager for good. *)
PreAssign ==
    /\ pc = "pre_assign"
    /\ i < NUM_OF_TASK
    /\ LET T == task_manager.list[i]
           C == Top(core_manager)
       IN /\ TakesOwnCore(T)
          /\ C # NULL
          /\ core_manager' = Popped(core_manager)
          /\ tcb' = PinnedTo(T, C, tcb)
          /\ assigned' = [assigned EXCEPT ![T] = C]
          /\ core_list' = [Charged(C, task_list[T].Utilization)
                             EXCEPT ![C].pre_assigned = TRUE]
          /\ pre_assigned_core' = Push_core(C, pre_assigned_core)
    /\ i' = i + 1
    /\ UNCHANGED <<pc, table, heap_size, task_list, task_manager, UQ, curr_idx, heap,
                   full>>

(* A NULL core is dereferenced, or a store through a NULL handle faults. *)
PreAssignNull ==
    /\ pc = "pre_assign"
    /\ i < NUM_OF_TASK
    /\ LET T == task_manager.list[i]
       IN /\ TakesOwnCore(T)
          /\ Top(core_manager) = NULL \/ task_list[T].my_ptr = NULL
    /\ pc' = "undefined"
    /\ UNCHANGED <<i, table, heap_size, task_list, assigned, tcb, core_list,
                   core_manager, pre_assigned_core, task_manager, UQ, curr_idx, heap,
                   full>>

Queue ==
    /\ pc = "pre_assign"
    /\ i < NUM_OF_TASK
    /\ ~ TakesOwnCore(task_manager.list[i])
    /\ UQ' = Push_task(task_manager.list[i], UQ)
    /\ i' = i + 1
    /\ UNCHANGED <<pc, table, heap_size, task_list, assigned, tcb, core_list,
                   core_manager, pre_assigned_core, task_manager, curr_idx, heap,
                   full>>

PreAssignDone ==
    /\ pc = "pre_assign"
    /\ i = NUM_OF_TASK
    /\ pc' = "normal_assign"
    /\ UNCHANGED <<i, table, heap_size, task_list, assigned, tcb, core_list,
                   core_manager, pre_assigned_core, task_manager, UQ, curr_idx, heap,
                   full>>

----------------------------------------------------------------------------
(* NORMAL-ASSIGN                                                           *)

MinCoreIsFull ==
    core_list[get_min_core(core_manager, core_list)].Utilization >= Utilization_Bound

(* The core of this iteration: the least utilized normal core, or, when    *)
(* that one is full, the last pre-assigned core.                           *)
SelectedCore ==
    IF MinCoreIsFull THEN Top(pre_assigned_core)
                     ELSE get_min_core(core_manager, core_list)

(* Every iteration pops T; a pre-assigned core is popped and pushed back.  *)
AfterUse(C) ==
    LET rest == IF MinCoreIsFull THEN Popped(pre_assigned_core) ELSE pre_assigned_core
    IN IF core_list[C].pre_assigned THEN Push_core(C, rest) ELSE rest

\* fault: a core is filled up to 1.0 instead of the bound
FitsOneCore(T, C) ==
    core_list[C].Utilization + task_list[T].Utilization <= UNIT

\* fault: a task that fits exactly is split
FitsStrictly(T, C) ==
    core_list[C].Utilization + task_list[T].Utilization < Utilization_Bound

Fits(T, C) ==
    core_list[C].Utilization + task_list[T].Utilization <= Utilization_Bound

InNormalAssign == pc = "normal_assign" /\ ~ is_empty(UQ)

CoreIsUsable ==
    /\ ~ is_empty(core_manager)
    /\ SelectedCore # NULL
    /\ core_list[SelectedCore].Utilization < Utilization_Bound

AssignWhole ==
    /\ InNormalAssign
    /\ CoreIsUsable
    /\ LET T == Top(UQ)
           C == SelectedCore
       IN /\ Fits(T, C)
          /\ tcb' = PinnedTo(T, C, tcb)
          /\ assigned' = [assigned EXCEPT ![T] = C]
          /\ core_list' = Charged(C, task_list[T].Utilization)
          /\ pre_assigned_core' = AfterUse(C)
    /\ UQ' = Popped(UQ)
    /\ UNCHANGED <<pc, i, table, heap_size, task_list, core_manager, task_manager,
                   curr_idx, heap, full>>

(* new_task, Task_split, Assign_task of the body. The tail's handle is     *)
(* copied to the body after the tail was created, so it may be NULL.       *)
AssignSplit ==
    /\ InNormalAssign
    /\ CoreIsUsable
    /\ curr_idx < MAX_NUM_TASKS
    /\ LET T == Top(UQ)
           C == SelectedCore
           body == Body_task(task_list[T], core_list[C])
           tail == Tail_task(task_list[T], core_list[C], task_list[curr_idx])
           created == CreatedIn(curr_idx, [task_list EXCEPT ![T] = body,
                                                            ![curr_idx] = tail])
       IN /\ ~ Fits(T, C)
          /\ task_list' = [created EXCEPT ![T].splitted_ptr = created[curr_idx].my_ptr]
          /\ tcb' = PinnedTo(T, C,
                       IF heap > 0
                         THEN [tcb EXCEPT ![curr_idx] =
                                  [uxPriority |-> ClampedPriority(tail.priority),
                                   affinity   |-> Cores]]
                         ELSE tcb)
          /\ assigned' = [assigned EXCEPT ![T] = C]
          /\ core_list' = Charged(C, body.Utilization)
          /\ pre_assigned_core' = AfterUse(C)
          /\ UQ' = Push_task(curr_idx, Popped(UQ))
    /\ curr_idx' = curr_idx + 1
    /\ heap' = HeapAfterCreate
    /\ UNCHANGED <<pc, i, table, heap_size, core_manager, task_manager, full>>

(* "ALL PROCESSORS FULLY UTILIZED": the loop is left with T popped. *)
ReportFull ==
    /\ InNormalAssign
    /\ ~ is_empty(core_manager)
    /\ MinCoreIsFull
    /\ SelectedCore # NULL
    /\ core_list[SelectedCore].Utilization >= Utilization_Bound
    /\ UQ' = Popped(UQ)
    /\ pre_assigned_core' = Popped(pre_assigned_core)
    /\ full' = TRUE
    /\ pc' = "started"
    /\ UNCHANGED <<i, table, heap_size, task_list, assigned, tcb, core_list,
                   core_manager, task_manager, curr_idx, heap>>

(* get_min_core on an empty stack reads list[-1]. *)
NoNormalCore == is_empty(core_manager)

(* Every normal core is full and there is no pre-assigned one: NULL. *)
NoCoreAtAll == ~ is_empty(core_manager) /\ SelectedCore = NULL

(* new_task returned NULL and Task_split writes through it. *)
NoSlotLeft ==
    CoreIsUsable /\ ~ Fits(Top(UQ), SelectedCore) /\ curr_idx >= MAX_NUM_TASKS

(* The task was never created: the store through its NULL handle faults. *)
NoHandle == CoreIsUsable /\ task_list[Top(UQ)].my_ptr = NULL

NormalAssignUndefined ==
    /\ InNormalAssign
    /\ NoNormalCore \/ NoCoreAtAll \/ NoSlotLeft \/ NoHandle
    /\ pc' = "undefined"
    /\ UNCHANGED <<i, table, heap_size, task_list, assigned, tcb, core_list,
                   core_manager, pre_assigned_core, task_manager, UQ, curr_idx, heap,
                   full>>

StartScheduler ==
    /\ pc = "normal_assign"
    /\ is_empty(UQ)
    /\ pc' = "started"
    /\ UNCHANGED <<i, table, heap_size, task_list, assigned, tcb, core_list,
                   core_manager, pre_assigned_core, task_manager, UQ, curr_idx, heap,
                   full>>

(* main() never returns: the scheduler has taken over, or nothing is known. *)
Finished == pc \in {"started", "undefined"} /\ UNCHANGED vars

Next ==
    \/ Boot
    \/ InitTask
    \/ InitQueues
    \/ PreAssign
    \/ PreAssignNull
    \/ Queue
    \/ PreAssignDone
    \/ AssignWhole
    \/ AssignSplit
    \/ ReportFull
    \/ NormalAssignUndefined
    \/ StartScheduler
    \/ Finished

Spec == Init /\ [][Next]_vars

----------------------------------------------------------------------------
(* Properties                                                              *)

Created == {s \in Slots : task_list[s].my_ptr # NULL}
Queued == {UQ.list[k] : k \in 0 .. UQ.top}
Pinned(s) == \E c \in Cores : tcb[s].affinity = {c}

Total == PrefixSum([t \in 0 .. NUM_OF_TASK - 1 |-> UtilizationOf(table[t])], NUM_OF_TASK)

TCBTables == [Slots -> [uxPriority : 0 .. configMAX_PRIORITIES - 1, affinity : SUBSET Cores]]
CoreTables == [Cores -> [Utilization : Nat, pre_assigned : BOOLEAN]]

(* Every variable of the boot stays in the range its C declaration gives   *)
(* it: stacks within their arrays, handles and pointers within task_list.  *)
TypeOK ==
    /\ pc \in {"boot", "init_task", "pre_assign", "normal_assign", "spa1", "started",
              "undefined"}
    /\ i \in 0 .. NUM_OF_TASK
    /\ table \in [0 .. NUM_OF_TASK - 1 -> Rows]
    /\ task_list \in [Slots -> TaskInfos]
    /\ assigned \in [Slots -> Cores \cup {NULL}]
    /\ tcb \in TCBTables
    /\ core_list \in CoreTables
    /\ core_manager \in CoreStacks
    /\ pre_assigned_core \in CoreStacks
    /\ task_manager \in TaskStacks
    /\ UQ \in TaskStacks
    /\ curr_idx \in 0 .. MAX_NUM_TASKS
    /\ heap_size \in Nat
    /\ heap \in 0 .. heap_size
    /\ full \in BOOLEAN

(* A task set the partitioner has to accept: its utilization is within the *)
(* bound of the two cores, its lowest-priority task is light, and the heap *)
(* serves the monitor, the tasks and one tail.                             *)
Admissible ==
    /\ Total <= configNUMBER_OF_CORES * Utilization_Bound
    /\ ~ ExceedsLightBound(UtilizationOf(table[NUM_OF_TASK - 1]))
    /\ heap_size >= NUM_OF_TASK + configNUMBER_OF_CORES

(* main() on an admissible set (main.c 118-170): it never reads outside a  *)
(* stack or through NULL, never gives up, and when the scheduler starts    *)
(* every created task is pinned to exactly one core.                       *)
AdmissionOK ==
    Admissible => /\ pc # "undefined"
                  /\ ~ full
                  /\ pc = "started" => \A s \in Created : Pinned(s)

(* Task_split (task_manager.c 111-130): a split loses no execution time.   *)
(* The body and the tail together still run for the ticks of the table,    *)
(* the tail has work to do, waits for the body and keeps its period. (A    *)
(* tail the heap had no room for is lost: its handle is NULL.)             *)
SplitKeepsWork ==
    \A t \in 0 .. NUM_OF_TASK - 1 :
        LET s == task_list[t].splitted_ptr IN
        IF s = NULL
          THEN task_list[t].Runtime = table[t].Runtime \/ heap = 0
          ELSE /\ task_list[t].Runtime + task_list[s].Runtime = table[t].Runtime
               /\ task_list[s].Runtime > 0
               /\ task_list[s].Period = table[t].Period
               /\ task_list[s].Dependency
               /\ ~ task_list[t].Dependency

(* Task_split and get_min_core: the parts of a split task, which run one   *)
(* after the other, never share a core.                                    *)
SplitPartsApart ==
    \A t, s \in Slots :
        /\ task_list[t].splitted_ptr = s
        /\ Pinned(t) /\ Pinned(s)
        => tcb[t].affinity # tcb[s].affinity

(* PRE-ASSIGN and NORMAL-ASSIGN (main.c 118-170) together: the body of a   *)
(* split task has the highest configured priority of all tasks on its      *)
(* core, so that its tail, which waits for it elsewhere, is never held up  *)
(* behind other work. It rests on the order of the two stacks and on what  *)
(* simple_test left for the normal cores.                                  *)
BodyIsFirstOnItsCore ==
    \A t, s \in Slots :
        /\ task_list[t].splitted_ptr # NULL
        /\ s # t
        /\ Pinned(t) /\ tcb[s].affinity = tcb[t].affinity
        => task_list[s].priority < task_list[t].priority

(* Assign_task (task_manager.c 138-145): the utilization recorded for a    *)
(* core is that of the tasks assigned to it, no task counted twice; those  *)
(* of them that exist may use this core only, the unassigned ones any.     *)
CoreLedger ==
    /\ \A c \in Cores :
          core_list[c].Utilization =
              PrefixSum([s \in Slots |-> IF assigned[s] = c
                                           THEN task_list[s].Utilization ELSE 0],
                        MAX_NUM_TASKS)
    /\ \A s \in Created :
          tcb[s].affinity = IF assigned[s] = NULL THEN Cores ELSE {assigned[s]}

(* main.c 142-163: once a task has been pinned to a core it stays there,   *)
(* and NORMAL-ASSIGN never charges a core past the bound.                  *)
AssignmentIsFinal ==
    [][/\ \A s \in Slots : Pinned(s) => tcb'[s].affinity = tcb[s].affinity
       /\ pc = "normal_assign" =>
            \A c \in Cores : core_list'[c] # core_list[c]
                               => core_list'[c].Utilization <= Utilization_Bound]_vars

(* What is still to be placed under the name of each slot: before init_task *)
(* has measured it, the utilization the table gives it.                     *)
Unassigned ==
    [s \in Slots |->
        IF assigned[s] # NULL THEN 0
        ELSE IF pc \in {"boot", "init_task"} /\ s < NUM_OF_TASK
               THEN UtilizationOf(table[s])
               ELSE task_list[s].Utilization]

Promise == INSTANCE Placement WITH
    Pieces     <- Slots,
    Processors <- Cores,
    Bound      <- Utilization_Bound,
    waiting    <- Unassigned,
    load       <- [c \in Cores |-> core_list[c].Utilization]

(* main.c 118-199 implements semi-partitioning: whatever the stacks, the   *)
(* slots and the handles do, utilization only ever moves from a waiting    *)
(* task to a core, whole within the bound, to an empty core of its own, or *)
(* split so that the core is filled exactly, and none is lost on the way.  *)
ImplementsPlacement == Promise!PlacementSpec

(* The paper the partitioner implements places every set whose utilization *)
(* is within the bound of the cores. The same without the condition that   *)
(* the lowest-priority task is light: main() would always get through.     *)
BoundedSetGetsThrough ==
    /\ Total <= configNUMBER_OF_CORES * Utilization_Bound
    /\ heap_size >= NUM_OF_TASK + configNUMBER_OF_CORES
    => pc # "undefined"

(* main.c 147: a set too large for the cores is reported with the message  *)
(* "ALL PROCESSORS FULLY UTILIZED", also when it has no heavy task.        *)
OverloadIsReported ==
    /\ Total > configNUMBER_OF_CORES * Utilization_Bound
    /\ \A t \in 0 .. NUM_OF_TASK - 1 : ~ ExceedsLightBound(UtilizationOf(table[t]))
    /\ heap_size >= NUM_OF_TASK + configNUMBER_OF_CORES
    => pc # "undefined" /\ (pc = "started" => full)

(* What the tasks pinned to a core really ask of it, Runtime over Period,  *)
(* is within the bound the partitioner promises for the core.              *)
DemandWithinBound ==
    pc = "started" =>
        \A c \in Cores :
            PrefixSum([s \in Slots |-> IF tcb[s].affinity = {c}
                                         THEN UtilizationOf(task_list[s]) ELSE 0],
                      MAX_NUM_TASKS) <= Utilization_Bound

=============================================================================
