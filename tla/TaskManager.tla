---------------------------- MODULE TaskManager ----------------------------
(***************************************************************************)
(* The data structures of smp_test/task_manager.c and the pure part of its *)
(* functions: the task and core stacks, the utilization bounds, the        *)
(* pre-assignment test, the choice of a core and the split of a task.      *)
(*                                                                         *)
(* A task_info* is a slot of task_list, a core_info* is a core number, a   *)
(* TaskHandle_t is the slot whose xTaskCreate returned it; NULL is -1.     *)
(* A float utilization x is the integer x * UNIT, rounded down where the   *)
(* code rounds (the division Runtime / Period).                            *)
(***************************************************************************)
EXTENDS Integers, Sums

CONSTANTS
    NUM_OF_TASK,            \* periodic tasks in the table
    configNUMBER_OF_CORES,  \* cores of the SMP kernel
    configMAX_PRIORITIES,   \* priorities of the kernel, 0 is the lowest
    UNIT,                   \* the fixed-point value of utilization 1.0
    Utilization_Bound       \* n * (2^(1/n) - 1) in fixed point

ASSUME TaskCountAssumption == NUM_OF_TASK \in Nat \ {0}
ASSUME CoreCountAssumption == configNUMBER_OF_CORES \in Nat \ {0}
ASSUME PrioritiesAssumption == configMAX_PRIORITIES \in Nat \ {0}
ASSUME UnitAssumption == UNIT \in Nat \ {0}
ASSUME BoundAssumption == Utilization_Bound \in 1..UNIT

NULL == -1

MAX_NUM_TASKS == NUM_OF_TASK + configNUMBER_OF_CORES - 1

Slots == 0 .. MAX_NUM_TASKS - 1
Cores == 0 .. configNUMBER_OF_CORES - 1

(* The kernel's priorities: xTaskCreate passes the configured one on.      *)

\* fault: a priority equal to configMAX_PRIORITIES is let through
ClampedPriorityOffByOne(p) ==
    IF p > configMAX_PRIORITIES THEN configMAX_PRIORITIES - 1 ELSE p

(* prvInitialiseNewTask lowers a priority the kernel does not have. *)
ClampedPriority(p) == IF p >= configMAX_PRIORITIES THEN configMAX_PRIORITIES - 1 ELSE p

----------------------------------------------------------------------------
(* task_stack and core_stack: an array and the index of its top element.   *)

TaskStacks == [list : [Slots -> Slots \cup {NULL}], top : -1 .. MAX_NUM_TASKS - 1]
CoreStacks == [list : [Cores -> Cores \cup {NULL}], top : -1 .. configNUMBER_OF_CORES - 1]

(* A global stack before its init_*_stack call: C zeroes it. *)
ZeroTaskStack == [list |-> [s \in Slots |-> NULL], top |-> 0]
ZeroCoreStack == [list |-> [c \in Cores |-> NULL], top |-> 0]

(* init_task_stack and init_core_stack: only the index is reset. *)
init_stack(stack) == [stack EXCEPT !.top = -1]

is_empty(stack) == stack.top < 0

T_is_full(stack) == stack.top >= MAX_NUM_TASKS - 1
C_is_full(stack) == stack.top >= configNUMBER_OF_CORES - 1

Pushed(x, stack) == [list |-> [stack.list EXCEPT ![stack.top + 1] = x],
                     top  |-> stack.top + 1]

(* A push on a full stack prints a message and drops the element. *)
Push_task(T, stack) == IF T_is_full(stack) THEN stack ELSE Pushed(T, stack)
Push_core(C, stack) == IF C_is_full(stack) THEN stack ELSE Pushed(C, stack)

(* Pop_task and Pop_core return Top(stack) and leave Popped(stack). *)
Top(stack) == IF is_empty(stack) THEN NULL ELSE stack.list[stack.top]
Popped(stack) == IF is_empty(stack) THEN stack ELSE [stack EXCEPT !.top = @ - 1]

(* init_core: every core is pushed, core 0 first. *)
AllCores == [list |-> [c \in Cores |-> c], top |-> configNUMBER_OF_CORES - 1]

----------------------------------------------------------------------------
(* task_info, reduced to the fields the program reads again.               *)

TaskInfos == [Runtime : Nat, Period : Nat, priority : Nat, subnum : Nat,
              my_ptr : Slots \cup {NULL}, splitted_ptr : Slots \cup {NULL},
              Dependency : BOOLEAN, Heavy : BOOLEAN, Utilization : Nat]

(* A row of the table main.c initialises task_list with. *)
Row(Runtime, Period, priority) ==
    [Runtime |-> Runtime, Period |-> Period, priority |-> priority, subnum |-> 1,
     my_ptr |-> NULL, splitted_ptr |-> NULL,
     Dependency |-> FALSE, Heavy |-> FALSE, Utilization |-> 0]

ExtraRow == Row(0, 0, 1)

UtilizationOf(T) == (T.Runtime * UNIT) \div T.Period

(* utilization > Light_bound, where Light_bound is U / (1 + U). *)
ExceedsLightBound(u) == u * (UNIT + Utilization_Bound) > Utilization_Bound * UNIT

(* The task is measured and classified; the caller also creates it. *)
Classified(T) ==
    [T EXCEPT !.Utilization = UtilizationOf(T),
              !.Heavy = @ \/ ExceedsLightBound(UtilizationOf(T))]

(* The heavy task at position i of the task manager may be given a core of *)
(* its own: the tasks of lower priority fit the other normal cores.        *)
LowerUtilization(i, task_list, manager) ==
    PrefixSum([k \in 0 .. NUM_OF_TASK - i - 2 |->
                  task_list[manager.list[i + 1 + k]].Utilization],
              NUM_OF_TASK - i - 1)

\* fault: the core about to be given away is counted as still available
simple_test_counts_own(i, task_list, manager, cores) ==
    ~ (LowerUtilization(i, task_list, manager) > (cores.top + 1) * Utilization_Bound)

simple_test(i, task_list, manager, cores) ==
    ~ (LowerUtilization(i, task_list, manager) > cores.top * Utilization_Bound)

(* The least utilized core of a non-empty stack; of equals, the one nearest *)
(* the top, where the scan starts.                                          *)
get_min_core(stack, core_list) ==
    stack.list[CHOOSE k \in 0 .. stack.top :
        \A j \in 0 .. stack.top :
            /\ core_list[stack.list[k]].Utilization <= core_list[stack.list[j]].Utilization
            /\ j > k => core_list[stack.list[k]].Utilization < core_list[stack.list[j]].Utilization]

----------------------------------------------------------------------------
(* Task_split: the body keeps the utilization the core has left, converted *)
(* back to whole ticks by truncation; the tail is the rest.                *)

\* fault: the body's utilization is brought down to its truncated ticks
Body_task_remeasured(T, C) ==
    LET ticks == ((Utilization_Bound - C.Utilization) * T.Period) \div UNIT IN
    [T EXCEPT !.Utilization = (ticks * UNIT) \div T.Period, !.Runtime = ticks]

Body_task(T, C) ==
    LET u == Utilization_Bound - C.Utilization IN
    [T EXCEPT !.Utilization = u, !.Runtime = (u * T.Period) \div UNIT]

\* fault: the tail's ticks are truncated from its utilization like the body's
Tail_task_truncated(T, C, slot) ==
    [slot EXCEPT !.Period = T.Period,
                 !.priority = T.priority,
                 !.Utilization = T.Utilization - Body_task(T, C).Utilization,
                 !.Runtime = ((T.Utilization - Body_task(T, C).Utilization) * T.Period) \div UNIT,
                 !.subnum = T.subnum + 1,
                 !.Dependency = TRUE]

\* fault: the tail is measured again from the ticks it was left
Tail_task_remeasured(T, C, slot) ==
    [slot EXCEPT !.Period = T.Period,
                 !.priority = T.priority,
                 !.Utilization = ((T.Runtime - Body_task(T, C).Runtime) * UNIT) \div T.Period,
                 !.Runtime = T.Runtime - Body_task(T, C).Runtime,
                 !.subnum = T.subnum + 1,
                 !.Dependency = TRUE]

Tail_task(T, C, slot) ==
    [slot EXCEPT !.Period = T.Period,
                 !.priority = T.priority,
                 !.Utilization = T.Utilization - Body_task(T, C).Utilization,
                 !.Runtime = T.Runtime - Body_task(T, C).Runtime,
                 !.subnum = T.subnum + 1,
                 !.Dependency = TRUE]

=============================================================================
