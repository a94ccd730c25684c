-------------------------- MODULE PartitionProofs --------------------------
(***************************************************************************)
(* Theorems about the boot of smp_test (module Partition), for every       *)
(* number of tasks, task table, heap size, bound and, where nothing else   *)
(* is said, every number of cores. First the shape of the table in every   *)
(* loop, and that assignments are final; then the bookkeeping: the         *)
(* utilization recorded for a core is that of the tasks assigned to it,    *)
(* and the boot implements Placement.                                      *)
(***************************************************************************)
EXTENDS Partition, CommonProofs

----------------------------------------------------------------------------
(* Facts about numbers.                                                    *)

(* Truncating division, as the conversion from utilization to ticks uses it. *)
LEMMA DivFacts ==
    ASSUME NEW a \in Nat, NEW p \in Nat \ {0}
    PROVE  a \div p \in Nat /\ (a \div p) * p <= a
  OBVIOUS

(* A body never runs longer than the task it was cut from. *)
LEMMA BodyFits ==
    ASSUME NEW u \in Nat, NEW U \in Nat, u <= U, NEW P \in Nat, NEW R \in Nat,
           NEW K \in Nat \ {0}, U * P <= R * K
    PROVE  /\ (u * P) \div K \in 0 .. R
           /\ (U - u) * P <= (R - ((u * P) \div K)) * K
<1> DEFINE r == (u * P) \div K
<1>1. u * P \in Nat /\ u * P <= U * P
  OBVIOUS
<1>2. r \in Nat /\ r * K <= u * P
  BY <1>1, DivFacts
<1> HIDE DEF r
<1>3. r <= R
  BY <1>1, <1>2
<1>4. (U - u) * P = U * P - u * P /\ (R - r) * K = R * K - r * K
  BY <1>2
<1>5. (U - u) * P <= (R - r) * K
  BY <1>1, <1>2, <1>4
<1> QED
  BY <1>2, <1>3, <1>5 DEF r

LEMMA ConstantFacts ==
    /\ NUM_OF_TASK \in Nat \ {0}
    /\ configNUMBER_OF_CORES \in Nat \ {0}
    /\ configMAX_PRIORITIES \in Nat \ {0}
    /\ UNIT \in Nat \ {0}
    /\ Utilization_Bound \in 1 .. UNIT
    /\ MAX_NUM_TASKS \in Nat
    /\ MAX_NUM_TASKS >= NUM_OF_TASK
    /\ Slots = 0 .. MAX_NUM_TASKS - 1
    /\ 0 .. NUM_OF_TASK - 1 \subseteq Slots
    /\ Cores = 0 .. configNUMBER_OF_CORES - 1
    /\ NULL = -1
    /\ NULL \notin Slots
    /\ NULL \notin Cores
  BY TaskCountAssumption, CoreCountAssumption, PrioritiesAssumption, UnitAssumption,
     BoundAssumption
     DEF MAX_NUM_TASKS, Slots, Cores, NULL

----------------------------------------------------------------------------
(* Facts about the stacks.                                                 *)

(* get_min_core returns a least utilized core of a non-empty stack. *)
LEMMA MinCore ==
    ASSUME NEW stack \in CoreStacks, NEW cl \in CoreTables,
           stack.top >= 0,
           \A k \in 0 .. stack.top : stack.list[k] \in Cores
    PROVE  \E k \in 0 .. stack.top :
              /\ get_min_core(stack, cl) = stack.list[k]
              /\ \A j \in 0 .. stack.top :
                    cl[stack.list[k]].Utilization <= cl[stack.list[j]].Utilization
<1> DEFINE n == stack.top
           u(k) == cl[stack.list[k]].Utilization
           Best(k) == \A j \in 0 .. n : u(k) <= u(j) /\ (j > k => u(k) < u(j))
<1>1. n \in Nat
  BY ConstantFacts DEF CoreStacks
<1>2. \A k \in 0 .. n : u(k) \in Nat
  BY DEF CoreTables
<1> HIDE DEF n, u
<1> DEFINE V == {u(k) : k \in 0 .. n}
<1>3. PICK v \in V : \A w \in V : v <= w
  <2>1. V \in SUBSET Nat /\ V # {}
    BY <1>1, <1>2
  <2> HIDE DEF V
  <2> QED BY <2>1, LeastElement
<1> DEFINE D == {d \in 0 .. n : u(n - d) = v}
<1>4. PICK d \in D : \A e \in D : d <= e
  <2>1. PICK k \in 0 .. n : u(k) = v
    BY <1>3
  <2>2. n - k \in 0 .. n /\ n - (n - k) = k
    BY <1>1
  <2>3. D \in SUBSET Nat /\ D # {}
    BY <1>1, <2>1, <2>2
  <2> HIDE DEF D
  <2> QED BY <2>3, LeastElement
<1>5. n - d \in 0 .. n /\ Best(n - d)
  <2>1. n - d \in 0 .. n /\ d \in 0 .. n /\ u(n - d) = v
    BY <1>1, <1>4
  <2>2. \A j \in 0 .. n : v <= u(j)
    BY <1>3
  <2>3. ASSUME NEW j \in 0 .. n, j > n - d PROVE v # u(j)
    <3>1. n - j \in 0 .. n /\ n - (n - j) = j /\ ~ (d <= n - j)
      BY <1>1, <2>1, <2>3
    <3> QED BY <1>4, <3>1
  <2> QED BY <1>2, <1>3, <2>1, <2>2, <2>3
<1> DEFINE k == CHOOSE k \in 0 .. n : Best(k)
<1>6. k \in 0 .. n /\ Best(k)
  <2> HIDE DEF Best
  <2> QED BY <1>5
<1>7. get_min_core(stack, cl) = stack.list[k]
  BY DEF get_min_core, n, u
<1> HIDE DEF k
<1> QED
  BY <1>6, <1>7 DEF n, u

----------------------------------------------------------------------------
(* The inductive invariant                                                 *)

Booting == pc \in {"boot", "init_task"}
Placing == pc \in {"pre_assign", "normal_assign"}

(* task_manager lists the tasks of the table in order. *)
ManagerInOrder ==
    /\ pc = "boot" => i = 0
    /\ pc = "init_task" => /\ task_manager.top = i - 1
                           /\ \A k \in 0 .. i - 1 : task_manager.list[k] = k
    /\ pc = "pre_assign" => \A k \in 0 .. NUM_OF_TASK - 1 : task_manager.list[k] = k

(* The core stacks hold cores, core_manager in order. *)
CoreStacksHoldCores ==
    /\ pc # "boot" => core_manager.list = [c \in Cores |-> c]
    /\ ~ Booting => \A k \in 0 .. pre_assigned_core.top : pre_assigned_core.list[k] \in Cores

(* UQ holds tasks already seen, each once, in increasing order. *)
QueueInOrder ==
    Placing =>
        /\ curr_idx >= NUM_OF_TASK
        /\ pc = "pre_assign" => curr_idx = NUM_OF_TASK
        /\ \A k \in 0 .. UQ.top :
              UQ.list[k] \in 0 .. (IF pc = "pre_assign" THEN i ELSE curr_idx) - 1
        /\ \A j, k \in 0 .. UQ.top : j < k => UQ.list[j] < UQ.list[k]

(* The utilization of a task never exceeds its runtime over its period.    *)
Covered(T) == T.Utilization * T.Period <= T.Runtime * UNIT

PeriodsKept == \A t \in 0 .. NUM_OF_TASK - 1 : task_list[t].Period = table[t].Period

(* The tasks still to be placed are covered; a body is not, any more. *)
WaitingCovered ==
    /\ pc = "init_task" => \A s \in 0 .. i - 1 : Covered(task_list[s])
    /\ pc = "pre_assign" => \A s \in 0 .. NUM_OF_TASK - 1 : Covered(task_list[s])
    /\ Placing => \A k \in 0 .. UQ.top : Covered(task_list[UQ.list[k]])

(* The tasks still to be placed may run on every core, if they exist. *)
Unplaced(b) == b.affinity \in {{}, Cores}

WaitingUnplaced ==
    /\ Booting => \A s \in Slots : s >= i => tcb[s] = NoTCB
    /\ Booting => \A s \in Slots : Unplaced(tcb[s])
    /\ pc = "pre_assign" => \A s \in i .. NUM_OF_TASK - 1 : Unplaced(tcb[s])
    /\ Placing => \A k \in 0 .. UQ.top : Unplaced(tcb[UQ.list[k]])
    /\ Placing => \A s \in Slots : s >= curr_idx => tcb[s] = NoTCB

PlacementInv ==
    /\ TypeOK
    /\ ManagerInOrder
    /\ CoreStacksHoldCores
    /\ QueueInOrder
    /\ PeriodsKept
    /\ WaitingCovered
    /\ WaitingUnplaced

(* Every way Next or a stutter leaves a component as it was is dispatched  *)
(* by citing the component's definition; the steps below name the rest.    *)

LEMMA PlacementInit == Init => PlacementInv
<1> SUFFICES ASSUME Init PROVE PlacementInv
  OBVIOUS
<1> USE ConstantFacts
<1>1. table \in [0 .. NUM_OF_TASK - 1 -> Rows]
  BY TablesAssumption DEF Init
<1>2. \A r \in Rows : r.Runtime \in Nat /\ r.Period \in Nat /\ r.priority \in Nat
  BY DEF Rows
<1>3. TypeOK
  <2>1. task_list \in [Slots -> TaskInfos]
    <3>1. ExtraRow \in TaskInfos
      BY DEF ExtraRow, Row, TaskInfos
    <3>2. \A s \in 0 .. NUM_OF_TASK - 1 :
             Row(table[s].Runtime, table[s].Period, table[s].priority) \in TaskInfos
      BY <1>1, <1>2 DEF Row, TaskInfos
    <3>3. \A s \in Slots : s < NUM_OF_TASK => s \in 0 .. NUM_OF_TASK - 1
      OBVIOUS
    <3> QED BY <3>1, <3>2, <3>3 DEF Init
  <2>2. tcb \in TCBTables /\ assigned \in [Slots -> Cores \cup {NULL}]
    BY DEF Init, NoTCB, TCBTables
  <2>3. core_list \in CoreTables
    BY DEF Init, CoreTables
  <2>4. core_manager \in CoreStacks /\ pre_assigned_core \in CoreStacks
    BY DEF Init, ZeroCoreStack, CoreStacks
  <2>5. task_manager \in TaskStacks /\ UQ \in TaskStacks
    BY DEF Init, ZeroTaskStack, TaskStacks
  <2>6. heap_size \in Nat /\ heap \in 0 .. heap_size
    BY HeapAssumption DEF Init
  <2>7. pc = "boot" /\ i = 0 /\ curr_idx = 0
    BY DEF Init
  <2>8. full \in BOOLEAN
    BY Zenon DEF Init
  <2>9. 0 \in 0 .. NUM_OF_TASK /\ 0 \in 0 .. MAX_NUM_TASKS
    OBVIOUS
  <2> QED BY <1>1, <2>1, <2>2, <2>3, <2>4, <2>5, <2>6, <2>7, <2>8, <2>9
         DEF TypeOK
<1>4. PeriodsKept
  BY DEF Init, PeriodsKept, Row
<1>5. WaitingUnplaced
  BY DEF Init, WaitingUnplaced, Unplaced, NoTCB, Placing
<1> QED
  BY <1>3, <1>4, <1>5
     DEF Init, PlacementInv, ManagerInOrder, CoreStacksHoldCores, QueueInOrder,
         WaitingCovered, Placing, Booting

----------------------------------------------------------------------------
(* The operators of TaskManager keep their types.                          *)

LEMMA PopTyped ==
    /\ \A stack \in TaskStacks : Popped(stack) \in TaskStacks
    /\ \A stack \in CoreStacks : Popped(stack) \in CoreStacks
<1> USE ConstantFacts
<1>1. ASSUME NEW stack \in TaskStacks PROVE Popped(stack) \in TaskStacks
  <2>1. ~ is_empty(stack) => stack.top - 1 \in -1 .. MAX_NUM_TASKS - 1
    BY DEF TaskStacks, is_empty
  <2> QED BY <2>1 DEF TaskStacks, Popped
<1>2. ASSUME NEW stack \in CoreStacks PROVE Popped(stack) \in CoreStacks
  <2>1. ~ is_empty(stack) => stack.top - 1 \in -1 .. configNUMBER_OF_CORES - 1
    BY DEF CoreStacks, is_empty
  <2> QED BY <2>1 DEF CoreStacks, Popped
<1> QED BY <1>1, <1>2

LEMMA ResetTyped ==
    /\ \A stack \in TaskStacks : init_stack(stack) \in TaskStacks /\ init_stack(stack).top = -1
    /\ \A stack \in CoreStacks : init_stack(stack) \in CoreStacks /\ init_stack(stack).top = -1
<1> USE ConstantFacts
<1>1. -1 \in -1 .. MAX_NUM_TASKS - 1 /\ -1 \in -1 .. configNUMBER_OF_CORES - 1
  OBVIOUS
<1>2. \A stack \in TaskStacks : init_stack(stack) \in TaskStacks /\ init_stack(stack).top = -1
  BY <1>1 DEF TaskStacks, init_stack
<1>3. \A stack \in CoreStacks : init_stack(stack) \in CoreStacks /\ init_stack(stack).top = -1
  BY <1>1 DEF CoreStacks, init_stack
<1> QED BY <1>2, <1>3

LEMMA PushTyped ==
    /\ \A stack \in TaskStacks, T \in Slots : Push_task(T, stack) \in TaskStacks
    /\ \A stack \in CoreStacks, C \in Cores : Push_core(C, stack) \in CoreStacks
<1> USE ConstantFacts
<1>1. ASSUME NEW stack \in TaskStacks, NEW T \in Slots PROVE Push_task(T, stack) \in TaskStacks
  <2>1. CASE T_is_full(stack)
    BY <2>1 DEF Push_task
  <2>2. CASE ~ T_is_full(stack)
    <3>1. Push_task(T, stack) = Pushed(T, stack)
      BY <2>2 DEF Push_task
    <3>2. stack.top + 1 \in -1 .. MAX_NUM_TASKS - 1
      BY <2>2 DEF TaskStacks, T_is_full
    <3>3. [stack.list EXCEPT ![stack.top + 1] = T] \in [Slots -> Slots \cup {NULL}]
      BY DEF TaskStacks
    <3> QED BY <3>1, <3>2, <3>3 DEF TaskStacks, Pushed
  <2> QED BY <2>1, <2>2
<1>2. ASSUME NEW stack \in CoreStacks, NEW C \in Cores PROVE Push_core(C, stack) \in CoreStacks
  <2>1. CASE C_is_full(stack)
    BY <2>1 DEF Push_core
  <2>2. CASE ~ C_is_full(stack)
    <3>1. Push_core(C, stack) = Pushed(C, stack)
      BY <2>2 DEF Push_core
    <3>2. stack.top + 1 \in -1 .. configNUMBER_OF_CORES - 1
      BY <2>2 DEF CoreStacks, C_is_full
    <3>3. [stack.list EXCEPT ![stack.top + 1] = C] \in [Cores -> Cores \cup {NULL}]
      BY DEF CoreStacks
    <3> QED BY <3>1, <3>2, <3>3 DEF CoreStacks, Pushed
  <2> QED BY <2>1, <2>2
<1> QED BY <1>1, <1>2

(* init_task's measurement of a row of the table: a natural utilization,   *)
(* which the runtime covers; the other fields but Heavy are kept.          *)
LEMMA ClassifiedTyped ==
    ASSUME NEW T \in TaskInfos, T.Period > 0
    PROVE  /\ Classified(T) \in TaskInfos
           /\ Classified(T).Period = T.Period
           /\ Classified(T).Runtime = T.Runtime
           /\ Classified(T).Utilization = UtilizationOf(T)
           /\ UtilizationOf(T) \in Nat
           /\ UtilizationOf(T) * T.Period <= T.Runtime * UNIT
<1>1. T.Runtime * UNIT \in Nat /\ T.Period \in Nat \ {0}
  BY ConstantFacts DEF TaskInfos
<1>2. UtilizationOf(T) \in Nat /\ UtilizationOf(T) * T.Period <= T.Runtime * UNIT
  BY <1>1, DivFacts DEF UtilizationOf
<1> HIDE DEF UtilizationOf
<1>3. ExceedsLightBound(UtilizationOf(T)) \in BOOLEAN
  BY DEF ExceedsLightBound
<1> QED
  BY <1>2, <1>3 DEF Classified, TaskInfos

(* xTaskCreate *)
LEMMA CreateTyped ==
    ASSUME NEW slot \in Slots, NEW list \in [Slots -> TaskInfos], heap \in Nat
    PROVE  /\ CreatedIn(slot, list) \in [Slots -> TaskInfos]
           /\ \A s \in Slots : /\ CreatedIn(slot, list)[s].Period = list[s].Period
                               /\ CreatedIn(slot, list)[s].Runtime = list[s].Runtime
                               /\ CreatedIn(slot, list)[s].Utilization = list[s].Utilization
  BY DEF CreatedIn, TaskInfos

LEMMA PointerTyped ==
    ASSUME NEW r \in TaskInfos, NEW h \in Slots \cup {NULL}
    PROVE  [r EXCEPT !.splitted_ptr = h] \in TaskInfos
  BY DEF TaskInfos

LEMMA ClampTyped == \A p \in Nat : ClampedPriority(p) \in 0 .. configMAX_PRIORITIES - 1
  BY ConstantFacts DEF ClampedPriority

LEMMA HeapTyped == TypeOK => HeapAfterCreate \in 0 .. heap_size
  BY DEF TypeOK, HeapAfterCreate

----------------------------------------------------------------------------
(* The steps before PRE-ASSIGN.                                            *)

LEMMA PlacementBoot == PlacementInv /\ Boot => PlacementInv'
<1> SUFFICES ASSUME PlacementInv, Boot PROVE PlacementInv'
  OBVIOUS
<1> USE ConstantFacts
<1>1. TypeOK
  BY DEF PlacementInv
<1>2. core_manager' \in CoreStacks /\ core_manager'.list = [c \in Cores |-> c]
  BY DEF Boot, AllCores, CoreStacks
<1>3. task_manager' \in TaskStacks /\ task_manager'.top = -1
  BY <1>1, ResetTyped DEF Boot, TypeOK
<1>4. i = 0
  BY DEF PlacementInv, ManagerInOrder, Boot
<1>5. TypeOK'
  BY <1>1, <1>2, <1>3, HeapTyped DEF TypeOK, Boot
<1>6. ManagerInOrder'
  BY <1>3, <1>4 DEF ManagerInOrder, Boot
<1>7. CoreStacksHoldCores'
  BY <1>2 DEF CoreStacksHoldCores, Boot, Booting
<1>8. PeriodsKept' /\ QueueInOrder' /\ WaitingCovered'
  BY <1>4 DEF PlacementInv, PeriodsKept, QueueInOrder, WaitingCovered, Boot, Placing
<1>9. WaitingUnplaced'
  BY DEF PlacementInv, WaitingUnplaced, Boot, Placing, Booting, Unplaced
<1> QED
  BY <1>5, <1>6, <1>7, <1>8, <1>9 DEF PlacementInv

LEMMA PlacementInitTask == PlacementInv /\ InitTask => PlacementInv'
<1> SUFFICES ASSUME PlacementInv, InitTask PROVE PlacementInv'
  OBVIOUS
<1> USE ConstantFacts
<1> DEFINE L == [task_list EXCEPT ![i] = Classified(task_list[i])]
<1>1. TypeOK /\ i \in 0 .. NUM_OF_TASK - 1 /\ i \in Slots /\ pc = "init_task" /\ pc' = "init_task" /\ i' = i + 1
  BY DEF PlacementInv, InitTask, TypeOK
<1>2. /\ task_manager' \in TaskStacks
      /\ task_manager'.top = i
      /\ \A k \in 0 .. i : task_manager'.list[k] = k
  <2>1. task_manager.top = i - 1 /\ \A k \in 0 .. i - 1 : task_manager.list[k] = k
    BY <1>1 DEF PlacementInv, ManagerInOrder
  <2>2. task_manager' = Pushed(i, task_manager)
    BY <1>1, <2>1 DEF InitTask, Push_task, T_is_full
  <2>3. task_manager'.top = i /\ task_manager'.list = [task_manager.list EXCEPT ![i] = i]
    BY <1>1, <2>1, <2>2 DEF Pushed
  <2>4. task_manager' \in TaskStacks
    BY <1>1, PushTyped DEF InitTask, TypeOK
  <2>5. task_manager.list \in [Slots -> Slots \cup {NULL}]
    BY <1>1 DEF TypeOK, TaskStacks
  <2> QED BY <1>1, <2>1, <2>3, <2>4, <2>5
<1>3. task_manager'.list[i] = i
  BY <1>1, <1>2
<1>4. /\ task_list[i] \in TaskInfos
      /\ table[i].Period \in 1 .. UNIT
      /\ task_list[i].Period > 0
  <2>1. task_list[i] \in TaskInfos /\ table[i] \in Rows
    BY <1>1 DEF TypeOK
  <2>2. task_list[i].Period = table[i].Period
    BY <1>1 DEF PlacementInv, PeriodsKept
  <2> QED BY <2>1, <2>2 DEF Rows
<1>5. /\ L \in [Slots -> TaskInfos]
      /\ \A s \in Slots : L[s].Period = task_list[s].Period
      /\ \A s \in Slots : s # i => L[s] = task_list[s]
      /\ L[i].Utilization * L[i].Period <= L[i].Runtime * UNIT
  <2>1. task_list \in [Slots -> TaskInfos]
    BY <1>1 DEF TypeOK
  <2>2. L[i] = Classified(task_list[i])
    BY <1>1, <2>1
  <2> QED BY <1>1, <1>4, <2>1, <2>2, ClassifiedTyped
<1>6. task_list' = CreatedIn(i, L)
  BY <1>3 DEF InitTask
<1> HIDE DEF L
<1>7. /\ task_list' \in [Slots -> TaskInfos]
      /\ \A s \in Slots : /\ task_list'[s].Period = L[s].Period
                          /\ task_list'[s].Runtime = L[s].Runtime
                          /\ task_list'[s].Utilization = L[s].Utilization
  <2>1. heap \in Nat
    BY <1>1 DEF TypeOK
  <2> QED BY <1>1, <1>5, <1>6, <2>1, CreateTyped
<1>8. /\ tcb' \in TCBTables
      /\ \A s \in Slots : s # i => tcb'[s] = tcb[s]
      /\ tcb'[i].affinity = Cores \/ tcb'[i] = tcb[i]
  <2>1. tcb \in TCBTables
    BY <1>1 DEF TypeOK
  <2>2. ClampedPriority(task_list[i].priority) \in 0 .. configMAX_PRIORITIES - 1
    BY <1>4, ClampTyped DEF TaskInfos
  <2>3. \/ tcb' = tcb
        \/ tcb' = [tcb EXCEPT ![i] = [uxPriority |-> ClampedPriority(task_list[i].priority),
                                      affinity |-> Cores]]
    BY <1>3 DEF InitTask, CreateTCB
  <2>4. CASE tcb' = tcb
    BY <2>1, <2>4
  <2>5. CASE tcb' = [tcb EXCEPT ![i] = [uxPriority |-> ClampedPriority(task_list[i].priority),
                                        affinity |-> Cores]]
    <3> DEFINE r == [uxPriority |-> ClampedPriority(task_list[i].priority), affinity |-> Cores]
    <3>1. /\ r \in [uxPriority : 0 .. configMAX_PRIORITIES - 1, affinity : SUBSET Cores]
          /\ r.affinity = Cores
      BY <2>2
    <3> HIDE DEF r
    <3> QED BY <1>1, <2>1, <2>5, <3>1 DEF r, TCBTables
  <2> QED BY <2>3, <2>4, <2>5
<1>u. /\ UNCHANGED <<table, heap_size, assigned, core_list, core_manager,
                     pre_assigned_core, UQ, curr_idx, full>>
      /\ heap' = HeapAfterCreate
  BY DEF InitTask
<1>9. TypeOK'
  <2>1. i' \in 0 .. NUM_OF_TASK /\ heap' \in 0 .. heap_size'
    BY <1>1, <1>u, HeapTyped
  <2> QED BY <1>1, <1>2, <1>7, <1>8, <1>u, <2>1 DEF TypeOK
<1>10. ManagerInOrder'
  BY <1>1, <1>2 DEF ManagerInOrder
<1>11. CoreStacksHoldCores' /\ QueueInOrder'
  BY <1>1 DEF PlacementInv, CoreStacksHoldCores, InitTask, Booting, QueueInOrder, Placing
<1>12. PeriodsKept'
  BY <1>1, <1>5, <1>7, <1>u DEF PlacementInv, PeriodsKept
<1>13. WaitingCovered'
  <2>1. \A s \in 0 .. i - 1 : s \in Slots /\ s # i /\ Covered(task_list[s])
    BY <1>1 DEF PlacementInv, WaitingCovered
  <2>2. ASSUME NEW s \in 0 .. i PROVE Covered(task_list'[s])
    <3>1. CASE s = i
      BY <1>1, <1>5, <1>7, <3>1 DEF Covered
    <3>2. CASE s # i
      <4>1. s \in 0 .. i - 1
        BY <1>1, <3>2
      <4> QED BY <1>5, <1>7, <2>1, <4>1 DEF Covered
    <3> QED BY <3>1, <3>2
  <2> QED BY <1>1, <2>2 DEF WaitingCovered, Placing
<1>14. WaitingUnplaced'
  <2>1. \A s \in Slots : Unplaced(tcb'[s])
    BY <1>1, <1>8 DEF PlacementInv, WaitingUnplaced, Unplaced, Booting
  <2>2. \A s \in Slots : s >= i' => tcb'[s] = NoTCB
    BY <1>1, <1>8 DEF PlacementInv, WaitingUnplaced, Booting
  <2> QED BY <1>1, <2>1, <2>2 DEF WaitingUnplaced, Placing
<1> QED
  BY <1>9, <1>10, <1>11, <1>12, <1>13, <1>14 DEF PlacementInv

LEMMA PlacementInitQueues == PlacementInv /\ InitQueues => PlacementInv'
<1> SUFFICES ASSUME PlacementInv, InitQueues PROVE PlacementInv'
  OBVIOUS
<1> USE ConstantFacts
<1>1. TypeOK /\ pc = "init_task" /\ pc' = "pre_assign" /\ i = NUM_OF_TASK /\ i' = 0
  BY DEF PlacementInv, InitQueues
<1>2. /\ pre_assigned_core' \in CoreStacks /\ pre_assigned_core'.top = -1
      /\ UQ' \in TaskStacks /\ UQ'.top = -1
  BY <1>1, ResetTyped DEF InitQueues, TypeOK
<1>3. TypeOK'
  BY <1>1, <1>2 DEF TypeOK, InitQueues
<1>4. ManagerInOrder'
  BY <1>1 DEF PlacementInv, ManagerInOrder, InitQueues
<1>5. CoreStacksHoldCores'
  BY <1>1, <1>2 DEF PlacementInv, CoreStacksHoldCores, InitQueues
<1>6. QueueInOrder'
  BY <1>1, <1>2 DEF QueueInOrder, InitQueues
<1>7. PeriodsKept'
  BY DEF PlacementInv, PeriodsKept, InitQueues
<1>8. WaitingCovered'
  BY <1>1, <1>2 DEF PlacementInv, WaitingCovered, InitQueues, Covered, Placing
<1>9. WaitingUnplaced'
  BY <1>1, <1>2 DEF PlacementInv, WaitingUnplaced, InitQueues, Unplaced, Placing, Booting
<1> QED
  BY <1>3, <1>4, <1>5, <1>6, <1>7, <1>8, <1>9 DEF PlacementInv

----------------------------------------------------------------------------
(* PRE-ASSIGN                                                              *)

(* Assign_task: the affinity, unless there is no handle, and the ledger.   *)
LEMMA PinTyped ==
    ASSUME NEW T \in Slots, NEW C \in Cores, NEW tcbs \in TCBTables
    PROVE  /\ PinnedTo(T, C, tcbs) \in TCBTables
           /\ \A s \in Slots : s # T => PinnedTo(T, C, tcbs)[s] = tcbs[s]
<1>1. {C} \in SUBSET Cores
  OBVIOUS
<1> QED BY <1>1 DEF PinnedTo, TCBTables

LEMMA PinEffect ==
    ASSUME NEW T \in Slots, NEW C, NEW tcbs \in TCBTables
    PROVE  IF task_list[T].my_ptr = NULL THEN PinnedTo(T, C, tcbs) = tcbs
                                         ELSE PinnedTo(T, C, tcbs)[T].affinity = {C}
  BY DEF PinnedTo, TCBTables

LEMMA ChargeTyped ==
    ASSUME NEW C \in Cores, NEW u \in Nat, core_list \in CoreTables
    PROVE  /\ Charged(C, u) \in CoreTables
           /\ \A c \in Cores : c # C => Charged(C, u)[c] = core_list[c]
           /\ Charged(C, u)[C].Utilization = core_list[C].Utilization + u
           /\ Charged(C, u)[C].pre_assigned = core_list[C].pre_assigned
<1>1. core_list[C].Utilization + u \in Nat
  BY DEF CoreTables
<1> QED BY <1>1 DEF Charged, CoreTables

(* Popping keeps what is below the top, pushing adds one element. *)
LEMMA StackContents ==
    /\ \A stack \in TaskStacks \cup CoreStacks :
          Popped(stack).list = stack.list /\ Popped(stack).top <= stack.top
    /\ \A stack \in CoreStacks, C \in Cores :
          (\A k \in 0 .. stack.top : stack.list[k] \in Cores) =>
             \A k \in 0 .. Push_core(C, stack).top : Push_core(C, stack).list[k] \in Cores
    /\ \A stack \in TaskStacks, T \in Slots :
          \/ Push_task(T, stack) = stack
          \/ /\ stack.top + 1 \in Slots
             /\ Push_task(T, stack).top = stack.top + 1
             /\ Push_task(T, stack).list = [stack.list EXCEPT ![stack.top + 1] = T]
<1> USE ConstantFacts
<1>1. ASSUME NEW stack \in TaskStacks \cup CoreStacks
      PROVE  Popped(stack).list = stack.list /\ Popped(stack).top <= stack.top
  <2>1. stack.top \in Int
    BY DEF TaskStacks, CoreStacks
  <2>2. stack = [list |-> stack.list, top |-> stack.top]
    BY DEF TaskStacks, CoreStacks
  <2> QED BY <2>1, <2>2 DEF Popped
<1>2. ASSUME NEW stack \in CoreStacks, NEW C \in Cores,
             \A k \in 0 .. stack.top : stack.list[k] \in Cores
      PROVE  \A k \in 0 .. Push_core(C, stack).top : Push_core(C, stack).list[k] \in Cores
  <2>1. stack.top \in -1 .. configNUMBER_OF_CORES - 1 /\ stack.list \in [Cores -> Cores \cup {NULL}]
    BY DEF CoreStacks
  <2>2. CASE C_is_full(stack)
    BY <1>2, <2>2 DEF Push_core
  <2>3. CASE ~ C_is_full(stack)
    <3>1. /\ Push_core(C, stack).top = stack.top + 1
          /\ Push_core(C, stack).list = [stack.list EXCEPT ![stack.top + 1] = C]
      BY <2>3 DEF Push_core, Pushed
    <3>2. stack.top + 1 \in Cores
      BY <2>1, <2>3 DEF C_is_full
    <3> QED BY <1>2, <2>1, <3>1, <3>2
  <2> QED BY <2>2, <2>3
<1>3. ASSUME NEW stack \in TaskStacks, NEW T \in Slots
      PROVE  \/ Push_task(T, stack) = stack
             \/ /\ stack.top + 1 \in Slots
                /\ Push_task(T, stack).top = stack.top + 1
                /\ Push_task(T, stack).list = [stack.list EXCEPT ![stack.top + 1] = T]
  <2>1. stack.top \in -1 .. MAX_NUM_TASKS - 1
    BY DEF TaskStacks
  <2> QED BY <2>1 DEF Push_task, Pushed, T_is_full
<1> QED BY <1>1, <1>2, <1>3

LEMMA PlacementPreAssign == PlacementInv /\ PreAssign => PlacementInv'
<1> SUFFICES ASSUME PlacementInv, PreAssign PROVE PlacementInv'
  OBVIOUS
<1> USE ConstantFacts
<1> DEFINE C == Top(core_manager)
           u == task_list[i].Utilization
<1>1. TypeOK /\ pc = "pre_assign" /\ pc' = "pre_assign" /\ i \in 0 .. NUM_OF_TASK - 1 /\ i \in Slots /\ i' = i + 1
  BY SMTT(20) DEF PlacementInv, PreAssign, TypeOK
<1>2. task_manager.list[i] = i
  BY <1>1 DEF PlacementInv, ManagerInOrder
<1>3. C \in Cores
  <2>1. /\ core_manager.top \in -1 .. configNUMBER_OF_CORES - 1
        /\ core_manager.list \in [Cores -> Cores \cup {NULL}]
    BY <1>1 DEF TypeOK, CoreStacks
  <2>2. C # NULL
    BY DEF PreAssign
  <2>3. C = core_manager.list[core_manager.top] /\ core_manager.top >= 0
    BY <2>1, <2>2 DEF Top, is_empty
  <2> QED BY <2>1, <2>2, <2>3
<1>4. u \in Nat
  BY <1>1 DEF TypeOK, TaskInfos
<1>5. /\ core_manager' = Popped(core_manager)
      /\ tcb' = PinnedTo(i, C, tcb)
      /\ assigned' = [assigned EXCEPT ![i] = C]
      /\ core_list' = [Charged(C, u) EXCEPT ![C].pre_assigned = TRUE]
      /\ pre_assigned_core' = Push_core(C, pre_assigned_core)
      /\ UNCHANGED <<table, heap_size, task_list, task_manager, UQ, curr_idx, heap, full>>
  BY <1>2 DEF PreAssign
<1> HIDE DEF C, u
<1>6. /\ tcb' \in TCBTables
      /\ \A s \in Slots : s # i => tcb'[s] = tcb[s]
      /\ core_list' \in CoreTables
      /\ assigned' \in [Slots -> Cores \cup {NULL}]
  <2>1. /\ PinnedTo(i, C, tcb) \in TCBTables
        /\ \A s \in Slots : s # i => PinnedTo(i, C, tcb)[s] = tcb[s]
        /\ Charged(C, u) \in CoreTables
    <3>1. /\ tcb \in TCBTables
          /\ core_list \in CoreTables
      BY <1>1 DEF TypeOK
    <3> QED BY SMTT(20), <1>1, <1>3, <1>4, <3>1, PinTyped, ChargeTyped
  <2>2. assigned' \in [Slots -> Cores \cup {NULL}]
    BY <1>1, <1>3, <1>5 DEF TypeOK
  <2>3. core_list' \in CoreTables
    BY <1>5, <2>1 DEF CoreTables
  <2> QED BY <1>5, <2>1, <2>2, <2>3
<1>7. core_manager' \in CoreStacks /\ core_manager'.list = core_manager.list
  BY <1>1, <1>5, PopTyped, StackContents DEF TypeOK
<1>8. /\ pre_assigned_core' \in CoreStacks
      /\ \A k \in 0 .. pre_assigned_core'.top : pre_assigned_core'.list[k] \in Cores
  <2>1. pre_assigned_core \in CoreStacks /\ \A k \in 0 .. pre_assigned_core.top : pre_assigned_core.list[k] \in Cores
    BY <1>1 DEF PlacementInv, CoreStacksHoldCores, TypeOK, Booting
  <2> QED BY <1>3, <1>5, <2>1, PushTyped, StackContents
<1>9. TypeOK'
  <2>1. i' \in 0 .. NUM_OF_TASK
    BY <1>1
  <2> QED BY <1>1, <1>5, <1>6, <1>7, <1>8, <2>1 DEF TypeOK
<1>10. ManagerInOrder'
  BY <1>1, <1>5 DEF PlacementInv, ManagerInOrder
<1>11. CoreStacksHoldCores'
  BY <1>1, <1>7, <1>8 DEF PlacementInv, CoreStacksHoldCores
<1>12. \A k \in 0 .. UQ.top : UQ.list[k] \in 0 .. i - 1
  BY <1>1 DEF PlacementInv, QueueInOrder, Placing
<1>13. QueueInOrder'
  <2>1. \A k \in 0 .. UQ.top : UQ.list[k] \in 0 .. i' - 1
    BY <1>1, <1>12
  <2> QED BY <1>1, <1>5, <2>1 DEF PlacementInv, QueueInOrder, Placing
<1>14. PeriodsKept'
  BY <1>5 DEF PlacementInv, PeriodsKept
<1>15. WaitingCovered'
  BY <1>1, <1>5 DEF PlacementInv, WaitingCovered, Placing, Covered
<1>16. WaitingUnplaced'
  <2>1. /\ \A s \in i .. NUM_OF_TASK - 1 : Unplaced(tcb[s])
        /\ \A k \in 0 .. UQ.top : Unplaced(tcb[UQ.list[k]])
        /\ \A s \in Slots : s >= curr_idx => tcb[s] = NoTCB
        /\ curr_idx = NUM_OF_TASK
    BY <1>1 DEF PlacementInv, WaitingUnplaced, QueueInOrder, Placing
  <2>2. \A s \in i + 1 .. NUM_OF_TASK - 1 : Unplaced(tcb'[s])
    <3>1. \A s \in i + 1 .. NUM_OF_TASK - 1 : s \in Slots /\ s # i /\ s \in i .. NUM_OF_TASK - 1
      BY <1>1
    <3> QED BY <1>6, <2>1, <3>1
  <2>3. \A k \in 0 .. UQ.top : Unplaced(tcb'[UQ.list[k]])
    <3>1. \A k \in 0 .. UQ.top : UQ.list[k] \in Slots /\ UQ.list[k] # i
      BY <1>1, <1>12
    <3> QED BY <1>6, <2>1, <3>1
  <2>4. \A s \in Slots : s >= curr_idx => tcb'[s] = NoTCB
    BY <1>1, <1>6, <2>1
  <2> QED BY <1>1, <1>5, <2>2, <2>3, <2>4 DEF WaitingUnplaced, Booting
<1> QED
  BY <1>9, <1>10, <1>11, <1>13, <1>14, <1>15, <1>16 DEF PlacementInv

LEMMA PlacementQueue == PlacementInv /\ Queue => PlacementInv'
<1> SUFFICES ASSUME PlacementInv, Queue PROVE PlacementInv'
  OBVIOUS
<1> USE ConstantFacts
<1>1. TypeOK /\ pc = "pre_assign" /\ pc' = "pre_assign" /\ i \in 0 .. NUM_OF_TASK - 1 /\ i \in Slots /\ i' = i + 1
  BY DEF PlacementInv, Queue, TypeOK
<1>2. task_manager.list[i] = i
  BY <1>1 DEF PlacementInv, ManagerInOrder
<1>3. /\ UQ' = Push_task(i, UQ)
      /\ UNCHANGED <<table, heap_size, task_list, assigned, tcb, core_list, core_manager,
                     pre_assigned_core, task_manager, curr_idx, heap, full>>
  BY <1>2 DEF Queue
<1>4. UQ \in TaskStacks /\ UQ' \in TaskStacks
  BY <1>1, <1>3, PushTyped DEF TypeOK
<1>5. /\ \A k \in 0 .. UQ.top : UQ.list[k] \in 0 .. i - 1
      /\ \A j, k \in 0 .. UQ.top : j < k => UQ.list[j] < UQ.list[k]
      /\ curr_idx = NUM_OF_TASK
  BY <1>1 DEF PlacementInv, QueueInOrder, Placing
<1>6. \A k \in 0 .. UQ'.top :
         \/ UQ'.list[k] = i /\ k = UQ'.top
         \/ k \in 0 .. UQ.top /\ UQ'.list[k] = UQ.list[k]
  <2>1. UQ.list \in [Slots -> Slots \cup {NULL}] /\ UQ.top \in -1 .. MAX_NUM_TASKS - 1
    BY <1>4 DEF TaskStacks
  <2>2. \/ UQ' = UQ
        \/ /\ UQ.top + 1 \in Slots
           /\ UQ'.top = UQ.top + 1
           /\ UQ'.list = [UQ.list EXCEPT ![UQ.top + 1] = i]
    BY <1>1, <1>3, <1>4, StackContents
  <2>3. CASE UQ' = UQ
    BY <2>3
  <2>4. CASE /\ UQ.top + 1 \in Slots
             /\ UQ'.top = UQ.top + 1
             /\ UQ'.list = [UQ.list EXCEPT ![UQ.top + 1] = i]
    BY <2>1, <2>4
  <2> QED BY <2>2, <2>3, <2>4
<1>7. TypeOK'
  <2>1. i' \in 0 .. NUM_OF_TASK
    BY <1>1
  <2> QED BY <1>1, <1>3, <1>4, <2>1 DEF TypeOK
<1>8. ManagerInOrder' /\ CoreStacksHoldCores' /\ PeriodsKept'
  BY <1>1, <1>3 DEF PlacementInv, ManagerInOrder, CoreStacksHoldCores, PeriodsKept, Booting
<1>9. QueueInOrder'
  <2>1. \A k \in 0 .. UQ'.top : UQ'.list[k] \in 0 .. i
    BY <1>1, <1>5, <1>6
  <2>2. \A j, k \in 0 .. UQ'.top : j < k => UQ'.list[j] < UQ'.list[k]
    <3> SUFFICES ASSUME NEW j \in 0 .. UQ'.top, NEW k \in 0 .. UQ'.top, j < k
                 PROVE  UQ'.list[j] < UQ'.list[k]
      OBVIOUS
    <3>1. UQ'.top \in Int
      BY <1>4 DEF TaskStacks
    <3>2. j # UQ'.top
      BY <3>1
    <3>3. j \in 0 .. UQ.top /\ UQ'.list[j] = UQ.list[j]
      BY <1>6, <3>2
    <3> QED BY <1>1, <1>5, <1>6, <3>3
  <2> QED BY <1>1, <1>3, <1>5, <2>1, <2>2 DEF QueueInOrder
<1>10. WaitingCovered'
  <2>1. \A s \in 0 .. NUM_OF_TASK - 1 : Covered(task_list'[s])
    BY <1>1, <1>3 DEF PlacementInv, WaitingCovered
  <2>2. \A k \in 0 .. UQ'.top : UQ'.list[k] \in 0 .. NUM_OF_TASK - 1
    BY <1>1, <1>5, <1>6
  <2> QED BY <1>1, <2>1, <2>2 DEF WaitingCovered
<1>11. WaitingUnplaced'
  <2>1. /\ \A s \in i .. NUM_OF_TASK - 1 : Unplaced(tcb[s])
        /\ \A k \in 0 .. UQ.top : Unplaced(tcb[UQ.list[k]])
        /\ \A s \in Slots : s >= curr_idx => tcb[s] = NoTCB
    BY <1>1 DEF PlacementInv, WaitingUnplaced, Placing
  <2>2. i \in i .. NUM_OF_TASK - 1 /\ i' .. NUM_OF_TASK - 1 \subseteq i .. NUM_OF_TASK - 1
    BY <1>1
  <2>3. \A k \in 0 .. UQ'.top : Unplaced(tcb'[UQ'.list[k]])
    BY <1>3, <1>6, <2>1, <2>2
  <2> QED BY <1>1, <1>3, <2>1, <2>2, <2>3 DEF WaitingUnplaced, Booting
<1> QED
  BY <1>7, <1>8, <1>9, <1>10, <1>11 DEF PlacementInv

LEMMA PlacementPreAssignDone == PlacementInv /\ PreAssignDone => PlacementInv'
<1> SUFFICES ASSUME PlacementInv, PreAssignDone PROVE PlacementInv'
  OBVIOUS
<1> USE ConstantFacts
<1>1. /\ pc = "pre_assign" /\ pc' = "normal_assign" /\ i = NUM_OF_TASK
      /\ UNCHANGED <<i, table, heap_size, task_list, assigned, tcb, core_list, core_manager,
                     pre_assigned_core, task_manager, UQ, curr_idx, heap, full>>
  BY DEF PreAssignDone
<1>2. TypeOK'
  BY <1>1 DEF PlacementInv, TypeOK
<1>3. ManagerInOrder' /\ CoreStacksHoldCores' /\ PeriodsKept'
  BY <1>1 DEF PlacementInv, ManagerInOrder, CoreStacksHoldCores, PeriodsKept, Booting
<1>4. QueueInOrder'
  BY <1>1 DEF PlacementInv, QueueInOrder, Placing
<1>5. WaitingCovered' /\ WaitingUnplaced'
  BY <1>1 DEF PlacementInv, WaitingCovered, WaitingUnplaced, Covered, Unplaced, Placing, Booting
<1> QED
  BY <1>2, <1>3, <1>4, <1>5 DEF PlacementInv

----------------------------------------------------------------------------
(* NORMAL-ASSIGN                                                           *)

(* Task_split as a function of the task and the core: both parts are       *)
(* well-formed, nothing of the runtime is lost, and the tail is covered.   *)
LEMMA SplitTyped ==
    ASSUME NEW T \in TaskInfos, NEW slot \in TaskInfos,
           NEW C \in [Utilization : Nat, pre_assigned : BOOLEAN],
           C.Utilization < Utilization_Bound,
           C.Utilization + T.Utilization > Utilization_Bound,
           Covered(T)
    PROVE  LET body == Body_task(T, C)
               tail == Tail_task(T, C, slot)
           IN /\ body \in TaskInfos /\ tail \in TaskInfos
              /\ body.Period = T.Period /\ tail.Period = T.Period
              /\ body.my_ptr = T.my_ptr /\ tail.my_ptr = slot.my_ptr
              /\ body.splitted_ptr = T.splitted_ptr /\ tail.splitted_ptr = slot.splitted_ptr
              /\ body.Dependency = T.Dependency /\ tail.Dependency
              /\ body.Utilization = Utilization_Bound - C.Utilization
              /\ body.Utilization > 0
              /\ tail.Utilization = T.Utilization - body.Utilization
              /\ tail.Utilization > 0
              /\ body.Runtime + tail.Runtime = T.Runtime
              /\ Covered(tail)
<1> USE ConstantFacts
<1> DEFINE u == Utilization_Bound - C.Utilization
           r == (u * T.Period) \div UNIT
<1>1. /\ T.Runtime \in Nat /\ T.Period \in Nat /\ T.Utilization \in Nat
      /\ T.priority \in Nat /\ T.subnum \in Nat /\ C.Utilization \in Nat
      /\ Utilization_Bound \in Nat
  BY DEF TaskInfos
<1>2. u \in Nat /\ u > 0 /\ u < T.Utilization /\ T.Utilization - u \in Nat /\ T.Utilization - u > 0
  BY SMTT(20), <1>1
<1>3. T.Utilization * T.Period <= T.Runtime * UNIT
  BY DEF Covered
<1>4. r \in 0 .. T.Runtime /\ (T.Utilization - u) * T.Period <= (T.Runtime - r) * UNIT
  <2> HIDE DEF u
  <2>1. u <= T.Utilization
    BY <1>1, <1>2
  <2> QED BY <1>1, <1>2, <1>3, <2>1, BodyFits
<1>5. Body_task(T, C) = [T EXCEPT !.Utilization = u, !.Runtime = r]
  BY DEF Body_task
<1> HIDE DEF u, r
<1>6. r \in Nat /\ T.Runtime - r \in Nat /\ r + (T.Runtime - r) = T.Runtime /\ T.subnum + 1 \in Nat
  <2>1. r \in 0 .. T.Runtime
    BY <1>4
  <2> QED BY SMTT(20), <1>1, <2>1
<1>7. /\ Body_task(T, C) \in TaskInfos
      /\ Body_task(T, C).Period = T.Period
      /\ Body_task(T, C).my_ptr = T.my_ptr
      /\ Body_task(T, C).splitted_ptr = T.splitted_ptr
      /\ Body_task(T, C).Dependency = T.Dependency
      /\ Body_task(T, C).Utilization = u
      /\ Body_task(T, C).Runtime = r
  BY <1>2, <1>5, <1>6 DEF TaskInfos
<1> DEFINE w == T.Utilization - u
           q == T.Runtime - r
<1>8. Tail_task(T, C, slot) = [slot EXCEPT !.Period = T.Period, !.priority = T.priority,
                                           !.Utilization = w, !.Runtime = q,
                                           !.subnum = T.subnum + 1, !.Dependency = TRUE]
  BY <1>7 DEF Tail_task
<1>9. w \in Nat /\ q \in Nat
  BY <1>2, <1>6
<1>10. w > 0 /\ w * T.Period <= q * UNIT /\ r + q = T.Runtime
  BY <1>2, <1>4, <1>6
<1> HIDE DEF w, q
<1>11. /\ Tail_task(T, C, slot) \in TaskInfos
       /\ Tail_task(T, C, slot).Period = T.Period
       /\ Tail_task(T, C, slot).my_ptr = slot.my_ptr
       /\ Tail_task(T, C, slot).splitted_ptr = slot.splitted_ptr
       /\ Tail_task(T, C, slot).Dependency = TRUE
       /\ Tail_task(T, C, slot).Utilization = w
       /\ Tail_task(T, C, slot).Runtime = q
  BY ONLY slot \in TaskInfos, <1>1, <1>6, <1>8, <1>9 DEF TaskInfos
<1>12. Covered(Tail_task(T, C, slot))
  BY <1>10, <1>11 DEF Covered
<1> QED
  BY <1>2, <1>7, <1>10, <1>11, <1>12 DEF u, w

LEMMA MinCoreTyped ==
    ASSUME PlacementInv, pc = "normal_assign", ~ is_empty(core_manager)
    PROVE  get_min_core(core_manager, core_list) \in Cores
<1> USE ConstantFacts
<1>1. core_manager \in CoreStacks /\ core_list \in CoreTables
  BY DEF PlacementInv, TypeOK
<1>2. core_manager.top >= 0 /\ core_manager.top \in -1 .. configNUMBER_OF_CORES - 1
  BY <1>1 DEF is_empty, CoreStacks
<1>3. \A k \in 0 .. core_manager.top : core_manager.list[k] \in Cores
  BY <1>2 DEF PlacementInv, CoreStacksHoldCores
<1> QED BY <1>1, <1>2, <1>3, MinCore

(* The task and the core of an iteration. *)
LEMMA IterationTyped ==
    ASSUME PlacementInv, InNormalAssign
    PROVE  /\ UQ.top \in 0 .. MAX_NUM_TASKS - 1
           /\ Top(UQ) = UQ.list[UQ.top]
           /\ Top(UQ) \in Slots
           /\ Top(UQ) < curr_idx
           /\ \A k \in 0 .. UQ.top - 1 : UQ.list[k] \in Slots /\ UQ.list[k] < Top(UQ)
           /\ CoreIsUsable =>
                /\ SelectedCore \in Cores
                /\ AfterUse(SelectedCore) \in CoreStacks
                /\ \A k \in 0 .. AfterUse(SelectedCore).top :
                      AfterUse(SelectedCore).list[k] \in Cores
<1> USE ConstantFacts
<1>1. UQ \in TaskStacks /\ pc = "normal_assign" /\ ~ is_empty(UQ) /\ curr_idx \in 0 .. MAX_NUM_TASKS
  BY DEF PlacementInv, TypeOK, InNormalAssign
<1>2. UQ.top \in 0 .. MAX_NUM_TASKS - 1 /\ Top(UQ) = UQ.list[UQ.top]
  BY <1>1 DEF TaskStacks, is_empty, Top
<1>3. /\ \A k \in 0 .. UQ.top : UQ.list[k] \in 0 .. curr_idx - 1
      /\ \A j, k \in 0 .. UQ.top : j < k => UQ.list[j] < UQ.list[k]
  BY <1>1 DEF PlacementInv, QueueInOrder, Placing
<1>4. Top(UQ) \in Slots /\ Top(UQ) < curr_idx
  BY <1>1, <1>2, <1>3
<1>5. \A k \in 0 .. UQ.top - 1 : UQ.list[k] \in Slots /\ UQ.list[k] < Top(UQ)
  BY <1>1, <1>2, <1>3
<1>6. ASSUME CoreIsUsable
      PROVE  /\ SelectedCore \in Cores
             /\ AfterUse(SelectedCore) \in CoreStacks
             /\ \A k \in 0 .. AfterUse(SelectedCore).top : AfterUse(SelectedCore).list[k] \in Cores
  <2>1. /\ pre_assigned_core \in CoreStacks
        /\ \A k \in 0 .. pre_assigned_core.top : pre_assigned_core.list[k] \in Cores
    BY <1>1 DEF PlacementInv, CoreStacksHoldCores, Booting, TypeOK
  <2>2. SelectedCore \in Cores
    <3>1. get_min_core(core_manager, core_list) \in Cores
      BY <1>1, <1>6, MinCoreTyped DEF CoreIsUsable
    <3>2. Top(pre_assigned_core) # NULL => Top(pre_assigned_core) \in Cores
      <4>1. pre_assigned_core.top \in -1 .. configNUMBER_OF_CORES - 1
        BY <2>1 DEF CoreStacks
      <4> QED BY <2>1, <4>1 DEF Top, is_empty
    <3>3. SelectedCore # NULL
      BY <1>6 DEF CoreIsUsable
    <3> QED BY <3>1, <3>2, <3>3 DEF SelectedCore
  <2> DEFINE rest == IF MinCoreIsFull THEN Popped(pre_assigned_core) ELSE pre_assigned_core
  <2>3. rest \in CoreStacks /\ \A k \in 0 .. rest.top : rest.list[k] \in Cores
    <3>1. CASE MinCoreIsFull
      <4>1. /\ Popped(pre_assigned_core) \in CoreStacks
            /\ Popped(pre_assigned_core).list = pre_assigned_core.list
            /\ Popped(pre_assigned_core).top <= pre_assigned_core.top
        BY <2>1, PopTyped, StackContents
      <4>2. Popped(pre_assigned_core).top \in Int /\ pre_assigned_core.top \in Int
        BY <2>1, <4>1 DEF CoreStacks
      <4> QED BY <2>1, <3>1, <4>1, <4>2
    <3>2. CASE ~ MinCoreIsFull
      BY <2>1, <3>2
    <3> QED BY <3>1, <3>2
  <2>4. AfterUse(SelectedCore) = IF core_list[SelectedCore].pre_assigned
                                   THEN Push_core(SelectedCore, rest) ELSE rest
    BY DEF AfterUse
  <2> HIDE DEF rest
  <2>5. /\ Push_core(SelectedCore, rest) \in CoreStacks
        /\ \A k \in 0 .. Push_core(SelectedCore, rest).top :
              Push_core(SelectedCore, rest).list[k] \in Cores
    BY ONLY <2>2, <2>3, PushTyped, StackContents
  <2> QED BY ONLY <2>2, <2>3, <2>4, <2>5
<1> QED BY <1>2, <1>4, <1>5, <1>6

LEMMA PlacementAssignWhole == PlacementInv /\ AssignWhole => PlacementInv'
<1> SUFFICES ASSUME PlacementInv, AssignWhole PROVE PlacementInv'
  OBVIOUS
<1> USE ConstantFacts
<1> DEFINE T == Top(UQ)
           C == SelectedCore
           u == task_list[T].Utilization
<1>1. TypeOK /\ InNormalAssign /\ CoreIsUsable /\ pc = "normal_assign"
  BY DEF PlacementInv, AssignWhole, InNormalAssign
<1>2. /\ UQ.top \in 0 .. MAX_NUM_TASKS - 1
      /\ T \in Slots /\ T < curr_idx /\ C \in Cores
      /\ \A k \in 0 .. UQ.top - 1 : UQ.list[k] \in Slots /\ UQ.list[k] < T
      /\ AfterUse(C) \in CoreStacks
      /\ \A k \in 0 .. AfterUse(C).top : AfterUse(C).list[k] \in Cores
  BY <1>1, IterationTyped
<1>3. u \in Nat
  BY <1>1, <1>2 DEF TypeOK, TaskInfos
<1>4. /\ tcb' = PinnedTo(T, C, tcb)
      /\ assigned' = [assigned EXCEPT ![T] = C]
      /\ core_list' = Charged(C, u)
      /\ pre_assigned_core' = AfterUse(C)
      /\ UQ' = Popped(UQ)
      /\ UNCHANGED <<pc, i, table, heap_size, task_list, core_manager, task_manager,
                     curr_idx, heap, full>>
  BY DEF AssignWhole
<1> HIDE DEF T, C, u
<1>5. /\ tcb' \in TCBTables
      /\ \A s \in Slots : s # T => tcb'[s] = tcb[s]
      /\ core_list' \in CoreTables
      /\ assigned' \in [Slots -> Cores \cup {NULL}]
  <2>1. tcb \in TCBTables /\ core_list \in CoreTables
    BY <1>1 DEF TypeOK
  <2>2. assigned' \in [Slots -> Cores \cup {NULL}]
    BY <1>1, <1>2, <1>4 DEF TypeOK
  <2> QED BY <1>2, <1>3, <1>4, <2>1, <2>2, PinTyped, PinEffect, ChargeTyped
<1>6. UQ' \in TaskStacks /\ UQ'.list = UQ.list /\ UQ'.top = UQ.top - 1
  <2>1. UQ \in TaskStacks
    BY <1>1 DEF TypeOK
  <2>2. Popped(UQ).top = UQ.top - 1
    BY <1>2, <2>1 DEF Popped, is_empty, TaskStacks
  <2> QED BY <1>4, <2>1, <2>2, PopTyped, StackContents
<1>7. TypeOK'
  BY <1>1, <1>2, <1>4, <1>5, <1>6 DEF TypeOK
<1>8. ManagerInOrder' /\ CoreStacksHoldCores' /\ PeriodsKept'
  BY <1>1, <1>2, <1>4 DEF PlacementInv, ManagerInOrder, CoreStacksHoldCores, PeriodsKept, Booting
<1>9. 0 .. UQ'.top \subseteq 0 .. UQ.top /\ \A k \in 0 .. UQ'.top : k \in 0 .. UQ.top - 1
  BY <1>2, <1>6
<1>10. QueueInOrder'
  BY <1>1, <1>4, <1>6, <1>9 DEF PlacementInv, QueueInOrder, Placing
<1>11. WaitingCovered'
  BY <1>1, <1>4, <1>6, <1>9 DEF PlacementInv, WaitingCovered, Placing
<1>12. WaitingUnplaced'
  <2>1. /\ \A k \in 0 .. UQ.top : Unplaced(tcb[UQ.list[k]])
        /\ \A s \in Slots : s >= curr_idx => tcb[s] = NoTCB
    BY <1>1 DEF PlacementInv, WaitingUnplaced, Placing
  <2>2. \A k \in 0 .. UQ'.top : UQ'.list[k] \in Slots /\ UQ'.list[k] # T
    BY <1>2, <1>6, <1>9
  <2>3. \A k \in 0 .. UQ'.top : Unplaced(tcb'[UQ'.list[k]])
    BY <1>5, <1>6, <1>9, <2>1, <2>2
  <2>4. curr_idx \in Nat
    BY <1>1 DEF TypeOK
  <2>5. \A s \in Slots : s >= curr_idx => tcb'[s] = NoTCB
    BY <1>2, <1>5, <2>1, <2>4
  <2> QED BY <1>1, <1>4, <2>3, <2>5 DEF WaitingUnplaced, Placing, Booting
<1> QED
  BY <1>7, <1>8, <1>10, <1>11, <1>12 DEF PlacementInv

(* The steps that leave NORMAL-ASSIGN or the boot. *)
LEMMA PlacementEnds ==
    PlacementInv /\ (PreAssignNull \/ ReportFull \/ NormalAssignUndefined \/ StartScheduler)
    => PlacementInv'
<1> SUFFICES ASSUME PlacementInv,
                    PreAssignNull \/ ReportFull \/ NormalAssignUndefined \/ StartScheduler
             PROVE  PlacementInv'
  OBVIOUS
<1>1. /\ pc' \in {"started", "undefined"}
      /\ UNCHANGED <<i, table, heap_size, task_list, assigned, tcb, core_list,
                     core_manager, task_manager, curr_idx, heap>>
      /\ UQ' \in {UQ, Popped(UQ)}
      /\ pre_assigned_core' \in {pre_assigned_core, Popped(pre_assigned_core)}
      /\ full' \in {full, TRUE}
      /\ pc \in {"pre_assign", "normal_assign"}
  BY DEF PreAssignNull, ReportFull, NormalAssignUndefined, StartScheduler, InNormalAssign
<1>2. TypeOK
  BY DEF PlacementInv
<1>3. /\ UQ' \in TaskStacks
      /\ pre_assigned_core' \in CoreStacks
      /\ \A k \in 0 .. pre_assigned_core'.top : pre_assigned_core'.list[k] \in Cores
  <2>1. /\ UQ \in TaskStacks
        /\ pre_assigned_core \in CoreStacks
        /\ \A k \in 0 .. pre_assigned_core.top : pre_assigned_core.list[k] \in Cores
    BY <1>1, <1>2 DEF PlacementInv, CoreStacksHoldCores, Booting, TypeOK
  <2>2. UQ' \in TaskStacks /\ pre_assigned_core' \in CoreStacks
    BY <1>1, <2>1, PopTyped
  <2>3. pre_assigned_core'.list = pre_assigned_core.list /\ pre_assigned_core'.top <= pre_assigned_core.top
    BY <1>1, <2>1, StackContents DEF CoreStacks
  <2>4. pre_assigned_core'.top \in Int /\ pre_assigned_core.top \in Int
    BY <2>1, <2>2 DEF CoreStacks
  <2> QED BY <2>1, <2>2, <2>3, <2>4
<1>4. full' \in BOOLEAN
  BY <1>1, <1>2 DEF TypeOK
<1>5. TypeOK'
  BY <1>1, <1>2, <1>3, <1>4 DEF TypeOK
<1>6. ManagerInOrder' /\ CoreStacksHoldCores' /\ PeriodsKept'
  BY <1>1, <1>3 DEF PlacementInv, ManagerInOrder, CoreStacksHoldCores, PeriodsKept, Booting
<1>7. QueueInOrder' /\ WaitingCovered' /\ WaitingUnplaced'
  BY <1>1 DEF QueueInOrder, WaitingCovered, WaitingUnplaced, Placing, Booting
<1> QED
  BY <1>5, <1>6, <1>7 DEF PlacementInv

LEMMA PlacementAssignSplit == PlacementInv /\ AssignSplit => PlacementInv'
<1> SUFFICES ASSUME PlacementInv, AssignSplit PROVE PlacementInv'
  OBVIOUS
<1> USE ConstantFacts
<1> DEFINE T == Top(UQ)
           C == SelectedCore
           body == Body_task(task_list[T], core_list[C])
           tail == Tail_task(task_list[T], core_list[C], task_list[curr_idx])
           L == [task_list EXCEPT ![T] = body, ![curr_idx] = tail]
           created == CreatedIn(curr_idx, L)
           tcbs == IF heap > 0
                     THEN [tcb EXCEPT ![curr_idx] =
                              [uxPriority |-> ClampedPriority(tail.priority),
                               affinity   |-> Cores]]
                     ELSE tcb
<1>1. TypeOK /\ InNormalAssign /\ CoreIsUsable /\ pc = "normal_assign" /\ curr_idx < MAX_NUM_TASKS
  BY DEF PlacementInv, AssignSplit, InNormalAssign
<1>2. /\ UQ.top \in 0 .. MAX_NUM_TASKS - 1
      /\ T = UQ.list[UQ.top]
      /\ T \in Slots /\ T < curr_idx /\ C \in Cores
      /\ \A k \in 0 .. UQ.top - 1 : UQ.list[k] \in Slots /\ UQ.list[k] < T
      /\ AfterUse(C) \in CoreStacks
      /\ \A k \in 0 .. AfterUse(C).top : AfterUse(C).list[k] \in Cores
  BY <1>1, IterationTyped
<1>3. curr_idx \in Slots /\ curr_idx # T /\ curr_idx >= NUM_OF_TASK /\ heap \in Nat
  BY <1>1, <1>2 DEF PlacementInv, QueueInOrder, Placing, TypeOK
<1>4. /\ task_list \in [Slots -> TaskInfos]
      /\ tcb \in TCBTables
      /\ core_list \in CoreTables
      /\ UQ \in TaskStacks
  BY <1>1 DEF TypeOK
<1>5. /\ body \in TaskInfos /\ tail \in TaskInfos
      /\ body.Period = task_list[T].Period
      /\ body.Utilization \in Nat
      /\ Covered(tail)
  <2>1. /\ task_list[T] \in TaskInfos /\ task_list[curr_idx] \in TaskInfos
        /\ core_list[C] \in [Utilization : Nat, pre_assigned : BOOLEAN]
    BY <1>2, <1>3, <1>4 DEF CoreTables
  <2>2. core_list[C].Utilization < Utilization_Bound
    BY <1>1 DEF CoreIsUsable
  <2>3. ~ (core_list[C].Utilization + task_list[T].Utilization <= Utilization_Bound)
    BY DEF AssignSplit, Fits
  <2>4. core_list[C].Utilization + task_list[T].Utilization > Utilization_Bound
    BY SMTT(20), <2>1, <2>3 DEF TaskInfos
  <2>5. Covered(task_list[T])
    BY <1>1, <1>2 DEF PlacementInv, WaitingCovered, Placing
  <2>6. /\ body \in TaskInfos /\ tail \in TaskInfos
        /\ body.Period = task_list[T].Period
        /\ Covered(tail)
    BY <2>1, <2>2, <2>4, <2>5, SplitTyped
  <2> QED BY <2>6 DEF TaskInfos
<1>6. /\ task_list' = [created EXCEPT ![T].splitted_ptr = created[curr_idx].my_ptr]
      /\ tcb' = PinnedTo(T, C, tcbs)
      /\ assigned' = [assigned EXCEPT ![T] = C]
      /\ core_list' = Charged(C, body.Utilization)
      /\ pre_assigned_core' = AfterUse(C)
      /\ UQ' = Push_task(curr_idx, Popped(UQ))
      /\ curr_idx' = curr_idx + 1
      /\ heap' = HeapAfterCreate
      /\ UNCHANGED <<pc, i, table, heap_size, core_manager, task_manager, full>>
  BY DEF AssignSplit
<1> HIDE DEF T, C, body, tail
<1>7. /\ L \in [Slots -> TaskInfos]
      /\ L[T] = body /\ L[curr_idx] = tail
      /\ \A s \in Slots : s # T /\ s # curr_idx => L[s] = task_list[s]
  BY <1>2, <1>3, <1>4, <1>5
<1> HIDE DEF L
<1>8. /\ created \in [Slots -> TaskInfos]
      /\ \A s \in Slots : /\ created[s].Period = L[s].Period
                          /\ created[s].Runtime = L[s].Runtime
                          /\ created[s].Utilization = L[s].Utilization
  BY <1>3, <1>7, CreateTyped
<1> HIDE DEF created
<1>9. /\ task_list' \in [Slots -> TaskInfos]
      /\ \A s \in Slots : /\ task_list'[s].Period = created[s].Period
                          /\ task_list'[s].Runtime = created[s].Runtime
                          /\ task_list'[s].Utilization = created[s].Utilization
  <2>1. created[curr_idx].my_ptr \in Slots \cup {NULL}
    BY <1>3, <1>8 DEF TaskInfos
  <2>2. [created[T] EXCEPT !.splitted_ptr = created[curr_idx].my_ptr] \in TaskInfos
    <3>1. created[T] \in TaskInfos
      BY <1>2, <1>8
    <3> QED BY <2>1, <3>1, PointerTyped
  <2> QED BY <1>2, <1>6, <1>8, <2>2 DEF TaskInfos
<1>10. /\ tcbs \in TCBTables
       /\ \A s \in Slots : s # curr_idx => tcbs[s] = tcb[s]
       /\ tcbs[curr_idx].affinity = Cores \/ tcbs[curr_idx] = tcb[curr_idx]
  <2> DEFINE r == [uxPriority |-> ClampedPriority(tail.priority), affinity |-> Cores]
  <2>1. ClampedPriority(tail.priority) \in 0 .. configMAX_PRIORITIES - 1
    BY <1>5, ClampTyped DEF TaskInfos
  <2>2. /\ r \in [uxPriority : 0 .. configMAX_PRIORITIES - 1, affinity : SUBSET Cores]
        /\ r.affinity = Cores
    BY <2>1
  <2>3. tcbs = IF heap > 0 THEN [tcb EXCEPT ![curr_idx] = r] ELSE tcb
    OBVIOUS
  <2> HIDE DEF r, tcbs
  <2> QED BY <1>3, <1>4, <2>2, <2>3 DEF TCBTables
<1> HIDE DEF tcbs
<1>11. /\ tcb' \in TCBTables
       /\ \A s \in Slots : s # T => tcb'[s] = tcbs[s]
       /\ core_list' \in CoreTables
       /\ assigned' \in [Slots -> Cores \cup {NULL}]
  <2>1. assigned' \in [Slots -> Cores \cup {NULL}]
    BY <1>1, <1>2, <1>6 DEF TypeOK
  <2> QED BY SMTT(20), <1>2, <1>4, <1>5, <1>6, <1>10, <2>1, PinTyped, PinEffect, ChargeTyped
<1>12. /\ UQ' \in TaskStacks
       /\ UQ'.top = UQ.top
       /\ UQ'.list = [UQ.list EXCEPT ![UQ.top] = curr_idx]
  <2>1. Popped(UQ) \in TaskStacks /\ Popped(UQ).list = UQ.list
    BY <1>4, PopTyped, StackContents
  <2>2. Popped(UQ).top = UQ.top - 1
    BY <1>2, <1>4 DEF Popped, is_empty, TaskStacks
  <2>3. Push_task(curr_idx, Popped(UQ)) = Pushed(curr_idx, Popped(UQ))
    BY <1>2, <2>2 DEF Push_task, T_is_full
  <2>4. UQ.top - 1 + 1 = UQ.top
    BY <1>2
  <2> QED BY SMTT(20), <1>3, <1>6, <2>1, <2>2, <2>3, <2>4, PushTyped DEF Pushed
<1>13. TypeOK'
  <2>1. curr_idx' \in 0 .. MAX_NUM_TASKS /\ heap' \in 0 .. heap_size'
    BY <1>1, <1>3, <1>6, HeapTyped
  <2> QED BY <1>1, <1>2, <1>6, <1>9, <1>11, <1>12, <2>1 DEF TypeOK
<1>14. ManagerInOrder' /\ CoreStacksHoldCores'
  BY <1>1, <1>2, <1>6 DEF PlacementInv, ManagerInOrder, CoreStacksHoldCores, Booting
<1>15. PeriodsKept'
  <2>1. \A s \in 0 .. NUM_OF_TASK - 1 : s \in Slots /\ s # curr_idx /\ task_list[s].Period = table[s].Period
    BY <1>3 DEF PlacementInv, PeriodsKept
  <2>2. \A s \in 0 .. NUM_OF_TASK - 1 : L[s].Period = task_list[s].Period
    BY <1>5, <1>7, <2>1
  <2> QED BY <1>6, <1>8, <1>9, <2>1, <2>2 DEF PeriodsKept
<1>16. \A k \in 0 .. UQ'.top :
          \/ k = UQ.top /\ UQ'.list[k] = curr_idx
          \/ /\ k \in 0 .. UQ.top - 1 /\ k \in 0 .. UQ.top
             /\ UQ'.list[k] = UQ.list[k]
             /\ UQ.list[k] \in Slots /\ UQ.list[k] < T
             /\ UQ.list[k] # curr_idx /\ UQ.list[k] # T
  <2>1. UQ.list \in [Slots -> Slots \cup {NULL}]
    BY <1>4 DEF TaskStacks
  <2> QED BY SMTT(20), <1>2, <1>3, <1>12, <2>1
<1>17. QueueInOrder'
  <2>1. /\ \A k \in 0 .. UQ.top : UQ.list[k] \in 0 .. curr_idx - 1
        /\ \A j, k \in 0 .. UQ.top : j < k => UQ.list[j] < UQ.list[k]
    BY <1>1 DEF PlacementInv, QueueInOrder, Placing
  <2>2. \A k \in 0 .. UQ'.top : UQ'.list[k] \in 0 .. curr_idx' - 1
    <3>1. curr_idx \in Nat /\ curr_idx' = curr_idx + 1
      BY <1>3, <1>6
    <3> QED BY <1>16, <2>1, <3>1
  <2>3. \A j, k \in 0 .. UQ'.top : j < k => UQ'.list[j] < UQ'.list[k]
    BY SMTT(20), <1>2, <1>3, <1>12, <1>16, <2>1
  <2> QED BY <1>1, <1>3, <1>6, <2>2, <2>3 DEF QueueInOrder
<1>18. WaitingCovered'
  <2>1. \A k \in 0 .. UQ.top : Covered(task_list[UQ.list[k]])
    BY <1>1 DEF PlacementInv, WaitingCovered, Placing
  <2>2. \A s \in Slots : Covered(L[s]) => Covered(task_list'[s])
    BY <1>8, <1>9 DEF Covered
  <2>3. \A k \in 0 .. UQ'.top : UQ'.list[k] \in Slots /\ Covered(L[UQ'.list[k]])
    BY <1>3, <1>5, <1>7, <1>16, <2>1
  <2> QED BY <1>1, <1>6, <2>2, <2>3 DEF WaitingCovered
<1>19. WaitingUnplaced'
  <2>1. /\ \A k \in 0 .. UQ.top : Unplaced(tcb[UQ.list[k]])
        /\ \A s \in Slots : s >= curr_idx => tcb[s] = NoTCB
    BY <1>1 DEF PlacementInv, WaitingUnplaced, Placing
  <2>2. Unplaced(tcb'[curr_idx])
    <3>1. tcb'[curr_idx] = tcbs[curr_idx]
      BY <1>3, <1>11
    <3>2. tcb[curr_idx].affinity = {}
      BY <1>3, <2>1 DEF NoTCB
    <3> QED BY <1>10, <3>1, <3>2 DEF Unplaced
  <2>3. \A k \in 0 .. UQ'.top : Unplaced(tcb'[UQ'.list[k]])
    BY <1>10, <1>11, <1>16, <2>1, <2>2
  <2>4. \A s \in Slots : s >= curr_idx' => tcb'[s] = NoTCB
    <3>1. curr_idx' = curr_idx + 1
      BY <1>6
    <3>2. \A s \in Slots : s >= curr_idx' => s >= curr_idx /\ s # curr_idx /\ s # T
      BY <1>2, <1>3, <3>1
    <3> QED BY <1>10, <1>11, <2>1, <3>2
  <2> QED BY <1>1, <1>6, <2>3, <2>4 DEF WaitingUnplaced, Placing, Booting
<1> QED
  BY <1>13, <1>14, <1>15, <1>17, <1>18, <1>19 DEF PlacementInv

LEMMA PlacementStep == PlacementInv /\ [Next]_vars => PlacementInv'
<1>1. PlacementInv /\ UNCHANGED vars => PlacementInv'
  BY DEF vars, PlacementInv, TypeOK, ManagerInOrder, CoreStacksHoldCores, QueueInOrder,
         PeriodsKept, WaitingCovered, WaitingUnplaced, Booting, Placing
<1> QED
  BY <1>1, PlacementBoot, PlacementInitTask, PlacementInitQueues, PlacementPreAssign,
     PlacementQueue, PlacementPreAssignDone, PlacementAssignWhole, PlacementAssignSplit,
     PlacementEnds
     DEF Next, Finished

THEOREM PlacementInvariant == Spec => []PlacementInv
  BY PlacementInit, PlacementStep, PTL DEF Spec

(* The stacks of the boot never overflow their arrays, its handles and     *)
(* pointers stay within task_list, and no runtime or utilization becomes   *)
(* negative, whatever the table, the heap and the number of cores.         *)
THEOREM Typing == Spec => []TypeOK
<1>1. PlacementInv => TypeOK
  BY DEF PlacementInv
<1> QED
  BY <1>1, PlacementInvariant, PTL

----------------------------------------------------------------------------
(* Assignments are final                                                   *)

Stays(s) == Pinned(s) => tcb'[s].affinity = tcb[s].affinity

ChargedWithinBound ==
    pc = "normal_assign" =>
        \A c \in Cores : core_list'[c] # core_list[c]
                           => core_list'[c].Utilization <= Utilization_Bound

(* Only with a single core can a task that was not placed look pinned. *)
LEMMA PinAgain ==
    ASSUME NEW T \in Slots, NEW C \in Cores, Unplaced(tcb[T]), Pinned(T)
    PROVE  tcb[T].affinity = {C}
<1>1. PICK c \in Cores : tcb[T].affinity = {c}
  BY DEF Pinned
<1>2. tcb[T].affinity = Cores
  BY <1>1 DEF Unplaced
<1> QED BY <1>1, <1>2

LEMMA FinalInitTask == PlacementInv /\ InitTask => \A s \in Slots : Stays(s)
<1> SUFFICES ASSUME PlacementInv, InitTask, NEW s \in Slots, Pinned(s)
             PROVE  tcb'[s].affinity = tcb[s].affinity
  BY DEF Stays
<1> USE ConstantFacts
<1>1. pc = "init_task" /\ i \in 0 .. NUM_OF_TASK - 1 /\ task_manager.top = i - 1
  BY DEF PlacementInv, InitTask, TypeOK, ManagerInOrder
<1>2. task_manager'.list[i] = i
  <2>1. task_manager' = Pushed(i, task_manager)
    BY <1>1 DEF InitTask, Push_task, T_is_full
  <2>2. task_manager.list \in [Slots -> Slots \cup {NULL}]
    BY DEF PlacementInv, TypeOK, TaskStacks
  <2> QED BY <1>1, <2>1, <2>2 DEF Pushed
<1>3. tcb[i] = NoTCB
  BY <1>1 DEF PlacementInv, WaitingUnplaced, Booting
<1>4. s # i
  BY <1>3 DEF Pinned, NoTCB
<1>5. tcb \in TCBTables
  BY DEF PlacementInv, TypeOK
<1> QED
  BY <1>2, <1>4, <1>5 DEF InitTask, CreateTCB, TCBTables

LEMMA FinalPreAssign == PlacementInv /\ PreAssign => \A s \in Slots : Stays(s)
<1> SUFFICES ASSUME PlacementInv, PreAssign, NEW s \in Slots, Pinned(s)
             PROVE  tcb'[s].affinity = tcb[s].affinity
  BY DEF Stays
<1> USE ConstantFacts
<1> DEFINE C == Top(core_manager)
<1>1. pc = "pre_assign" /\ i \in 0 .. NUM_OF_TASK - 1 /\ i \in Slots
  BY SMTT(20) DEF PlacementInv, PreAssign, TypeOK
<1>2. task_manager.list[i] = i
  BY <1>1 DEF PlacementInv, ManagerInOrder
<1>3. Unplaced(tcb[i])
  BY <1>1 DEF PlacementInv, WaitingUnplaced
<1>4. C \in Cores
  <2>1. core_manager.top \in -1 .. configNUMBER_OF_CORES - 1 /\ core_manager.list \in [Cores -> Cores \cup {NULL}]
    BY DEF PlacementInv, TypeOK, CoreStacks
  <2>2. C # NULL
    BY DEF PreAssign
  <2> QED BY <2>1, <2>2 DEF Top, is_empty
<1>5. tcb' = PinnedTo(i, C, tcb) /\ tcb \in TCBTables
  BY <1>2 DEF PreAssign, PlacementInv, TypeOK
<1> HIDE DEF C
<1>6. CASE s = i
  <2>1. tcb[i].affinity = {C}
    BY <1>1, <1>3, <1>4, <1>6, PinAgain
  <2> QED BY <1>1, <1>5, <1>6, <2>1 DEF PinnedTo, TCBTables
<1>7. CASE s # i
  BY <1>5, <1>7 DEF PinnedTo, TCBTables
<1> QED BY <1>6, <1>7

LEMMA FinalAssignWhole ==
    PlacementInv /\ AssignWhole => (\A s \in Slots : Stays(s)) /\ ChargedWithinBound
<1> SUFFICES ASSUME PlacementInv, AssignWhole PROVE (\A s \in Slots : Stays(s)) /\ ChargedWithinBound
  OBVIOUS
<1> DEFINE T == Top(UQ)
           C == SelectedCore
           u == task_list[T].Utilization
<1>1. InNormalAssign /\ CoreIsUsable
  BY DEF AssignWhole
<1>2. T \in Slots /\ C \in Cores /\ T = UQ.list[UQ.top] /\ UQ.top \in 0 .. UQ.top
  BY <1>1, IterationTyped, ConstantFacts
<1>3. Unplaced(tcb[T])
  BY <1>1, <1>2 DEF PlacementInv, WaitingUnplaced, Placing, InNormalAssign
<1>4. /\ tcb \in TCBTables /\ core_list \in CoreTables
      /\ u \in Nat
  BY <1>2 DEF PlacementInv, TypeOK, TaskInfos
<1>5. /\ tcb' = PinnedTo(T, C, tcb)
      /\ core_list' = Charged(C, u)
      /\ core_list[C].Utilization + u <= Utilization_Bound
  BY DEF AssignWhole, Fits
<1> HIDE DEF T, C, u
<1>6. /\ \A s \in Slots : s # T => tcb'[s] = tcb[s]
      /\ tcb'[T].affinity \in {tcb[T].affinity, {C}}
      /\ \A c \in Cores : c # C => core_list'[c] = core_list[c]
      /\ core_list'[C].Utilization = core_list[C].Utilization + u
  BY <1>2, <1>4, <1>5, PinTyped, PinEffect, ChargeTyped
<1>7. \A s \in Slots : Stays(s)
  <2> SUFFICES ASSUME NEW s \in Slots, Pinned(s) PROVE tcb'[s].affinity = tcb[s].affinity
    BY DEF Stays
  <2>1. CASE s = T
    BY <1>2, <1>3, <1>6, <2>1, PinAgain
  <2>2. CASE s # T
    BY <1>6, <2>2
  <2> QED BY <2>1, <2>2
<1>8. ChargedWithinBound
  BY <1>5, <1>6 DEF ChargedWithinBound
<1> QED BY <1>7, <1>8

LEMMA FinalAssignSplit ==
    PlacementInv /\ AssignSplit => (\A s \in Slots : Stays(s)) /\ ChargedWithinBound
<1> SUFFICES ASSUME PlacementInv, AssignSplit PROVE (\A s \in Slots : Stays(s)) /\ ChargedWithinBound
  OBVIOUS
<1> DEFINE T == Top(UQ)
           C == SelectedCore
           u == Body_task(task_list[T], core_list[C]).Utilization
           r == [uxPriority |-> ClampedPriority(
                                   Tail_task(task_list[T], core_list[C], task_list[curr_idx]).priority),
                 affinity   |-> Cores]
<1>1. InNormalAssign /\ CoreIsUsable /\ curr_idx < MAX_NUM_TASKS
  BY DEF AssignSplit
<1>2. T \in Slots /\ C \in Cores /\ T = UQ.list[UQ.top] /\ UQ.top \in 0 .. UQ.top /\ T < curr_idx
  BY <1>1, IterationTyped, ConstantFacts
<1>3. Unplaced(tcb[T])
  BY <1>1, <1>2 DEF PlacementInv, WaitingUnplaced, Placing, InNormalAssign
<1>4. /\ tcb \in TCBTables /\ core_list \in CoreTables
      /\ curr_idx \in 0 .. MAX_NUM_TASKS /\ task_list \in [Slots -> TaskInfos]
  BY DEF PlacementInv, TypeOK
<1>5. curr_idx \in Slots /\ curr_idx # T /\ tcb[curr_idx] = NoTCB
  <2>1. curr_idx \in Slots /\ curr_idx # T
    BY <1>1, <1>2, <1>4, ConstantFacts
  <2> QED BY <1>1, <2>1, <1>4 DEF PlacementInv, WaitingUnplaced, Placing, InNormalAssign
<1>6. /\ tcb' = PinnedTo(T, C, IF heap > 0 THEN [tcb EXCEPT ![curr_idx] = r] ELSE tcb)
      /\ core_list' = Charged(C, u)
  BY DEF AssignSplit
<1>7. u = Utilization_Bound - core_list[C].Utilization /\ core_list[C].Utilization < Utilization_Bound
  <2>1. task_list[T] \in TaskInfos
    BY <1>2, <1>4
  <2> QED BY <1>1, <2>1 DEF Body_task, TaskInfos, CoreIsUsable
<1>8. u \in Nat /\ core_list[C].Utilization + u = Utilization_Bound
  <2>1. core_list[C].Utilization \in Nat
    BY <1>2, <1>4 DEF CoreTables
  <2> HIDE DEF u, C
  <2>2. Utilization_Bound \in Nat
    BY ConstantFacts
  <2> QED BY ONLY <1>7, <2>1, <2>2
<1> HIDE DEF T, C, u, r
<1>9. \A s \in Slots : Stays(s)
  <2> SUFFICES ASSUME NEW s \in Slots, Pinned(s) PROVE tcb'[s].affinity = tcb[s].affinity
    BY DEF Stays
  <2>1. s # curr_idx
    BY <1>5 DEF Pinned, NoTCB
  <2>2. CASE s = T
    <3>1. tcb[T].affinity = {C}
      BY <1>2, <1>3, <2>2, PinAgain
    <3>2. tcb'[T].affinity \in {tcb[T].affinity, {C}}
      BY <1>2, <1>4, <1>5, <1>6 DEF PinnedTo, TCBTables
    <3> QED BY <2>2, <3>1, <3>2
  <2>3. CASE s # T
    BY <1>4, <1>6, <2>1, <2>3 DEF PinnedTo, TCBTables
  <2> QED BY <2>2, <2>3
<1>10. ChargedWithinBound
  <2>1. /\ \A c \in Cores : c # C => core_list'[c] = core_list[c]
        /\ core_list'[C].Utilization = core_list[C].Utilization + u
    BY <1>2, <1>4, <1>6, <1>8 DEF Charged, CoreTables
  <2> QED BY <1>8, <2>1, ConstantFacts DEF ChargedWithinBound
<1> QED BY <1>9, <1>10

(* Every other step leaves the TCBs alone, and NORMAL-ASSIGN's ledger too. *)
LEMMA FinalOtherSteps ==
    /\ Boot \/ InitQueues \/ PreAssignNull \/ Queue \/ PreAssignDone \/ ReportFull
         \/ NormalAssignUndefined \/ StartScheduler \/ Finished => UNCHANGED <<tcb, core_list>>
    /\ InitTask \/ PreAssign => pc # "normal_assign"
  BY DEF Boot, InitQueues, PreAssignNull, Queue, PreAssignDone, ReportFull,
         NormalAssignUndefined, StartScheduler, Finished, vars, InitTask, PreAssign

LEMMA FinalStep ==
    PlacementInv /\ Next => (\A s \in Slots : Stays(s)) /\ ChargedWithinBound
<1> SUFFICES ASSUME PlacementInv, Next
             PROVE  (\A s \in Slots : Stays(s)) /\ ChargedWithinBound
  OBVIOUS
<1>1. CASE UNCHANGED <<tcb, core_list>>
  BY <1>1 DEF Stays, ChargedWithinBound
<1>2. CASE InitTask \/ PreAssign
  BY <1>2, FinalInitTask, FinalPreAssign, FinalOtherSteps DEF ChargedWithinBound
<1>3. CASE AssignWhole \/ AssignSplit
  BY <1>3, FinalAssignWhole, FinalAssignSplit
<1> QED
  BY <1>1, <1>2, <1>3, FinalOtherSteps DEF Next

(* A task that has been pinned to a core is never moved, and NORMAL-ASSIGN *)
(* never charges a core past the bound, for every table, heap and number   *)
(* of cores.                                                               *)
THEOREM AssignmentsAreFinal == Spec => AssignmentIsFinal
<1>1. PlacementInv /\ [Next]_vars =>
        [/\ \A s \in Slots : Pinned(s) => tcb'[s].affinity = tcb[s].affinity
         /\ pc = "normal_assign" =>
              \A c \in Cores : core_list'[c] # core_list[c]
                                 => core_list'[c].Utilization <= Utilization_Bound]_vars
  BY FinalStep DEF Stays, ChargedWithinBound
<1> QED
  BY <1>1, PlacementInvariant, PTL DEF Spec, AssignmentIsFinal

----------------------------------------------------------------------------
(* What AssignSplit does to each slot.                                     *)

LEMMA CreateEffect ==
    ASSUME NEW slot \in Slots, NEW list \in [Slots -> TaskInfos], heap \in Nat
    PROVE  LET new == CreatedIn(slot, list) IN
           /\ \A s \in Slots : s # slot => new[s] = list[s]
           /\ new[slot].my_ptr = IF heap > 0 THEN slot ELSE list[slot].my_ptr
           /\ new[slot].splitted_ptr = list[slot].splitted_ptr
           /\ new[slot].Dependency = list[slot].Dependency
           /\ new[slot].Heavy = list[slot].Heavy
           /\ new[slot].priority = list[slot].priority
<1>1. list[slot] = [list[slot] EXCEPT !.my_ptr = list[slot].my_ptr]
  BY DEF TaskInfos
<1> QED
  BY DEF CreatedIn, TaskInfos

SplitBody == Body_task(task_list[Top(UQ)], core_list[SelectedCore])
SplitTail == Tail_task(task_list[Top(UQ)], core_list[SelectedCore], task_list[curr_idx])

(* The slots and the core of a split. *)
LEMMA SplitContext ==
    ASSUME PlacementInv, AssignSplit
    PROVE  /\ Top(UQ) \in Slots /\ Top(UQ) < curr_idx
           /\ SelectedCore \in Cores
           /\ curr_idx \in Slots /\ curr_idx >= NUM_OF_TASK /\ curr_idx # Top(UQ)
           /\ heap \in Nat
           /\ pc = "normal_assign"
           /\ UQ.top \in 0 .. MAX_NUM_TASKS - 1
           /\ Top(UQ) = UQ.list[UQ.top]
           /\ \A k \in 0 .. UQ.top - 1 : UQ.list[k] \in Slots /\ UQ.list[k] < Top(UQ)
<1> USE ConstantFacts
<1>1. TypeOK /\ InNormalAssign /\ CoreIsUsable /\ pc = "normal_assign" /\ curr_idx < MAX_NUM_TASKS
  BY DEF PlacementInv, AssignSplit, InNormalAssign
<1>2. /\ UQ.top \in 0 .. MAX_NUM_TASKS - 1
      /\ Top(UQ) = UQ.list[UQ.top]
      /\ Top(UQ) \in Slots /\ Top(UQ) < curr_idx
      /\ SelectedCore \in Cores
      /\ \A k \in 0 .. UQ.top - 1 : UQ.list[k] \in Slots /\ UQ.list[k] < Top(UQ)
  BY <1>1, IterationTyped
<1>3. curr_idx \in 0 .. MAX_NUM_TASKS /\ heap \in Nat
  BY <1>1 DEF TypeOK
<1>4. curr_idx >= NUM_OF_TASK
  BY <1>1 DEF PlacementInv, QueueInOrder, Placing
<1>5. curr_idx \in Slots /\ curr_idx # Top(UQ)
  BY <1>1, <1>2, <1>3
<1> QED BY <1>1, <1>2, <1>3, <1>4, <1>5

(* The two parts. *)
LEMMA SplitParts ==
    ASSUME PlacementInv, AssignSplit
    PROVE  /\ SplitBody \in TaskInfos /\ SplitTail \in TaskInfos
           /\ SplitBody.Period = task_list[Top(UQ)].Period
           /\ SplitTail.Period = task_list[Top(UQ)].Period
           /\ SplitBody.my_ptr = task_list[Top(UQ)].my_ptr
           /\ SplitBody.Dependency = task_list[Top(UQ)].Dependency
           /\ SplitTail.Dependency
           /\ SplitTail.my_ptr = task_list[curr_idx].my_ptr
           /\ SplitTail.splitted_ptr = task_list[curr_idx].splitted_ptr
           /\ SplitBody.Utilization = Utilization_Bound - core_list[SelectedCore].Utilization
           /\ SplitBody.Utilization > 0
           /\ SplitTail.Utilization = task_list[Top(UQ)].Utilization - SplitBody.Utilization
           /\ SplitTail.Utilization > 0
           /\ SplitBody.Runtime + SplitTail.Runtime = task_list[Top(UQ)].Runtime
           /\ Covered(SplitTail)
<1> DEFINE T == Top(UQ)
           C == SelectedCore
<1>1. /\ T \in Slots /\ C \in Cores /\ curr_idx \in Slots /\ pc = "normal_assign"
      /\ UQ.top \in 0 .. UQ.top /\ T = UQ.list[UQ.top]
  BY SplitContext, ConstantFacts
<1>2. /\ task_list[T] \in TaskInfos /\ task_list[curr_idx] \in TaskInfos
      /\ core_list[C] \in [Utilization : Nat, pre_assigned : BOOLEAN]
  BY <1>1 DEF PlacementInv, TypeOK, CoreTables
<1>3. core_list[C].Utilization < Utilization_Bound
  BY DEF AssignSplit, CoreIsUsable
<1>4. ~ (core_list[C].Utilization + task_list[T].Utilization <= Utilization_Bound)
  BY DEF AssignSplit, Fits
<1>5. core_list[C].Utilization + task_list[T].Utilization > Utilization_Bound
  BY SMTT(20), <1>2, <1>4, ConstantFacts DEF TaskInfos
<1>6. Covered(task_list[T])
  BY <1>1 DEF PlacementInv, WaitingCovered, Placing
<1> HIDE DEF T, C
<1> QED
  BY <1>2, <1>3, <1>5, <1>6, SplitTyped DEF SplitBody, SplitTail, T, C

(* The slots afterwards. *)
LEMMA SplitSlots ==
    ASSUME PlacementInv, AssignSplit
    PROVE  LET T == Top(UQ) IN
           /\ \A s \in Slots : s # T /\ s # curr_idx => task_list'[s] = task_list[s]
           /\ task_list'[T].Runtime = SplitBody.Runtime
           /\ task_list'[T].Period = SplitBody.Period
           /\ task_list'[T].Utilization = SplitBody.Utilization
           /\ task_list'[T].my_ptr = task_list[T].my_ptr
           /\ task_list'[T].Dependency = task_list[T].Dependency
           /\ task_list'[T].splitted_ptr = task_list'[curr_idx].my_ptr
           /\ task_list'[curr_idx].Runtime = SplitTail.Runtime
           /\ task_list'[curr_idx].Period = SplitTail.Period
           /\ task_list'[curr_idx].Utilization = SplitTail.Utilization
           /\ task_list'[curr_idx].Dependency
           /\ task_list'[curr_idx].splitted_ptr = task_list[curr_idx].splitted_ptr
           /\ task_list'[curr_idx].my_ptr = IF heap > 0 THEN curr_idx ELSE task_list[curr_idx].my_ptr
<1> DEFINE T == Top(UQ)
           L == [task_list EXCEPT ![T] = SplitBody, ![curr_idx] = SplitTail]
           created == CreatedIn(curr_idx, L)
<1>1. T \in Slots /\ curr_idx \in Slots /\ curr_idx # T /\ heap \in Nat
  BY SplitContext
<1>2. task_list \in [Slots -> TaskInfos]
  BY DEF PlacementInv, TypeOK
<1>3. task_list' = [created EXCEPT ![T].splitted_ptr = created[curr_idx].my_ptr]
  BY DEF AssignSplit, SplitBody, SplitTail
<1>4. /\ SplitBody \in TaskInfos /\ SplitTail \in TaskInfos
      /\ SplitBody.my_ptr = task_list[T].my_ptr
      /\ SplitBody.Dependency = task_list[T].Dependency
      /\ SplitTail.Dependency
      /\ SplitTail.my_ptr = task_list[curr_idx].my_ptr
      /\ SplitTail.splitted_ptr = task_list[curr_idx].splitted_ptr
  BY SplitParts
<1> HIDE DEF T
<1>5. /\ L \in [Slots -> TaskInfos]
      /\ L[T] = SplitBody /\ L[curr_idx] = SplitTail
      /\ \A s \in Slots : s # T /\ s # curr_idx => L[s] = task_list[s]
  BY <1>1, <1>2, <1>4
<1> HIDE DEF L
<1>6. /\ created \in [Slots -> TaskInfos]
      /\ created[T] = SplitBody
      /\ \A s \in Slots : s # T /\ s # curr_idx => created[s] = task_list[s]
      /\ created[curr_idx].Runtime = SplitTail.Runtime
      /\ created[curr_idx].Period = SplitTail.Period
      /\ created[curr_idx].Utilization = SplitTail.Utilization
      /\ created[curr_idx].Dependency = SplitTail.Dependency
      /\ created[curr_idx].splitted_ptr = SplitTail.splitted_ptr
      /\ created[curr_idx].my_ptr = IF heap > 0 THEN curr_idx ELSE SplitTail.my_ptr
  BY <1>1, <1>5, CreateTyped, CreateEffect
<1> HIDE DEF created
<1>7. /\ \A s \in Slots : s # T => task_list'[s] = created[s]
      /\ task_list'[T] = [SplitBody EXCEPT !.splitted_ptr = created[curr_idx].my_ptr]
  BY <1>1, <1>3, <1>6
<1>8. /\ task_list'[T].Runtime = SplitBody.Runtime
      /\ task_list'[T].Period = SplitBody.Period
      /\ task_list'[T].Utilization = SplitBody.Utilization
      /\ task_list'[T].my_ptr = SplitBody.my_ptr
      /\ task_list'[T].Dependency = SplitBody.Dependency
      /\ task_list'[T].splitted_ptr = created[curr_idx].my_ptr
  BY <1>4, <1>7 DEF TaskInfos
<1> QED
  BY <1>1, <1>4, <1>6, <1>7, <1>8 DEF T

(* What one iteration of init_task does to the table and to the kernel. *)
LEMMA InitTaskEffect ==
    ASSUME PlacementInv, InitTask
    PROVE  /\ pc = "init_task" /\ i \in 0 .. NUM_OF_TASK - 1 /\ i \in Slots
           /\ \A s \in Slots : s # i => task_list'[s] = task_list[s] /\ tcb'[s] = tcb[s]
           /\ task_list'[i].Runtime = task_list[i].Runtime
           /\ task_list'[i].Utilization = UtilizationOf(task_list[i])
           /\ task_list'[i].Heavy => \/ task_list[i].Heavy
                                     \/ ExceedsLightBound(UtilizationOf(task_list[i]))
           /\ task_list'[i].splitted_ptr = task_list[i].splitted_ptr
           /\ task_list'[i].Dependency = task_list[i].Dependency
           /\ task_list'[i].my_ptr = IF heap > 0 THEN i ELSE task_list[i].my_ptr
           /\ Unplaced(tcb[i]) /\ Unplaced(tcb'[i])
           /\ IF heap > 0 THEN tcb'[i].affinity = Cores ELSE tcb'[i] = tcb[i]
<1> USE ConstantFacts
<1>1. /\ pc = "init_task" /\ i \in 0 .. NUM_OF_TASK - 1 /\ i \in Slots
      /\ task_manager.top = i - 1 /\ heap \in Nat
      /\ task_list \in [Slots -> TaskInfos]
  BY DEF PlacementInv, InitTask, TypeOK, ManagerInOrder
<1>2. task_manager'.list[i] = i
  <2>1. task_manager' = Pushed(i, task_manager)
    BY <1>1 DEF InitTask, Push_task, T_is_full
  <2>2. task_manager.list \in [Slots -> Slots \cup {NULL}]
    BY DEF PlacementInv, TypeOK, TaskStacks
  <2> QED BY <1>1, <2>1, <2>2 DEF Pushed
<1> DEFINE L == [task_list EXCEPT ![i] = Classified(task_list[i])]
<1>3. task_list' = CreatedIn(i, L)
  BY <1>2 DEF InitTask
<1>4. /\ task_list[i] \in TaskInfos /\ task_list[i].Period > 0
  <2>1. task_list[i] \in TaskInfos /\ table[i] \in Rows
    BY <1>1 DEF PlacementInv, TypeOK
  <2>2. task_list[i].Period = table[i].Period
    BY <1>1 DEF PlacementInv, PeriodsKept
  <2> QED BY <2>1, <2>2 DEF Rows
<1>5. /\ Classified(task_list[i]) \in TaskInfos
      /\ Classified(task_list[i]).Runtime = task_list[i].Runtime
      /\ Classified(task_list[i]).Utilization = UtilizationOf(task_list[i])
      /\ Classified(task_list[i]).Heavy => \/ task_list[i].Heavy
                                           \/ ExceedsLightBound(UtilizationOf(task_list[i]))
      /\ Classified(task_list[i]).splitted_ptr = task_list[i].splitted_ptr
      /\ Classified(task_list[i]).Dependency = task_list[i].Dependency
      /\ Classified(task_list[i]).my_ptr = task_list[i].my_ptr
  <2>1. /\ Classified(task_list[i]).splitted_ptr = task_list[i].splitted_ptr
        /\ Classified(task_list[i]).Dependency = task_list[i].Dependency
        /\ Classified(task_list[i]).my_ptr = task_list[i].my_ptr
        /\ Classified(task_list[i]).Heavy => \/ task_list[i].Heavy
                                             \/ ExceedsLightBound(UtilizationOf(task_list[i]))
    BY <1>4 DEF Classified, TaskInfos
  <2> QED BY <1>4, <2>1, ClassifiedTyped
<1>6. /\ L \in [Slots -> TaskInfos]
      /\ L[i] = Classified(task_list[i])
      /\ \A s \in Slots : s # i => L[s] = task_list[s]
  BY <1>1, <1>5
<1> HIDE DEF L
<1>7. /\ \A s \in Slots : s # i => task_list'[s] = task_list[s]
      /\ task_list'[i].Runtime = task_list[i].Runtime
      /\ task_list'[i].Utilization = UtilizationOf(task_list[i])
      /\ task_list'[i].Heavy => \/ task_list[i].Heavy
                                \/ ExceedsLightBound(UtilizationOf(task_list[i]))
      /\ task_list'[i].splitted_ptr = task_list[i].splitted_ptr
      /\ task_list'[i].Dependency = task_list[i].Dependency
      /\ task_list'[i].my_ptr = IF heap > 0 THEN i ELSE task_list[i].my_ptr
  BY <1>1, <1>3, <1>5, <1>6, CreateTyped, CreateEffect
<1>8. tcb[i] = NoTCB /\ Unplaced(tcb[i]) /\ tcb \in TCBTables
  BY <1>1 DEF PlacementInv, WaitingUnplaced, Booting, TypeOK
<1>9. /\ \A s \in Slots : s # i => tcb'[s] = tcb[s]
      /\ IF heap > 0 THEN tcb'[i].affinity = Cores ELSE tcb'[i] = tcb[i]
  <2> DEFINE r == [uxPriority |-> ClampedPriority(task_list[i].priority), affinity |-> Cores]
  <2>1. tcb' = IF heap > 0 THEN [tcb EXCEPT ![i] = r] ELSE tcb
    BY <1>2 DEF InitTask, CreateTCB
  <2>2. r.affinity = Cores
    OBVIOUS
  <2> HIDE DEF r
  <2> QED BY <1>1, <1>8, <2>1, <2>2 DEF TCBTables
<1> QED BY <1>1, <1>7, <1>8, <1>9 DEF Unplaced

----------------------------------------------------------------------------
(* The queue of unassigned tasks.                                          *)

(* Push_task on a queue with room. *)
LEMMA PushedQueue ==
    ASSUME NEW stack \in TaskStacks, stack.top < MAX_NUM_TASKS - 1, NEW T \in Slots,
           NEW q, q = Push_task(T, stack)
    PROVE  /\ q.top = stack.top + 1
           /\ q.list[stack.top + 1] = T
           /\ stack.top + 1 \in 0 .. q.top
           /\ \A k \in 0 .. stack.top : k \in 0 .. q.top /\ q.list[k] = stack.list[k]
<1> USE ConstantFacts
<1>1. stack.top \in -1 .. MAX_NUM_TASKS - 1 /\ stack.list \in [Slots -> Slots \cup {NULL}]
  BY DEF TaskStacks
<1>2. q = Pushed(T, stack)
  BY <1>1 DEF Push_task, T_is_full
<1>3. q.top = stack.top + 1 /\ q.list = [stack.list EXCEPT ![stack.top + 1] = T]
  BY <1>2 DEF Pushed
<1>4. stack.top + 1 \in Slots /\ \A k \in 0 .. stack.top : k \in Slots /\ k # stack.top + 1
  BY <1>1
<1> QED BY <1>1, <1>3, <1>4

(* Push_task adds nothing but its task to the queue. *)
LEMMA PushAdds ==
    ASSUME UQ \in TaskStacks, NEW T \in Slots, UQ' = Push_task(T, UQ)
    PROVE  \A s \in Queued' : s = T \/ s \in Queued
<1> USE ConstantFacts
<1>1. CASE UQ' = UQ
  BY <1>1 DEF Queued
<1>2. CASE /\ UQ.top + 1 \in Slots
           /\ UQ'.top = UQ.top + 1
           /\ UQ'.list = [UQ.list EXCEPT ![UQ.top + 1] = T]
  <2>1. UQ.list \in [Slots -> Slots \cup {NULL}] /\ UQ.top \in -1 .. MAX_NUM_TASKS - 1
    BY DEF TaskStacks
  <2>2. ASSUME NEW k \in 0 .. UQ'.top PROVE UQ'.list[k] = T \/ UQ'.list[k] \in Queued
    <3>1. k = UQ.top + 1 \/ (k \in 0 .. UQ.top /\ k \in Slots /\ k # UQ.top + 1)
      BY <1>2, <2>1
    <3> QED BY <1>2, <2>1, <3>1 DEF Queued
  <2> QED BY <2>2 DEF Queued
<1> QED BY <1>1, <1>2, StackContents

(* Pop_task: only the task of this iteration leaves the queue. *)
LEMMA PoppedQueue ==
    ASSUME PlacementInv, InNormalAssign
    PROVE  /\ Popped(UQ) \in TaskStacks
           /\ Popped(UQ).list = UQ.list
           /\ Popped(UQ).top = UQ.top - 1
           /\ \A s \in Queued : s = Top(UQ) \/ \E k \in 0 .. UQ.top - 1 : s = UQ.list[k]
<1>1. UQ \in TaskStacks /\ ~ is_empty(UQ)
  BY DEF PlacementInv, TypeOK, InNormalAssign
<1>2. UQ.top \in 0 .. MAX_NUM_TASKS - 1 /\ Top(UQ) = UQ.list[UQ.top]
  BY IterationTyped
<1>3. Popped(UQ) \in TaskStacks
  BY <1>1, PopTyped
<1>4. Popped(UQ).list = UQ.list /\ Popped(UQ).top = UQ.top - 1
  BY <1>1 DEF Popped, TaskStacks
<1>5. ASSUME NEW s \in Queued PROVE s = Top(UQ) \/ \E k \in 0 .. UQ.top - 1 : s = UQ.list[k]
  <2>1. PICK k \in 0 .. UQ.top : s = UQ.list[k]
    BY DEF Queued
  <2>2. k = UQ.top \/ k \in 0 .. UQ.top - 1
    BY <1>2, ConstantFacts
  <2> QED BY <1>2, <2>1, <2>2
<1> QED BY <1>3, <1>4, <1>5

(* The tail joins the queue, the others stay in it. *)
LEMMA TailQueued ==
    ASSUME PlacementInv, AssignSplit
    PROVE  /\ curr_idx \in Queued'
           /\ \A s \in Queued : s = Top(UQ) \/ s \in Queued'
<1>1. InNormalAssign /\ UQ' = Push_task(curr_idx, Popped(UQ))
  BY DEF AssignSplit
<1>2. curr_idx \in Slots /\ UQ.top \in 0 .. MAX_NUM_TASKS - 1
  BY SplitContext
<1>3. /\ Popped(UQ) \in TaskStacks
      /\ Popped(UQ).list = UQ.list
      /\ Popped(UQ).top = UQ.top - 1
      /\ \A s \in Queued : s = Top(UQ) \/ \E k \in 0 .. UQ.top - 1 : s = UQ.list[k]
  BY <1>1, PoppedQueue
<1>4. Popped(UQ).top < MAX_NUM_TASKS - 1
  BY <1>2, <1>3, ConstantFacts
<1>5. /\ UQ'.list[Popped(UQ).top + 1] = curr_idx
      /\ Popped(UQ).top + 1 \in 0 .. UQ'.top
      /\ \A k \in 0 .. Popped(UQ).top : k \in 0 .. UQ'.top /\ UQ'.list[k] = Popped(UQ).list[k]
  BY <1>1, <1>2, <1>3, <1>4, PushedQueue
<1>6. curr_idx \in Queued'
  BY <1>5 DEF Queued
<1>7. \A k \in 0 .. UQ.top - 1 : UQ.list[k] \in Queued'
  <2>1. \A k \in 0 .. UQ.top - 1 : k \in 0 .. UQ'.top /\ UQ'.list[k] = UQ.list[k]
    BY <1>3, <1>5
  <2> QED BY <2>1 DEF Queued
<1> QED BY <1>3, <1>6, <1>7

(* What an iteration of NORMAL-ASSIGN leaves in the queue. *)
LEMMA NextQueue ==
    ASSUME PlacementInv, AssignWhole \/ AssignSplit
    PROVE  \A s \in Queued' : \/ s \in Queued /\ s # Top(UQ)
                              \/ AssignSplit /\ s = curr_idx
<1> USE ConstantFacts
<1>1. InNormalAssign
  BY DEF AssignWhole, AssignSplit
<1>2. /\ UQ.top \in 0 .. MAX_NUM_TASKS - 1 /\ Top(UQ) \in Slots
      /\ \A k \in 0 .. UQ.top - 1 : UQ.list[k] \in Slots /\ UQ.list[k] < Top(UQ)
  BY <1>1, IterationTyped
<1>3. /\ Popped(UQ) \in TaskStacks /\ Popped(UQ).list = UQ.list /\ Popped(UQ).top = UQ.top - 1
  BY <1>1, PoppedQueue
<1>4. \A k \in 0 .. UQ.top - 1 : UQ.list[k] \in Queued /\ UQ.list[k] # Top(UQ)
  BY <1>2 DEF Queued
<1>5. CASE AssignWhole
  <2>1. UQ' = Popped(UQ)
    BY <1>5 DEF AssignWhole
  <2> QED BY <1>3, <1>4, <2>1 DEF Queued
<1>6. CASE AssignSplit
  <2>1. UQ' = Push_task(curr_idx, Popped(UQ)) /\ curr_idx \in Slots
    BY <1>6, SplitContext DEF AssignSplit
  <2>2. /\ UQ'.top = Popped(UQ).top + 1 /\ UQ'.list[Popped(UQ).top + 1] = curr_idx
        /\ \A k \in 0 .. Popped(UQ).top : UQ'.list[k] = Popped(UQ).list[k]
    <3>1. Popped(UQ).top < MAX_NUM_TASKS - 1
      BY <1>2, <1>3
    <3> QED BY <1>3, <2>1, <3>1, PushedQueue
  <2>3. ASSUME NEW k \in 0 .. UQ'.top
        PROVE  UQ'.list[k] = curr_idx \/ (UQ'.list[k] \in Queued /\ UQ'.list[k] # Top(UQ))
    <3>1. k = UQ.top \/ k \in 0 .. UQ.top - 1
      BY <1>2, <1>3, <2>2
    <3>2. UQ'.list[UQ.top] = curr_idx
      BY <1>2, <1>3, <2>2
    <3>3. \A j \in 0 .. UQ.top - 1 : UQ'.list[j] = UQ.list[j]
      BY <1>3, <2>2
    <3> QED BY <1>4, <3>1, <3>2, <3>3
  <2> QED BY <1>6, <2>3 DEF Queued
<1> QED BY <1>5, <1>6

----------------------------------------------------------------------------
(* What an assignment does to the kernel and to the ledger.                *)

(* What PRE-ASSIGN does for a task that gets a core of its own. *)
LEMMA PreAssignEffect ==
    ASSUME PlacementInv, PreAssign
    PROVE  /\ pc = "pre_assign" /\ i \in 0 .. NUM_OF_TASK - 1 /\ i \in Slots
           /\ core_manager.top \in Cores
           /\ core_manager'.top = core_manager.top - 1
           /\ Unplaced(tcb[i])
           /\ \A s \in Slots : s # i => tcb'[s] = tcb[s]
           /\ IF task_list[i].my_ptr = NULL THEN tcb'[i].affinity = tcb[i].affinity
                                            ELSE tcb'[i].affinity = {core_manager.top}
           /\ assigned' = [assigned EXCEPT ![i] = core_manager.top]
           /\ task_list[i].Utilization \in Nat
           /\ \A c \in Cores : c # core_manager.top
                                 => core_list'[c].Utilization = core_list[c].Utilization
           /\ core_list'[core_manager.top].Utilization
                = core_list[core_manager.top].Utilization + task_list[i].Utilization
<1> USE ConstantFacts
<1>1. pc = "pre_assign" /\ i \in 0 .. NUM_OF_TASK - 1 /\ i \in Slots
  BY SMTT(20) DEF PlacementInv, PreAssign, TypeOK
<1>2. task_manager.list[i] = i
  BY <1>1 DEF PlacementInv, ManagerInOrder
<1>3. Unplaced(tcb[i])
  BY <1>1 DEF PlacementInv, WaitingUnplaced
<1>4. PICK C : C = core_manager.top
  OBVIOUS
<1>5. C \in Cores /\ Top(core_manager) = C /\ core_manager'.top = C - 1
  <2>1. /\ core_manager.top \in -1 .. configNUMBER_OF_CORES - 1
        /\ core_manager.list = [c \in Cores |-> c]
        /\ core_manager \in CoreStacks
    BY <1>1 DEF PlacementInv, TypeOK, CoreStacks, CoreStacksHoldCores
  <2>2. Top(core_manager) # NULL
    BY DEF PreAssign
  <2>3. C \in Cores /\ ~ is_empty(core_manager)
    BY <1>4, <2>1, <2>2 DEF Top, is_empty
  <2>4. core_manager' = [core_manager EXCEPT !.top = @ - 1]
    BY <2>3 DEF PreAssign, Popped
  <2>5. core_manager'.top = core_manager.top - 1
    BY <2>1, <2>4 DEF CoreStacks
  <2> QED BY <1>4, <2>1, <2>3, <2>5 DEF Top
<1>6. PICK u \in Nat : u = task_list[i].Utilization
  BY <1>1 DEF PlacementInv, TypeOK, TaskInfos
<1>7. /\ tcb' = PinnedTo(i, C, tcb)
      /\ assigned' = [assigned EXCEPT ![i] = C]
      /\ core_list' = [Charged(C, u) EXCEPT ![C].pre_assigned = TRUE]
      /\ tcb \in TCBTables /\ core_list \in CoreTables
  BY <1>2, <1>5, <1>6 DEF PreAssign, PlacementInv, TypeOK
<1>8. /\ \A s \in Slots : s # i => tcb'[s] = tcb[s]
      /\ IF task_list[i].my_ptr = NULL THEN tcb'[i].affinity = tcb[i].affinity
                                       ELSE tcb'[i].affinity = {C}
      /\ Charged(C, u) \in CoreTables
      /\ \A c \in Cores : c # C => Charged(C, u)[c] = core_list[c]
      /\ Charged(C, u)[C].Utilization = core_list[C].Utilization + u
  BY SMTT(20), <1>1, <1>5, <1>7, PinTyped, PinEffect, ChargeTyped
<1>9. /\ \A c \in Cores : c # C => core_list'[c].Utilization = core_list[c].Utilization
      /\ core_list'[C].Utilization = core_list[C].Utilization + u
  BY <1>5, <1>7, <1>8 DEF CoreTables
<1> QED BY <1>1, <1>3, <1>4, <1>5, <1>6, <1>7, <1>8, <1>9

(* What a split does to the kernel and to the ledger. *)
LEMMA SplitPlacement ==
    ASSUME PlacementInv, AssignSplit
    PROVE  /\ \A s \in Slots : s # Top(UQ) /\ s # curr_idx => tcb'[s] = tcb[s]
           /\ IF task_list[Top(UQ)].my_ptr = NULL
                THEN tcb'[Top(UQ)].affinity = tcb[Top(UQ)].affinity
                ELSE tcb'[Top(UQ)].affinity = {SelectedCore}
           /\ Unplaced(tcb[Top(UQ)])
           /\ Unplaced(tcb[curr_idx]) /\ Unplaced(tcb'[curr_idx])
           /\ IF heap > 0 THEN tcb'[curr_idx].affinity = Cores
                          ELSE tcb'[curr_idx] = tcb[curr_idx]
           /\ assigned' = [assigned EXCEPT ![Top(UQ)] = SelectedCore]
           /\ \A c \in Cores : c # SelectedCore => core_list'[c] = core_list[c]
           /\ core_list'[SelectedCore].Utilization
                = core_list[SelectedCore].Utilization + SplitBody.Utilization
<1> DEFINE T == Top(UQ)
           C == SelectedCore
           r == [uxPriority |-> ClampedPriority(SplitTail.priority), affinity |-> Cores]
           tcbs == IF heap > 0 THEN [tcb EXCEPT ![curr_idx] = r] ELSE tcb
<1>1. /\ T \in Slots /\ C \in Cores /\ curr_idx \in Slots /\ curr_idx # T /\ heap \in Nat
      /\ pc = "normal_assign" /\ UQ.top \in 0 .. UQ.top /\ T = UQ.list[UQ.top]
      /\ curr_idx >= curr_idx
  BY SplitContext, ConstantFacts
<1>2. tcb \in TCBTables /\ core_list \in CoreTables
  BY DEF PlacementInv, TypeOK
<1>3. Unplaced(tcb[T]) /\ tcb[curr_idx] = NoTCB
  BY <1>1 DEF PlacementInv, WaitingUnplaced, Placing
<1>4. /\ tcb' = PinnedTo(T, C, tcbs) /\ core_list' = Charged(C, SplitBody.Utilization)
      /\ assigned' = [assigned EXCEPT ![T] = C]
  BY DEF AssignSplit, SplitBody, SplitTail
<1>5. SplitBody.Utilization \in Nat /\ SplitTail.priority \in Nat
  BY SplitParts DEF TaskInfos
<1> HIDE DEF T, C
<1>6. r \in [uxPriority : 0 .. configMAX_PRIORITIES - 1, affinity : SUBSET Cores] /\ r.affinity = Cores
  BY <1>5, ClampTyped
<1> HIDE DEF r
<1>7. /\ tcbs \in TCBTables
      /\ \A s \in Slots : s # curr_idx => tcbs[s] = tcb[s]
      /\ IF heap > 0 THEN tcbs[curr_idx].affinity = Cores ELSE tcbs[curr_idx] = tcb[curr_idx]
  BY <1>1, <1>2, <1>6 DEF TCBTables
<1> HIDE DEF tcbs
<1>8. /\ \A s \in Slots : s # T => tcb'[s] = tcbs[s]
      /\ IF task_list[T].my_ptr = NULL THEN tcb'[T].affinity = tcbs[T].affinity
                                       ELSE tcb'[T].affinity = {C}
      /\ \A c \in Cores : c # C => core_list'[c] = core_list[c]
      /\ core_list'[C].Utilization = core_list[C].Utilization + SplitBody.Utilization
  BY <1>1, <1>2, <1>4, <1>5, <1>7, PinTyped, PinEffect, ChargeTyped
<1>9. Unplaced(tcb[curr_idx]) /\ Unplaced(tcb'[curr_idx])
  BY <1>1, <1>3, <1>7, <1>8 DEF Unplaced, NoTCB
<1> QED
  BY <1>1, <1>3, <1>4, <1>7, <1>8, <1>9 DEF T, C

----------------------------------------------------------------------------
(* Who has been assigned.                                                  *)

(* Nothing that still has to be placed has been assigned a core.           *)
WaitingUnassigned ==
    /\ Booting => \A s \in Slots : assigned[s] = NULL
    /\ pc = "pre_assign" => \A s \in i .. NUM_OF_TASK - 1 : assigned[s] = NULL
    /\ Placing => \A s \in Queued : assigned[s] = NULL
    /\ Placing => \A s \in Slots : s >= curr_idx => assigned[s] = NULL

(* The affinity of a task the kernel knows is what Assign_task made of it. *)
Mask(s) ==
    IF task_list[s].my_ptr = NULL THEN {}
    ELSE IF assigned[s] = NULL THEN Cores ELSE {assigned[s]}

MasksMatch == \A s \in Slots : tcb[s].affinity = Mask(s)

AssignedInv == WaitingUnassigned /\ MasksMatch

LEMMA AssignedInit == Init => AssignedInv
<1> SUFFICES ASSUME Init PROVE AssignedInv
  OBVIOUS
<1>1. \A s \in Slots : task_list[s].my_ptr = NULL
  BY DEF Init, Row, ExtraRow
<1>2. \A s \in Slots : assigned[s] = NULL /\ tcb[s].affinity = {}
  BY DEF Init, NoTCB
<1> QED
  BY <1>1, <1>2 DEF Init, AssignedInv, WaitingUnassigned, MasksMatch, Mask, Placing

LEMMA AssignedInitTask == ASSUME PlacementInv, AssignedInv, InitTask PROVE AssignedInv'
<1>1. /\ i \in Slots /\ pc = "init_task"
      /\ \A s \in Slots : s # i => task_list'[s] = task_list[s] /\ tcb'[s] = tcb[s]
      /\ task_list'[i].my_ptr = IF heap > 0 THEN i ELSE task_list[i].my_ptr
      /\ IF heap > 0 THEN tcb'[i].affinity = Cores ELSE tcb'[i] = tcb[i]
  BY InitTaskEffect
<1>2. pc' = "init_task" /\ UNCHANGED assigned
  BY <1>1 DEF InitTask
<1>3. \A s \in Slots : assigned[s] = NULL
  BY <1>1 DEF AssignedInv, WaitingUnassigned, Booting
<1>4. i # NULL
  BY <1>1, ConstantFacts
<1>5. ASSUME NEW s \in Slots PROVE tcb'[s].affinity = Mask(s)'
  <2>1. CASE s # i
    BY <1>1, <1>2, <2>1 DEF AssignedInv, MasksMatch, Mask
  <2>2. CASE s = i
    BY <1>1, <1>2, <1>3, <1>4, <2>2 DEF AssignedInv, MasksMatch, Mask
  <2> QED BY <2>1, <2>2
<1> QED
  BY <1>2, <1>3, <1>5 DEF AssignedInv, WaitingUnassigned, MasksMatch, Placing

LEMMA AssignedPreAssign == ASSUME PlacementInv, AssignedInv, PreAssign PROVE AssignedInv'
<1> USE ConstantFacts
<1>1. /\ pc = "pre_assign" /\ i \in 0 .. NUM_OF_TASK - 1 /\ i \in Slots
      /\ core_manager.top \in Cores
      /\ \A s \in Slots : s # i => tcb'[s] = tcb[s]
      /\ IF task_list[i].my_ptr = NULL THEN tcb'[i].affinity = tcb[i].affinity
                                       ELSE tcb'[i].affinity = {core_manager.top}
      /\ assigned' = [assigned EXCEPT ![i] = core_manager.top]
  BY PreAssignEffect
<1>2. pc' = "pre_assign" /\ i' = i + 1 /\ UNCHANGED <<task_list, UQ, curr_idx>>
  BY <1>1 DEF PreAssign
<1>3. assigned \in [Slots -> Cores \cup {NULL}] /\ curr_idx = NUM_OF_TASK
  BY <1>1 DEF PlacementInv, TypeOK, QueueInOrder, Placing
<1>4. \A s \in Slots : s # i => assigned'[s] = assigned[s]
  BY <1>1, <1>3
<1>5. \A s \in Queued : s \in Slots /\ s # i
  BY <1>1 DEF PlacementInv, QueueInOrder, Placing, Queued
<1>6. WaitingUnassigned'
  <2>1. \A s \in i' .. NUM_OF_TASK - 1 : s \in Slots /\ s # i /\ s \in i .. NUM_OF_TASK - 1
    BY <1>1, <1>2
  <2>2. Queued' = Queued /\ Placing
    BY <1>1, <1>2 DEF Queued, Placing
  <2>3. \A s \in Slots : s >= curr_idx => s # i
    BY <1>1, <1>3
  <2> QED BY <1>2, <1>4, <1>5, <2>1, <2>2, <2>3, <1>1
         DEF AssignedInv, WaitingUnassigned, Booting
<1>7. ASSUME NEW s \in Slots PROVE tcb'[s].affinity = Mask(s)'
  <2>1. CASE s # i
    BY <1>1, <1>2, <1>4, <2>1 DEF AssignedInv, MasksMatch, Mask
  <2>2. CASE s = i
    BY <1>1, <1>2, <1>3, <2>2 DEF AssignedInv, MasksMatch, Mask
  <2> QED BY <2>1, <2>2
<1> QED BY <1>6, <1>7 DEF AssignedInv, MasksMatch

LEMMA AssignedQueue == ASSUME PlacementInv, AssignedInv, Queue PROVE AssignedInv'
<1> USE ConstantFacts
<1>1. /\ pc = "pre_assign" /\ pc' = pc /\ i \in 0 .. NUM_OF_TASK - 1 /\ i' = i + 1
      /\ UNCHANGED <<task_list, assigned, tcb, curr_idx>>
  BY DEF Queue, PlacementInv, TypeOK
<1>2. UQ' = Push_task(i, UQ) /\ UQ \in TaskStacks /\ i \in Slots
  BY <1>1 DEF Queue, PlacementInv, ManagerInOrder, TypeOK
<1>3. \A s \in Queued' : s = i \/ s \in Queued
  BY <1>2, PushAdds
<1>4. WaitingUnassigned'
  <2>1. /\ \A s \in i' .. NUM_OF_TASK - 1 : s \in i .. NUM_OF_TASK - 1
        /\ i \in i .. NUM_OF_TASK - 1
    BY <1>1
  <2> QED BY <1>1, <1>3, <2>1 DEF AssignedInv, WaitingUnassigned, Placing, Booting
<1> QED BY <1>1, <1>4 DEF AssignedInv, MasksMatch, Mask

LEMMA AssignedAssignWhole == ASSUME PlacementInv, AssignedInv, AssignWhole PROVE AssignedInv'
<1> USE ConstantFacts
<1>1. /\ InNormalAssign /\ CoreIsUsable /\ pc = "normal_assign" /\ pc' = pc
      /\ UNCHANGED <<task_list, curr_idx>>
  BY DEF AssignWhole, InNormalAssign
<1>2. PICK T \in Slots : T = Top(UQ) /\ T < curr_idx
  BY <1>1, IterationTyped
<1>3. PICK C \in Cores : C = SelectedCore
  BY <1>1, IterationTyped
<1>4. tcb' = PinnedTo(T, C, tcb) /\ assigned' = [assigned EXCEPT ![T] = C]
  BY <1>2, <1>3 DEF AssignWhole
<1>5. /\ tcb \in TCBTables /\ core_list \in CoreTables
      /\ assigned \in [Slots -> Cores \cup {NULL}] /\ curr_idx \in Nat
  BY DEF PlacementInv, TypeOK
<1>6. /\ \A s \in Slots : s # T => tcb'[s] = tcb[s] /\ assigned'[s] = assigned[s]
      /\ assigned'[T] = C
      /\ IF task_list[T].my_ptr = NULL THEN tcb'[T].affinity = tcb[T].affinity
                                       ELSE tcb'[T].affinity = {C}
  BY <1>4, <1>5, PinTyped, PinEffect, ChargeTyped
<1>7. \A s \in Queued' : s \in Queued /\ s # T
  <2>1. ~ AssignSplit
    BY DEF AssignWhole, AssignSplit
  <2> QED BY <1>2, <2>1, NextQueue
<1>8. \A s \in Queued : s \in Slots
  BY <1>1 DEF PlacementInv, QueueInOrder, Placing, Queued, TypeOK
<1>9. WaitingUnassigned'
  <2>1. \A s \in Slots : s >= curr_idx => s # T
    BY <1>2, <1>5
  <2> QED BY <1>1, <1>6, <1>7, <1>8, <2>1 DEF AssignedInv, WaitingUnassigned, Placing, Booting
<1>10. ASSUME NEW s \in Slots PROVE tcb'[s].affinity = Mask(s)'
  <2>1. CASE s # T
    BY <1>1, <1>6, <2>1 DEF AssignedInv, MasksMatch, Mask
  <2>2. CASE s = T
    BY <1>1, <1>6, <2>2 DEF AssignedInv, MasksMatch, Mask
  <2> QED BY <2>1, <2>2
<1> QED BY <1>9, <1>10 DEF AssignedInv, MasksMatch

LEMMA AssignedAssignSplit == ASSUME PlacementInv, AssignedInv, AssignSplit PROVE AssignedInv'
<1> USE ConstantFacts
<1>1. PICK T \in Slots : T = Top(UQ) /\ T < curr_idx
  BY SplitContext
<1>2. PICK C \in Cores : C = SelectedCore
  BY SplitContext
<1>3. PICK q \in Slots : q = curr_idx /\ q # T
  BY <1>1, SplitContext
<1>4. /\ \A s \in Slots : s # T /\ s # q => tcb'[s] = tcb[s]
      /\ IF task_list[T].my_ptr = NULL THEN tcb'[T].affinity = tcb[T].affinity
                                       ELSE tcb'[T].affinity = {C}
      /\ IF heap > 0 THEN tcb'[q].affinity = Cores ELSE tcb'[q] = tcb[q]
      /\ assigned' = [assigned EXCEPT ![T] = C]
  BY <1>1, <1>2, <1>3, SplitPlacement
<1>5. /\ \A s \in Slots : s # T /\ s # q => task_list'[s] = task_list[s]
      /\ task_list'[T].my_ptr = task_list[T].my_ptr
      /\ task_list'[q].my_ptr = IF heap > 0 THEN q ELSE task_list[q].my_ptr
  BY <1>1, <1>3, SplitSlots
<1>6. /\ pc = "normal_assign" /\ pc' = pc /\ curr_idx' = curr_idx + 1 /\ Placing
      /\ assigned \in [Slots -> Cores \cup {NULL}]
  BY SplitContext DEF AssignSplit, PlacementInv, TypeOK, Placing
<1>7. assigned'[T] = C /\ \A s \in Slots : s # T => assigned'[s] = assigned[s]
  BY <1>4, <1>6
<1>8. assigned[q] = NULL
  BY <1>3, <1>6 DEF AssignedInv, WaitingUnassigned
<1>9. WaitingUnassigned'
  <2>1. \A s \in Queued' : s = q \/ (s \in Queued /\ s # T)
    BY <1>1, <1>3, NextQueue
  <2>2. \A s \in Queued : s \in Slots
    BY <1>6 DEF PlacementInv, QueueInOrder, Placing, Queued, TypeOK
  <2>3. \A s \in Slots : s >= curr_idx' => s # T /\ s >= curr_idx
    BY <1>1, <1>3, <1>6
  <2>4. \A s \in Queued' : assigned'[s] = NULL
    BY <1>3, <1>6, <1>7, <1>8, <2>1, <2>2 DEF AssignedInv, WaitingUnassigned
  <2>5. \A s \in Slots : s >= curr_idx' => assigned'[s] = NULL
    BY <1>6, <1>7, <2>3 DEF AssignedInv, WaitingUnassigned
  <2> QED BY <1>6, <2>4, <2>5 DEF WaitingUnassigned, Booting
<1>10. ASSUME NEW s \in Slots PROVE tcb'[s].affinity = Mask(s)'
  <2>1. tcb[s].affinity = Mask(s)
    BY DEF AssignedInv, MasksMatch
  <2>2. CASE s # T /\ s # q
    BY <1>4, <1>5, <1>7, <2>1, <2>2 DEF Mask
  <2>3. CASE s = T
    <3>1. C # NULL
      OBVIOUS
    <3> QED BY <1>4, <1>5, <1>7, <2>1, <2>3, <3>1, Zenon DEF Mask
  <2>4. CASE s = q
    <3>1. q # NULL /\ assigned'[q] = NULL
      BY <1>3, <1>7, <1>8
    <3> QED BY <1>4, <1>5, <1>8, <2>1, <2>4, <3>1 DEF Mask
  <2> QED BY <2>2, <2>3, <2>4
<1> QED BY <1>9, <1>10 DEF AssignedInv, MasksMatch

LEMMA AssignedStep == PlacementInv /\ AssignedInv /\ [Next]_vars => AssignedInv'
<1> SUFFICES ASSUME PlacementInv, AssignedInv, [Next]_vars PROVE AssignedInv'
  OBVIOUS
<1>1. CASE Boot \/ PreAssignDone \/ PreAssignNull \/ ReportFull \/ NormalAssignUndefined
           \/ StartScheduler \/ Finished \/ UNCHANGED vars
  <2>1. /\ UNCHANGED <<task_list, assigned, tcb, curr_idx>>
        /\ \/ UNCHANGED <<pc, i, UQ>>
           \/ Booting /\ pc' = "init_task"
           \/ Placing /\ pc' \in {"normal_assign", "started", "undefined"} /\
                (pc' = "normal_assign" => UNCHANGED UQ)
    BY <1>1 DEF Boot, PreAssignDone, PreAssignNull, ReportFull, NormalAssignUndefined,
                InNormalAssign, StartScheduler, Finished, vars, Placing, Booting
  <2> QED BY <2>1 DEF AssignedInv, WaitingUnassigned, MasksMatch, Mask, Booting, Placing, Queued
<1>2. CASE InitQueues
  <2>1. pc = "init_task" /\ pc' = "pre_assign" /\ UNCHANGED <<task_list, assigned, tcb>>
    BY <1>2 DEF InitQueues
  <2>2. i' = 0 /\ Queued' = {}
    <3>1. UQ'.top = -1
      BY <1>2, ResetTyped DEF InitQueues, PlacementInv, TypeOK
    <3> QED BY <1>2, <3>1 DEF InitQueues, Queued
  <2>3. \A s \in Slots : assigned[s] = NULL
    BY <2>1 DEF AssignedInv, WaitingUnassigned, Booting
  <2>4. 0 .. NUM_OF_TASK - 1 \subseteq Slots
    BY ConstantFacts
  <2>5. WaitingUnassigned'
    BY <2>1, <2>2, <2>3, <2>4 DEF WaitingUnassigned, Booting
  <2> QED BY <2>1, <2>5 DEF AssignedInv, MasksMatch, Mask
<1> QED
  BY <1>1, <1>2, AssignedInitTask, AssignedPreAssign, AssignedQueue, AssignedAssignWhole,
     AssignedAssignSplit DEF Next

----------------------------------------------------------------------------
(* The ledger of the cores.                                                *)

(* What each slot contributes to core c. *)
Share(c) ==
    [s \in Slots |-> IF assigned[s] = c THEN task_list[s].Utilization ELSE 0]

Ledger == \A c \in Cores : core_list[c].Utilization = PrefixSum(Share(c), MAX_NUM_TASKS)

LEMMA ShareTyped ==
    ASSUME TypeOK, NEW c \in Cores
    PROVE  \A s \in 0 .. MAX_NUM_TASKS - 1 : Share(c)[s] \in Nat
  BY ConstantFacts DEF TypeOK, Share, TaskInfos

(* No share changes. *)
LEMMA LedgerKept ==
    ASSUME Ledger,
           \A c \in Cores : core_list'[c].Utilization = core_list[c].Utilization,
           \A c \in Cores : \A s \in Slots : Share(c)'[s] = Share(c)[s]
    PROVE  Ledger'
<1> SUFFICES ASSUME NEW c \in Cores
             PROVE  core_list'[c].Utilization = PrefixSum(Share(c)', MAX_NUM_TASKS)
  BY DEF Ledger
<1>1. core_list[c].Utilization = PrefixSum(Share(c), MAX_NUM_TASKS)
  BY DEF Ledger
<1>2. \A s \in 0 .. MAX_NUM_TASKS - 1 : Share(c)[s] = Share(c)'[s]
  BY ConstantFacts
<1> HIDE DEF Share
<1>3. PrefixSum(Share(c), MAX_NUM_TASKS) = PrefixSum(Share(c)', MAX_NUM_TASKS)
  BY <1>2, ConstantFacts, PrefixSumSame
<1> QED BY <1>1, <1>3

(* Assign_task: the task T, so far without a share, is charged to core C. *)
LEMMA LedgerCharged ==
    ASSUME TypeOK, TypeOK', Ledger, NEW T \in Slots, NEW C \in Cores,
           assigned[T] = NULL,
           assigned'[T] = C,
           \A c \in Cores : \A s \in Slots : s # T => Share(c)'[s] = Share(c)[s],
           core_list'[C].Utilization = core_list[C].Utilization + task_list'[T].Utilization,
           \A c \in Cores : c # C => core_list'[c].Utilization = core_list[c].Utilization
    PROVE  Ledger'
<1> USE ConstantFacts
<1> SUFFICES ASSUME NEW c \in Cores
             PROVE  core_list'[c].Utilization = PrefixSum(Share(c)', MAX_NUM_TASKS)
  BY DEF Ledger
<1>1. core_list[c].Utilization = PrefixSum(Share(c), MAX_NUM_TASKS)
  BY DEF Ledger
<1>2. /\ \A s \in 0 .. MAX_NUM_TASKS - 1 : Share(c)[s] \in Nat /\ Share(c)'[s] \in Nat
      /\ \A s \in 0 .. MAX_NUM_TASKS - 1 : s # T => Share(c)'[s] = Share(c)[s]
  <2>1. \A s \in 0 .. MAX_NUM_TASKS - 1 : Share(c)[s] \in Nat
    BY ShareTyped
  <2>2. \A s \in 0 .. MAX_NUM_TASKS - 1 : Share(c)'[s] \in Nat
    BY DEF TypeOK, Share, TaskInfos
  <2> QED BY <2>1, <2>2
<1>3. /\ Share(c)[T] = 0
      /\ Share(c)'[T] = IF c = C THEN task_list'[T].Utilization ELSE 0
  <2>1. assigned[T] # c /\ (assigned'[T] = c <=> c = C)
    OBVIOUS
  <2>2. /\ Share(c)[T] = IF assigned[T] = c THEN task_list[T].Utilization ELSE 0
        /\ Share(c)'[T] = IF assigned'[T] = c THEN task_list'[T].Utilization ELSE 0
    BY Zenon DEF Share
  <2> QED BY <2>1, <2>2
<1>4. task_list'[T].Utilization \in Nat /\ core_list[c].Utilization \in Nat
  BY DEF TypeOK, TaskInfos, CoreTables
<1>5. PrefixSum(Share(c)', MAX_NUM_TASKS)
        = PrefixSum(Share(c), MAX_NUM_TASKS) - Share(c)[T] + Share(c)'[T]
  <2> DEFINE f == Share(c)
             g == Share(c)'
             n == MAX_NUM_TASKS
  <2>1. /\ T \in 0 .. n - 1
        /\ n \in Nat
    OBVIOUS
  <2>2. /\ \A k \in 0 .. n - 1 : f[k] \in Nat /\ g[k] \in Nat
        /\ \A k \in 0 .. n - 1 : k # T => g[k] = f[k]
    BY <1>2
  <2>3. PrefixSum(g, n) = PrefixSum(f, n) - f[T] + g[T]
    <3> HIDE DEF f, g, n
    <3> QED BY <2>1, <2>2, PrefixSumUpdate
  <2> QED BY <2>3
<1> HIDE DEF Share
<1>6. CASE c = C
  <2>1. PrefixSum(Share(c)', MAX_NUM_TASKS) = core_list[c].Utilization - 0 + task_list'[T].Utilization
    BY <1>1, <1>3, <1>5, <1>6
  <2> QED BY <1>4, <1>6, <2>1
<1>7. CASE c # C
  <2>1. PrefixSum(Share(c)', MAX_NUM_TASKS) = core_list[c].Utilization - 0 + 0
    BY <1>1, <1>3, <1>5, <1>7
  <2> QED BY <1>4, <1>7, <2>1
<1> QED BY <1>6, <1>7

LEMMA LedgerInit == Init => Ledger
<1> SUFFICES ASSUME Init, NEW c \in Cores
             PROVE  core_list[c].Utilization = PrefixSum(Share(c), MAX_NUM_TASKS)
  BY DEF Ledger
<1>1. core_list[c].Utilization = 0
  BY DEF Init
<1>2. \A s \in 0 .. MAX_NUM_TASKS - 1 : Share(c)[s] = 0
  BY ConstantFacts DEF Init, Share
<1> HIDE DEF Share
<1>3. \A s \in 0 .. MAX_NUM_TASKS - 1 : Share(c)[s] \in Nat
  BY <1>2
<1> QED BY <1>1, <1>2, <1>3, ConstantFacts, PrefixSumNat

LEMMA LedgerInitTask == ASSUME PlacementInv, AssignedInv, Ledger, InitTask PROVE Ledger'
<1>1. /\ i \in Slots /\ pc = "init_task"
      /\ \A s \in Slots : s # i => task_list'[s] = task_list[s]
  BY InitTaskEffect
<1>2. UNCHANGED <<assigned, core_list>>
  BY DEF InitTask
<1>3. assigned[i] = NULL
  BY <1>1 DEF AssignedInv, WaitingUnassigned, Booting
<1>4. \A c \in Cores : assigned[i] # c
  BY <1>3, ConstantFacts
<1>5. ASSUME NEW c \in Cores, NEW s \in Slots PROVE Share(c)'[s] = Share(c)[s]
  BY <1>1, <1>2, <1>4 DEF Share
<1> QED
  BY <1>2, <1>5, LedgerKept

LEMMA LedgerPreAssign == ASSUME PlacementInv, AssignedInv, Ledger, PreAssign PROVE Ledger'
<1>1. PICK T \in Slots, C \in Cores : T = i /\ C = core_manager.top
  BY PreAssignEffect
<1>2. /\ pc = "pre_assign" /\ T \in i .. NUM_OF_TASK - 1
      /\ assigned' = [assigned EXCEPT ![T] = C]
      /\ \A c \in Cores : c # C => core_list'[c].Utilization = core_list[c].Utilization
      /\ core_list'[C].Utilization = core_list[C].Utilization + task_list[T].Utilization
  BY <1>1, PreAssignEffect, ConstantFacts
<1>3. UNCHANGED task_list
  BY DEF PreAssign
<1>4. TypeOK /\ TypeOK'
  BY PlacementPreAssign DEF PlacementInv
<1>5. assigned[T] = NULL
  BY <1>2 DEF AssignedInv, WaitingUnassigned
<1>6. assigned'[T] = C /\ \A s \in Slots : s # T => assigned'[s] = assigned[s]
  BY <1>2, <1>4 DEF TypeOK
<1>7. \A c \in Cores : \A s \in Slots : s # T => Share(c)'[s] = Share(c)[s]
  BY <1>3, <1>6 DEF Share
<1> QED
  BY <1>2, <1>3, <1>4, <1>5, <1>6, <1>7, LedgerCharged

LEMMA LedgerAssignWhole == ASSUME PlacementInv, AssignedInv, Ledger, AssignWhole PROVE Ledger'
<1>1. InNormalAssign /\ CoreIsUsable
  BY DEF AssignWhole
<1>2. PICK T \in Slots : T = Top(UQ) /\ T \in Queued
  BY <1>1, IterationTyped, ConstantFacts DEF Queued
<1>3. PICK C \in Cores : C = SelectedCore
  BY <1>1, IterationTyped
<1>4. TypeOK /\ TypeOK'
  BY PlacementAssignWhole DEF PlacementInv
<1>5. PICK u \in Nat : u = task_list[T].Utilization
  BY <1>4 DEF TypeOK, TaskInfos
<1>6. /\ core_list' = Charged(C, u) /\ core_list \in CoreTables /\ tcb \in TCBTables
      /\ UNCHANGED task_list /\ assigned' = [assigned EXCEPT ![T] = C]
  BY <1>2, <1>3, <1>4, <1>5 DEF AssignWhole, TypeOK
<1>7. assigned[T] = NULL
  BY <1>1, <1>2 DEF AssignedInv, WaitingUnassigned, InNormalAssign, Placing
<1>8. assigned'[T] = C /\ \A s \in Slots : s # T => assigned'[s] = assigned[s]
  BY <1>4, <1>6 DEF TypeOK
<1>9. /\ \A c \in Cores : c # C => core_list'[c].Utilization = core_list[c].Utilization
      /\ core_list'[C].Utilization = core_list[C].Utilization + u
  BY <1>6, PinTyped, PinEffect, ChargeTyped
<1>10. \A c \in Cores : \A s \in Slots : s # T => Share(c)'[s] = Share(c)[s]
  BY <1>6, <1>8 DEF Share
<1>11. core_list'[C].Utilization = core_list[C].Utilization + task_list'[T].Utilization
  BY <1>5, <1>6, <1>9
<1> QED
  BY <1>4, <1>7, <1>8, <1>9, <1>10, <1>11, LedgerCharged

LEMMA LedgerAssignSplit == ASSUME PlacementInv, AssignedInv, Ledger, AssignSplit PROVE Ledger'
<1>1. PICK T \in Slots : T = Top(UQ) /\ T \in Queued
  BY SplitContext, ConstantFacts DEF Queued
<1>2. PICK q \in Slots : q = curr_idx /\ q # T
  BY <1>1, SplitContext
<1>3. PICK C \in Cores : C = SelectedCore
  BY SplitContext
<1>4. TypeOK /\ TypeOK'
  BY PlacementAssignSplit DEF PlacementInv
<1>5. /\ \A s \in Slots : s # T /\ s # q => task_list'[s] = task_list[s]
      /\ task_list'[T].Utilization = SplitBody.Utilization
  BY <1>1, <1>2, SplitSlots
<1>6. /\ assigned' = [assigned EXCEPT ![T] = C]
      /\ \A c \in Cores : c # C => core_list'[c] = core_list[c]
      /\ core_list'[C].Utilization = core_list[C].Utilization + SplitBody.Utilization
  BY <1>1, <1>3, SplitPlacement
<1>7. pc = "normal_assign" /\ Placing /\ q >= curr_idx
  BY <1>2, SplitContext, ConstantFacts DEF Placing
<1>8. assigned[T] = NULL /\ assigned[q] = NULL
  BY <1>1, <1>7 DEF AssignedInv, WaitingUnassigned
<1>9. assigned'[T] = C /\ \A s \in Slots : s # T => assigned'[s] = assigned[s]
  BY <1>4, <1>6 DEF TypeOK
<1>10. ASSUME NEW c \in Cores, NEW s \in Slots, s # T PROVE Share(c)'[s] = Share(c)[s]
  <2>1. CASE s = q
    <3>1. assigned[q] # c /\ assigned'[q] # c
      BY <1>2, <1>8, <1>9, ConstantFacts
    <3> QED BY <2>1, <3>1 DEF Share
  <2>2. CASE s # q
    BY <1>5, <1>9, <1>10, <2>2 DEF Share
  <2> QED BY <2>1, <2>2
<1>11. core_list'[C].Utilization = core_list[C].Utilization + task_list'[T].Utilization
  BY <1>5, <1>6
<1>12. \A c \in Cores : c # C => core_list'[c].Utilization = core_list[c].Utilization
  BY <1>6
<1> QED
  BY <1>4, <1>8, <1>9, <1>10, <1>11, <1>12, LedgerCharged

LEMMA LedgerStep ==
    ASSUME PlacementInv, AssignedInv, Ledger, [Next]_vars PROVE Ledger'
<1>1. CASE \/ Boot \/ InitQueues \/ PreAssignNull \/ Queue \/ PreAssignDone \/ ReportFull
           \/ NormalAssignUndefined \/ StartScheduler \/ Finished \/ UNCHANGED vars
  <2>1. UNCHANGED <<assigned, task_list, core_list>>
    BY <1>1 DEF Boot, InitQueues, PreAssignNull, Queue, PreAssignDone, ReportFull,
                NormalAssignUndefined, StartScheduler, Finished, vars
  <2> QED BY <2>1 DEF Ledger, Share
<1> QED
  BY <1>1, LedgerInitTask, LedgerPreAssign, LedgerAssignWhole, LedgerAssignSplit DEF Next

(* Whatever the table, the heap and the number of cores: the utilization   *)
(* recorded for a core is at every moment that of the tasks assigned to it *)
(* (Assign_task and Task_split), and the tasks among them that could be    *)
(* created may use this core only.                                         *)
THEOREM LedgerIsRight == Spec => []CoreLedger
<1>1. Init => PlacementInv /\ AssignedInv /\ Ledger
  BY PlacementInit, AssignedInit, LedgerInit
<1>2. PlacementInv /\ AssignedInv /\ Ledger /\ [Next]_vars
        => (PlacementInv /\ AssignedInv /\ Ledger)'
  BY PlacementStep, AssignedStep, LedgerStep
<1>3. AssignedInv /\ Ledger => CoreLedger
  BY DEF AssignedInv, MasksMatch, Mask, Ledger, Share, CoreLedger, Created
<1> QED
  BY <1>1, <1>2, <1>3, PTL DEF Spec

----------------------------------------------------------------------------
(* The room in the queue.                                                  *)

Waiting(s) == s \in Queued \/ (pc = "pre_assign" /\ s >= i)

(* PRE-ASSIGN queues no more tasks than it has seen: the queue never drops *)
(* one for lack of room.                                                   *)
QueueHasRoom == pc = "pre_assign" => UQ.top < i

LEMMA RoomInit == Init => QueueHasRoom
  BY DEF Init, QueueHasRoom

LEMMA RoomStep == PlacementInv /\ QueueHasRoom /\ [Next]_vars => QueueHasRoom'
<1> SUFFICES ASSUME PlacementInv, QueueHasRoom, [Next]_vars, pc' = "pre_assign"
             PROVE  UQ'.top < i'
  BY DEF QueueHasRoom
<1> USE ConstantFacts
<1>1. UQ \in TaskStacks /\ UQ.top \in -1 .. MAX_NUM_TASKS - 1 /\ i \in 0 .. NUM_OF_TASK
  BY DEF PlacementInv, TypeOK, TaskStacks
<1>2. CASE InitQueues
  BY <1>1, <1>2, ResetTyped DEF InitQueues
<1>3. CASE PreAssign
  BY <1>1, <1>3 DEF PreAssign, QueueHasRoom
<1>4. CASE Queue
  <2>1. /\ pc = "pre_assign" /\ i' = i + 1 /\ UQ' = Push_task(i, UQ) /\ i \in Slots
        /\ UQ.top < i /\ i < NUM_OF_TASK
    BY <1>1, <1>4 DEF Queue, PlacementInv, ManagerInOrder, QueueHasRoom
  <2>2. UQ.top < MAX_NUM_TASKS - 1
    BY <1>1, <2>1
  <2>3. UQ'.top = UQ.top + 1
    BY <1>1, <2>1, <2>2, PushedQueue
  <2> QED BY <1>1, <2>1, <2>3
<1>5. CASE Finished \/ UNCHANGED vars
  BY <1>5 DEF Finished, vars, QueueHasRoom
<1>6. ~ (Boot \/ InitTask \/ PreAssignNull \/ PreAssignDone \/ AssignWhole \/ AssignSplit
           \/ ReportFull \/ NormalAssignUndefined \/ StartScheduler)
  BY DEF Boot, InitTask, PreAssignNull, PreAssignDone, AssignWhole, AssignSplit, ReportFull,
         NormalAssignUndefined, StartScheduler, InNormalAssign
<1> QED BY <1>2, <1>3, <1>4, <1>5, <1>6 DEF Next

----------------------------------------------------------------------------
(* The boot implements Placement.                                          *)

(* init_task measures the rows of the table, and nothing else does. *)
Measured ==
    /\ Booting => \A s \in 0 .. NUM_OF_TASK - 1 : task_list[s].Runtime = table[s].Runtime
    /\ pc = "init_task" =>
         \A s \in 0 .. i - 1 : task_list[s].Utilization = UtilizationOf(table[s])

FreeSlotsEmpty ==
    \A s \in Slots : s >= NUM_OF_TASK /\ (Booting \/ s >= curr_idx)
                       => task_list[s].Utilization = 0

(* During PRE-ASSIGN the cores of core_manager have not been charged. *)
NormalCoresEmpty ==
    /\ Booting => \A c \in Cores : core_list[c].Utilization = 0
    /\ pc = "pre_assign" => \A c \in 0 .. core_manager.top : core_list[c].Utilization = 0

WaitingPositive ==
    /\ pc = "pre_assign" => \A s \in i .. NUM_OF_TASK - 1 : task_list[s].Utilization > 0
    /\ Placing => \A s \in Queued : task_list[s].Utilization > 0

PieceInv == Measured /\ FreeSlotsEmpty /\ NormalCoresEmpty /\ WaitingPositive

(* UNIT resolves one tick of any period. *)
LEMMA RowPositive == \A r \in Rows : UtilizationOf(r) \in Nat /\ UtilizationOf(r) > 0
<1> SUFFICES ASSUME NEW R \in Nat \ {0}, NEW P \in 1 .. UNIT
             PROVE  (R * UNIT) \div P \in Nat /\ (R * UNIT) \div P > 0
  BY DEF Rows, UtilizationOf
<1>1. R * UNIT >= UNIT /\ R * UNIT \in Nat
  BY ConstantFacts
<1>2. PICK a \in Nat : a = R * UNIT /\ a >= P
  BY <1>1, ConstantFacts
<1>3. a \div P \in Nat /\ a \div P > 0
  BY <1>2, ConstantFacts
<1> QED BY <1>2, <1>3

LEMMA PieceInit == Init => PieceInv
<1> SUFFICES ASSUME Init PROVE PieceInv
  OBVIOUS
<1>1. \A s \in Slots : task_list[s].Utilization = 0
  BY DEF Init, Row, ExtraRow
<1>2. \A s \in 0 .. NUM_OF_TASK - 1 : task_list[s].Runtime = table[s].Runtime
  BY ConstantFacts DEF Init, Row
<1>3. \A c \in Cores : core_list[c].Utilization = 0
  BY DEF Init
<1>4. pc = "boot"
  BY DEF Init
<1> QED BY <1>1, <1>2, <1>3, <1>4 DEF PieceInv, Measured, FreeSlotsEmpty, NormalCoresEmpty, WaitingPositive, Placing

LEMMA PieceInitTask == ASSUME PlacementInv, PieceInv, InitTask PROVE PieceInv'
<1> USE ConstantFacts
<1>1. /\ pc = "init_task" /\ i \in 0 .. NUM_OF_TASK - 1 /\ i \in Slots
      /\ \A s \in Slots : s # i => task_list'[s] = task_list[s]
      /\ task_list'[i].Runtime = task_list[i].Runtime
      /\ task_list'[i].Utilization = UtilizationOf(task_list[i])
  BY InitTaskEffect
<1>2. pc' = "init_task" /\ i' = i + 1 /\ UNCHANGED <<table, core_list, curr_idx>>
  BY <1>1 DEF InitTask
<1>3. \A s \in 0 .. NUM_OF_TASK - 1 : task_list'[s].Runtime = task_list[s].Runtime
  BY <1>1
<1>4. UtilizationOf(task_list[i]) = UtilizationOf(table[i])
  BY <1>1 DEF PieceInv, Measured, Booting, PlacementInv, PeriodsKept, UtilizationOf
<1>5. Measured'
  <2>1. \A s \in 0 .. i : s \in Slots /\ (s # i => s \in 0 .. i - 1)
    BY <1>1
  <2>2. \A s \in 0 .. i : task_list'[s].Utilization = UtilizationOf(table[s])
    <3> HIDE DEF UtilizationOf
    <3> QED BY <1>1, <1>4, <2>1 DEF PieceInv, Measured
  <2>3. i' - 1 = i
    BY <1>1, <1>2
  <2> QED BY <1>1, <1>2, <1>3, <2>2, <2>3 DEF PieceInv, Measured, Booting
<1>6. FreeSlotsEmpty'
  BY <1>1, <1>2 DEF PieceInv, FreeSlotsEmpty, Booting
<1>7. NormalCoresEmpty'
  BY <1>1, <1>2 DEF PieceInv, NormalCoresEmpty, Booting
<1>8. WaitingPositive'
  BY <1>2 DEF WaitingPositive, Placing
<1> QED BY <1>5, <1>6, <1>7, <1>8 DEF PieceInv

LEMMA PieceInitQueues == ASSUME PlacementInv, PieceInv, InitQueues PROVE PieceInv'
<1> USE ConstantFacts
<1>1. /\ pc = "init_task" /\ pc' = "pre_assign" /\ i = NUM_OF_TASK /\ i' = 0
      /\ curr_idx' = NUM_OF_TASK
      /\ UNCHANGED <<table, task_list, core_list, core_manager>>
  BY DEF InitQueues
<1>2. core_manager.top \in -1 .. configNUMBER_OF_CORES - 1 /\ UQ \in TaskStacks
      /\ table \in [0 .. NUM_OF_TASK - 1 -> Rows]
  BY DEF PlacementInv, TypeOK, CoreStacks
<1>3. NormalCoresEmpty'
  BY <1>1, <1>2 DEF PieceInv, NormalCoresEmpty, Booting
<1>4. WaitingPositive'
  <2>1. UQ'.top = -1
    BY <1>2, ResetTyped DEF InitQueues
  <2>2. Queued' = {}
    BY <2>1 DEF Queued
  <2>3. \A s \in 0 .. NUM_OF_TASK - 1 : task_list[s].Utilization > 0
    BY <1>1, <1>2, RowPositive DEF PieceInv, Measured
  <2> QED BY <1>1, <2>2, <2>3 DEF WaitingPositive
<1>5. Measured'
  BY <1>1 DEF Measured, Booting
<1>6. FreeSlotsEmpty'
  BY <1>1 DEF PieceInv, FreeSlotsEmpty, Booting
<1> QED BY <1>3, <1>4, <1>5, <1>6 DEF PieceInv

LEMMA PiecePreAssign == ASSUME PlacementInv, PieceInv, PreAssign PROVE PieceInv'
<1> USE ConstantFacts
<1>1. /\ pc = "pre_assign" /\ i \in 0 .. NUM_OF_TASK - 1
      /\ core_manager.top \in Cores
      /\ core_manager'.top = core_manager.top - 1
      /\ \A c \in Cores : c # core_manager.top
                            => core_list'[c].Utilization = core_list[c].Utilization
  BY PreAssignEffect
<1>2. pc' = "pre_assign" /\ i' = i + 1 /\ UNCHANGED <<table, task_list, UQ, curr_idx>>
  BY <1>1 DEF PreAssign
<1>3. NormalCoresEmpty'
  <2>1. \A c \in 0 .. core_manager.top - 1 : c \in Cores /\ c # core_manager.top /\ c \in 0 .. core_manager.top
    BY <1>1
  <2> QED BY <1>1, <1>2, <2>1 DEF PieceInv, NormalCoresEmpty, Booting
<1>4. WaitingPositive'
  <2>1. \A s \in i' .. NUM_OF_TASK - 1 : s \in i .. NUM_OF_TASK - 1
    BY <1>1, <1>2
  <2>2. Queued' = Queued /\ Placing
    BY <1>1, <1>2 DEF Queued, Placing
  <2> QED BY <1>1, <1>2, <2>1, <2>2 DEF PieceInv, WaitingPositive
<1>5. Measured' /\ FreeSlotsEmpty'
  BY <1>1, <1>2 DEF PieceInv, Measured, FreeSlotsEmpty, Booting
<1> QED BY <1>3, <1>4, <1>5 DEF PieceInv

LEMMA PieceQueue == ASSUME PlacementInv, PieceInv, Queue PROVE PieceInv'
<1> USE ConstantFacts
<1>1. /\ pc = "pre_assign" /\ pc' = pc /\ i \in 0 .. NUM_OF_TASK - 1 /\ i' = i + 1
      /\ UNCHANGED <<table, task_list, core_list, core_manager, curr_idx>>
  BY DEF Queue, PlacementInv, TypeOK
<1>2. UQ' = Push_task(i, UQ) /\ UQ \in TaskStacks /\ i \in Slots
  BY <1>1 DEF Queue, PlacementInv, ManagerInOrder, TypeOK
<1>3. \A s \in Queued' : s = i \/ s \in Queued
  BY <1>2, PushAdds
<1>4. WaitingPositive'
  <2>1. /\ \A s \in i' .. NUM_OF_TASK - 1 : s \in i .. NUM_OF_TASK - 1
        /\ i \in i .. NUM_OF_TASK - 1
    BY <1>1
  <2> QED BY <1>1, <1>3, <2>1 DEF PieceInv, WaitingPositive, Placing
<1>5. Measured' /\ FreeSlotsEmpty' /\ NormalCoresEmpty'
  BY <1>1 DEF PieceInv, Measured, FreeSlotsEmpty, NormalCoresEmpty, Booting
<1> QED BY <1>4, <1>5 DEF PieceInv

LEMMA PieceAssign ==
    ASSUME PlacementInv, PieceInv, AssignWhole \/ AssignSplit PROVE PieceInv'
<1> USE ConstantFacts
<1>1. pc = "normal_assign" /\ pc' = "normal_assign" /\ Placing
  BY DEF AssignWhole, AssignSplit, InNormalAssign, Placing
<1>2. Measured' /\ NormalCoresEmpty'
  BY <1>1 DEF Measured, NormalCoresEmpty, Booting
<1>3. CASE AssignWhole
  <2>1. UNCHANGED <<task_list, curr_idx>> /\ ~ AssignSplit
    BY <1>3 DEF AssignWhole, AssignSplit
  <2>2. Queued' \subseteq Queued
    BY <2>1, NextQueue
  <2> QED BY <1>1, <1>2, <2>1, <2>2 DEF PieceInv, WaitingPositive, FreeSlotsEmpty, Booting
<1>4. CASE AssignSplit
  <2>1. PICK T \in Slots : T = Top(UQ) /\ T < curr_idx
    BY <1>4, SplitContext
  <2>2. PICK q \in Slots : q = curr_idx /\ q >= NUM_OF_TASK /\ curr_idx' = q + 1
    BY <1>4, SplitContext DEF AssignSplit
  <2>3. /\ \A s \in Slots : s # T /\ s # q => task_list'[s] = task_list[s]
        /\ task_list'[q].Utilization = SplitTail.Utilization
        /\ SplitTail.Utilization > 0
    BY <1>4, <2>1, <2>2, SplitSlots, SplitParts
  <2>4. FreeSlotsEmpty'
    <3> SUFFICES ASSUME NEW s \in Slots, s >= NUM_OF_TASK, s >= curr_idx'
                 PROVE  task_list'[s].Utilization = 0
      BY <1>1 DEF FreeSlotsEmpty, Booting
    <3>1. s # T /\ s # q /\ s >= curr_idx
      BY <2>1, <2>2
    <3> QED BY <2>3, <3>1 DEF PieceInv, FreeSlotsEmpty
  <2>5. \A s \in Queued' : s = q \/ (s \in Queued /\ s # T)
    BY <1>4, <2>1, <2>2, NextQueue
  <2>6. \A s \in Queued : s \in Slots
    <3> SUFFICES ASSUME NEW k \in 0 .. UQ.top PROVE UQ.list[k] \in Slots
      BY DEF Queued
    <3>1. k = UQ.top \/ k \in 0 .. UQ.top - 1
      BY <1>4, SplitContext
    <3> QED BY <1>4, <3>1, SplitContext
  <2>7. WaitingPositive'
    <3>1. \A s \in Queued' : task_list'[s].Utilization > 0
      <4> SUFFICES ASSUME NEW s \in Queued' PROVE task_list'[s].Utilization > 0
        OBVIOUS
      <4>1. CASE s = q
        BY <2>3, <4>1
      <4>2. CASE s # q
        BY <1>1, <2>3, <2>5, <2>6, <4>2 DEF PieceInv, WaitingPositive
      <4> QED BY <4>1, <4>2
    <3> QED BY <1>1, <3>1 DEF WaitingPositive
  <2> QED BY <1>2, <2>4, <2>7 DEF PieceInv
<1> QED BY <1>3, <1>4

LEMMA PieceStep == PlacementInv /\ PieceInv /\ [Next]_vars => PieceInv'
<1> SUFFICES ASSUME PlacementInv, PieceInv, [Next]_vars PROVE PieceInv'
  OBVIOUS
<1>1. CASE PreAssignDone \/ PreAssignNull \/ ReportFull \/ NormalAssignUndefined
           \/ StartScheduler \/ Finished \/ UNCHANGED vars
  <2>1. /\ UNCHANGED <<task_list, table, core_list, core_manager, curr_idx, i>>
        /\ pc' = pc \/ (~ Booting' /\ pc' # "pre_assign")
        /\ Placing' => Placing /\ UNCHANGED UQ
    BY <1>1 DEF PreAssignDone, PreAssignNull, ReportFull, NormalAssignUndefined,
                StartScheduler, Finished, vars, Placing, Booting
  <2> QED BY <2>1 DEF PieceInv, Measured, FreeSlotsEmpty, NormalCoresEmpty, WaitingPositive,
                      Booting, Queued
<1>2. CASE Boot
  <2>1. /\ UNCHANGED <<task_list, table, core_list, i>> /\ pc = "boot" /\ pc' = "init_task"
        /\ i = 0
    BY <1>2 DEF Boot, PlacementInv, ManagerInOrder
  <2> QED BY <2>1 DEF PieceInv, Measured, FreeSlotsEmpty, NormalCoresEmpty, WaitingPositive,
                      Booting, Placing
<1> QED
  BY <1>1, <1>2, PieceInitTask, PieceInitQueues, PiecePreAssign, PieceQueue, PieceAssign DEF Next

(* The utilization placed on each core, as Placement sees it. *)
Load == [c \in Cores |-> core_list[c].Utilization]

(* PRE-ASSIGN is a Dedicate. *)
LEMMA PreAssignDedicates ==
    ASSUME PlacementInv, AssignedInv, PieceInv, PreAssign PROVE Promise!PlacementNext
<1> USE ConstantFacts
<1>1. PICK T \in Slots, C \in Cores : T = i /\ C = core_manager.top
  BY PreAssignEffect
<1>2. PICK u \in Nat : u = task_list[T].Utilization
  BY <1>1, PreAssignEffect
<1>3. /\ pc = "pre_assign" /\ T \in i .. NUM_OF_TASK - 1 /\ C \in 0 .. core_manager.top
      /\ assigned' = [assigned EXCEPT ![T] = C]
      /\ \A c \in Cores : c # C => core_list'[c].Utilization = core_list[c].Utilization
      /\ core_list'[C].Utilization = core_list[C].Utilization + u
  BY <1>1, <1>2, PreAssignEffect
<1>4. pc' = "pre_assign" /\ UNCHANGED task_list
  BY <1>3 DEF PreAssign
<1>5. core_list[C].Utilization = 0 /\ u > 0
  BY <1>2, <1>3 DEF PieceInv, NormalCoresEmpty, WaitingPositive
<1>6. /\ assigned[T] = NULL /\ assigned'[T] # NULL
      /\ \A s \in Slots : s # T => assigned'[s] = assigned[s]
  BY <1>3 DEF AssignedInv, WaitingUnassigned, PlacementInv, TypeOK
<1>7. Unassigned[T] = u /\ Unassigned' = [Unassigned EXCEPT ![T] = 0]
  BY <1>2, <1>3, <1>4, <1>6 DEF Unassigned
<1>8. Load[C] = 0 /\ Load' = [Load EXCEPT ![C] = u]
  <2>1. core_list'[C].Utilization = u
    BY <1>3, <1>5
  <2> QED BY <1>3, <1>5, <2>1 DEF Load
<1> QED BY <1>5, <1>7, <1>8 DEF Promise!PlacementNext, Promise!Dedicate, Load

(* An assignment of NORMAL-ASSIGN is a Place. *)
LEMMA AssignWholePlaces ==
    ASSUME PlacementInv, AssignedInv, PieceInv, AssignWhole PROVE Promise!PlacementNext
<1> USE ConstantFacts
<1>1. /\ InNormalAssign /\ CoreIsUsable /\ pc = "normal_assign" /\ pc' = pc /\ Placing
      /\ UNCHANGED task_list
  BY DEF AssignWhole, InNormalAssign, Placing
<1>2. PICK T \in Slots : T = Top(UQ)
  BY <1>1, IterationTyped
<1>3. PICK C \in Cores : C = SelectedCore
  BY <1>1, IterationTyped
<1>4. T = UQ.list[UQ.top] /\ UQ.top \in 0 .. UQ.top /\ T \in Queued
  BY <1>1, <1>2, IterationTyped DEF Queued
<1>5. assigned[T] = NULL /\ task_list[T].Utilization > 0
  BY <1>1, <1>4 DEF AssignedInv, WaitingUnassigned, PieceInv, WaitingPositive
<1>6. PICK u \in Nat : u = task_list[T].Utilization
  BY DEF PlacementInv, TypeOK, TaskInfos
<1>7. /\ assigned' = [assigned EXCEPT ![T] = C] /\ core_list' = Charged(C, u)
      /\ core_list[C].Utilization + u <= Utilization_Bound
  BY <1>2, <1>3, <1>6 DEF AssignWhole, Fits
<1>8. tcb \in TCBTables /\ core_list \in CoreTables
  BY DEF PlacementInv, TypeOK
<1>9. /\ \A c \in Cores : c # C => core_list'[c] = core_list[c]
      /\ core_list'[C].Utilization = core_list[C].Utilization + u
  BY <1>7, <1>8, PinTyped, PinEffect, ChargeTyped
<1>10. /\ assigned[T] = NULL /\ assigned'[T] # NULL
       /\ \A s \in Slots : s # T => assigned'[s] = assigned[s]
  BY <1>5, <1>7 DEF PlacementInv, TypeOK
<1>11. Unassigned[T] = u /\ Unassigned' = [Unassigned EXCEPT ![T] = 0]
  BY <1>1, <1>6, <1>10 DEF Unassigned
<1>12. Load[C] + u <= Utilization_Bound /\ Load' = [Load EXCEPT ![C] = @ + u]
  BY <1>7, <1>9 DEF Load
<1>13. u > 0
  BY <1>5, <1>6
<1> QED BY <1>11, <1>12, <1>13 DEF Promise!PlacementNext, Promise!Place, Load

(* A split of NORMAL-ASSIGN is a Split: the tail takes a name that was free. *)
LEMMA AssignSplitSplits ==
    ASSUME PlacementInv, AssignedInv, PieceInv, AssignSplit PROVE Promise!PlacementNext
<1> USE ConstantFacts
<1>1. /\ InNormalAssign /\ CoreIsUsable /\ pc = "normal_assign" /\ pc' = pc
  BY SplitContext DEF AssignSplit
<1>2. PICK T \in Slots : T = Top(UQ)
  BY SplitContext
<1>3. PICK q \in Slots : q = curr_idx /\ q # T /\ q >= NUM_OF_TASK
  BY <1>2, SplitContext
<1>4. PICK C \in Cores : C = SelectedCore
  BY SplitContext
<1>5. /\ assigned' = [assigned EXCEPT ![T] = C]
      /\ \A c \in Cores : c # C => core_list'[c] = core_list[c]
      /\ core_list'[C].Utilization = core_list[C].Utilization + SplitBody.Utilization
  BY <1>2, <1>3, <1>4, SplitPlacement
<1>6. /\ \A s \in Slots : s # T /\ s # q => task_list'[s] = task_list[s]
      /\ task_list'[q].Utilization = SplitTail.Utilization
  BY <1>2, <1>3, SplitSlots
<1>7. /\ SplitBody.Utilization = Utilization_Bound - core_list[C].Utilization
      /\ SplitTail.Utilization = task_list[T].Utilization - SplitBody.Utilization
  BY <1>2, <1>4, SplitParts
<1>8. PICK u \in Nat, v \in Nat : u = task_list[T].Utilization /\ v = core_list[C].Utilization
  BY DEF PlacementInv, TypeOK, TaskInfos, CoreTables
<1>9. v < Utilization_Bound /\ v + u > Utilization_Bound
  <2>1. v < Utilization_Bound /\ ~ (v + u <= Utilization_Bound)
    BY <1>2, <1>4, <1>8 DEF AssignSplit, CoreIsUsable, Fits
  <2> QED BY <2>1
<1>10. core_list'[C].Utilization = Utilization_Bound
  BY <1>5, <1>7, <1>8
<1>11. T \in Queued /\ Placing /\ q >= curr_idx
  BY <1>1, <1>2, <1>3, SplitContext DEF Queued, Placing
<1>12. /\ assigned[T] = NULL /\ assigned'[T] # NULL /\ assigned[q] = NULL /\ assigned'[q] = NULL
       /\ \A s \in Slots : s # T => assigned'[s] = assigned[s]
  BY <1>3, <1>5, <1>11 DEF AssignedInv, WaitingUnassigned, PlacementInv, TypeOK
<1>13. task_list[q].Utilization = 0
  BY <1>1, <1>3 DEF PieceInv, FreeSlotsEmpty
<1>14. Unassigned[T] = u /\ Unassigned[q] = 0
  BY <1>1, <1>8, <1>12, <1>13 DEF Unassigned
<1>15. Unassigned' = [Unassigned EXCEPT ![T] = 0, ![q] = u - (Utilization_Bound - v)]
  <2>1. task_list'[q].Utilization = u - (Utilization_Bound - v)
    BY <1>6, <1>7, <1>8
  <2> QED BY <1>1, <1>3, <1>6, <1>12, <2>1 DEF Unassigned
<1>16. Load[C] = v /\ Load' = [Load EXCEPT ![C] = Utilization_Bound]
  BY <1>5, <1>8, <1>10 DEF Load
<1>17. Promise!Split(T, q, C)
  BY <1>9, <1>14, <1>15, <1>16 DEF Promise!Split, Load
<1> QED BY <1>3, <1>17 DEF Promise!PlacementNext

LEMMA PiecesMove ==
    ASSUME PlacementInv, AssignedInv, PieceInv, [Next]_vars
    PROVE  [Promise!PlacementNext]_<<Unassigned, Load>>
<1> USE ConstantFacts
<1>1. CASE \/ Boot \/ PreAssignNull \/ Queue \/ PreAssignDone \/ ReportFull
           \/ NormalAssignUndefined \/ StartScheduler \/ Finished \/ UNCHANGED vars
  <2>1. UNCHANGED <<assigned, task_list, core_list, table>> /\ (Booting' <=> Booting)
    BY <1>1 DEF Boot, PreAssignNull, Queue, PreAssignDone, ReportFull, NormalAssignUndefined,
                InNormalAssign, StartScheduler, Finished, vars, Booting
  <2> QED BY <2>1 DEF Unassigned, Load, Booting
<1>2. CASE InitTask
  <2>1. /\ pc = "init_task" /\ pc' = "init_task" /\ i \in 0 .. NUM_OF_TASK - 1
        /\ \A s \in Slots : s # i => task_list'[s] = task_list[s]
        /\ UNCHANGED <<table, core_list, assigned>>
    BY <1>2, InitTaskEffect DEF InitTask
  <2>2. \A s \in Slots : Unassigned'[s] = Unassigned[s]
    <3> SUFFICES ASSUME NEW s \in Slots PROVE Unassigned'[s] = Unassigned[s]
      OBVIOUS
    <3>1. CASE s = i
      BY <2>1, <3>1 DEF Unassigned
    <3>2. CASE s # i
      BY <2>1, <3>2 DEF Unassigned
    <3> QED BY <3>1, <3>2
  <2>3. Unassigned' = Unassigned
    BY <2>2 DEF Unassigned
  <2> QED BY <2>1, <2>3 DEF Load
<1>3. CASE InitQueues
  <2>1. /\ pc = "init_task" /\ pc' = "pre_assign" /\ i = NUM_OF_TASK
        /\ UNCHANGED <<assigned, task_list, core_list, table>>
    BY <1>3 DEF InitQueues
  <2>2. \A s \in 0 .. NUM_OF_TASK - 1 : task_list[s].Utilization = UtilizationOf(table[s])
    BY <2>1 DEF PieceInv, Measured
  <2>3. \A s \in Slots : s < NUM_OF_TASK => s \in 0 .. NUM_OF_TASK - 1
    OBVIOUS
  <2>4. Unassigned' = Unassigned
    BY <2>1, <2>2, <2>3 DEF Unassigned
  <2> QED BY <2>1, <2>4 DEF Load
<1> QED
  BY <1>1, <1>2, <1>3, PreAssignDedicates, AssignWholePlaces, AssignSplitSplits DEF Next

(* main.c 118-199 implements semi-partitioning, on any number of cores and *)
(* for every table, heap and bound: utilization only moves from a waiting  *)
(* task to a core, whole within the bound, to an empty core, or split so   *)
(* that the core is filled exactly; none is lost or counted twice.         *)
THEOREM BootImplementsPlacement == Spec => ImplementsPlacement
<1>1. Init => Promise!PlacementInit
  <2> SUFFICES ASSUME Init PROVE Promise!PlacementInit
    OBVIOUS
  <2>1. Unassigned \in [Slots -> Nat]
    <3>1. PlacementInv
      BY PlacementInit
    <3>2. table \in [0 .. NUM_OF_TASK - 1 -> Rows] /\ task_list \in [Slots -> TaskInfos]
      BY <3>1 DEF PlacementInv, TypeOK
    <3>3. \A s \in Slots : s < NUM_OF_TASK => UtilizationOf(table[s]) \in Nat
      BY <3>2, RowPositive, ConstantFacts
    <3>4. \A s \in Slots : task_list[s].Utilization \in Nat
      BY <3>2 DEF TaskInfos
    <3> QED BY <3>3, <3>4 DEF Unassigned
  <2>2. Load = [c \in Cores |-> 0]
    BY DEF Init, Load
  <2> QED BY <2>1, <2>2 DEF Promise!PlacementInit, Load
<1>2. PlacementInv /\ AssignedInv /\ PieceInv /\ [Next]_vars => [Promise!PlacementNext]_<<Unassigned, Load>>
  BY PiecesMove
<1> QED
  BY <1>1, <1>2, PlacementInit, PlacementStep, AssignedInit, AssignedStep, PieceInit, PieceStep,
     PTL
     DEF Spec, ImplementsPlacement, Promise!PlacementSpec, Load

=============================================================================
