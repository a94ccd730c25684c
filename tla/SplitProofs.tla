---------------------------- MODULE SplitProofs ----------------------------
(***************************************************************************)
(* Theorems about the splits of the boot: on the two cores of the RP2040,  *)
(* for which there is one slot for a tail, a split loses no execution      *)
(* time and every admissible set is placed; on any number of cores the     *)
(* handles and pointers that tie a body to its tail are consistent, the    *)
(* two are on different cores, and a body outranks the rest of its core.   *)
(***************************************************************************)
EXTENDS PartitionProofs

----------------------------------------------------------------------------
(* On two cores a split loses no work.                                     *)

(* The slot of the tail is untouched until the split. *)
TailSlotFresh ==
    /\ Booting => curr_idx = 0
    /\ curr_idx <= NUM_OF_TASK =>
         /\ \A s \in Slots : task_list[s].splitted_ptr = NULL
         /\ task_list[NUM_OF_TASK].my_ptr = NULL

(* The parts of the task t of the table, once it has been split. *)
PartsAddUp(t) ==
    /\ task_list[t].splitted_ptr = NUM_OF_TASK
    /\ task_list[t].Runtime + task_list[NUM_OF_TASK].Runtime = table[t].Runtime
    /\ task_list[NUM_OF_TASK].Runtime > 0
    /\ task_list[NUM_OF_TASK].Period = table[t].Period
    /\ task_list[NUM_OF_TASK].Dependency

WholeOrSplit(t) ==
    /\ ~ task_list[t].Dependency
    /\ \/ /\ task_list[t].splitted_ptr = NULL
          /\ task_list[t].Runtime = table[t].Runtime \/ heap = 0
       \/ PartsAddUp(t) /\ curr_idx > NUM_OF_TASK

SplitInv == TailSlotFresh /\ \A t \in 0 .. NUM_OF_TASK - 1 : WholeOrSplit(t)

TwoCores == configNUMBER_OF_CORES = 2

(* With several cores, a task that may run on every core is not pinned. *)
SeveralCores == configNUMBER_OF_CORES > 1

LEMMA UnplacedSharesNothing ==
    ASSUME SeveralCores, NEW b, Unplaced(b), NEW c \in Cores
    PROVE  b.affinity # {c}
<1>1. 0 \in Cores /\ 1 \in Cores
  BY ConstantFacts DEF SeveralCores
<1> QED BY <1>1 DEF Unplaced

LEMMA UnplacedNotPinned ==
    ASSUME SeveralCores, NEW s, Unplaced(tcb[s]) PROVE ~ Pinned(s)
  BY UnplacedSharesNothing DEF Pinned

LEMMA TailSlot ==
    ASSUME TwoCores
    PROVE  /\ MAX_NUM_TASKS = NUM_OF_TASK + 1
           /\ NUM_OF_TASK \in Slots
           /\ \A t \in 0 .. NUM_OF_TASK - 1 : t \in Slots /\ t # NUM_OF_TASK /\ t # NULL
           /\ NUM_OF_TASK # NULL
  BY ConstantFacts DEF TwoCores, MAX_NUM_TASKS

LEMMA SplitInvInit == ASSUME TwoCores PROVE Init => SplitInv
<1> SUFFICES ASSUME Init PROVE SplitInv
  OBVIOUS
<1>1. \A s \in Slots : /\ task_list[s].splitted_ptr = NULL
                       /\ task_list[s].my_ptr = NULL
                       /\ ~ task_list[s].Dependency
  BY DEF Init, Row, ExtraRow
<1>2. \A t \in 0 .. NUM_OF_TASK - 1 : task_list[t].Runtime = table[t].Runtime
  BY ConstantFacts DEF Init, Row
<1>3. curr_idx = 0
  BY DEF Init
<1> QED
  BY <1>1, <1>2, <1>3, TailSlot DEF SplitInv, TailSlotFresh, WholeOrSplit

(* Steps that only move things between the stacks. *)
LEMMA SplitInvElsewhere ==
    ASSUME SplitInv, UNCHANGED <<task_list, table, curr_idx, heap>>,
           Booting' => Booting
    PROVE  SplitInv'
  BY DEF SplitInv, TailSlotFresh, WholeOrSplit, PartsAddUp, Booting

LEMMA SplitInvInitTask == ASSUME TwoCores, PlacementInv, SplitInv, InitTask PROVE SplitInv'
<1> USE ConstantFacts
<1>1. /\ pc = "init_task" /\ i \in 0 .. NUM_OF_TASK - 1 /\ i \in Slots
      /\ \A s \in Slots : s # i => task_list'[s] = task_list[s]
      /\ task_list'[i].Runtime = task_list[i].Runtime
      /\ task_list'[i].splitted_ptr = task_list[i].splitted_ptr
      /\ task_list'[i].Dependency = task_list[i].Dependency
  BY InitTaskEffect
<1>2. heap = 0 => heap' = 0
  BY DEF InitTask, HeapAfterCreate
<1>3. UNCHANGED <<table, curr_idx, pc>>
  BY DEF InitTask
<1>4. curr_idx = 0
  BY <1>1 DEF SplitInv, TailSlotFresh, Booting
<1>5. TailSlotFresh'
  BY <1>1, <1>3, TailSlot DEF SplitInv, TailSlotFresh, Booting
<1>6. ASSUME NEW t \in 0 .. NUM_OF_TASK - 1 PROVE WholeOrSplit(t)'
  <2>1. /\ task_list'[t].Runtime = task_list[t].Runtime
        /\ task_list'[t].splitted_ptr = task_list[t].splitted_ptr
        /\ task_list'[t].Dependency = task_list[t].Dependency
    BY <1>1, TailSlot
  <2>2. WholeOrSplit(t) /\ ~ (curr_idx > NUM_OF_TASK)
    BY <1>4 DEF SplitInv
  <2> QED BY <1>2, <1>3, <2>1, <2>2 DEF WholeOrSplit
<1> QED BY <1>5, <1>6 DEF SplitInv

LEMMA SplitInvInitQueues == ASSUME TwoCores, SplitInv, InitQueues PROVE SplitInv'
<1>1. /\ pc = "init_task" /\ pc' = "pre_assign" /\ curr_idx' = NUM_OF_TASK
      /\ UNCHANGED <<table, task_list, heap>>
  BY DEF InitQueues
<1>2. curr_idx = 0 /\ ~ (curr_idx > NUM_OF_TASK) /\ ~ (curr_idx' > NUM_OF_TASK) /\ curr_idx <= NUM_OF_TASK
  BY <1>1, ConstantFacts DEF SplitInv, TailSlotFresh, Booting
<1> QED
  BY <1>1, <1>2 DEF SplitInv, TailSlotFresh, WholeOrSplit, Booting

(* A tail that has utilization has work to do. *)
LEMMA TailHasWork ==
    ASSUME NEW u \in Nat, u > 0, NEW P \in Nat, P > 0, NEW R \in Nat,
           NEW K \in Nat, u * P <= R * K
    PROVE  R > 0
<1> SUFFICES ASSUME R = 0 PROVE FALSE
  OBVIOUS
<1>1. R * K = 0
  OBVIOUS
<1>2. u * P >= 1
  OBVIOUS
<1> QED BY <1>1, <1>2

LEMMA SplitInvAssignSplit ==
    ASSUME TwoCores, PlacementInv, SplitInv, AssignSplit PROVE SplitInv'
<1> USE ConstantFacts
<1> DEFINE T == Top(UQ)
<1>1. /\ T \in Slots /\ curr_idx \in Slots /\ curr_idx >= NUM_OF_TASK /\ T < curr_idx
      /\ pc = "normal_assign" /\ heap \in Nat
  BY SplitContext
<1>2. curr_idx = NUM_OF_TASK /\ T \in 0 .. NUM_OF_TASK - 1
  BY <1>1, TailSlot
<1>3. /\ \A s \in Slots : task_list[s].splitted_ptr = NULL
      /\ task_list[NUM_OF_TASK].my_ptr = NULL
  BY <1>2 DEF SplitInv, TailSlotFresh
<1>4. /\ curr_idx' = curr_idx + 1 /\ heap' = HeapAfterCreate
      /\ UNCHANGED <<pc, table>>
  BY DEF AssignSplit
<1>5. /\ \A s \in Slots : s # T /\ s # curr_idx => task_list'[s] = task_list[s]
      /\ task_list'[T].Runtime = SplitBody.Runtime
      /\ task_list'[T].Dependency = task_list[T].Dependency
      /\ task_list'[T].splitted_ptr = task_list'[curr_idx].my_ptr
      /\ task_list'[curr_idx].Runtime = SplitTail.Runtime
      /\ task_list'[curr_idx].Period = SplitTail.Period
      /\ task_list'[curr_idx].Dependency
      /\ task_list'[curr_idx].my_ptr = IF heap > 0 THEN curr_idx ELSE task_list[curr_idx].my_ptr
  BY SplitSlots
<1>6. /\ SplitTail \in TaskInfos
      /\ SplitTail.Period = task_list[T].Period
      /\ SplitTail.Utilization > 0
      /\ SplitBody.Runtime + SplitTail.Runtime = task_list[T].Runtime
      /\ Covered(SplitTail)
  BY SplitParts
<1> HIDE DEF T
<1>7. task_list[T].Period = table[T].Period /\ table[T].Period \in 1 .. UNIT
  BY <1>2 DEF PlacementInv, PeriodsKept, TypeOK, Rows
<1>8. SplitTail.Runtime > 0
  <2>1. SplitTail.Utilization \in Nat /\ SplitTail.Period \in Nat /\ SplitTail.Runtime \in Nat
    BY <1>6 DEF TaskInfos
  <2>2. SplitTail.Period > 0
    BY <1>6, <1>7
  <2> QED BY <1>6, <2>1, <2>2, TailHasWork DEF Covered
<1>9. TailSlotFresh'
  <2>1. ~ (curr_idx' <= NUM_OF_TASK) /\ ~ Booting'
    BY <1>1, <1>2, <1>4 DEF Booting
  <2> QED BY <2>1 DEF TailSlotFresh
<1>10. curr_idx' > NUM_OF_TASK
  BY <1>2, <1>4
<1>11. ASSUME NEW t \in 0 .. NUM_OF_TASK - 1 PROVE WholeOrSplit(t)'
  <2>1. WholeOrSplit(t)
    BY DEF SplitInv
  <2>2. /\ ~ task_list[t].Dependency
        /\ task_list[t].splitted_ptr = NULL
        /\ task_list[t].Runtime = table[t].Runtime \/ heap = 0
    BY <1>2, <2>1 DEF WholeOrSplit
  <2>3. CASE heap = 0
    <3>1. heap' = 0
      BY <1>4, <2>3 DEF HeapAfterCreate
    <3>2. task_list'[t].splitted_ptr = NULL
      BY <1>2, <1>3, <1>5, <2>2, <2>3, TailSlot
    <3>3. ~ task_list'[t].Dependency
      BY <1>2, <1>5, <2>2, TailSlot
    <3> QED BY <3>1, <3>2, <3>3 DEF WholeOrSplit
  <2>4. CASE heap # 0 /\ t = T
    <3>1. task_list'[t].splitted_ptr = NUM_OF_TASK
      BY <1>1, <1>2, <1>5, <2>4
    <3>2. task_list'[t].Runtime + task_list'[NUM_OF_TASK].Runtime = table'[t].Runtime
      BY <1>2, <1>4, <1>5, <1>6, <2>2, <2>4
    <3>3. /\ task_list'[NUM_OF_TASK].Runtime > 0
          /\ task_list'[NUM_OF_TASK].Period = table'[t].Period
          /\ task_list'[NUM_OF_TASK].Dependency
      BY <1>2, <1>4, <1>5, <1>6, <1>7, <1>8, <2>4
    <3>4. ~ task_list'[t].Dependency
      BY <1>5, <2>2, <2>4
    <3> QED BY <1>10, <3>1, <3>2, <3>3, <3>4 DEF WholeOrSplit, PartsAddUp
  <2>5. CASE heap # 0 /\ t # T
    <3>1. task_list'[t] = task_list[t]
      BY <1>2, <1>5, <2>5, TailSlot
    <3> QED BY <1>4, <2>2, <2>5, <3>1 DEF WholeOrSplit
  <2> QED BY <2>3, <2>4, <2>5
<1> QED BY <1>9, <1>11 DEF SplitInv

LEMMA SplitInvBoot == ASSUME TwoCores, SplitInv, Boot PROVE SplitInv'
<1>1. /\ UNCHANGED <<table, task_list, curr_idx>>
      /\ heap = 0 => heap' = 0
      /\ Booting
  BY DEF Boot, HeapAfterCreate, Booting
<1> QED
  BY <1>1 DEF SplitInv, TailSlotFresh, WholeOrSplit, PartsAddUp

LEMMA SplitInvStep ==
    ASSUME TwoCores, PlacementInv, SplitInv, [Next]_vars PROVE SplitInv'
<1>1. CASE \/ PreAssign \/ PreAssignNull \/ Queue \/ PreAssignDone \/ AssignWhole
           \/ ReportFull \/ NormalAssignUndefined \/ StartScheduler \/ Finished \/ UNCHANGED vars
  <2>1. UNCHANGED <<task_list, table, curr_idx, heap>>
    BY <1>1 DEF PreAssign, PreAssignNull, Queue, PreAssignDone, AssignWhole, ReportFull,
                NormalAssignUndefined, StartScheduler, Finished, vars
  <2>2. pc' = pc \/ pc' \in {"normal_assign", "started", "undefined"}
    BY <1>1 DEF PreAssign, PreAssignNull, Queue, PreAssignDone, AssignWhole, ReportFull,
                NormalAssignUndefined, StartScheduler, Finished, vars
  <2>3. Booting' => Booting
    BY <2>2 DEF Booting
  <2> QED BY <2>1, <2>3, SplitInvElsewhere
<1> QED
  BY <1>1, SplitInvBoot, SplitInvInitTask, SplitInvInitQueues, SplitInvAssignSplit DEF Next

(* On two cores, whatever the table and the heap, the body and the tail of *)
(* a split task together run for the ticks of the table, and the tail has  *)
(* work, waits for its body and keeps its period (Task_split).             *)
THEOREM SplitsLoseNoWork == TwoCores => (Spec => []SplitKeepsWork)
<1> SUFFICES ASSUME TwoCores PROVE Spec => []SplitKeepsWork
  OBVIOUS
<1>1. Init => SplitInv
  BY SplitInvInit
<1>2. PlacementInv /\ SplitInv /\ [Next]_vars => SplitInv'
  BY SplitInvStep
<1>3. SplitInv => SplitKeepsWork
  <2> SUFFICES ASSUME SplitInv, NEW t \in 0 .. NUM_OF_TASK - 1
               PROVE  LET s == task_list[t].splitted_ptr IN
                      IF s = NULL
                        THEN task_list[t].Runtime = table[t].Runtime \/ heap = 0
                        ELSE /\ task_list[t].Runtime + task_list[s].Runtime = table[t].Runtime
                             /\ task_list[s].Runtime > 0
                             /\ task_list[s].Period = table[t].Period
                             /\ task_list[s].Dependency
                             /\ ~ task_list[t].Dependency
    BY DEF SplitKeepsWork
  <2>1. WholeOrSplit(t) /\ NUM_OF_TASK # NULL
    BY TailSlot DEF SplitInv
  <2> QED BY <2>1 DEF WholeOrSplit, PartsAddUp
<1> QED
  BY <1>1, <1>2, <1>3, PlacementInvariant, PTL DEF Spec

----------------------------------------------------------------------------
(* The handles and the pointers of the tasks.                              *)

(* The slot u holds the tail of slot s: it comes later in the table, it    *)
(* exists, waits for its body and has the period of its body.              *)
TailOf(u, s) ==
    /\ s < u /\ u < curr_idx /\ u >= NUM_OF_TASK
    /\ u \in Created /\ s \in Created
    /\ task_list[u].Dependency
    /\ task_list[u].Period = task_list[s].Period

(* A handle names its own slot, its task may run somewhere and has a       *)
(* period; while there is heap every task so far exists; a slot not given  *)
(* out holds nothing; a body knows its tail, and no other body does.       *)
HandleInv ==
    /\ Booting => curr_idx = 0
    /\ heap > 0 => \A s \in Slots : s < (IF Booting THEN i ELSE curr_idx) => s \in Created
    /\ \A s \in Slots :
          /\ task_list[s].my_ptr \in {NULL, s}
          /\ s \in Created => tcb[s].affinity # {} /\ task_list[s].Period > 0
          /\ s >= NUM_OF_TASK /\ s >= curr_idx => s \notin Created /\ task_list[s].splitted_ptr = NULL
          /\ task_list[s].splitted_ptr # NULL => TailOf(task_list[s].splitted_ptr, s)
    /\ \A s, r \in Slots :
          task_list[s].splitted_ptr # NULL /\ task_list[s].splitted_ptr = task_list[r].splitted_ptr
            => s = r

LEMMA HandleInit == Init => HandleInv
<1> SUFFICES ASSUME Init PROVE HandleInv
  OBVIOUS
<1>1. \A s \in Slots : task_list[s].splitted_ptr = NULL /\ task_list[s].my_ptr = NULL
  BY DEF Init, Row, ExtraRow
<1>2. curr_idx = 0 /\ \A s \in Slots : s \notin Created
  BY <1>1 DEF Init, Created
<1>3. i = 0 /\ \A s \in Slots : ~ (s < 0)
  BY ConstantFacts DEF Init
<1> QED BY <1>1, <1>2, <1>3 DEF HandleInv

(* Steps that leave the table alone and only pin tasks. *)
LEMMA HandleElsewhere ==
    ASSUME HandleInv, UNCHANGED <<task_list, curr_idx>>, Booting' => Booting /\ UNCHANGED i,
           heap' > 0 => heap > 0,
           \A s \in Slots : tcb[s].affinity # {} => tcb'[s].affinity # {}
    PROVE  HandleInv'
<1>1. Created' = Created
  BY DEF Created
<1>2. \A u, s : TailOf(u, s)' <=> TailOf(u, s)
  BY <1>1 DEF TailOf
<1>3. Booting => \A s \in Slots : ~ (s < curr_idx)
  BY ConstantFacts DEF HandleInv
<1> QED BY <1>1, <1>2, <1>3 DEF HandleInv

LEMMA HandleInitTask == ASSUME PlacementInv, HandleInv, InitTask PROVE HandleInv'
<1> USE ConstantFacts
<1>1. /\ pc = "init_task" /\ i \in 0 .. NUM_OF_TASK - 1 /\ i \in Slots
      /\ \A s \in Slots : s # i => task_list'[s] = task_list[s] /\ tcb'[s] = tcb[s]
      /\ task_list'[i].splitted_ptr = task_list[i].splitted_ptr
      /\ task_list'[i].my_ptr = IF heap > 0 THEN i ELSE task_list[i].my_ptr
      /\ IF heap > 0 THEN tcb'[i].affinity = Cores ELSE tcb'[i] = tcb[i]
  BY InitTaskEffect
<1>2. curr_idx = 0 /\ UNCHANGED curr_idx /\ curr_idx' = 0
  BY <1>1 DEF HandleInv, Booting, InitTask
<1>3. \A s \in Slots : task_list[s].splitted_ptr = NULL
  <2> SUFFICES ASSUME NEW s \in Slots, task_list[s].splitted_ptr # NULL PROVE FALSE
    OBVIOUS
  <2>1. task_list[s].splitted_ptr >= NUM_OF_TASK /\ task_list[s].splitted_ptr < 0
    BY <1>2 DEF HandleInv, TailOf
  <2>2. task_list[s].splitted_ptr \in Slots \cup {NULL}
    BY DEF PlacementInv, TypeOK, TaskInfos
  <2> QED BY <2>1, <2>2
<1>4. \A s \in Slots : task_list'[s].splitted_ptr = NULL
  BY <1>1, <1>3
<1>5. \A s \in Slots : s \in Created' => s \in Created \/ (s = i /\ heap > 0)
  BY <1>1 DEF Created
<1>6. task_list'[i].Period > 0
  <2>1. PlacementInv'
    BY PlacementInitTask
  <2>2. task_list'[i].Period = table'[i].Period /\ table'[i] \in Rows
    BY <1>1, <2>1 DEF PlacementInv, PeriodsKept, TypeOK
  <2> QED BY <2>2 DEF Rows
<1>7. 0 \in Cores
  OBVIOUS
<1>8. ASSUME NEW s \in Slots
      PROVE  /\ task_list'[s].my_ptr \in {NULL, s}
             /\ s \in Created' => tcb'[s].affinity # {} /\ task_list'[s].Period > 0
             /\ s >= NUM_OF_TASK /\ s >= curr_idx' => s \notin Created'
  <2>1. CASE s = i
    <3>1. task_list'[s].my_ptr \in {NULL, s}
      BY <1>1, <2>1 DEF HandleInv
    <3>2. s \in Created' => tcb'[s].affinity # {}
      <4>1. CASE heap > 0
        BY ONLY <1>1, <1>7, <2>1, <4>1
      <4>2. CASE ~ (heap > 0)
        <5>1. s \in Created' => s \in Created
          BY ONLY <1>5, <4>2, s \in Slots
        <5>2. s \in Created => tcb[s].affinity # {}
          BY DEF HandleInv
        <5> QED BY ONLY <1>1, <2>1, <4>2, <5>1, <5>2
      <4> QED BY ONLY <4>1, <4>2
    <3> QED BY <1>1, <1>6, <2>1, <3>1, <3>2
  <2>2. CASE s # i
    BY <1>1, <1>2, <1>5, <2>2 DEF HandleInv
  <2> QED BY <2>1, <2>2
<1>9. heap' > 0 => \A s \in Slots : s < i' => s \in Created'
  <2>1. heap' > 0 => heap > 0
    BY DEF InitTask, HeapAfterCreate, PlacementInv, TypeOK
  <2>2. \A s \in Slots : s < i' => s < i \/ s = i
    BY <1>1 DEF InitTask
  <2>3. heap > 0 => \A s \in Slots : s < i => s \in Created /\ s # i
    BY <1>1 DEF HandleInv, Booting
  <2> QED BY <1>1, <2>1, <2>2, <2>3 DEF Created
<1>10. Booting'
  BY <1>1 DEF InitTask, Booting
<1> QED BY <1>2, <1>4, <1>8, <1>9, <1>10 DEF HandleInv

LEMMA HandleInitQueues == ASSUME PlacementInv, HandleInv, InitQueues PROVE HandleInv'
<1> USE ConstantFacts
<1>1. /\ pc = "init_task" /\ pc' = "pre_assign" /\ curr_idx' = NUM_OF_TASK
      /\ UNCHANGED <<task_list, tcb>>
  BY DEF InitQueues
<1>2. curr_idx = 0 /\ Created' = Created /\ ~ Booting'
  BY <1>1 DEF HandleInv, Booting, Created
<1>3. ASSUME NEW s \in Slots, task_list[s].splitted_ptr # NULL
      PROVE  TailOf(task_list[s].splitted_ptr, s)'
  <2>1. task_list[s].splitted_ptr < 0 /\ task_list[s].splitted_ptr >= NUM_OF_TASK
    BY <1>2, <1>3 DEF HandleInv, TailOf
  <2>2. task_list[s].splitted_ptr \in Slots \cup {NULL}
    BY DEF PlacementInv, TypeOK, TaskInfos
  <2> QED BY <2>1, <2>2
<1>4. \A s \in Slots : s >= NUM_OF_TASK => s >= curr_idx
  BY <1>2
<1>5. i = curr_idx' /\ UNCHANGED heap /\ Booting
  BY <1>1 DEF InitQueues, Booting
<1> QED BY <1>1, <1>2, <1>3, <1>4, <1>5 DEF HandleInv

LEMMA HandleAssignSplit == ASSUME PlacementInv, HandleInv, AssignSplit PROVE HandleInv'
<1> USE ConstantFacts
<1> DEFINE T == Top(UQ)
           C == SelectedCore
<1>1. /\ T \in Slots /\ C \in Cores /\ curr_idx \in Slots /\ curr_idx # T /\ T < curr_idx
      /\ curr_idx >= NUM_OF_TASK /\ pc = "normal_assign" /\ heap \in Nat
  BY SplitContext
<1>2. /\ curr_idx' = curr_idx + 1 /\ UNCHANGED pc /\ heap' = HeapAfterCreate
      /\ heap > 0 => \A s \in Slots : s < curr_idx => s \in Created
  BY <1>1 DEF AssignSplit, HandleInv, Booting
<1>3. /\ \A s \in Slots : s # T /\ s # curr_idx => task_list'[s] = task_list[s]
      /\ task_list'[T].Period = SplitBody.Period
      /\ task_list'[T].my_ptr = task_list[T].my_ptr
      /\ task_list'[T].Dependency = task_list[T].Dependency
      /\ task_list'[T].splitted_ptr = task_list'[curr_idx].my_ptr
      /\ task_list'[curr_idx].Period = SplitTail.Period
      /\ task_list'[curr_idx].Dependency
      /\ task_list'[curr_idx].splitted_ptr = task_list[curr_idx].splitted_ptr
      /\ task_list'[curr_idx].my_ptr = IF heap > 0 THEN curr_idx ELSE task_list[curr_idx].my_ptr
  BY SplitSlots
<1>4. SplitBody.Period = task_list[T].Period /\ SplitTail.Period = task_list[T].Period
  BY SplitParts
<1>5. /\ \A s \in Slots : s # T /\ s # curr_idx => tcb'[s] = tcb[s]
      /\ tcb'[T].affinity \in {tcb[T].affinity, {C}}
      /\ heap > 0 => tcb'[curr_idx].affinity = Cores
  BY SplitPlacement
<1> HIDE DEF T, C
<1>6. curr_idx \notin Created /\ task_list[curr_idx].splitted_ptr = NULL
  BY <1>1 DEF HandleInv
<1>7. /\ task_list'[curr_idx].splitted_ptr = NULL
      /\ task_list'[curr_idx].my_ptr = IF heap > 0 THEN curr_idx ELSE NULL
      /\ task_list'[T].splitted_ptr = IF heap > 0 THEN curr_idx ELSE NULL
  BY <1>1, <1>3, <1>6 DEF Created
<1>8. /\ \A s \in Slots : s # curr_idx => (s \in Created' <=> s \in Created)
      /\ curr_idx \in Created' <=> heap > 0
  <2>1. \A s \in Slots : s # curr_idx => task_list'[s].my_ptr = task_list[s].my_ptr
    BY <1>3
  <2> QED BY <1>1, <1>7, <2>1 DEF Created
<1>9. \A s \in Slots : s # curr_idx =>
          /\ task_list'[s].Period = task_list[s].Period
          /\ task_list'[s].Dependency = task_list[s].Dependency
          /\ task_list'[s].my_ptr = task_list[s].my_ptr
  BY <1>3, <1>4
<1>10. 0 \in Cores
  OBVIOUS
<1>11. ASSUME NEW s \in Slots
       PROVE  /\ task_list'[s].my_ptr \in {NULL, s}
              /\ s \in Created' => tcb'[s].affinity # {} /\ task_list'[s].Period > 0
              /\ s >= NUM_OF_TASK /\ s >= curr_idx' => s \notin Created' /\ task_list'[s].splitted_ptr = NULL
  <2>1. CASE s = curr_idx
    <3>1. s \in Created' => task_list'[s].Period > 0
      <4>1. s \in Created' => T \in Created
        BY <1>1, <1>2, <1>8, <2>1
      <4>2. T \in Created => task_list[T].Period > 0
        BY <1>1 DEF HandleInv
      <4> QED BY <1>3, <1>4, <2>1, <4>1, <4>2
    <3>2. task_list'[s].my_ptr \in {NULL, s} /\ ~ (s >= curr_idx')
      BY <1>1, <1>2, <1>7, <2>1
    <3>3. s \in Created' => tcb'[s].affinity # {}
      BY <1>5, <1>8, <1>10, <2>1
    <3> QED BY <3>1, <3>2, <3>3
  <2>2. CASE s # curr_idx
    <3>1. task_list'[s].my_ptr \in {NULL, s}
      BY <1>9, <2>2 DEF HandleInv
    <3>2. s \in Created' => tcb'[s].affinity # {} /\ task_list'[s].Period > 0
      BY <1>5, <1>8, <1>9, <2>2 DEF HandleInv
    <3>3. s >= curr_idx' => s >= curr_idx /\ s # T
      BY <1>1, <1>2
    <3>4. s >= NUM_OF_TASK /\ s >= curr_idx' => s \notin Created' /\ task_list'[s].splitted_ptr = NULL
      BY <1>3, <1>8, <2>2, <3>3 DEF HandleInv
    <3> QED BY <3>1, <3>2, <3>4
  <2> QED BY <2>1, <2>2
<1>12. ASSUME NEW s \in Slots, task_list'[s].splitted_ptr # NULL
       PROVE  IF s = T THEN task_list'[s].splitted_ptr = curr_idx /\ heap > 0
              ELSE /\ s # curr_idx /\ task_list'[s].splitted_ptr = task_list[s].splitted_ptr
                   /\ task_list[s].splitted_ptr < curr_idx
  <2>1. CASE s = T
    BY <1>7, <1>12, <2>1
  <2>2. CASE s # T
    <3>1. s # curr_idx
      BY <1>7, <1>12
    <3>2. task_list'[s].splitted_ptr = task_list[s].splitted_ptr
      BY <1>3, <2>2, <3>1
    <3> QED BY <1>12, <2>2, <3>1, <3>2 DEF HandleInv, TailOf
  <2> QED BY <2>1, <2>2
<1>13. ASSUME NEW s \in Slots, NEW u, task_list'[s].splitted_ptr # NULL, u = task_list'[s].splitted_ptr
       PROVE  TailOf(u, s)'
  <2>1. CASE s = T
    <3>1. u = curr_idx /\ heap > 0
      BY <1>12, <1>13, <2>1
    <3>2. u \in Created' /\ s \in Created'
      BY <1>1, <1>2, <1>8, <2>1, <3>1
    <3> QED BY <1>1, <1>2, <1>3, <1>4, <2>1, <3>1, <3>2 DEF TailOf
  <2>2. CASE s # T
    <3>1. TailOf(u, s) /\ s # curr_idx /\ u < curr_idx
      BY <1>12, <1>13, <2>2 DEF HandleInv
    <3>2. u \in Slots /\ u # curr_idx
      BY <3>1 DEF TailOf, Created
    <3>3. u < curr_idx'
      BY <1>1, <1>2, <3>1, <3>2
    <3> QED BY <1>8, <1>9, <3>1, <3>2, <3>3 DEF TailOf
  <2> QED BY <2>1, <2>2
<1>14. \A s, r \in Slots :
          task_list'[s].splitted_ptr # NULL /\ task_list'[s].splitted_ptr = task_list'[r].splitted_ptr
            => s = r
  <2> SUFFICES ASSUME NEW s \in Slots, NEW r \in Slots, task_list'[s].splitted_ptr # NULL,
                      task_list'[s].splitted_ptr = task_list'[r].splitted_ptr
               PROVE  s = r
    OBVIOUS
  <2>1. ~ (curr_idx < curr_idx)
    BY <1>1
  <2>2. CASE s = T \/ r = T
    BY <1>12, <2>1, <2>2
  <2>3. CASE s # T /\ r # T
    BY <1>12, <2>3 DEF HandleInv
  <2> QED BY <2>2, <2>3
<1>15. ~ Booting'
  BY <1>1, <1>2 DEF Booting
<1>16. heap' > 0 => \A s \in Slots : s < curr_idx' => s \in Created'
  <2>1. heap' > 0 => heap > 0
    BY <1>1, <1>2 DEF HeapAfterCreate
  <2>2. \A s \in Slots : s < curr_idx' => s < curr_idx \/ s = curr_idx
    BY <1>1, <1>2
  <2> QED BY <1>1, <1>2, <1>8, <2>1, <2>2
<1> QED BY <1>11, <1>13, <1>14, <1>15, <1>16 DEF HandleInv

(* Assign_task gives a task a core. *)
LEMMA HandlePinned ==
    ASSUME PlacementInv, HandleInv, PreAssign \/ AssignWhole PROVE HandleInv'
<1>1. UNCHANGED <<task_list, curr_idx, heap>> /\ ~ Booting'
  BY DEF PreAssign, AssignWhole, InNormalAssign, Booting
<1>2. \E T, C : tcb' = PinnedTo(T, C, tcb)
  BY DEF PreAssign, AssignWhole
<1>3. \A s \in Slots : tcb[s].affinity # {} => tcb'[s].affinity # {}
  <2>1. PICK T, C : tcb' = PinnedTo(T, C, tcb)
    BY <1>2
  <2>2. tcb' = tcb \/ tcb' = [tcb EXCEPT ![T].affinity = {C}]
    BY <2>1 DEF PinnedTo
  <2>3. tcb \in TCBTables
    BY DEF PlacementInv, TypeOK
  <2> QED BY <2>2, <2>3 DEF TCBTables
<1> QED BY <1>1, <1>3, HandleElsewhere

LEMMA HandleStep == HandleInv /\ PlacementInv /\ [Next]_vars => HandleInv'
<1> SUFFICES ASSUME HandleInv, PlacementInv, [Next]_vars PROVE HandleInv'
  OBVIOUS
<1>1. CASE \/ Boot \/ PreAssignNull \/ Queue \/ PreAssignDone \/ ReportFull
           \/ NormalAssignUndefined \/ StartScheduler \/ Finished \/ UNCHANGED vars
  <2>1. UNCHANGED <<task_list, tcb, curr_idx>>
    BY <1>1 DEF Boot, PreAssignNull, Queue, PreAssignDone, ReportFull,
                NormalAssignUndefined, StartScheduler, Finished, vars
  <2>2. Booting' => Booting /\ UNCHANGED i
    BY <1>1 DEF Boot, PreAssignNull, Queue, PreAssignDone, ReportFull,
                NormalAssignUndefined, StartScheduler, Finished, vars, Booting
  <2>3. heap' = heap \/ (heap' = HeapAfterCreate /\ heap \in Nat)
    BY <1>1 DEF Boot, PreAssignNull, Queue, PreAssignDone, ReportFull,
                NormalAssignUndefined, StartScheduler, Finished, vars, PlacementInv, TypeOK
  <2>4. heap' > 0 => heap > 0
    BY <2>3 DEF HeapAfterCreate
  <2> QED BY <2>1, <2>2, <2>4, HandleElsewhere
<1> QED
  BY <1>1, HandleInitTask, HandleInitQueues, HandlePinned, HandleAssignSplit DEF Next

----------------------------------------------------------------------------
(* The parts of a split task are on different cores.                       *)

(* Before the first tail is made nothing is split. *)
LEMMA NothingSplit ==
    ASSUME PlacementInv, HandleInv, curr_idx <= NUM_OF_TASK
    PROVE  \A s \in Slots : task_list[s].splitted_ptr = NULL
<1> SUFFICES ASSUME NEW s \in Slots, task_list[s].splitted_ptr # NULL PROVE FALSE
  OBVIOUS
<1>1. task_list[s].splitted_ptr >= NUM_OF_TASK /\ task_list[s].splitted_ptr < curr_idx
  BY DEF HandleInv, TailOf
<1>2. task_list[s].splitted_ptr \in Slots \cup {NULL} /\ curr_idx \in Nat
  BY DEF PlacementInv, TypeOK, TaskInfos
<1> QED BY <1>1, <1>2, ConstantFacts

(* A task that waits has not been split, and the core of a body is full:   *)
(* it is not given to the tail, nor to anybody else.                       *)
WaitingWhole == Placing => \A s \in Queued : task_list[s].splitted_ptr = NULL

BodiesFillCores ==
    \A t \in Slots, c \in Cores :
        task_list[t].splitted_ptr # NULL /\ tcb[t].affinity = {c}
          => core_list[c].Utilization >= Utilization_Bound

ApartInv == WaitingWhole /\ BodiesFillCores /\ SplitPartsApart

LEMMA ApartUnsplit ==
    PlacementInv /\ HandleInv /\ curr_idx <= NUM_OF_TASK => ApartInv
<1> SUFFICES ASSUME PlacementInv, HandleInv, curr_idx <= NUM_OF_TASK PROVE ApartInv
  OBVIOUS
<1>1. \A s \in Slots : task_list[s].splitted_ptr = NULL
  BY NothingSplit
<1>2. Placing => Queued \subseteq Slots
  <2> SUFFICES ASSUME Placing, NEW k \in 0 .. UQ.top PROVE UQ.list[k] \in Slots
    BY DEF Queued
  <2>1. UQ.list[k] \in Slots \cup {NULL}
    BY ConstantFacts DEF PlacementInv, TypeOK, TaskStacks
  <2>2. UQ.list[k] >= 0
    BY ConstantFacts DEF PlacementInv, QueueInOrder, TypeOK
  <2> QED BY <2>1, <2>2, ConstantFacts
<1> QED
  BY <1>1, <1>2, ConstantFacts DEF ApartInv, WaitingWhole, BodiesFillCores, SplitPartsApart

(* The task of an iteration gets its core, unless it does not exist. *)
LEMMA IterationPins ==
    ASSUME PlacementInv, AssignedInv, AssignWhole \/ AssignSplit
    PROVE  tcb'[Top(UQ)].affinity \in {{}, {SelectedCore}}
<1>1. Top(UQ) \in Slots /\ assigned'[Top(UQ)] = SelectedCore /\ SelectedCore # NULL
  <2>1. Top(UQ) \in Slots /\ SelectedCore \in Cores
    BY IterationTyped, SplitContext DEF AssignWhole
  <2>2. assigned' = [assigned EXCEPT ![Top(UQ)] = SelectedCore]
    BY DEF AssignWhole, AssignSplit
  <2> QED BY <2>1, <2>2, ConstantFacts DEF PlacementInv, TypeOK
<1>2. AssignedInv'
  BY AssignedStep DEF Next
<1> QED BY <1>1, <1>2 DEF AssignedInv, MasksMatch, Mask

LEMMA ApartAssignWhole ==
    ASSUME PlacementInv, HandleInv, AssignedInv, ApartInv, AssignWhole PROVE ApartInv'
<1> USE ConstantFacts
<1>1. /\ InNormalAssign /\ CoreIsUsable /\ pc = "normal_assign" /\ Placing
      /\ UNCHANGED task_list
  BY DEF AssignWhole, InNormalAssign, Placing
<1>2. PICK T \in Slots : T = Top(UQ)
  BY <1>1, IterationTyped
<1>3. PICK C \in Cores : C = SelectedCore
  BY <1>1, IterationTyped
<1>4. T \in Queued
  BY <1>1, <1>2, IterationTyped DEF Queued
<1>5. task_list[T].splitted_ptr = NULL /\ core_list[C].Utilization < Utilization_Bound
  BY <1>1, <1>3, <1>4 DEF ApartInv, WaitingWhole, CoreIsUsable
<1>6. PICK u \in Nat : u = task_list[T].Utilization
  BY DEF PlacementInv, TypeOK, TaskInfos
<1>7. tcb' = PinnedTo(T, C, tcb) /\ core_list' = Charged(C, u)
  BY <1>2, <1>3, <1>6 DEF AssignWhole
<1>8. tcb \in TCBTables /\ core_list \in CoreTables
  BY DEF PlacementInv, TypeOK
<1>9. /\ \A s \in Slots : s # T => tcb'[s] = tcb[s]
      /\ tcb'[T].affinity \in {{}, {C}}
      /\ \A c \in Cores : c # C => core_list'[c] = core_list[c]
      /\ core_list'[C].Utilization = core_list[C].Utilization + u
  BY <1>2, <1>3, <1>7, <1>8, PinTyped, ChargeTyped, IterationPins
<1>10. \A c \in Cores : core_list'[c].Utilization >= core_list[c].Utilization
                        /\ core_list[c].Utilization \in Nat
  BY SMTT(20), <1>8, <1>9 DEF CoreTables
<1>11. WaitingWhole'
  <2>1. \A s \in Queued' : s \in Queued \/ AssignSplit
    BY NextQueue
  <2>2. ~ AssignSplit
    BY DEF AssignWhole, AssignSplit
  <2> QED BY <1>1, <2>1, <2>2 DEF ApartInv, WaitingWhole
<1>12. BodiesFillCores'
  <2> SUFFICES ASSUME NEW t \in Slots, NEW c \in Cores,
                      task_list[t].splitted_ptr # NULL, tcb'[t].affinity = {c}
               PROVE  core_list'[c].Utilization >= Utilization_Bound
    BY <1>1 DEF BodiesFillCores
  <2>1. t # T
    BY <1>5
  <2>2. core_list[c].Utilization >= Utilization_Bound
    BY <1>9, <2>1 DEF ApartInv, BodiesFillCores
  <2>3. core_list'[c].Utilization \in Nat
    BY PlacementAssignWhole DEF PlacementInv, TypeOK, CoreTables
  <2> QED BY SMTT(20), <1>10, <2>2, <2>3
<1>13. SplitPartsApart'
  <2> SUFFICES ASSUME NEW t \in Slots, NEW s \in Slots, task_list[t].splitted_ptr = s,
                      Pinned(t)', Pinned(s)', tcb'[t].affinity = tcb'[s].affinity
               PROVE  FALSE
    BY <1>1 DEF SplitPartsApart
  <2>1. task_list[t].splitted_ptr # NULL /\ t # T
    BY <1>5
  <2>2. PICK c \in Cores : tcb[t].affinity = {c} /\ tcb'[t].affinity = {c} /\ tcb'[s].affinity = {c}
    BY <1>9, <2>1 DEF Pinned
  <2>3. CASE s = T
    <3>1. c = C
      BY <1>9, <2>2, <2>3
    <3>2. core_list[c].Utilization >= Utilization_Bound
      BY <2>1, <2>2 DEF ApartInv, BodiesFillCores
    <3> QED BY <1>5, <1>10, <3>1, <3>2
  <2>4. CASE s # T
    <3>1. tcb[s].affinity = {c}
      BY <1>9, <2>2, <2>4
    <3>2. Pinned(t) /\ Pinned(s) /\ tcb[t].affinity = tcb[s].affinity
      BY <2>2, <3>1 DEF Pinned
    <3> QED BY <3>2 DEF ApartInv, SplitPartsApart
  <2> QED BY <2>3, <2>4
<1> QED BY <1>11, <1>12, <1>13 DEF ApartInv

LEMMA ApartAssignSplit ==
    ASSUME PlacementInv, HandleInv, AssignedInv, ApartInv, AssignSplit PROVE ApartInv'
<1> USE ConstantFacts
<1>1. CoreIsUsable /\ pc = "normal_assign" /\ Placing /\ curr_idx \in Slots /\ curr_idx >= NUM_OF_TASK
  BY SplitContext DEF AssignSplit, Placing
<1>2. PICK T \in Slots : T = Top(UQ) /\ T # curr_idx
  BY SplitContext
<1>3. PICK C \in Cores : C = SelectedCore
  BY SplitContext
<1>4. T \in Queued
  BY <1>2, SplitContext DEF Queued
<1>5. /\ task_list[T].splitted_ptr = NULL /\ core_list[C].Utilization < Utilization_Bound
      /\ core_list[C].Utilization \in Nat
  BY <1>1, <1>3, <1>4 DEF ApartInv, WaitingWhole, CoreIsUsable, PlacementInv, TypeOK, CoreTables
<1>6. /\ \A s \in Slots : s # T /\ s # curr_idx => tcb'[s] = tcb[s]
      /\ tcb'[T].affinity \in {{}, {C}} /\ Unplaced(tcb'[curr_idx])
      /\ \A c \in Cores : c # C => core_list'[c] = core_list[c]
      /\ core_list'[C].Utilization = core_list[C].Utilization + SplitBody.Utilization
  BY <1>2, <1>3, SplitPlacement, IterationPins
<1>7. core_list'[C].Utilization = Utilization_Bound
  <2>1. SplitBody.Utilization = Utilization_Bound - core_list[C].Utilization
    BY <1>3, SplitParts
  <2> QED BY <1>5, <1>6, <2>1
<1>8. task_list[curr_idx].splitted_ptr = NULL
  BY <1>1 DEF HandleInv
<1>9. /\ \A s \in Slots : s # T => task_list'[s].splitted_ptr = task_list[s].splitted_ptr
      /\ task_list'[curr_idx].splitted_ptr = NULL
      /\ task_list'[T].splitted_ptr \in {NULL, curr_idx}
  <2>1. /\ \A s \in Slots : s # T /\ s # curr_idx => task_list'[s] = task_list[s]
        /\ task_list'[T].splitted_ptr = task_list'[curr_idx].my_ptr
        /\ task_list'[curr_idx].splitted_ptr = task_list[curr_idx].splitted_ptr
        /\ task_list'[curr_idx].my_ptr = IF heap > 0 THEN curr_idx ELSE task_list[curr_idx].my_ptr
    BY <1>2, SplitSlots
  <2>2. task_list[curr_idx].my_ptr \in {NULL, curr_idx}
    BY <1>1 DEF HandleInv
  <2> QED BY <1>8, <2>1, <2>2
<1>10. WaitingWhole'
  <2>1. \A s \in Queued' : s = curr_idx \/ (s \in Queued /\ s # T)
    BY <1>2, NextQueue
  <2>2. \A s \in Queued : s \in Slots
    <3> SUFFICES ASSUME NEW k \in 0 .. UQ.top PROVE UQ.list[k] \in Slots
      BY DEF Queued
    <3>1. k = UQ.top \/ k \in 0 .. UQ.top - 1
      BY SplitContext
    <3> QED BY <3>1, SplitContext
  <2> QED BY <1>1, <1>8, <1>9, <2>1, <2>2 DEF ApartInv, WaitingWhole
<1>11. BodiesFillCores'
  <2> SUFFICES ASSUME NEW t \in Slots, NEW c \in Cores,
                      task_list'[t].splitted_ptr # NULL, tcb'[t].affinity = {c}
               PROVE  core_list'[c].Utilization >= Utilization_Bound
    BY DEF BodiesFillCores
  <2>1. CASE c = C
    BY <1>7, <2>1
  <2>2. CASE c # C
    <3>1. t # T /\ t # curr_idx
      BY <1>6, <1>9, <2>2
    <3>2. core_list[c].Utilization >= Utilization_Bound
      BY <1>6, <1>9, <3>1 DEF ApartInv, BodiesFillCores
    <3> QED BY <1>6, <2>2, <3>2
  <2> QED BY <2>1, <2>2
<1>12. SplitPartsApart'
  <2> SUFFICES ASSUME NEW t \in Slots, NEW s \in Slots, task_list'[t].splitted_ptr = s,
                      Pinned(t)', Pinned(s)', tcb'[t].affinity = tcb'[s].affinity
               PROVE  FALSE
    BY DEF SplitPartsApart
  <2>1. t # curr_idx
    BY <1>9
  <2>2. CASE t = T
    <3>1. s = curr_idx
      BY <1>9, <2>2
    <3>2. tcb'[curr_idx].affinity = {C}
      BY <1>6, <2>2, <3>1 DEF Pinned
    <3>3. SeveralCores
      BY <1>1 DEF SeveralCores, MAX_NUM_TASKS
    <3>4. tcb'[curr_idx].affinity # {C}
      BY <1>6, <3>3, UnplacedSharesNothing
    <3> QED BY <3>2, <3>4
  <2>3. CASE t # T
    <3>1. task_list[t].splitted_ptr = s /\ task_list[t].splitted_ptr # NULL
      BY <1>9, <2>1, <2>3
    <3>2. s # curr_idx
      <4>1. s < curr_idx
        BY <3>1 DEF HandleInv, TailOf
      <4> QED BY <1>1, <4>1
    <3>3. PICK c \in Cores : tcb[t].affinity = {c} /\ tcb'[t].affinity = {c} /\ tcb'[s].affinity = {c}
      BY <1>6, <2>1, <2>3 DEF Pinned
    <3>4. CASE s = T
      <4>1. c = C
        BY <1>6, <3>3, <3>4
      <4>2. core_list[c].Utilization >= Utilization_Bound
        BY <3>1, <3>3 DEF ApartInv, BodiesFillCores
      <4> QED BY <1>5, <4>1, <4>2
    <3>5. CASE s # T
      <4>1. tcb[s].affinity = {c}
        BY <1>6, <3>2, <3>3, <3>5
      <4>2. Pinned(t) /\ Pinned(s) /\ tcb[t].affinity = tcb[s].affinity
        BY <3>3, <4>1 DEF Pinned
      <4> QED BY <3>1, <4>2 DEF ApartInv, SplitPartsApart
    <3> QED BY <3>4, <3>5
  <2> QED BY <2>2, <2>3
<1> QED BY <1>10, <1>11, <1>12 DEF ApartInv

LEMMA ApartStep ==
    PlacementInv /\ HandleInv /\ AssignedInv /\ ApartInv /\ [Next]_vars => ApartInv'
<1> SUFFICES ASSUME PlacementInv, HandleInv, AssignedInv, ApartInv, [Next]_vars PROVE ApartInv'
  OBVIOUS
<1>1. PlacementInv' /\ HandleInv'
  BY PlacementStep, HandleStep
<1>4. (PlacementInv /\ HandleInv /\ curr_idx <= NUM_OF_TASK)' => ApartInv'
  BY ApartUnsplit, PTL
<1>2. CASE Boot \/ InitTask \/ InitQueues \/ PreAssign \/ PreAssignNull \/ Queue \/ PreAssignDone
  <2>1. CASE Boot \/ InitTask
    <3>1. curr_idx' = 0
      BY <2>1 DEF Boot, InitTask, HandleInv, Booting
    <3> QED BY <1>1, <3>1, <1>4, ConstantFacts
  <2>2. CASE InitQueues
    <3>1. curr_idx' = NUM_OF_TASK
      BY <2>2 DEF InitQueues
    <3> QED BY <1>1, <3>1, <1>4, ConstantFacts
  <2>3. CASE PreAssign \/ PreAssignNull \/ Queue \/ PreAssignDone
    <3>1. curr_idx' = NUM_OF_TASK
      BY <2>3 DEF PreAssign, PreAssignNull, Queue, PreAssignDone, PlacementInv, QueueInOrder, Placing
    <3> QED BY <1>1, <3>1, <1>4, ConstantFacts
  <2> QED BY <1>2, <2>1, <2>2, <2>3
<1>3. CASE ReportFull \/ NormalAssignUndefined \/ StartScheduler \/ Finished \/ UNCHANGED vars
  <2>1. UNCHANGED <<task_list, tcb, core_list>> /\ (Placing' => Placing /\ UNCHANGED UQ)
    BY <1>3 DEF ReportFull, NormalAssignUndefined, StartScheduler, Finished, vars, Placing
  <2> QED BY <2>1 DEF ApartInv, WaitingWhole, BodiesFillCores, SplitPartsApart, Pinned, Queued
<1> QED BY <1>2, <1>3, ApartAssignWhole, ApartAssignSplit DEF Next

(* Task_split and get_min_core: the body and the tail of a split task,     *)
(* which run one after the other, are never pinned to the same core; and   *)
(* neither are a tail that is split in turn and the tail that is left.     *)
THEOREM SplitPartsStayApart == Spec => []SplitPartsApart
<1>1. Init => PlacementInv /\ HandleInv /\ AssignedInv /\ ApartInv
  <2>1. Init => PlacementInv /\ HandleInv /\ curr_idx <= NUM_OF_TASK
    BY PlacementInit, HandleInit, ConstantFacts DEF Init
  <2> QED BY <2>1, ApartUnsplit, AssignedInit
<1>2. PlacementInv /\ HandleInv /\ AssignedInv /\ ApartInv /\ [Next]_vars
        => (PlacementInv /\ HandleInv /\ AssignedInv /\ ApartInv)'
  BY PlacementStep, HandleStep, AssignedStep, ApartStep
<1>3. ApartInv => SplitPartsApart
  BY DEF ApartInv
<1> QED BY <1>1, <1>2, <1>3, PTL DEF Spec

----------------------------------------------------------------------------
(* On two cores an admissible set is placed.                               *)

(* A sum of naturals is at least each of its terms. *)
LEMMA PrefixSumTerm ==
    ASSUME NEW f, NEW n \in Nat, NEW j \in 0 .. n - 1, \A k \in 0 .. n - 1 : f[k] \in Nat
    PROVE  PrefixSum(f, n) >= f[j] /\ PrefixSum(f, n) \in Nat
<1> DEFINE g == [k \in 0 .. n - 1 |-> IF k = j THEN 0 ELSE f[k]]
<1>1. /\ \A k \in 0 .. n - 1 : f[k] \in Nat /\ g[k] \in Nat
      /\ \A k \in 0 .. n - 1 : k # j => g[k] = f[k]
      /\ g[j] = 0
  OBVIOUS
<1> HIDE DEF g
<1>2. PrefixSum(g, n) = PrefixSum(f, n) - f[j] + g[j]
  BY <1>1, PrefixSumUpdate
<1>3. PrefixSum(f, n) \in Nat /\ PrefixSum(g, n) \in Nat
  BY <1>1, PrefixSumNat
<1> QED BY <1>1, <1>2, <1>3

LEMMA PrefixSumUpdateTwo ==
    ASSUME NEW f, NEW g, NEW n \in Nat, NEW p \in 0 .. n - 1, NEW q \in 0 .. n - 1, p # q,
           \A k \in 0 .. n - 1 : f[k] \in Nat /\ g[k] \in Nat,
           \A k \in 0 .. n - 1 : k # p /\ k # q => g[k] = f[k]
    PROVE  PrefixSum(g, n) = PrefixSum(f, n) - f[p] + g[p] - f[q] + g[q]
<1> DEFINE h == [k \in 0 .. n - 1 |-> IF k = p THEN g[p] ELSE f[k]]
<1>1. /\ \A k \in 0 .. n - 1 : h[k] \in Nat
      /\ \A k \in 0 .. n - 1 : k # p => h[k] = f[k]
      /\ \A k \in 0 .. n - 1 : k # q => g[k] = h[k]
      /\ h[p] = g[p] /\ h[q] = f[q]
  OBVIOUS
<1> HIDE DEF h
<1>2. PrefixSum(h, n) = PrefixSum(f, n) - f[p] + h[p]
  BY <1>1, PrefixSumUpdate
<1>3. PrefixSum(g, n) = PrefixSum(h, n) - h[q] + g[q]
  BY <1>1, PrefixSumUpdate
<1>4. /\ PrefixSum(f, n) \in Nat /\ PrefixSum(h, n) \in Nat
      /\ f[p] \in Nat /\ f[q] \in Nat /\ g[p] \in Nat /\ g[q] \in Nat
  BY <1>1, PrefixSumNat
<1> QED BY <1>1, <1>2, <1>3, <1>4

PiecesTyped == Unassigned \in [Slots -> Nat] /\ Load \in [Cores -> Nat]

LEMMA UnassignedTyped == PlacementInv => PiecesTyped
<1> SUFFICES ASSUME PlacementInv PROVE Unassigned \in [Slots -> Nat] /\ Load \in [Cores -> Nat]
  BY DEF PiecesTyped
<1>1. /\ table \in [0 .. NUM_OF_TASK - 1 -> Rows] /\ task_list \in [Slots -> TaskInfos]
      /\ core_list \in CoreTables
  BY DEF PlacementInv, TypeOK
<1>2. \A s \in Slots : s < NUM_OF_TASK => UtilizationOf(table[s]) \in Nat
  BY <1>1, RowPositive, ConstantFacts
<1>3. \A s \in Slots : task_list[s].Utilization \in Nat
  BY <1>1 DEF TaskInfos
<1> QED BY <1>1, <1>2, <1>3 DEF Unassigned, Load, CoreTables

(* What waits and what is on the cores is the utilization of the table. *)
Conserved ==
    PrefixSum(Unassigned, MAX_NUM_TASKS) + PrefixSum(Load, configNUMBER_OF_CORES) = Total

LEMMA ConservedInit == ASSUME TwoCores PROVE Init => Conserved
<1> SUFFICES ASSUME Init PROVE Conserved
  OBVIOUS
<1> USE ConstantFacts
<1> DEFINE f == [t \in 0 .. NUM_OF_TASK - 1 |-> UtilizationOf(table[t])]
<1>1. PlacementInv /\ pc = "boot"
  BY PlacementInit DEF Init
<1>2. table \in [0 .. NUM_OF_TASK - 1 -> Rows] /\ \A t \in 0 .. NUM_OF_TASK - 1 : f[t] \in Nat
  BY <1>1, RowPositive DEF PlacementInv, TypeOK
<1>3. \A s \in Slots : assigned[s] = NULL
  BY DEF Init
<1>4. \A t \in 0 .. NUM_OF_TASK - 1 : Unassigned[t] = f[t]
  BY <1>1, <1>3 DEF Unassigned
<1>5. Unassigned[NUM_OF_TASK] = 0
  <2>1. NUM_OF_TASK \in Slots /\ ~ (NUM_OF_TASK < NUM_OF_TASK)
    BY TailSlot
  <2>2. task_list[NUM_OF_TASK].Utilization = 0
    BY <2>1 DEF Init, ExtraRow, Row
  <2> QED BY <1>3, <2>1, <2>2 DEF Unassigned
<1>6. PrefixSum(Load, configNUMBER_OF_CORES) = 0
  <2>1. \A c \in 0 .. configNUMBER_OF_CORES - 1 : Load[c] = 0
    BY DEF Init, Load
  <2>2. \A c \in 0 .. configNUMBER_OF_CORES - 1 : Load[c] \in Nat
    BY <2>1
  <2> QED BY <2>1, <2>2, PrefixSumNat
<1> HIDE DEF f
<1>7. PrefixSum(Unassigned, NUM_OF_TASK) = PrefixSum(f, NUM_OF_TASK)
  BY <1>4, PrefixSumSame
<1>8. PrefixSum(Unassigned, NUM_OF_TASK + 1) = PrefixSum(Unassigned, NUM_OF_TASK) + Unassigned[NUM_OF_TASK]
  BY PrefixSumUnfold
<1>9. PrefixSum(f, NUM_OF_TASK) \in Nat
  BY <1>2, PrefixSumNat
<1>10. MAX_NUM_TASKS = NUM_OF_TASK + 1
  BY TailSlot
<1> QED BY <1>5, <1>6, <1>7, <1>8, <1>9, <1>10 DEF Conserved, Total, f

LEMMA ConservedStep ==
    ASSUME PlacementInv, AssignedInv, PieceInv, Conserved, [Next]_vars PROVE Conserved'
<1>1. /\ Unassigned \in [Slots -> Nat] /\ Load \in [Cores -> Nat]
      /\ Unassigned' \in [Slots -> Nat] /\ Load' \in [Cores -> Nat]
  <2>1. PlacementInv' => PiecesTyped'
    BY UnassignedTyped, PTL
  <2> QED BY <2>1, UnassignedTyped, PlacementStep DEF PiecesTyped
<1>2. [Promise!PlacementNext]_<<Unassigned, Load>>
  BY PiecesMove
<1>3. Total' = Total
  <2>1. UNCHANGED table
    BY DEF Next, Boot, InitTask, InitQueues, PreAssign, PreAssignNull, Queue, PreAssignDone,
           AssignWhole, AssignSplit, ReportFull, NormalAssignUndefined, StartScheduler,
           Finished, vars
  <2> QED BY <2>1 DEF Total
<1>4. PICK f \in [Slots -> Nat], g \in [Slots -> Nat] : f = Unassigned /\ g = Unassigned'
  BY <1>1
<1>5. PICK x \in [Cores -> Nat], y \in [Cores -> Nat] : x = Load /\ y = Load'
  BY <1>1
<1>6. PICK n \in Nat, m \in Nat : /\ n = MAX_NUM_TASKS /\ Slots = 0 .. n - 1
                                  /\ m = configNUMBER_OF_CORES /\ Cores = 0 .. m - 1
  BY ConstantFacts
<1>7. /\ \A k \in 0 .. n - 1 : f[k] \in Nat /\ g[k] \in Nat
      /\ \A k \in 0 .. m - 1 : x[k] \in Nat /\ y[k] \in Nat
  BY <1>6
<1>8. PICK a \in Nat, b \in Nat : a = PrefixSum(f, n) /\ b = PrefixSum(x, m)
  BY <1>7, PrefixSumNat
<1>9. PrefixSum(g, n) + PrefixSum(y, m) = a + b
  <2>1. CASE UNCHANGED <<Unassigned, Load>>
    BY <1>4, <1>5, <1>8, <2>1
  <2>2. CASE Promise!PlacementNext
    <3>1. PICK p \in Slots, c \in Cores :
              \/ Promise!Place(p, c)
              \/ Promise!Dedicate(p, c)
              \/ \E q \in Slots \ {p} : Promise!Split(p, q, c)
      BY <2>2 DEF Promise!PlacementNext
    <3>2. PICK u \in Nat, v \in Nat : u = f[p] /\ v = x[c]
      OBVIOUS
    <3>3. p \in 0 .. n - 1 /\ c \in 0 .. m - 1
      BY <1>6
    <3>4. CASE Promise!Place(p, c) \/ Promise!Dedicate(p, c)
      <4>1. g = [f EXCEPT ![p] = 0] /\ y = [x EXCEPT ![c] = v + u]
        <5>1. CASE Promise!Place(p, c)
          BY <1>4, <1>5, <3>2, <5>1 DEF Promise!Place, Load
        <5>2. CASE Promise!Dedicate(p, c)
          <6>1. g = [f EXCEPT ![p] = 0] /\ y = [x EXCEPT ![c] = u] /\ v = 0
            BY <1>4, <1>5, <3>2, <5>2 DEF Promise!Dedicate, Load
          <6> QED BY <6>1
        <5> QED BY <3>4, <5>1, <5>2
      <4>2. /\ g[p] = 0 /\ \A k \in 0 .. n - 1 : k # p => g[k] = f[k]
            /\ y[c] = v + u /\ \A k \in 0 .. m - 1 : k # c => y[k] = x[k]
        BY <1>6, <4>1
      <4>3. PrefixSum(g, n) = PrefixSum(f, n) - f[p] + g[p]
        <5>1. n \in Nat /\ p \in 0 .. n - 1
          BY <1>6, <3>3
        <5>2. \A k \in 0 .. n - 1 : f[k] \in Nat /\ g[k] \in Nat
          BY <1>7
        <5>3. \A k \in 0 .. n - 1 : k # p => g[k] = f[k]
          BY <4>2
        <5> QED BY ONLY <5>1, <5>2, <5>3, PrefixSumUpdate
      <4>4. PrefixSum(y, m) = PrefixSum(x, m) - x[c] + y[c]
        <5>1. m \in Nat /\ c \in 0 .. m - 1
          BY <1>6, <3>3
        <5>2. \A k \in 0 .. m - 1 : x[k] \in Nat /\ y[k] \in Nat
          BY <1>7
        <5>3. \A k \in 0 .. m - 1 : k # c => y[k] = x[k]
          BY <4>2
        <5> QED BY ONLY <5>1, <5>2, <5>3, PrefixSumUpdate
      <4>5. PrefixSum(g, n) = a - u + 0 /\ PrefixSum(y, m) = b - v + (v + u)
        BY <1>8, <3>2, <4>2, <4>3, <4>4
      <4> QED BY <4>5
    <3>5. CASE \E q \in Slots \ {p} : Promise!Split(p, q, c)
      <4>1. PICK q \in Slots \ {p} : Promise!Split(p, q, c)
        BY <3>5
      <4>2. PICK B \in Nat : B = Utilization_Bound
        BY ConstantFacts
      <4>3. /\ f[q] = 0
            /\ y = [x EXCEPT ![c] = B]
            /\ g = [f EXCEPT ![p] = 0, ![q] = u - (B - v)]
        BY <1>4, <1>5, <3>2, <4>1, <4>2 DEF Promise!Split, Load
      <4>4. /\ g[p] = 0 /\ g[q] = u - (B - v)
            /\ \A k \in 0 .. n - 1 : k # p /\ k # q => g[k] = f[k]
            /\ y[c] = B /\ \A k \in 0 .. m - 1 : k # c => y[k] = x[k]
            /\ q \in 0 .. n - 1 /\ p # q
        BY <1>6, <4>3
      <4>5. PrefixSum(g, n) = PrefixSum(f, n) - f[p] + g[p] - f[q] + g[q]
        <5>1. n \in Nat /\ p \in 0 .. n - 1 /\ q \in 0 .. n - 1 /\ p # q
          BY <1>6, <3>3, <4>4
        <5>2. \A k \in 0 .. n - 1 : f[k] \in Nat /\ g[k] \in Nat
          BY <1>7
        <5>3. \A k \in 0 .. n - 1 : k # p /\ k # q => g[k] = f[k]
          BY <4>4
        <5> QED BY ONLY <5>1, <5>2, <5>3, PrefixSumUpdateTwo
      <4>6. PrefixSum(y, m) = PrefixSum(x, m) - x[c] + y[c]
        <5>1. m \in Nat /\ c \in 0 .. m - 1
          BY <1>6, <3>3
        <5>2. \A k \in 0 .. m - 1 : x[k] \in Nat /\ y[k] \in Nat
          BY <1>7
        <5>3. \A k \in 0 .. m - 1 : k # c => y[k] = x[k]
          BY <4>4
        <5> QED BY ONLY <5>1, <5>2, <5>3, PrefixSumUpdate
      <4>7. PrefixSum(g, n) = a - u + 0 - 0 + (u - (B - v)) /\ PrefixSum(y, m) = b - v + B
        BY <1>8, <3>2, <4>3, <4>4, <4>5, <4>6
      <4> QED BY <4>7
    <3> QED BY <3>1, <3>4, <3>5
  <2> QED BY <1>2, <2>1, <2>2
<1> QED BY <1>3, <1>4, <1>5, <1>6, <1>8, <1>9 DEF Conserved

(* NORMAL-ASSIGN on an admissible set: the task popped still fits what the *)
(* two cores have left.                                                    *)
LEMMA RoomLeft ==
    ASSUME TwoCores, Admissible, PlacementInv, AssignedInv, PieceInv, Conserved, InNormalAssign
    PROVE  LET u == task_list[Top(UQ)].Utilization IN
           /\ u \in Nat /\ u > 0
           /\ core_list[0].Utilization \in Nat /\ core_list[1].Utilization \in Nat
           /\ core_list[0].Utilization + core_list[1].Utilization + u <= 2 * Utilization_Bound
<1> USE ConstantFacts
<1>1. PICK T \in Slots : T = Top(UQ) /\ T = UQ.list[UQ.top] /\ T \in Queued
  BY IterationTyped DEF Queued
<1>2. pc = "normal_assign" /\ Placing /\ UQ.top \in 0 .. UQ.top
  BY IterationTyped DEF InNormalAssign, Placing
<1>3. PICK u \in Nat : u = task_list[T].Utilization
  BY DEF PlacementInv, TypeOK, TaskInfos
<1>4. u > 0 /\ assigned[T] = NULL
  BY <1>1, <1>2, <1>3 DEF PieceInv, WaitingPositive, AssignedInv, WaitingUnassigned
<1>5. Unassigned[T] = u
  BY <1>2, <1>3, <1>4 DEF Unassigned
<1>6. PICK f \in [Slots -> Nat], x \in [Cores -> Nat] : f = Unassigned /\ x = Load
  BY UnassignedTyped DEF PiecesTyped
<1>7. PrefixSum(f, MAX_NUM_TASKS) >= u /\ PrefixSum(f, MAX_NUM_TASKS) \in Nat
  <2>1. MAX_NUM_TASKS \in Nat /\ T \in 0 .. MAX_NUM_TASKS - 1
        /\ \A k \in 0 .. MAX_NUM_TASKS - 1 : f[k] \in Nat
    BY <1>6
  <2>2. PrefixSum(f, MAX_NUM_TASKS) >= f[T] /\ PrefixSum(f, MAX_NUM_TASKS) \in Nat
    BY ONLY <2>1, PrefixSumTerm
  <2> QED BY <1>5, <1>6, <2>2
<1>8. 0 \in Cores /\ 1 \in Cores
  BY DEF TwoCores
<1>9. x[0] \in Nat /\ x[1] \in Nat /\ x[0] = core_list[0].Utilization /\ x[1] = core_list[1].Utilization
  BY <1>6, <1>8 DEF Load
<1>10. PrefixSum(x, 2) = x[0] + x[1]
  <2>1. /\ PrefixSum(x, 0) = 0
        /\ PrefixSum(x, 0 + 1) = PrefixSum(x, 0) + x[0]
        /\ PrefixSum(x, 1 + 1) = PrefixSum(x, 1) + x[1]
    BY ONLY PrefixSumUnfold
  <2> QED BY <1>9, <2>1
<1>11. PrefixSum(f, MAX_NUM_TASKS) + PrefixSum(x, 2) <= 2 * Utilization_Bound
  BY <1>6 DEF Conserved, Admissible, TwoCores
<1>12. PICK a \in Nat, p \in Nat, q \in Nat, B \in Nat :
           /\ a = PrefixSum(f, MAX_NUM_TASKS) /\ B = Utilization_Bound
           /\ p = core_list[0].Utilization /\ q = core_list[1].Utilization
           /\ x[0] = p /\ x[1] = q
  BY <1>7, <1>9
<1>13. a >= u /\ a + (p + q) <= 2 * B
  BY <1>7, <1>10, <1>11, <1>12
<1>14. p + q + u <= 2 * B
  BY ONLY <1>13, a \in Nat, p \in Nat, q \in Nat, B \in Nat, u \in Nat
<1> QED BY <1>1, <1>3, <1>4, <1>12, <1>14

----------------------------------------------------------------------------
(* Every task is pinned before the scheduler starts, unless the boot has   *)
(* given up.                                                               *)

(* Nothing is forgotten but what has been given a core. *)
AssignedOrWaiting ==
    Placing => \A s \in 0 .. curr_idx - 1 : assigned[s] # NULL \/ Waiting(s)

PinnedInv ==
    /\ AssignedOrWaiting
    /\ pc = "started" /\ ~ full => \A s \in Created : assigned[s] # NULL

LEMMA CreatedPinned ==
    ASSUME PlacementInv, AssignedInv, NEW s \in Created, assigned[s] # NULL
    PROVE  Pinned(s)
<1>1. assigned[s] \in Cores /\ task_list[s].my_ptr # NULL /\ s \in Slots
  BY DEF PlacementInv, TypeOK, Created
<1> QED BY <1>1 DEF AssignedInv, MasksMatch, Mask, Pinned

LEMMA PinnedInit == Init => PinnedInv
  BY DEF Init, PinnedInv, AssignedOrWaiting, Placing

(* Who waits no longer has been pinned. *)
LEMMA NoLongerWaiting ==
    ASSUME PlacementInv, QueueHasRoom, PreAssign \/ Queue \/ PreAssignDone \/ AssignWhole \/ AssignSplit,
           NEW s \in Slots, s < curr_idx, Waiting(s), ~ Waiting(s)'
    PROVE  assigned'[s] # NULL
<1> USE ConstantFacts
<1>1. i \in Nat /\ i \in 0 .. NUM_OF_TASK /\ curr_idx \in Nat
  BY DEF PlacementInv, TypeOK
<1>2. CASE PreAssign
  <2>1. /\ pc = "pre_assign" /\ pc' = pc /\ i' = i + 1 /\ UNCHANGED UQ
        /\ core_manager.top \in Cores /\ assigned' = [assigned EXCEPT ![i] = core_manager.top]
    BY <1>2, PreAssignEffect DEF PreAssign
  <2>2. s >= i /\ ~ (s >= i')
    BY <2>1 DEF Waiting, Queued
  <2>3. s = i
    BY <1>1, <2>1, <2>2
  <2> QED BY <2>1, <2>3 DEF PlacementInv, TypeOK
<1>3. CASE Queue
  <2>1. /\ pc = "pre_assign" /\ pc' = pc /\ i \in 0 .. NUM_OF_TASK - 1 /\ i' = i + 1
    BY <1>1, <1>3 DEF Queue
  <2>2. UQ' = Push_task(i, UQ)
    BY <1>3, <2>1 DEF Queue, PlacementInv, ManagerInOrder
  <2>3. UQ \in TaskStacks /\ UQ.top \in Int /\ UQ.top < i
    BY <2>1 DEF QueueHasRoom, PlacementInv, TypeOK, TaskStacks
  <2>4. UQ.top < MAX_NUM_TASKS - 1 /\ i \in Slots
    BY <2>1, <2>3
  <2>5. i \in Queued' /\ Queued \subseteq Queued'
    BY <2>2, <2>3, <2>4, PushedQueue DEF Queued
  <2>6. s >= i => s = i \/ s >= i'
    BY <1>1, <2>1
  <2> QED BY <2>1, <2>5, <2>6 DEF Waiting
<1>4. CASE PreAssignDone
  <2>1. pc = "pre_assign" /\ i = NUM_OF_TASK /\ UNCHANGED UQ
    BY <1>4 DEF PreAssignDone
  <2>2. curr_idx = NUM_OF_TASK
    BY <2>1 DEF PlacementInv, QueueInOrder, Placing
  <2>3. ~ (s >= i)
    BY <2>1, <2>2
  <2> QED BY <2>1, <2>3 DEF Waiting, Queued
<1>5. CASE AssignWhole
  <2>1. InNormalAssign /\ CoreIsUsable /\ pc = "normal_assign" /\ UQ' = Popped(UQ)
    BY <1>5 DEF AssignWhole, InNormalAssign
  <2>2. PICK T \in Slots, C \in Cores : T = Top(UQ) /\ C = SelectedCore
    BY <2>1, IterationTyped
  <2>3. assigned' = [assigned EXCEPT ![T] = C]
    BY <1>5, <2>2 DEF AssignWhole
  <2>4. assigned'[T] # NULL
    BY <2>3 DEF PlacementInv, TypeOK
  <2>5. \A q \in Queued : q = Top(UQ) \/ q \in Queued'
    <3>1. UQ'.list = UQ.list /\ UQ'.top = UQ.top - 1
      BY <2>1, PoppedQueue
    <3>2. Queued' = {UQ.list[k] : k \in 0 .. UQ.top - 1}
      BY <3>1 DEF Queued
    <3>3. \A q \in Queued : q = Top(UQ) \/ \E k \in 0 .. UQ.top - 1 : q = UQ.list[k]
      BY <2>1, PoppedQueue
    <3> QED BY <3>2, <3>3
  <2> QED BY <2>1, <2>2, <2>4, <2>5 DEF Waiting
<1>6. CASE AssignSplit
  <2>1. /\ pc = "normal_assign" /\ SelectedCore \in Cores /\ Top(UQ) \in Slots
        /\ assigned' = [assigned EXCEPT ![Top(UQ)] = SelectedCore]
    BY <1>6, SplitContext, SplitPlacement
  <2>2. \A q \in Queued : q = Top(UQ) \/ q \in Queued'
    BY <1>6, TailQueued
  <2> QED BY <2>1, <2>2 DEF Waiting, PlacementInv, TypeOK
<1> QED BY <1>2, <1>3, <1>4, <1>5, <1>6

(* Nobody loses its core. *)
LEMMA AssignedStays ==
    ASSUME PlacementInv, PreAssign \/ Queue \/ PreAssignDone \/ AssignWhole \/ AssignSplit,
           NEW s \in Slots, assigned[s] # NULL
    PROVE  assigned'[s] # NULL
<1>1. CASE Queue \/ PreAssignDone
  BY <1>1 DEF Queue, PreAssignDone
<1>2. CASE PreAssign \/ AssignWhole \/ AssignSplit
  <2>1. \E T \in Slots, C \in Cores : assigned' = [assigned EXCEPT ![T] = C]
    <3>1. CASE PreAssign
      BY <3>1, PreAssignEffect
    <3>2. CASE AssignWhole
      <4>1. Top(UQ) \in Slots /\ SelectedCore \in Cores
        BY <3>2, IterationTyped DEF AssignWhole
      <4> QED BY <3>2, <4>1 DEF AssignWhole
    <3>3. CASE AssignSplit
      BY <3>3, SplitContext, SplitPlacement
    <3> QED BY <1>2, <3>1, <3>2, <3>3
  <2> QED BY <2>1, ConstantFacts DEF PlacementInv, TypeOK
<1> QED BY <1>1, <1>2

LEMMA PinnedStep ==
    ASSUME PlacementInv, HandleInv, QueueHasRoom, PinnedInv, [Next]_vars PROVE PinnedInv'
<1> USE ConstantFacts
<1>1. CASE Finished \/ UNCHANGED vars
  BY <1>1 DEF Finished, vars, PinnedInv, AssignedOrWaiting, Placing, Waiting, Queued, Created
<1>2. CASE Boot \/ InitTask \/ PreAssignNull \/ ReportFull \/ NormalAssignUndefined
  <2>1. ~ Placing' /\ (pc' = "started" => full')
    BY <1>2 DEF Boot, InitTask, PreAssignNull, ReportFull, NormalAssignUndefined, Placing
  <2> QED BY <2>1 DEF PinnedInv, AssignedOrWaiting
<1>3. CASE InitQueues
  <2>1. pc' = "pre_assign" /\ i' = 0 /\ curr_idx' = NUM_OF_TASK
    BY <1>3 DEF InitQueues
  <2> QED BY <2>1 DEF PinnedInv, AssignedOrWaiting, Waiting
<1>4. CASE PreAssign \/ Queue \/ PreAssignDone \/ AssignWhole \/ AssignSplit
  <2>1. Placing /\ Placing' /\ pc' # "started" /\ curr_idx \in Nat
    <3>1. curr_idx \in Nat
      BY DEF PlacementInv, TypeOK
    <3>2. pc \in {"pre_assign", "normal_assign"} /\ pc' \in {"pre_assign", "normal_assign"}
      <4>1. CASE PreAssign \/ Queue \/ PreAssignDone
        BY <4>1 DEF PreAssign, Queue, PreAssignDone
      <4>2. CASE AssignWhole \/ AssignSplit
        BY <4>2 DEF AssignWhole, AssignSplit, InNormalAssign
      <4> QED BY <1>4, <4>1, <4>2
    <3> QED BY <3>1, <3>2 DEF Placing
  <2>2. ASSUME NEW s \in Slots, s < curr_idx PROVE assigned'[s] # NULL \/ Waiting(s)'
    <3>1. assigned[s] # NULL \/ Waiting(s)
      BY <2>1, <2>2 DEF PinnedInv, AssignedOrWaiting
    <3>2. assigned[s] # NULL => assigned'[s] # NULL
      BY <1>4, AssignedStays
    <3> QED BY <1>4, <2>2, <3>1, <3>2, NoLongerWaiting
  <2>3. CASE ~ AssignSplit
    <3>1. UNCHANGED curr_idx /\ curr_idx \in 0 .. MAX_NUM_TASKS
      BY <1>4, <2>3 DEF PreAssign, Queue, PreAssignDone, AssignWhole, PlacementInv, TypeOK
    <3>2. \A s \in 0 .. curr_idx' - 1 : s \in Slots /\ s < curr_idx
      BY <3>1
    <3> QED BY <2>1, <2>2, <3>2 DEF PinnedInv, AssignedOrWaiting
  <2>4. CASE AssignSplit
    <3>1. curr_idx' = curr_idx + 1 /\ curr_idx \in Slots /\ curr_idx \in Queued'
      BY <2>4, SplitContext, TailQueued DEF AssignSplit
    <3>2. \A s \in 0 .. curr_idx' - 1 : s = curr_idx \/ (s \in Slots /\ s < curr_idx)
      BY <3>1
    <3> QED BY <2>1, <2>2, <3>1, <3>2 DEF PinnedInv, AssignedOrWaiting, Waiting
  <2> QED BY <2>3, <2>4
<1>5. CASE StartScheduler
  <2>1. /\ pc = "normal_assign" /\ pc' = "started" /\ is_empty(UQ) /\ Placing /\ ~ Placing'
        /\ UNCHANGED <<task_list, assigned, curr_idx, full>>
    BY <1>5 DEF StartScheduler, Placing
  <2>2. Queued = {}
    <3>1. UQ.top \in Int /\ UQ.top < 0
      BY <2>1 DEF PlacementInv, TypeOK, TaskStacks, is_empty
    <3> QED BY <3>1 DEF Queued
  <2>3. ASSUME NEW s \in Created PROVE assigned[s] # NULL
    <3>1. s \in Slots /\ curr_idx \in Nat /\ curr_idx >= NUM_OF_TASK
      BY <2>1 DEF Created, PlacementInv, TypeOK, QueueInOrder
    <3>2. ~ (s >= NUM_OF_TASK /\ s >= curr_idx)
      BY <2>1, <3>1 DEF HandleInv
    <3>3. s \in 0 .. curr_idx - 1
      BY <3>1, <3>2
    <3> QED BY <2>1, <2>2, <3>3 DEF PinnedInv, AssignedOrWaiting, Waiting
  <2>4. Created' = Created
    BY <2>1 DEF Created
  <2> QED BY <2>1, <2>3, <2>4 DEF PinnedInv, AssignedOrWaiting
<1> QED BY <1>1, <1>2, <1>3, <1>4, <1>5 DEF Next

----------------------------------------------------------------------------
(* On two cores every admissible set is placed.                            *)

(* The heap serves every task, and the tail that is still to be made. *)
EveryHandle ==
    /\ pc = "boot" => heap >= NUM_OF_TASK + 2
    /\ pc = "init_task" => /\ heap >= NUM_OF_TASK + 1 - i
                           /\ \A s \in 0 .. i - 1 : task_list[s].my_ptr # NULL
    /\ Placing => /\ curr_idx = NUM_OF_TASK => heap >= 1
                  /\ \A s \in 0 .. curr_idx - 1 : task_list[s].my_ptr # NULL

(* A task is heavy only because of its utilization. *)
HeavyMeasured ==
    Booting \/ pc = "pre_assign" =>
        \A s \in 0 .. NUM_OF_TASK - 1 :
            task_list[s].Heavy => ExceedsLightBound(UtilizationOf(table[s]))

(* Core 0 stays with core_manager, core 1 is in one of the two stacks. *)
CoresDivided ==
    /\ Booting => \A c \in Cores : ~ core_list[c].pre_assigned
    /\ pc = "init_task" => core_manager.top = 1
    /\ Placing => /\ core_manager.top \in {0, 1}
                  /\ pre_assigned_core.top = 0 - core_manager.top
                  /\ pre_assigned_core.top = 0 => pre_assigned_core.list[0] = 1
                  /\ \A c \in Cores : core_list[c].pre_assigned <=> c > core_manager.top

(* A split has filled a core. *)
SplitFilledCore ==
    Placing /\ curr_idx > NUM_OF_TASK =>
        \E c \in Cores : core_list[c].Utilization >= Utilization_Bound

Accepted == pc # "undefined" /\ ~ full

AdmitInv ==
    /\ Conserved
    /\ EveryHandle
    /\ HeavyMeasured
    /\ CoresDivided
    /\ SplitFilledCore
    /\ Accepted

BootInv ==
    PlacementInv /\ HandleInv /\ AssignedInv /\ PieceInv /\ QueueHasRoom /\ PinnedInv

LEMMA AdmitInit == ASSUME TwoCores PROVE Init /\ Admissible => AdmitInv
<1> SUFFICES ASSUME Init, Admissible PROVE AdmitInv
  OBVIOUS
<1>1. pc = "boot" /\ heap = heap_size /\ full = FALSE
  BY DEF Init
<1>2. heap >= NUM_OF_TASK + 2
  BY <1>1 DEF Admissible, TwoCores
<1>3. \A s \in Slots : ~ task_list[s].Heavy
  BY DEF Init, Row, ExtraRow
<1>4. \A c \in Cores : ~ core_list[c].pre_assigned
  BY DEF Init
<1> QED
  BY <1>1, <1>2, <1>3, <1>4, ConservedInit, ConstantFacts
     DEF AdmitInv, EveryHandle, HeavyMeasured, CoresDivided, SplitFilledCore, Accepted, Placing

LEMMA AdmitBoot ==
    ASSUME TwoCores, BootInv, AdmitInv, Conserved', Boot PROVE AdmitInv'
<1> USE ConstantFacts
<1>1. /\ pc = "boot" /\ pc' = "init_task" /\ i = 0 /\ i' = 0 /\ core_manager' = AllCores
      /\ UNCHANGED <<task_list, table, core_list, full>>
      /\ heap' = HeapAfterCreate
  BY DEF Boot, BootInv, PlacementInv, ManagerInOrder
<1>2. heap \in Nat /\ heap >= NUM_OF_TASK + 2
  BY <1>1 DEF AdmitInv, EveryHandle, BootInv, PlacementInv, TypeOK
<1>3. heap' >= NUM_OF_TASK + 1 - i'
  BY <1>1, <1>2 DEF HeapAfterCreate
<1>4. EveryHandle'
  BY <1>1, <1>3 DEF EveryHandle, Placing
<1>5. core_manager'.top = 1
  BY <1>1 DEF AllCores, TwoCores
<1>6. CoresDivided'
  BY <1>1, <1>5 DEF AdmitInv, CoresDivided, Placing, Booting
<1>7. HeavyMeasured' /\ SplitFilledCore' /\ Accepted'
  BY <1>1 DEF AdmitInv, HeavyMeasured, SplitFilledCore, Accepted, Placing, Booting
<1> QED BY <1>4, <1>6, <1>7 DEF AdmitInv

LEMMA AdmitInitTask ==
    ASSUME TwoCores, BootInv, AdmitInv, Conserved', InitTask PROVE AdmitInv'
<1> USE ConstantFacts
<1>1. /\ pc = "init_task" /\ i \in 0 .. NUM_OF_TASK - 1 /\ i \in Slots
      /\ \A s \in Slots : s # i => task_list'[s] = task_list[s]
      /\ task_list'[i].Heavy => \/ task_list[i].Heavy
                                \/ ExceedsLightBound(UtilizationOf(task_list[i]))
      /\ task_list'[i].my_ptr = IF heap > 0 THEN i ELSE task_list[i].my_ptr
  BY InitTaskEffect DEF BootInv
<1>2. /\ pc' = "init_task" /\ i' = i + 1 /\ heap' = HeapAfterCreate
      /\ UNCHANGED <<table, core_list, core_manager, full>>
  BY <1>1 DEF InitTask
<1>3. heap \in Nat /\ heap >= NUM_OF_TASK + 1 - i
  BY <1>1 DEF AdmitInv, EveryHandle, BootInv, PlacementInv, TypeOK
<1>4. heap > 0 /\ heap' >= NUM_OF_TASK + 1 - i'
  BY <1>1, <1>2, <1>3 DEF HeapAfterCreate
<1>5. EveryHandle'
  <2>1. \A s \in 0 .. i : s \in Slots /\ (s # i => s \in 0 .. i - 1)
    BY <1>1
  <2>2. \A s \in 0 .. i : task_list'[s].my_ptr # NULL
    BY <1>1, <1>4, <2>1 DEF AdmitInv, EveryHandle
  <2>3. i' - 1 = i
    BY <1>1, <1>2
  <2> QED BY <1>2, <1>4, <2>2, <2>3 DEF EveryHandle, Placing
<1>6. HeavyMeasured'
  <2>1. UtilizationOf(task_list[i]) = UtilizationOf(table[i])
    BY <1>1 DEF BootInv, PieceInv, Measured, Booting, PlacementInv, PeriodsKept, UtilizationOf
  <2>2. \A s \in 0 .. NUM_OF_TASK - 1 :
            task_list'[s].Heavy => ExceedsLightBound(UtilizationOf(table[s]))
    BY <1>1, <2>1 DEF AdmitInv, HeavyMeasured, Booting
  <2> QED BY <1>2, <2>2 DEF HeavyMeasured
<1>7. CoresDivided' /\ SplitFilledCore' /\ Accepted'
  BY <1>1, <1>2 DEF AdmitInv, CoresDivided, SplitFilledCore, Accepted, Placing, Booting
<1> QED BY <1>5, <1>6, <1>7 DEF AdmitInv

LEMMA AdmitInitQueues ==
    ASSUME TwoCores, BootInv, AdmitInv, Conserved', InitQueues PROVE AdmitInv'
<1> USE ConstantFacts
<1>1. /\ pc = "init_task" /\ pc' = "pre_assign" /\ i = NUM_OF_TASK /\ i' = 0
      /\ curr_idx' = NUM_OF_TASK
      /\ UNCHANGED <<table, task_list, core_list, core_manager, heap, full>>
      /\ pre_assigned_core' = init_stack(pre_assigned_core)
  BY DEF InitQueues
<1>2. EveryHandle'
  BY <1>1 DEF AdmitInv, EveryHandle, Placing
<1>3. HeavyMeasured'
  BY <1>1 DEF AdmitInv, HeavyMeasured, Booting
<1>4. CoresDivided'
  <2>1. pre_assigned_core'.top = -1
    BY <1>1, ResetTyped DEF BootInv, PlacementInv, TypeOK
  <2>2. core_manager.top = 1 /\ \A c \in Cores : ~ core_list[c].pre_assigned /\ ~ (c > 1)
    BY <1>1 DEF AdmitInv, CoresDivided, Booting, TwoCores
  <2> QED BY <1>1, <2>1, <2>2 DEF CoresDivided, Booting
<1>5. SplitFilledCore' /\ Accepted'
  BY <1>1 DEF AdmitInv, SplitFilledCore, Accepted
<1> QED BY <1>2, <1>3, <1>4, <1>5 DEF AdmitInv

----------------------------------------------------------------------------
(* The core NORMAL-ASSIGN chooses on two cores: a normal one with room, or *)
(* core 1 as the pre-assigned one. The stacks stay as they are.            *)
LEMMA ChosenCore ==
    ASSUME TwoCores, PlacementInv, CoresDivided, InNormalAssign
    PROVE  /\ ~ is_empty(core_manager)
           /\ core_manager.top \in {0, 1}
           /\ MinCoreIsFull =>
                /\ \A c \in 0 .. core_manager.top : core_list[c].Utilization >= Utilization_Bound
                /\ core_manager.top = 0 => SelectedCore = 1
                /\ core_manager.top = 1 => SelectedCore = NULL
           /\ ~ MinCoreIsFull =>
                /\ SelectedCore \in 0 .. core_manager.top
                /\ core_list[SelectedCore].Utilization < Utilization_Bound
           /\ core_manager.top = 0 \/ ~ MinCoreIsFull =>
                /\ AfterUse(SelectedCore).top = pre_assigned_core.top
                /\ pre_assigned_core.top = 0 => AfterUse(SelectedCore).list[0] = 1
<1> USE ConstantFacts
<1>1. pc = "normal_assign" /\ Placing /\ ~ Booting
  BY DEF InNormalAssign, Placing, Booting
<1>2. Cores = {0, 1} /\ 0 \in Cores /\ 1 \in Cores
  BY DEF TwoCores
<1>3. /\ core_manager \in CoreStacks /\ core_list \in CoreTables
      /\ core_manager.list = [c \in Cores |-> c]
      /\ core_manager.top \in {0, 1}
  BY <1>1 DEF PlacementInv, TypeOK, CoreStacksHoldCores, CoresDivided
<1>4. /\ pre_assigned_core \in CoreStacks
      /\ pre_assigned_core.list \in [Cores -> Cores \cup {NULL}]
      /\ pre_assigned_core.top = 0 - core_manager.top
      /\ pre_assigned_core.top = 0 => pre_assigned_core.list[0] = 1
      /\ \A c \in Cores : core_list[c].pre_assigned <=> c > core_manager.top
  BY <1>1 DEF PlacementInv, TypeOK, CoreStacks, CoresDivided
<1>5. ~ is_empty(core_manager)
  BY <1>3 DEF is_empty
<1>6. PICK m \in 0 .. core_manager.top :
          /\ get_min_core(core_manager, core_list) = m
          /\ \A c \in 0 .. core_manager.top :
                core_list[m].Utilization <= core_list[c].Utilization
  <2>1. core_manager.top >= 0 /\ \A k \in 0 .. core_manager.top : k \in Cores /\ core_manager.list[k] = k
    BY <1>2, <1>3
  <2>2. \E k \in 0 .. core_manager.top :
            /\ get_min_core(core_manager, core_list) = core_manager.list[k]
            /\ \A j \in 0 .. core_manager.top :
                  core_list[core_manager.list[k]].Utilization
                    <= core_list[core_manager.list[j]].Utilization
    BY <1>3, <2>1, MinCore
  <2> QED BY <2>1, <2>2
<1>7. m \in Cores /\ \A c \in 0 .. core_manager.top : c \in Cores /\ core_list[c].Utilization \in Nat
  BY <1>2, <1>3 DEF CoreTables
<1>8. CASE MinCoreIsFull
  <2>1. core_list[m].Utilization >= Utilization_Bound
    BY <1>6, <1>8 DEF MinCoreIsFull
  <2>2. \A c \in 0 .. core_manager.top : core_list[c].Utilization >= Utilization_Bound
    BY <1>6, <1>7, <2>1
  <2>3. ASSUME core_manager.top = 0
        PROVE  /\ SelectedCore = 1
               /\ AfterUse(SelectedCore).top = pre_assigned_core.top
               /\ AfterUse(SelectedCore).list[0] = 1
    <3>1. pre_assigned_core.top = 0 /\ pre_assigned_core.list[0] = 1 /\ ~ is_empty(pre_assigned_core)
      BY <1>4, <2>3 DEF is_empty
    <3>2. SelectedCore = 1
      BY <1>8, <3>1 DEF SelectedCore, Top
    <3>3. core_list[1].pre_assigned
      BY <1>2, <1>4, <2>3
    <3>4. PICK rest : rest = Popped(pre_assigned_core)
      OBVIOUS
    <3>5. rest.list = pre_assigned_core.list /\ rest.top = -1
      BY <1>4, <3>1, <3>4 DEF Popped, CoreStacks
    <3>6. AfterUse(SelectedCore) = Push_core(1, rest)
      BY <1>8, <3>2, <3>3, <3>4 DEF AfterUse
    <3>7. ~ C_is_full(rest)
      BY <3>5 DEF C_is_full, TwoCores
    <3>8. AfterUse(SelectedCore) = Pushed(1, rest)
      BY <3>6, <3>7 DEF Push_core
    <3>9. -1 + 1 = 0
      OBVIOUS
    <3>10. Pushed(1, rest).top = 0 /\ Pushed(1, rest).list = [rest.list EXCEPT ![0] = 1]
      BY <3>5, <3>9 DEF Pushed
    <3> QED BY <1>2, <1>4, <3>1, <3>2, <3>5, <3>8, <3>10
  <2>4. ASSUME core_manager.top = 1 PROVE SelectedCore = NULL
    <3>1. is_empty(pre_assigned_core)
      BY <1>4, <2>4 DEF is_empty
    <3> QED BY <1>8, <3>1 DEF SelectedCore, Top
  <2> QED BY <1>3, <1>5, <1>8, <2>2, <2>3, <2>4
<1>9. CASE ~ MinCoreIsFull
  <2>1. SelectedCore = m
    BY <1>6, <1>9 DEF SelectedCore
  <2>2. core_list[m].Utilization < Utilization_Bound
    BY <1>6, <1>7, <1>9 DEF MinCoreIsFull
  <2>3. ~ core_list[m].pre_assigned
    BY <1>3, <1>4, <1>7
  <2>4. AfterUse(SelectedCore) = pre_assigned_core
    BY <1>9, <2>1, <2>3 DEF AfterUse
  <2> QED BY <1>3, <1>4, <1>5, <1>9, <2>1, <2>2, <2>4
<1> QED BY <1>8, <1>9

(* NORMAL-ASSIGN on an admissible set never gives up, whatever it popped.  *)
LEMMA NextGetsThrough ==
    ASSUME TwoCores, Admissible, BootInv, AdmitInv, InNormalAssign
    PROVE  /\ CoreIsUsable
           /\ ~ Fits(Top(UQ), SelectedCore) => curr_idx < MAX_NUM_TASKS
           /\ task_list[Top(UQ)].my_ptr # NULL
<1> USE ConstantFacts
<1>1. /\ PlacementInv /\ AssignedInv /\ PieceInv /\ Conserved /\ CoresDivided /\ EveryHandle
      /\ SplitFilledCore /\ pc = "normal_assign" /\ Placing
  BY DEF BootInv, AdmitInv, InNormalAssign, Placing
<1>2. PICK T \in Slots : T = Top(UQ) /\ T < curr_idx
  BY <1>1, IterationTyped
<1>3. PICK u \in Nat, p \in Nat, q \in Nat, B \in Nat :
          /\ u = task_list[T].Utilization /\ B = Utilization_Bound
          /\ p = core_list[0].Utilization /\ q = core_list[1].Utilization
          /\ u > 0 /\ p + q + u <= 2 * B
  <2>1. /\ task_list[T].Utilization \in Nat /\ task_list[T].Utilization > 0
        /\ core_list[0].Utilization \in Nat /\ core_list[1].Utilization \in Nat
        /\ core_list[0].Utilization + core_list[1].Utilization + task_list[T].Utilization
              <= 2 * Utilization_Bound
    BY ONLY <1>1, <1>2, RoomLeft, TwoCores, Admissible, InNormalAssign
  <2>2. Utilization_Bound \in Nat
    OBVIOUS
  <2> QED BY ONLY <2>1, <2>2
<1>4. Cores = {0, 1}
  BY DEF TwoCores
<1>5. CoreIsUsable
  <2>1. CASE ~ MinCoreIsFull
    <3>1. SelectedCore \in 0 .. core_manager.top /\ core_manager.top \in {0, 1}
      BY <1>1, <2>1, ChosenCore
    <3>2. SelectedCore # NULL
      BY <3>1
    <3> QED BY <1>1, <2>1, <3>2, ChosenCore DEF CoreIsUsable
  <2>2. CASE MinCoreIsFull
    <3>1. /\ core_manager.top \in {0, 1}
          /\ core_manager.top = 0 => SelectedCore = 1
          /\ \A c \in 0 .. core_manager.top : core_list[c].Utilization >= Utilization_Bound
      BY <1>1, <2>2, ChosenCore
    <3>2. p >= B /\ (core_manager.top = 1 => q >= B)
      <4>1. 0 \in 0 .. core_manager.top /\ (core_manager.top = 1 => 1 \in 0 .. core_manager.top)
        BY <3>1
      <4> QED BY ONLY <1>3, <3>1, <4>1
    <3>3. q < B
      BY ONLY <1>3, <3>2
    <3>4. ~ (q >= B)
      BY ONLY <1>3, <3>3
    <3>5. core_manager.top = 0 /\ SelectedCore = 1
      BY ONLY <3>1, <3>2, <3>4
    <3> QED BY <1>1, <1>3, <3>3, <3>5, ChosenCore DEF CoreIsUsable
  <2> QED BY <2>1, <2>2
<1>6. ASSUME ~ Fits(Top(UQ), SelectedCore) PROVE curr_idx < MAX_NUM_TASKS
  <2>1. PICK C \in Cores : C = SelectedCore
    BY <1>1, <1>5, IterationTyped
  <2>2. curr_idx \in Nat /\ MAX_NUM_TASKS = NUM_OF_TASK + 1
    BY <1>1, TailSlot DEF PlacementInv, TypeOK
  <2> SUFFICES ASSUME curr_idx > NUM_OF_TASK PROVE FALSE
    BY <2>2
  <2>3. PICK c \in Cores : core_list[c].Utilization >= B
    BY <1>1, <1>3 DEF SplitFilledCore
  <2>4. core_list[C].Utilization < B /\ ~ (core_list[C].Utilization + u <= B)
    BY <1>2, <1>3, <1>5, <1>6, <2>1 DEF CoreIsUsable, Fits
  <2>5. CASE C = 0
    <3>1. p < B /\ ~ (p + u <= B)
      BY ONLY <1>3, <2>4, <2>5
    <3>2. c = 1 /\ q >= B
      BY ONLY <1>3, <1>4, <2>3, <3>1
    <3> QED BY ONLY <1>3, <3>1, <3>2
  <2>6. CASE C = 1
    <3>1. q < B /\ ~ (q + u <= B)
      BY ONLY <1>3, <2>4, <2>6
    <3>2. c = 0 /\ p >= B
      BY ONLY <1>3, <1>4, <2>3, <3>1
    <3> QED BY ONLY <1>3, <3>1, <3>2
  <2> QED BY <1>4, <2>5, <2>6
<1>7. task_list[T].my_ptr # NULL
  <2>1. T \in 0 .. curr_idx - 1
    BY <1>1, <1>2 DEF PlacementInv, TypeOK
  <2> QED BY <1>1, <2>1 DEF EveryHandle
<1> QED BY <1>2, <1>5, <1>6, <1>7

LEMMA StacksKept ==
    ASSUME TwoCores, PlacementInv, CoresDivided, InNormalAssign, CoreIsUsable
    PROVE  /\ AfterUse(SelectedCore).top = pre_assigned_core.top
           /\ pre_assigned_core.top = 0 => AfterUse(SelectedCore).list[0] = 1
<1>1. SelectedCore # NULL
  BY DEF CoreIsUsable
<1>2. core_manager.top = 0 \/ ~ MinCoreIsFull
  BY <1>1, ChosenCore
<1> QED BY <1>2, ChosenCore

LEMMA AdmitAssignWhole ==
    ASSUME TwoCores, BootInv, AdmitInv, Conserved', AssignWhole PROVE AdmitInv'
<1> USE ConstantFacts
<1>1. /\ InNormalAssign /\ CoreIsUsable /\ pc = "normal_assign" /\ pc' = pc /\ Placing /\ Placing'
      /\ UNCHANGED <<task_list, table, core_manager, curr_idx, heap, full>>
      /\ UQ' = Popped(UQ) /\ pre_assigned_core' = AfterUse(SelectedCore)
      /\ PlacementInv /\ CoresDivided /\ ~ Booting'
  BY DEF AssignWhole, InNormalAssign, Placing, Booting, BootInv, AdmitInv
<1>2. PICK T \in Slots : T = Top(UQ)
  BY <1>1, IterationTyped
<1>3. PICK C \in Cores : C = SelectedCore
  BY <1>1, IterationTyped
<1>4. PICK u \in Nat : u = task_list[T].Utilization
  BY <1>1 DEF PlacementInv, TypeOK, TaskInfos
<1>5. tcb' = PinnedTo(T, C, tcb) /\ core_list' = Charged(C, u)
  BY <1>2, <1>3, <1>4 DEF AssignWhole
<1>6. tcb \in TCBTables /\ core_list \in CoreTables
  BY <1>1 DEF PlacementInv, TypeOK
<1>7. /\ \A c \in Cores : c # C => core_list'[c] = core_list[c]
      /\ core_list'[C].Utilization = core_list[C].Utilization + u
  BY <1>5, <1>6, ChargeTyped
<1>8. \A c \in Cores : /\ core_list[c].Utilization \in Nat /\ core_list'[c].Utilization \in Nat
                       /\ core_list'[c].Utilization >= core_list[c].Utilization
  BY SMTT(20), <1>6, <1>7 DEF CoreTables
<1>9. \A c \in Cores : core_list'[c].pre_assigned = core_list[c].pre_assigned
  BY <1>5, <1>6 DEF Charged, CoreTables
<1>10. EveryHandle' /\ HeavyMeasured'
  BY <1>1 DEF AdmitInv, EveryHandle, HeavyMeasured
<1>11. CoresDivided'
  BY <1>1, <1>9, StacksKept DEF CoresDivided
<1>12. SplitFilledCore'
  <2> SUFFICES ASSUME curr_idx > NUM_OF_TASK
               PROVE  \E c \in Cores : core_list'[c].Utilization >= Utilization_Bound
    BY <1>1 DEF SplitFilledCore
  <2>1. PICK c \in Cores : core_list[c].Utilization >= Utilization_Bound
    BY <1>1 DEF AdmitInv, SplitFilledCore
  <2>2. core_list'[c].Utilization >= Utilization_Bound
    BY <1>8, <2>1
  <2> QED BY <2>2
<1>13. Accepted'
  BY <1>1 DEF AdmitInv, Accepted
<1> QED BY <1>10, <1>11, <1>12, <1>13 DEF AdmitInv

LEMMA AdmitAssignSplit ==
    ASSUME TwoCores, BootInv, AdmitInv, Conserved', AssignSplit PROVE AdmitInv'
<1> USE ConstantFacts
<1>1. /\ InNormalAssign /\ CoreIsUsable /\ pc = "normal_assign" /\ pc' = pc /\ Placing /\ Placing'
      /\ UNCHANGED <<table, core_manager, full>>
      /\ curr_idx' = curr_idx + 1 /\ pre_assigned_core' = AfterUse(SelectedCore)
      /\ PlacementInv /\ CoresDivided /\ ~ Booting'
  BY DEF AssignSplit, InNormalAssign, Placing, Booting, BootInv, AdmitInv
<1>2. PICK T \in Slots : T = Top(UQ) /\ T # curr_idx
  BY <1>1, SplitContext
<1>3. PICK C \in Cores : C = SelectedCore
  BY <1>1, SplitContext
<1>4. curr_idx = NUM_OF_TASK /\ curr_idx \in Slots
  <2>1. curr_idx \in Slots /\ curr_idx >= NUM_OF_TASK /\ MAX_NUM_TASKS = NUM_OF_TASK + 1
    BY <1>1, SplitContext, TailSlot
  <2> QED BY <2>1
<1>5. heap \in Nat /\ heap > 0
  BY <1>1, <1>4 DEF AdmitInv, EveryHandle, PlacementInv, TypeOK
<1>6. core_list'[C].Utilization = core_list[C].Utilization + SplitBody.Utilization
  BY <1>1, <1>2, <1>3, SplitPlacement
<1>7. core_list'[C].Utilization = Utilization_Bound
  <2>1. SplitBody.Utilization = Utilization_Bound - core_list[C].Utilization
    BY <1>1, <1>3, SplitParts
  <2>2. core_list[C].Utilization \in Nat
    BY <1>1 DEF PlacementInv, TypeOK, CoreTables
  <2> QED BY <1>6, <2>1, <2>2
<1>8. \A c \in Cores : core_list'[c].pre_assigned = core_list[c].pre_assigned
  <2>1. core_list' = Charged(C, SplitBody.Utilization)
    BY <1>3 DEF AssignSplit, SplitBody
  <2> QED BY <1>1, <2>1 DEF Charged, CoreTables, PlacementInv, TypeOK
<1>9. EveryHandle'
  <2>1. /\ \A s \in Slots : s # T /\ s # curr_idx => task_list'[s] = task_list[s]
        /\ task_list'[T].my_ptr = task_list[T].my_ptr
        /\ task_list'[curr_idx].my_ptr = curr_idx
    BY <1>1, <1>2, <1>5, SplitSlots
  <2>2. ASSUME NEW s \in 0 .. curr_idx PROVE task_list'[s].my_ptr # NULL
    <3>1. s \in Slots /\ (s # curr_idx => s \in 0 .. curr_idx - 1)
      BY <1>4
    <3>2. s # curr_idx => task_list[s].my_ptr # NULL
      BY <1>1, <3>1 DEF AdmitInv, EveryHandle
    <3> QED BY <1>4, <2>1, <3>1, <3>2
  <2>3. curr_idx' # NUM_OF_TASK /\ curr_idx' - 1 = curr_idx
    BY <1>1, <1>4
  <2> QED BY <1>1, <2>2, <2>3 DEF EveryHandle
<1>10. HeavyMeasured' /\ Accepted'
  BY <1>1 DEF HeavyMeasured, AdmitInv, Accepted
<1>11. CoresDivided'
  BY <1>1, <1>8, StacksKept DEF CoresDivided
<1>12. SplitFilledCore'
  <2>1. core_list'[C].Utilization >= Utilization_Bound
    BY <1>7
  <2> QED BY <2>1 DEF SplitFilledCore
<1> QED BY <1>9, <1>10, <1>11, <1>12 DEF AdmitInv

(* simple_test never gives the last core away: below the heavy task there  *)
(* is either work for it, or nothing, and then the task is the last of the *)
(* table, which is light.                                                  *)
LEMMA OneCoreIsKept ==
    ASSUME TwoCores, Admissible, BootInv, AdmitInv, pc = "pre_assign", i < NUM_OF_TASK,
           TakesOwnCore(task_manager.list[i])
    PROVE  /\ task_manager.list[i] = i /\ i \in 0 .. NUM_OF_TASK - 1 /\ curr_idx = NUM_OF_TASK
           /\ core_manager.top = 1 /\ pre_assigned_core.top = -1
           /\ Top(core_manager) = 1
           /\ task_list[i].my_ptr # NULL
<1> USE ConstantFacts
<1>1. PlacementInv /\ Placing /\ ~ Booting
  BY DEF BootInv, Placing, Booting
<1>2. i \in 0 .. NUM_OF_TASK - 1 /\ curr_idx = NUM_OF_TASK
      /\ \A k \in 0 .. NUM_OF_TASK - 1 : task_manager.list[k] = k
  <2>1. i \in 0 .. NUM_OF_TASK
    BY <1>1 DEF PlacementInv, TypeOK
  <2> QED BY <1>1, <2>1 DEF PlacementInv, ManagerInOrder, QueueInOrder
<1>3. core_manager.top \in {0, 1} /\ pre_assigned_core.top = 0 - core_manager.top
  BY <1>1 DEF AdmitInv, CoresDivided
<1>4. task_list[i].my_ptr # NULL
  BY <1>1, <1>2 DEF AdmitInv, EveryHandle
<1>5. core_manager.top # 0
  <2> SUFFICES ASSUME core_manager.top = 0 PROVE FALSE
    OBVIOUS
  <2>1. PICK n \in Nat : n = NUM_OF_TASK - i - 1
    BY <1>2
  <2>2. PICK f : f = [k \in 0 .. NUM_OF_TASK - i - 2 |->
                         task_list[task_manager.list[i + 1 + k]].Utilization]
    OBVIOUS
  <2>3. ASSUME NEW k \in 0 .. n - 1 PROVE f[k] \in Nat /\ f[k] >= 1
    <3>1. /\ k \in 0 .. NUM_OF_TASK - i - 2
          /\ i + 1 + k \in 0 .. NUM_OF_TASK - 1 /\ i + 1 + k \in i .. NUM_OF_TASK - 1
          /\ i + 1 + k \in Slots
      BY <1>2, <2>1
    <3>2. f[k] = task_list[i + 1 + k].Utilization
      BY <1>2, <2>2, <3>1
    <3>3. task_list[i + 1 + k].Utilization > 0
      BY <3>1 DEF BootInv, PieceInv, WaitingPositive
    <3>4. task_list[i + 1 + k].Utilization \in Nat
      BY <1>1, <3>1 DEF PlacementInv, TypeOK, TaskInfos
    <3> QED BY <3>2, <3>3, <3>4
  <2>4. PrefixSum(f, n) \in Nat /\ PrefixSum(f, n) >= n
    BY <2>3, PrefixSumPositive
  <2>5. ~ (LowerUtilization(i, task_list, task_manager) > core_manager.top * Utilization_Bound)
    BY <1>2 DEF TakesOwnCore, simple_test
  <2>6. LowerUtilization(i, task_list, task_manager) = PrefixSum(f, n)
    BY <2>1, <2>2 DEF LowerUtilization
  <2>7. n = 0
    <3>1. core_manager.top * Utilization_Bound = 0
      OBVIOUS
    <3> QED BY <2>4, <2>5, <2>6, <3>1
  <2>8. i = NUM_OF_TASK - 1
    BY <1>2, <2>1, <2>7
  <2>9. task_list[i].Heavy
    BY <1>2 DEF TakesOwnCore
  <2>10. ExceedsLightBound(UtilizationOf(table[i]))
    BY <1>2, <2>9 DEF AdmitInv, HeavyMeasured
  <2> QED BY <2>8, <2>10 DEF Admissible
<1>6. core_manager.top = 1 /\ pre_assigned_core.top = -1
  BY <1>3, <1>5
<1>7. Top(core_manager) = 1
  <2>1. core_manager.list = [c \in Cores |-> c] /\ 1 \in Cores
    BY <1>1 DEF PlacementInv, CoreStacksHoldCores, Booting, TwoCores
  <2> QED BY <1>6, <2>1 DEF Top, is_empty
<1> QED BY <1>2, <1>4, <1>6, <1>7

LEMMA AdmitPreAssign ==
    ASSUME TwoCores, Admissible, BootInv, AdmitInv, Conserved', PreAssign PROVE AdmitInv'
<1> USE ConstantFacts
<1>1. /\ pc = "pre_assign" /\ pc' = pc /\ i < NUM_OF_TASK /\ i' = i + 1 /\ Placing /\ Placing'
      /\ UNCHANGED <<task_list, table, UQ, curr_idx, heap, full>>
      /\ TakesOwnCore(task_manager.list[i])
      /\ PlacementInv
  BY DEF PreAssign, Placing, BootInv
<1>2. /\ task_manager.list[i] = i /\ i \in 0 .. NUM_OF_TASK - 1 /\ i \in Slots
      /\ curr_idx = NUM_OF_TASK
      /\ core_manager.top = 1 /\ pre_assigned_core.top = -1
      /\ Top(core_manager) = 1
  BY <1>1, OneCoreIsKept
<1>3. 1 \in Cores /\ 0 \in Cores /\ Cores = {0, 1}
  BY DEF TwoCores
<1>4. core_manager'.top = 0
  BY <1>1, <1>2, PreAssignEffect
<1>5. EveryHandle' /\ HeavyMeasured' /\ Accepted'
  BY <1>1 DEF AdmitInv, EveryHandle, HeavyMeasured, Accepted, Booting
<1>6. core_list'[1].pre_assigned /\ ~ core_list'[0].pre_assigned
  <2>1. PICK u : core_list' = [Charged(1, u) EXCEPT ![1].pre_assigned = TRUE]
    BY <1>2 DEF PreAssign
  <2>2. core_list \in CoreTables /\ ~ core_list[0].pre_assigned
    BY <1>1, <1>2, <1>3 DEF PlacementInv, TypeOK, AdmitInv, CoresDivided
  <2> QED BY SMTT(20), <1>3, <2>1, <2>2 DEF Charged, CoreTables
<1>7. pre_assigned_core'.top = 0 /\ pre_assigned_core'.list[0] = 1
  <2>1. pre_assigned_core' = Push_core(1, pre_assigned_core)
    BY <1>2 DEF PreAssign
  <2>2. pre_assigned_core' = Pushed(1, pre_assigned_core)
    BY <1>2, <2>1 DEF Push_core, C_is_full, TwoCores
  <2>3. pre_assigned_core.top + 1 = 0 /\ pre_assigned_core.list \in [Cores -> Cores \cup {NULL}]
    BY <1>1, <1>2 DEF PlacementInv, TypeOK, CoreStacks
  <2>4. pre_assigned_core'.top = 0
        /\ pre_assigned_core'.list = [pre_assigned_core.list EXCEPT ![0] = 1]
    BY <2>2, <2>3 DEF Pushed
  <2> QED BY <1>3, <2>3, <2>4
<1>8. CoresDivided'
  <2>1. ASSUME NEW c \in Cores PROVE core_list'[c].pre_assigned <=> c > 0
    <3>1. c = 0 \/ c = 1
      BY ONLY <1>3, c \in Cores
    <3>2. CASE c = 0
      BY ONLY <1>6, <3>2
    <3>3. CASE c = 1
      BY ONLY <1>6, <3>3
    <3> QED BY ONLY <3>1, <3>2, <3>3
  <2> QED BY <1>1, <1>4, <1>7, <2>1 DEF CoresDivided, Booting
<1>9. SplitFilledCore'
  BY <1>1, <1>2 DEF SplitFilledCore
<1> QED BY <1>5, <1>8, <1>9 DEF AdmitInv

(* The other steps leave the stacks of cores, the handles and the table. *)
LEMMA AdmitQueue ==
    ASSUME TwoCores, BootInv, AdmitInv, Conserved', Queue \/ PreAssignDone PROVE AdmitInv'
<1>1. /\ Placing /\ Placing' /\ pc = "pre_assign" /\ ~ Booting'
      /\ pc' # "undefined"
      /\ UNCHANGED <<task_list, table, core_list, core_manager, pre_assigned_core, curr_idx,
                     heap, full>>
  BY DEF Queue, PreAssignDone, Placing, Booting
<1>2. EveryHandle' /\ HeavyMeasured' /\ Accepted' /\ CoresDivided' /\ SplitFilledCore'
  BY <1>1 DEF AdmitInv, EveryHandle, HeavyMeasured, Accepted, CoresDivided, SplitFilledCore,
              Booting, Placing
<1> QED BY <1>2 DEF AdmitInv

LEMMA AdmitStart ==
    ASSUME TwoCores, BootInv, AdmitInv, Conserved', StartScheduler PROVE AdmitInv'
<1>1. pc' = "started" /\ ~ Placing' /\ ~ Booting' /\ UNCHANGED full
  BY DEF StartScheduler, Placing, Booting
<1>2. EveryHandle' /\ HeavyMeasured' /\ CoresDivided' /\ SplitFilledCore' /\ Accepted'
  BY <1>1 DEF AdmitInv, EveryHandle, HeavyMeasured, CoresDivided, SplitFilledCore, Accepted
<1> QED BY <1>2 DEF AdmitInv

LEMMA AdmitStep ==
    ASSUME TwoCores, Admissible, BootInv, AdmitInv, Conserved', [Next]_vars PROVE AdmitInv'
<1>1. CASE PreAssignNull
  <2>1. /\ pc = "pre_assign" /\ i < NUM_OF_TASK
        /\ TakesOwnCore(task_manager.list[i])
        /\ Top(core_manager) = NULL \/ task_list[task_manager.list[i]].my_ptr = NULL
    BY <1>1 DEF PreAssignNull
  <2> QED BY <2>1, OneCoreIsKept, ConstantFacts
<1>2. ~ ReportFull /\ ~ NormalAssignUndefined
  <2> SUFFICES ASSUME ReportFull \/ NormalAssignUndefined PROVE FALSE
    OBVIOUS
  <2>1. InNormalAssign
    BY DEF ReportFull, NormalAssignUndefined
  <2>2. PICK C \in Cores : C = SelectedCore
    BY <2>1, NextGetsThrough, IterationTyped DEF BootInv
  <2>3. core_list[C].Utilization \in Nat /\ core_list[C].Utilization < Utilization_Bound
        /\ ~ (core_list[C].Utilization >= Utilization_Bound)
    <3>1. core_list[C].Utilization \in Nat /\ core_list[C].Utilization < Utilization_Bound
      BY <2>1, <2>2, NextGetsThrough DEF CoreIsUsable, BootInv, PlacementInv, TypeOK, CoreTables
    <3> QED BY <3>1, ConstantFacts
  <2>4. curr_idx < MAX_NUM_TASKS => ~ (curr_idx >= MAX_NUM_TASKS)
    <3>1. curr_idx \in Nat
      BY DEF BootInv, PlacementInv, TypeOK
    <3> QED BY <3>1, ConstantFacts
  <2>5. ~ ReportFull
    BY <2>2, <2>3 DEF ReportFull
  <2>6. ~ NoNormalCore /\ ~ NoCoreAtAll /\ ~ NoSlotLeft /\ ~ NoHandle
    BY <2>1, <2>4, NextGetsThrough DEF NoNormalCore, NoCoreAtAll, NoSlotLeft, NoHandle, CoreIsUsable
  <2> QED BY <2>5, <2>6 DEF NormalAssignUndefined
<1>3. CASE Finished \/ UNCHANGED vars
  BY <1>3 DEF Finished, vars, AdmitInv, EveryHandle, HeavyMeasured, CoresDivided, SplitFilledCore,
              Accepted, Placing, Booting
<1> QED
  BY <1>1, <1>2, <1>3, AdmitBoot, AdmitInitTask, AdmitInitQueues, AdmitPreAssign, AdmitQueue,
     AdmitAssignWhole, AdmitAssignSplit, AdmitStart
     DEF Next

(* On two cores, whatever the table and the heap: a set whose utilization  *)
(* is within twice the bound, whose last task is light and for which the   *)
(* heap suffices is placed. The boot never reads outside a stack or        *)
(* through NULL, never reports a full system, and when the scheduler       *)
(* starts every created task is pinned to exactly one core.                *)
THEOREM AdmissibleSetsArePlaced == TwoCores => (Spec => []AdmissionOK)
<1> SUFFICES ASSUME TwoCores PROVE Spec => []AdmissionOK
  OBVIOUS
<1> DEFINE Inv == BootInv /\ (Admissible => AdmitInv)
<1>1. Init => Inv
  BY PlacementInit, HandleInit, AssignedInit, PieceInit, RoomInit, PinnedInit, AdmitInit
     DEF BootInv
<1>2. Inv /\ [Next]_vars => Inv'
  <2> SUFFICES ASSUME Inv, [Next]_vars PROVE Inv'
    OBVIOUS
  <2>1. BootInv'
    BY PlacementStep, HandleStep, AssignedStep, PieceStep, RoomStep, PinnedStep DEF BootInv
  <2>2. UNCHANGED <<table, heap_size>>
    BY DEF Next, Boot, InitTask, InitQueues, PreAssign, PreAssignNull, Queue, PreAssignDone,
           AssignWhole, AssignSplit, ReportFull, NormalAssignUndefined, StartScheduler,
           Finished, vars
  <2>3. Admissible' => Admissible
    BY <2>2 DEF Admissible, Total
  <2>4. ASSUME Admissible PROVE AdmitInv'
    <3>1. Conserved'
      BY <2>4, ConservedStep DEF BootInv, AdmitInv
    <3> QED BY <2>4, <3>1, AdmitStep
  <2> QED BY <2>1, <2>3, <2>4
<1>3. Inv => AdmissionOK
  BY CreatedPinned DEF AdmitInv, Accepted, AdmissionOK, BootInv, PinnedInv
<1> QED BY <1>1, <1>2, <1>3, PTL DEF Spec

----------------------------------------------------------------------------
(* A body outranks the other tasks on its core.                            *)

(* f is g on the n indices from m, and 0 on the m before and the r after.  *)
SegmentOf(f, g, m, n, r) ==
    /\ \A k \in 0 .. m - 1 : f[k] = 0
    /\ \A k \in 0 .. n - 1 : f[m + k] = g[k]
    /\ \A k \in 0 .. r - 1 : f[m + n + k] = 0
    /\ \A k \in 0 .. n - 1 : g[k] \in Nat

LEMMA PrefixSumSegment ==
    ASSUME NEW f, NEW g, NEW m \in Nat, NEW n \in Nat, NEW r \in Nat, SegmentOf(f, g, m, n, r)
    PROVE  PrefixSum(f, m + n + r) = PrefixSum(g, n)
<1> USE DEF SegmentOf
<1>1. \A k \in 0 .. n : PrefixSum(f, m + k) = PrefixSum(g, k)
  <2> DEFINE T == {k \in 0 .. n : PrefixSum(f, m + k) # PrefixSum(g, k)}
  <2> SUFFICES ASSUME T # {} PROVE FALSE
    OBVIOUS
  <2>1. PICK x \in T : \A y \in T : x <= y
    <3>1. T \in SUBSET Nat
      OBVIOUS
    <3> HIDE DEF T
    <3> QED BY <3>1, LeastElement
  <2>2. x # 0
    <3>1. PrefixSum(f, m) = 0 /\ PrefixSum(g, 0) = 0
      BY PrefixSumNat, PrefixSumUnfold
    <3> QED BY <3>1
  <2>3. PICK w \in Nat : w \in 0 .. n - 1 /\ x = w + 1 /\ w \notin T
    <3>1. x - 1 \in Nat /\ x - 1 \in 0 .. n - 1 /\ x = (x - 1) + 1 /\ x - 1 \notin T
      BY <2>1, <2>2
    <3> QED BY <3>1
  <2>4. PrefixSum(f, m + w) = PrefixSum(g, w) /\ f[m + w] = g[w]
    BY <2>3
  <2>5. /\ PrefixSum(f, (m + w) + 1) = PrefixSum(f, m + w) + f[m + w]
        /\ PrefixSum(g, w + 1) = PrefixSum(g, w) + g[w]
        /\ m + (w + 1) = (m + w) + 1
    <3> HIDE DEF T
    <3>1. m + w \in Nat
      BY <2>3
    <3> QED BY <2>3, <3>1, PrefixSumUnfold
  <2>6. PrefixSum(f, m + x) = PrefixSum(g, x)
    <3> HIDE DEF T
    <3> QED BY <2>3, <2>4, <2>5
  <2> QED BY <2>1, <2>6
<1>2. PICK b \in Nat : b = m + n
  OBVIOUS
<1>3. \A k \in 0 .. r : PrefixSum(f, b + k) = PrefixSum(g, n)
  <2> DEFINE T == {k \in 0 .. r : PrefixSum(f, b + k) # PrefixSum(g, n)}
  <2> SUFFICES ASSUME T # {} PROVE FALSE
    OBVIOUS
  <2>1. PICK x \in T : \A y \in T : x <= y
    <3>1. T \in SUBSET Nat
      OBVIOUS
    <3> HIDE DEF T
    <3> QED BY <3>1, LeastElement
  <2>2. x # 0
    BY <1>1, <1>2
  <2>3. PICK w \in Nat : w \in 0 .. r - 1 /\ x = w + 1 /\ w \notin T
    <3>1. x - 1 \in Nat /\ x - 1 \in 0 .. r - 1 /\ x = (x - 1) + 1 /\ x - 1 \notin T
      BY <2>1, <2>2
    <3> QED BY <3>1
  <2>4. PrefixSum(f, b + w) = PrefixSum(g, n) /\ f[b + w] = 0
    BY <1>2, <2>3
  <2>5. PrefixSum(f, (b + w) + 1) = PrefixSum(f, b + w) + f[b + w] /\ b + (w + 1) = (b + w) + 1
    <3> HIDE DEF T
    <3>1. b + w \in Nat
      BY <2>3
    <3> QED BY <2>3, <3>1, PrefixSumUnfold
  <2>6. PrefixSum(g, n) \in Nat
    <3> HIDE DEF T
    <3> QED BY PrefixSumNat
  <2>7. PrefixSum(f, b + x) = PrefixSum(g, n)
    <3> HIDE DEF T
    <3> QED BY <2>3, <2>4, <2>5, <2>6
  <2> QED BY <2>1, <2>7
<1> QED BY <1>2, <1>3

(* No step changes the priority of a task; a tail gets its body's.         *)
LEMMA PrioritiesStand ==
    ASSUME PlacementInv, [Next]_vars, ~ AssignSplit, NEW s \in Slots
    PROVE  task_list'[s].priority = task_list[s].priority
<1>1. CASE InitTask
  <2>1. i \in Slots /\ task_list \in [Slots -> TaskInfos] /\ heap \in Nat /\ task_list[i].Period > 0
        /\ \A x \in Slots : x # i => task_list'[x] = task_list[x]
    <3>1. i \in 0 .. NUM_OF_TASK - 1 /\ i \in Slots
      BY <1>1, InitTaskEffect
    <3>2. table[i] \in Rows /\ task_list[i].Period = table[i].Period
      BY <3>1 DEF PlacementInv, TypeOK, PeriodsKept
    <3> QED BY <1>1, <3>1, <3>2, InitTaskEffect DEF PlacementInv, TypeOK, Rows
  <2> DEFINE L == [task_list EXCEPT ![i] = Classified(task_list[i])]
  <2>2. task_list' = CreatedIn(i, L)
    <3>1. task_manager'.list[i] = i
      <4>1. task_manager' = Pushed(i, task_manager)
        <5>1. task_manager' = Push_task(i, task_manager) /\ task_manager.top = i - 1
          BY <1>1 DEF InitTask, PlacementInv, ManagerInOrder
        <5>2. i \in Int /\ i < NUM_OF_TASK /\ NUM_OF_TASK <= MAX_NUM_TASKS
          BY <1>1, ConstantFacts DEF InitTask, PlacementInv, TypeOK
        <5>3. ~ T_is_full(task_manager)
          BY <5>1, <5>2, ConstantFacts DEF T_is_full
        <5> QED BY <5>1, <5>3 DEF Push_task
      <4>2. task_manager.list \in [Slots -> Slots \cup {NULL}] /\ task_manager.top = i - 1 /\ i \in Int
        BY <1>1, <2>1, ConstantFacts DEF PlacementInv, TypeOK, TaskStacks, ManagerInOrder, InitTask
      <4> QED BY <2>1, <4>1, <4>2 DEF Pushed
    <3> QED BY <1>1, <3>1 DEF InitTask
  <2>3. L \in [Slots -> TaskInfos] /\ L[i].priority = task_list[i].priority
    <3>1. Classified(task_list[i]) \in TaskInfos /\ task_list[i] \in TaskInfos
      BY <2>1, ClassifiedTyped
    <3>2. Classified(task_list[i]).priority = task_list[i].priority
      BY <3>1 DEF Classified, TaskInfos
    <3> QED BY <2>1, <3>1, <3>2
  <2> HIDE DEF L
  <2>4. task_list'[i].priority = L[i].priority
    BY <2>1, <2>2, <2>3, CreateEffect
  <2> QED BY <2>1, <2>3, <2>4
<1>2. CASE UNCHANGED task_list
  BY <1>2
<1>3. InitTask \/ UNCHANGED task_list
  BY DEF Next, Boot, InitQueues, PreAssign, PreAssignNull, Queue, PreAssignDone, AssignWhole,
         ReportFull, NormalAssignUndefined, StartScheduler, Finished, vars
<1> QED BY <1>1, <1>2, <1>3

LEMMA PrioritiesSplit ==
    ASSUME PlacementInv, AssignSplit
    PROVE  /\ \A s \in Slots : s # curr_idx => task_list'[s].priority = task_list[s].priority
           /\ task_list'[curr_idx].priority = task_list[Top(UQ)].priority
<1> DEFINE T == Top(UQ)
           L == [task_list EXCEPT ![T] = SplitBody, ![curr_idx] = SplitTail]
           created == CreatedIn(curr_idx, L)
<1>1. T \in Slots /\ curr_idx \in Slots /\ curr_idx # T /\ heap \in Nat
  BY SplitContext
<1>2. task_list \in [Slots -> TaskInfos]
  BY DEF PlacementInv, TypeOK
<1>3. task_list' = [created EXCEPT ![T].splitted_ptr = created[curr_idx].my_ptr]
  BY DEF AssignSplit, SplitBody, SplitTail
<1>4. SplitBody \in TaskInfos /\ SplitTail \in TaskInfos
  BY SplitParts
<1>5. SplitBody.priority = task_list[T].priority /\ SplitTail.priority = task_list[T].priority
  <2>1. task_list[T] \in TaskInfos /\ task_list[curr_idx] \in TaskInfos
    BY <1>1, <1>2
  <2>2. Body_task(task_list[T], core_list[SelectedCore]).priority = task_list[T].priority
    BY <2>1 DEF Body_task, TaskInfos
  <2>3. Tail_task(task_list[T], core_list[SelectedCore], task_list[curr_idx]).priority
          = task_list[T].priority
    BY <2>1 DEF Tail_task, TaskInfos
  <2> QED BY <2>2, <2>3 DEF SplitBody, SplitTail
<1> HIDE DEF T
<1>6. /\ L \in [Slots -> TaskInfos]
      /\ L[T] = SplitBody /\ L[curr_idx] = SplitTail
      /\ \A s \in Slots : s # T /\ s # curr_idx => L[s] = task_list[s]
  BY <1>1, <1>2, <1>4
<1> HIDE DEF L
<1>7. /\ created \in [Slots -> TaskInfos]
      /\ \A s \in Slots : s # curr_idx => created[s] = L[s]
      /\ created[curr_idx].priority = SplitTail.priority
  BY <1>1, <1>6, CreateTyped, CreateEffect
<1> HIDE DEF created
<1>8. /\ \A s \in Slots : s # T => task_list'[s] = created[s]
      /\ task_list'[T] = [created[T] EXCEPT !.splitted_ptr = created[curr_idx].my_ptr]
  BY <1>1, <1>3, <1>7
<1>9. task_list'[T].priority = created[T].priority
  BY <1>1, <1>7, <1>8 DEF TaskInfos
<1> QED BY <1>1, <1>5, <1>6, <1>7, <1>8, <1>9 DEF T

(* The cores given away in PRE-ASSIGN are those above core_manager.top.    *)
CoresParted ==
    /\ Booting => \A c \in Cores : ~ core_list[c].pre_assigned
    /\ pc = "init_task" => core_manager.top = configNUMBER_OF_CORES - 1
    /\ Placing =>
          /\ pre_assigned_core.top + core_manager.top = configNUMBER_OF_CORES - 2
          /\ \A k \in 0 .. pre_assigned_core.top : pre_assigned_core.list[k] > core_manager.top
          /\ \A c \in Cores : core_list[c].pre_assigned <=> c > core_manager.top

(* What an iteration of NORMAL-ASSIGN takes, and that it leaves the stack  *)
(* of pre-assigned cores as it was.                                        *)
LEMMA CoreTaken ==
    ASSUME PlacementInv, CoresParted, InNormalAssign, CoreIsUsable
    PROVE  /\ core_manager.top \in Cores
           /\ MinCoreIsFull =>
                /\ \A c \in 0 .. core_manager.top : core_list[c].Utilization >= Utilization_Bound
                /\ SelectedCore = Top(pre_assigned_core)
           /\ ~ MinCoreIsFull => SelectedCore \in 0 .. core_manager.top
           /\ AfterUse(SelectedCore).top = pre_assigned_core.top
           /\ \A k \in 0 .. pre_assigned_core.top :
                 AfterUse(SelectedCore).list[k] = pre_assigned_core.list[k]
<1> USE ConstantFacts
<1>1. pc = "normal_assign" /\ Placing /\ ~ Booting
  BY DEF InNormalAssign, Placing, Booting
<1>2. /\ core_manager \in CoreStacks /\ core_list \in CoreTables
      /\ core_manager.list = [c \in Cores |-> c]
      /\ core_manager.top \in -1 .. configNUMBER_OF_CORES - 1
  BY <1>1 DEF PlacementInv, TypeOK, CoreStacksHoldCores, CoreStacks
<1>3. core_manager.top \in Cores
  BY <1>2 DEF CoreIsUsable, is_empty
<1>4. PICK top \in -1 .. configNUMBER_OF_CORES - 1 :
          /\ top = pre_assigned_core.top
          /\ top + core_manager.top = configNUMBER_OF_CORES - 2
  BY <1>1 DEF PlacementInv, TypeOK, CoreStacks, CoresParted
<1>5. /\ pre_assigned_core \in CoreStacks
      /\ \A k \in 0 .. top : /\ pre_assigned_core.list[k] \in Cores
                             /\ pre_assigned_core.list[k] > core_manager.top
      /\ \A c \in Cores : core_list[c].pre_assigned <=> c > core_manager.top
      /\ top < configNUMBER_OF_CORES - 1
  BY <1>1, <1>3, <1>4 DEF PlacementInv, TypeOK, CoresParted, CoreStacksHoldCores
<1>6. PICK m \in 0 .. core_manager.top :
          /\ get_min_core(core_manager, core_list) = m
          /\ \A c \in 0 .. core_manager.top :
                core_list[m].Utilization <= core_list[c].Utilization
  <2>1. core_manager.top >= 0 /\ \A k \in 0 .. core_manager.top : k \in Cores /\ core_manager.list[k] = k
    BY <1>2, <1>3
  <2>2. \E k \in 0 .. core_manager.top :
            /\ get_min_core(core_manager, core_list) = core_manager.list[k]
            /\ \A j \in 0 .. core_manager.top :
                  core_list[core_manager.list[k]].Utilization
                    <= core_list[core_manager.list[j]].Utilization
    BY <1>2, <2>1, MinCore
  <2> QED BY <2>1, <2>2
<1>7. m \in Cores /\ \A c \in 0 .. core_manager.top : c \in Cores /\ core_list[c].Utilization \in Nat
  BY <1>2, <1>3 DEF CoreTables
<1>8. CASE MinCoreIsFull
  <2>1. \A c \in 0 .. core_manager.top : core_list[c].Utilization >= Utilization_Bound
    BY <1>6, <1>7, <1>8 DEF MinCoreIsFull
  <2>2. SelectedCore = Top(pre_assigned_core) /\ SelectedCore # NULL
    BY <1>8 DEF SelectedCore, CoreIsUsable
  <2>3. ~ is_empty(pre_assigned_core)
    BY <2>2 DEF Top
  <2>4. top \in Cores /\ SelectedCore = pre_assigned_core.list[top] /\ top \in 0 .. top
    BY <1>4, <1>5, <2>2, <2>3 DEF is_empty, Top
  <2>5. PICK C \in Cores : C = SelectedCore /\ C = pre_assigned_core.list[top]
    BY <1>5, <2>4
  <2>6. core_list[C].pre_assigned
    BY <1>5, <2>4, <2>5
  <2>7. PICK rest : rest = Popped(pre_assigned_core)
    OBVIOUS
  <2>8. rest.list = pre_assigned_core.list /\ rest.top = top - 1
    BY <1>4, <1>5, <2>3, <2>7 DEF Popped, CoreStacks
  <2>9. AfterUse(SelectedCore) = Push_core(C, rest)
    BY <1>8, <2>5, <2>6, <2>7 DEF AfterUse
  <2>10. ~ C_is_full(rest) /\ rest.top + 1 = top
    BY <1>4, <2>8 DEF C_is_full
  <2>11. AfterUse(SelectedCore) = [list |-> [pre_assigned_core.list EXCEPT ![top] = C], top |-> top]
    BY <2>8, <2>9, <2>10 DEF Push_core, Pushed
  <2>12. pre_assigned_core.list \in [Cores -> Cores \cup {NULL}]
    BY <1>5 DEF CoreStacks
  <2>13. \A k \in 0 .. top : [pre_assigned_core.list EXCEPT ![top] = C][k] = pre_assigned_core.list[k]
    BY <2>4, <2>5, <2>12
  <2> QED BY <1>3, <1>4, <1>8, <2>1, <2>2, <2>11, <2>13
<1>9. CASE ~ MinCoreIsFull
  <2>1. SelectedCore = m
    BY <1>6, <1>9 DEF SelectedCore
  <2>2. ~ core_list[m].pre_assigned
    BY <1>3, <1>5, <1>7
  <2>3. AfterUse(SelectedCore) = pre_assigned_core
    BY <1>9, <2>1, <2>2 DEF AfterUse
  <2> QED BY <1>3, <1>4, <1>9, <2>1, <2>3
<1> QED BY <1>8, <1>9

LEMMA PartedAssign ==
    ASSUME PlacementInv, CoresParted, AssignWhole \/ AssignSplit PROVE CoresParted'
<1> USE ConstantFacts
<1>1. /\ InNormalAssign /\ CoreIsUsable /\ pc' = pc /\ pc = "normal_assign"
      /\ UNCHANGED core_manager /\ pre_assigned_core' = AfterUse(SelectedCore)
  BY DEF AssignWhole, AssignSplit, InNormalAssign
<1>2. PICK u \in Nat : core_list' = Charged(SelectedCore, u)
  <2>1. CASE AssignWhole
    <3>1. core_list' = Charged(SelectedCore, task_list[Top(UQ)].Utilization)
      BY <2>1 DEF AssignWhole
    <3>2. task_list[Top(UQ)].Utilization \in Nat
      BY <1>1, IterationTyped DEF PlacementInv, TypeOK, TaskInfos
    <3> QED BY <3>1, <3>2
  <2>2. CASE AssignSplit
    <3>1. core_list' = Charged(SelectedCore, SplitBody.Utilization)
      BY <2>2 DEF AssignSplit, SplitBody
    <3>2. SplitBody.Utilization \in Nat
      BY <2>2, SplitParts DEF TaskInfos
    <3> QED BY <3>1, <3>2
  <2> QED BY <2>1, <2>2
<1>3. PICK C \in Cores : C = SelectedCore
  BY <1>1, IterationTyped
<1>4. /\ Charged(C, u)[C].pre_assigned = core_list[C].pre_assigned
      /\ \A c \in Cores : c # C => Charged(C, u)[c] = core_list[c]
  BY DEF Charged, PlacementInv, TypeOK, CoreTables
<1>5. \A c \in Cores : core_list'[c].pre_assigned <=> core_list[c].pre_assigned
  BY <1>2, <1>3, <1>4
<1>6. /\ pre_assigned_core'.top = pre_assigned_core.top
      /\ \A k \in 0 .. pre_assigned_core.top : pre_assigned_core'.list[k] = pre_assigned_core.list[k]
  BY <1>1, CoreTaken
<1> QED BY <1>1, <1>5, <1>6 DEF CoresParted, Placing, Booting

LEMMA PartedPreAssign ==
    ASSUME PlacementInv, CoresParted, PreAssign
    PROVE  /\ CoresParted'
           /\ pre_assigned_core'.top >= 0
           /\ Top(pre_assigned_core') = core_manager.top
<1> USE ConstantFacts
<1>1. /\ pc = "pre_assign" /\ pc' = pc /\ Placing /\ Placing' /\ ~ Booting'
      /\ core_manager.top \in Cores /\ core_manager'.top = core_manager.top - 1
  BY PreAssignEffect DEF PreAssign, Placing, Booting
<1>2. PICK C \in Cores : C = core_manager.top /\ C = Top(core_manager)
  <2>1. core_manager.list = [c \in Cores |-> c]
    BY <1>1 DEF PlacementInv, CoreStacksHoldCores
  <2> QED BY <1>1, <2>1 DEF Top, is_empty
<1>3. PICK top \in -1 .. configNUMBER_OF_CORES - 1 :
          top = pre_assigned_core.top /\ top + C = configNUMBER_OF_CORES - 2
  BY <1>1, <1>2 DEF PlacementInv, TypeOK, CoreStacks, CoresParted
<1>4. /\ pre_assigned_core.list \in [Cores -> Cores \cup {NULL}]
      /\ \A k \in 0 .. top : pre_assigned_core.list[k] > C
      /\ \A c \in Cores : core_list[c].pre_assigned <=> c > C
      /\ core_list \in CoreTables
  BY <1>1, <1>2, <1>3 DEF PlacementInv, TypeOK, CoreStacks, CoresParted
<1>5. top + 1 \in Cores /\ ~ C_is_full(pre_assigned_core)
  BY <1>3 DEF C_is_full
<1>6. pre_assigned_core' = [list |-> [pre_assigned_core.list EXCEPT ![top + 1] = C], top |-> top + 1]
  BY <1>2, <1>3, <1>5 DEF PreAssign, Push_core, Pushed
<1>7. /\ pre_assigned_core'.top = top + 1
      /\ pre_assigned_core'.list[top + 1] = C
      /\ \A k \in 0 .. top : pre_assigned_core'.list[k] = pre_assigned_core.list[k]
  <2>1. \A k \in 0 .. top : k \in Cores /\ k # top + 1
    BY <1>3
  <2> QED BY <1>4, <1>5, <1>6, <2>1
<1>8. \A k \in 0 .. top + 1 : pre_assigned_core'.list[k] > C - 1
  <2> SUFFICES ASSUME NEW k \in 0 .. top + 1 PROVE pre_assigned_core'.list[k] > C - 1
    OBVIOUS
  <2>1. k = top + 1 \/ k \in 0 .. top
    BY <1>3
  <2>2. CASE k = top + 1
    BY <1>7, <2>2
  <2>3. CASE k \in 0 .. top
    <3>1. pre_assigned_core.list[k] \in Cores
      BY <1>1, <1>3, <2>3 DEF PlacementInv, CoreStacksHoldCores, Placing, Booting
    <3> QED BY <1>4, <1>7, <2>3, <3>1
  <2> QED BY <2>1, <2>2, <2>3
<1>9. \A c \in Cores : core_list'[c].pre_assigned <=> c > C - 1
  <2>1. PICK u : core_list' = [Charged(C, u) EXCEPT ![C].pre_assigned = TRUE]
    BY <1>2 DEF PreAssign
  <2>2. core_list'[C].pre_assigned /\ \A c \in Cores : c # C => core_list'[c] = core_list[c]
    BY SMTT(20), <1>4, <2>1 DEF Charged, CoreTables
  <2>3. \A c \in Cores : c > C - 1 <=> c = C \/ c > C
    OBVIOUS
  <2> QED BY <1>4, <2>2, <2>3
<1>10. Top(pre_assigned_core') = C /\ pre_assigned_core'.top >= 0
  BY <1>3, <1>7 DEF Top, is_empty
<1>11. (top + 1) + (C - 1) = configNUMBER_OF_CORES - 2
  BY <1>3
<1> QED BY <1>1, <1>2, <1>7, <1>8, <1>9, <1>10, <1>11 DEF CoresParted

LEMMA PartedStep ==
    ASSUME PlacementInv, CoresParted, [Next]_vars PROVE CoresParted'
<1> USE ConstantFacts
<1>1. CASE Boot
  <2>1. core_manager'.top = configNUMBER_OF_CORES - 1 /\ pc' = "init_task"
        /\ UNCHANGED core_list /\ Booting
    BY <1>1 DEF Boot, AllCores, Booting
  <2> QED BY <2>1 DEF CoresParted, Placing
<1>2. CASE InitTask
  <2>1. UNCHANGED <<pc, core_list, core_manager, pre_assigned_core>>
    BY <1>2 DEF InitTask
  <2> QED BY <2>1 DEF CoresParted, Placing, Booting
<1>3. CASE InitQueues
  <2>1. /\ pc = "init_task" /\ pc' = "pre_assign" /\ UNCHANGED <<core_manager, core_list>>
        /\ pre_assigned_core'.top = -1
    BY <1>3, ResetTyped DEF InitQueues, PlacementInv, TypeOK
  <2>2. core_manager'.top = configNUMBER_OF_CORES - 1
        /\ \A c \in Cores : ~ core_list'[c].pre_assigned /\ ~ (c > configNUMBER_OF_CORES - 1)
    BY <2>1 DEF CoresParted, Booting
  <2> QED BY <2>1, <2>2 DEF CoresParted, Booting
<1>4. CASE Queue \/ PreAssignDone
  <2>1. UNCHANGED <<core_list, core_manager, pre_assigned_core>> /\ Placing /\ ~ Booting' /\ pc' # "init_task"
    BY <1>4 DEF Queue, PreAssignDone, Placing, Booting
  <2> QED BY <2>1 DEF CoresParted
<1>5. CASE PreAssignNull \/ ReportFull \/ NormalAssignUndefined \/ StartScheduler
  <2>1. ~ Placing' /\ ~ Booting'
    BY <1>5 DEF PreAssignNull, ReportFull, NormalAssignUndefined, StartScheduler, Placing, Booting
  <2> QED BY <2>1 DEF CoresParted, Booting
<1>6. CASE Finished \/ UNCHANGED vars
  BY <1>6 DEF CoresParted, Placing, Booting, Finished, vars
<1> QED BY <1>1, <1>2, <1>3, <1>4, <1>5, <1>6, PartedAssign, PartedPreAssign DEF Next

LEMMA PrefixSumOrder ==
    ASSUME NEW f, NEW g, NEW n \in Nat,
           \A k \in 0 .. n - 1 : f[k] \in Nat /\ g[k] \in Nat /\ f[k] <= g[k]
    PROVE  PrefixSum(f, n) \in Nat /\ PrefixSum(g, n) \in Nat /\ PrefixSum(f, n) <= PrefixSum(g, n)
<1> DEFINE T == {k \in 0 .. n : ~ PrefixSum(f, k) <= PrefixSum(g, k)}
<1>1. \A k \in 0 .. n : PrefixSum(f, k) \in Nat /\ PrefixSum(g, k) \in Nat
  <2> SUFFICES ASSUME NEW k \in 0 .. n PROVE PrefixSum(f, k) \in Nat /\ PrefixSum(g, k) \in Nat
    OBVIOUS
  <2>1. k \in Nat /\ \A j \in 0 .. k - 1 : f[j] \in Nat /\ g[j] \in Nat
    OBVIOUS
  <2> QED BY <2>1, PrefixSumNat
<1>2. T = {}
  <2> SUFFICES ASSUME T # {} PROVE FALSE
    OBVIOUS
  <2>1. PICK x \in T : \A y \in T : x <= y
    <3>1. T \in SUBSET Nat
      OBVIOUS
    <3> HIDE DEF T
    <3> QED BY <3>1, LeastElement
  <2>2. x # 0
    <3>1. PrefixSum(f, 0) = 0 /\ PrefixSum(g, 0) = 0
      BY PrefixSumUnfold
    <3> QED BY <3>1
  <2>3. PICK w \in Nat : w \in 0 .. n - 1 /\ x = w + 1 /\ w \notin T
    <3>1. x - 1 \in Nat /\ x - 1 \in 0 .. n - 1 /\ x = (x - 1) + 1 /\ x - 1 \notin T
      BY <2>1, <2>2
    <3> QED BY <3>1
  <2>4. PrefixSum(f, w) <= PrefixSum(g, w) /\ x \in 0 .. n /\ ~ PrefixSum(f, x) <= PrefixSum(g, x)
    BY <2>1, <2>3
  <2>5. PrefixSum(f, w + 1) = PrefixSum(f, w) + f[w] /\ PrefixSum(g, w + 1) = PrefixSum(g, w) + g[w]
    <3> HIDE DEF T
    <3> QED BY <2>3, PrefixSumUnfold
  <2>6. PrefixSum(f, w) \in Nat /\ PrefixSum(g, w) \in Nat
    BY <1>1, <2>3
  <2> HIDE DEF T
  <2> QED BY <2>3, <2>4, <2>5, <2>6
<1> QED BY <1>1, <1>2

LEMMA PrefixSumAtLeast ==
    ASSUME NEW f, NEW n \in Nat, NEW b \in Nat, \A k \in 0 .. n - 1 : f[k] \in Nat /\ f[k] >= b
    PROVE  PrefixSum(f, n) \in Nat /\ PrefixSum(f, n) >= n * b
<1> DEFINE T == {k \in 0 .. n : ~ PrefixSum(f, k) >= k * b}
<1>1. \A k \in 0 .. n : PrefixSum(f, k) \in Nat
  <2> SUFFICES ASSUME NEW k \in 0 .. n PROVE PrefixSum(f, k) \in Nat
    OBVIOUS
  <2>1. k \in Nat /\ \A j \in 0 .. k - 1 : f[j] \in Nat
    OBVIOUS
  <2> QED BY <2>1, PrefixSumNat
<1>2. T = {}
  <2> SUFFICES ASSUME T # {} PROVE FALSE
    OBVIOUS
  <2>1. PICK x \in T : \A y \in T : x <= y
    <3>1. T \in SUBSET Nat
      OBVIOUS
    <3> HIDE DEF T
    <3> QED BY <3>1, LeastElement
  <2>2. x # 0
    <3>1. PrefixSum(f, 0) = 0 /\ 0 * b = 0
      BY PrefixSumUnfold
    <3> QED BY <3>1
  <2>3. PICK w \in Nat : w \in 0 .. n - 1 /\ x = w + 1 /\ w \notin T
    <3>1. x - 1 \in Nat /\ x - 1 \in 0 .. n - 1 /\ x = (x - 1) + 1 /\ x - 1 \notin T
      BY <2>1, <2>2
    <3> QED BY <3>1
  <2>4. PrefixSum(f, w) >= w * b /\ ~ PrefixSum(f, w + 1) >= (w + 1) * b
    BY <2>1, <2>3
  <2>5. PrefixSum(f, w + 1) = PrefixSum(f, w) + f[w]
    <3> HIDE DEF T
    <3> QED BY <2>3, PrefixSumUnfold
  <2>6. PrefixSum(f, w) \in Nat /\ f[w] \in Nat /\ f[w] >= b /\ (w + 1) * b = w * b + b /\ w * b \in Nat
    BY <1>1, <2>3
  <2> HIDE DEF T
  <2> QED BY <2>3, <2>4, <2>5, <2>6
<1> QED BY <1>1, <1>2

(* Every table gives a task a higher priority than those behind it.        *)
PrioritiesFall ==
    \A tb \in TaskTables : \A j, k \in 0 .. NUM_OF_TASK - 1 : j < k => tb[k].priority < tb[j].priority

(* The tasks keep the order of the table, and UQ holds the highest         *)
(* priority at its bottom: Pop_task takes the lowest.                      *)
RanksFall ==
    \A j, k \in 0 .. NUM_OF_TASK - 1 : j < k => task_list[k].priority < task_list[j].priority
QueueFalls ==
    Placing => \A j, k \in 0 .. UQ.top :
                  j < k => task_list[UQ.list[k]].priority < task_list[UQ.list[j]].priority

LEMMA RanksInit == PrioritiesFall /\ Init => RanksFall /\ QueueFalls
<1> SUFFICES ASSUME PrioritiesFall, Init PROVE RanksFall /\ QueueFalls
  OBVIOUS
<1>1. \A k \in 0 .. NUM_OF_TASK - 1 : task_list[k].priority = table[k].priority
  <2> SUFFICES ASSUME NEW k \in 0 .. NUM_OF_TASK - 1 PROVE task_list[k].priority = table[k].priority
    OBVIOUS
  <2>1. k \in Slots /\ k < NUM_OF_TASK
    BY ConstantFacts
  <2>2. task_list[k] = Row(table[k].Runtime, table[k].Period, table[k].priority)
    BY <2>1 DEF Init
  <2> QED BY <2>2 DEF Row
<1>2. table \in TaskTables /\ ~ Placing
  BY DEF Init, Placing
<1> QED BY <1>1, <1>2 DEF PrioritiesFall, RanksFall, QueueFalls

LEMMA RanksStep ==
    ASSUME PlacementInv, RanksFall, [Next]_vars PROVE RanksFall'
<1>1. \A s \in 0 .. NUM_OF_TASK - 1 : task_list'[s].priority = task_list[s].priority
  <2> SUFFICES ASSUME NEW s \in 0 .. NUM_OF_TASK - 1
               PROVE  task_list'[s].priority = task_list[s].priority
    OBVIOUS
  <2>1. s \in Slots
    BY ConstantFacts
  <2>2. CASE AssignSplit
    <3>1. s # curr_idx
      BY <2>2, SplitContext, ConstantFacts
    <3> QED BY <2>1, <2>2, <3>1, PrioritiesSplit
  <2>3. CASE ~ AssignSplit
    BY <2>1, <2>3, PrioritiesStand
  <2> QED BY <2>2, <2>3
<1> QED BY <1>1 DEF RanksFall

(* The indices of the queue are slots.                                     *)
LEMMA QueueSlots ==
    ASSUME PlacementInv, Placing
    PROVE  /\ UQ.top \in -1 .. MAX_NUM_TASKS - 1
           /\ \A k \in 0 .. UQ.top : UQ.list[k] \in Slots /\ UQ.list[k] < curr_idx
           /\ pc = "pre_assign" => \A k \in 0 .. UQ.top : UQ.list[k] \in 0 .. i - 1
<1>1. UQ.top \in -1 .. MAX_NUM_TASKS - 1
  BY DEF PlacementInv, TypeOK, TaskStacks
<1>2. /\ curr_idx >= NUM_OF_TASK /\ curr_idx <= MAX_NUM_TASKS /\ i <= NUM_OF_TASK
      /\ curr_idx \in Int /\ i \in Int
      /\ \A k \in 0 .. UQ.top : UQ.list[k] \in 0 .. (IF pc = "pre_assign" THEN i ELSE curr_idx) - 1
  BY ConstantFacts DEF PlacementInv, TypeOK, QueueInOrder
<1>3. \A k \in 0 .. UQ.top : UQ.list[k] \in 0 .. curr_idx - 1
  BY <1>2, ConstantFacts
<1> QED BY <1>1, <1>2, <1>3, ConstantFacts

LEMMA QueuePushed ==
    ASSUME PlacementInv, QueueHasRoom, Queue
    PROVE  /\ i \in 0 .. NUM_OF_TASK - 1
           /\ UQ'.top = UQ.top + 1
           /\ UQ'.list[UQ.top + 1] = i
           /\ \A k \in 0 .. UQ.top : UQ'.list[k] = UQ.list[k]
           /\ \A s \in Queued' : s = i \/ s \in Queued
<1> USE ConstantFacts
<1>1. pc = "pre_assign" /\ i \in 0 .. NUM_OF_TASK - 1 /\ Placing
  BY DEF Queue, PlacementInv, TypeOK, Placing
<1>2. UQ' = Push_task(i, UQ)
  BY <1>1 DEF Queue, PlacementInv, ManagerInOrder
<1>3. UQ \in TaskStacks /\ UQ.top \in -1 .. MAX_NUM_TASKS - 1 /\ UQ.top < i
  BY <1>1 DEF QueueHasRoom, PlacementInv, TypeOK, TaskStacks
<1>4. UQ.top < MAX_NUM_TASKS - 1 /\ i \in Slots
  BY <1>1, <1>3
<1>5. /\ UQ'.top = UQ.top + 1
      /\ UQ'.list[UQ.top + 1] = i
      /\ \A k \in 0 .. UQ.top : UQ'.list[k] = UQ.list[k]
  BY <1>2, <1>3, <1>4, PushedQueue
<1>6. \A k \in 0 .. UQ'.top : k = UQ.top + 1 \/ k \in 0 .. UQ.top
  BY <1>3, <1>5
<1> QED BY <1>1, <1>5, <1>6 DEF Queued

LEMMA FallsQueue ==
    ASSUME PlacementInv, QueueHasRoom, RanksFall, QueueFalls, Queue PROVE QueueFalls'
<1>1. pc = "pre_assign" /\ Placing /\ UNCHANGED task_list
  BY DEF Queue, Placing
<1>2. /\ i \in 0 .. NUM_OF_TASK - 1
      /\ UQ'.top = UQ.top + 1
      /\ UQ'.list[UQ.top + 1] = i
      /\ \A k \in 0 .. UQ.top : UQ'.list[k] = UQ.list[k]
  BY QueuePushed
<1>3. UQ.top \in -1 .. MAX_NUM_TASKS - 1 /\ \A k \in 0 .. UQ.top : UQ.list[k] \in 0 .. i - 1
  BY <1>1, QueueSlots
<1> SUFFICES ASSUME NEW j \in 0 .. UQ'.top, NEW k \in 0 .. UQ'.top, j < k
             PROVE  task_list[UQ'.list[k]].priority < task_list[UQ'.list[j]].priority
  BY <1>1 DEF QueueFalls
<1>4. j \in 0 .. UQ.top /\ UQ'.list[j] = UQ.list[j]
  BY <1>2, <1>3, ConstantFacts
<1>5. CASE k = UQ.top + 1
  <2>1. UQ.list[j] \in 0 .. NUM_OF_TASK - 1 /\ UQ.list[j] < i
    BY <1>2, <1>3, <1>4, ConstantFacts
  <2> QED BY <1>2, <1>4, <1>5, <2>1 DEF RanksFall
<1>6. CASE k # UQ.top + 1
  <2>1. k \in 0 .. UQ.top
    BY <1>2, <1>3, <1>6, ConstantFacts
  <2> QED BY <1>1, <1>2, <1>4, <2>1 DEF QueueFalls
<1> QED BY <1>5, <1>6

LEMMA FallsAssign ==
    ASSUME PlacementInv, QueueFalls, AssignWhole \/ AssignSplit PROVE QueueFalls'
<1> USE ConstantFacts
<1>1. InNormalAssign /\ Placing
  BY DEF AssignWhole, AssignSplit, InNormalAssign, Placing
<1>2. UQ.top \in 0 .. MAX_NUM_TASKS - 1 /\ UQ \in TaskStacks
  BY <1>1, IterationTyped DEF PlacementInv, TypeOK
<1>3. Popped(UQ) \in TaskStacks /\ Popped(UQ).list = UQ.list /\ Popped(UQ).top = UQ.top - 1
  BY <1>1, PoppedQueue
<1>4. \A j, k \in 0 .. UQ.top :
         j < k => task_list[UQ.list[k]].priority < task_list[UQ.list[j]].priority
  BY <1>1 DEF QueueFalls
<1>5. CASE AssignWhole
  <2>1. UQ' = Popped(UQ) /\ UNCHANGED task_list
    BY <1>5 DEF AssignWhole
  <2>2. \A k \in 0 .. UQ.top - 1 : k \in 0 .. UQ.top
    BY <1>2
  <2> QED BY <1>3, <1>4, <2>1, <2>2 DEF QueueFalls
<1>6. CASE AssignSplit
  <2>1. PICK T \in Slots : T = Top(UQ) /\ T = UQ.list[UQ.top] /\ T < curr_idx
    BY <1>6, SplitContext
  <2>2. /\ curr_idx \in Slots
        /\ \A k \in 0 .. UQ.top - 1 : UQ.list[k] \in Slots /\ UQ.list[k] < T
    BY <1>6, <2>1, SplitContext
  <2>3. UQ' = Push_task(curr_idx, Popped(UQ)) /\ Popped(UQ).top < MAX_NUM_TASKS - 1
    BY <1>2, <1>3, <1>6 DEF AssignSplit
  <2>4. PICK q : q = UQ'
    OBVIOUS
  <2>5. /\ q.top = Popped(UQ).top + 1
        /\ q.list[Popped(UQ).top + 1] = curr_idx
        /\ \A k \in 0 .. Popped(UQ).top : k \in 0 .. q.top /\ q.list[k] = Popped(UQ).list[k]
    BY <1>3, <2>2, <2>3, <2>4, PushedQueue
  <2>6. /\ q.top = UQ.top /\ q.list[UQ.top] = curr_idx
        /\ \A k \in 0 .. UQ.top - 1 : q.list[k] = UQ.list[k]
    BY <1>2, <1>3, <2>5
  <2>7. /\ \A s \in Slots : s # curr_idx => task_list'[s].priority = task_list[s].priority
        /\ task_list'[curr_idx].priority = task_list[T].priority
    BY <1>6, <2>1, PrioritiesSplit
  <2>8. \A k \in 0 .. UQ.top : task_list'[q.list[k]].priority = task_list[UQ.list[k]].priority
    <3> SUFFICES ASSUME NEW k \in 0 .. UQ.top
                 PROVE  task_list'[q.list[k]].priority = task_list[UQ.list[k]].priority
      OBVIOUS
    <3>1. CASE k = UQ.top
      BY <2>1, <2>6, <2>7, <3>1
    <3>2. CASE k # UQ.top
      <4>1. k \in 0 .. UQ.top - 1
        BY <1>2, <3>2
      <4>2. UQ.list[k] \in Slots /\ UQ.list[k] # curr_idx /\ q.list[k] = UQ.list[k]
        BY <2>1, <2>2, <2>6, <4>1
      <4> QED BY <2>7, <4>2
    <3> QED BY <3>1, <3>2
  <2> QED BY <1>4, <2>4, <2>6, <2>8 DEF QueueFalls
<1> QED BY <1>5, <1>6

LEMMA FallsStep ==
    ASSUME PlacementInv, QueueHasRoom, RanksFall, QueueFalls, [Next]_vars PROVE QueueFalls'
<1>1. CASE Boot \/ InitTask \/ PreAssignNull \/ ReportFull \/ NormalAssignUndefined \/ StartScheduler
  <2>1. ~ Placing'
    BY <1>1 DEF Boot, InitTask, PreAssignNull, ReportFull, NormalAssignUndefined, StartScheduler,
                Placing
  <2> QED BY <2>1 DEF QueueFalls
<1>2. CASE InitQueues
  <2>1. UQ'.top = -1
    BY <1>2, ResetTyped DEF InitQueues, PlacementInv, TypeOK
  <2> QED BY <2>1 DEF QueueFalls
<1>3. CASE PreAssign \/ PreAssignDone \/ Finished \/ UNCHANGED vars
  <2>1. UNCHANGED <<task_list, UQ>> /\ (Placing' => Placing)
    BY <1>3 DEF PreAssign, PreAssignDone, Finished, vars, Placing
  <2> QED BY <2>1 DEF QueueFalls
<1> QED BY <1>1, <1>2, <1>3, FallsQueue, FallsAssign DEF Next

(* The waiting tasks that do not outrank s, and the room the normal cores  *)
(* have for them.                                                          *)
LowerWork(s) ==
    [k \in Slots |-> IF /\ k < curr_idx /\ Waiting(k)
                        /\ task_list[k].priority <= task_list[s].priority
                       THEN task_list[k].Utilization ELSE 0]
Room(s) ==
    PrefixSum(Load, core_manager.top + 1) + PrefixSum(LowerWork(s), MAX_NUM_TASKS)
      <= (core_manager.top + 1) * Utilization_Bound

OnFullCore(s) ==
    \E c \in Cores : tcb[s].affinity = {c} /\ core_list[c].Utilization >= Utilization_Bound
Reserved(s) ==
    \E c \in Cores : /\ tcb[s].affinity = {c} /\ c > core_manager.top
                     /\ c = Top(pre_assigned_core) => Room(s)

(* A waiting task outranks every placed one, unless the placed one's core  *)
(* takes no more tasks, or takes no task that does not outrank it.         *)
Outranked ==
    Placing =>
        \A s, q \in Slots :
            q < curr_idx /\ Pinned(s) /\ Waiting(q) =>
               \/ task_list[s].priority < task_list[q].priority
               \/ OnFullCore(s)
               \/ Reserved(s)

LEMMA LowerWorkTyped ==
    ASSUME TypeOK, NEW s PROVE \A k \in 0 .. MAX_NUM_TASKS - 1 : LowerWork(s)[k] \in Nat
<1> SUFFICES ASSUME NEW k \in 0 .. MAX_NUM_TASKS - 1 PROVE LowerWork(s)[k] \in Nat
  OBVIOUS
<1>1. k \in Slots
  BY ConstantFacts
<1>2. task_list[k].Utilization \in Nat
  BY <1>1 DEF TypeOK, TaskInfos
<1> QED BY <1>1, <1>2 DEF LowerWork

LEMMA LowerWorkSum ==
    ASSUME TypeOK, NEW s PROVE PrefixSum(LowerWork(s), MAX_NUM_TASKS) \in Nat
BY LowerWorkTyped, PrefixSumNat, ConstantFacts

(* What the core of an iteration is charged.                               *)
Charge ==
    IF Fits(Top(UQ), SelectedCore) THEN task_list[Top(UQ)].Utilization ELSE SplitBody.Utilization

LEMMA AssignEffect ==
    ASSUME PlacementInv, AssignWhole \/ AssignSplit
    PROVE  /\ InNormalAssign /\ CoreIsUsable /\ Placing /\ Placing' /\ pc' # "pre_assign"
           /\ Top(UQ) \in Slots /\ Top(UQ) \in Queued /\ Top(UQ) < curr_idx
           /\ SelectedCore \in Cores
           /\ Charge \in Nat
           /\ core_list'[SelectedCore].Utilization = core_list[SelectedCore].Utilization + Charge
           /\ \A c \in Cores : c # SelectedCore
                                 => core_list'[c].Utilization = core_list[c].Utilization
           /\ \A s \in Slots : s # Top(UQ) /\ s # curr_idx => tcb'[s] = tcb[s]
           /\ core_manager' = core_manager
           /\ pre_assigned_core' = AfterUse(SelectedCore)
<1>1. /\ InNormalAssign /\ CoreIsUsable /\ Placing /\ Placing' /\ pc' # "pre_assign"
      /\ core_manager' = core_manager
      /\ pre_assigned_core' = AfterUse(SelectedCore)
  BY DEF AssignWhole, AssignSplit, InNormalAssign, Placing
<1>2. /\ UQ.top \in 0 .. MAX_NUM_TASKS - 1 /\ Top(UQ) = UQ.list[UQ.top]
      /\ Top(UQ) \in Slots /\ Top(UQ) < curr_idx /\ SelectedCore \in Cores
  BY <1>1, IterationTyped
<1>3. Top(UQ) \in Queued
  BY <1>2, ConstantFacts DEF Queued
<1>4. task_list[Top(UQ)].Utilization \in Nat /\ tcb \in TCBTables /\ core_list \in CoreTables
  BY <1>2 DEF PlacementInv, TypeOK, TaskInfos
<1>5. CASE AssignWhole
  <2>1. /\ Fits(Top(UQ), SelectedCore)
        /\ tcb' = PinnedTo(Top(UQ), SelectedCore, tcb)
        /\ core_list' = Charged(SelectedCore, task_list[Top(UQ)].Utilization)
    BY <1>5 DEF AssignWhole
  <2>2. Charge = task_list[Top(UQ)].Utilization
    BY <2>1 DEF Charge
  <2>3. /\ \A s \in Slots : s # Top(UQ) => tcb'[s] = tcb[s]
        /\ core_list'[SelectedCore].Utilization = core_list[SelectedCore].Utilization + Charge
        /\ \A c \in Cores : c # SelectedCore => core_list'[c] = core_list[c]
    <3>1. PICK T \in Slots, C \in Cores, u \in Nat :
             T = Top(UQ) /\ C = SelectedCore /\ u = Charge
      BY <1>2, <1>4, <2>2
    <3>2. tcb' = PinnedTo(T, C, tcb) /\ core_list' = Charged(C, u)
      BY <2>1, <2>2, <3>1
    <3>3. \A s \in Slots : s # T => tcb'[s] = tcb[s]
      BY <1>4, <3>2, PinTyped
    <3>4. /\ core_list'[C].Utilization = core_list[C].Utilization + u
          /\ \A c \in Cores : c # C => core_list'[c] = core_list[c]
      BY <1>4, <3>2 DEF Charged, CoreTables
    <3> QED BY <3>1, <3>3, <3>4
  <2> QED BY <1>1, <1>2, <1>3, <1>4, <2>2, <2>3
<1>6. CASE AssignSplit
  <2>1. ~ Fits(Top(UQ), SelectedCore)
    BY <1>6 DEF AssignSplit
  <2>2. Charge = SplitBody.Utilization /\ Charge \in Nat
    BY <1>6, <2>1, SplitParts DEF Charge, TaskInfos
  <2> QED BY <1>1, <1>2, <1>3, <1>6, <2>2, SplitPlacement
<1> QED BY <1>5, <1>6

(* The queue loses what the core is charged.                               *)
LEMMA WorkMoves ==
    ASSUME PlacementInv, AssignWhole \/ AssignSplit,
           NEW s \in Slots, s # curr_idx, task_list[Top(UQ)].priority <= task_list[s].priority
    PROVE  PrefixSum(LowerWork(s)', MAX_NUM_TASKS) + Charge <= PrefixSum(LowerWork(s), MAX_NUM_TASKS)
<1> USE ConstantFacts
<1>1. TypeOK /\ TypeOK'
  BY PlacementAssignWhole, PlacementAssignSplit DEF PlacementInv
<1>2. /\ InNormalAssign /\ pc' # "pre_assign" /\ pc # "pre_assign"
      /\ Top(UQ) \in Queued /\ Top(UQ) < curr_idx /\ Charge \in Nat
  BY AssignEffect DEF InNormalAssign
<1>3. PICK T \in Slots : T = Top(UQ)
  BY AssignEffect
<1> DEFINE f == LowerWork(s)
           h == LowerWork(s)'
<1>4. \A k \in 0 .. MAX_NUM_TASKS - 1 : f[k] \in Nat /\ h[k] \in Nat /\ k \in Slots
  <2>1. \A k \in 0 .. MAX_NUM_TASKS - 1 : LowerWork(s)[k] \in Nat
    BY <1>1, LowerWorkTyped
  <2>2. (TypeOK => \A k \in 0 .. MAX_NUM_TASKS - 1 : LowerWork(s)[k] \in Nat)'
    BY LowerWorkTyped, PTL
  <2>3. \A k \in 0 .. MAX_NUM_TASKS - 1 : LowerWork(s)'[k] \in Nat
    BY <1>1, <2>2
  <2> QED BY <2>1, <2>3
<1>5. f[T] = task_list[T].Utilization /\ f \in [Slots -> Nat]
  <2>1. Waiting(T) /\ T < curr_idx /\ task_list[T].priority <= task_list[s].priority
    BY <1>2, <1>3 DEF Waiting
  <2>2. f = [k \in Slots |-> f[k]]
    BY DEF LowerWork
  <2> QED BY <1>4, <2>1, <2>2 DEF LowerWork
<1>6. PICK n \in Nat : n = MAX_NUM_TASKS /\ Slots = 0 .. n - 1 /\ T \in 0 .. n - 1
  BY <1>3
<1>7. CASE AssignWhole
  <2>1. Charge = task_list[T].Utilization /\ UNCHANGED <<task_list, curr_idx>>
    BY <1>3, <1>7 DEF AssignWhole, Charge
  <2> DEFINE g == [f EXCEPT ![T] = 0]
  <2>2. \A k \in 0 .. n - 1 : g[k] \in Nat /\ (k # T => g[k] = f[k]) /\ (k = T => g[k] = 0)
    BY <1>5, <1>6
  <2>3. \A k \in 0 .. n - 1 : h[k] <= g[k]
    <3> SUFFICES ASSUME NEW k \in 0 .. n - 1 PROVE h[k] <= g[k]
      OBVIOUS
    <3>1. k \in Slots /\ g[k] \in Nat
      BY <1>6, <2>2
    <3>2. CASE k \in Queued' /\ k < curr_idx' /\ task_list'[k].priority <= task_list'[s].priority
      <4>1. k \in Queued /\ k # T
        BY <1>3, <1>7, <3>2, NextQueue DEF AssignWhole, AssignSplit
      <4>2. h[k] = task_list[k].Utilization /\ f[k] = task_list[k].Utilization
        BY <2>1, <3>1, <3>2, <4>1 DEF LowerWork, Waiting
      <4> QED BY <1>4, <1>6, <2>2, <4>1, <4>2
    <3>3. CASE ~ (k \in Queued' /\ k < curr_idx' /\ task_list'[k].priority <= task_list'[s].priority)
      <4>1. h[k] = 0
        BY <1>2, <3>1, <3>3 DEF LowerWork, Waiting
      <4> QED BY <3>1, <4>1
    <3> QED BY <3>2, <3>3
  <2>4. g[T] = 0
    BY <1>6, <2>2
  <2> HIDE DEF g
  <2> HIDE DEF f, h
  <2>5. \A k \in 0 .. n - 1 : f[k] \in Nat /\ h[k] \in Nat
    BY <1>4, <1>6
  <2>6. PrefixSum(g, n) = PrefixSum(f, n) - f[T] + g[T]
    <3>1. \A k \in 0 .. n - 1 : f[k] \in Nat /\ g[k] \in Nat
      BY <2>2, <2>5
    <3>2. \A k \in 0 .. n - 1 : k # T => g[k] = f[k]
      BY <2>2
    <3> QED BY ONLY <1>6, <3>1, <3>2, PrefixSumUpdate
  <2>7. PrefixSum(h, n) \in Nat /\ PrefixSum(g, n) \in Nat /\ PrefixSum(h, n) <= PrefixSum(g, n)
    <3>1. \A k \in 0 .. n - 1 : h[k] \in Nat /\ g[k] \in Nat /\ h[k] <= g[k]
      BY <2>2, <2>3, <2>5
    <3> QED BY ONLY <3>1, PrefixSumOrder
  <2>8. PrefixSum(f, n) \in Nat
    BY <2>5, PrefixSumNat
  <2>9. PrefixSum(h, n) + Charge <= PrefixSum(f, n)
    <3>1. PICK u \in Nat : u = Charge
      BY <1>2
    <3>2. f[T] = u /\ g[T] = 0
      BY <1>5, <2>1, <2>4, <3>1
    <3>3. PrefixSum(h, n) + u <= PrefixSum(f, n)
      BY ONLY <2>6, <2>7, <2>8, <3>1, <3>2
    <3> QED BY <3>1, <3>3
  <2> QED BY <1>6, <2>9 DEF f, h
<1>8. CASE AssignSplit
  <2>1. PICK X \in 0 .. n - 1 : X = curr_idx /\ X # T
    BY <1>3, <1>6, <1>8, SplitContext
  <2>2. /\ Charge = SplitBody.Utilization
        /\ \A k \in Slots : k # T /\ k # X => task_list'[k] = task_list[k]
        /\ task_list'[X].Utilization = SplitTail.Utilization
        /\ SplitTail.Utilization = task_list[T].Utilization - SplitBody.Utilization
        /\ SplitTail.Utilization > 0 /\ SplitTail.Utilization \in Nat
    BY <1>3, <1>8, <2>1, SplitSlots, SplitParts DEF AssignSplit, Charge, TaskInfos
  <2>3. f[X] = 0
    BY <1>6, <2>1 DEF LowerWork
  <2> DEFINE g == [f EXCEPT ![T] = 0, ![X] = SplitTail.Utilization]
  <2>4. \A k \in 0 .. n - 1 : /\ g[k] \in Nat /\ (k # T /\ k # X => g[k] = f[k])
                              /\ (k = T => g[k] = 0) /\ (k = X => g[k] = SplitTail.Utilization)
    BY <1>5, <1>6, <2>1, <2>2
  <2> HIDE DEF g
  <2>5. \A k \in 0 .. n - 1 : h[k] <= g[k]
    <3> SUFFICES ASSUME NEW k \in 0 .. n - 1 PROVE h[k] <= g[k]
      OBVIOUS
    <3>1. k \in Slots /\ g[k] \in Nat
      BY <1>6, <2>4
    <3>2. CASE k \in Queued' /\ k < curr_idx' /\ task_list'[k].priority <= task_list'[s].priority
      <4>1. h[k] = task_list'[k].Utilization
        BY <3>1, <3>2 DEF LowerWork, Waiting
      <4>2. CASE k = X
        BY <2>2, <2>4, <4>1, <4>2
      <4>3. CASE k # X
        <5>1. k \in Queued /\ k # T
          BY <1>3, <1>8, <2>1, <3>2, <4>3, NextQueue
        <5>2. k < curr_idx
          <6>1. \A j \in 0 .. UQ.top : UQ.list[j] < curr_idx
            BY QueueSlots, AssignEffect
          <6> QED BY <5>1, <6>1 DEF Queued
        <5>3. s # T => task_list'[s] = task_list[s]
          BY <1>3, <2>1, <2>2
        <5>4. task_list'[s].priority = task_list[s].priority /\ task_list'[k] = task_list[k]
          BY <1>8, <2>1, <2>2, <3>1, <4>3, <5>1, PrioritiesSplit
        <5>5. f[k] = task_list[k].Utilization
          BY <3>1, <3>2, <5>1, <5>2, <5>4 DEF LowerWork, Waiting
        <5> QED BY <1>4, <1>6, <2>4, <4>1, <4>3, <5>1, <5>4, <5>5
      <4> QED BY <4>2, <4>3
    <3>3. CASE ~ (k \in Queued' /\ k < curr_idx' /\ task_list'[k].priority <= task_list'[s].priority)
      <4>1. h[k] = 0
        BY <1>2, <3>1, <3>3 DEF LowerWork, Waiting
      <4> QED BY <3>1, <4>1
    <3> QED BY <3>2, <3>3
  <2>6. g[T] = 0 /\ g[X] = SplitTail.Utilization
    BY <1>6, <2>4
  <2> HIDE DEF f, h
  <2>7. \A k \in 0 .. n - 1 : f[k] \in Nat /\ h[k] \in Nat
    BY <1>4, <1>6
  <2>8. PrefixSum(g, n) = PrefixSum(f, n) - f[T] + g[T] - f[X] + g[X]
    <3>1. \A k \in 0 .. n - 1 : f[k] \in Nat /\ g[k] \in Nat
      BY <2>4, <2>7
    <3>2. \A k \in 0 .. n - 1 : k # T /\ k # X => g[k] = f[k]
      BY <2>4
    <3>3. n \in Nat /\ T \in 0 .. n - 1 /\ X \in 0 .. n - 1 /\ T # X
      BY <1>6, <2>1
    <3> QED BY ONLY <3>1, <3>2, <3>3, PrefixSumUpdateTwo
  <2>9. PrefixSum(h, n) \in Nat /\ PrefixSum(g, n) \in Nat /\ PrefixSum(h, n) <= PrefixSum(g, n)
    <3>1. \A k \in 0 .. n - 1 : h[k] \in Nat /\ g[k] \in Nat /\ h[k] <= g[k]
      BY <2>4, <2>5, <2>7
    <3> QED BY ONLY <3>1, PrefixSumOrder
  <2>10. PrefixSum(f, n) \in Nat
    BY <2>7, PrefixSumNat
  <2>11. f[T] \in Nat
    BY <1>6, <2>7
  <2>12. PrefixSum(h, n) + Charge <= PrefixSum(f, n)
    <3>1. PICK b \in Nat : b = Charge
      BY <1>2
    <3>2. PICK v \in Nat : v = SplitTail.Utilization
      BY <2>2
    <3>3. f[T] = b + v /\ f[X] = 0 /\ g[T] = 0 /\ g[X] = v
      BY <1>5, <2>2, <2>3, <2>6, <2>11, <3>1, <3>2
    <3>4. PrefixSum(h, n) + b <= PrefixSum(f, n)
      BY ONLY <2>8, <2>9, <2>10, <3>1, <3>2, <3>3
    <3> QED BY <3>1, <3>4
  <2> QED BY <1>6, <2>12 DEF f, h
<1> QED BY <1>7, <1>8

LEMMA LoadGrows ==
    ASSUME PlacementInv, CoresParted, AssignWhole \/ AssignSplit
    PROVE  /\ core_manager.top \in Cores
           /\ \A c \in Cores : core_list'[c].Utilization >= core_list[c].Utilization
           /\ PrefixSum(Load, core_manager.top + 1) \in Nat
           /\ PrefixSum(Load', core_manager.top + 1) \in Nat
           /\ PrefixSum(Load', core_manager.top + 1)
                <= PrefixSum(Load, core_manager.top + 1) + Charge
<1> USE ConstantFacts
<1>1. /\ Charge \in Nat
      /\ core_list'[SelectedCore].Utilization = core_list[SelectedCore].Utilization + Charge
      /\ \A c \in Cores : c # SelectedCore => core_list'[c].Utilization = core_list[c].Utilization
      /\ InNormalAssign /\ CoreIsUsable
  BY AssignEffect
<1>2. core_manager.top \in Cores
  BY <1>1, CoreTaken
<1>3. PICK C \in Cores : C = SelectedCore
  BY AssignEffect
<1>4. \A c \in Cores : core_list[c].Utilization \in Nat
  BY DEF PlacementInv, TypeOK, CoreTables
<1>5. PICK m \in Nat : m = core_manager.top + 1
  BY <1>2
<1>6. \A c \in 0 .. m - 1 : c \in Cores
  BY <1>2, <1>5
<1> DEFINE f == Load
           h == Load'
<1>7. \A c \in Cores : f[c] = core_list[c].Utilization /\ h[c] = core_list'[c].Utilization
  BY DEF Load
<1> HIDE DEF f, h
<1>8. /\ \A c \in 0 .. m - 1 : f[c] \in Nat /\ h[c] \in Nat
      /\ \A c \in 0 .. m - 1 : c # C => h[c] = f[c]
      /\ C \in 0 .. m - 1 => h[C] = f[C] + Charge
  <2>1. h[C] = f[C] + Charge /\ h[C] \in Nat
    BY <1>1, <1>3, <1>4, <1>7
  <2>2. \A c \in Cores : c # C => h[c] = f[c]
    BY <1>1, <1>3, <1>7
  <2>3. \A c \in Cores : f[c] \in Nat /\ h[c] \in Nat
    BY <1>4, <1>7, <2>1, <2>2
  <2> QED BY <1>6, <2>1, <2>2, <2>3
<1>9. PrefixSum(f, m) \in Nat /\ PrefixSum(h, m) \in Nat
  BY <1>8, PrefixSumNat
<1>10. PrefixSum(h, m) <= PrefixSum(f, m) + Charge
  <2>1. CASE C \in 0 .. m - 1
    <3>1. PrefixSum(h, m) = PrefixSum(f, m) - f[C] + h[C]
      <4>1. /\ m \in Nat
            /\ \A c \in 0 .. m - 1 : f[c] \in Nat /\ h[c] \in Nat
            /\ \A c \in 0 .. m - 1 : c # C => h[c] = f[c]
        BY <1>5, <1>8
      <4> QED BY ONLY <4>1, <2>1, PrefixSumUpdate
    <3>2. f[C] \in Nat /\ h[C] = f[C] + Charge
      BY <1>8, <2>1
    <3> QED BY <1>1, <1>9, <3>1, <3>2
  <2>2. CASE C \notin 0 .. m - 1
    <3>1. \A c \in 0 .. m - 1 : h[c] = f[c]
      BY <1>8, <2>2
    <3>2. PrefixSum(h, m) = PrefixSum(f, m)
      BY <1>5, <3>1, PrefixSumSame
    <3> QED BY <1>1, <1>9, <3>2
  <2> QED BY <2>1, <2>2
<1>11. \A c \in Cores : core_list'[c].Utilization >= core_list[c].Utilization
  BY <1>1, <1>3, <1>4
<1> QED BY <1>2, <1>5, <1>9, <1>10, <1>11 DEF f, h

LEMMA RoomKept ==
    ASSUME PlacementInv, CoresParted, AssignWhole \/ AssignSplit,
           NEW s \in Slots, s # curr_idx, task_list[Top(UQ)].priority <= task_list[s].priority,
           Room(s)
    PROVE  Room(s)'
<1>1. PrefixSum(LowerWork(s)', MAX_NUM_TASKS) + Charge <= PrefixSum(LowerWork(s), MAX_NUM_TASKS)
  BY WorkMoves
<1>2. /\ PrefixSum(Load, core_manager.top + 1) \in Nat
      /\ PrefixSum(Load', core_manager.top + 1) \in Nat
      /\ PrefixSum(Load', core_manager.top + 1) <= PrefixSum(Load, core_manager.top + 1) + Charge
      /\ core_manager.top \in Nat
  BY LoadGrows, ConstantFacts
<1>3. Charge \in Nat /\ core_manager' = core_manager
  BY AssignEffect
<1>4. PrefixSum(LowerWork(s), MAX_NUM_TASKS) \in Nat /\ PrefixSum(LowerWork(s)', MAX_NUM_TASKS) \in Nat
  <2>1. TypeOK /\ TypeOK'
    BY PlacementAssignWhole, PlacementAssignSplit DEF PlacementInv
  <2>2. (TypeOK => PrefixSum(LowerWork(s), MAX_NUM_TASKS) \in Nat)'
    BY LowerWorkSum, PTL
  <2> QED BY <2>1, <2>2, LowerWorkSum
<1>5. PICK b \in Nat : b = (core_manager.top + 1) * Utilization_Bound
  BY <1>2, ConstantFacts
<1>6. PrefixSum(Load, core_manager.top + 1) + PrefixSum(LowerWork(s), MAX_NUM_TASKS) <= b
  BY <1>5 DEF Room
<1>7. PICK x \in Nat, y \in Nat, v \in Nat, w \in Nat, u \in Nat :
         /\ x = PrefixSum(Load, core_manager.top + 1) /\ y = PrefixSum(Load', core_manager.top + 1)
         /\ v = PrefixSum(LowerWork(s), MAX_NUM_TASKS) /\ w = PrefixSum(LowerWork(s)', MAX_NUM_TASKS)
         /\ u = Charge
  BY <1>2, <1>3, <1>4
<1>8. w + u <= v /\ y <= x + u /\ x + v <= b
  BY <1>1, <1>2, <1>6, <1>7
<1>9. y + w <= b
  BY ONLY <1>8, b \in Nat, x \in Nat, y \in Nat, v \in Nat, w \in Nat, u \in Nat
<1>10. PrefixSum(Load', core_manager'.top + 1) + PrefixSum(LowerWork(s)', MAX_NUM_TASKS)
          <= (core_manager'.top + 1) * Utilization_Bound
  BY <1>3, <1>5, <1>7, <1>9
<1> QED BY <1>10 DEF Room

LEMMA OtherPriorities ==
    ASSUME PlacementInv, AssignWhole \/ AssignSplit, NEW s \in Slots, s # curr_idx
    PROVE  task_list'[s].priority = task_list[s].priority
<1>1. CASE AssignSplit
  BY <1>1, PrioritiesSplit
<1>2. CASE AssignWhole
  BY <1>2 DEF AssignWhole
<1> QED BY <1>1, <1>2

(* The next free slot holds no pinned task, before or after an iteration.  *)
LEMMA NextSlotUnpinned ==
    ASSUME SeveralCores, PlacementInv, AssignWhole \/ AssignSplit, NEW X \in Slots, X = curr_idx
    PROVE  ~ Pinned(X)'
<1>1. Unplaced(tcb'[X])
  <2>1. CASE AssignSplit
    BY <2>1, SplitPlacement
  <2>2. CASE AssignWhole
    <3>1. Placing /\ X # Top(UQ) /\ X >= curr_idx
      BY <2>2, AssignEffect, ConstantFacts DEF PlacementInv, TypeOK
    <3>2. tcb[X] = NoTCB
      BY <3>1 DEF PlacementInv, WaitingUnplaced
    <3>3. tcb'[X] = tcb[X]
      <4>1. PICK T \in Slots, C \in Cores : T = Top(UQ) /\ C = SelectedCore
        BY AssignEffect
      <4>2. tcb' = PinnedTo(T, C, tcb) /\ tcb \in TCBTables /\ X # T
        BY <2>2, <3>1, <4>1 DEF AssignWhole, PlacementInv, TypeOK
      <4> QED BY <4>2, PinTyped
    <3> QED BY <3>2, <3>3 DEF NoTCB, Unplaced
  <2> QED BY <2>1, <2>2
<1>2. \A c \in Cores : tcb'[X].affinity # {c}
  BY <1>1, UnplacedSharesNothing
<1> QED BY <1>2 DEF Pinned

LEMMA OutrankedAssign ==
    ASSUME SeveralCores, PlacementInv, AssignedInv, CoresParted, QueueFalls, Outranked,
           AssignWhole \/ AssignSplit
    PROVE  Outranked'
<1> USE ConstantFacts
<1> SUFFICES ASSUME NEW s \in Slots, NEW q \in Slots, q < curr_idx', Pinned(s)', Waiting(q)'
             PROVE  \/ task_list'[s].priority < task_list'[q].priority
                    \/ OnFullCore(s)'
                    \/ Reserved(s)'
  BY DEF Outranked
<1>1. /\ InNormalAssign /\ CoreIsUsable /\ Placing /\ pc' # "pre_assign"
      /\ Top(UQ) \in Slots /\ Top(UQ) \in Queued /\ Top(UQ) < curr_idx
      /\ core_manager' = core_manager /\ pre_assigned_core' = AfterUse(SelectedCore)
  BY AssignEffect
<1>2. PICK T \in Slots : T = Top(UQ)
  BY <1>1
<1>3. PICK C \in Cores : C = SelectedCore
  BY AssignEffect
<1>4. /\ tcb'[T].affinity \in {{}, {C}}
      /\ \A r \in Slots : r # T /\ r # curr_idx => tcb'[r] = tcb[r]
      /\ core_list'[C].Utilization = core_list[C].Utilization + Charge
  BY <1>2, <1>3, AssignEffect, IterationPins
<1>5. s # curr_idx
  BY NextSlotUnpinned
<1>6. \A x \in Slots : x # curr_idx => task_list'[x].priority = task_list[x].priority
  BY OtherPriorities
(* q was waiting, or is the tail of the task that was on top.              *)
<1>7. PICK r \in Slots : /\ Waiting(r) /\ r < curr_idx
                         /\ task_list[r].priority = task_list'[q].priority
                         /\ task_list[T].priority <= task_list[r].priority
                         /\ AssignWhole => task_list[T].priority < task_list[r].priority
  <2>1. q \in Queued'
    BY <1>1 DEF Waiting
  <2>2. task_list[T].priority \in Nat
    BY DEF PlacementInv, TypeOK, TaskInfos
  <2>3. CASE q \in Queued /\ q # T /\ q # curr_idx
    <3>1. PICK k \in 0 .. UQ.top : q = UQ.list[k]
      BY <2>3 DEF Queued
    <3>2. UQ.top \in 0 .. MAX_NUM_TASKS - 1 /\ T = UQ.list[UQ.top]
      BY <1>1, <1>2, IterationTyped
    <3>3. q < curr_idx
      BY <1>1, <3>1, QueueSlots
    <3>4. k < UQ.top
      BY <2>3, <3>1, <3>2
    <3>5. task_list[T].priority < task_list[q].priority
      BY <1>1, <3>1, <3>2, <3>4 DEF QueueFalls
    <3>6. task_list'[q].priority = task_list[q].priority
      BY <1>6, <2>3
    <3>7. task_list[q].priority \in Nat
      BY DEF PlacementInv, TypeOK, TaskInfos
    <3> QED BY <2>2, <2>3, <3>3, <3>5, <3>6, <3>7 DEF Waiting
  <2>4. CASE AssignSplit /\ q = curr_idx
    <3>1. task_list'[q].priority = task_list[T].priority
      BY <1>2, <2>4, PrioritiesSplit
    <3>2. Waiting(T) /\ T < curr_idx
      BY <1>1, <1>2 DEF Waiting
    <3>3. ~ AssignWhole
      BY <2>4 DEF AssignWhole, AssignSplit
    <3> QED BY <2>2, <3>1, <3>2, <3>3
  <2>5. q = curr_idx => AssignSplit
    <3>1. AssignWhole => q # curr_idx
      BY DEF AssignWhole, PlacementInv, TypeOK
    <3> QED BY <3>1
  <2> QED BY <1>2, <2>1, <2>3, <2>4, <2>5, NextQueue
<1>8. task_list[s].priority \in Nat /\ task_list[r].priority \in Nat /\ task_list[T].priority \in Nat
  BY DEF PlacementInv, TypeOK, TaskInfos
<1>9. CASE s = T
  <2>1. CASE AssignWhole
    BY <1>5, <1>6, <1>7, <1>9, <2>1
  <2>2. CASE AssignSplit
    <3>1. core_list[C].Utilization \in Nat
      BY DEF PlacementInv, TypeOK, CoreTables
    <3>2. Charge = Utilization_Bound - core_list[C].Utilization
      BY <1>3, <2>2, SplitParts DEF AssignSplit, Charge
    <3>4. Utilization_Bound \in Nat
      OBVIOUS
    <3>3. core_list'[C].Utilization >= Utilization_Bound
      BY ONLY <1>4, <3>1, <3>2, <3>4
    <3>5. tcb'[T].affinity = {C}
      BY <1>4, <1>9 DEF Pinned
    <3> QED BY <1>9, <3>3, <3>5 DEF OnFullCore
  <2> QED BY <2>1, <2>2
<1>10. CASE s # T
  <2>1. tcb'[s] = tcb[s] /\ Pinned(s)
    <3>1. tcb'[s] = tcb[s]
      BY <1>4, <1>5, <1>10
    <3> QED BY <3>1 DEF Pinned
  <2>2. \/ task_list[s].priority < task_list[r].priority \/ OnFullCore(s) \/ Reserved(s)
    BY <1>1, <1>7, <2>1 DEF Outranked
  <2>3. CASE task_list[s].priority < task_list[r].priority
    BY <1>5, <1>6, <1>7, <2>3
  <2>4. CASE OnFullCore(s)
    <3>1. PICK c \in Cores : tcb[s].affinity = {c} /\ core_list[c].Utilization >= Utilization_Bound
      BY <2>4 DEF OnFullCore
    <3>2. core_list'[c].Utilization >= core_list[c].Utilization
      BY LoadGrows
    <3>3. core_list'[c].Utilization \in Nat /\ core_list[c].Utilization \in Nat
      BY PlacementAssignWhole, PlacementAssignSplit DEF PlacementInv, TypeOK, CoreTables
    <3>5. Utilization_Bound \in Nat
      OBVIOUS
    <3>4. core_list'[c].Utilization >= Utilization_Bound
      BY ONLY <3>1, <3>2, <3>3, <3>5
    <3> QED BY <2>1, <3>1, <3>4 DEF OnFullCore
  <2>5. CASE Reserved(s) /\ ~ task_list[s].priority < task_list[r].priority
    <3>1. PICK c \in Cores : /\ tcb[s].affinity = {c} /\ c > core_manager.top
                             /\ c = Top(pre_assigned_core) => Room(s)
      BY <2>5 DEF Reserved
    <3>2. task_list[T].priority <= task_list[s].priority
      BY <1>7, <1>8, <2>5
    <3>3. Top(pre_assigned_core') = Top(pre_assigned_core)
      <4>1. /\ AfterUse(SelectedCore).top = pre_assigned_core.top
            /\ \A k \in 0 .. pre_assigned_core.top :
                  AfterUse(SelectedCore).list[k] = pre_assigned_core.list[k]
        BY <1>1, CoreTaken
      <4>2. pre_assigned_core.top \in Int
        BY DEF PlacementInv, TypeOK, CoreStacks
      <4>3. ~ pre_assigned_core.top < 0 => pre_assigned_core.top \in 0 .. pre_assigned_core.top
        BY <4>2
      <4> QED BY <1>1, <4>1, <4>3 DEF Top, is_empty
    <3>4. Room(s) => Room(s)'
      BY <1>2, <1>5, <3>2, RoomKept
    <3> QED BY <1>1, <2>1, <3>1, <3>3, <3>4 DEF Reserved
  <2> QED BY <2>2, <2>3, <2>4, <2>5
<1> QED BY <1>9, <1>10

(* A step that only drops tasks from those waiting.                        *)
LEMMA OutrankedStill ==
    ASSUME PlacementInv, Outranked, Placing,
           UNCHANGED <<task_list, tcb, core_list, core_manager, pre_assigned_core, curr_idx>>,
           \A k \in Slots : k < curr_idx /\ Waiting(k)' => Waiting(k)
    PROVE  Outranked'
<1> USE ConstantFacts
<1>1. ASSUME NEW s \in Slots, Room(s) PROVE Room(s)'
  <2> DEFINE f == LowerWork(s)'
             g == LowerWork(s)
  <2>1. \A k \in 0 .. MAX_NUM_TASKS - 1 : g[k] \in Nat
    BY LowerWorkTyped DEF PlacementInv
  <2>2. \A k \in 0 .. MAX_NUM_TASKS - 1 : f[k] = 0 \/ f[k] = g[k]
    <3> SUFFICES ASSUME NEW k \in Slots PROVE f[k] = 0 \/ f[k] = g[k]
      OBVIOUS
    <3> QED BY DEF LowerWork
  <2> HIDE DEF f, g
  <2>3. \A k \in 0 .. MAX_NUM_TASKS - 1 : f[k] \in Nat /\ g[k] \in Nat /\ f[k] <= g[k]
    BY <2>1, <2>2
  <2>4. PICK v \in Nat, w \in Nat : v = PrefixSum(f, MAX_NUM_TASKS) /\ w = PrefixSum(g, MAX_NUM_TASKS) /\ v <= w
    BY <2>3, PrefixSumOrder
  <2>5. Load' = Load
    BY DEF Load
  <2>6. core_manager.top \in Int /\ \A c \in Cores : core_list[c].Utilization \in Nat
    BY DEF PlacementInv, TypeOK, CoreStacks, CoreTables
  <2>7. core_manager.top + 1 \in Nat /\ \A c \in 0 .. core_manager.top : c \in Cores
    BY DEF PlacementInv, TypeOK, CoreStacks
  <2>8. PICK x \in Nat : x = PrefixSum(Load, core_manager.top + 1)
    <3>1. \A c \in 0 .. (core_manager.top + 1) - 1 : Load[c] \in Nat
      BY <2>6, <2>7 DEF Load
    <3> QED BY <2>7, <3>1, PrefixSumNat
  <2>9. PICK b \in Nat : b = (core_manager.top + 1) * Utilization_Bound
    BY <2>7
  <2>10. x + w <= b
    BY <1>1, <2>4, <2>8, <2>9 DEF Room, g
  <2>11. x + v <= b
    BY ONLY <2>4, <2>10, x \in Nat, b \in Nat
  <2>12. PrefixSum(Load', core_manager'.top + 1) + PrefixSum(f, MAX_NUM_TASKS)
            <= (core_manager'.top + 1) * Utilization_Bound
    BY <2>4, <2>5, <2>8, <2>9, <2>11
  <2> QED BY <2>12 DEF Room, f
<1> SUFFICES ASSUME NEW s \in Slots, NEW q \in Slots, q < curr_idx', Pinned(s)', Waiting(q)'
             PROVE  \/ task_list'[s].priority < task_list'[q].priority
                    \/ OnFullCore(s)'
                    \/ Reserved(s)'
  BY DEF Outranked
<1>2. Pinned(s) /\ Waiting(q) /\ q < curr_idx
  BY DEF Pinned
<1>3. \/ task_list[s].priority < task_list[q].priority \/ OnFullCore(s) \/ Reserved(s)
  BY <1>2 DEF Outranked
<1>4. OnFullCore(s) => OnFullCore(s)'
  BY DEF OnFullCore
<1>5. Reserved(s) => Reserved(s)'
  BY <1>1 DEF Reserved, Top, is_empty
<1> QED BY <1>3, <1>4, <1>5

LEMMA OutrankedQueue ==
    ASSUME PlacementInv, QueueHasRoom, Outranked, Queue \/ PreAssignDone PROVE Outranked'
<1>1. /\ Placing /\ pc = "pre_assign"
      /\ UNCHANGED <<task_list, tcb, core_list, core_manager, pre_assigned_core, curr_idx>>
  BY DEF Queue, PreAssignDone, Placing
<1>2. \A k \in Slots : Waiting(k)' => Waiting(k)
  <2>1. CASE Queue
    <3>1. /\ i \in 0 .. NUM_OF_TASK - 1 /\ i' = i + 1
          /\ \A s \in Queued' : s = i \/ s \in Queued
      BY <2>1, QueuePushed DEF Queue
    <3> QED BY <1>1, <3>1, ConstantFacts DEF Waiting
  <2>2. CASE PreAssignDone
    <3>1. Queued' = Queued /\ pc' # "pre_assign"
      BY <2>2 DEF PreAssignDone, Queued
    <3> QED BY <3>1 DEF Waiting
  <2> QED BY <2>1, <2>2
<1> QED BY <1>1, <1>2, OutrankedStill

(* simple_test: the tasks behind a heavy task fit the other normal cores.  *)
LEMMA RoomReserved ==
    ASSUME PlacementInv, PieceInv, RanksFall, PreAssign, NEW s \in Slots, s = i
    PROVE  Room(s)'
<1> USE ConstantFacts
<1>1. /\ pc = "pre_assign" /\ Placing /\ s \in 0 .. NUM_OF_TASK - 1
      /\ core_manager'.top = core_manager.top - 1
      /\ UNCHANGED <<pc, task_list, UQ, curr_idx, task_manager>> /\ i' = s + 1
  BY PreAssignEffect DEF PreAssign, Placing
<1>2. PICK t \in Cores : t = core_manager.top
  BY PreAssignEffect
<1>3. curr_idx = NUM_OF_TASK
  BY <1>1 DEF PlacementInv, QueueInOrder
<1>4. PrefixSum(Load', t) = 0
  <2>1. \A c \in Cores : c # t => core_list'[c].Utilization = core_list[c].Utilization
    BY <1>2, PreAssignEffect
  <2>2. \A c \in 0 .. t : core_list[c].Utilization = 0
    BY <1>1, <1>2 DEF PieceInv, NormalCoresEmpty
  <2>3. \A c \in 0 .. t - 1 : c \in Cores /\ c # t /\ c \in 0 .. t
    BY <1>2
  <2>4. \A c \in 0 .. t - 1 : Load'[c] = 0
    BY <2>1, <2>2, <2>3 DEF Load
  <2> QED BY <1>2, <2>4, PrefixSumNat
<1> DEFINE f == LowerWork(s)'
           g == [k \in 0 .. NUM_OF_TASK - s - 2 |-> task_list[task_manager.list[s + 1 + k]].Utilization]
<1>5. \A k \in Slots :
         f[k] = IF k < NUM_OF_TASK /\ (k \in Queued \/ k >= s + 1)
                      /\ task_list[k].priority <= task_list[s].priority
                  THEN task_list[k].Utilization ELSE 0
  <2>1. Queued' = Queued
    BY <1>1 DEF Queued
  <2> QED BY <1>1, <1>3, <2>1 DEF LowerWork, Waiting
<1>6. \A k \in Slots : task_list[k].priority \in Nat /\ task_list[k].Utilization \in Nat
  BY DEF PlacementInv, TypeOK, TaskInfos
<1>7. PICK m \in Nat, n \in Nat, r \in Nat :
         m = s + 1 /\ n = NUM_OF_TASK - s - 1 /\ r = MAX_NUM_TASKS - NUM_OF_TASK
  BY <1>1
<1> HIDE DEF f
<1>8. \A k \in 0 .. m - 1 : f[k] = 0
  <2> SUFFICES ASSUME NEW k \in 0 .. m - 1 PROVE f[k] = 0
    OBVIOUS
  <2>1. k \in 0 .. NUM_OF_TASK - 1 /\ k <= s /\ k \in Slots
    BY <1>1, <1>7
  <2>2. CASE k = s
    <3>1. \A j \in 0 .. UQ.top : UQ.list[j] \in 0 .. i - 1
      BY <1>1, QueueSlots
    <3>2. s \notin Queued
      BY <3>1 DEF Queued
    <3> QED BY <1>1, <1>5, <2>1, <2>2, <3>2
  <2>3. CASE k # s
    <3>1. task_list[s].priority < task_list[k].priority
      BY <1>1, <2>1, <2>3 DEF RanksFall
    <3>2. ~ task_list[k].priority <= task_list[s].priority
      BY <1>6, <2>1, <3>1
    <3> QED BY <1>5, <2>1, <3>2
  <2> QED BY <2>2, <2>3
<1>9. \A k \in 0 .. n - 1 : f[m + k] = g[k] /\ g[k] \in Nat
  <2> SUFFICES ASSUME NEW k \in 0 .. n - 1 PROVE f[m + k] = g[k] /\ g[k] \in Nat
    OBVIOUS
  <2>1. /\ m + k \in 0 .. NUM_OF_TASK - 1 /\ m + k = s + 1 + k /\ m + k > s
        /\ k \in 0 .. NUM_OF_TASK - s - 2 /\ m + k < NUM_OF_TASK /\ m + k >= s + 1
    BY <1>1, <1>7
  <2>2. PICK x \in 0 .. NUM_OF_TASK - 1 : x = m + k
    BY <2>1
  <2>3. x \in Slots /\ x > s /\ x = s + 1 + k /\ x < NUM_OF_TASK /\ x >= s + 1
    BY <2>1, <2>2
  <2>4. task_manager.list[x] = x
    BY <1>1, <2>2 DEF PlacementInv, ManagerInOrder
  <2>5. g[k] = task_list[x].Utilization
    BY <2>1, <2>3, <2>4
  <2>6. task_list[x].priority <= task_list[s].priority
    <3>1. task_list[x].priority < task_list[s].priority
      BY <1>1, <2>2, <2>3 DEF RanksFall
    <3> QED BY <1>6, <2>3, <3>1
  <2>7. f[x] = task_list[x].Utilization
    BY <1>5, <2>3, <2>6
  <2> QED BY <1>6, <2>2, <2>3, <2>5, <2>7
<1>10. \A k \in 0 .. r - 1 : f[m + n + k] = 0
  <2> SUFFICES ASSUME NEW k \in 0 .. r - 1 PROVE f[m + n + k] = 0
    OBVIOUS
  <2>1. m + n + k \in Slots /\ ~ m + n + k < NUM_OF_TASK
    BY <1>1, <1>7
  <2> QED BY <1>5, <2>1
<1>11. m + n + r = MAX_NUM_TASKS /\ n = NUM_OF_TASK - i - 1
  BY <1>1, <1>7
<1>12. PrefixSum(f, MAX_NUM_TASKS) = PrefixSum(g, n) /\ PrefixSum(g, n) \in Nat
  <2> HIDE DEF g
  <2>1. PICK F, G : F = f /\ G = g
    OBVIOUS
  <2>2. /\ \A k \in 0 .. m - 1 : F[k] = 0
        /\ \A k \in 0 .. n - 1 : F[m + k] = G[k]
        /\ \A k \in 0 .. r - 1 : F[m + n + k] = 0
        /\ \A k \in 0 .. n - 1 : G[k] \in Nat
    BY <1>8, <1>9, <1>10, <2>1
  <2>3. m \in Nat /\ n \in Nat /\ r \in Nat
    BY <1>7
  <2>4. SegmentOf(F, G, m, n, r)
    BY ONLY <2>2 DEF SegmentOf
  <2>5. PrefixSum(F, m + n + r) = PrefixSum(G, n)
    BY ONLY <2>3, <2>4, PrefixSumSegment
  <2> QED BY <1>9, <1>11, <2>1, <2>5, PrefixSumNat
<1>13. PrefixSum(g, n) = LowerUtilization(i, task_list, task_manager)
  BY <1>11 DEF LowerUtilization
<1>14. ~ (LowerUtilization(i, task_list, task_manager) > t * Utilization_Bound)
  <2>1. TakesOwnCore(task_manager.list[i])
    BY DEF PreAssign
  <2> QED BY <1>2, <2>1 DEF TakesOwnCore, simple_test
<1> HIDE DEF g
<1>15. PICK w \in Nat : w = PrefixSum(f, MAX_NUM_TASKS) /\ w <= t * Utilization_Bound
  <2>1. t * Utilization_Bound \in Nat
    BY <1>2
  <2> QED BY <1>12, <1>13, <1>14, <2>1
<1>16. core_manager'.top + 1 = t
  BY <1>1, <1>2
<1>17. PrefixSum(Load', core_manager'.top + 1) + PrefixSum(f, MAX_NUM_TASKS)
          <= (core_manager'.top + 1) * Utilization_Bound
  BY <1>4, <1>15, <1>16
<1> QED BY <1>17 DEF Room, f

LEMMA OutrankedPreAssign ==
    ASSUME PlacementInv, AssignedInv, PieceInv, CoresParted, RanksFall, Outranked, PreAssign
    PROVE  Outranked'
<1> USE ConstantFacts
<1> SUFFICES ASSUME NEW s \in Slots, NEW q \in Slots, q < curr_idx', Pinned(s)', Waiting(q)'
             PROVE  \/ task_list'[s].priority < task_list'[q].priority
                    \/ OnFullCore(s)'
                    \/ Reserved(s)'
  BY DEF Outranked
<1>1. /\ pc = "pre_assign" /\ Placing /\ i \in 0 .. NUM_OF_TASK - 1
      /\ core_manager'.top = core_manager.top - 1
      /\ UNCHANGED <<pc, task_list, UQ, curr_idx>> /\ i' = i + 1
  BY PreAssignEffect DEF PreAssign, Placing
<1>2. PICK t \in Cores : t = core_manager.top
  BY PreAssignEffect
<1>3. Top(pre_assigned_core') = t
  BY <1>2, PartedPreAssign
<1>4. CASE s = i
  <2>1. tcb'[s].affinity = {t} /\ t > core_manager'.top
    <3>1. task_list[i].my_ptr = NULL => tcb'[s].affinity = {}
      BY <1>4, PreAssignEffect DEF AssignedInv, MasksMatch, Mask
    <3>2. tcb'[s].affinity # {}
      BY DEF Pinned
    <3> QED BY <1>1, <1>2, <1>4, <3>1, <3>2, PreAssignEffect
  <2>2. Room(s)'
    BY <1>4, RoomReserved
  <2> QED BY <2>1, <2>2 DEF Reserved
<1>5. CASE s # i
  <2>1. tcb'[s] = tcb[s]
    BY <1>5, PreAssignEffect
  <2>2. Pinned(s) /\ Waiting(q)
    <3>1. Queued' = Queued
      BY <1>1 DEF Queued
    <3> QED BY <1>1, <2>1, <3>1 DEF Pinned, Waiting
  <2>3. \/ task_list[s].priority < task_list[q].priority \/ OnFullCore(s) \/ Reserved(s)
    BY <1>1, <2>2 DEF Outranked
  <2>4. CASE OnFullCore(s)
    <3>1. PICK c \in Cores : tcb[s].affinity = {c} /\ core_list[c].Utilization >= Utilization_Bound
      BY <2>4 DEF OnFullCore
    <3>2. core_list[c].Utilization \in Nat /\ task_list[i].Utilization \in Nat
      BY PreAssignEffect DEF PlacementInv, TypeOK, CoreTables
    <3>3. \/ core_list'[c].Utilization = core_list[c].Utilization
          \/ core_list'[c].Utilization = core_list[c].Utilization + task_list[i].Utilization
      BY PreAssignEffect
    <3>5. Utilization_Bound \in Nat
      OBVIOUS
    <3>4. core_list'[c].Utilization >= Utilization_Bound
      BY ONLY <3>1, <3>2, <3>3, <3>5
    <3> QED BY <2>1, <3>1, <3>4 DEF OnFullCore
  <2>5. CASE Reserved(s)
    <3>1. PICK c \in Cores : tcb[s].affinity = {c} /\ c > core_manager.top
      BY <2>5 DEF Reserved
    <3>2. c > core_manager'.top /\ c # Top(pre_assigned_core')
      BY <1>1, <1>2, <1>3, <3>1
    <3> QED BY <2>1, <3>1, <3>2 DEF Reserved
  <2> QED BY <1>1, <2>3, <2>4, <2>5
<1> QED BY <1>4, <1>5

LEMMA OutrankedStep ==
    ASSUME SeveralCores, PlacementInv, AssignedInv, PieceInv, QueueHasRoom, CoresParted, RanksFall,
           QueueFalls, Outranked, [Next]_vars
    PROVE  Outranked'
<1>1. CASE Boot \/ InitTask \/ PreAssignNull \/ ReportFull \/ NormalAssignUndefined \/ StartScheduler
  <2>1. ~ Placing'
    BY <1>1 DEF Boot, InitTask, PreAssignNull, ReportFull, NormalAssignUndefined, StartScheduler,
                Placing
  <2> QED BY <2>1 DEF Outranked
<1>2. CASE InitQueues
  <2>1. Booting /\ UNCHANGED tcb
    BY <1>2 DEF InitQueues, Booting
  <2>2. \A s \in Slots : Unplaced(tcb[s])
    BY <2>1 DEF PlacementInv, WaitingUnplaced
  <2>3. \A s \in Slots : ~ Pinned(s)
    BY <2>2, UnplacedNotPinned
  <2>4. \A s \in Slots : ~ Pinned(s)'
    BY <2>1, <2>3 DEF Pinned
  <2> QED BY <2>4 DEF Outranked
<1>3. CASE Finished \/ UNCHANGED vars
  <2>1. Placing' = Placing
    BY <1>3 DEF Finished, vars, Placing
  <2>2. CASE Placing
    <3>1. UNCHANGED <<task_list, tcb, core_list, core_manager, pre_assigned_core, curr_idx>>
      BY <1>3 DEF Finished, vars
    <3>2. \A k \in Slots : Waiting(k)' => Waiting(k)
      BY <1>3 DEF Finished, vars, Waiting, Queued
    <3> QED BY <2>2, <3>1, <3>2, OutrankedStill
  <2>3. CASE ~ Placing
    BY <2>1, <2>3 DEF Outranked
  <2> QED BY <2>2, <2>3
<1> QED BY <1>1, <1>2, <1>3, OutrankedAssign, OutrankedPreAssign, OutrankedQueue DEF Next

(* A task that is split outranks what is already on the core it fills:     *)
(* the core has room, and a reserved one only takes it when the others     *)
(* have none left for it.                                                  *)
LEMMA BodyOutranks ==
    ASSUME PlacementInv, PieceInv, CoresParted, Outranked, AssignSplit,
           NEW s \in Slots, tcb[s].affinity = {SelectedCore}
    PROVE  task_list[s].priority < task_list[Top(UQ)].priority
<1> USE ConstantFacts
<1>1. /\ InNormalAssign /\ CoreIsUsable /\ Placing
      /\ Top(UQ) \in Queued /\ Top(UQ) < curr_idx
  BY AssignEffect
<1>2. PICK T \in Slots : T = Top(UQ)
  BY AssignEffect
<1>3. PICK C \in Cores : C = SelectedCore
  BY AssignEffect
<1>4. Pinned(s) /\ Waiting(T)
  BY <1>1, <1>2, <1>3 DEF Pinned, Waiting
<1>5. task_list[s].priority < task_list[T].priority \/ OnFullCore(s) \/ Reserved(s)
  BY <1>1, <1>2, <1>4 DEF Outranked
<1>6. core_list[C].Utilization < Utilization_Bound
      /\ \A c \in Cores : core_list[c].Utilization \in Nat
  BY <1>1, <1>3 DEF CoreIsUsable, PlacementInv, TypeOK, CoreTables
<1>7. ~ OnFullCore(s)
  <2> SUFFICES ASSUME NEW c \in Cores, tcb[s].affinity = {c},
                      core_list[c].Utilization >= Utilization_Bound
               PROVE  FALSE
    BY DEF OnFullCore
  <2>1. c = C
    BY <1>3
  <2> QED BY <1>6, <2>1
<1>8. CASE Reserved(s)
  <2>1. C > core_manager.top /\ (C = Top(pre_assigned_core) => Room(s))
    <3>1. PICK c \in Cores : /\ tcb[s].affinity = {c} /\ c > core_manager.top
                             /\ c = Top(pre_assigned_core) => Room(s)
      BY <1>8 DEF Reserved
    <3>2. c = C
      BY <1>3, <3>1
    <3> QED BY <3>1, <3>2
  <2>2. PICK t \in Cores : t = core_manager.top
    BY <1>1, CoreTaken
  <2>3. /\ MinCoreIsFull
        /\ \A c \in 0 .. t : core_list[c].Utilization >= Utilization_Bound
        /\ C = Top(pre_assigned_core)
    <3>1. MinCoreIsFull
      <4>1. ~ MinCoreIsFull => SelectedCore \in 0 .. core_manager.top
        BY <1>1, CoreTaken
      <4> QED BY <1>3, <2>1, <2>2, <4>1
    <3> QED BY <1>1, <1>3, <2>2, <3>1, CoreTaken
  <2>4. PICK m \in Nat : m = t + 1 /\ m = core_manager.top + 1
    BY <2>2
  <2>5. PICK x \in Nat : x = PrefixSum(Load, m) /\ x >= m * Utilization_Bound
    <3>1. \A c \in 0 .. m - 1 : c \in 0 .. t /\ c \in Cores
      BY <2>2, <2>4
    <3>2. \A c \in 0 .. m - 1 : Load[c] \in Nat /\ Load[c] >= Utilization_Bound
      BY <1>6, <2>3, <3>1 DEF Load
    <3>3. Utilization_Bound \in Nat
      OBVIOUS
    <3> QED BY <3>2, <3>3, PrefixSumAtLeast
  <2> DEFINE f == LowerWork(s)
  <2>6. \A k \in 0 .. MAX_NUM_TASKS - 1 : f[k] \in Nat
    BY LowerWorkTyped DEF PlacementInv
  <2>7. x + PrefixSum(f, MAX_NUM_TASKS) <= m * Utilization_Bound
    BY <2>1, <2>3, <2>4, <2>5 DEF Room
  <2>8. f[T] <= PrefixSum(f, MAX_NUM_TASKS) /\ PrefixSum(f, MAX_NUM_TASKS) \in Nat
    <3> HIDE DEF f
    <3>1. T \in 0 .. MAX_NUM_TASKS - 1 /\ MAX_NUM_TASKS \in Nat
      BY <1>2
    <3>2. PrefixSum(f, MAX_NUM_TASKS) >= f[T] /\ PrefixSum(f, MAX_NUM_TASKS) \in Nat
      BY ONLY <2>6, <3>1, PrefixSumTerm
    <3>3. f[T] \in Nat
      BY <2>6, <3>1
    <3> QED BY <3>2, <3>3
  <2>9. f[T] = 0
    <3>1. m * Utilization_Bound \in Nat /\ f[T] \in Nat
      BY <1>2, <2>6
    <3>2. PICK y \in Nat, z \in Nat, w \in Nat :
             y = m * Utilization_Bound /\ z = PrefixSum(f, MAX_NUM_TASKS) /\ w = f[T]
      BY <2>8, <3>1
    <3>3. x >= y /\ x + z <= y /\ w <= z
      BY <2>5, <2>7, <2>8, <3>2
    <3>4. w = 0
      BY ONLY <3>3, x \in Nat, y \in Nat, z \in Nat, w \in Nat
    <3> QED BY <3>2, <3>4
  <2>10. task_list[T].Utilization > 0
    BY <1>1, <1>2 DEF PieceInv, WaitingPositive
  <2>11. ~ task_list[T].priority <= task_list[s].priority
    <3>1. task_list[T].priority <= task_list[s].priority => f[T] = task_list[T].Utilization
      BY <1>1, <1>2, <1>4 DEF LowerWork
    <3>2. task_list[T].Utilization # 0
      BY <2>10
    <3> QED BY <2>9, <3>1, <3>2
  <2>12. task_list[T].priority \in Nat /\ task_list[s].priority \in Nat
    BY DEF PlacementInv, TypeOK, TaskInfos
  <2>13. task_list[s].priority < task_list[T].priority
    BY ONLY <2>11, <2>12
  <2> QED BY <1>2, <2>13
<1> QED BY <1>2, <1>5, <1>7, <1>8

LEMMA FirstUnsplit ==
    PlacementInv /\ HandleInv /\ curr_idx <= NUM_OF_TASK => BodyIsFirstOnItsCore
BY NothingSplit DEF BodyIsFirstOnItsCore

LEMMA FirstAssignWhole ==
    ASSUME PlacementInv, AssignedInv, ApartInv, BodyIsFirstOnItsCore, AssignWhole
    PROVE  BodyIsFirstOnItsCore'
<1>1. /\ CoreIsUsable /\ Placing /\ UNCHANGED task_list
      /\ tcb' = PinnedTo(Top(UQ), SelectedCore, tcb)
  BY AssignEffect DEF AssignWhole
<1>2. PICK T \in Slots : T = Top(UQ) /\ T \in Queued
  BY AssignEffect
<1>3. PICK C \in Cores : C = SelectedCore
  BY AssignEffect
<1>4. tcb'[T].affinity \in {{}, {C}} /\ \A s \in Slots : s # T => tcb'[s] = tcb[s]
  BY <1>1, <1>2, <1>3, IterationPins, PinTyped DEF PlacementInv, TypeOK
<1>5. task_list[T].splitted_ptr = NULL
  BY <1>1, <1>2 DEF ApartInv, WaitingWhole
<1>6. core_list[C].Utilization < Utilization_Bound /\ core_list[C].Utilization \in Nat
  BY <1>1, <1>3 DEF CoreIsUsable, PlacementInv, TypeOK, CoreTables
<1> SUFFICES ASSUME NEW t \in Slots, NEW s \in Slots, task_list[t].splitted_ptr # NULL, s # t,
                    Pinned(t)', tcb'[s].affinity = tcb'[t].affinity
             PROVE  task_list[s].priority < task_list[t].priority
  BY <1>1 DEF BodyIsFirstOnItsCore
<1>7. t # T /\ tcb'[t] = tcb[t] /\ Pinned(t)
  <2>1. t # T /\ tcb'[t] = tcb[t]
    BY <1>4, <1>5
  <2> QED BY <2>1 DEF Pinned
<1>8. s # T
  <2>1. s = T => tcb[t].affinity = {C}
    BY <1>4, <1>7 DEF Pinned
  <2>2. s = T => core_list[C].Utilization >= Utilization_Bound
    BY <2>1 DEF ApartInv, BodiesFillCores
  <2> QED BY <1>6, <2>2, ConstantFacts
<1> QED BY <1>4, <1>7, <1>8 DEF BodyIsFirstOnItsCore

LEMMA FirstAssignSplit ==
    ASSUME SeveralCores, PlacementInv, AssignedInv, PieceInv, HandleInv, ApartInv, CoresParted,
           Outranked, BodyIsFirstOnItsCore, AssignSplit
    PROVE  BodyIsFirstOnItsCore'
<1>1. CoreIsUsable /\ Placing
  BY AssignEffect
<1>2. PICK T \in Slots : T = Top(UQ) /\ T \in Queued
  BY AssignEffect
<1>3. PICK C \in Cores : C = SelectedCore
  BY AssignEffect
<1>4. PICK X \in Slots : X = curr_idx /\ X # T /\ X >= NUM_OF_TASK
  BY <1>2, SplitContext
<1>5. /\ tcb'[T].affinity \in {{}, {C}}
      /\ \A s \in Slots : s # T /\ s # X => tcb'[s] = tcb[s]
  BY <1>2, <1>3, <1>4, SplitPlacement, IterationPins
<1>6. ~ Pinned(X)'
  BY <1>4, NextSlotUnpinned
<1>7. /\ \A s \in Slots : s # T /\ s # X => task_list'[s] = task_list[s]
      /\ task_list'[T].priority = task_list[T].priority
  BY <1>2, <1>4, SplitSlots, PrioritiesSplit
<1>8. core_list[C].Utilization < Utilization_Bound /\ core_list[C].Utilization \in Nat
  BY <1>1, <1>3 DEF CoreIsUsable, PlacementInv, TypeOK, CoreTables
<1> SUFFICES ASSUME NEW t \in Slots, NEW s \in Slots, task_list'[t].splitted_ptr # NULL, s # t,
                    Pinned(t)', tcb'[s].affinity = tcb'[t].affinity
             PROVE  task_list'[s].priority < task_list'[t].priority
  BY DEF BodyIsFirstOnItsCore
<1>9. t # X
  BY <1>6
<1>10. s # X
  <2>1. PICK c \in Cores : tcb'[t].affinity = {c}
    BY DEF Pinned
  <2>2. s = X => Pinned(X)'
    BY <2>1 DEF Pinned
  <2> QED BY <1>6, <2>2
<1>11. CASE t = T
  <2>1. tcb[s].affinity = {C} /\ task_list'[s] = task_list[s]
    BY <1>5, <1>7, <1>10, <1>11 DEF Pinned
  <2>2. task_list[s].priority < task_list[T].priority
    <3>1. tcb[s].affinity = {SelectedCore}
      BY <1>3, <2>1
    <3>2. task_list[s].priority < task_list[Top(UQ)].priority
      BY <3>1, BodyOutranks
    <3> QED BY <1>2, <3>2
  <2> QED BY <1>7, <1>11, <2>1, <2>2
<1>12. CASE t # T
  <2>1. tcb'[t] = tcb[t] /\ task_list'[t] = task_list[t] /\ Pinned(t)
    <3>1. tcb'[t] = tcb[t] /\ task_list'[t] = task_list[t]
      BY <1>5, <1>7, <1>9, <1>12
    <3> QED BY <3>1 DEF Pinned
  <2>2. s # T
    <3>1. s = T => tcb[t].affinity = {C}
      BY <1>5, <2>1 DEF Pinned
    <3>2. s = T => core_list[C].Utilization >= Utilization_Bound
      BY <2>1, <3>1 DEF ApartInv, BodiesFillCores
    <3> QED BY <1>8, <3>2, ConstantFacts
  <2>3. tcb'[s] = tcb[s] /\ task_list'[s] = task_list[s]
    BY <1>5, <1>7, <1>10, <2>2
  <2> QED BY <2>1, <2>3 DEF BodyIsFirstOnItsCore
<1> QED BY <1>11, <1>12

OrderInv == CoresParted /\ RanksFall /\ QueueFalls /\ Outranked /\ BodyIsFirstOnItsCore

LEMMA FirstStep ==
    ASSUME SeveralCores, PlacementInv, AssignedInv, PieceInv, HandleInv, ApartInv, OrderInv,
           [Next]_vars
    PROVE  BodyIsFirstOnItsCore'
<1>1. PlacementInv' /\ HandleInv'
  BY PlacementStep, HandleStep
<1>2. (PlacementInv /\ HandleInv /\ curr_idx <= NUM_OF_TASK)' => BodyIsFirstOnItsCore'
  BY FirstUnsplit, PTL
<1>3. CASE Boot \/ InitTask \/ InitQueues \/ PreAssign \/ PreAssignNull \/ Queue \/ PreAssignDone
  <2>1. CASE Boot \/ InitTask
    <3>1. curr_idx' = 0
      BY <2>1 DEF Boot, InitTask, HandleInv, Booting
    <3> QED BY <1>1, <1>2, <3>1, ConstantFacts
  <2>2. CASE InitQueues
    <3>1. curr_idx' = NUM_OF_TASK
      BY <2>2 DEF InitQueues
    <3> QED BY <1>1, <1>2, <3>1, ConstantFacts
  <2>3. CASE PreAssign \/ PreAssignNull \/ Queue \/ PreAssignDone
    <3>1. curr_idx' = NUM_OF_TASK
      BY <2>3 DEF PreAssign, PreAssignNull, Queue, PreAssignDone, PlacementInv, QueueInOrder, Placing
    <3> QED BY <1>1, <1>2, <3>1, ConstantFacts
  <2> QED BY <1>3, <2>1, <2>2, <2>3
<1>4. CASE ReportFull \/ NormalAssignUndefined \/ StartScheduler \/ Finished \/ UNCHANGED vars
  <2>1. UNCHANGED <<task_list, tcb>>
    BY <1>4 DEF ReportFull, NormalAssignUndefined, StartScheduler, Finished, vars
  <2> QED BY <2>1 DEF OrderInv, BodyIsFirstOnItsCore, Pinned
<1> QED BY <1>3, <1>4, FirstAssignWhole, FirstAssignSplit DEF Next, OrderInv

(* PRE-ASSIGN and NORMAL-ASSIGN together (main.c 118-170), for any number  *)
(* of cores: when the table is in the order of its priorities, the body of *)
(* a split task has the highest configured priority on its core, so that   *)
(* its tail is never held up behind other work.                            *)
THEOREM BodiesOutrankTheirCores ==
    SeveralCores /\ PrioritiesFall => (Spec => []BodyIsFirstOnItsCore)
<1> SUFFICES ASSUME SeveralCores, PrioritiesFall PROVE Spec => []BodyIsFirstOnItsCore
  OBVIOUS
<1> DEFINE Inv == /\ PlacementInv /\ AssignedInv /\ PieceInv /\ HandleInv /\ QueueHasRoom
                  /\ ApartInv /\ OrderInv
<1>1. Init => Inv
  <2> SUFFICES ASSUME Init PROVE Inv
    OBVIOUS
  <2>1. PlacementInv /\ AssignedInv /\ PieceInv /\ HandleInv /\ QueueHasRoom
    BY PlacementInit, AssignedInit, PieceInit, HandleInit, RoomInit
  <2>2. curr_idx <= NUM_OF_TASK
    BY ConstantFacts DEF Init
  <2>3. ApartInv /\ BodyIsFirstOnItsCore
    BY <2>1, <2>2, ApartUnsplit, FirstUnsplit
  <2>4. RanksFall /\ QueueFalls
    BY RanksInit
  <2>5. CoresParted /\ Outranked
    BY DEF Init, CoresParted, Outranked, Placing, Booting
  <2> QED BY <2>1, <2>3, <2>4, <2>5 DEF OrderInv
<1>2. Inv /\ [Next]_vars => Inv'
  <2> SUFFICES ASSUME Inv, [Next]_vars PROVE Inv'
    OBVIOUS
  <2>1. PlacementInv' /\ AssignedInv' /\ PieceInv' /\ HandleInv' /\ QueueHasRoom' /\ ApartInv'
    BY PlacementStep, AssignedStep, PieceStep, HandleStep, RoomStep, ApartStep
  <2>2. CoresParted' /\ RanksFall' /\ QueueFalls' /\ Outranked'
    BY PartedStep, RanksStep, FallsStep, OutrankedStep DEF OrderInv
  <2>3. BodyIsFirstOnItsCore'
    BY FirstStep
  <2> QED BY <2>1, <2>2, <2>3 DEF OrderInv
<1>3. Inv => BodyIsFirstOnItsCore
  BY DEF OrderInv
<1> QED BY <1>1, <1>2, <1>3, PTL DEF Spec

=============================================================================
