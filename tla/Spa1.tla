-------------------------------- MODULE Spa1 --------------------------------
(***************************************************************************)
(* The other build of smp_test: with SPA2 defined as 0 the boot has no     *)
(* PRE-ASSIGN, and one loop spreads task_manager itself over all cores.    *)
(* Everything before and after the loop is shared with Partition, whose    *)
(* variables and operators this module uses. pc is "spa1" in the loop.     *)
(***************************************************************************)
EXTENDS Partition

(* main, between init_task and the loop. *)
EnterSpa1 ==
    /\ pc = "init_task"
    /\ i = NUM_OF_TASK
    /\ pc' = "spa1"
    /\ i' = 0
    /\ curr_idx' = NUM_OF_TASK
    /\ pre_assigned_core' = init_stack(pre_assigned_core)
    /\ UQ' = init_stack(UQ)
    /\ UNCHANGED <<table, heap_size, task_list, assigned, tcb, core_list,
                   core_manager, task_manager, heap, full>>

InSpa1 == pc = "spa1" /\ ~ is_empty(task_manager)

(* Every iteration pops T and takes the least utilized of all cores, which *)
(* core_manager keeps.                                                     *)
T == Top(task_manager)
min_C == get_min_core(core_manager, core_list)
Assignable == InSpa1 /\ ~ MinCoreIsFull

Spa1AssignWhole ==
    /\ Assignable
    /\ Fits(T, min_C)
    /\ tcb' = PinnedTo(T, min_C, tcb)
    /\ assigned' = [assigned EXCEPT ![T] = min_C]
    /\ core_list' = Charged(min_C, task_list[T].Utilization)
    /\ task_manager' = Popped(task_manager)
    /\ UNCHANGED <<pc, i, table, heap_size, task_list, core_manager,
                   pre_assigned_core, UQ, curr_idx, heap, full>>

(* new_task, Task_split, which leaves the tail on top of task_manager, and *)
(* Assign_task of the body.                                                *)
Spa1AssignSplit ==
    /\ Assignable
    /\ ~ Fits(T, min_C)
    /\ curr_idx < MAX_NUM_TASKS
    /\ LET body == Body_task(task_list[T], core_list[min_C])
           tail == Tail_task(task_list[T], core_list[min_C], task_list[curr_idx])
           created == CreatedIn(curr_idx, [task_list EXCEPT ![T] = body,
                                                            ![curr_idx] = tail])
       IN /\ task_list' = [created EXCEPT ![T].splitted_ptr = created[curr_idx].my_ptr]
          /\ tcb' = PinnedTo(T, min_C,
                       IF heap > 0
                         THEN [tcb EXCEPT ![curr_idx] =
                                  [uxPriority |-> ClampedPriority(tail.priority),
                                   affinity   |-> Cores]]
                         ELSE tcb)
          /\ assigned' = [assigned EXCEPT ![T] = min_C]
          /\ core_list' = Charged(min_C, body.Utilization)
          /\ task_manager' = Push_task(curr_idx, Popped(task_manager))
    /\ curr_idx' = curr_idx + 1
    /\ heap' = HeapAfterCreate
    /\ UNCHANGED <<pc, i, table, heap_size, core_manager, pre_assigned_core, UQ, full>>

(* "ALL PROCESSORS FULLY UTILIZED": the loop is left with T popped. *)
Spa1ReportFull ==
    /\ InSpa1
    /\ MinCoreIsFull
    /\ task_manager' = Popped(task_manager)
    /\ full' = TRUE
    /\ pc' = "started"
    /\ UNCHANGED <<i, table, heap_size, task_list, assigned, tcb, core_list,
                   core_manager, pre_assigned_core, UQ, curr_idx, heap>>

(* new_task returned NULL and Task_split writes through it, or the store   *)
(* through the NULL handle of a task that was never created faults.        *)
Spa1Undefined ==
    /\ Assignable
    /\ \/ task_list[T].my_ptr = NULL
       \/ ~ Fits(T, min_C) /\ curr_idx >= MAX_NUM_TASKS
    /\ pc' = "undefined"
    /\ UNCHANGED <<i, table, heap_size, task_list, assigned, tcb, core_list,
                   core_manager, pre_assigned_core, task_manager, UQ, curr_idx, heap,
                   full>>

Spa1StartScheduler ==
    /\ pc = "spa1"
    /\ is_empty(task_manager)
    /\ pc' = "started"
    /\ UNCHANGED <<i, table, heap_size, task_list, assigned, tcb, core_list,
                   core_manager, pre_assigned_core, task_manager, UQ, curr_idx, heap,
                   full>>

Spa1Step ==
    \/ EnterSpa1
    \/ Spa1AssignWhole
    \/ Spa1AssignSplit
    \/ Spa1ReportFull
    \/ Spa1Undefined
    \/ Spa1StartScheduler

(* The boot of a build of either kind; they part at #if SPA2, where        *)
(* InitQueues or EnterSpa1 is taken.                                       *)
BootSpec == Init /\ [][Next \/ Spa1Step]_vars

----------------------------------------------------------------------------
(* Properties                                                              *)

(* main.c 172-199: SPA1 gets every set that is not too large for the cores *)
(* through, whatever its tasks are, provided the heap serves them and the  *)
(* tails; and it never starts the scheduler on a set that is too large as  *)
(* if it had placed it.                                                    *)
Spa1Admission ==
    [][pc = "spa1" =>
          IF Total <= configNUMBER_OF_CORES * Utilization_Bound
            THEN heap_size >= NUM_OF_TASK + configNUMBER_OF_CORES =>
                    /\ pc' # "undefined"
                    /\ ~ full'
                    /\ pc' = "started" => \A s \in Created : Pinned(s)
            ELSE pc' = "started" => full']_vars

=============================================================================
