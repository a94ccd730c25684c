---------------------------- MODULE TaskControl ----------------------------
(***************************************************************************)
(* The task control blocks, the kernel's record of each created task: the  *)
(* boot writes them (xTaskCreate, vTaskCoreAffinitySet), the scheduler     *)
(* reads them.                                                             *)
(***************************************************************************)
EXTENDS TaskManager

VARIABLE tcb  \* priority and core affinity of the created tasks

NoTCB == [uxPriority |-> 0, affinity |-> {}]

=============================================================================
