----------------------------- MODULE MCLedTasks -----------------------------
(***************************************************************************)
(* LedTasks for TLC: tables of three kinds of rows, light ones and         *)
(* overloaded ones, and the table of led_task/main.c in tens of ticks.     *)
(***************************************************************************)
EXTENDS LedTasks

(* A row that preempts often, one that can end exactly at its deadline     *)
(* when preempted, and one that can be preempted past its deadline.        *)
Rows == {[Run_tick |-> 1, Period |-> 3],
         [Run_tick |-> 3, Period |-> 6],
         [Run_tick |-> 4, Period |-> 7]}

RepositoryTable ==
    LET run    == <<1, 4, 1, 1>>
        period == <<5, 10, 6, 20>>
    IN [t \in LedTask |-> [Run_tick |-> run[t + 1], Period |-> period[t + 1]]]

(* The lowest task always asks for much, so that most tables overload the  *)
(* cores.                                                                  *)
MCTables ==
    {rowsOf \in [LedTask -> Rows] : rowsOf[NUM_OF_TASK - 1].Run_tick = 4} \cup {RepositoryTable}

=============================================================================
