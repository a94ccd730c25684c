------------------------------ MODULE MCSystem ------------------------------
(***************************************************************************)
(* System for TLC: the admissible tables with rate-monotonic priorities,   *)
(* which the comment "NOT YET" of init_task leaves to the author of the    *)
(* table, and the table of main.c.                                         *)
(***************************************************************************)
EXTENDS System

CONSTANTS Periods  \* the periods, in ticks, the tables are built from

RunPeriods == {rp \in (1 .. UNIT) \X Periods : rp[1] <= rp[2]}

(* Priorities fall with the index, as in the table of main.c. *)
AllTables ==
    {[t \in 0 .. NUM_OF_TASK - 1 |->
         [Runtime |-> f[t][1], Period |-> f[t][2], priority |-> NUM_OF_TASK - t]] :
     f \in [0 .. NUM_OF_TASK - 1 -> RunPeriods]}

RateMonotonic(tab) == \A t \in 1 .. NUM_OF_TASK - 1 : tab[t - 1].Period <= tab[t].Period

(* Admissible, as a condition on the table. *)
Bounded(tab) ==
    /\ PrefixSum([t \in 0 .. NUM_OF_TASK - 1 |-> UtilizationOf(tab[t])], NUM_OF_TASK)
         <= configNUMBER_OF_CORES * Utilization_Bound
    /\ ~ ExceedsLightBound(UtilizationOf(tab[NUM_OF_TASK - 1]))

MCTables == {tab \in AllTables : RateMonotonic(tab) /\ Bounded(tab)}

(* The table of main.c. *)
RepositoryTable ==
    LET run    == <<3, 2, 3, 8, 36, 12, 12>>
        period == <<30, 30, 30, 35, 50, 100, 100>>
    IN [t \in 0 .. 6 |-> [Runtime |-> run[t + 1], Period |-> period[t + 1], priority |-> 7 - t]]

RepositoryTables == {RepositoryTable}

=============================================================================
