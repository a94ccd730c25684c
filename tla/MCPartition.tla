---------------------------- MODULE MCPartition ----------------------------
(***************************************************************************)
(* The boot of both builds for TLC: every table of NUM_OF_TASK tasks whose *)
(* periods are in Periods and whose runtimes are at most their periods.    *)
(***************************************************************************)
EXTENDS Spa1

CONSTANTS Periods  \* the periods, in ticks, the tables are built from

RunPeriods == {rp \in (1 .. UNIT) \X Periods : rp[1] <= rp[2]}

(* Priorities fall with the index, as in the table of main.c. *)
MCTables ==
    {[t \in 0 .. NUM_OF_TASK - 1 |->
         [Runtime |-> f[t][1], Period |-> f[t][2], priority |-> NUM_OF_TASK - t]] :
     f \in [0 .. NUM_OF_TASK - 1 -> RunPeriods]}

(* The table of main.c. *)
RepositoryTable ==
    LET run    == <<3, 2, 3, 8, 36, 12, 12>>
        period == <<30, 30, 30, 35, 50, 100, 100>>
    IN [t \in 0 .. 6 |-> [Runtime |-> run[t + 1], Period |-> period[t + 1], priority |-> 7 - t]]

RepositoryTables == {RepositoryTable}

=============================================================================
