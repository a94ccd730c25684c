--------------------------- MODULE MCHyperPeriod ---------------------------
(***************************************************************************)
(* HyperPeriod for TLC: all tables of the given periods, with ints so      *)
(* small that some of the products overflow, at either multiplication.     *)
(***************************************************************************)
EXTENDS HyperPeriod

CONSTANT Periods  \* the periods the tables are built from

MCTables == [0 .. NUM_OF_TASK - 1 -> Periods]

=============================================================================
