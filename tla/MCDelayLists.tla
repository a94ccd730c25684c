---------------------------- MODULE MCDelayLists ----------------------------
(***************************************************************************)
(* DelayLists for TLC: a task that is due often, one in between and one    *)
(* with the longest increment, so that every call of it wraps.             *)
(***************************************************************************)
EXTENDS DelayLists

MCTasks == {"short", "middle", "long"}

MCIncrements ==
    [t \in MCTasks |-> CASE t = "short"  -> 2
                         [] t = "middle" -> 3
                         [] t = "long"   -> TICK_MODULUS - 1]

=============================================================================
