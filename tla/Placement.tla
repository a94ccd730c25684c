----------------------------- MODULE Placement -----------------------------
(***************************************************************************)
(* What semi-partitioning promises, without stacks, slots, handles or the  *)
(* order in which tasks are taken: pieces of utilization wait for a core,  *)
(* and a step moves a piece, or as much of it as fits, to a core. Nothing  *)
(* is ever moved back, lost or counted twice.                              *)
(***************************************************************************)
EXTENDS Integers

CONSTANTS
    Pieces,      \* the names a piece may have
    Processors,  \* the cores
    Bound        \* the utilization up to which a core is filled

VARIABLES
    waiting,  \* the utilization of each piece that has no core yet, 0 if none
    load      \* the utilization placed on each core

PlacementInit ==
    /\ waiting \in [Pieces -> Nat]
    /\ load = [c \in Processors |-> 0]

(* A whole piece goes to a core that stays within the bound. *)
Place(p, c) ==
    /\ waiting[p] > 0
    /\ load[c] + waiting[p] <= Bound
    /\ load' = [load EXCEPT ![c] = @ + waiting[p]]
    /\ waiting' = [waiting EXCEPT ![p] = 0]

(* A piece that does not fit fills a core exactly up to the bound; what is *)
(* left of it waits under a name that was free.                            *)
Split(p, q, c) ==
    /\ waiting[q] = 0
    /\ load[c] < Bound
    /\ load[c] + waiting[p] > Bound
    /\ load' = [load EXCEPT ![c] = Bound]
    /\ waiting' = [waiting EXCEPT ![p] = 0, ![q] = waiting[p] - (Bound - load[c])]

(* A piece, of any size, is given an empty core. *)
Dedicate(p, c) ==
    /\ waiting[p] > 0
    /\ load[c] = 0
    /\ load' = [load EXCEPT ![c] = waiting[p]]
    /\ waiting' = [waiting EXCEPT ![p] = 0]

PlacementNext ==
    \E p \in Pieces, c \in Processors :
        \/ Place(p, c)
        \/ Dedicate(p, c)
        \/ \E q \in Pieces \ {p} : Split(p, q, c)

PlacementSpec == PlacementInit /\ [][PlacementNext]_<<waiting, load>>

=============================================================================
