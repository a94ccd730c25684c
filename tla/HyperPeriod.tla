---------------------------- MODULE HyperPeriod ----------------------------
(***************************************************************************)
(* The hyperperiod the monitor waits for (gcd, lcm and calculate_lcm of    *)
(* task_manager.c), in the int arithmetic of the code. PeriodicTasks uses  *)
(* the mathematical value; this module says for which tables it may.       *)
(*                                                                         *)
(* A product or quotient that does not fit an int, or a division by 0, is  *)
(* undefined: the model goes on with any int whatsoever.                   *)
(***************************************************************************)
EXTENDS Integers, FiniteSetsExt

CONSTANTS
    NUM_OF_TASK,   \* periodic tasks in the table
    INT_MAX,       \* 2^31 - 1
    PeriodTables   \* the period_list arrays considered

ASSUME TaskCountAssumption == NUM_OF_TASK \in Nat \ {0}
ASSUME IntAssumption == INT_MAX \in Nat \ {0}
ASSUME PeriodsAssumption == PeriodTables \subseteq [0 .. NUM_OF_TASK - 1 -> 1 .. INT_MAX]

VARIABLES
    pc,           \* where the monitor is: in which loop
    periods,      \* period_list
    i,            \* the index of calculate_lcm
    result,       \* of calculate_lcm
    product,      \* a * b of lcm
    a, b          \* the variables of gcd

vars == <<pc, periods, i, result, product, a, b>>

INT_MIN == - INT_MAX - 1
Ints == INT_MIN .. INT_MAX

(* What an int operation with the mathematical result x may yield. *)
AsInt(x) == IF x \in Ints THEN {x} ELSE Ints

Abs(x) == IF x < 0 THEN -x ELSE x

(* % and / of C, which truncate towards 0. *)
Remainder(x, y) == IF x < 0 THEN - (Abs(x) % Abs(y)) ELSE Abs(x) % Abs(y)

Quotient(x, y) ==
    IF (x < 0) = (y < 0) THEN Abs(x) \div Abs(y) ELSE - (Abs(x) \div Abs(y))

----------------------------------------------------------------------------
Init ==
    /\ pc = "loop"
    /\ periods \in PeriodTables
    /\ i = 1
    /\ result = periods[0]
    /\ product = 0
    /\ a = 0
    /\ b = 0

\* fault: the divisor is that of two neighbours in the table
MultiplyNeighbours ==
    /\ pc = "loop"
    /\ i < NUM_OF_TASK
    /\ product' \in AsInt(result * periods[i])
    /\ a' = periods[i - 1]
    /\ b' = periods[i]
    /\ pc' = "gcd"
    /\ UNCHANGED <<periods, i, result>>

(* An iteration of calculate_lcm begins: lcm multiplies and calls gcd. *)
Multiply ==
    /\ pc = "loop"
    /\ i < NUM_OF_TASK
    /\ product' \in AsInt(result * periods[i])
    /\ a' = result
    /\ b' = periods[i]
    /\ pc' = "gcd"
    /\ UNCHANGED <<periods, i, result>>

\* fault: the remainder is left in the wrong variable
EuclidWithoutSwap ==
    /\ pc = "gcd"
    /\ b # 0
    /\ a' = Remainder(a, b)
    /\ b' = b
    /\ UNCHANGED <<pc, periods, i, result, product>>

(* An iteration of gcd. *)
Euclid ==
    /\ pc = "gcd"
    /\ b # 0
    /\ a' = b
    /\ b' = Remainder(a, b)
    /\ UNCHANGED <<pc, periods, i, result, product>>

(* gcd returns a, lcm divides by it. *)
Divide ==
    /\ pc = "gcd"
    /\ b = 0
    /\ result' \in IF a = 0 THEN Ints ELSE AsInt(Quotient(product, a))
    /\ i' = i + 1
    /\ pc' = "loop"
    /\ product' = 0 /\ a' = 0 /\ b' = 0
    /\ UNCHANGED periods

Return ==
    /\ pc = "loop"
    /\ i = NUM_OF_TASK
    /\ pc' = "done"
    /\ UNCHANGED <<periods, i, result, product, a, b>>

(* MonitorTask goes on to vTaskDelay. *)
Done == pc = "done" /\ UNCHANGED vars

Next == Multiply \/ Euclid \/ Divide \/ Return \/ Done

Spec == Init /\ [][Next]_vars /\ WF_vars(Next)

----------------------------------------------------------------------------
(* Properties                                                              *)

Multiple(n) == \A t \in 0 .. NUM_OF_TASK - 1 : n % periods[t] = 0

(* n is the hyperperiod: all periods divide it, and nothing smaller. *)
IsHyperperiod(n) ==
    /\ n > 0
    /\ Multiple(n)
    /\ \A m \in 1 .. n - 1 : ~ Multiple(m)

LongestPeriod == Max({periods[t] : t \in 0 .. NUM_OF_TASK - 1})

(* lcm (task_manager.c 301-303) multiplies before it divides. Still, when  *)
(* the hyperperiod times the longest period fits an int, nothing overflows *)
(* on the way and the monitor waits for exactly one hyperperiod.           *)
HyperperiodIsRight ==
    pc = "done" =>
        \A n \in 1 .. INT_MAX \div LongestPeriod : IsHyperperiod(n) => result = n

(* The loop of gcd (task_manager.c 291-298): it ends, also when a product  *)
(* has overflowed and it works on a negative number, so that the monitor,  *)
(* of the highest priority, never hangs before it first sleeps.            *)
HyperperiodIsFound == <>(pc = "done")

=============================================================================
