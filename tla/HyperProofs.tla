----------------------------- MODULE HyperProofs -----------------------------
(***************************************************************************)
(* The monitor computes the hyperperiod (module HyperPeriod), for every    *)
(* table and every width of int: the arithmetic behind gcd and lcm.        *)
(***************************************************************************)
EXTENDS HyperPeriod, CommonProofs

Divides(d, n) == \E q \in Int : n = d * q

(* n is made of x and y: what Bezout says of their divisor. *)
MadeOf(n, x, y) == \E u, v \in Int : n = u * x + v * y

----------------------------------------------------------------------------
(* Divisors.                                                               *)

LEMMA DividesByRemainder ==
    ASSUME NEW n \in Nat, NEW d \in Nat \ {0} PROVE n % d = 0 <=> Divides(d, n)
<1>1. n = d * (n \div d) + (n % d) /\ n \div d \in Int
  OBVIOUS
<1>2. \A q \in Int : (d * q) % d = 0
  OBVIOUS
<1> QED BY <1>1, <1>2 DEF Divides

LEMMA DividesLeq ==
    ASSUME NEW n \in Nat \ {0}, NEW d \in Nat \ {0}, Divides(d, n) PROVE d <= n
<1>1. PICK q \in Int : n = d * q
  BY DEF Divides
<1>2. q >= 1
  BY <1>1
<1> QED BY <1>1, <1>2

LEMMA DividesTransitive ==
    ASSUME NEW d \in Int, NEW m \in Int, NEW n \in Int, Divides(d, m), Divides(m, n)
    PROVE  Divides(d, n)
<1>1. PICK q \in Int : m = d * q
  BY DEF Divides
<1>2. PICK r \in Int : n = m * r
  BY DEF Divides
<1>3. n = d * (q * r) /\ q * r \in Int
  BY <1>1, <1>2
<1> QED BY <1>3 DEF Divides

(* A step of Euclid's algorithm keeps the common divisors, and what is     *)
(* made of x and y.                                                        *)
LEMMA EuclidDivisors ==
    ASSUME NEW m \in Nat, NEW n \in Nat \ {0}, NEW d \in Int, Divides(d, n), Divides(d, m % n)
    PROVE  Divides(d, m)
<1>1. PICK q \in Int : n = d * q
  BY DEF Divides
<1>2. PICK r \in Int : m % n = d * r
  BY DEF Divides
<1>3. m = n * (m \div n) + (m % n) /\ m \div n \in Int
  OBVIOUS
<1>4. PICK k \in Int : k = m \div n
  BY <1>3
<1>5. m = d * (q * k + r) /\ q * k + r \in Int
  BY <1>1, <1>2, <1>3, <1>4
<1> QED BY <1>5 DEF Divides

LEMMA EuclidMade ==
    ASSUME NEW x \in Int, NEW y \in Int, NEW m \in Nat, NEW n \in Nat \ {0},
           MadeOf(m, x, y), MadeOf(n, x, y)
    PROVE  MadeOf(m % n, x, y)
<1>1. PICK u, v \in Int : m = u * x + v * y
  BY DEF MadeOf
<1>2. PICK w, z \in Int : n = w * x + z * y
  BY DEF MadeOf
<1>3. m = n * (m \div n) + (m % n) /\ m \div n \in Int /\ m % n \in Int
  OBVIOUS
<1>4. PICK k, r \in Int : k = m \div n /\ r = m % n
  BY <1>3
<1>5. r = (u - w * k) * x + (v - z * k) * y /\ u - w * k \in Int /\ v - z * k \in Int
  <2>1. r = m - n * k
    BY <1>3, <1>4
  <2>2. r = (u * x + v * y) - (w * x + z * y) * k
    BY <1>1, <1>2, <2>1
  <2> QED BY ONLY <2>2, x \in Int, y \in Int, u \in Int, v \in Int, w \in Int, z \in Int, k \in Int
<1> QED BY <1>4, <1>5 DEF MadeOf

(* What lcm divides: the product of x and y by a common divisor made of    *)
(* both is a multiple of both, and divides each of their common multiples. *)
LEMMA LeastMultiple ==
    ASSUME NEW x \in Nat \ {0}, NEW y \in Nat \ {0}, NEW g \in Nat \ {0},
           Divides(g, x), Divides(g, y), MadeOf(g, x, y)
    PROVE  LET l == (x * y) \div g
           IN /\ l \in Nat \ {0} /\ Divides(x, l) /\ Divides(y, l)
              /\ \A m \in Nat : Divides(x, m) /\ Divides(y, m) => Divides(l, m)
<1>1. PICK q \in Int : x = g * q
  BY DEF Divides
<1>2. PICK r \in Int : y = g * r
  BY DEF Divides
<1>3. PICK u, v \in Int : g = u * x + v * y
  BY DEF MadeOf
<1>4. q >= 1 /\ r >= 1
  BY <1>1, <1>2
<1>5. PICK l \in Int : l = x * r
  OBVIOUS
<1>6. x * y = g * l /\ l = y * q /\ l >= 1
  BY <1>1, <1>2, <1>4, <1>5
<1>7. (x * y) \div g = l
  <2>1. (g * l) \div g = l
    BY <1>5
  <2> QED BY <1>6, <2>1
<1>8. ASSUME NEW m \in Nat, Divides(x, m), Divides(y, m) PROVE Divides(l, m)
  <2>1. PICK k \in Int : m = x * k
    BY <1>8 DEF Divides
  <2>2. PICK h \in Int : m = y * h
    BY <1>8 DEF Divides
  <2>3. m * g = (x * y) * (u * h + v * k)
    BY <1>3, <2>1, <2>2
  <2>4. PICK w \in Int : w = u * h + v * k
    OBVIOUS
  <2>5. g * m = g * (l * w) /\ l * w \in Int /\ m \in Int
    BY <1>6, <2>3, <2>4
  <2>6. m = l * w
    BY <2>5
  <2> QED BY <2>6 DEF Divides
<1>9. l \in Nat \ {0} /\ Divides(x, l) /\ Divides(y, l)
  <2>1. l \in Nat \ {0}
    BY <1>6
  <2>2. Divides(x, l)
    BY <1>5 DEF Divides
  <2>3. Divides(y, l)
    BY <1>6 DEF Divides
  <2> QED BY <2>1, <2>2, <2>3
<1> QED BY <1>7, <1>8, <1>9

----------------------------------------------------------------------------
(* The computation.                                                        *)

Tasks == 0 .. NUM_OF_TASK - 1

(* A common multiple of the periods that fits an int times any of them.    *)
Fits(n) ==
    /\ n \in Nat \ {0}
    /\ Multiple(n)
    /\ \A t \in Tasks : n * periods[t] <= INT_MAX

(* The loops on the way to such an n: result is a common multiple of the   *)
(* periods so far, and divides n; gcd works on numbers made of result and  *)
(* the next period, whose common divisors are common divisors of the two.  *)
OnTheWay(n) ==
    /\ result \in Nat \ {0}
    /\ \A t \in 0 .. i - 1 : Divides(periods[t], result)
    /\ Divides(result, n)
    /\ pc = "gcd" =>
          /\ product = result * periods[i]
          /\ a \in Nat \ {0} /\ b \in Nat
          /\ MadeOf(a, result, periods[i]) /\ MadeOf(b, result, periods[i])
          /\ \A d \in Nat : Divides(d, a) /\ Divides(d, b)
                               => Divides(d, result) /\ Divides(d, periods[i])

HyperTyped ==
    /\ periods \in [Tasks -> 1 .. INT_MAX]
    /\ pc \in {"loop", "gcd", "done"}
    /\ i \in 1 .. NUM_OF_TASK
    /\ pc = "gcd" => i < NUM_OF_TASK
    /\ pc = "done" => i = NUM_OF_TASK

HyperInv == HyperTyped /\ \A n : Fits(n) => OnTheWay(n)

LEMMA HyperNumbers ==
    ASSUME HyperTyped
    PROVE  /\ NUM_OF_TASK \in Nat \ {0} /\ INT_MAX \in Nat \ {0}
           /\ 0 \in Tasks /\ Tasks \subseteq Nat
           /\ \A t \in Tasks : periods[t] \in Nat \ {0}
           /\ i < NUM_OF_TASK => i \in Tasks
  BY TaskCountAssumption, IntAssumption DEF HyperTyped, Tasks

LEMMA PeriodDivides ==
    ASSUME HyperTyped, NEW n, Fits(n), NEW t \in Tasks PROVE Divides(periods[t], n)
<1>1. n % periods[t] = 0 /\ n \in Nat /\ periods[t] \in Nat \ {0}
  BY HyperNumbers DEF Fits, Multiple, Tasks
<1> QED BY <1>1, DividesByRemainder

LEMMA HyperInit == Init => HyperInv
<1> SUFFICES ASSUME Init PROVE HyperInv
  OBVIOUS
<1>1. HyperTyped
  BY TaskCountAssumption, PeriodsAssumption DEF Init, HyperTyped, Tasks
<1>2. periods[0] \in Nat \ {0} /\ 0 \in Tasks /\ result = periods[0] /\ pc = "loop" /\ i = 1
  BY <1>1, TaskCountAssumption, HyperNumbers DEF Init, Tasks
<1>3. ASSUME NEW n, Fits(n) PROVE OnTheWay(n)
  <2>1. Divides(result, n)
    BY <1>1, <1>2, <1>3, PeriodDivides
  <2>2. Divides(periods[0], result)
    <3>1. periods[0] = periods[0] * 1
      BY <1>2
    <3> QED BY <1>2, <3>1 DEF Divides
  <2> QED BY <1>2, <2>1, <2>2 DEF OnTheWay
<1> QED BY <1>1, <1>3 DEF HyperInv

LEMMA HyperMultiply ==
    ASSUME HyperTyped, NEW n, Fits(n), OnTheWay(n), Multiply PROVE OnTheWay(n)'
<1>1. /\ i \in Tasks /\ periods[i] \in Nat \ {0} /\ result \in Nat \ {0} /\ n \in Nat \ {0}
      /\ n * periods[i] <= INT_MAX
  BY HyperNumbers DEF Multiply, HyperTyped, Tasks, OnTheWay, Fits
<1>2. result * periods[i] \in Ints
  <2>1. result <= n
    BY <1>1, DividesLeq DEF OnTheWay
  <2>2. result * periods[i] <= n * periods[i]
    BY <1>1, <2>1
  <2>3. result * periods[i] \in Nat
    BY <1>1
  <2> QED BY <1>1, <2>2, <2>3, IntAssumption DEF Ints, INT_MIN
<1>3. /\ product' = result * periods[i] /\ a' = result /\ b' = periods[i] /\ pc' = "gcd"
      /\ UNCHANGED <<periods, i, result>>
  BY <1>2 DEF Multiply, AsInt
<1>4. MadeOf(result, result, periods[i]) /\ MadeOf(periods[i], result, periods[i])
  <2>1. result = 1 * result + 0 * periods[i] /\ periods[i] = 0 * result + 1 * periods[i]
    BY <1>1
  <2> QED BY <2>1 DEF MadeOf
<1> QED BY <1>1, <1>3, <1>4 DEF OnTheWay

LEMMA HyperEuclid ==
    ASSUME HyperTyped, NEW n, Fits(n), OnTheWay(n), Euclid PROVE OnTheWay(n)'
<1>1. /\ i \in Tasks /\ periods[i] \in Nat \ {0} /\ result \in Nat \ {0}
      /\ a \in Nat \ {0} /\ b \in Nat \ {0}
  BY HyperNumbers DEF Euclid, HyperTyped, Tasks, OnTheWay
<1>2. /\ a' = b /\ b' = a % b /\ UNCHANGED <<pc, periods, i, result, product>>
  BY <1>1 DEF Euclid, Remainder, Abs
<1>3. a % b \in Nat
  BY <1>1
<1>4. MadeOf(a % b, result, periods[i])
  BY <1>1, EuclidMade DEF OnTheWay, Euclid
<1>5. ASSUME NEW d \in Nat, Divides(d, b), Divides(d, a % b)
      PROVE  Divides(d, result) /\ Divides(d, periods[i])
  BY <1>1, <1>5, EuclidDivisors DEF OnTheWay, Euclid
<1> QED BY <1>1, <1>2, <1>3, <1>4, <1>5 DEF OnTheWay, Euclid

LEMMA HyperDivide ==
    ASSUME HyperTyped, NEW n, Fits(n), OnTheWay(n), Divide PROVE OnTheWay(n)'
<1>1. /\ i \in Tasks /\ periods[i] \in Nat \ {0} /\ result \in Nat \ {0}
      /\ a \in Nat \ {0} /\ b = 0 /\ product = result * periods[i] /\ n \in Nat \ {0}
      /\ MadeOf(a, result, periods[i]) /\ n * periods[i] <= INT_MAX /\ Divides(result, n)
  BY HyperNumbers DEF Divide, HyperTyped, Tasks, OnTheWay, Fits
<1>2. Divides(a, result) /\ Divides(a, periods[i])
  <2>1. Divides(a, a) /\ Divides(a, b)
    <3>1. a = a * 1 /\ b = a * 0
      BY <1>1
    <3> QED BY <3>1 DEF Divides
  <2> QED BY <1>1, <2>1 DEF OnTheWay, Divide
<1> DEFINE l == (result * periods[i]) \div a
<1>3. /\ l \in Nat \ {0} /\ Divides(result, l) /\ Divides(periods[i], l)
      /\ \A m \in Nat : Divides(result, m) /\ Divides(periods[i], m) => Divides(l, m)
  BY <1>1, <1>2, LeastMultiple
<1>4. l = Quotient(product, a)
  BY <1>1 DEF Quotient, Abs
<1> HIDE DEF l
<1>5. Divides(l, n)
  BY <1>1, <1>3, PeriodDivides
<1>6. l \in Ints
  <2>1. l <= n
    BY <1>1, <1>3, <1>5, DividesLeq
  <2>2. n <= n * periods[i]
    BY <1>1
  <2> QED BY <1>1, <1>3, <2>1, <2>2, IntAssumption DEF Ints, INT_MIN
<1>7. /\ result' = l /\ i' = i + 1 /\ pc' = "loop" /\ UNCHANGED periods
  BY <1>1, <1>4, <1>6 DEF Divide, AsInt
<1>8. ASSUME NEW t \in 0 .. i PROVE Divides(periods[t], l)
  <2>1. CASE t = i
    BY <1>3, <2>1
  <2>2. CASE t # i
    <3>1. t \in 0 .. i - 1 /\ t \in Tasks
      BY <1>1, <2>2, TaskCountAssumption DEF Tasks
    <3>2. Divides(periods[t], result) /\ periods[t] \in Int
      BY <3>1, HyperNumbers DEF OnTheWay
    <3> QED BY <1>1, <1>3, <3>2, DividesTransitive
  <2> QED BY <2>1, <2>2
<1>9. \A t \in 0 .. i' - 1 : Divides(periods'[t], result')
  <2>1. i' - 1 = i
    BY <1>1, <1>7, HyperNumbers
  <2> QED BY <1>7, <1>8, <2>1
<1> QED BY <1>3, <1>5, <1>7, <1>9 DEF OnTheWay

LEMMA HyperStep == HyperInv /\ [Next]_vars => HyperInv'
<1> SUFFICES ASSUME HyperInv, [Next]_vars PROVE HyperInv'
  OBVIOUS
<1> USE DEF HyperInv
<1>1. UNCHANGED periods
  BY DEF Next, Multiply, Euclid, Divide, Return, Done, vars
<1>2. HyperTyped'
  BY TaskCountAssumption
     DEF HyperTyped, Next, Multiply, Euclid, Divide, Return, Done, vars
<1>3. ASSUME NEW n, Fits(n)' PROVE OnTheWay(n)'
  <2>1. Fits(n) /\ OnTheWay(n)
    BY <1>1, <1>3 DEF Fits, Multiple
  <2>2. CASE Return \/ Done \/ UNCHANGED vars
    BY <2>1, <2>2 DEF Return, Done, vars, OnTheWay
  <2> QED BY <2>1, <2>2, HyperMultiply, HyperEuclid, HyperDivide DEF Next
<1> QED BY <1>2, <1>3

LEMMA HyperRight == HyperInv => HyperperiodIsRight
<1> SUFFICES ASSUME HyperInv, pc = "done",
                    NEW n \in 1 .. INT_MAX \div LongestPeriod, IsHyperperiod(n)
             PROVE  result = n
  BY DEF HyperperiodIsRight
<1>1. HyperTyped /\ i = NUM_OF_TASK /\ 0 \in Tasks
  BY HyperNumbers, TaskCountAssumption DEF HyperInv, HyperTyped, Tasks
<1>2. LongestPeriod \in Nat \ {0} /\ \A t \in Tasks : periods[t] <= LongestPeriod
  <2> DEFINE P == {periods[t] : t \in Tasks}
  <2>1. P \in SUBSET (0 .. INT_MAX) /\ P # {} /\ INT_MAX \in Nat
    BY <1>1, IntAssumption DEF HyperTyped
  <2>2. Max(P) \in P /\ \A y \in P : y <= Max(P)
    BY <2>1, MaxIsGreatest
  <2>3. LongestPeriod = Max(P)
    BY DEF LongestPeriod, Tasks
  <2> QED BY <1>1, <2>2, <2>3 DEF HyperTyped
<1>3. Fits(n)
  <2>1. n * LongestPeriod <= INT_MAX
    BY <1>2, IntAssumption
  <2>2. ASSUME NEW t \in Tasks PROVE n * periods[t] <= INT_MAX
    <3>1. periods[t] \in Nat /\ periods[t] <= LongestPeriod
      BY <1>1, <1>2, HyperNumbers
    <3>2. n * periods[t] <= n * LongestPeriod
      BY <1>2, <3>1
    <3> QED BY <1>2, <2>1, <3>1, <3>2, IntAssumption
  <2> QED BY <2>2 DEF Fits, IsHyperperiod
<1>4. /\ result \in Nat \ {0} /\ Divides(result, n)
      /\ \A t \in Tasks : Divides(periods[t], result)
  BY <1>1, <1>3 DEF HyperInv, OnTheWay, Tasks
<1>5. result <= n
  BY <1>4, DividesLeq
<1>6. Multiple(result)
  BY <1>1, <1>4, HyperNumbers, DividesByRemainder DEF Multiple, Tasks
<1>7. ~ (result \in 1 .. n - 1)
  BY <1>6 DEF IsHyperperiod
<1> QED BY <1>4, <1>5, <1>7

(* task_manager.c 291-312: for every table and every width of int, when    *)
(* the hyperperiod times the longest period fits an int, calculate_lcm     *)
(* returns the hyperperiod, although lcm multiplies before it divides.     *)
THEOREM HyperperiodIsComputed == Spec => []HyperperiodIsRight
  BY HyperInit, HyperStep, HyperRight, PTL DEF Spec

=============================================================================
