---------------------------- MODULE CommonProofs ----------------------------
(***************************************************************************)
(* The lemmas that the proofs share. About sums: what PrefixSum computes,  *)
(* for the partitioner. About the lists of the kernel, facts that hold of  *)
(* any sequence: what uxListRemove, vListInsert and vListInsertEnd do to   *)
(* the elements of a list in which nothing occurs twice, and what a loop   *)
(* over a list leaves. Induction is argued by a least counterexample,      *)
(* which exists because the naturals are well-founded.                     *)
(***************************************************************************)
EXTENDS SequencesExt, Sums, NaturalsInduction, WellFoundedInduction,
        SequenceTheorems, FiniteSetTheorems, TLAPS

----------------------------------------------------------------------------
(* Sums.                                                                   *)

(* A non-empty set of naturals has a least element. *)
LEMMA LeastElement ==
    ASSUME NEW T \in SUBSET Nat, T # {}
    PROVE  \E x \in T : \A y \in T : x <= y
<1> DEFINE R == OpToRel(<, Nat)
<1>1. IsWellFoundedOn(R, Nat)
  BY NatLessThanWellFounded
<1>2. \A x, y \in Nat : <<y, x>> \in R <=> y < x
  BY DEF OpToRel
<1> HIDE DEF R
<1>3. \E x \in T : \A y \in T : ~(<<y, x>> \in R)
  BY <1>1, WFMin
<1>4. PICK x \in T : \A y \in T : ~(<<y, x>> \in R)
  BY <1>3
<1>5. T \subseteq Nat
  OBVIOUS
<1>6. \A y \in T : ~(y < x)
  BY <1>2, <1>4, <1>5
<1> QED
  BY <1>4, <1>5, <1>6

(* The partial-sum tables of f: tables of every length exist, and those of *)
(* two lengths agree where both are defined.                               *)
SumTable(f, g, n) ==
    /\ g = [k \in 0 .. n |-> g[k]]
    /\ g[0] = 0
    /\ \A k \in 1 .. n : g[k] = g[k - 1] + f[k - 1]

LEMMA SumTablesExist ==
    ASSUME NEW f
    PROVE  \A n \in Nat : \E g : SumTable(f, g, n)
<1> DEFINE T == {n \in Nat : ~ \E g : SumTable(f, g, n)}
<1> SUFFICES ASSUME T # {} PROVE FALSE
  OBVIOUS
<1>1. T \in SUBSET Nat
  OBVIOUS
<1>2. PICK m \in T : \A y \in T : m <= y
  <2> HIDE DEF T
  <2> QED BY <1>1, LeastElement
<1>3. m # 0
  <2> SUFFICES ASSUME m = 0 PROVE FALSE
    OBVIOUS
  <2> DEFINE g == [k \in 0 .. 0 |-> 0]
  <2>1. SumTable(f, g, 0)
    BY DEF SumTable
  <2> QED BY <1>2, <2>1
<1>4. m - 1 \in Nat /\ m - 1 \notin T
  BY <1>2, <1>3
<1>5. PICK g : SumTable(f, g, m - 1)
  BY <1>4
<1> DEFINE h == [k \in 0 .. m |-> IF k = m THEN g[m - 1] + f[m - 1] ELSE g[k]]
<1>6. SumTable(f, h, m)
  <2>1. h = [k \in 0 .. m |-> h[k]]
    OBVIOUS
  <2>2. h[0] = 0
    BY <1>3, <1>4, <1>5 DEF SumTable
  <2>3. ASSUME NEW k \in 1 .. m PROVE h[k] = h[k - 1] + f[k - 1]
    <3>1. CASE k = m
      BY <1>4, <3>1
    <3>2. CASE k # m
      <4>1. k \in 1 .. m - 1 /\ k \in 0 .. m /\ k - 1 \in 0 .. m /\ k - 1 # m
        BY <1>4, <3>2
      <4>2. h[k] = g[k] /\ h[k - 1] = g[k - 1]
        BY <3>2, <4>1
      <4>3. g[k] = g[k - 1] + f[k - 1]
        BY <1>5, <4>1 DEF SumTable
      <4> QED BY <4>2, <4>3
    <3> QED BY <3>1, <3>2
  <2> QED
    BY <2>1, <2>2, <2>3 DEF SumTable
<1> QED
  BY <1>2, <1>6

LEMMA SumTablesAgree ==
    ASSUME NEW f, NEW m \in Nat, NEW n \in Nat, m <= n, NEW g, NEW h,
           SumTable(f, g, m), SumTable(f, h, n)
    PROVE  g[m] = h[m]
<1> DEFINE T == {k \in 0 .. m : g[k] # h[k]}
<1> SUFFICES ASSUME T # {} PROVE FALSE
  OBVIOUS
<1>1. T \in SUBSET Nat
  OBVIOUS
<1>2. PICK x \in T : \A y \in T : x <= y
  <2> HIDE DEF T
  <2> QED BY <1>1, LeastElement
<1>3. x # 0
  BY DEF SumTable
<1>4. x - 1 \in 0 .. m /\ x - 1 \notin T
  BY <1>2, <1>3
<1>5. g[x - 1] = h[x - 1]
  BY <1>4
<1>6. x \in 1 .. m /\ x \in 1 .. n
  BY <1>3
<1>7. g[x] = h[x]
  BY <1>5, <1>6 DEF SumTable
<1> QED
  BY <1>7

(* The recursion of PrefixSum has a solution, so PrefixSum unfolds. *)
LEMMA PrefixSumUnfold ==
    ASSUME NEW f
    PROVE  /\ PrefixSum(f, 0) = 0
           /\ \A n \in Nat : PrefixSum(f, n + 1) = PrefixSum(f, n) + f[n]
<1> DEFINE S(s) == s = [k \in Nat |-> IF k = 0 THEN 0 ELSE s[k - 1] + f[k - 1]]
           tab(n) == CHOOSE g : SumTable(f, g, n)
           w == [n \in Nat |-> tab(n)[n]]
<1>1. \A n \in Nat : SumTable(f, tab(n), n)
  BY SumTablesExist
<1>2. w[0] = 0
  BY <1>1 DEF SumTable
<1>3. ASSUME NEW n \in Nat, n # 0 PROVE w[n] = w[n - 1] + f[n - 1]
  <2>1. n - 1 \in Nat /\ n - 1 <= n /\ n \in 1 .. n
    BY <1>3
  <2>2. SumTable(f, tab(n), n) /\ SumTable(f, tab(n - 1), n - 1)
    BY <1>1, <2>1
  <2> HIDE DEF tab
  <2>3. tab(n - 1)[n - 1] = tab(n)[n - 1]
    BY <2>1, <2>2, SumTablesAgree
  <2>4. tab(n)[n] = tab(n)[n - 1] + f[n - 1]
    BY <2>1, <2>2 DEF SumTable
  <2> QED
    BY <2>1, <2>3, <2>4
<1>4. S(w)
  <2> HIDE DEF tab
  <2> QED
  BY <1>2, <1>3
<1> DEFINE s == CHOOSE s : S(s)
<1>5. S(s)
  <2> HIDE DEF w, S
  <2> QED BY <1>4
<1>6. \A n : PrefixSum(f, n) = s[n]
  BY DEF PrefixSum
<1> HIDE DEF s
<1>7. s[0] = 0
  BY <1>5
<1>8. \A n \in Nat : s[n + 1] = s[n] + f[n]
  <2> TAKE n \in Nat
  <2>1. n + 1 \in Nat /\ n + 1 # 0 /\ (n + 1) - 1 = n
    OBVIOUS
  <2> QED BY <1>5, <2>1
<1> QED
  BY <1>6, <1>7, <1>8

(* A sum only depends on the terms it adds. *)
LEMMA PrefixSumSame ==
    ASSUME NEW f, NEW g, NEW n \in Nat, \A k \in 0 .. n - 1 : f[k] = g[k]
    PROVE  PrefixSum(f, n) = PrefixSum(g, n)
<1> DEFINE T == {k \in 0 .. n : PrefixSum(f, k) # PrefixSum(g, k)}
<1> SUFFICES ASSUME T # {} PROVE FALSE
  OBVIOUS
<1>1. T \in SUBSET Nat
  OBVIOUS
<1>2. PICK x \in T : \A y \in T : x <= y
  <2> HIDE DEF T
  <2> QED BY <1>1, LeastElement
<1>3. x # 0
  BY PrefixSumUnfold
<1>4. x - 1 \in Nat /\ x - 1 \in 0 .. n - 1 /\ x - 1 \notin T /\ (x - 1) + 1 = x
  BY <1>2, <1>3
<1>5. PrefixSum(f, x - 1) = PrefixSum(g, x - 1) /\ f[x - 1] = g[x - 1]
  BY <1>4
<1>6. /\ PrefixSum(f, (x - 1) + 1) = PrefixSum(f, x - 1) + f[x - 1]
      /\ PrefixSum(g, (x - 1) + 1) = PrefixSum(g, x - 1) + g[x - 1]
  <2> HIDE DEF T
  <2> QED BY <1>4, PrefixSumUnfold
<1>7. PrefixSum(f, x) = PrefixSum(g, x)
  <2> HIDE DEF T
  <2> QED BY <1>4, <1>5, <1>6
<1> QED
  BY <1>7

(* A sum of positive integers is at least the number of its terms. *)
LEMMA PrefixSumPositive ==
    ASSUME NEW f, NEW n \in Nat, \A k \in 0 .. n - 1 : f[k] \in Nat /\ f[k] >= 1
    PROVE  PrefixSum(f, n) \in Nat /\ PrefixSum(f, n) >= n
<1> DEFINE T == {k \in 0 .. n : ~(PrefixSum(f, k) \in Nat /\ PrefixSum(f, k) >= k)}
<1> SUFFICES ASSUME T # {} PROVE FALSE
  OBVIOUS
<1>1. T \in SUBSET Nat
  OBVIOUS
<1>2. PICK x \in T : \A y \in T : x <= y
  <2> HIDE DEF T
  <2> QED BY <1>1, LeastElement
<1>3. x # 0
  BY PrefixSumUnfold
<1>4. x - 1 \in Nat /\ x - 1 \in 0 .. n - 1 /\ x - 1 \notin T /\ (x - 1) + 1 = x
  BY <1>2, <1>3
<1>5. /\ PrefixSum(f, x - 1) \in Nat /\ PrefixSum(f, x - 1) >= x - 1
      /\ f[x - 1] \in Nat /\ f[x - 1] >= 1
  BY <1>4
<1>6. PrefixSum(f, (x - 1) + 1) = PrefixSum(f, x - 1) + f[x - 1]
  <2> HIDE DEF T
  <2> QED BY <1>4, PrefixSumUnfold
<1>7. PrefixSum(f, x) \in Nat /\ PrefixSum(f, x) >= x
  <2> HIDE DEF T
  <2>1. x \in Nat
    BY <1>1
  <2> QED BY <1>4, <1>5, <1>6, <2>1
<1> QED
  BY <1>7

(* A sum of natural numbers is one, and a sum of zeros is zero. *)
LEMMA PrefixSumNat ==
    ASSUME NEW f, NEW n \in Nat, \A k \in 0 .. n - 1 : f[k] \in Nat
    PROVE  /\ PrefixSum(f, n) \in Nat
           /\ (\A k \in 0 .. n - 1 : f[k] = 0) => PrefixSum(f, n) = 0
<1> DEFINE zero == \A k \in 0 .. n - 1 : f[k] = 0
           T == {k \in 0 .. n : ~(PrefixSum(f, k) \in Nat /\ (zero => PrefixSum(f, k) = 0))}
<1> SUFFICES ASSUME T # {} PROVE FALSE
  OBVIOUS
<1>1. T \in SUBSET Nat
  OBVIOUS
<1>2. PICK x \in T : \A y \in T : x <= y
  <2> HIDE DEF T
  <2> QED BY <1>1, LeastElement
<1>3. x # 0
  BY PrefixSumUnfold
<1>4. x - 1 \in Nat /\ x - 1 \in 0 .. n - 1 /\ x - 1 \notin T /\ (x - 1) + 1 = x
  BY <1>2, <1>3
<1>5. /\ PrefixSum(f, x - 1) \in Nat /\ (zero => PrefixSum(f, x - 1) = 0)
      /\ f[x - 1] \in Nat /\ (zero => f[x - 1] = 0)
  BY <1>4
<1>6. PrefixSum(f, (x - 1) + 1) = PrefixSum(f, x - 1) + f[x - 1]
  <2> HIDE DEF T
  <2> QED BY <1>4, PrefixSumUnfold
<1>7. PrefixSum(f, x) \in Nat /\ (zero => PrefixSum(f, x) = 0)
  <2> HIDE DEF T, zero
  <2> QED BY <1>4, <1>5, <1>6
<1> QED
  BY <1>7

(* Changing one term changes the sum by as much. *)
LEMMA PrefixSumUpdate ==
    ASSUME NEW f, NEW g, NEW n \in Nat, NEW j \in 0 .. n - 1,
           \A k \in 0 .. n - 1 : f[k] \in Nat /\ g[k] \in Nat,
           \A k \in 0 .. n - 1 : k # j => g[k] = f[k]
    PROVE  PrefixSum(g, n) = PrefixSum(f, n) - f[j] + g[j]
<1> DEFINE Right(k) == PrefixSum(g, k) = PrefixSum(f, k) - f[j] + g[j]
           T == {k \in j + 1 .. n : ~ Right(k)}
<1>1. ASSUME NEW m \in 0 .. n - 1
      PROVE  /\ PrefixSum(f, m) \in Nat
             /\ PrefixSum(f, m + 1) = PrefixSum(f, m) + f[m]
             /\ PrefixSum(g, m + 1) = PrefixSum(g, m) + g[m]
  <2>1. m \in Nat /\ \A k \in 0 .. m - 1 : f[k] \in Nat
    OBVIOUS
  <2> QED BY <2>1, PrefixSumNat, PrefixSumUnfold
<1>2. Right(j + 1)
  <2>1. j \in Nat /\ \A k \in 0 .. j - 1 : f[k] = g[k]
    OBVIOUS
  <2>2. PrefixSum(g, j) = PrefixSum(f, j)
    BY <2>1, PrefixSumSame
  <2> QED BY <1>1, <2>2
<1>3. SUFFICES ASSUME T # {} PROVE FALSE
  <2>1. n \in j + 1 .. n
    OBVIOUS
  <2> QED BY <1>3, <2>1
<1>4. T \in SUBSET Nat
  OBVIOUS
<1>5. PICK x \in T : \A y \in T : x <= y
  <2> HIDE DEF T
  <2> QED BY <1>3, <1>4, LeastElement
<1>6. x # j + 1
  <2> HIDE DEF Right
  <2> QED BY <1>2, <1>5
<1>7. /\ x - 1 \in 0 .. n - 1 /\ x - 1 # j /\ x - 1 \in j + 1 .. n /\ (x - 1) + 1 = x
      /\ x - 1 \notin T /\ ~ Right(x)
  <2> HIDE DEF Right
  <2> QED BY <1>5, <1>6
<1>8. Right(x - 1) /\ g[x - 1] = f[x - 1]
  BY <1>7
<1>9. Right((x - 1) + 1)
  <2> HIDE DEF T
  <2>1. PrefixSum(g, (x - 1) + 1) = PrefixSum(f, x - 1) - f[j] + g[j] + f[x - 1]
    BY <1>1, <1>7, <1>8
  <2>2. PrefixSum(f, (x - 1) + 1) = PrefixSum(f, x - 1) + f[x - 1]
    BY <1>1, <1>7
  <2>3. f[x - 1] \in Nat /\ f[j] \in Nat /\ g[j] \in Nat /\ PrefixSum(f, x - 1) \in Nat
    BY <1>1, <1>7
  <2> QED BY <2>1, <2>2, <2>3
<1> QED
  BY <1>7, <1>9

----------------------------------------------------------------------------
(* Lists.                                                                  *)

Occurs(t, s) == \E k \in 1 .. Len(s) : s[k] = t
Once(s) == \A j, k \in 1 .. Len(s) : s[j] = s[k] => j = k

(* Least and greatest elements of bounded sets of numbers. *)
LEMMA MinIsLeast ==
    ASSUME NEW T \in SUBSET Nat, T # {}
    PROVE  Min(T) \in T /\ \A y \in T : Min(T) <= y
  BY LeastElement DEF Min

LEMMA MaxIsGreatest ==
    ASSUME NEW n \in Nat, NEW T \in SUBSET (0 .. n), T # {}
    PROVE  Max(T) \in T /\ \A y \in T : y <= Max(T)
<1> DEFINE U == {x \in 0 .. n : n - x \in T}
<1>1. U \in SUBSET Nat /\ U # {}
  <2>1. PICK y \in T : TRUE
    OBVIOUS
  <2>2. y \in 0 .. n /\ n - y \in 0 .. n /\ n - (n - y) = y
    BY <2>1
  <2>3. n - y \in U
    BY <2>1, <2>2
  <2>4. U \subseteq Nat
    OBVIOUS
  <2> HIDE DEF U
  <2> QED BY <2>3, <2>4
<1>2. PICK x \in U : \A z \in U : x <= z
  <2> HIDE DEF U
  <2> QED BY <1>1, LeastElement
<1>3. n - x \in T /\ \A y \in T : n - x >= y
  <2>1. ASSUME NEW y \in T PROVE n - x >= y
    <3>1. y \in 0 .. n /\ n - y \in 0 .. n /\ n - (n - y) = y
      OBVIOUS
    <3>2. n - y \in U
      BY <3>1
    <3>3. x \in Nat /\ x <= n - y
      BY <1>2, <3>2
    <3> QED BY ONLY n \in Nat, <3>1, <3>3
  <2> QED BY <1>2, <2>1
<1>4. \E m \in T : \A y \in T : m >= y
  BY <1>3
<1>5. Max(T) \in T /\ \A y \in T : Max(T) >= y
  BY <1>4 DEF Max
<1> QED BY <1>5

----------------------------------------------------------------------------
(* Taking an element out.                                                  *)

LEMMA RemoveAtFacts ==
    ASSUME NEW S, NEW s \in Seq(S), NEW n \in 1 .. Len(s)
    PROVE  /\ RemoveAt(s, n) \in Seq(S)
           /\ Len(RemoveAt(s, n)) = Len(s) - 1
           /\ \A k \in 1 .. Len(s) - 1 : RemoveAt(s, n)[k] = IF k < n THEN s[k] ELSE s[k + 1]
<1>1. Len(s) \in Nat
  BY LenProperties
<1> DEFINE a == SubSeq(s, 1, n - 1)
           b == SubSeq(s, n + 1, Len(s))
<1>2. a \in Seq(S) /\ Len(a) = n - 1 /\ \A k \in 1 .. n - 1 : a[k] = s[k]
  BY <1>1, SubSeqProperties
<1>3. b \in Seq(S) /\ Len(b) = Len(s) - n /\ \A k \in 1 .. Len(s) - n : b[k] = s[n + k]
  BY <1>1, SubSeqProperties
<1>4. RemoveAt(s, n) = a \o b
  BY DEF RemoveAt
<1> HIDE DEF a, b
<1>5. /\ a \o b \in Seq(S) /\ Len(a \o b) = Len(a) + Len(b)
      /\ \A k \in 1 .. Len(a) + Len(b) :
            (a \o b)[k] = IF k <= Len(a) THEN a[k] ELSE b[k - Len(a)]
  BY <1>2, <1>3, ConcatProperties
<1>6. ASSUME NEW k \in 1 .. Len(s) - 1
      PROVE  (a \o b)[k] = IF k < n THEN s[k] ELSE s[k + 1]
  <2>1. k \in 1 .. Len(a) + Len(b)
    BY <1>1, <1>2, <1>3
  <2>2. CASE k < n
    BY <1>1, <1>2, <1>5, <2>1, <2>2
  <2>3. CASE k >= n
    <3>1. k - (n - 1) \in 1 .. Len(s) - n /\ n + (k - (n - 1)) = k + 1 /\ ~ (k <= n - 1)
      BY <1>1, <2>3
    <3>2. b[k - (n - 1)] = s[k + 1]
      BY <1>3, <3>1
    <3>3. (a \o b)[k] = b[k - (n - 1)]
      BY <1>2, <1>5, <2>1, <3>1
    <3>4. ~ (k < n)
      BY <2>3
    <3> QED BY <3>2, <3>3, <3>4
  <2>4. k < n \/ k >= n
    OBVIOUS
  <2> QED BY <2>2, <2>3, <2>4
<1> QED
  BY <1>1, <1>2, <1>3, <1>4, <1>5, <1>6

LEMMA RemoveFirstFacts ==
    ASSUME NEW S, NEW s \in Seq(S), NEW e
    PROVE  /\ RemoveFirst(s, e) \in Seq(S)
           /\ Once(s) => /\ Once(RemoveFirst(s, e))
                         /\ \A t : Occurs(t, RemoveFirst(s, e)) <=> Occurs(t, s) /\ t # e
<1>1. Len(s) \in Nat
  BY LenProperties
<1>2. CASE ~ \E k \in 1 .. Len(s) : s[k] = e
  <2>1. RemoveFirst(s, e) = s
    BY <1>2 DEF RemoveFirst
  <2> QED BY <1>2, <2>1 DEF Occurs
<1>3. CASE \E k \in 1 .. Len(s) : s[k] = e
  <2> DEFINE I == {k \in 1 .. Len(s) : s[k] = e}
             n == Min(I)
             r == RemoveAt(s, n)
  <2>1. I # {} /\ I \in SUBSET Nat
    BY <1>1, <1>3
  <2>2. n \in I
    <3> HIDE DEF I
    <3> QED BY <2>1, MinIsLeast
  <2>3. RemoveFirst(s, e) = r
    BY <1>3, <2>1 DEF RemoveFirst, SelectInSeq
  <2> HIDE DEF n, r
  <2>4. n \in 1 .. Len(s) /\ s[n] = e
    BY <2>2
  <2>5. /\ r \in Seq(S) /\ Len(r) = Len(s) - 1
        /\ \A k \in 1 .. Len(s) - 1 : r[k] = IF k < n THEN s[k] ELSE s[k + 1]
    BY <2>4, RemoveAtFacts DEF r
  <2>6. ASSUME Once(s) PROVE Once(r)
    BY <1>1, <2>4, <2>5, <2>6 DEF Once
  <2>7. ASSUME Once(s), NEW t, Occurs(t, s), t # e PROVE Occurs(t, r)
    <3>1. PICK k \in 1 .. Len(s) : s[k] = t
      BY <2>7 DEF Occurs
    <3>2. CASE k < n
      BY <1>1, <2>4, <2>5, <3>1, <3>2 DEF Occurs
    <3>3. CASE k > n
      <4>1. k - 1 \in 1 .. Len(r) /\ r[k - 1] = t
        BY <1>1, <2>4, <2>5, <3>1, <3>3
      <4> QED BY <4>1 DEF Occurs
    <3>4. k # n
      BY <2>4, <2>7, <3>1
    <3> QED BY <2>4, <3>2, <3>3, <3>4
  <2>8. ASSUME Once(s), NEW t, Occurs(t, r) PROVE Occurs(t, s) /\ t # e
    <3>1. PICK k \in 1 .. Len(r) : r[k] = t
      BY <2>8 DEF Occurs
    <3>2. k \in 1 .. Len(s) /\ k + 1 \in 1 .. Len(s) /\ (k < n \/ k >= n)
      BY <1>1, <2>4, <2>5
    <3>3. CASE k < n
      <4>1. s[k] = t /\ k # n
        BY <1>1, <2>5, <3>1, <3>3
      <4> QED BY <2>4, <2>8, <3>2, <4>1 DEF Occurs, Once
    <3>4. CASE k >= n
      <4>1. s[k + 1] = t /\ k + 1 # n
        BY <1>1, <2>4, <2>5, <3>1, <3>4
      <4> QED BY <2>4, <2>8, <3>2, <4>1 DEF Occurs, Once
    <3> QED BY <3>2, <3>3, <3>4
  <2> QED BY <2>3, <2>5, <2>6, <2>7, <2>8
<1> QED BY <1>2, <1>3

----------------------------------------------------------------------------
(* Putting an element in.                                                  *)

LEMMA InsertAtFacts ==
    ASSUME NEW S, NEW s \in Seq(S), NEW n \in 1 .. Len(s) + 1, NEW e \in S
    PROVE  /\ InsertAt(s, n, e) \in Seq(S)
           /\ Len(InsertAt(s, n, e)) = Len(s) + 1
           /\ \A k \in 1 .. Len(s) + 1 :
                 InsertAt(s, n, e)[k] = IF k < n THEN s[k] ELSE IF k = n THEN e ELSE s[k - 1]
<1>1. Len(s) \in Nat
  BY LenProperties
<1> DEFINE a == SubSeq(s, 1, n - 1)
           b == SubSeq(s, n, Len(s))
<1>2. a \in Seq(S) /\ Len(a) = n - 1 /\ \A k \in 1 .. n - 1 : a[k] = s[k]
  BY <1>1, SubSeqProperties
<1>3. b \in Seq(S) /\ Len(b) = Len(s) - n + 1 /\ \A k \in 1 .. Len(s) - n + 1 : b[k] = s[n + k - 1]
  BY <1>1, SubSeqProperties
<1> HIDE DEF a, b
<1>4. <<e>> \in Seq(S) /\ Len(<<e>>) = 1 /\ <<e>>[1] = e
  OBVIOUS
<1>5. /\ a \o <<e>> \in Seq(S) /\ Len(a \o <<e>>) = n
      /\ \A k \in 1 .. n : (a \o <<e>>)[k] = IF k < n THEN s[k] ELSE e
  BY <1>1, <1>2, <1>4, ConcatProperties
<1>6. InsertAt(s, n, e) = (a \o <<e>>) \o b
  BY DEF InsertAt, a, b
<1> QED
  BY SMTT(20), <1>1, <1>3, <1>5, <1>6, ConcatProperties

LEMMA InsertOnce ==
    ASSUME NEW S, NEW s \in Seq(S), NEW n \in 1 .. Len(s) + 1, NEW e \in S
    PROVE  /\ \A t : Occurs(t, InsertAt(s, n, e)) <=> Occurs(t, s) \/ t = e
           /\ Once(s) /\ ~ Occurs(e, s) => Once(InsertAt(s, n, e))
<1>1. Len(s) \in Nat
  BY LenProperties
<1> DEFINE r == InsertAt(s, n, e)
<1>2. /\ Len(r) = Len(s) + 1
      /\ \A k \in 1 .. Len(s) + 1 :
            r[k] = IF k < n THEN s[k] ELSE IF k = n THEN e ELSE s[k - 1]
  <2>1. r \in Seq(S) /\ Len(r) = Len(s) + 1
    BY InsertAtFacts
  <2>2. \A k \in 1 .. Len(s) + 1 :
            r[k] = IF k < n THEN s[k] ELSE IF k = n THEN e ELSE s[k - 1]
    BY InsertAtFacts
  <2> QED BY <2>1, <2>2
<1> HIDE DEF r
<1>3. ASSUME NEW t, Occurs(t, r) PROVE Occurs(t, s) \/ t = e
  <2>1. PICK k \in 1 .. Len(r) : r[k] = t
    BY <1>3 DEF Occurs
  <2>2. CASE k < n
    BY <1>1, <1>2, <2>1, <2>2 DEF Occurs
  <2>3. CASE k = n
    BY <1>2, <2>1, <2>3
  <2>4. CASE k > n
    <3>1. k - 1 \in 1 .. Len(s) /\ s[k - 1] = t
      BY <1>1, <1>2, <2>1, <2>4
    <3> QED BY <3>1 DEF Occurs
  <2> QED BY <1>2, <2>2, <2>3, <2>4
<1>4. ASSUME NEW t, Occurs(t, s) PROVE Occurs(t, r)
  <2>1. PICK k \in 1 .. Len(s) : s[k] = t
    BY <1>4 DEF Occurs
  <2>2. CASE k < n
    BY <1>1, <1>2, <2>1, <2>2 DEF Occurs
  <2>3. CASE k >= n
    <3>1. k + 1 \in 1 .. Len(r) /\ r[k + 1] = t
      BY <1>1, <1>2, <2>1, <2>3
    <3> QED BY <3>1 DEF Occurs
  <2> QED BY <1>1, <2>2, <2>3
<1>5. Occurs(e, r)
  BY <1>1, <1>2 DEF Occurs
<1>6. ASSUME Once(s), ~ Occurs(e, s) PROVE Once(r)
  <2> SUFFICES ASSUME NEW j \in 1 .. Len(r), NEW k \in 1 .. Len(r), r[j] = r[k], j < k
               PROVE  FALSE
    BY <1>1, <1>2 DEF Once
  <2>1. CASE k = n
    BY <1>1, <1>2, <1>6, <2>1 DEF Occurs
  <2>2. CASE k < n
    BY <1>1, <1>2, <1>6, <2>2 DEF Once
  <2>3. CASE k > n
    <3>1. k - 1 \in 1 .. Len(s) /\ r[k] = s[k - 1]
      BY <1>1, <1>2, <2>3
    <3>2. CASE j < n
      BY <1>1, <1>2, <1>6, <2>3, <3>1, <3>2 DEF Once
    <3>3. CASE j = n
      BY <1>1, <1>2, <1>6, <3>1, <3>3 DEF Occurs
    <3>4. CASE j > n
      <4>1. j - 1 \in 1 .. Len(s) /\ r[j] = s[j - 1] /\ j - 1 # k - 1
        BY <1>1, <1>2, <3>4
      <4> QED BY <1>6, <3>1, <4>1 DEF Once
    <3> QED BY <3>2, <3>3, <3>4
  <2> QED BY <1>1, <2>1, <2>2, <2>3
<1> QED BY <1>3, <1>4, <1>5, <1>6 DEF r

LEMMA AppendOnce ==
    ASSUME NEW S, NEW s \in Seq(S), NEW e \in S
    PROVE  /\ Append(s, e) \in Seq(S)
           /\ \A t : Occurs(t, Append(s, e)) <=> Occurs(t, s) \/ t = e
           /\ Once(s) /\ ~ Occurs(e, s) => Once(Append(s, e))
<1>1. /\ Len(s) \in Nat /\ Append(s, e) \in Seq(S) /\ Len(Append(s, e)) = Len(s) + 1
      /\ \A k \in 1 .. Len(s) : Append(s, e)[k] = s[k]
      /\ Append(s, e)[Len(s) + 1] = e
  BY LenProperties, AppendProperties
<1> QED BY <1>1 DEF Occurs, Once

(* A list cut in two, and two lists joined. *)
LEMMA CutOnce ==
    ASSUME NEW S, NEW s \in Seq(S), NEW n \in 0 .. Len(s), Once(s)
    PROVE  LET a == SubSeq(s, 1, n)
               b == SubSeq(s, n + 1, Len(s))
           IN /\ a \in Seq(S) /\ b \in Seq(S)
              /\ Len(a) = n /\ Len(b) = Len(s) - n
              /\ \A k \in 1 .. n : a[k] = s[k]
              /\ \A k \in 1 .. Len(s) - n : b[k] = s[n + k]
              /\ Once(a) /\ Once(b)
              /\ \A t : Occurs(t, s) <=> Occurs(t, a) \/ Occurs(t, b)
              /\ \A t : ~ (Occurs(t, a) /\ Occurs(t, b))
<1> DEFINE a == SubSeq(s, 1, n)
           b == SubSeq(s, n + 1, Len(s))
<1>1. Len(s) \in Nat
  BY LenProperties
<1>2. a \in Seq(S) /\ Len(a) = n /\ \A k \in 1 .. n : a[k] = s[k]
  BY <1>1, SubSeqProperties
<1>3. b \in Seq(S) /\ Len(b) = Len(s) - n /\ \A k \in 1 .. Len(s) - n : b[k] = s[n + k]
  BY <1>1, SubSeqProperties
<1> HIDE DEF a, b
<1>4. Once(a)
  BY <1>1, <1>2 DEF Once
<1>5. Once(b)
  <2> SUFFICES ASSUME NEW j \in 1 .. Len(b), NEW k \in 1 .. Len(b), b[j] = b[k] PROVE j = k
    BY DEF Once
  <2>1. n + j \in 1 .. Len(s) /\ n + k \in 1 .. Len(s) /\ s[n + j] = s[n + k]
    BY <1>1, <1>3
  <2>2. n + j = n + k
    BY <2>1 DEF Once
  <2> QED BY <1>1, <1>3, <2>2
<1>6. ASSUME NEW t, Occurs(t, s) PROVE Occurs(t, a) \/ Occurs(t, b)
  <2>1. PICK k \in 1 .. Len(s) : s[k] = t
    BY <1>6 DEF Occurs
  <2>2. CASE k <= n
    BY <1>1, <1>2, <2>1, <2>2 DEF Occurs
  <2>3. CASE k > n
    <3>1. k - n \in 1 .. Len(b) /\ b[k - n] = t
      BY <1>1, <1>3, <2>1, <2>3
    <3> QED BY <3>1 DEF Occurs
  <2> QED BY <1>1, <2>2, <2>3
<1>7. ASSUME NEW t, Occurs(t, a) PROVE Occurs(t, s)
  BY <1>1, <1>2, <1>7 DEF Occurs
<1>8. ASSUME NEW t, Occurs(t, b) PROVE Occurs(t, s)
  <2>1. PICK k \in 1 .. Len(b) : b[k] = t
    BY <1>8 DEF Occurs
  <2>2. n + k \in 1 .. Len(s) /\ s[n + k] = t
    BY <1>1, <1>3, <2>1
  <2> QED BY <2>2 DEF Occurs
<1>9. ASSUME NEW t, Occurs(t, a), Occurs(t, b) PROVE FALSE
  <2>1. PICK j \in 1 .. Len(a) : a[j] = t
    BY <1>9 DEF Occurs
  <2>2. PICK k \in 1 .. Len(b) : b[k] = t
    BY <1>9 DEF Occurs
  <2>3. /\ j \in 1 .. Len(s) /\ n + k \in 1 .. Len(s) /\ s[j] = s[n + k] /\ j < n + k
    BY <1>1, <1>2, <1>3, <2>1, <2>2
  <2> QED BY <2>3 DEF Once
<1> QED BY <1>2, <1>3, <1>4, <1>5, <1>6, <1>7, <1>8, <1>9 DEF a, b

LEMMA JoinOnce ==
    ASSUME NEW S, NEW a \in Seq(S), NEW b \in Seq(S)
    PROVE  /\ a \o b \in Seq(S)
           /\ \A t : Occurs(t, a \o b) <=> Occurs(t, a) \/ Occurs(t, b)
           /\ Once(a) /\ Once(b) /\ (\A t : ~ (Occurs(t, a) /\ Occurs(t, b))) => Once(a \o b)
<1> DEFINE r == a \o b
<1>1. /\ Len(a) \in Nat /\ Len(b) \in Nat
      /\ r \in Seq(S) /\ Len(r) = Len(a) + Len(b)
      /\ \A k \in 1 .. Len(a) + Len(b) : r[k] = IF k <= Len(a) THEN a[k] ELSE b[k - Len(a)]
  BY LenProperties, ConcatProperties
<1> HIDE DEF r
<1>2. ASSUME NEW t, Occurs(t, r) PROVE Occurs(t, a) \/ Occurs(t, b)
  <2>1. PICK k \in 1 .. Len(r) : r[k] = t
    BY <1>2 DEF Occurs
  <2>2. CASE k <= Len(a)
    BY <1>1, <2>1, <2>2 DEF Occurs
  <2>3. CASE k > Len(a)
    <3>1. k - Len(a) \in 1 .. Len(b) /\ b[k - Len(a)] = t
      BY <1>1, <2>1, <2>3
    <3> QED BY <3>1 DEF Occurs
  <2> QED BY <1>1, <2>2, <2>3
<1>3. ASSUME NEW t, Occurs(t, a) PROVE Occurs(t, r)
  BY <1>1, <1>3 DEF Occurs
<1>4. ASSUME NEW t, Occurs(t, b) PROVE Occurs(t, r)
  <2>1. PICK k \in 1 .. Len(b) : b[k] = t
    BY <1>4 DEF Occurs
  <2>2. Len(a) + k \in 1 .. Len(a) + Len(b) /\ ~ (Len(a) + k <= Len(a)) /\ (Len(a) + k) - Len(a) = k
    BY <1>1
  <2>3. r[Len(a) + k] = t
    BY <1>1, <2>1, <2>2
  <2> QED BY <1>1, <2>2, <2>3 DEF Occurs
<1>5. ASSUME Once(a), Once(b), \A t : ~ (Occurs(t, a) /\ Occurs(t, b)) PROVE Once(r)
  <2> SUFFICES ASSUME NEW j \in 1 .. Len(r), NEW k \in 1 .. Len(r), r[j] = r[k], j < k
               PROVE  FALSE
    BY <1>1 DEF Once
  <2>1. CASE k <= Len(a)
    BY <1>1, <1>5, <2>1 DEF Once
  <2>2. CASE k > Len(a) /\ j <= Len(a)
    <3>1. j \in 1 .. Len(a) /\ a[j] = r[j] /\ k - Len(a) \in 1 .. Len(b) /\ b[k - Len(a)] = r[j]
      BY <1>1, <2>2
    <3>2. Occurs(r[j], a) /\ Occurs(r[j], b)
      BY <3>1 DEF Occurs
    <3> QED BY <1>5, <3>2
  <2>3. CASE j > Len(a)
    <3>1. /\ j - Len(a) \in 1 .. Len(b) /\ k - Len(a) \in 1 .. Len(b)
          /\ b[j - Len(a)] = b[k - Len(a)] /\ j - Len(a) # k - Len(a)
      BY <1>1, <2>3
    <3> QED BY <1>5, <3>1 DEF Once
  <2> QED BY <1>1, <2>1, <2>2, <2>3
<1> QED BY <1>1, <1>2, <1>3, <1>4, <1>5 DEF r

(* How often an element occurs. *)
LEMMA OccurrenceCount ==
    ASSUME NEW S, NEW s \in Seq(S), Once(s), NEW t
    PROVE  Cardinality({k \in 1 .. Len(s) : s[k] = t}) = IF Occurs(t, s) THEN 1 ELSE 0
<1>1. CASE Occurs(t, s)
  <2>1. PICK k \in 1 .. Len(s) : s[k] = t
    BY <1>1 DEF Occurs
  <2>2. {j \in 1 .. Len(s) : s[j] = t} = {k}
    BY <2>1 DEF Once
  <2> QED BY <1>1, <2>2, FS_Singleton
<1>2. CASE ~ Occurs(t, s)
  <2>1. {j \in 1 .. Len(s) : s[j] = t} = {}
    BY <1>2 DEF Occurs
  <2> QED BY <1>2, <2>1, FS_EmptySet
<1> QED BY <1>1, <1>2

----------------------------------------------------------------------------
(* A loop that applies step[1], ..., step[n] in turn leaves a value after  *)
(* each turn.                                                              *)
LEMMA Iteration ==
    ASSUME NEW V, NEW base \in V, NEW n \in Nat, NEW step \in [1 .. n -> [V -> V]]
    PROVE  \E g \in [0 .. n -> V] : g[0] = base /\ \A k \in 1 .. n : g[k] = step[k][g[k - 1]]
<1> DEFINE P(m) == \E g \in [0 .. m -> V] :
                      g[0] = base /\ \A k \in 1 .. m : g[k] = step[k][g[k - 1]]
           T == {m \in 0 .. n : ~ P(m)}
<1> SUFFICES ASSUME T # {} PROVE FALSE
  <2>1. n \in 0 .. n
    OBVIOUS
  <2>2. P(n)
    <3> HIDE DEF P
    <3> QED BY <2>1
  <2> QED BY <2>2
<1>1. T \in SUBSET Nat
  OBVIOUS
<1>2. PICK m \in T : \A y \in T : m <= y
  <2> HIDE DEF T
  <2> QED BY <1>1, LeastElement
<1>3. m # 0
  <2> SUFFICES P(0)
    BY <1>2
  <2>1. [k \in 0 .. 0 |-> base] \in [0 .. 0 -> V] /\ [k \in 0 .. 0 |-> base][0] = base
    OBVIOUS
  <2>2. \A k \in 1 .. 0 : FALSE
    OBVIOUS
  <2> DEFINE z == [k \in 0 .. 0 |-> base]
  <2>3. \A k \in 1 .. 0 : z[k] = step[k][z[k - 1]]
    BY <2>2
  <2> HIDE DEF z
  <2>4. z \in [0 .. 0 -> V] /\ z[0] = base
    BY <2>1 DEF z
  <2> QED BY <2>3, <2>4
<1>4. m - 1 \in 0 .. n /\ m - 1 \notin T /\ m \in 1 .. n
  <2> HIDE DEF P
  <2>1. m \in 0 .. n
    OBVIOUS
  <2>2. m - 1 \in 0 .. n /\ m \in 1 .. n /\ ~ (m <= m - 1)
    BY <1>3, <2>1
  <2> QED BY <1>2, <2>2
<1>5. PICK g \in [0 .. m - 1 -> V] :
          g[0] = base /\ \A k \in 1 .. m - 1 : g[k] = step[k][g[k - 1]]
  BY <1>4
<1> DEFINE h == [k \in 0 .. m |-> IF k = m THEN step[m][g[m - 1]] ELSE g[k]]
<1>6. step[m] \in [V -> V] /\ g[m - 1] \in V
  BY <1>4
<1>7. h \in [0 .. m -> V]
  BY <1>4, <1>6
<1>8. h[0] = base
  BY <1>4, <1>5
<1>9. ASSUME NEW k \in 1 .. m PROVE h[k] = step[k][h[k - 1]]
  <2>1. k - 1 \in 0 .. m /\ k - 1 # m /\ h[k - 1] = g[k - 1]
    BY <1>4
  <2>2. CASE k = m
    BY <2>1, <2>2
  <2>3. CASE k # m
    <3>1. k \in 1 .. m - 1 /\ h[k] = g[k]
      BY <1>4, <2>3
    <3> QED BY <1>5, <2>1, <3>1
  <2> QED BY <2>2, <2>3
<1>10. P(m)
  BY <1>7, <1>8, <1>9
<1> QED BY <1>2, <1>10

----------------------------------------------------------------------------
(* The order of a list: u comes before t.                                  *)

Ahead(u, t, s) == \E j, k \in 1 .. Len(s) : j < k /\ s[j] = u /\ s[k] = t

LEMMA AheadRemove ==
    ASSUME NEW S, NEW s \in Seq(S), NEW e, NEW u, NEW t, Ahead(u, t, RemoveFirst(s, e))
    PROVE  Ahead(u, t, s)
<1>1. Len(s) \in Nat
  BY LenProperties
<1>2. CASE ~ \E k \in 1 .. Len(s) : s[k] = e
  BY <1>2 DEF RemoveFirst
<1>3. CASE \E k \in 1 .. Len(s) : s[k] = e
  <2> DEFINE I == {k \in 1 .. Len(s) : s[k] = e}
             n == Min(I)
             r == RemoveFirst(s, e)
  <2>1. I \in SUBSET Nat /\ I # {}
    BY <1>1, <1>3
  <2>2. n \in I
    <3> HIDE DEF I
    <3> QED BY <2>1, MinIsLeast
  <2>3. r = RemoveAt(s, n)
    BY <1>3, <2>1 DEF RemoveFirst, SelectInSeq
  <2>4. n \in 1 .. Len(s)
    BY <2>2
  <2> HIDE DEF n, I, r
  <2>5. Len(r) = Len(s) - 1 /\ \A k \in 1 .. Len(s) - 1 : r[k] = IF k < n THEN s[k] ELSE s[k + 1]
    BY <2>3, <2>4, RemoveAtFacts
  <2>6. PICK j, k \in 1 .. Len(r) : j < k /\ r[j] = u /\ r[k] = t
    BY DEF Ahead, r
  <2> DEFINE J == IF j < n THEN j ELSE j + 1
             K == IF k < n THEN k ELSE k + 1
  <2>7. J \in 1 .. Len(s) /\ K \in 1 .. Len(s) /\ J < K
    BY ONLY <1>1, <2>4, <2>5, <2>6
  <2>8. s[J] = u /\ s[K] = t
    BY <1>1, <2>5, <2>6
  <2> HIDE DEF J, K
  <2> QED BY <2>7, <2>8 DEF Ahead
<1> QED BY <1>2, <1>3

LEMMA AheadJoin ==
    ASSUME NEW S, NEW a \in Seq(S), NEW b \in Seq(S), NEW u, NEW t, Ahead(u, t, a \o b)
    PROVE  \/ Ahead(u, t, a)
           \/ Occurs(u, a) /\ Occurs(t, b)
           \/ Ahead(u, t, b)
<1>1. /\ Len(a) \in Nat /\ Len(b) \in Nat /\ Len(a \o b) = Len(a) + Len(b)
      /\ \A k \in 1 .. Len(a) + Len(b) :
            (a \o b)[k] = IF k <= Len(a) THEN a[k] ELSE b[k - Len(a)]
  BY LenProperties, ConcatProperties
<1>2. PICK j, k \in 1 .. Len(a) + Len(b) : j < k /\ (a \o b)[j] = u /\ (a \o b)[k] = t
  BY <1>1 DEF Ahead
<1>3. CASE k <= Len(a)
  <2>1. j \in 1 .. Len(a) /\ k \in 1 .. Len(a) /\ a[j] = u /\ a[k] = t
    BY <1>1, <1>2, <1>3
  <2> QED BY <1>2, <2>1 DEF Ahead
<1>4. CASE j <= Len(a) /\ ~ (k <= Len(a))
  <2>1. j \in 1 .. Len(a) /\ k - Len(a) \in 1 .. Len(b) /\ a[j] = u /\ b[k - Len(a)] = t
    BY <1>1, <1>2, <1>4
  <2> QED BY <2>1 DEF Occurs
<1>5. CASE ~ (j <= Len(a))
  <2>1. /\ j - Len(a) \in 1 .. Len(b) /\ k - Len(a) \in 1 .. Len(b)
        /\ j - Len(a) < k - Len(a) /\ b[j - Len(a)] = u /\ b[k - Len(a)] = t
    BY <1>1, <1>2, <1>5
  <2> QED BY <2>1 DEF Ahead
<1> QED BY <1>1, <1>2, <1>3, <1>4, <1>5

LEMMA AheadAppend ==
    ASSUME NEW S, NEW s \in Seq(S), NEW e \in S, NEW u, NEW t, Ahead(u, t, Append(s, e)), t # e
    PROVE  Ahead(u, t, s)
<1>1. /\ Len(s) \in Nat /\ Len(Append(s, e)) = Len(s) + 1
      /\ \A k \in 1 .. Len(s) : Append(s, e)[k] = s[k]
      /\ Append(s, e)[Len(s) + 1] = e
  BY LenProperties, AppendProperties
<1>2. PICK j, k \in 1 .. Len(s) + 1 : j < k /\ Append(s, e)[j] = u /\ Append(s, e)[k] = t
  BY <1>1 DEF Ahead
<1>3. k # Len(s) + 1
  BY <1>1, <1>2
<1>4. j \in 1 .. Len(s) /\ k \in 1 .. Len(s)
  BY <1>1, <1>2, <1>3
<1> QED BY <1>1, <1>2, <1>4 DEF Ahead

=============================================================================
