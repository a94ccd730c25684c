---------------------------- MODULE DelayProofs ----------------------------
(***************************************************************************)
(* Theorems about the delayed lists of the kernel (module DelayLists), for *)
(* every set of tasks, increments, width of the tick count and number of   *)
(* pended ticks.                                                           *)
(***************************************************************************)
EXTENDS DelayLists, CommonProofs

----------------------------------------------------------------------------
(* Sorted lists of items.                                                  *)

LEMMA OwnersOf ==
    ASSUME NEW list, NEW t
    PROVE  t \in Owners(list) <=> \E item : Occurs(item, list) /\ item.owner = t
  BY DEF Owners, Occurs

LEMMA InOrderOnce ==
    ASSUME NEW list \in Seq(Items), InOrder(list)
    PROVE  /\ Once(list)
           /\ \A item, other : Occurs(item, list) /\ Occurs(other, list) /\ item.owner = other.owner
                                 => item = other
           /\ list # <<>> => /\ Occurs(Head(list), list)
                             /\ \A item : Occurs(item, list)
                                            => Head(list).xItemValue <= item.xItemValue
           /\ list = <<>> => \A item : ~ Occurs(item, list)
           /\ \A item : Occurs(item, list) => item \in Items
<1>1. Len(list) \in Nat
  BY LenProperties
<1>2. \A j, k \in 1 .. Len(list) : list[j].owner = list[k].owner => j = k
  <2> SUFFICES ASSUME NEW j \in 1 .. Len(list), NEW k \in 1 .. Len(list),
                      list[j].owner = list[k].owner, j # k
               PROVE  FALSE
    OBVIOUS
  <2>1. j < k \/ k < j
    BY <1>1
  <2> QED BY <2>1 DEF InOrder
<1>3. list # <<>> => 1 \in 1 .. Len(list) /\ Head(list) = list[1]
  BY <1>1, EmptySeq
<1>4. \A k \in 1 .. Len(list) : list[k] \in Items /\ list[k].xItemValue \in Times
  <2>1. \A k \in 1 .. Len(list) : list[k] \in Items
    BY ElementOfSeq
  <2> QED BY <2>1 DEF Items
<1>5. \A k \in 1 .. Len(list) : list[1].xItemValue <= list[k].xItemValue
  <2> SUFFICES ASSUME NEW k \in 1 .. Len(list)
               PROVE  list[1].xItemValue <= list[k].xItemValue
    OBVIOUS
  <2>1. CASE k = 1
    <3>1. list[k].xItemValue \in Int
      BY <1>4, ModulusAssumption DEF Times
    <3> QED BY <2>1, <3>1
  <2>2. CASE k # 1
    <3>1. 1 \in 1 .. Len(list) /\ 1 < k
      BY <1>1, <2>2
    <3> QED BY <3>1 DEF InOrder
  <2> QED BY <2>1, <2>2
<1>6. Once(list)
  BY <1>2 DEF Once
<1>7. list = <<>> => \A item : ~ Occurs(item, list)
  BY <1>1 DEF Occurs
<1> QED BY <1>2, <1>3, <1>4, <1>5, <1>6, <1>7 DEF Occurs

(* vListInsert keeps a list sorted; the new head is the earlier one. *)
LEMMA InsertedFacts ==
    ASSUME NEW list \in Seq(Items), InOrder(list), NEW item \in Items,
           item.owner \notin Owners(list)
    PROVE  /\ Inserted(list, item) \in Seq(Items)
           /\ InOrder(Inserted(list, item))
           /\ \A other : Occurs(other, Inserted(list, item)) <=> Occurs(other, list) \/ other = item
<1> DEFINE T == {n \in 0 .. Len(list) : \A k \in 1 .. n : list[k].xItemValue <= item.xItemValue}
           n == Max(T) + 1
           r == InsertAt(list, n, item)
<1>1. Len(list) \in Nat
  BY LenProperties
<1>2. T \in SUBSET (0 .. Len(list)) /\ T # {}
  <2>1. 0 \in T
    BY <1>1
  <2> QED BY <2>1
<1>3. Max(T) \in T /\ \A y \in T : y <= Max(T)
  <2> HIDE DEF T
  <2> QED BY <1>1, <1>2, MaxIsGreatest
<1>4. Inserted(list, item) = r
  BY DEF Inserted
<1>5. Max(T) \in 0 .. Len(list) /\ \A k \in 1 .. Max(T) : list[k].xItemValue <= item.xItemValue
  BY <1>3
<1>6. PICK m \in 0 .. Len(list) : m = Max(T)
  BY <1>5
<1>7. \A y \in T : y <= m
  BY <1>3, <1>6
<1>8. /\ n = m + 1 /\ n \in 1 .. Len(list) + 1
      /\ \A k \in 1 .. m : list[k].xItemValue <= item.xItemValue
  BY <1>1, <1>5, <1>6
<1>9. \A k \in 1 .. Len(list) : list[k] \in Items /\ list[k].xItemValue \in Int
  <2>1. Times \subseteq Int
    BY ModulusAssumption DEF Times
  <2>2. \A k \in 1 .. Len(list) : list[k] \in Items
    BY ElementOfSeq
  <2>3. \A k \in 1 .. Len(list) : list[k].xItemValue \in Times
    BY <2>2 DEF Items
  <2> QED BY <2>1, <2>2, <2>3
<1>10. item.xItemValue \in Int
  <2>1. Times \subseteq Int
    BY ModulusAssumption DEF Times
  <2> QED BY <2>1 DEF Items
<1>11. \A k \in m + 1 .. Len(list) : item.xItemValue <= list[k].xItemValue
  <2> SUFFICES ASSUME NEW k \in m + 1 .. Len(list), ~ (item.xItemValue <= list[k].xItemValue)
               PROVE  FALSE
    OBVIOUS
  <2>1. m + 1 \in 0 .. Len(list) /\ ~ (m + 1 <= m) /\ m + 1 <= k /\ m + 1 \in 1 .. Len(list) /\ k \in 1 .. Len(list)
    BY <1>1
  <2>2. list[m + 1].xItemValue <= list[k].xItemValue
    <3>1. CASE m + 1 = k
      BY <1>9, <2>1, <3>1
    <3>2. CASE m + 1 # k
      <4>1. m + 1 < k
        BY <2>1, <3>2
      <4> QED BY <2>1, <4>1 DEF InOrder
    <3> QED BY <3>1, <3>2
  <2>3. list[m + 1].xItemValue <= item.xItemValue
    BY <1>9, <1>10, <2>1, <2>2
  <2>4. \A j \in 1 .. m + 1 : list[j].xItemValue <= item.xItemValue
    <3> SUFFICES ASSUME NEW j \in 1 .. m + 1 PROVE list[j].xItemValue <= item.xItemValue
      OBVIOUS
    <3>1. j \in 1 .. m \/ j = m + 1
      OBVIOUS
    <3> QED BY <1>8, <2>3, <3>1
  <2>5. m + 1 \in T
    BY <2>1, <2>4
  <2> QED BY <1>7, <2>1, <2>5
<1> HIDE DEF T
<1>12. /\ r \in Seq(Items) /\ Len(r) = Len(list) + 1
       /\ \A k \in 1 .. Len(list) + 1 :
             r[k] = IF k < n THEN list[k] ELSE IF k = n THEN item ELSE list[k - 1]
       /\ \A other : Occurs(other, r) <=> Occurs(other, list) \/ other = item
  <2>1. n \in 1 .. Len(list) + 1
    BY <1>8
  <2> HIDE DEF n
  <2>2. /\ r \in Seq(Items) /\ Len(r) = Len(list) + 1
        /\ \A k \in 1 .. Len(list) + 1 :
              r[k] = IF k < n THEN list[k] ELSE IF k = n THEN item ELSE list[k - 1]
    <3>1. r \in Seq(Items) /\ Len(r) = Len(list) + 1
      BY <2>1, InsertAtFacts
    <3>2. \A k \in 1 .. Len(list) + 1 :
              r[k] = IF k < n THEN list[k] ELSE IF k = n THEN item ELSE list[k - 1]
      BY <2>1, InsertAtFacts
    <3> QED BY <3>1, <3>2
  <2>3. \A other : Occurs(other, r) <=> Occurs(other, list) \/ other = item
    BY <2>1, InsertOnce
  <2> QED BY <2>2, <2>3
<1>13. \A k \in 1 .. Len(list) : list[k].owner # item.owner
  BY DEF Owners
<1>14. ASSUME NEW j \in 1 .. Len(r), NEW k \in 1 .. Len(r), j < k
       PROVE  r[j].owner # r[k].owner /\ r[j].xItemValue <= r[k].xItemValue
  <2> HIDE DEF r
  <2>1. CASE k < n
    <3>1. j \in 1 .. Len(list) /\ k \in 1 .. Len(list) /\ r[j] = list[j] /\ r[k] = list[k]
      BY <1>1, <1>8, <1>12, <1>14, <2>1
    <3> QED BY <1>14, <3>1 DEF InOrder
  <2>2. CASE k = n
    <3>1. j \in 1 .. Len(list) /\ j \in 1 .. m /\ r[j] = list[j] /\ r[k] = item
      BY <1>1, <1>8, <1>12, <1>14, <2>2
    <3> QED BY <1>8, <1>13, <3>1
  <2>3. CASE k > n
    <3>1. k - 1 \in 1 .. Len(list) /\ k - 1 \in m + 1 .. Len(list) /\ r[k] = list[k - 1]
      BY <1>1, <1>8, <1>12, <1>14, <2>3
    <3>2. CASE j < n
      <4>1. j \in 1 .. Len(list) /\ j < k - 1 /\ r[j] = list[j]
        BY <1>1, <1>8, <1>12, <1>14, <2>3, <3>2
      <4> QED BY <3>1, <4>1 DEF InOrder
    <3>3. CASE j = n
      <4>1. r[j] = item
        BY <1>1, <1>8, <1>12, <3>3
      <4> QED BY <1>11, <1>13, <3>1, <4>1
    <3>4. CASE j > n
      <4>1. j - 1 \in 1 .. Len(list) /\ j - 1 < k - 1 /\ r[j] = list[j - 1]
        BY <1>1, <1>8, <1>12, <1>14, <3>4
      <4> QED BY <3>1, <4>1 DEF InOrder
    <3> QED BY <1>8, <1>12, <3>2, <3>3, <3>4
  <2> QED BY <1>8, <1>12, <2>1, <2>2, <2>3
<1>15. InOrder(r)
  BY <1>14 DEF InOrder
<1> QED BY <1>4, <1>12, <1>15

LEMMA WithoutFacts ==
    ASSUME NEW list \in Seq(Items), InOrder(list), NEW t
    PROVE  /\ Without(list, t) \in Seq(Items)
           /\ InOrder(Without(list, t))
           /\ \A item : Occurs(item, Without(list, t)) <=> Occurs(item, list) /\ item.owner # t
<1>1. CASE t \notin Owners(list)
  <2>1. Without(list, t) = list
    BY <1>1 DEF Without
  <2>2. \A item : Occurs(item, list) => item.owner # t
    BY <1>1, OwnersOf
  <2> QED BY <2>1, <2>2
<1>2. CASE t \in Owners(list)
  <2> DEFINE i == CHOOSE k \in 1 .. Len(list) : list[k].owner = t
             r == RemoveAt(list, i)
  <2>1. i \in 1 .. Len(list) /\ list[i].owner = t
    BY <1>2 DEF Owners
  <2>2. Without(list, t) = r
    BY <1>2 DEF Without
  <2> HIDE DEF i
  <2>3. /\ r \in Seq(Items) /\ Len(r) = Len(list) - 1
        /\ \A k \in 1 .. Len(list) - 1 : r[k] = IF k < i THEN list[k] ELSE list[k + 1]
    BY <2>1, RemoveAtFacts
  <2> HIDE DEF r
  <2>4. Len(list) \in Nat
    BY LenProperties
  <2>5. InOrder(r)
    <3> SUFFICES ASSUME NEW j \in 1 .. Len(r), NEW k \in 1 .. Len(r), j < k
                 PROVE  r[j].owner # r[k].owner /\ r[j].xItemValue <= r[k].xItemValue
      BY DEF InOrder
    <3> DEFINE up(x) == IF x < i THEN x ELSE x + 1
    <3>1. up(j) \in 1 .. Len(list) /\ up(k) \in 1 .. Len(list) /\ up(j) < up(k)
      BY <2>1, <2>3, <2>4
    <3>2. r[j] = list[up(j)] /\ r[k] = list[up(k)]
      BY <2>3
    <3> HIDE DEF up
    <3> QED BY <3>1, <3>2 DEF InOrder
  <2>6. ASSUME NEW k \in 1 .. Len(list), k # i
        PROVE  list[k].owner # t
    <3>1. k < i \/ i < k
      BY <1>2, <2>1, <2>4, <2>6
    <3> QED BY <2>1, <3>1 DEF InOrder
  <2>7. ASSUME NEW item, Occurs(item, r) PROVE Occurs(item, list) /\ item.owner # t
    <3>1. PICK k \in 1 .. Len(r) : r[k] = item
      BY <2>7 DEF Occurs
    <3>2. PICK j : j = IF k < i THEN k ELSE k + 1
      OBVIOUS
    <3>3. j \in 1 .. Len(list) /\ j # i
      BY <2>1, <2>3, <2>4, <3>2
    <3>4. list[j] = item
      BY <2>3, <3>1, <3>2
    <3> QED BY <2>6, <3>3, <3>4 DEF Occurs
  <2>8. ASSUME NEW item, Occurs(item, list), item.owner # t PROVE Occurs(item, r)
    <3>1. PICK j \in 1 .. Len(list) : list[j] = item
      BY <2>8 DEF Occurs
    <3>2. j # i
      BY <2>1, <2>8, <3>1
    <3>3. PICK k : k = IF j < i THEN j ELSE j - 1
      OBVIOUS
    <3>4. k \in 1 .. Len(r) /\ (k < i => k = j) /\ (~ (k < i) => k + 1 = j)
      BY <2>1, <2>3, <2>4, <3>2, <3>3
    <3>5. r[k] = item
      BY <2>3, <3>1, <3>4
    <3> QED BY <3>4, <3>5 DEF Occurs
  <2> QED BY <2>2, <2>3, <2>5, <2>7, <2>8
<1> QED BY <1>1, <1>2

----------------------------------------------------------------------------
(* Times that wrap.                                                        *)

Congruent(x, y) == \E e \in Int : x = y + e * TICK_MODULUS

LEMMA TimesAreNumbers == Times \subseteq Int /\ 0 \in Times /\ portMAX_DELAY \in Times
  BY ModulusAssumption DEF Times, portMAX_DELAY

LEMMA Wrapped ==
    ASSUME NEW x \in Int, -TICK_MODULUS < x, x < 2 * TICK_MODULUS
    PROVE  /\ x % TICK_MODULUS \in Times
           /\ 0 <= x /\ x < TICK_MODULUS => x % TICK_MODULUS = x
           /\ x >= TICK_MODULUS => x % TICK_MODULUS = x - TICK_MODULUS
           /\ x < 0 => x % TICK_MODULUS = x + TICK_MODULUS
<1>1. PICK M \in Nat : M = TICK_MODULUS /\ M > 1
  BY ModulusAssumption
<1>2. x % M \in 0 .. M - 1
  BY <1>1
<1>3. 0 <= x /\ x < M => x % M = x
  BY <1>1
<1>4. x >= M => x % M = x - M
  BY <1>1
<1>5. x < 0 => x % M = x + M
  BY <1>1
<1> QED BY <1>1, <1>2, <1>3, <1>4, <1>5 DEF Times

LEMMA CongruentFacts ==
    ASSUME NEW x \in Int, NEW y \in Int, Congruent(x, y)
    PROVE  /\ Congruent(x, y + TICK_MODULUS) /\ Congruent(x, y - TICK_MODULUS)
           /\ \A z \in Int : Congruent(x + z, y + z)
           /\ 0 <= x /\ x < TICK_MODULUS /\ -TICK_MODULUS < y /\ y < TICK_MODULUS
                => x = y \/ x = y + TICK_MODULUS
<1>1. PICK M \in Nat : M = TICK_MODULUS /\ M > 1
  BY ModulusAssumption
<1>2. PICK e \in Int : x = y + e * M
  BY <1>1 DEF Congruent
<1>3. e * M \in Int /\ (e - 1) * M = e * M - M /\ (e + 1) * M = e * M + M
  BY <1>1
<1>4. Congruent(x, y + M)
  <2>1. x = (y + M) + (e - 1) * M /\ e - 1 \in Int
    BY <1>2, <1>3
  <2> QED BY <1>1, <2>1 DEF Congruent
<1>5. Congruent(x, y - M)
  <2>1. x = (y - M) + (e + 1) * M /\ e + 1 \in Int
    BY <1>2, <1>3
  <2> QED BY <1>1, <2>1 DEF Congruent
<1>6. ASSUME NEW z \in Int PROVE Congruent(x + z, y + z)
  <2>1. x + z = (y + z) + e * M
    BY <1>2, <1>3
  <2> QED BY <1>1, <2>1 DEF Congruent
<1>7. ASSUME 0 <= x, x < M, -M < y, y < M PROVE x = y \/ x = y + M
  <2>1. e * M > -M /\ e * M < 2 * M
    BY <1>1, <1>2, <1>3, <1>7
  <2>2. e >= 2 => e * M >= 2 * M
    BY <1>1
  <2>3. e <= -1 => e * M <= -M
    <3>1. e <= -1 => (-1 - e) * M >= 0
      BY <1>1
    <3>2. (-1 - e) * M = -M - e * M
      BY <1>1
    <3> QED BY <1>1, <1>3, <3>1, <3>2
  <2>4. e = 0 \/ e = 1
    BY <1>1, <1>3, <2>1, <2>2, <2>3
  <2>5. 0 * M = 0 /\ 1 * M = M
    BY <1>1
  <2> QED BY <1>1, <1>2, <2>4, <2>5
<1> QED BY <1>1, <1>4, <1>5, <1>6, <1>7

LEMMA CongruentSame == \A x \in Int : Congruent(x, x)
<1> SUFFICES ASSUME NEW x \in Int PROVE Congruent(x, x)
  OBVIOUS
<1>1. x = x + 0 * TICK_MODULUS /\ 0 \in Int
  BY ModulusAssumption
<1> QED BY <1>1 DEF Congruent

LEMMA CongruentTrans ==
    ASSUME NEW x \in Int, NEW y \in Int, NEW z \in Int, Congruent(x, y), Congruent(y, z)
    PROVE  Congruent(x, z)
<1>1. PICK M \in Nat : M = TICK_MODULUS /\ M > 1
  BY ModulusAssumption
<1>2. PICK e \in Int : x = y + e * M
  BY <1>1 DEF Congruent
<1>3. PICK d \in Int : y = z + d * M
  BY <1>1 DEF Congruent
<1>4. x = z + (e + d) * M /\ e + d \in Int
  BY <1>1, <1>2, <1>3
<1> QED BY <1>1, <1>4 DEF Congruent

----------------------------------------------------------------------------
(* xTaskIncrementTick and the ticks each sleeper has left.                 *)

Kernels == [tick : Times, delayed : Seq(Items), overflow : Seq(Items), next : Times]
Sleeping(k) == Owners(k.delayed) \cup Owners(k.overflow)

(* Task t is to be woken r[t] - n ticks after k's present one: in the      *)
(* current list by its wake time, in the other one by that time after the  *)
(* wrap.                                                                   *)
Timed(k, r, n) ==
    /\ k \in Kernels
    /\ InOrder(k.delayed) /\ InOrder(k.overflow)
    /\ Owners(k.delayed) \cap Owners(k.overflow) = {}
    /\ \A item : Occurs(item, k.delayed) =>
          item.xItemValue >= k.tick /\ item.xItemValue = k.tick + r[item.owner] - n
    /\ \A item : Occurs(item, k.overflow) =>
          item.xItemValue < k.tick /\ item.xItemValue + TICK_MODULUS = k.tick + r[item.owner] - n
    /\ k.next = NextUnblockTime(k.delayed)

(* Nobody is due. *)
AllAhead(k) == \A item : Occurs(item, k.delayed) => item.xItemValue > k.tick

LEMMA UnblockTimes ==
    ASSUME NEW list \in Seq(Items) PROVE NextUnblockTime(list) \in Times
<1>1. CASE list = <<>>
  BY <1>1, TimesAreNumbers DEF NextUnblockTime
<1>2. CASE list # <<>>
  <2>1. Head(list) \in Items
    BY <1>2, HeadTailProperties
  <2> QED BY <1>2, <2>1 DEF NextUnblockTime, Items
<1> QED BY <1>1, <1>2

(* The count moves on, and at 0 the lists change places. *)
LEMMA SwitchedFacts ==
    ASSUME NEW k, NEW r \in [Tasks -> Int], NEW n \in Int, Timed(k, r, n), AllAhead(k)
    PROVE  LET s == Switched([k EXCEPT !.tick = (@ + 1) % TICK_MODULUS])
           IN /\ Timed(s, r, n + 1)
              /\ Sleeping(s) = Sleeping(k)
              /\ s.tick = k.tick + 1 \/ s.tick = k.tick + 1 - TICK_MODULUS
<1>1. PICK M \in Nat : M = TICK_MODULUS /\ M > 1
  BY ModulusAssumption
<1> DEFINE b == [k EXCEPT !.tick = (@ + 1) % TICK_MODULUS]
           s == Switched(b)
<1>2. /\ k \in Kernels /\ k.tick \in Times /\ k.delayed \in Seq(Items) /\ k.overflow \in Seq(Items)
      /\ k.tick \in 0 .. M - 1
  BY <1>1 DEF Timed, Kernels, Times
<1>3. /\ b = [tick |-> (k.tick + 1) % M, delayed |-> k.delayed, overflow |-> k.overflow, next |-> k.next]
  BY <1>1, <1>2 DEF Kernels
<1>4. /\ k.tick < M - 1 => (k.tick + 1) % M = k.tick + 1
      /\ k.tick = M - 1 => (k.tick + 1) % M = 0
  <2>1. k.tick + 1 \in Int /\ -M < k.tick + 1 /\ k.tick + 1 < 2 * M
    BY <1>1, <1>2
  <2> QED BY <1>1, <1>2, <2>1, Wrapped
<1>5. /\ InOrder(k.delayed) /\ InOrder(k.overflow) /\ k.next = NextUnblockTime(k.delayed)
      /\ Owners(k.delayed) \cap Owners(k.overflow) = {}
  BY DEF Timed
<1>6. \A item : Occurs(item, k.delayed) \/ Occurs(item, k.overflow) =>
          /\ item.xItemValue \in 0 .. M - 1 /\ r[item.owner] \in Int
  <2>1. \A item : Occurs(item, k.delayed) \/ Occurs(item, k.overflow) => item \in Items
    BY <1>2, <1>5, InOrderOnce
  <2>2. \A item \in Items : item.xItemValue \in 0 .. M - 1 /\ item.owner \in Tasks
    BY <1>1 DEF Items, Times
  <2> QED BY <2>1, <2>2
<1>7. \A item : Occurs(item, k.delayed) =>
          item.xItemValue > k.tick /\ item.xItemValue = k.tick + r[item.owner] - n
  BY DEF Timed, AllAhead
<1>8. \A item : Occurs(item, k.overflow) =>
          item.xItemValue < k.tick /\ item.xItemValue + M = k.tick + r[item.owner] - n
  BY <1>1 DEF Timed
<1>9. CASE k.tick < M - 1
  <2>1. /\ b.tick = k.tick + 1 /\ b.tick # 0 /\ b.delayed = k.delayed /\ b.overflow = k.overflow
        /\ b.next = k.next /\ k.tick + 1 \in Times /\ k.next \in Times
    BY <1>1, <1>2, <1>3, <1>4, <1>9 DEF Times, Kernels
  <2>2. s = b /\ b \in Kernels
    BY <1>2, <1>3, <1>4, <1>9, <2>1 DEF Switched, Kernels
  <2> HIDE DEF b, s
  <2>3. \A item : Occurs(item, k.delayed) =>
          item.xItemValue >= k.tick + 1 /\ item.xItemValue = k.tick + 1 + r[item.owner] - (n + 1)
    <3> SUFFICES ASSUME NEW item, Occurs(item, k.delayed)
                 PROVE  /\ item.xItemValue >= k.tick + 1
                        /\ item.xItemValue = k.tick + 1 + r[item.owner] - (n + 1)
      OBVIOUS
    <3>1. /\ k.tick \in Int /\ item.xItemValue \in Int /\ r[item.owner] \in Int
          /\ item.xItemValue > k.tick /\ item.xItemValue = k.tick + r[item.owner] - n
      BY <1>2, <1>6, <1>7
    <3> QED BY <3>1
  <2>4. \A item : Occurs(item, k.overflow) =>
          item.xItemValue < k.tick + 1 /\ item.xItemValue + M = k.tick + 1 + r[item.owner] - (n + 1)
    <3> SUFFICES ASSUME NEW item, Occurs(item, k.overflow)
                 PROVE  /\ item.xItemValue < k.tick + 1
                        /\ item.xItemValue + M = k.tick + 1 + r[item.owner] - (n + 1)
      OBVIOUS
    <3>1. /\ k.tick \in Int /\ item.xItemValue \in Int /\ r[item.owner] \in Int
          /\ item.xItemValue < k.tick /\ item.xItemValue + M = k.tick + r[item.owner] - n
      BY <1>2, <1>6, <1>8
    <3> QED BY <3>1
  <2>5. Timed(s, r, n + 1)
    BY <1>1, <1>5, <2>1, <2>2, <2>3, <2>4 DEF Timed
  <2>6. Sleeping(s) = Sleeping(k) /\ s.tick = k.tick + 1
    BY <2>1, <2>2 DEF Sleeping
  <2> QED BY <2>5, <2>6 DEF s, b
<1>10. CASE k.tick = M - 1
  <2>1. /\ b.tick = 0 /\ b.delayed = k.delayed /\ b.overflow = k.overflow
        /\ 0 \in Times /\ NextUnblockTime(k.overflow) \in Times
    BY <1>2, <1>3, <1>4, <1>10, TimesAreNumbers, UnblockTimes
  <2>2. /\ s = [tick |-> 0, delayed |-> k.overflow, overflow |-> k.delayed,
                next |-> NextUnblockTime(k.overflow)]
    BY <1>3, <1>4, <1>10, <2>1 DEF Switched
  <2> HIDE DEF b
  <2>3. \A item : ~ Occurs(item, k.delayed)
    BY <1>6, <1>7, <1>10
  <2>4. \A item : Occurs(item, k.overflow) =>
          item.xItemValue >= 0 /\ item.xItemValue = 0 + r[item.owner] - (n + 1)
    <3> SUFFICES ASSUME NEW item, Occurs(item, k.overflow)
                 PROVE  /\ item.xItemValue >= 0
                        /\ item.xItemValue = 0 + r[item.owner] - (n + 1)
      OBVIOUS
    <3>1. /\ item.xItemValue \in Nat /\ r[item.owner] \in Int
          /\ item.xItemValue + M = M - 1 + r[item.owner] - n
      BY <1>2, <1>6, <1>8, <1>10
    <3> QED BY <1>1, <3>1
  <2>5. s \in Kernels
    BY <1>2, <2>1, <2>2 DEF Kernels
  <2>6. /\ s.tick = 0 /\ s.delayed = k.overflow /\ s.overflow = k.delayed
        /\ s.next = NextUnblockTime(k.overflow)
    BY <2>2
  <2> HIDE DEF s
  <2>7. Timed(s, r, n + 1)
    BY <1>5, <2>3, <2>4, <2>5, <2>6 DEF Timed
  <2>8. Sleeping(s) = Sleeping(k) /\ s.tick = k.tick + 1 - M
    BY <1>1, <1>10, <2>6 DEF Sleeping
  <2> QED BY <1>1, <2>7, <2>8 DEF s, b
<1> QED BY <1>1, <1>2, <1>9, <1>10

(* The tasks whose time is up leave the head of the current list. *)
LEMMA WokenFacts ==
    ASSUME NEW k, NEW r \in [Tasks -> Int], NEW n \in Int, Timed(k, r, n)
    PROVE  /\ Timed(Woken(k), r, n) /\ AllAhead(Woken(k))
           /\ Sleeping(Woken(k)) = {t \in Sleeping(k) : r[t] > n}
           /\ Woken(k).tick = k.tick
<1>1. PICK M \in Nat : M = TICK_MODULUS /\ M > 1
  BY ModulusAssumption
<1>2. PICK d \in Seq(Items), T \in Times : d = k.delayed /\ T = k.tick
  BY DEF Timed, Kernels
<1>3. /\ k \in Kernels /\ k.overflow \in Seq(Items)
      /\ InOrder(d) /\ InOrder(k.overflow) /\ k.next = NextUnblockTime(d)
      /\ Owners(d) \cap Owners(k.overflow) = {}
      /\ \A item : Occurs(item, d) => item.xItemValue >= T /\ item.xItemValue = T + r[item.owner] - n
      /\ \A item : Occurs(item, k.overflow) =>
            item.xItemValue < T /\ item.xItemValue + M = T + r[item.owner] - n
  BY <1>1, <1>2 DEF Timed, Kernels
<1>4. T \in 0 .. M - 1
  BY <1>1 DEF Times
<1>5. \A item : Occurs(item, d) \/ Occurs(item, k.overflow) =>
          item \in Items /\ item.xItemValue \in 0 .. M - 1 /\ item.owner \in Tasks /\ r[item.owner] \in Int
  <2>1. \A item : Occurs(item, d) \/ Occurs(item, k.overflow) => item \in Items
    BY <1>3, InOrderOnce
  <2>2. \A item \in Items : item.xItemValue \in 0 .. M - 1 /\ item.owner \in Tasks
    BY <1>1 DEF Items, Times
  <2> QED BY <2>1, <2>2
<1>6. \A item : Occurs(item, d) => (r[item.owner] > n <=> item.xItemValue > T)
  <2> SUFFICES ASSUME NEW item, Occurs(item, d) PROVE r[item.owner] > n <=> item.xItemValue > T
    OBVIOUS
  <2>1. item.xItemValue = T + r[item.owner] - n /\ item.xItemValue \in Int /\ r[item.owner] \in Int
    BY <1>3, <1>5
  <2> QED BY <1>4, <2>1
<1>7. \A item : Occurs(item, k.overflow) => r[item.owner] > n
  <2> SUFFICES ASSUME NEW item, Occurs(item, k.overflow) PROVE r[item.owner] > n
    OBVIOUS
  <2>1. /\ item.xItemValue + M = T + r[item.owner] - n /\ item.xItemValue \in Nat
        /\ r[item.owner] \in Int
    BY <1>3, <1>5
  <2> QED BY <1>1, <1>4, <2>1
<1>8. CASE ~ (T >= k.next)
  <2>1. Woken(k) = k
    BY <1>2, <1>8 DEF Woken
  <2>2. \A item : Occurs(item, d) => item.xItemValue > T
    <3> SUFFICES ASSUME NEW item, Occurs(item, d) PROVE item.xItemValue > T
      OBVIOUS
    <3>1. d # <<>> /\ Occurs(Head(d), d) /\ Head(d).xItemValue <= item.xItemValue
      BY <1>3, InOrderOnce
    <3>2. k.next = Head(d).xItemValue
      BY <1>3, <3>1 DEF NextUnblockTime
    <3>3. Head(d).xItemValue \in Int /\ item.xItemValue \in Int
      BY <1>5, <3>1
    <3> QED BY <1>4, <1>8, <3>1, <3>2, <3>3
  <2>3. AllAhead(k)
    BY <1>2, <2>2 DEF AllAhead
  <2>4. \A t \in Sleeping(k) : r[t] > n
    BY <1>2, <1>6, <1>7, <2>2, OwnersOf DEF Sleeping
  <2> QED BY <2>1, <2>3, <2>4
<1>9. CASE T >= k.next
  <2> DEFINE D == {m \in 0 .. Len(d) : \A j \in 1 .. m : d[j].xItemValue <= T}
             m == Max(D)
             a == SubSeq(d, 1, m)
             b == SubSeq(d, m + 1, Len(d))
             w == [k EXCEPT !.delayed = b, !.next = NextUnblockTime(b)]
  <2>1. Woken(k) = w
    BY <1>2, <1>9 DEF Woken
  <2>2. Len(d) \in Nat
    BY LenProperties
  <2>3. D \in SUBSET (0 .. Len(d)) /\ D # {}
    <3>1. 0 \in D
      BY <2>2
    <3> QED BY <3>1
  <2>4. m \in D /\ \A y \in D : y <= m
    <3> HIDE DEF D
    <3> QED BY <2>2, <2>3, MaxIsGreatest
  <2>5. m \in 0 .. Len(d) /\ \A j \in 1 .. m : d[j].xItemValue <= T
    BY <2>4
  <2>6. \A j \in m + 1 .. Len(d) : d[j].xItemValue > T
    <3> SUFFICES ASSUME NEW j \in m + 1 .. Len(d), ~ (d[j].xItemValue > T) PROVE FALSE
      OBVIOUS
    <3> HIDE DEF m
    <3>1. \A i \in 1 .. Len(d) : d[i].xItemValue \in Int
      BY <1>5 DEF Occurs
    <3>2. \A i \in 1 .. j : i \in 1 .. Len(d) /\ d[i].xItemValue <= T
      <4> SUFFICES ASSUME NEW i \in 1 .. j PROVE i \in 1 .. Len(d) /\ d[i].xItemValue <= T
        OBVIOUS
      <4>1. i \in 1 .. Len(d) /\ j \in 1 .. Len(d)
        BY <2>2, <2>5
      <4>2. i = j \/ i < j
        BY <2>2, <2>5
      <4>3. i < j => d[i].xItemValue <= d[j].xItemValue
        BY <1>3, <4>1 DEF InOrder
      <4> QED BY <1>4, <3>1, <4>1, <4>2, <4>3
    <3>3. j \in D
      BY <2>2, <2>5, <3>2
    <3> QED BY <2>2, <2>4, <2>5, <3>3
  <2> HIDE DEF D, m
  <2>7. Once(d)
    BY <1>3, InOrderOnce
  <2>8. /\ a \in Seq(Items) /\ b \in Seq(Items)
        /\ Len(a) = m /\ Len(b) = Len(d) - m
        /\ \A j \in 1 .. m : a[j] = d[j]
        /\ \A j \in 1 .. Len(d) - m : b[j] = d[m + j]
        /\ \A item : Occurs(item, d) <=> Occurs(item, a) \/ Occurs(item, b)
    BY <2>5, <2>7, CutOnce
  <2> HIDE DEF a, b
  <2>9. InOrder(b)
    <3> SUFFICES ASSUME NEW i \in 1 .. Len(b), NEW j \in 1 .. Len(b), i < j
                 PROVE  b[i].owner # b[j].owner /\ b[i].xItemValue <= b[j].xItemValue
      BY DEF InOrder
    <3>1. m + i \in 1 .. Len(d) /\ m + j \in 1 .. Len(d) /\ m + i < m + j
      BY <2>2, <2>5, <2>8
    <3>2. b[i] = d[m + i] /\ b[j] = d[m + j]
      BY <2>8
    <3> QED BY <1>3, <3>1, <3>2 DEF InOrder
  <2>10. \A item : Occurs(item, b) <=> Occurs(item, d) /\ item.xItemValue > T
    <3>1. ASSUME NEW item, Occurs(item, b) PROVE Occurs(item, d) /\ item.xItemValue > T
      <4>1. PICK j \in 1 .. Len(b) : b[j] = item
        BY <3>1 DEF Occurs
      <4>2. m + j \in m + 1 .. Len(d) /\ d[m + j] = item
        BY <2>2, <2>5, <2>8, <4>1
      <4> QED BY <2>6, <2>8, <3>1, <4>2
    <3>2. ASSUME NEW item, Occurs(item, a) PROVE ~ (item.xItemValue > T)
      <4>1. PICK j \in 1 .. m : d[j] = item
        BY <2>8, <3>2 DEF Occurs
      <4>2. item.xItemValue <= T /\ item.xItemValue \in Int
        BY <1>5, <2>5, <2>8, <3>2, <4>1
      <4> QED BY <1>4, <4>2
    <3> QED BY <2>8, <3>1, <3>2
  <2>11. /\ w \in Kernels /\ w.tick = T /\ w.delayed = b /\ w.overflow = k.overflow
         /\ w.next = NextUnblockTime(b)
    <3>1. NextUnblockTime(b) \in Times
      BY <2>8, UnblockTimes
    <3> QED BY <1>2, <1>3, <2>8, <3>1 DEF Kernels
  <2> HIDE DEF w
  <2>12. Owners(b) = {t \in Owners(d) : r[t] > n}
    <3>1. ASSUME NEW t \in Owners(b) PROVE t \in Owners(d) /\ r[t] > n
      BY <1>6, <2>10, <3>1, OwnersOf
    <3>2. ASSUME NEW t \in Owners(d), r[t] > n PROVE t \in Owners(b)
      BY <1>6, <2>10, <3>2, OwnersOf
    <3> QED BY <3>1, <3>2
  <2>13. \A t \in Owners(k.overflow) : r[t] > n
    BY <1>7, OwnersOf
  <2>14. Timed(w, r, n) /\ AllAhead(w)
    BY <1>1, <1>3, <2>9, <2>10, <2>11, <2>12 DEF Timed, AllAhead
  <2>15. Sleeping(w) = {t \in Sleeping(k) : r[t] > n}
    BY <1>2, <2>11, <2>12, <2>13 DEF Sleeping
  <2> QED BY <1>2, <2>1, <2>11, <2>14, <2>15
<1> QED BY <1>8, <1>9

LEMMA IncrementedFacts ==
    ASSUME NEW k, NEW r \in [Tasks -> Int], NEW n \in Int, Timed(k, r, n), AllAhead(k)
    PROVE  /\ Timed(Incremented(k), r, n + 1) /\ AllAhead(Incremented(k))
           /\ Sleeping(Incremented(k)) = {t \in Sleeping(k) : r[t] > n + 1}
           /\ Congruent(Incremented(k).tick, k.tick + 1)
<1>1. PICK s : s = Switched([k EXCEPT !.tick = (@ + 1) % TICK_MODULUS])
  OBVIOUS
<1>2. /\ Timed(s, r, n + 1)
      /\ Sleeping(s) = Sleeping(k)
      /\ s.tick = k.tick + 1 \/ s.tick = k.tick + 1 - TICK_MODULUS
  BY <1>1, SwitchedFacts
<1>3. Incremented(k) = Woken(s) /\ n + 1 \in Int
  BY <1>1 DEF Incremented
<1>4. Congruent(s.tick, k.tick + 1)
  <2>1. s.tick \in Int /\ k.tick \in Int /\ k.tick + 1 \in Int
    <3>1. s.tick \in Times /\ k.tick \in Times
      BY <1>2 DEF Timed, Kernels
    <3>2. s.tick \in Int /\ k.tick \in Int
      BY <3>1, TimesAreNumbers
    <3> QED BY <3>2
  <2>2. Congruent(s.tick, s.tick)
    BY <2>1, CongruentSame
  <2>3. Congruent(s.tick, s.tick + TICK_MODULUS)
    BY <2>1, <2>2, CongruentFacts
  <2>4. s.tick = k.tick + 1 - TICK_MODULUS => s.tick + TICK_MODULUS = k.tick + 1
    BY <2>1, ModulusAssumption
  <2> QED BY <1>2, <2>2, <2>3, <2>4
<1> QED BY <1>2, <1>3, <1>4, WokenFacts

(* xTaskResumeAll makes up for n ticks as if they had come one by one. *)
LEMMA ReplayedFacts ==
    ASSUME NEW k, NEW r \in [Tasks -> Int], Timed(k, r, 0), AllAhead(k), NEW n \in Nat
    PROVE  /\ Timed(Replayed(k, n), r, n) /\ AllAhead(Replayed(k, n))
           /\ Sleeping(Replayed(k, n)) = {t \in Sleeping(k) : r[t] > n}
           /\ Congruent(Replayed(k, n).tick, k.tick + n)
<1> DEFINE I(x) == Incremented(x)
           V == {x \in Kernels : \E m \in Int : Timed(x, r, m) /\ AllAhead(x)}
           step == [m \in 1 .. n |-> [x \in V |-> I(x)]]
           R(h) == h = [m \in 0 .. n |-> IF m = 0 THEN k ELSE I(h[m - 1])]
           h == CHOOSE h : R(h)
           Q(m, x) == /\ Timed(x, r, m) /\ AllAhead(x)
                      /\ Sleeping(x) = {t \in Sleeping(k) : r[t] > m}
                      /\ Congruent(x.tick, k.tick + m)
<1>1. k \in V
  BY DEF Timed
<1>2. \A x : x \in V => I(x) \in V
  <2> SUFFICES ASSUME NEW x \in V PROVE I(x) \in V
    OBVIOUS
  <2>1. PICK m \in Int : Timed(x, r, m) /\ AllAhead(x)
    OBVIOUS
  <2>2. m + 1 \in Int /\ Timed(Incremented(x), r, m + 1) /\ AllAhead(Incremented(x))
    BY <2>1, IncrementedFacts
  <2>3. Incremented(x) \in Kernels
    BY <2>2 DEF Timed
  <2> QED BY <2>2, <2>3
<1>3. Replayed(k, n) = h[n]
  BY DEF Replayed
<1>4. Q(0, k)
  <2>1. k.tick \in Int
    BY TimesAreNumbers DEF Timed, Kernels
  <2>2. Congruent(k.tick, k.tick + 0)
    BY <2>1, CongruentSame
  <2>3. \A t \in Sleeping(k) : r[t] > 0
    <3> SUFFICES ASSUME NEW t \in Sleeping(k) PROVE r[t] > 0
      OBVIOUS
    <3>0. PICK M \in Nat : M = TICK_MODULUS /\ M > 1
      BY ModulusAssumption
    <3>1. /\ k.tick \in Times /\ k.delayed \in Seq(Items) /\ k.overflow \in Seq(Items)
          /\ InOrder(k.delayed) /\ InOrder(k.overflow)
      BY DEF Timed, Kernels
    <3>2. PICK item : (Occurs(item, k.delayed) \/ Occurs(item, k.overflow)) /\ item.owner = t
      BY OwnersOf DEF Sleeping
    <3>3. item \in Items
      BY <3>1, <3>2, InOrderOnce
    <3>4. item.xItemValue \in 0 .. M - 1 /\ t \in Tasks /\ r[t] \in Int /\ k.tick \in 0 .. M - 1
      BY <3>0, <3>1, <3>2, <3>3 DEF Items, Times
    <3>5. /\ Occurs(item, k.delayed) =>
               item.xItemValue > k.tick /\ item.xItemValue = k.tick + r[t] - 0
          /\ Occurs(item, k.overflow) => item.xItemValue + M = k.tick + r[t] - 0
      BY <3>0, <3>2 DEF Timed, AllAhead
    <3> QED BY <3>0, <3>2, <3>4, <3>5
  <2> QED BY <2>2, <2>3
<1>5. ASSUME NEW m \in Nat, NEW x, Q(m, x) PROVE Q(m + 1, I(x))
  <2>1. /\ Timed(I(x), r, m + 1) /\ AllAhead(I(x))
        /\ Sleeping(I(x)) = {t \in Sleeping(x) : r[t] > m + 1}
        /\ Congruent(I(x).tick, x.tick + 1)
    BY <1>5, IncrementedFacts
  <2>2. x.tick \in Int /\ k.tick \in Int /\ I(x).tick \in Int
    <3>1. x.tick \in Times /\ k.tick \in Times /\ I(x).tick \in Times
      BY <1>5, <2>1 DEF Timed, Kernels
    <3> QED BY <3>1, TimesAreNumbers
  <2>3. Congruent(I(x).tick, k.tick + (m + 1))
    <3>1. x.tick + 1 \in Int /\ k.tick + m \in Int /\ k.tick + (m + 1) \in Int
          /\ k.tick + m + 1 = k.tick + (m + 1)
      BY <2>2
    <3>2. Congruent(x.tick + 1, k.tick + m + 1)
      BY <1>5, <2>2, <3>1, CongruentFacts
    <3> HIDE DEF I
    <3> QED BY <2>1, <2>2, <3>1, <3>2, CongruentTrans
  <2>4. \A t \in Sleeping(k) : r[t] > m + 1 => r[t] > m
    <3>1. \A t \in Sleeping(k) : r[t] \in Int
      <4>1. \A item \in Items : item.owner \in Tasks
        BY DEF Items
      <4>2. \A item : Occurs(item, k.delayed) \/ Occurs(item, k.overflow) => item \in Items
        BY InOrderOnce DEF Timed, Kernels
      <4>3. Sleeping(k) \subseteq Tasks
        BY <4>1, <4>2, OwnersOf DEF Sleeping
      <4> QED BY <4>3
    <3> QED BY <3>1
  <2>5. Sleeping(I(x)) = {t \in Sleeping(k) : r[t] > m + 1}
    BY <1>5, <2>1, <2>4
  <2> QED BY <2>1, <2>3, <2>5
<1> SUFFICES Q(n, h[n])
  BY <1>3
<1> HIDE DEF V, I, Q
<1>6. step \in [1 .. n -> [V -> V]]
  BY <1>2
<1>7. PICK g \in [0 .. n -> V] : g[0] = k /\ \A m \in 1 .. n : g[m] = step[m][g[m - 1]]
  <2> HIDE DEF step
  <2> QED BY <1>1, <1>6, Iteration
<1>8. R(g)
  <2>1. ASSUME NEW m \in 0 .. n PROVE g[m] = IF m = 0 THEN k ELSE I(g[m - 1])
    <3>1. CASE m = 0
      BY <1>7, <3>1
    <3>2. CASE m # 0
      <4>1. m \in 1 .. n /\ m - 1 \in 0 .. n
        BY <3>2
      <4>2. g[m] = step[m][g[m - 1]] /\ g[m - 1] \in V
        BY <1>7, <4>1
      <4> QED BY <3>2, <4>1, <4>2
    <3> QED BY <3>1, <3>2
  <2> HIDE DEF step
  <2> QED BY <1>7, <2>1
<1>9. R(h)
  <2> HIDE DEF R
  <2> QED BY <1>8
<1> HIDE DEF h, step
<1> DEFINE T == {m \in 0 .. n : ~ Q(m, h[m])}
<1> SUFFICES ASSUME T # {} PROVE FALSE
  <2>1. n \in 0 .. n
    OBVIOUS
  <2> QED BY <2>1
<1>10. T \in SUBSET Nat
  OBVIOUS
<1>11. PICK m \in T : \A y \in T : m <= y
  <2> HIDE DEF T
  <2> QED BY <1>10, LeastElement
<1>12. h[0] = k
  BY <1>9
<1>13. m \in 1 .. n /\ m - 1 \in 0 .. n /\ m - 1 \in Nat /\ ~ (m <= m - 1) /\ m - 1 + 1 = m
  <2>1. m \in 0 .. n /\ m # 0
    BY <1>4, <1>11, <1>12
  <2> QED BY <2>1
<1>14. Q(m - 1, h[m - 1])
  BY <1>11, <1>13
<1>15. h[m] = I(h[m - 1])
  BY <1>9, <1>13
<1>16. Q(m - 1 + 1, I(h[m - 1]))
  BY <1>5, <1>13, <1>14
<1> QED BY <1>11, <1>13, <1>15, <1>16

----------------------------------------------------------------------------
(* Changes of the lists between two ticks.                                 *)

LEMMA TimedFacts ==
    ASSUME NEW k, NEW r \in [Tasks -> Int], NEW n \in Int, Timed(k, r, n)
    PROVE  /\ k \in Kernels /\ k.tick \in Times /\ k.delayed \in Seq(Items) /\ k.overflow \in Seq(Items)
           /\ k.next \in Times
           /\ Sleeping(k) \subseteq Tasks
           /\ \A item : Occurs(item, k.delayed) \/ Occurs(item, k.overflow) =>
                 item \in Items /\ item.xItemValue \in Times /\ item.owner \in Tasks
                 /\ item.owner \in Sleeping(k)
<1>1. /\ k \in Kernels /\ k.tick \in Times /\ k.delayed \in Seq(Items) /\ k.overflow \in Seq(Items)
      /\ k.next \in Times /\ InOrder(k.delayed) /\ InOrder(k.overflow)
  BY DEF Timed, Kernels
<1>2. \A item : Occurs(item, k.delayed) \/ Occurs(item, k.overflow) => item \in Items
  BY <1>1, InOrderOnce
<1>3. \A item \in Items : item.xItemValue \in Times /\ item.owner \in Tasks
  BY DEF Items
<1>4. Sleeping(k) \subseteq Tasks
  BY <1>2, <1>3, OwnersOf DEF Sleeping
<1>5. \A item : Occurs(item, k.delayed) \/ Occurs(item, k.overflow) => item.owner \in Sleeping(k)
  BY OwnersOf DEF Sleeping
<1> QED BY <1>1, <1>2, <1>3, <1>4, <1>5

(* Only the sleepers' times matter. *)
LEMMA TimedSame ==
    ASSUME NEW k, NEW r \in [Tasks -> Int], NEW n \in Int, Timed(k, r, n),
           NEW q \in [Tasks -> Int], NEW m \in Int, \A t \in Sleeping(k) : q[t] - m = r[t] - n
    PROVE  Timed(k, q, m)
<1>1. \A item : Occurs(item, k.delayed) \/ Occurs(item, k.overflow) =>
          k.tick + q[item.owner] - m = k.tick + r[item.owner] - n
  <2> SUFFICES ASSUME NEW item, Occurs(item, k.delayed) \/ Occurs(item, k.overflow)
               PROVE  k.tick + q[item.owner] - m = k.tick + r[item.owner] - n
    OBVIOUS
  <2>1. k.tick \in Int /\ item.owner \in Tasks /\ item.owner \in Sleeping(k)
    BY TimedFacts, TimesAreNumbers
  <2>2. q[item.owner] \in Int /\ r[item.owner] \in Int /\ q[item.owner] - m = r[item.owner] - n
    BY <2>1
  <2> QED BY <2>1, <2>2
<1> QED BY <1>1 DEF Timed

(* prvAddCurrentTaskToDelayedList for a delay of d ticks. *)
Added(k, t, d) ==
    LET v == (k.tick + d) % TICK_MODULUS
        item == [owner |-> t, xItemValue |-> v]
    IN IF v < k.tick
         THEN [k EXCEPT !.overflow = Inserted(k.overflow, item)]
         ELSE [k EXCEPT !.delayed = Inserted(k.delayed, item),
                        !.next = IF v < k.next THEN v ELSE k.next]

LEMMA TimedInsert ==
    ASSUME NEW k, NEW r \in [Tasks -> Int], Timed(k, r, 0), AllAhead(k),
           NEW t \in Tasks, t \notin Sleeping(k), NEW d \in Nat, 1 <= d, d < TICK_MODULUS
    PROVE  /\ Timed(Added(k, t, d), [r EXCEPT ![t] = d], 0) /\ AllAhead(Added(k, t, d))
           /\ Sleeping(Added(k, t, d)) = Sleeping(k) \cup {t}
<1> DEFINE v == (k.tick + d) % TICK_MODULUS
           item == [owner |-> t, xItemValue |-> v]
           q == Added(k, t, d)
<1>0. q = IF v < k.tick
            THEN [k EXCEPT !.overflow = Inserted(k.overflow, item)]
            ELSE [k EXCEPT !.delayed = Inserted(k.delayed, item),
                           !.next = IF v < k.next THEN v ELSE k.next]
  BY DEF Added
<1> HIDE DEF q
<1>1. PICK M \in Nat : M = TICK_MODULUS /\ M > 1
  BY ModulusAssumption
<1>2. PICK T \in 0 .. M - 1 : T = k.tick
  BY <1>1, TimedFacts DEF Times
<1>3. PICK s \in [Tasks -> Int] : s = [r EXCEPT ![t] = d]
  <2>1. d \in Int
    OBVIOUS
  <2>2. [r EXCEPT ![t] = d] \in [Tasks -> Int]
    BY <2>1
  <2> QED BY <2>2
<1>4. Timed(k, s, 0) /\ s[t] = d
  <2>1. \A u \in Sleeping(k) : s[u] - 0 = r[u] - 0
    BY <1>3
  <2>2. 0 \in Int /\ s[t] = d
    BY <1>3
  <2> QED BY <2>1, <2>2, TimedSame
<1>5. /\ v \in 0 .. M - 1
      /\ T + d < M => v = T + d
      /\ T + d >= M => v = T + d - M
  <2>1. T + d \in Int /\ -M < T + d /\ T + d < 2 * M /\ T + d >= 0
    BY <1>1, <1>2
  <2> QED BY <1>1, <1>2, <2>1, Wrapped DEF Times
<1>6. item \in Items /\ v \in Times /\ item.owner = t /\ item.xItemValue = v
  BY <1>1, <1>5 DEF Items, Times
<1> HIDE DEF v, item
<1>7. /\ k \in Kernels /\ k.delayed \in Seq(Items) /\ k.overflow \in Seq(Items) /\ k.next \in Times
      /\ InOrder(k.delayed) /\ InOrder(k.overflow) /\ k.next = NextUnblockTime(k.delayed)
      /\ Owners(k.delayed) \cap Owners(k.overflow) = {}
      /\ t \notin Owners(k.delayed) /\ t \notin Owners(k.overflow)
  BY DEF Timed, Kernels, Sleeping
<1>8. /\ \A e : Occurs(e, k.delayed) =>
            e.xItemValue > T /\ e.xItemValue >= T /\ e.xItemValue = T + s[e.owner] - 0
      /\ \A e : Occurs(e, k.overflow) => e.xItemValue < T /\ e.xItemValue + M = T + s[e.owner] - 0
  BY <1>1, <1>2, <1>4 DEF Timed, AllAhead
<1>9. CASE v < T
  <2> DEFINE o == Inserted(k.overflow, item)
  <2>1. /\ o \in Seq(Items) /\ InOrder(o)
        /\ \A e : Occurs(e, o) <=> Occurs(e, k.overflow) \/ e = item
    BY <1>6, <1>7, InsertedFacts
  <2>2. q = [k EXCEPT !.overflow = o]
    BY <1>0, <1>2, <1>9
  <2> HIDE DEF o
  <2>3. q \in Kernels /\ q.tick = T /\ q.delayed = k.delayed /\ q.overflow = o /\ q.next = k.next
    BY <1>2, <1>7, <2>1, <2>2 DEF Kernels
  <2>4. v + M = T + s[t] - 0
    BY <1>1, <1>4, <1>5, <1>9
  <2>5. Owners(o) = Owners(k.overflow) \cup {t}
    <3>1. \A u : u \in Owners(o) <=> u \in Owners(k.overflow) \/ u = t
      BY <1>6, <2>1, OwnersOf
    <3> QED BY <3>1
  <2>6. \A e : Occurs(e, o) => e.xItemValue < T /\ e.xItemValue + M = T + s[e.owner] - 0
    BY <1>6, <1>8, <1>9, <2>1, <2>4
  <2>7. Owners(k.delayed) \cap Owners(o) = {}
    BY <1>7, <2>5
  <2>8. Timed(q, s, 0) /\ AllAhead(q)
    BY <1>1, <1>7, <1>8, <2>1, <2>3, <2>6, <2>7 DEF Timed, AllAhead
  <2>9. Sleeping(q) = Sleeping(k) \cup {t}
    BY <2>3, <2>5 DEF Sleeping
  <2> QED BY <1>3, <2>8, <2>9 DEF q
<1>10. CASE ~ (v < T)
  <2> DEFINE o == Inserted(k.delayed, item)
             x == IF v < k.next THEN v ELSE k.next
  <2>1. /\ o \in Seq(Items) /\ InOrder(o)
        /\ \A e : Occurs(e, o) <=> Occurs(e, k.delayed) \/ e = item
    BY <1>6, <1>7, InsertedFacts
  <2>2. q = [k EXCEPT !.delayed = o, !.next = x] /\ x \in Times
    BY <1>0, <1>2, <1>6, <1>7, <1>10
  <2> HIDE DEF o
  <2>3. x = NextUnblockTime(o)
    <3>1. /\ o # <<>> /\ Occurs(Head(o), o)
          /\ \A e : Occurs(e, o) => Head(o).xItemValue <= e.xItemValue /\ e.xItemValue \in 0 .. M - 1
      <4>1. Occurs(item, o) /\ \A e : Occurs(e, o) => e \in Items
        BY <2>1, InOrderOnce
      <4>2. \A e \in Items : e.xItemValue \in 0 .. M - 1
        BY <1>1 DEF Items, Times
      <4> QED BY <2>1, <4>1, <4>2, InOrderOnce
    <3>2. PICK y : y = Head(o).xItemValue
      OBVIOUS
    <3>3. y \in 0 .. M - 1 /\ y <= v /\ NextUnblockTime(o) = y
      BY <1>6, <2>1, <3>1, <3>2 DEF NextUnblockTime
    <3>4. CASE k.delayed = <<>>
      <4>1. y = v /\ k.next = M - 1
        <5>1. \A e : Occurs(e, o) => e = item
          BY <1>7, <2>1, <3>4, InOrderOnce
        <5> QED BY <1>1, <1>6, <1>7, <3>1, <3>2, <3>4, <5>1 DEF NextUnblockTime, portMAX_DELAY
      <4> QED BY <1>1, <1>5, <3>3, <4>1
    <3>5. CASE k.delayed # <<>>
      <4>1. /\ Occurs(Head(k.delayed), k.delayed) /\ k.next = Head(k.delayed).xItemValue
            /\ \A e : Occurs(e, k.delayed) => k.next <= e.xItemValue
        BY <1>7, <3>5, InOrderOnce DEF NextUnblockTime
      <4>2. y <= k.next /\ k.next \in 0 .. M - 1
        BY <2>1, <3>1, <3>2, <4>1
      <4>3. y = v \/ k.next <= y
        BY <1>6, <2>1, <3>1, <3>2, <4>1
      <4> QED BY <1>5, <3>3, <4>2, <4>3
    <3> QED BY <3>4, <3>5
  <2> HIDE DEF x
  <2>4. q \in Kernels /\ q.tick = T /\ q.delayed = o /\ q.overflow = k.overflow /\ q.next = x
    BY <1>2, <1>7, <2>1, <2>2 DEF Kernels
  <2>5. v = T + s[t] - 0 /\ v > T /\ v >= T
    BY <1>1, <1>4, <1>5, <1>10
  <2>6. Owners(o) = Owners(k.delayed) \cup {t}
    <3>1. \A u : u \in Owners(o) <=> u \in Owners(k.delayed) \/ u = t
      BY <1>6, <2>1, OwnersOf
    <3> QED BY <3>1
  <2>7. \A e : Occurs(e, o) =>
          e.xItemValue > T /\ e.xItemValue >= T /\ e.xItemValue = T + s[e.owner] - 0
    BY <1>6, <1>8, <2>1, <2>5
  <2>8. Owners(o) \cap Owners(k.overflow) = {}
    BY <1>7, <2>6
  <2>9. Timed(q, s, 0) /\ AllAhead(q)
    BY <1>1, <1>7, <1>8, <2>1, <2>3, <2>4, <2>7, <2>8 DEF Timed, AllAhead
  <2>10. Sleeping(q) = Sleeping(k) \cup {t}
    BY <2>4, <2>6 DEF Sleeping
  <2> QED BY <1>3, <2>9, <2>10 DEF q
<1> QED BY <1>2, <1>9, <1>10 DEF q

(* uxListRemove of the item of a task that is deleted. *)
LEMMA TimedRemove ==
    ASSUME NEW k, NEW r \in [Tasks -> Int], Timed(k, r, 0), AllAhead(k), NEW t,
           NEW q, q = [k EXCEPT !.delayed = Without(k.delayed, t), !.overflow = Without(k.overflow, t),
                                !.next = NextUnblockTime(Without(k.delayed, t))]
    PROVE  Timed(q, r, 0) /\ AllAhead(q) /\ Sleeping(q) = Sleeping(k) \ {t}
<1> DEFINE d == Without(k.delayed, t)
           o == Without(k.overflow, t)
<1>1. /\ k \in Kernels /\ k.delayed \in Seq(Items) /\ k.overflow \in Seq(Items)
      /\ InOrder(k.delayed) /\ InOrder(k.overflow)
      /\ Owners(k.delayed) \cap Owners(k.overflow) = {}
  BY DEF Timed, Kernels
<1>2. /\ d \in Seq(Items) /\ InOrder(d)
      /\ \A e : Occurs(e, d) <=> Occurs(e, k.delayed) /\ e.owner # t
  BY <1>1, WithoutFacts
<1>3. /\ o \in Seq(Items) /\ InOrder(o)
      /\ \A e : Occurs(e, o) <=> Occurs(e, k.overflow) /\ e.owner # t
  BY <1>1, WithoutFacts
<1>4. q = [k EXCEPT !.delayed = d, !.overflow = o, !.next = NextUnblockTime(d)]
  OBVIOUS
<1> HIDE DEF d, o
<1>5. NextUnblockTime(d) \in Times
  BY <1>2, UnblockTimes
<1>6. /\ q \in Kernels /\ q.tick = k.tick /\ q.delayed = d /\ q.overflow = o
      /\ q.next = NextUnblockTime(d)
  BY <1>1, <1>2, <1>3, <1>4, <1>5 DEF Kernels
<1>7. Owners(d) = Owners(k.delayed) \ {t} /\ Owners(o) = Owners(k.overflow) \ {t}
  <2>1. \A u : u \in Owners(d) <=> u \in Owners(k.delayed) /\ u # t
    BY <1>2, OwnersOf
  <2>2. \A u : u \in Owners(o) <=> u \in Owners(k.overflow) /\ u # t
    BY <1>3, OwnersOf
  <2> QED BY <2>1, <2>2
<1>8. Owners(d) \cap Owners(o) = {}
  BY <1>1, <1>7
<1>9. Timed(q, r, 0) /\ AllAhead(q)
  BY <1>2, <1>3, <1>6, <1>8 DEF Timed, AllAhead
<1>10. Sleeping(q) = Sleeping(k) \ {t}
  BY <1>6, <1>7 DEF Sleeping
<1> QED BY <1>9, <1>10

----------------------------------------------------------------------------
(* The invariant.                                                          *)

(* The ticks a sleeper has left, pended ones included. *)
Left == [t \in Tasks |-> wakeIn[t] + xPendedTicks]

KernelTimed == Timed(Kernel, Left, 0) /\ AllAhead(Kernel)

HistoryTyped ==
    /\ pxPreviousWakeTime \in [Tasks -> Times \cup {UNSET, GONE}]
    /\ age \in [Tasks -> Int]
    /\ wakeIn \in [Tasks -> Int]
    /\ xPendedTicks \in 0 .. MAX_PENDED
    /\ caller = NOBODY => xPendedTicks = 0
    /\ caller \in live \cup {NOBODY}

(* The wake time last asked for is age ticks ago, in times that wrap; a    *)
(* task that is awake has passed it, a sleeper will have when it wakes.    *)
Aged(t) ==
    /\ age[t] < TICK_MODULUS
    /\ Congruent(pxPreviousWakeTime[t], xTickCount + xPendedTicks - age[t])
    /\ IF t \in Asleep THEN age[t] + wakeIn[t] >= 0 ELSE age[t] >= xPendedTicks

DelayInv ==
    /\ HistoryTyped
    /\ KernelTimed
    /\ Asleep \subseteq live
    /\ \A t \in live : Aged(t)
    /\ \A t \in Tasks : t \notin live => age[t] = 0

LEMMA KernelFacts ==
    /\ Kernel.tick = xTickCount /\ Kernel.delayed = pxDelayedTaskList
    /\ Kernel.overflow = pxOverflowDelayedTaskList /\ Kernel.next = xNextTaskUnblockTime
    /\ Sleeping(Kernel) = Asleep
  BY DEF Kernel, Sleeping, Asleep

LEMMA KernelNext ==
    ASSUME NEW k, Kernel' = k PROVE Asleep' = Sleeping(k)
<1>1. k.delayed = pxDelayedTaskList' /\ k.overflow = pxOverflowDelayedTaskList'
  BY DEF Kernel
<1> QED BY <1>1 DEF Asleep, Sleeping, Owners

LEMMA KernelTimedNext ==
    ASSUME NEW k, NEW r, Kernel' = k, Left' = r, Timed(k, r, 0), AllAhead(k)
    PROVE  KernelTimed'
  BY DEF KernelTimed

LEMMA DelayInvInit == Init => DelayInv
<1> SUFFICES ASSUME Init PROVE DelayInv
  OBVIOUS
<1>1. /\ pxDelayedTaskList = <<>> /\ pxOverflowDelayedTaskList = <<>>
      /\ xTickCount = 0 /\ xNextTaskUnblockTime = portMAX_DELAY /\ xPendedTicks = 0
      /\ \A t \in Tasks : pxPreviousWakeTime[t] = UNSET /\ age[t] = 0 /\ wakeIn[t] = 0
      /\ wakeIn = [t \in Tasks |-> 0]
  BY DEF Init
<1>2. UNSET \notin Times
  BY ModulusAssumption DEF UNSET, Times
<1>3. live = {} /\ Asleep = {}
  BY <1>1, <1>2 DEF live, Asleep, Owners
<1>4. HistoryTyped
  <2>1. 0 \in 0 .. MAX_PENDED /\ 0 \in Int
    BY PendedAssumption
  <2> QED BY <1>3, <2>1 DEF Init, HistoryTyped
<1>5. KernelTimed
  <2>1. Kernel = [tick |-> 0, delayed |-> <<>>, overflow |-> <<>>, next |-> portMAX_DELAY]
    BY <1>1 DEF Kernel
  <2>2. <<>> \in Seq(Items) /\ Len(<<>>) = 0 /\ \A e : ~ Occurs(e, <<>>)
    BY DEF Occurs
  <2>3. Kernel \in Kernels
    BY <2>1, <2>2, TimesAreNumbers DEF Kernels
  <2>4. InOrder(<<>>) /\ Owners(<<>>) = {}
    BY <2>2 DEF InOrder, Owners
  <2>5. /\ Kernel.delayed = <<>> /\ Kernel.overflow = <<>>
        /\ Kernel.next = NextUnblockTime(<<>>)
    BY <2>1 DEF NextUnblockTime
  <2> QED BY <2>2, <2>3, <2>4, <2>5 DEF KernelTimed, Timed, AllAhead
<1> QED BY <1>1, <1>3, <1>4, <1>5 DEF DelayInv

(* What is known of the invariant's parts before a step. *)
LEMMA InvFacts ==
    ASSUME DelayInv
    PROVE  /\ Timed(Kernel, Left, 0) /\ AllAhead(Kernel)
           /\ Left \in [Tasks -> Int]
           /\ xTickCount \in Times /\ xTickCount \in Int
           /\ xPendedTicks \in Nat /\ xPendedTicks <= MAX_PENDED
           /\ age \in [Tasks -> Int] /\ wakeIn \in [Tasks -> Int]
           /\ Asleep \subseteq live /\ live \subseteq Tasks
           /\ \A t \in Tasks : Left[t] = wakeIn[t] + xPendedTicks
           /\ \A t \in live : pxPreviousWakeTime[t] \in Times
<1>1. /\ Timed(Kernel, Left, 0) /\ AllAhead(Kernel) /\ HistoryTyped
  BY DEF DelayInv, KernelTimed
<1>2. wakeIn \in [Tasks -> Int] /\ age \in [Tasks -> Int] /\ xPendedTicks \in 0 .. MAX_PENDED
  BY <1>1 DEF HistoryTyped
<1>3. xPendedTicks \in Nat /\ xPendedTicks <= MAX_PENDED
  BY <1>2, PendedAssumption
<1>4. Left \in [Tasks -> Int]
  <2>1. \A t \in Tasks : wakeIn[t] + xPendedTicks \in Int
    BY <1>2, <1>3
  <2> QED BY <2>1 DEF Left
<1>5. xTickCount \in Times
  BY <1>1, KernelFacts DEF Timed, Kernels
<1> QED BY <1>1, <1>2, <1>3, <1>4, <1>5, TimesAreNumbers DEF DelayInv, live, Left

LEMMA CongruentSym ==
    ASSUME NEW x \in Int, NEW y \in Int, Congruent(x, y) PROVE Congruent(y, x)
<1>1. PICK M \in Nat : M = TICK_MODULUS /\ M > 1
  BY ModulusAssumption
<1>2. PICK e \in Int : x = y + e * M
  BY <1>1 DEF Congruent
<1>3. y = x + (-e) * M /\ -e \in Int
  BY <1>1, <1>2
<1> QED BY <1>1, <1>3 DEF Congruent

(* What the variables of Delays stand for. *)
Remaining == [t \in Tasks |-> IF t \in Asleep THEN wakeIn[t] + xPendedTicks ELSE 0]
Ages == [t \in Tasks |-> IF t \in live THEN age[t] - xPendedTicks ELSE 0]

(* A delay call that puts t to sleep. *)
LEMMA AddEffect ==
    ASSUME DelayInv, xPendedTicks = 0, NEW t \in Tasks, t \notin Asleep,
           NEW d \in Nat, 1 <= d, d < TICK_MODULUS, AddToDelayedList(t, d),
           UNCHANGED <<xTickCount, xPendedTicks>>
    PROVE  /\ Asleep' = Asleep \cup {t}
           /\ wakeIn' = [wakeIn EXCEPT ![t] = d] => KernelTimed'
<1>0. PICK k : k = Kernel
  OBVIOUS
<1>1. PICK r \in [Tasks -> Int] : k = Kernel /\ r = Left /\ Timed(k, r, 0) /\ AllAhead(k)
  BY <1>0, InvFacts
<1>2. /\ k.tick = xTickCount /\ k.delayed = pxDelayedTaskList
      /\ k.overflow = pxOverflowDelayedTaskList /\ k.next = xNextTaskUnblockTime
      /\ Sleeping(k) = Asleep
  BY <1>1, KernelFacts
<1>3. PICK v, item : v = (xTickCount + d) % TICK_MODULUS /\ item = [owner |-> t, xItemValue |-> v]
  OBVIOUS
<1>4. PICK q : q = Added(k, t, d)
  OBVIOUS
<1>5. Timed(q, [r EXCEPT ![t] = d], 0) /\ AllAhead(q) /\ Sleeping(q) = Sleeping(k) \cup {t}
  BY <1>1, <1>2, <1>4, TimedInsert
<1>6. Kernel' = q
  <2>1. k = [tick |-> xTickCount, delayed |-> pxDelayedTaskList,
             overflow |-> pxOverflowDelayedTaskList, next |-> xNextTaskUnblockTime]
    BY <1>1 DEF Kernel
  <2>2. CASE v < xTickCount
    <3>1. /\ pxOverflowDelayedTaskList' = Inserted(pxOverflowDelayedTaskList, item)
          /\ UNCHANGED <<pxDelayedTaskList, xNextTaskUnblockTime>>
      BY <1>3, <2>2 DEF AddToDelayedList, Overflowed
    <3>2. q = [k EXCEPT !.overflow = Inserted(k.overflow, item)]
      BY <1>2, <1>3, <1>4, <2>2 DEF Added
    <3> QED BY <1>2, <2>1, <3>1, <3>2 DEF Kernel
  <2>3. CASE ~ (v < xTickCount)
    <3>1. /\ pxDelayedTaskList' = Inserted(pxDelayedTaskList, item)
          /\ xNextTaskUnblockTime' = IF v < xNextTaskUnblockTime THEN v ELSE xNextTaskUnblockTime
          /\ UNCHANGED pxOverflowDelayedTaskList
      BY <1>3, <2>3 DEF AddToDelayedList, Overflowed
    <3>2. q = [k EXCEPT !.delayed = Inserted(k.delayed, item),
                        !.next = IF v < k.next THEN v ELSE k.next]
      BY <1>2, <1>3, <1>4, <2>3 DEF Added
    <3> QED BY <1>2, <2>1, <3>1, <3>2 DEF Kernel
  <2> QED BY <2>2, <2>3
<1>7. ASSUME wakeIn' = [wakeIn EXCEPT ![t] = d] PROVE Left' = [r EXCEPT ![t] = d]
  <2>1. wakeIn \in [Tasks -> Int] /\ \A u \in Tasks : r[u] = wakeIn[u] + 0
    BY <1>1, InvFacts
  <2>2. \A u \in Tasks : wakeIn'[u] + 0 = [r EXCEPT ![t] = d][u]
    BY <1>7, <2>1
  <2>3. Left' = [u \in Tasks |-> wakeIn'[u] + 0]
    BY DEF Left
  <2> QED BY <1>1, <2>2, <2>3
<1> QED BY <1>2, <1>5, <1>6, <1>7, KernelNext, KernelTimedNext

(* Tasks that a step neither puts to sleep nor wakes, at the same time. *)
LEMMA AgedSame ==
    ASSUME NEW u, Aged(u), UNCHANGED <<xTickCount, xPendedTicks>>,
           age'[u] = age[u], wakeIn'[u] = wakeIn[u],
           pxPreviousWakeTime'[u] = pxPreviousWakeTime[u], u \in Asleep' <=> u \in Asleep
    PROVE  Aged(u)'
  BY DEF Aged, Congruent

LEMMA FirstDelayStep ==
    ASSUME DelayInv, NEW t \in Tasks, FirstDelay(t) PROVE DelayInv' /\ Promise!DelaysNext
<1>1. /\ xPendedTicks = 0 /\ UNCHANGED <<xTickCount, xPendedTicks, age>>
      /\ caller' = t /\ wakeIn' = [wakeIn EXCEPT ![t] = 1]
      /\ pxPreviousWakeTime \in [Tasks -> Times \cup {UNSET, GONE}]
      /\ pxPreviousWakeTime' = [pxPreviousWakeTime EXCEPT ![t] = xTickCount]
      /\ pxPreviousWakeTime[t] = UNSET
  BY DEF FirstDelay, DelayInv, HistoryTyped
<1>2. /\ xTickCount \in Times /\ xTickCount \in Int /\ age \in [Tasks -> Int] /\ wakeIn \in [Tasks -> Int]
      /\ Asleep \subseteq live /\ live \subseteq Tasks
  BY InvFacts
<1>3. t \notin live /\ t \notin Asleep
  <2>1. UNSET \notin Times
    BY ModulusAssumption DEF UNSET, Times
  <2> QED BY <1>1, <1>2, <2>1 DEF live
<1>4. live' = live \cup {t}
  BY <1>1, <1>2 DEF live
<1>5. KernelTimed' /\ Asleep' = Asleep \cup {t}
  <2>1. 1 < TICK_MODULUS /\ 1 \in Nat /\ 1 <= 1
    BY ModulusAssumption
  <2> QED BY <1>1, <1>3, <2>1, AddEffect DEF FirstDelay
<1>6. HistoryTyped'
  <2>1. pxPreviousWakeTime' \in [Tasks -> Times \cup {UNSET, GONE}] /\ 1 \in Int
    BY <1>1, <1>2
  <2>2. wakeIn' \in [Tasks -> Int]
    BY <1>1, <1>2, <2>1
  <2>3. 0 \in 0 .. MAX_PENDED
    BY PendedAssumption
  <2> QED BY <1>1, <1>2, <1>4, <2>1, <2>2, <2>3 DEF HistoryTyped
<1>7. age[t] = 0
  BY <1>3 DEF DelayInv
<1>8. Aged(t)'
  <2>1. pxPreviousWakeTime'[t] = xTickCount /\ wakeIn'[t] = 1 /\ age'[t] = 0 /\ xTickCount + 0 - 0 = xTickCount
    BY <1>1, <1>2, <1>7
  <2>2. Congruent(xTickCount, xTickCount + 0 - 0)
    BY <1>2, <2>1, CongruentSame
  <2>3. Congruent(pxPreviousWakeTime[t], xTickCount + xPendedTicks - age[t])'
    BY <1>1, <2>1, <2>2
  <2>4. 0 < TICK_MODULUS /\ age'[t] + wakeIn'[t] >= 0
    BY <2>1, ModulusAssumption
  <2> QED BY <1>5, <2>1, <2>3, <2>4 DEF Aged
<1>9. ASSUME NEW u \in live', u # t PROVE Aged(u)'
  <2>1. u \in live /\ Aged(u) /\ u \in Tasks
    BY <1>2, <1>4, <1>9 DEF DelayInv
  <2> QED BY <1>1, <1>2, <1>5, <1>9, <2>1, AgedSame
<1>10. DelayInv'
  BY <1>1, <1>2, <1>4, <1>5, <1>6, <1>8, <1>9 DEF DelayInv
<1>11. Promise!Begin(t)
  <2>1. Remaining' = [Remaining EXCEPT ![t] = 1]
    <3>1. ASSUME NEW u \in Tasks
          PROVE  (IF u \in Asleep' THEN wakeIn'[u] + xPendedTicks' ELSE 0) = [Remaining EXCEPT ![t] = 1][u]
      BY <1>1, <1>2, <1>5 DEF Remaining
    <3>2. Remaining' = [u \in Tasks |-> IF u \in Asleep' THEN wakeIn'[u] + xPendedTicks' ELSE 0]
      BY DEF Remaining
    <3> QED BY <3>1, <3>2 DEF Remaining
  <2>2. Ages' = [Ages EXCEPT ![t] = 0]
    <3>1. ASSUME NEW u \in Tasks
          PROVE  (IF u \in live' THEN age'[u] - xPendedTicks' ELSE 0) = [Ages EXCEPT ![t] = 0][u]
      BY <1>1, <1>2, <1>4, <1>7 DEF Ages
    <3>2. Ages' = [u \in Tasks |-> IF u \in live' THEN age'[u] - xPendedTicks' ELSE 0]
      BY DEF Ages
    <3> QED BY <3>1, <3>2 DEF Ages
  <2> QED BY <1>3, <1>4, <2>1, <2>2 DEF Promise!Begin, Remaining, Ages
<1> QED BY <1>10, <1>11 DEF Promise!DelaysNext

(* xTaskDelayUntil sees through the wrap-around: the task is to sleep      *)
(* exactly if its last wake time is less than the increment ago, and then  *)
(* for the ticks that are missing.                                         *)
LEMMA UntilTimes ==
    ASSUME NEW T \in Times, NEW p \in Times, NEW a \in Nat, a < TICK_MODULUS, Congruent(p, T - a),
           NEW i \in 1 .. TICK_MODULUS - 1, NEW w, w = (p + i) % TICK_MODULUS
    PROVE  /\ w \in Times
           /\ Congruent(w, T - (a - i))
           /\ ShouldDelay(T, p, w) <=> i > a
           /\ i > a => (w - T) % TICK_MODULUS = i - a
<1>1. PICK M \in Nat : M = TICK_MODULUS /\ M > 1
  BY ModulusAssumption
<1>2. T \in 0 .. M - 1 /\ p \in 0 .. M - 1 /\ i \in 1 .. M - 1 /\ a \in 0 .. M - 1
  BY <1>1 DEF Times
<1>3. p = T - a \/ p = T - a + M
  <2>1. T - a \in Int /\ p \in Int /\ 0 <= p /\ p < M /\ -M < T - a /\ T - a < M
    BY <1>1, <1>2
  <2> QED BY <1>1, <2>1, CongruentFacts
<1>4. /\ p + i < M => w = p + i
      /\ p + i >= M => w = p + i - M
  <2>1. PICK s \in Int : s = p + i /\ -M < s /\ s < 2 * M /\ 0 <= s
    BY <1>1, <1>2
  <2>2. /\ 0 <= s /\ s < M => s % M = s
        /\ s >= M => s % M = s - M
    BY <1>1, <2>1, Wrapped
  <2>3. w = s % M
    BY <1>1, <2>1
  <2> QED BY <1>1, <1>2, <2>1, <2>2, <2>3
<1>5. w \in 0 .. M - 1
  BY <1>1, <1>2, <1>4
<1>6. Congruent(w, T - (a - i))
  <2>1. p \in Int /\ T - a \in Int /\ i \in Int
    BY <1>1, <1>2
  <2>2. Congruent(p + i, (T - a) + i)
    BY <2>1, CongruentFacts
  <2>3. PICK s, c \in Int : s = p + i /\ c = (T - a) + i /\ c = T - (a - i)
    BY <1>1, <1>2
  <2>4. Congruent(s, c)
    BY <2>2, <2>3
  <2>5. Congruent(c, s - M)
    BY <1>1, <2>3, <2>4, CongruentSym, CongruentFacts
  <2>6. Congruent(s - M, c)
    <3>1. s - M \in Int
      BY <1>1, <2>3
    <3> QED BY <2>3, <2>5, <3>1, CongruentSym
  <2>7. w = s \/ w = s - M
    BY <1>1, <1>2, <1>4, <2>3
  <2> QED BY <2>3, <2>4, <2>6, <2>7
<1>7. ShouldDelay(T, p, w) <=> i > a
  BY <1>1, <1>2, <1>3, <1>4, <1>5 DEF ShouldDelay
<1>8. ASSUME i > a PROVE (w - T) % M = i - a
  <2>1. w - T = i - a \/ w - T = i - a - M
    BY <1>1, <1>2, <1>3, <1>4, <1>5, <1>8
  <2>2. i - a \in 1 .. M - 1 /\ w - T \in Int /\ -M < w - T /\ w - T < 2 * M
    BY <1>1, <1>2, <1>5, <1>8
  <2> QED BY <1>1, <2>1, <2>2, Wrapped
<1> QED BY <1>1, <1>5, <1>6, <1>7, <1>8 DEF Times

(* Nobody asleep is due. *)
LEMMA LeftPositive ==
    ASSUME NEW k, NEW r \in [Tasks -> Int], Timed(k, r, 0), AllAhead(k), NEW t \in Sleeping(k)
    PROVE  r[t] > 0
<1>1. PICK M \in Nat : M = TICK_MODULUS /\ M > 1
  BY ModulusAssumption
<1>2. k.tick \in 0 .. M - 1
  BY <1>1, TimedFacts DEF Times
<1>3. CASE t \in Owners(k.delayed)
  <2>1. PICK item : Occurs(item, k.delayed) /\ item.owner = t
    BY <1>3, OwnersOf
  <2>2. item.xItemValue \in 0 .. M - 1 /\ r[t] \in Int
    BY <1>1, <2>1, TimedFacts DEF Times
  <2>3. item.xItemValue > k.tick /\ item.xItemValue = k.tick + r[t] - 0
    BY <2>1 DEF Timed, AllAhead
  <2> QED BY <1>1, <1>2, <2>2, <2>3
<1>4. CASE t \in Owners(k.overflow)
  <2>1. PICK item : Occurs(item, k.overflow) /\ item.owner = t
    BY <1>4, OwnersOf
  <2>2. item.xItemValue \in 0 .. M - 1 /\ r[t] \in Int
    BY <1>1, <2>1, TimedFacts DEF Times
  <2>3. item.xItemValue + M = k.tick + r[t] - 0
    BY <1>1, <2>1 DEF Timed
  <2> QED BY <1>1, <1>2, <2>2, <2>3
<1> QED BY <1>3, <1>4 DEF Sleeping

(* What the refinement mapping gives for Delays, function by function. *)
LEMMA MappedNext ==
    /\ Remaining' = [u \in Tasks |-> IF u \in Asleep' THEN wakeIn'[u] + xPendedTicks' ELSE 0]
    /\ Ages' = [u \in Tasks |-> IF u \in live' THEN age'[u] - xPendedTicks' ELSE 0]
  BY DEF Remaining, Ages

LEMMA DelayUntilStep ==
    ASSUME DelayInv, NEW t \in Tasks, DelayUntil(t) PROVE DelayInv' /\ Promise!DelaysNext
<1>1. /\ xPendedTicks = 0 /\ UNCHANGED <<xTickCount, xPendedTicks>>
      /\ caller' = t /\ t \in live /\ t \notin Asleep
      /\ pxPreviousWakeTime \in [Tasks -> Times \cup {UNSET, GONE}]
      /\ age' = [age EXCEPT ![t] = age[t] - xTimeIncrement[t]]
      /\ wakeIn' = [wakeIn EXCEPT ![t] = IF t \in Asleep' THEN xTimeIncrement[t] - age[t] ELSE 0]
  BY DEF DelayUntil, DelayInv, HistoryTyped
<1>2. /\ xTickCount \in Times /\ xTickCount \in Int /\ age \in [Tasks -> Int] /\ wakeIn \in [Tasks -> Int]
      /\ Asleep \subseteq live /\ live \subseteq Tasks
      /\ pxPreviousWakeTime[t] \in Times
  BY <1>1, InvFacts
<1>3. PICK M \in Nat : M = TICK_MODULUS /\ M > 1
  BY ModulusAssumption
<1>4. PICK a \in Nat : a = age[t] /\ a < M
  <2>1. age[t] >= xPendedTicks /\ age[t] < TICK_MODULUS /\ age[t] \in Int
    BY <1>1, <1>2 DEF DelayInv, Aged
  <2> QED BY <1>1, <1>3, <2>1
<1>5. PICK i \in 1 .. M - 1 : i = xTimeIncrement[t]
  BY <1>3, IncrementAssumption
<1>6. PICK p \in Times : p = pxPreviousWakeTime[t]
  BY <1>2
<1>7. PICK w : w = (p + i) % TICK_MODULUS
  OBVIOUS
<1>8. /\ w \in Times
      /\ Congruent(w, xTickCount - (a - i))
      /\ ShouldDelay(xTickCount, p, w) <=> i > a
      /\ i > a => (w - xTickCount) % TICK_MODULUS = i - a
  <2>1. Congruent(p, xTickCount - a)
    <3>1. Congruent(pxPreviousWakeTime[t], xTickCount + xPendedTicks - age[t])
      BY <1>1 DEF DelayInv, Aged
    <3>2. xTickCount + xPendedTicks - age[t] = xTickCount - a
      BY <1>1, <1>2, <1>4
    <3> QED BY <1>6, <3>1, <3>2
  <2>2. PICK T \in Times : T = xTickCount
    BY <1>2
  <2>3. Congruent(p, T - a) /\ a < TICK_MODULUS /\ i \in 1 .. TICK_MODULUS - 1
    BY <1>3, <1>4, <2>1, <2>2
  <2>4. /\ w \in Times
        /\ Congruent(w, T - (a - i))
        /\ ShouldDelay(T, p, w) <=> i > a
        /\ i > a => (w - T) % TICK_MODULUS = i - a
    BY <1>7, <2>3, UntilTimes
  <2> QED BY <2>2, <2>4
<1>9. /\ pxPreviousWakeTime' = [pxPreviousWakeTime EXCEPT ![t] = w]
      /\ IF i > a THEN AddToDelayedList(t, i - a) ELSE UNCHANGED lists
  BY <1>5, <1>6, <1>7, <1>8 DEF DelayUntil
<1>10. live' = live
  BY <1>1, <1>2, <1>8, <1>9 DEF live
<1>11. PICK z \in Int : z = a - i
  BY <1>3
<1>12. /\ age' = [age EXCEPT ![t] = z] /\ age'[t] = z /\ z < M
       /\ i > a => i - a = 0 - z /\ i - a \in Nat /\ 1 <= i - a /\ i - a < TICK_MODULUS
       /\ ~ (i > a) => z >= 0
  BY <1>1, <1>2, <1>3, <1>4, <1>5, <1>11
<1>13. IF i > a THEN Asleep' = Asleep \cup {t} ELSE Asleep' = Asleep
  <2>1. CASE i > a
    <3>1. PICK d \in Nat : d = i - a /\ 1 <= d /\ d < TICK_MODULUS /\ AddToDelayedList(t, d)
      BY <1>9, <1>12, <2>1
    <3> QED BY <1>1, <2>1, <3>1, AddEffect
  <2>2. CASE ~ (i > a)
    BY <1>9, <2>2 DEF lists, Asleep, Owners
  <2> QED BY <2>1, <2>2
<1>14. wakeIn' = [wakeIn EXCEPT ![t] = IF i > a THEN i - a ELSE 0]
  BY <1>1, <1>4, <1>5, <1>13
<1>15. wakeIn' \in [Tasks -> Int]
  <2>1. (IF i > a THEN i - a ELSE 0) \in Int
    BY <1>3
  <2> QED BY <1>2, <1>14, <2>1
<1>16. KernelTimed'
  <2>1. CASE i > a
    <3>1. PICK d \in Nat : d = i - a /\ 1 <= d /\ d < TICK_MODULUS /\ AddToDelayedList(t, d)
      BY <1>9, <1>12, <2>1
    <3>2. wakeIn' = [wakeIn EXCEPT ![t] = d]
      BY <1>14, <2>1, <3>1
    <3> QED BY <1>1, <3>1, <3>2, AddEffect
  <2>2. CASE ~ (i > a)
    <3>1. PICK k : k = Kernel
      OBVIOUS
    <3>2. PICK r \in [Tasks -> Int] : r = Left /\ Timed(k, r, 0) /\ AllAhead(k)
      BY <3>1, InvFacts
    <3>3. Kernel' = k
      BY <1>1, <1>9, <2>2, <3>1 DEF lists, Kernel
    <3>4. PICK q \in [Tasks -> Int] : q = Left' /\ \A u \in Tasks : q[u] = wakeIn'[u] + 0
      <4>1. Left' = [u \in Tasks |-> wakeIn'[u] + 0]
        BY <1>1 DEF Left
      <4>2. \A u \in Tasks : wakeIn'[u] + 0 \in Int
        BY <1>15
      <4> QED BY <4>1, <4>2
    <3>5. \A u \in Sleeping(k) : q[u] - 0 = r[u] - 0
      <4>1. \A u \in Sleeping(k) : u \in Tasks /\ u # t
        BY <1>1, <1>2, <3>1, KernelFacts
      <4>2. \A u \in Tasks : r[u] = wakeIn[u] + 0
        BY <1>1, <3>2, InvFacts
      <4>3. \A u \in Tasks : u # t => wakeIn'[u] = wakeIn[u]
        BY <1>2, <1>14
      <4> QED BY <3>4, <4>1, <4>2, <4>3
    <3>6. Timed(k, q, 0)
      BY <3>2, <3>5, TimedSame
    <3> QED BY <3>2, <3>3, <3>4, <3>6, KernelTimedNext
  <2> QED BY <2>1, <2>2
<1>17. HistoryTyped'
  <2>1. pxPreviousWakeTime' \in [Tasks -> Times \cup {UNSET, GONE}]
    BY <1>1, <1>8, <1>9
  <2>2. age' \in [Tasks -> Int]
    BY <1>2, <1>12
  <2>3. 0 \in 0 .. MAX_PENDED
    BY PendedAssumption
  <2> QED BY <1>1, <1>10, <1>15, <2>1, <2>2, <2>3 DEF HistoryTyped
<1>18. Aged(t)'
  <2>1. pxPreviousWakeTime'[t] = w /\ wakeIn'[t] = IF i > a THEN i - a ELSE 0
    BY <1>1, <1>2, <1>9, <1>14
  <2>2. Congruent(pxPreviousWakeTime[t], xTickCount + xPendedTicks - age[t])'
    <3>1. xTickCount - (a - i) = xTickCount + 0 - z
      BY <1>2, <1>3, <1>4, <1>11
    <3>2. Congruent(w, xTickCount + 0 - z)
      BY <1>8, <3>1
    <3> QED BY <1>1, <1>12, <2>1, <3>2 DEF Congruent
  <2>3. i > a => age'[t] + wakeIn'[t] >= 0
    BY <1>11, <1>12, <2>1
  <2> QED BY <1>1, <1>3, <1>12, <1>13, <2>2, <2>3 DEF Aged
<1>19. ASSUME NEW u \in live', u # t PROVE Aged(u)'
  <2>1. u \in live /\ Aged(u) /\ u \in Tasks
    BY <1>2, <1>10, <1>19 DEF DelayInv
  <2>2. /\ age'[u] = age[u] /\ wakeIn'[u] = wakeIn[u]
        /\ pxPreviousWakeTime'[u] = pxPreviousWakeTime[u] /\ (u \in Asleep' <=> u \in Asleep)
    BY <1>1, <1>2, <1>9, <1>12, <1>13, <1>14, <1>19, <2>1
  <2> QED BY <1>1, <2>1, <2>2, AgedSame
<1>20. DelayInv'
  <2>1. \A u \in Tasks : u \notin live' => age'[u] = 0
    BY <1>1, <1>2, <1>10, <1>12 DEF DelayInv
  <2>2. Asleep' \subseteq live'
    BY <1>1, <1>2, <1>10, <1>13
  <2> QED BY <1>16, <1>17, <1>18, <1>19, <2>1, <2>2 DEF DelayInv
<1>21. Promise!SleepUntilNext(t)
  <2>1. PICK x \in Int : x = Promise!NotBefore(i - a) /\ x = IF i > a THEN i - a ELSE 0
    BY <1>3, <1>5 DEF Promise!NotBefore
  <2>2. Remaining' = [Remaining EXCEPT ![t] = x]
    <3>1. ASSUME NEW u \in Tasks
          PROVE  (IF u \in Asleep' THEN wakeIn'[u] + xPendedTicks' ELSE 0) = [Remaining EXCEPT ![t] = x][u]
      <4>1. CASE u = t
        <5>1. wakeIn'[u] = x /\ x + 0 = x /\ (u \in Asleep' <=> i > a)
          BY <1>1, <1>2, <1>13, <1>14, <2>1, <4>1
        <5>2. [Remaining EXCEPT ![t] = x][u] = x
          BY <4>1 DEF Remaining
        <5> QED BY <1>1, <2>1, <5>1, <5>2
      <4>2. CASE u # t
        <5>1. wakeIn'[u] = wakeIn[u] /\ (u \in Asleep' <=> u \in Asleep)
          BY <1>2, <1>13, <1>14, <4>2
        <5> QED BY <1>1, <4>2, <5>1 DEF Remaining
      <4> QED BY <4>1, <4>2
    <3> QED BY <3>1, MappedNext DEF Remaining
  <2>3. Ages[t] = a /\ Remaining[t] = 0
    BY <1>1, <1>2, <1>4 DEF Ages, Remaining
  <2>4. Ages' = [Ages EXCEPT ![t] = a - i]
    <3>1. ASSUME NEW u \in Tasks
          PROVE  (IF u \in live' THEN age'[u] - xPendedTicks' ELSE 0) = [Ages EXCEPT ![t] = a - i][u]
      <4>1. CASE u = t
        <5>1. age'[u] = a - i /\ (a - i) - 0 = a - i /\ u \in live'
          BY <1>1, <1>3, <1>10, <1>11, <1>12, <4>1
        <5>2. [Ages EXCEPT ![t] = a - i][u] = a - i
          BY <4>1 DEF Ages
        <5> QED BY <1>1, <5>1, <5>2
      <4>2. CASE u # t
        <5>1. age'[u] = age[u] /\ (u \in live' <=> u \in live)
          BY <1>2, <1>10, <1>12, <4>2
        <5> QED BY <1>1, <4>2, <5>1 DEF Ages
      <4> QED BY <4>1, <4>2
    <3> QED BY <3>1, MappedNext DEF Ages
  <2> QED BY <1>1, <1>5, <1>10, <2>1, <2>2, <2>3, <2>4 DEF Promise!SleepUntilNext, Promise!NotBefore, Remaining, Ages
<1> QED BY <1>20, <1>21 DEF Promise!DelaysNext

(* The kernel processes n ticks, counting those that were pended. *)
LEMMA PassEffect ==
    ASSUME DelayInv, NEW n \in Nat, NEW k, Timed(k, Left, n), AllAhead(k),
           Sleeping(k) = {t \in Asleep : Left[t] > n}, Congruent(k.tick, xTickCount + n),
           SetKernel(k), xPendedTicks' = 0, caller' = NOBODY, UNCHANGED pxPreviousWakeTime,
           age' = [t \in Tasks |-> IF t \in live THEN age[t] - xPendedTicks + n ELSE age[t]],
           wakeIn' = [t \in Tasks |-> IF t \in Asleep' THEN Left[t] - n ELSE 0],
           \A t \in live : age'[t] < TICK_MODULUS
    PROVE  DelayInv' /\ Promise!Pass(n)
<1>1. /\ xTickCount \in Int /\ xPendedTicks \in Nat
      /\ age \in [Tasks -> Int] /\ wakeIn \in [Tasks -> Int] /\ Left \in [Tasks -> Int]
      /\ Asleep \subseteq live /\ live \subseteq Tasks
      /\ \A t \in Tasks : Left[t] = wakeIn[t] + xPendedTicks
  BY InvFacts
<1>2. /\ xTickCount' = k.tick /\ pxDelayedTaskList' = k.delayed
      /\ pxOverflowDelayedTaskList' = k.overflow /\ xNextTaskUnblockTime' = k.next
  BY DEF SetKernel
<1>3. Kernel' = k
  <2>1. k \in Kernels
    BY DEF Timed
  <2> QED BY <1>2, <2>1 DEF Kernel, Kernels
<1>4. Asleep' = {t \in Asleep : Left[t] > n}
  BY <1>3, KernelNext
<1>5. live' = live
  BY DEF live
<1>6. k.tick \in Int
  BY TimesAreNumbers DEF Timed, Kernels
<1>7. wakeIn' \in [Tasks -> Int] /\ age' \in [Tasks -> Int]
  <2>1. \A t \in Tasks : (IF t \in Asleep' THEN Left[t] - n ELSE 0) \in Int
    BY <1>1
  <2>2. \A t \in Tasks : (IF t \in live THEN age[t] - xPendedTicks + n ELSE age[t]) \in Int
    BY <1>1
  <2> QED BY <2>1, <2>2
<1>8. KernelTimed'
  <2>1. PICK r \in [Tasks -> Int] : r = Left /\ Timed(k, r, n)
    BY <1>1
  <2>2. PICK q \in [Tasks -> Int] : q = Left' /\ \A u \in Tasks : q[u] = wakeIn'[u] + 0
    <3>1. Left' = [u \in Tasks |-> wakeIn'[u] + 0]
      BY DEF Left
    <3>2. \A u \in Tasks : wakeIn'[u] + 0 \in Int
      BY <1>7
    <3> QED BY <3>1, <3>2
  <2>3. ASSUME NEW u \in Sleeping(k) PROVE q[u] - 0 = r[u] - n
    <3>1. u \in Tasks /\ wakeIn'[u] = r[u] - n /\ r[u] \in Int
      BY <1>1, <1>4, <2>1
    <3>2. q[u] = (r[u] - n) + 0
      BY <2>2, <3>1
    <3> QED BY <3>1, <3>2
  <2>4. Timed(k, q, 0)
    BY <2>1, <2>3, TimedSame
  <2> QED BY <1>3, <2>2, <2>4, KernelTimedNext
<1>9. HistoryTyped'
  <2>1. 0 \in 0 .. MAX_PENDED
    BY PendedAssumption
  <2> QED BY <1>7, <2>1 DEF HistoryTyped, DelayInv
<1>10. ASSUME NEW t \in live PROVE Aged(t)'
  <2>1. t \in Tasks /\ Aged(t) /\ pxPreviousWakeTime[t] \in Int
    BY <1>1, InvFacts, TimesAreNumbers DEF DelayInv
  <2>2. PICK a, b, l, x \in Int : a = age[t] /\ b = age'[t] /\ l = wakeIn[t] /\ x = wakeIn'[t]
    BY <1>1, <1>7, <2>1
  <2>3. b = a - xPendedTicks + n /\ x = IF t \in Asleep' THEN l + xPendedTicks - n ELSE 0
    BY <1>1, <2>1, <2>2
  <2>4. Congruent(pxPreviousWakeTime[t], xTickCount + xPendedTicks - age[t])'
    <3>1. Congruent(pxPreviousWakeTime[t], xTickCount + xPendedTicks - a)
      BY <2>1, <2>2 DEF Aged
    <3>2. PICK z \in Int : z = xPendedTicks - a - n
      BY <1>1
    <3>3. PICK c, e, f \in Int : c = xTickCount + n /\ e = xTickCount + xPendedTicks - a /\ f = k.tick + z
      BY <1>1, <1>6
    <3>4. Congruent(c, k.tick)
      BY <1>6, <3>3, CongruentSym
    <3>5. Congruent(c + z, k.tick + z)
      BY <1>6, <3>4, CongruentFacts
    <3>6. c + z = e /\ f = k.tick + 0 - b
      BY <1>1, <1>6, <2>3, <3>2, <3>3
    <3>7. Congruent(pxPreviousWakeTime[t], f)
      BY <2>1, <3>1, <3>3, <3>5, <3>6, CongruentTrans
    <3> QED BY <1>2, <2>2, <3>6, <3>7 DEF Congruent
  <2>5. IF t \in Asleep' THEN b + x >= 0 ELSE b >= 0
    <3>1. t \in Asleep => a + l >= 0
      BY <2>1, <2>2 DEF Aged
    <3>2. t \notin Asleep => a >= xPendedTicks
      BY <2>1, <2>2 DEF Aged
    <3>3. t \in Asleep' <=> t \in Asleep /\ l + xPendedTicks > n
      BY <1>1, <1>4, <2>1, <2>2
    <3> QED BY <1>1, <2>3, <3>1, <3>2, <3>3
  <2> QED BY <2>2, <2>4, <2>5 DEF Aged
<1>11. DelayInv'
  <2>1. \A t \in Tasks : t \notin live' => age'[t] = 0
    BY <1>5 DEF DelayInv
  <2>2. Asleep' \subseteq live'
    BY <1>1, <1>4, <1>5
  <2> QED BY <1>5, <1>8, <1>9, <1>10, <2>1, <2>2 DEF DelayInv
<1>12. Promise!Pass(n)
  <2>1. Remaining' = [t \in Tasks |-> Promise!NotBefore(Remaining[t] - n)]
    <3>1. ASSUME NEW u \in Tasks
          PROVE  (IF u \in Asleep' THEN wakeIn'[u] + xPendedTicks' ELSE 0) = Promise!NotBefore(Remaining[u] - n)
      <4>1. PICK l \in Int : l = Left[u]
        BY <1>1
      <4>2. /\ Remaining[u] = IF u \in Asleep THEN l ELSE 0
            /\ wakeIn'[u] = IF u \in Asleep' THEN l - n ELSE 0
            /\ u \in Asleep' <=> u \in Asleep /\ l > n
        BY <1>1, <1>4, <4>1 DEF Remaining
      <4> QED BY <4>1, <4>2 DEF Promise!NotBefore
    <3> QED BY <3>1, MappedNext
  <2>2. Ages' = [t \in Tasks |-> IF t \in live THEN Ages[t] + n ELSE Ages[t]]
    <3>1. ASSUME NEW u \in Tasks
          PROVE  (IF u \in live' THEN age'[u] - xPendedTicks' ELSE 0) = IF u \in live THEN Ages[u] + n ELSE Ages[u]
      <4>1. PICK a \in Int : a = age[u]
        BY <1>1
      <4>2. /\ Ages[u] = IF u \in live THEN a - xPendedTicks ELSE 0
            /\ age'[u] = IF u \in live THEN a - xPendedTicks + n ELSE a
        BY <4>1 DEF Ages
      <4> QED BY <1>1, <1>5, <4>1, <4>2
    <3> QED BY <3>1, MappedNext
  <2> QED BY <1>5, <2>1, <2>2 DEF Promise!Pass, Promise!NotBefore, Remaining, Ages
<1> QED BY <1>11, <1>12

LEMMA TickStep ==
    ASSUME DelayInv, Tick PROVE DelayInv' /\ Promise!DelaysNext
<1>1. /\ xPendedTicks = 0 /\ xPendedTicks' = 0 /\ caller' = NOBODY /\ UNCHANGED pxPreviousWakeTime
      /\ age' = [t \in Tasks |-> IF t \in live THEN age[t] + 1 ELSE age[t]]
      /\ wakeIn' = [t \in Tasks |-> IF t \in Asleep' THEN wakeIn[t] - 1 ELSE 0]
      /\ \A t \in live : age[t] < TICK_MODULUS - 1
  BY DEF Tick, TimePasses, StillAsleep, CallsInTime, DelayInv, HistoryTyped
<1>2. /\ age \in [Tasks -> Int] /\ wakeIn \in [Tasks -> Int] /\ Left \in [Tasks -> Int]
      /\ live \subseteq Tasks /\ xTickCount \in Int
      /\ \A t \in Tasks : Left[t] = wakeIn[t] + xPendedTicks
  BY InvFacts
<1>3. PICK s, r : s = Kernel /\ r = Left
  OBVIOUS
<1>4. PICK k : k = Incremented(s) /\ SetKernel(k)
  BY <1>3 DEF Tick
<1>5. /\ Timed(k, r, 1) /\ AllAhead(k)
      /\ Sleeping(k) = {t \in Asleep : r[t] > 1} /\ Congruent(k.tick, xTickCount + 1)
  <2>1. Timed(s, r, 0) /\ AllAhead(s) /\ r \in [Tasks -> Int] /\ Sleeping(s) = Asleep /\ s.tick = xTickCount
    BY <1>3, InvFacts, KernelFacts
  <2>2. /\ Timed(k, r, 0 + 1) /\ AllAhead(k)
        /\ Sleeping(k) = {t \in Sleeping(s) : r[t] > 0 + 1} /\ Congruent(k.tick, s.tick + 1)
    BY <1>4, <2>1, IncrementedFacts
  <2>3. 0 + 1 = 1
    OBVIOUS
  <2> QED BY <2>1, <2>2, <2>3
<1>6. age' = [t \in Tasks |-> IF t \in live THEN age[t] - xPendedTicks + 1 ELSE age[t]]
  <2>1. \A t \in Tasks : age[t] - xPendedTicks + 1 = age[t] + 1
    BY <1>1, <1>2
  <2> QED BY <1>1, <2>1
<1>7. wakeIn' = [t \in Tasks |-> IF t \in Asleep' THEN Left[t] - 1 ELSE 0]
  <2>1. \A t \in Tasks : Left[t] - 1 = wakeIn[t] - 1
    BY <1>1, <1>2
  <2> QED BY <1>1, <2>1
<1>8. ASSUME NEW t \in live PROVE age'[t] < TICK_MODULUS
  <2>1. age[t] \in Int /\ age[t] < TICK_MODULUS - 1 /\ age'[t] = age[t] + 1
    BY <1>1, <1>2
  <2> QED BY <2>1, ModulusAssumption
<1>9. DelayInv' /\ Promise!Pass(1)
  <2>1. /\ Timed(k, Left, 1) /\ Sleeping(k) = {t \in Asleep : Left[t] > 1} /\ 1 \in Nat
    BY <1>3, <1>5
  <2> QED BY <1>1, <1>4, <1>5, <1>6, <1>7, <1>8, <2>1, PassEffect
<1>10. 1 \in 1 .. MAX_PENDED + 1
  BY PendedAssumption
<1> QED BY <1>9, <1>10 DEF Promise!DelaysNext

LEMMA ResumeAllStep ==
    ASSUME DelayInv, ResumeAll
    PROVE  DelayInv' /\ (Promise!DelaysNext \/ UNCHANGED <<live, Remaining, Ages>>)
<1>1. /\ xPendedTicks' = 0 /\ caller' = NOBODY /\ UNCHANGED pxPreviousWakeTime /\ age' = age
      /\ wakeIn' = [t \in Tasks |-> IF t \in Asleep' THEN wakeIn[t] - 0 ELSE 0]
  BY DEF ResumeAll, StillAsleep
<1>2. /\ age \in [Tasks -> Int] /\ wakeIn \in [Tasks -> Int] /\ Left \in [Tasks -> Int]
      /\ live \subseteq Tasks /\ Asleep \subseteq live /\ xTickCount \in Int
      /\ xPendedTicks \in Nat /\ xPendedTicks <= MAX_PENDED
      /\ \A t \in Tasks : Left[t] = wakeIn[t] + xPendedTicks
  BY InvFacts
<1>3. PICK n \in Nat : n = xPendedTicks
  BY <1>2
<1>4. PICK s, r : s = Kernel /\ r = Left
  OBVIOUS
<1>5. PICK k : k = Replayed(s, n) /\ SetKernel(k)
  BY <1>3, <1>4 DEF ResumeAll
<1>6. /\ Timed(k, r, n) /\ AllAhead(k)
      /\ Sleeping(k) = {t \in Asleep : r[t] > n} /\ Congruent(k.tick, xTickCount + n)
  <2>1. Timed(s, r, 0) /\ AllAhead(s) /\ r \in [Tasks -> Int] /\ Sleeping(s) = Asleep /\ s.tick = xTickCount
    BY <1>4, InvFacts, KernelFacts
  <2>2. /\ Timed(k, r, n) /\ AllAhead(k)
        /\ Sleeping(k) = {t \in Sleeping(s) : r[t] > n} /\ Congruent(k.tick, s.tick + n)
    BY <1>5, <2>1, ReplayedFacts
  <2> QED BY <2>1, <2>2
<1>7. age' = [t \in Tasks |-> IF t \in live THEN age[t] - xPendedTicks + n ELSE age[t]]
  <2>1. \A t \in Tasks : age[t] - xPendedTicks + n = age[t]
    BY <1>2, <1>3
  <2> QED BY <1>1, <1>2, <2>1
<1>8. wakeIn' = [t \in Tasks |-> IF t \in Asleep' THEN Left[t] - n ELSE 0]
  <2>1. \A t \in Tasks : Left[t] - n = wakeIn[t] - 0
    BY <1>2, <1>3
  <2> QED BY <1>1, <2>1
<1>9. \A t \in live : age'[t] < TICK_MODULUS
  BY <1>1 DEF DelayInv, Aged
<1>10. DelayInv' /\ Promise!Pass(n)
  <2>1. /\ Timed(k, Left, n) /\ Sleeping(k) = {t \in Asleep : Left[t] > n}
    BY <1>4, <1>6
  <2> QED BY <1>1, <1>5, <1>6, <1>7, <1>8, <1>9, <2>1, PassEffect
<1>11. CASE n > 0
  <2>1. n \in 1 .. MAX_PENDED + 1
    BY <1>2, <1>3, <1>11, PendedAssumption
  <2> QED BY <1>10, <2>1 DEF Promise!DelaysNext
<1>12. CASE n = 0
  <2>1. /\ Remaining' = [t \in Tasks |-> Promise!NotBefore(Remaining[t] - 0)]
        /\ Ages' = [t \in Tasks |-> IF t \in live THEN Ages[t] + 0 ELSE Ages[t]]
        /\ live' = live
    BY <1>10, <1>12 DEF Promise!Pass, Promise!NotBefore, Remaining, Ages
  <2>2. ASSUME NEW t \in Tasks PROVE Promise!NotBefore(Remaining[t] - 0) = Remaining[t]
    <3>1. Remaining[t] \in Int /\ Remaining[t] >= 0
      <4>1. t \in Asleep => Left[t] > 0
        <5>1. Timed(s, r, 0) /\ AllAhead(s) /\ r \in [Tasks -> Int] /\ Sleeping(s) = Asleep
          BY <1>4, InvFacts, KernelFacts
        <5> QED BY <1>4, <5>1, LeftPositive
      <4>2. Remaining[t] = IF t \in Asleep THEN Left[t] ELSE 0
        BY <1>2 DEF Remaining
      <4> QED BY <1>2, <4>1, <4>2
    <3> QED BY <3>1 DEF Promise!NotBefore
  <2>3. ASSUME NEW t \in Tasks PROVE (IF t \in live THEN Ages[t] + 0 ELSE Ages[t]) = Ages[t]
    <3>1. Ages[t] \in Int
      BY <1>2 DEF Ages
    <3> QED BY <3>1
  <2>4. Remaining = [t \in Tasks |-> Remaining[t]] /\ Ages = [t \in Tasks |-> Ages[t]]
    BY DEF Remaining, Ages
  <2> QED BY <1>10, <2>1, <2>2, <2>3, <2>4
<1> QED BY <1>10, <1>11, <1>12

LEMMA TickWhileSuspendedStep ==
    ASSUME DelayInv, TickWhileSuspended PROVE DelayInv' /\ UNCHANGED <<live, Remaining, Ages>>
<1>1. /\ caller # NOBODY /\ xPendedTicks < MAX_PENDED /\ xPendedTicks' = xPendedTicks + 1
      /\ UNCHANGED <<xTickCount, lists, caller, pxPreviousWakeTime>>
      /\ age' = [t \in Tasks |-> IF t \in live THEN age[t] + 1 ELSE age[t]]
      /\ wakeIn' = [t \in Tasks |-> IF t \in Asleep' THEN wakeIn[t] - 1 ELSE 0]
      /\ \A t \in live : age[t] < TICK_MODULUS - 1
  BY DEF TickWhileSuspended, TimePasses, StillAsleep, CallsInTime
<1>2. /\ age \in [Tasks -> Int] /\ wakeIn \in [Tasks -> Int] /\ Left \in [Tasks -> Int]
      /\ live \subseteq Tasks /\ Asleep \subseteq live /\ xTickCount \in Int
      /\ xPendedTicks \in Nat /\ xPendedTicks <= MAX_PENDED
      /\ \A t \in Tasks : Left[t] = wakeIn[t] + xPendedTicks
  BY InvFacts
<1>3. live' = live /\ Asleep' = Asleep /\ Kernel' = Kernel
  BY <1>1 DEF live, Asleep, Kernel, lists
<1>4. PICK P \in Nat : P = xPendedTicks /\ xPendedTicks' = P + 1
  BY <1>1, <1>2
<1>5. wakeIn' \in [Tasks -> Int] /\ age' \in [Tasks -> Int]
  <2>1. \A t \in Tasks : (IF t \in Asleep' THEN wakeIn[t] - 1 ELSE 0) \in Int
    BY <1>2
  <2>2. \A t \in Tasks : (IF t \in live THEN age[t] + 1 ELSE age[t]) \in Int
    BY <1>2
  <2> QED BY <1>1, <2>1, <2>2
<1>6. KernelTimed'
  <2>1. PICK k : k = Kernel
    OBVIOUS
  <2>2. PICK r \in [Tasks -> Int] : r = Left /\ Timed(k, r, 0) /\ AllAhead(k)
    BY <2>1, InvFacts
  <2>3. PICK q \in [Tasks -> Int] : q = Left' /\ \A u \in Tasks : q[u] = wakeIn'[u] + (P + 1)
    <3>1. Left' = [u \in Tasks |-> wakeIn'[u] + (P + 1)]
      BY <1>4 DEF Left
    <3>2. \A u \in Tasks : wakeIn'[u] + (P + 1) \in Int
      BY <1>5
    <3> QED BY <3>1, <3>2
  <2>4. ASSUME NEW u \in Sleeping(k) PROVE q[u] - 0 = r[u] - 0
    <3>1. u \in Asleep /\ u \in Tasks
      BY <1>2, <2>1, KernelFacts
    <3>2. PICK l \in Int : l = wakeIn[u] /\ wakeIn'[u] = l - 1 /\ r[u] = l + P
      BY <1>1, <1>2, <1>3, <1>4, <2>2, <3>1
    <3>3. q[u] = (l - 1) + (P + 1)
      BY <2>3, <3>1, <3>2
    <3> QED BY <3>2, <3>3
  <2>5. Timed(k, q, 0)
    BY <2>2, <2>4, TimedSame
  <2> QED BY <1>3, <2>1, <2>2, <2>3, <2>5, KernelTimedNext
<1>7. HistoryTyped'
  <2>1. P + 1 \in 0 .. MAX_PENDED
    BY <1>1, <1>2, <1>4, PendedAssumption
  <2> QED BY <1>1, <1>3, <1>4, <1>5, <2>1 DEF HistoryTyped, DelayInv
<1>8. ASSUME NEW t \in live PROVE Aged(t)'
  <2>1. t \in Tasks /\ Aged(t)
    BY <1>2 DEF DelayInv
  <2>2. PICK a \in Int : a = age[t] /\ age'[t] = a + 1 /\ a < TICK_MODULUS - 1
    BY <1>1, <1>2, <2>1
  <2>3. PICK l \in Int : l = wakeIn[t] /\ (t \in Asleep => wakeIn'[t] = l - 1)
    BY <1>1, <1>2, <1>3, <2>1
  <2>4. a + 1 < TICK_MODULUS
    BY <2>2, ModulusAssumption
  <2>5. Congruent(pxPreviousWakeTime[t], xTickCount + xPendedTicks - age[t])'
    <3>1. Congruent(pxPreviousWakeTime[t], xTickCount + P - a)
      BY <1>4, <2>1, <2>2 DEF Aged
    <3>2. xTickCount + P - a = xTickCount + (P + 1) - (a + 1)
      BY <1>2
    <3>3. Congruent(pxPreviousWakeTime[t], xTickCount + (P + 1) - (a + 1))
      BY <3>1, <3>2
    <3> QED BY <1>1, <1>4, <2>2, <3>3 DEF Congruent
  <2>6. IF t \in Asleep' THEN age'[t] + wakeIn'[t] >= 0 ELSE age'[t] >= P + 1
    <3>1. IF t \in Asleep THEN a + l >= 0 ELSE a >= P
      BY <1>4, <2>1, <2>2, <2>3 DEF Aged
    <3>2. CASE t \in Asleep
      <4>1. age'[t] + wakeIn'[t] = (a + 1) + (l - 1) /\ a + l >= 0 /\ t \in Asleep'
        BY <1>3, <2>2, <2>3, <3>1, <3>2
      <4> QED BY <4>1
    <3>3. CASE t \notin Asleep
      BY <1>3, <2>2, <3>1, <3>3
    <3> QED BY <3>2, <3>3
  <2> QED BY <1>4, <2>2, <2>4, <2>5, <2>6 DEF Aged
<1>9. DelayInv'
  <2>1. \A t \in Tasks : t \notin live' => age'[t] = 0
    BY <1>1, <1>3 DEF DelayInv
  <2> QED BY <1>2, <1>3, <1>6, <1>7, <1>8, <2>1 DEF DelayInv
<1>10. Remaining' = Remaining
  <2>1. ASSUME NEW u \in Tasks
        PROVE  (IF u \in Asleep' THEN wakeIn'[u] + xPendedTicks' ELSE 0)
                 = IF u \in Asleep THEN wakeIn[u] + xPendedTicks ELSE 0
    <3>1. CASE u \in Asleep
      <4>1. PICK l \in Int : l = wakeIn[u] /\ wakeIn'[u] = l - 1 /\ u \in Asleep'
        BY <1>1, <1>2, <1>3, <3>1
      <4>2. (l - 1) + (P + 1) = l + P
        OBVIOUS
      <4> QED BY <1>4, <3>1, <4>1, <4>2
    <3> QED BY <1>3, <3>1
  <2> QED BY <2>1, MappedNext DEF Remaining
<1>11. Ages' = Ages
  <2>1. ASSUME NEW u \in Tasks
        PROVE  (IF u \in live' THEN age'[u] - xPendedTicks' ELSE 0)
                 = IF u \in live THEN age[u] - xPendedTicks ELSE 0
    <3>1. CASE u \in live
      <4>1. PICK a \in Int : a = age[u] /\ age'[u] = a + 1 /\ u \in live'
        BY <1>1, <1>2, <1>3, <3>1
      <4>2. (a + 1) - (P + 1) = a - P
        OBVIOUS
      <4> QED BY <1>4, <3>1, <4>1, <4>2
    <3> QED BY <1>3, <3>1
  <2> QED BY <2>1, MappedNext DEF Ages
<1> QED BY <1>3, <1>9, <1>10, <1>11

LEMMA DeleteStep ==
    ASSUME DelayInv, NEW t \in Tasks, Delete(t) PROVE DelayInv' /\ Promise!DelaysNext
<1>1. /\ caller = NOBODY /\ xPendedTicks = 0 /\ UNCHANGED <<xTickCount, xPendedTicks, caller>>
      /\ pxPreviousWakeTime \in [Tasks -> Times \cup {UNSET, GONE}]
      /\ pxPreviousWakeTime' = [pxPreviousWakeTime EXCEPT ![t] = GONE]
      /\ age' = [age EXCEPT ![t] = 0] /\ wakeIn' = [wakeIn EXCEPT ![t] = 0]
  BY DEF Delete, DelayInv, HistoryTyped
<1>2. /\ age \in [Tasks -> Int] /\ wakeIn \in [Tasks -> Int]
      /\ live \subseteq Tasks /\ Asleep \subseteq live
  BY InvFacts
<1>3. live' = live \ {t}
  <2>1. GONE \notin Times
    BY ModulusAssumption DEF GONE, Times
  <2> QED BY <1>1, <2>1 DEF live
<1>4. PICK k : k = Kernel
  OBVIOUS
<1>5. PICK r \in [Tasks -> Int] : r = Left /\ Timed(k, r, 0) /\ AllAhead(k)
  BY <1>4, InvFacts
<1>6. /\ k.delayed = pxDelayedTaskList /\ k.overflow = pxOverflowDelayedTaskList
      /\ k.next = xNextTaskUnblockTime /\ Sleeping(k) = Asleep
      /\ k = [tick |-> xTickCount, delayed |-> pxDelayedTaskList,
              overflow |-> pxOverflowDelayedTaskList, next |-> xNextTaskUnblockTime]
  BY <1>4, KernelFacts DEF Kernel
<1>7. xNextTaskUnblockTime' = NextUnblockTime(Without(pxDelayedTaskList, t))
  <2>1. CASE xNextTaskUnblockTime' = NextUnblockTime(pxDelayedTaskList')
    BY <2>1 DEF Delete, NextUnblockTime
  <2>2. CASE t \notin Asleep /\ UNCHANGED xNextTaskUnblockTime
    <3>1. Without(pxDelayedTaskList, t) = pxDelayedTaskList
      BY <2>2 DEF Without, Asleep
    <3>2. k.next = NextUnblockTime(k.delayed)
      BY <1>5 DEF Timed
    <3> QED BY <1>6, <2>2, <3>1, <3>2
  <2> QED BY <2>1, <2>2 DEF Delete
<1>8. PICK q : q = [k EXCEPT !.delayed = Without(k.delayed, t), !.overflow = Without(k.overflow, t),
                             !.next = NextUnblockTime(Without(k.delayed, t))]
  OBVIOUS
<1>9. Timed(q, r, 0) /\ AllAhead(q) /\ Sleeping(q) = Asleep \ {t}
  BY <1>5, <1>6, <1>8, TimedRemove
<1>10. Kernel' = q
  <2>1. /\ pxDelayedTaskList' = Without(pxDelayedTaskList, t)
        /\ pxOverflowDelayedTaskList' = Without(pxOverflowDelayedTaskList, t)
    BY DEF Delete
  <2>2. PICK d, o, n : /\ d = Without(k.delayed, t) /\ o = Without(k.overflow, t)
                       /\ n = NextUnblockTime(Without(k.delayed, t))
    OBVIOUS
  <2>3. q = [k EXCEPT !.delayed = d, !.overflow = o, !.next = n]
    BY <1>8, <2>2
  <2>4. q = [tick |-> xTickCount, delayed |-> d, overflow |-> o, next |-> n]
    <3>1. k = [tick |-> xTickCount, delayed |-> pxDelayedTaskList,
               overflow |-> pxOverflowDelayedTaskList, next |-> xNextTaskUnblockTime]
      BY <1>6
    <3>2. k \in Kernels /\ k.tick = xTickCount
      BY <1>5, <3>1 DEF Timed
    <3> QED BY ONLY <2>3, <3>2 DEF Kernels
  <2>5. pxDelayedTaskList' = d /\ pxOverflowDelayedTaskList' = o /\ xNextTaskUnblockTime' = n
    BY <1>6, <1>7, <2>1, <2>2
  <2> QED BY <1>1, <2>4, <2>5 DEF Kernel
<1>11. Asleep' = Asleep \ {t}
  BY <1>9, <1>10, KernelNext
<1>12. wakeIn' \in [Tasks -> Int] /\ age' \in [Tasks -> Int]
  <2>1. 0 \in Int
    OBVIOUS
  <2> QED BY <1>1, <1>2, <2>1
<1>13. KernelTimed'
  <2>1. PICK p \in [Tasks -> Int] : p = Left' /\ \A u \in Tasks : p[u] = wakeIn'[u] + 0
    <3>1. Left' = [u \in Tasks |-> wakeIn'[u] + 0]
      BY <1>1 DEF Left
    <3>2. \A u \in Tasks : wakeIn'[u] + 0 \in Int
      BY <1>12
    <3> QED BY <3>1, <3>2
  <2>2. \A u \in Sleeping(q) : p[u] - 0 = r[u] - 0
    <3>1. \A u \in Sleeping(q) : u \in Tasks /\ u # t
      BY <1>2, <1>9
    <3>2. \A u \in Tasks : r[u] = wakeIn[u] + 0
      BY <1>1, <1>5, InvFacts
    <3>3. \A u \in Tasks : u # t => wakeIn'[u] = wakeIn[u]
      BY <1>1, <1>2
    <3> QED BY <2>1, <3>1, <3>2, <3>3
  <2>3. Timed(q, p, 0)
    BY <1>9, <2>2, TimedSame
  <2> QED BY <1>9, <1>10, <2>1, <2>3, KernelTimedNext
<1>14. HistoryTyped'
  <2>1. pxPreviousWakeTime' \in [Tasks -> Times \cup {UNSET, GONE}]
    BY <1>1
  <2> QED BY <1>1, <1>12, <2>1 DEF HistoryTyped, DelayInv
<1>15. ASSUME NEW u \in live' PROVE Aged(u)'
  <2>1. u \in live /\ Aged(u) /\ u \in Tasks /\ u # t
    BY <1>2, <1>3, <1>15 DEF DelayInv
  <2>2. /\ age'[u] = age[u] /\ wakeIn'[u] = wakeIn[u]
        /\ pxPreviousWakeTime'[u] = pxPreviousWakeTime[u] /\ (u \in Asleep' <=> u \in Asleep)
    BY <1>1, <1>2, <1>11, <2>1
  <2> QED BY <1>1, <2>1, <2>2, AgedSame
<1>16. DelayInv'
  <2>1. \A u \in Tasks : u \notin live' => age'[u] = 0
    BY <1>1, <1>2, <1>3 DEF DelayInv
  <2> QED BY <1>2, <1>3, <1>11, <1>13, <1>14, <1>15, <2>1 DEF DelayInv
<1>17. Promise!Cancel(t)
  <2>1. Remaining' = [Remaining EXCEPT ![t] = 0]
    <3>1. ASSUME NEW u \in Tasks
          PROVE  (IF u \in Asleep' THEN wakeIn'[u] + xPendedTicks' ELSE 0) = [Remaining EXCEPT ![t] = 0][u]
      BY <1>1, <1>2, <1>11 DEF Remaining
    <3> QED BY <3>1, MappedNext DEF Remaining
  <2>2. Ages' = [Ages EXCEPT ![t] = 0]
    <3>1. ASSUME NEW u \in Tasks
          PROVE  (IF u \in live' THEN age'[u] - xPendedTicks' ELSE 0) = [Ages EXCEPT ![t] = 0][u]
      BY <1>1, <1>2, <1>3 DEF Ages
    <3> QED BY <3>1, MappedNext DEF Ages
  <2> QED BY <1>3, <2>1, <2>2 DEF Promise!Cancel, Remaining, Ages
<1> QED BY <1>16, <1>17 DEF Promise!DelaysNext

----------------------------------------------------------------------------
(* Every step keeps the invariant and is a step of Delays, or none.        *)

LEMMA DelayStep ==
    DelayInv /\ [Next]_vars
      => DelayInv' /\ (Promise!DelaysNext \/ UNCHANGED <<live, Remaining, Ages>>)
<1> SUFFICES ASSUME DelayInv, [Next]_vars
             PROVE  DelayInv' /\ (Promise!DelaysNext \/ UNCHANGED <<live, Remaining, Ages>>)
  OBVIOUS
<1>1. CASE TickWhileSuspended
  BY <1>1, TickWhileSuspendedStep
<1>2. CASE ResumeAll
  BY <1>2, ResumeAllStep
<1>3. CASE Tick
  BY <1>3, TickStep
<1>4. ASSUME NEW t \in Tasks, FirstDelay(t) PROVE DelayInv' /\ Promise!DelaysNext
  BY <1>4, FirstDelayStep
<1>5. ASSUME NEW t \in Tasks, DelayUntil(t) PROVE DelayInv' /\ Promise!DelaysNext
  BY <1>5, DelayUntilStep
<1>6. ASSUME NEW t \in Tasks, Delete(t) PROVE DelayInv' /\ Promise!DelaysNext
  BY <1>6, DeleteStep
<1>7. CASE UNCHANGED vars
  <2>1. UNCHANGED <<xTickCount, pxDelayedTaskList, pxOverflowDelayedTaskList, xNextTaskUnblockTime,
                    xPendedTicks, caller, pxPreviousWakeTime, age, wakeIn>>
    BY <1>7 DEF vars, lists
  <2>2. UNCHANGED <<live, Asleep, Kernel, Left, Remaining, Ages>>
    BY <2>1 DEF live, Asleep, Kernel, Left, Remaining, Ages
  <2>3. KernelTimed'
    BY <2>2 DEF DelayInv, KernelTimed
  <2>4. HistoryTyped'
    BY <2>1, <2>2 DEF DelayInv, HistoryTyped
  <2>5. \A t \in live' : Aged(t)'
    BY <2>1, <2>2, AgedSame DEF DelayInv
  <2> QED BY <2>1, <2>2, <2>3, <2>4, <2>5 DEF DelayInv
<1> QED BY <1>1, <1>2, <1>3, <1>4, <1>5, <1>6, <1>7 DEF Next, Proceed

(* Whenever the kernel is between two calls, each sleeping task's item     *)
(* tells the very tick it is to be woken at, and LastRequestTime of a task *)
(* is the last wake time it asked for, modulo the width of the tick count. *)
THEOREM DelayInvariant == Spec => []DelayInv
<1>1. DelayInv /\ [Next]_vars => DelayInv'
  BY DelayStep
<1> QED BY <1>1, DelayInvInit, PTL DEF Spec


(* vListInsert, taskSWITCH_DELAYED_LISTS, uxListRemove: the lists stay     *)
(* sorted and apart, the current one ahead of the tick count and the other *)
(* one behind it, and the next wake-up is the head's, for every number of  *)
(* tasks, every width of the tick count and every burst of pended ticks.   *)
THEOREM ListsStayOrdered == Spec => []ListsOK
<1>1. DelayInv => ListsOK
  <2> SUFFICES ASSUME DelayInv PROVE ListsOK
    OBVIOUS
  <2>1. /\ Timed(Kernel, Left, 0) /\ AllAhead(Kernel) /\ xTickCount \in Times /\ Left \in [Tasks -> Int]
    BY InvFacts
  <2>2. /\ pxDelayedTaskList \in Seq(Items) /\ pxOverflowDelayedTaskList \in Seq(Items)
        /\ InOrder(pxDelayedTaskList) /\ InOrder(pxOverflowDelayedTaskList)
        /\ Owners(pxDelayedTaskList) \cap Owners(pxOverflowDelayedTaskList) = {}
        /\ xNextTaskUnblockTime = NextUnblockTime(pxDelayedTaskList)
    BY <2>1, KernelFacts DEF Timed, Kernels
  <2>3. /\ \A item : Occurs(item, pxDelayedTaskList) => item.xItemValue > xTickCount
        /\ \A item : Occurs(item, pxOverflowDelayedTaskList) => item.xItemValue < xTickCount
    BY <2>1, KernelFacts DEF Timed, AllAhead
  <2>4. /\ \A item \in ToSet(pxDelayedTaskList) : Occurs(item, pxDelayedTaskList)
        /\ \A item \in ToSet(pxOverflowDelayedTaskList) : Occurs(item, pxOverflowDelayedTaskList)
    BY <2>2 DEF ToSet, Occurs
  <2>5. /\ \A item : Occurs(item, pxDelayedTaskList) => item \in Items
        /\ \A item : Occurs(item, pxOverflowDelayedTaskList) => item \in Items
    BY <2>2, InOrderOnce
  <2> QED BY <2>1, <2>2, <2>3, <2>4, <2>5 DEF ListsOK, DelayInv, HistoryTyped
<1> QED BY <1>1, DelayInvariant, PTL

(* tasks.c 269: the assertion that the current list is empty when the tick *)
(* count wraps and the lists change places never fails.                    *)
THEOREM WrapsFindEmptyList == Spec => []WrapFindsEmptyList
<1>1. DelayInv => WrapFindsEmptyList
  <2> SUFFICES ASSUME DelayInv, xTickCount = portMAX_DELAY, pxDelayedTaskList # <<>> PROVE FALSE
    BY DEF WrapFindsEmptyList
  <2>1. Timed(Kernel, Left, 0) /\ AllAhead(Kernel)
    BY InvFacts
  <2>2. /\ pxDelayedTaskList \in Seq(Items) /\ InOrder(pxDelayedTaskList)
        /\ \A item : Occurs(item, pxDelayedTaskList) => item.xItemValue > xTickCount
    BY <2>1, KernelFacts DEF Timed, Kernels, AllAhead
  <2>3. PICK item \in Items : Occurs(item, pxDelayedTaskList)
    BY <2>2, InOrderOnce
  <2>4. item.xItemValue \in Times /\ item.xItemValue > xTickCount
    BY <2>2, <2>3 DEF Items
  <2> QED BY <2>4, ModulusAssumption DEF Times, portMAX_DELAY
<1> QED BY <1>1, DelayInvariant, PTL

(* The delay calls, the tick and xTaskResumeAll implement Delays: however  *)
(* the tick count wraps and however many ticks are pended, a task is woken *)
(* by the very tick it asked for, and one that is late does not sleep.     *)
THEOREM KernelImplementsDelays == Spec => ImplementsDelays
<1>1. Init => Promise!DelaysInit
  <2> SUFFICES ASSUME Init PROVE Promise!DelaysInit
    OBVIOUS
  <2>1. UNSET \notin Times
    BY ModulusAssumption DEF UNSET, Times
  <2>2. live = {} /\ Asleep = {}
    BY <2>1 DEF Init, live, Asleep, Owners
  <2> QED BY <2>2 DEF Promise!DelaysInit
<1>2. DelayInv /\ [Next]_vars => [Promise!DelaysNext]_<<live, Remaining, Ages>>
  BY DelayStep
<1> QED BY <1>1, <1>2, DelayInvariant, PTL DEF Spec, ImplementsDelays, Promise!DelaysSpec, Remaining, Ages

=============================================================================
