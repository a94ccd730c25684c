---------------------------- MODULE KernelProofs ----------------------------
(***************************************************************************)
(* What the calls of the FreeRTOS scheduler (module SmpKernel) do to the   *)
(* lists and to the cores, for every set of tasks, affinities and          *)
(* priorities: the invariant of the kernel and, call by call, its          *)
(* preservation. The proofs of the programs on top cite these lemmas.      *)
(***************************************************************************)
EXTENDS SmpKernel, CommonProofs

----------------------------------------------------------------------------
(* The invariant of the kernel.                                            *)

(* Affinity masks name cores, and there is a highest priority. *)
MasksAndPriorities ==
    /\ \A t \in Slots : tcb[t].affinity \subseteq Cores
    /\ \E b \in Nat : \A t \in Slots : tcb[t].uxPriority \in 0 .. b

KernelTyped ==
    /\ xTickCount \in Nat
    /\ ready \in Seq(Threads)
    /\ delayed \in Seq(Threads)
    /\ suspended \in SUBSET Threads
    /\ deleted \in SUBSET Threads
    /\ current \in [Cores -> Threads \cup {IDLE}]
    /\ yield \in [Cores -> BOOLEAN]

(* No task is in two lists, or twice in one. *)
OneListEach ==
    /\ Once(ready)
    /\ Once(delayed)
    /\ \A t : Occurs(t, ready) => ~ Occurs(t, delayed) /\ t \notin suspended /\ t \notin deleted
    /\ \A t : Occurs(t, delayed) => t \notin suspended /\ t \notin deleted
    /\ \A t \in suspended : t \notin deleted

(* A task whose core has not been asked to switch, so that its kernel      *)
(* calls are not held up, is in a ready list.                              *)
CallersReady ==
    \A c \in Cores : current[c] # IDLE /\ ~ yield[c] => IsReady(current[c])

(* A task that still executes is in a ready list, unless it was deleted    *)
(* and the interrupt has not arrived.                                      *)
ExecutingListed ==
    \A c \in Cores :
        current[c] # IDLE /\ (yield[c] => c \in signalled)
            => IsReady(current[c]) \/ current[c] \in deleted

(* Only a core that was asked to switch has an interrupt under way. *)
SignalsPending == signalled \subseteq {c \in Cores : yield[c]}

KernelInv ==
    /\ KernelTyped
    /\ OneListEach
    /\ OneCoreAtATime
    /\ CallersReady
    /\ ExecutingListed
    /\ SignalsPending

(* The tasks that are in the same lists before and after a step. *)
SameLists(t) ==
    /\ Occurs(t, ready)' <=> Occurs(t, ready)
    /\ Occurs(t, delayed)' <=> Occurs(t, delayed)
    /\ t \in suspended' <=> t \in suspended
    /\ t \in deleted' <=> t \in deleted

----------------------------------------------------------------------------
LEMMA ThreadFacts ==
    /\ MAX_NUM_TASKS \in Nat
    /\ configNUMBER_OF_CORES \in Nat \ {0}
    /\ Slots = 0 .. MAX_NUM_TASKS - 1
    /\ Cores = 0 .. configNUMBER_OF_CORES - 1
    /\ MONITOR = MAX_NUM_TASKS
    /\ MONITOR \notin Slots
    /\ Threads = Slots \cup {MONITOR}
    /\ IDLE = -1
    /\ IDLE \notin Threads
  BY TaskCountAssumption, CoreCountAssumption
     DEF MAX_NUM_TASKS, Slots, Cores, MONITOR, Threads, IDLE, NULL

LEMMA MasksTyped ==
    ASSUME MasksAndPriorities
    PROVE  /\ \A t \in Threads \cup {IDLE} : uxCoreAffinityMask(t) \subseteq Cores
           /\ uxPriority(IDLE) = -1
           /\ \E b \in Nat : \A t \in Threads : uxPriority(t) \in 0 .. b
<1> USE ThreadFacts
<1>1. \A t \in Threads \cup {IDLE} : uxCoreAffinityMask(t) \subseteq Cores
  BY DEF MasksAndPriorities, uxCoreAffinityMask
<1>2. uxPriority(IDLE) = -1
  BY DEF uxPriority
<1>3. PICK b \in Nat : \A t \in Slots : tcb[t].uxPriority \in 0 .. b
  BY DEF MasksAndPriorities
<1> DEFINE m == ClampedPriority(10)
<1>4. m \in Nat
  BY PrioritiesAssumption DEF ClampedPriority
<1>5. uxPriority(MONITOR) = m
  BY DEF uxPriority
<1>6. \A t \in Slots : uxPriority(t) = tcb[t].uxPriority
  BY DEF uxPriority
<1> HIDE DEF m
<1>7. \A t \in Threads : uxPriority(t) \in 0 .. b + m
  BY <1>3, <1>4, <1>5, <1>6
<1> QED BY SMTT(20), <1>1, <1>2, <1>4, <1>7

----------------------------------------------------------------------------
(* The operators.                                                          *)

LEMMA DueByTyped ==
    ASSUME delayed \in Seq(Threads), NEW time PROVE DueBy(time) \in 0 .. Len(delayed)
<1> DEFINE T == {n \in 0 .. Len(delayed) : \A k \in 1 .. n : wake[delayed[k]] <= time}
<1>1. Len(delayed) \in Nat
  BY LenProperties
<1>2. 0 \in T
  BY <1>1
<1>3. T \in SUBSET (0 .. Len(delayed)) /\ T # {}
  BY <1>2
<1>4. DueBy(time) = Max(T)
  BY DEF DueBy
<1> HIDE DEF T
<1>5. Max(T) \in T
  BY <1>1, <1>3, MaxIsGreatest
<1> QED BY <1>3, <1>4, <1>5

(* prvYieldForTask withdraws no request. *)
LEMMA YieldForTaskTyped ==
    ASSUME NEW t, NEW pending \in [Cores -> BOOLEAN]
    PROVE  /\ YieldForTask(t, pending) \in [Cores -> BOOLEAN]
           /\ \A c \in Cores : pending[c] => YieldForTask(t, pending)[c]
<1> DEFINE w == WorstCore(Preemptable(t, pending))
           r == [pending EXCEPT ![w] = TRUE]
<1>1. YieldForTask(t, pending) = pending \/ YieldForTask(t, pending) = r
  BY DEF YieldForTask
<1> HIDE DEF w
<1>2. r \in [Cores -> BOOLEAN] /\ \A c \in Cores : pending[c] => r[c]
  OBVIOUS
<1> HIDE DEF r
<1> QED BY <1>1, <1>2

(* The requests after each of the first n tasks of the delayed list. *)
LEMMA YieldsForSteps ==
    ASSUME yield \in [Cores -> BOOLEAN], NEW n \in Nat
    PROVE  \E p \in [0 .. n -> [Cores -> BOOLEAN]] :
              /\ p[0] = yield /\ p[n] = YieldsFor(n)
              /\ \A k \in 1 .. n : p[k] = YieldForTask(delayed[k], p[k - 1])
              /\ \A k \in 0 .. n, c \in Cores : p[k][c] => p[n][c]
<1> DEFINE V == [Cores -> BOOLEAN]
           Y(k, p) == YieldForTask(delayed[k], p)
           step == [k \in 1 .. n |-> [p \in V |-> Y(k, p)]]
           R(h) == h = [k \in 0 .. n |-> IF k = 0 THEN yield ELSE Y(k, h[k - 1])]
           h == CHOOSE h : R(h)
<1>1. yield \in V
  OBVIOUS
<1>2. \A k, p : p \in V => Y(k, p) \in V /\ \A c \in Cores : p[c] => Y(k, p)[c]
  BY YieldForTaskTyped
<1>3. YieldsFor(n) = h[n]
  BY DEF YieldsFor
<1> HIDE DEF V, Y
<1>4. step \in [1 .. n -> [V -> V]]
  BY <1>2
<1>5. PICK g \in [0 .. n -> V] : g[0] = yield /\ \A k \in 1 .. n : g[k] = step[k][g[k - 1]]
  <2> HIDE DEF step
  <2> QED BY <1>1, <1>4, Iteration
<1>6. R(g)
  <2>1. ASSUME NEW k \in 0 .. n PROVE g[k] = IF k = 0 THEN yield ELSE Y(k, g[k - 1])
    <3>1. CASE k = 0
      BY <1>5, <3>1
    <3>2. CASE k # 0
      <4>1. k \in 1 .. n /\ k - 1 \in 0 .. n
        BY <3>2
      <4>2. g[k] = step[k][g[k - 1]] /\ g[k - 1] \in V
        BY <1>5, <4>1
      <4> QED BY <3>2, <4>1, <4>2
    <3> QED BY <3>1, <3>2
  <2> HIDE DEF step
  <2> QED BY <1>5, <2>1
<1>7. R(h)
  <2> HIDE DEF R
  <2> QED BY <1>6
<1> HIDE DEF h, step
<1>8. ASSUME NEW k \in 0 .. n PROVE h[k] \in V
  <2> DEFINE T == {j \in 0 .. n : h[j] \notin V}
  <2> SUFFICES ASSUME T # {} PROVE FALSE
    OBVIOUS
  <2>1. T \in SUBSET Nat
    OBVIOUS
  <2>2. PICK m \in T : \A y \in T : m <= y
    <3> HIDE DEF T
    <3> QED BY <2>1, LeastElement
  <2>3. h[0] = yield
    BY <1>7
  <2>4. m \in 1 .. n /\ m - 1 \in 0 .. n /\ ~ (m <= m - 1)
    <3>1. m \in 0 .. n /\ m # 0
      BY <1>1, <2>2, <2>3
    <3> QED BY <3>1
  <2>5. h[m - 1] \in V
    BY <2>2, <2>4
  <2>6. h[m] = Y(m, h[m - 1])
    BY <1>7, <2>4
  <2> QED BY <1>2, <2>2, <2>5, <2>6
<1>9. h \in [0 .. n -> V] /\ h[0] = yield
  <2> HIDE DEF R
  <2>1. h = [k \in 0 .. n |-> h[k]]
    BY <1>7 DEF R
  <2>2. h[0] = yield
    BY <1>7 DEF R
  <2> QED BY <1>8, <2>1, <2>2
<1>10. ASSUME NEW k \in 1 .. n PROVE h[k] = Y(k, h[k - 1]) /\ h[k - 1] \in V
  BY <1>7, <1>8
<1>11. ASSUME NEW k \in 0 .. n, NEW c \in Cores, h[k][c] PROVE h[n][c]
  <2> DEFINE T == {j \in k .. n : ~ h[j][c]}
  <2> SUFFICES ASSUME T # {} PROVE FALSE
    <3>1. n \in k .. n
      OBVIOUS
    <3> QED BY <3>1
  <2>1. T \in SUBSET Nat
    OBVIOUS
  <2>2. PICK m \in T : \A y \in T : m <= y
    <3> HIDE DEF T
    <3> QED BY <2>1, LeastElement
  <2>3. m \in 1 .. n /\ m - 1 \in k .. n /\ ~ (m <= m - 1)
    <3>1. m \in k .. n /\ m # k
      BY <1>11, <2>2
    <3> QED BY <3>1
  <2>4. h[m - 1][c]
    BY <2>2, <2>3
  <2> QED BY <1>2, <1>10, <2>2, <2>3, <2>4
<1> QED BY <1>3, <1>9, <1>10, <1>11 DEF V, Y

LEMMA YieldsForTyped ==
    ASSUME yield \in [Cores -> BOOLEAN], NEW n \in Nat
    PROVE  /\ YieldsFor(n) \in [Cores -> BOOLEAN]
           /\ \A c \in Cores : yield[c] => YieldsFor(n)[c]
<1>1. PICK p \in [0 .. n -> [Cores -> BOOLEAN]] :
         /\ p[0] = yield /\ p[n] = YieldsFor(n)
         /\ \A k \in 0 .. n, c \in Cores : p[k][c] => p[n][c]
  BY YieldsForSteps
<1>2. 0 \in 0 .. n /\ n \in 0 .. n
  OBVIOUS
<1> QED BY <1>1, <1>2

(* The outgoing task goes to the end of its list: nobody is lost. *)
LEMMA RequeuedFacts ==
    ASSUME KernelInv, NEW c \in Cores
    PROVE  /\ Requeued(c) \in Seq(Threads)
           /\ Once(Requeued(c))
           /\ \A t : Occurs(t, Requeued(c)) <=> Occurs(t, ready)
<1> DEFINE e == current[c]
           r == RemoveFirst(ready, e)
<1>1. ready \in Seq(Threads) /\ Once(ready)
  BY DEF KernelInv, KernelTyped, OneListEach
<1>2. CASE ~ IsReady(e)
  BY <1>1, <1>2 DEF Requeued
<1>3. CASE IsReady(e)
  <2>1. e \in Threads /\ Occurs(e, ready)
    BY <1>1, <1>3 DEF IsReady, Occurs
  <2>2. Requeued(c) = Append(r, e)
    BY <1>3 DEF Requeued
  <2>3. r \in Seq(Threads) /\ Once(r) /\ \A t : Occurs(t, r) <=> Occurs(t, ready) /\ t # e
    BY <1>1, RemoveFirstFacts
  <2> HIDE DEF r, e
  <2>4. /\ Append(r, e) \in Seq(Threads) /\ Once(Append(r, e))
        /\ \A t : Occurs(t, Append(r, e)) <=> Occurs(t, r) \/ t = e
    BY <2>1, <2>3, AppendOnce
  <2> QED BY <2>1, <2>2, <2>3, <2>4
<1> QED BY <1>2, <1>3

(* prvSelectHighestPriorityTask finds a ready task of the highest priority *)
(* among those the core may take, or there is none.                        *)
LEMMA SelectedIsBest ==
    ASSUME MasksAndPriorities, KernelInv, NEW c \in Cores
    PROVE  \/ /\ Selected(c) = IDLE
              /\ \A u : Occurs(u, ready) => ~ MayRunOn(u, c)
           \/ /\ Selected(c) \in Threads
              /\ Occurs(Selected(c), ready)
              /\ MayRunOn(Selected(c), c)
              /\ \A u : Occurs(u, ready) /\ MayRunOn(u, c)
                          => uxPriority(u) <= uxPriority(Selected(c))
<1> DEFINE lists == Requeued(c)
           candidates == {k \in 1 .. Len(lists) : MayRunOn(lists[k], c)}
           p(k) == uxPriority(lists[k])
           best(k) == \A j \in candidates : p(k) >= p(j) /\ (j < k => p(k) > p(j))
           K == CHOOSE k \in candidates : best(k)
<1>1. Selected(c) = IF candidates = {} THEN IDLE ELSE lists[K]
  BY DEF Selected
<1>2. lists \in Seq(Threads) /\ \A t : Occurs(t, lists) <=> Occurs(t, ready)
  BY RequeuedFacts
<1>3. Len(lists) \in Nat /\ \A k \in 1 .. Len(lists) : lists[k] \in Threads
  BY <1>2, LenProperties
<1> HIDE DEF lists
<1>4. CASE candidates = {}
  BY <1>1, <1>2, <1>4 DEF Occurs
<1>5. CASE candidates # {}
  <2>1. PICK b \in Nat : \A t \in Threads : uxPriority(t) \in 0 .. b
    BY MasksTyped
  <2>2. candidates \in SUBSET Nat /\ \A k \in candidates : p(k) \in 0 .. b /\ lists[k] \in Threads
    BY <1>3, <2>1
  <2> HIDE DEF candidates, p
  <2> DEFINE P == {p(k) : k \in candidates}
  <2>3. P \in SUBSET (0 .. b) /\ P # {}
    BY <1>5, <2>2
  <2>4. PICK top \in P : \A q \in P : q <= top
    <3> HIDE DEF P
    <3> QED BY <2>3, MaxIsGreatest
  <2> DEFINE F == {k \in candidates : p(k) = top}
  <2>5. F \in SUBSET Nat /\ F # {}
    BY <2>2, <2>4
  <2>6. PICK k \in F : \A j \in F : k <= j
    <3> HIDE DEF F
    <3> QED BY <2>5, LeastElement
  <2>7. k \in candidates /\ best(k)
    <3>1. ASSUME NEW j \in candidates PROVE p(k) >= p(j) /\ (j < k => p(k) > p(j))
      <4>1. p(j) \in P /\ p(j) <= top /\ p(k) = top
        BY <2>4, <2>6
      <4>2. p(j) \in Int /\ top \in Int /\ j \in Nat /\ k \in Nat
        BY <2>2, <2>3, <2>4, <2>6
      <4>3. CASE p(j) = top
        <5>1. k <= j
          BY <2>6, <4>3
        <5> QED BY <4>1, <4>2, <4>3, <5>1
      <4> QED BY <4>1, <4>2, <4>3
    <3> QED BY <2>6, <3>1
  <2>8. K \in candidates /\ best(K)
    <3> HIDE DEF best
    <3> QED BY <2>7
  <2>9. Selected(c) = lists[K]
    BY <1>1, <1>5
  <2> HIDE DEF K
  <2>10. K \in 1 .. Len(lists) /\ MayRunOn(lists[K], c)
    BY <2>8 DEF candidates
  <2>11. ASSUME NEW u, Occurs(u, ready), MayRunOn(u, c)
         PROVE  uxPriority(u) <= uxPriority(lists[K])
    <3>1. PICK j \in 1 .. Len(lists) : lists[j] = u
      BY <1>2, <2>11 DEF Occurs
    <3>2. j \in candidates
      BY <2>11, <3>1 DEF candidates
    <3>3. p(K) >= p(j) /\ p(K) \in Int /\ p(j) \in Int
      BY <2>2, <2>8, <3>2
    <3> QED BY <3>1, <3>3 DEF p
  <2>12. Occurs(lists[K], ready) /\ lists[K] \in Threads
    BY <1>2, <1>3, <2>10 DEF Occurs
  <2> QED BY <2>9, <2>10, <2>11, <2>12
<1> QED BY <1>4, <1>5

----------------------------------------------------------------------------
(* The calls. A core that goes on executing still finds its task ready.    *)

(* No request is withdrawn, and those newly asked may be signalled. *)
SignalsGrow ==
    /\ \A c \in Cores : yield[c] => yield'[c]
    /\ signalled' \subseteq {c \in Cores : yield'[c]}
    /\ \A c \in signalled' : c \in signalled \/ ~ yield[c]

LEMMA SignalsKept ==
    ASSUME SignalsPending, \A c \in Cores : yield[c] => yield'[c],
           NEW c, signalled' \in {signalled, signalled \cup SignalledBy(c)}
    PROVE  SignalsGrow
  BY DEF SignalsGrow, SignalsPending, SignalledBy

(* SameCores: no switch happens, so that only the lists and the requests   *)
(* matter to the properties of the cores.                                  *)
LEMMA SameCores ==
    ASSUME KernelInv, UNCHANGED <<tcb, current>>, KernelTyped', OneListEach', SignalsGrow,
           deleted \subseteq deleted',
           \A c \in Cores :
              current[c] # IDLE /\ Occurs(current[c], ready) /\ (yield'[c] => c \in signalled')
              => Occurs(current[c], ready') \/ (current[c] \in deleted' /\ yield'[c])
    PROVE  KernelInv'
<1>1. OneCoreAtATime'
  BY DEF KernelInv, OneCoreAtATime, RunsOn, uxCoreAffinityMask
<1>2. CallersReady'
  BY DEF KernelInv, CallersReady, SignalsGrow, IsReady, Occurs
<1>3. ExecutingListed'
  <2> SUFFICES ASSUME NEW c \in Cores, current[c] # IDLE, yield'[c] => c \in signalled'
               PROVE  Occurs(current[c], ready)' \/ current[c] \in deleted'
    BY DEF ExecutingListed, IsReady, Occurs
  <2>1. yield[c] => c \in signalled
    BY DEF SignalsGrow
  <2>2. Occurs(current[c], ready) \/ current[c] \in deleted
    BY <2>1 DEF KernelInv, ExecutingListed, IsReady, Occurs
  <2> QED BY <2>2
<1> QED BY <1>1, <1>2, <1>3 DEF KernelInv, SignalsGrow, SignalsPending

(* vTaskDelay and xTaskDelayUntil move the caller from ready to delayed. *)
LEMMA DelayEffect ==
    ASSUME KernelInv, UNCHANGED tcb, NEW c \in Cores, current[c] # IDLE, ~ yield[c],
           NEW time, DelayUntilTick(c, time)
    PROVE  /\ KernelInv'
           /\ \A t : t # current[c] => SameLists(t)
           /\ Occurs(current[c], ready) /\ Occurs(current[c], delayed)'
           /\ UNCHANGED <<xTickCount, suspended, deleted, current>>
           /\ yield' = [yield EXCEPT ![c] = TRUE]
<1> DEFINE e == current[c]
           n == DueBy(time) + 1
<1>1. /\ ready \in Seq(Threads) /\ delayed \in Seq(Threads) /\ Once(ready) /\ Once(delayed)
      /\ current \in [Cores -> Threads \cup {IDLE}] /\ yield \in [Cores -> BOOLEAN]
  BY DEF KernelInv, KernelTyped, OneListEach
<1>2. Occurs(e, ready) /\ e \in Threads
  BY <1>1 DEF KernelInv, CallersReady, IsReady, Occurs
<1>3. ~ Occurs(e, delayed) /\ e \notin suspended /\ e \notin deleted
  BY <1>2 DEF KernelInv, OneListEach
<1>4. n \in 1 .. Len(delayed) + 1
  <2>1. DueBy(time) \in 0 .. Len(delayed) /\ Len(delayed) \in Nat
    BY <1>1, DueByTyped, LenProperties
  <2> QED BY <2>1
<1>5. /\ ready' = RemoveFirst(ready, e)
      /\ delayed' = InsertAt(delayed, n, e)
      /\ yield' = [yield EXCEPT ![c] = TRUE]
      /\ UNCHANGED <<xTickCount, suspended, deleted, current>>
  BY DEF DelayUntilTick
<1> HIDE DEF e, n
<1>6. /\ ready' \in Seq(Threads) /\ Once(ready')
      /\ \A t : Occurs(t, ready') <=> Occurs(t, ready) /\ t # e
  BY <1>1, <1>5, RemoveFirstFacts
<1>7. /\ delayed' \in Seq(Threads) /\ Once(delayed')
      /\ \A t : Occurs(t, delayed') <=> Occurs(t, delayed) \/ t = e
  <2>1. InsertAt(delayed, n, e) \in Seq(Threads)
    BY <1>1, <1>2, <1>4, InsertAtFacts
  <2>2. /\ Once(InsertAt(delayed, n, e))
        /\ \A t : Occurs(t, InsertAt(delayed, n, e)) <=> Occurs(t, delayed) \/ t = e
    BY <1>1, <1>2, <1>3, <1>4, InsertOnce
  <2> QED BY <1>5, <2>1, <2>2
<1>8. yield' \in [Cores -> BOOLEAN] /\ (\A d \in Cores : yield[d] => yield'[d]) /\ yield'[c]
  BY <1>1, <1>5
<1>9. KernelTyped'
  BY <1>5, <1>6, <1>7, <1>8 DEF KernelInv, KernelTyped
<1>10. OneListEach'
  BY <1>3, <1>5, <1>6, <1>7 DEF KernelInv, OneListEach
<1>11a. SignalsGrow
  BY <1>8, SignalsKept DEF KernelInv, DelayUntilTick
<1>11. ASSUME NEW d \in Cores, current[d] # IDLE, yield'[d] => d \in signalled',
              Occurs(current[d], ready)
       PROVE  Occurs(current[d], ready')
  <2>1. d # c
    BY <1>8, <1>11 DEF DelayUntilTick, KernelInv, SignalsPending
  <2>2. current[d] # e
    BY <1>11, <2>1 DEF e, KernelInv, OneCoreAtATime, RunsOn
  <2> QED BY <1>6, <1>11, <2>2
<1>12. KernelInv'
  BY <1>5, <1>8, <1>9, <1>10, <1>11, <1>11a, SameCores
<1>13. \A t : t # e => SameLists(t)
  BY <1>5, <1>6, <1>7 DEF SameLists
<1> QED BY <1>2, <1>5, <1>7, <1>12, <1>13 DEF e

(* taskYIELD_WITHIN_API only asks the own core to switch. *)
LEMMA YieldEffect ==
    ASSUME KernelInv, UNCHANGED tcb, NEW c \in Cores, YieldWithinAPI(c)
    PROVE  /\ KernelInv'
           /\ \A t : SameLists(t)
           /\ UNCHANGED <<xTickCount, ready, delayed, suspended, deleted, current>>
           /\ yield' = [yield EXCEPT ![c] = TRUE]
<1>1. /\ UNCHANGED <<xTickCount, ready, delayed, suspended, deleted, current>>
      /\ yield' = [yield EXCEPT ![c] = TRUE] /\ yield \in [Cores -> BOOLEAN]
  BY DEF YieldWithinAPI, KernelInv, KernelTyped
<1>2. yield' \in [Cores -> BOOLEAN] /\ \A d \in Cores : yield[d] => yield'[d]
  BY <1>1
<1>3. KernelTyped' /\ OneListEach'
  BY <1>1, <1>2 DEF KernelInv, KernelTyped, OneListEach
<1>3a. SignalsGrow
  BY <1>2, SignalsKept DEF KernelInv, YieldWithinAPI
<1>4. KernelInv'
  BY <1>1, <1>2, <1>3, <1>3a, SameCores
<1> QED BY <1>1, <1>4 DEF SameLists

(* vTaskSuspend moves the caller from ready to suspended. *)
LEMMA SuspendEffect ==
    ASSUME KernelInv, UNCHANGED tcb, NEW c \in Cores, current[c] # IDLE, ~ yield[c],
           SuspendSelf(c)
    PROVE  /\ KernelInv'
           /\ \A t : t # current[c] => SameLists(t)
           /\ Occurs(current[c], ready) /\ suspended' = suspended \cup {current[c]}
           /\ UNCHANGED <<xTickCount, delayed, deleted, current>>
           /\ yield' = [yield EXCEPT ![c] = TRUE]
<1> DEFINE e == current[c]
<1>1. /\ ready \in Seq(Threads) /\ Once(ready)
      /\ current \in [Cores -> Threads \cup {IDLE}] /\ yield \in [Cores -> BOOLEAN]
  BY DEF KernelInv, KernelTyped, OneListEach
<1>2. Occurs(e, ready) /\ e \in Threads
  BY <1>1 DEF KernelInv, CallersReady, IsReady, Occurs
<1>3. ~ Occurs(e, delayed) /\ e \notin suspended /\ e \notin deleted
  BY <1>2 DEF KernelInv, OneListEach
<1>4. /\ ready' = RemoveFirst(ready, e)
      /\ suspended' = suspended \cup {e}
      /\ yield' = [yield EXCEPT ![c] = TRUE]
      /\ UNCHANGED <<xTickCount, delayed, deleted, current>>
  BY DEF SuspendSelf
<1> HIDE DEF e
<1>5. /\ ready' \in Seq(Threads) /\ Once(ready')
      /\ \A t : Occurs(t, ready') <=> Occurs(t, ready) /\ t # e
  BY <1>1, <1>4, RemoveFirstFacts
<1>6. yield' \in [Cores -> BOOLEAN] /\ (\A d \in Cores : yield[d] => yield'[d]) /\ yield'[c]
  BY <1>1, <1>4
<1>7. KernelTyped'
  BY <1>2, <1>4, <1>5, <1>6 DEF KernelInv, KernelTyped
<1>8. OneListEach'
  BY <1>3, <1>4, <1>5 DEF KernelInv, OneListEach
<1>9. ASSUME NEW d \in Cores, current[d] # IDLE, yield'[d] => d \in signalled',
             Occurs(current[d], ready)
      PROVE  Occurs(current[d], ready')
  <2>1. d # c
    BY <1>6, <1>9 DEF SuspendSelf, KernelInv, SignalsPending
  <2>2. current[d] # e
    BY <1>9, <2>1 DEF e, KernelInv, OneCoreAtATime, RunsOn
  <2> QED BY <1>5, <1>9, <2>2
<1>9a. SignalsGrow
  BY <1>6, SignalsKept DEF KernelInv, SuspendSelf
<1>10. KernelInv'
  BY <1>4, <1>6, <1>7, <1>8, <1>9, <1>9a, SameCores
<1>11. \A t : t # e => SameLists(t)
  BY <1>4, <1>5 DEF SameLists
<1> QED BY <1>2, <1>4, <1>10, <1>11 DEF e

(* vTaskResume moves a suspended task to ready, and nobody else. *)
LEMMA ResumeEffect ==
    ASSUME KernelInv, UNCHANGED tcb, NEW t, NEW c, Resume(t, c)
    PROVE  /\ KernelInv'
           /\ \A u : u # t => SameLists(u)
           /\ t \notin suspended => UNCHANGED <<ready, suspended, yield>>
           /\ t \in suspended => Occurs(t, ready)' /\ t \notin suspended'
           /\ UNCHANGED <<xTickCount, delayed, deleted, current>>
           /\ \A d \in Cores : yield[d] => yield'[d]
<1>1. /\ ready \in Seq(Threads) /\ Once(ready) /\ suspended \in SUBSET Threads
      /\ yield \in [Cores -> BOOLEAN]
  BY DEF KernelInv, KernelTyped, OneListEach
<1>2. UNCHANGED <<xTickCount, delayed, deleted, current>>
  BY DEF Resume
<1>3. CASE t \notin suspended
  <2>1. UNCHANGED <<ready, suspended, yield>>
    BY <1>3 DEF Resume
  <2>2. KernelTyped' /\ OneListEach'
    BY <1>2, <2>1 DEF KernelInv, KernelTyped, OneListEach
  <2>3. KernelInv'
    <3>1. SignalsGrow
      BY <2>1, SignalsKept DEF KernelInv, Resume
    <3> QED BY <1>2, <2>1, <2>2, <3>1, SameCores
  <2> QED BY <1>2, <1>3, <2>1, <2>3 DEF SameLists
<1>4. CASE t \in suspended
  <2>1. /\ suspended' = suspended \ {t}
        /\ ready' = Append(ready, t)
        /\ yield' = YieldForTask(t, yield)
    BY <1>4 DEF Resume
  <2>2. ~ Occurs(t, ready) /\ ~ Occurs(t, delayed) /\ t \notin deleted /\ t \in Threads
    BY <1>1, <1>4 DEF KernelInv, OneListEach
  <2>3. /\ ready' \in Seq(Threads) /\ Once(ready')
        /\ \A u : Occurs(u, ready') <=> Occurs(u, ready) \/ u = t
    BY <1>1, <2>1, <2>2, AppendOnce
  <2>4. yield' \in [Cores -> BOOLEAN] /\ \A d \in Cores : yield[d] => yield'[d]
    BY <1>1, <2>1, YieldForTaskTyped
  <2>5. KernelTyped'
    BY <1>2, <2>1, <2>3, <2>4 DEF KernelInv, KernelTyped
  <2>6. OneListEach'
    BY <1>2, <2>1, <2>2, <2>3 DEF KernelInv, OneListEach
  <2>7. KernelInv'
    <3>1. SignalsGrow
      BY <2>4, SignalsKept DEF KernelInv, Resume
    <3> QED BY <1>2, <2>3, <2>4, <2>5, <2>6, <3>1, SameCores
  <2>8. \A u : u # t => SameLists(u)
    BY <1>2, <2>1, <2>3 DEF SameLists
  <2> QED BY <1>2, <1>4, <2>1, <2>3, <2>4, <2>7, <2>8
<1> QED BY <1>3, <1>4

(* vTaskDelete takes the task out of every list. *)
LEMMA DeleteEffect ==
    ASSUME KernelInv, UNCHANGED tcb, NEW t \in Threads, NEW c, Delete(t, c)
    PROVE  /\ KernelInv'
           /\ \A u : u # t => SameLists(u)
           /\ deleted' = deleted \cup {t}
           /\ ~ Occurs(t, ready)' /\ ~ Occurs(t, delayed)' /\ t \notin suspended'
           /\ UNCHANGED <<xTickCount, current>>
           /\ \A d \in Cores : yield[d] \/ current[d] = t => yield'[d]
<1>1. /\ ready \in Seq(Threads) /\ Once(ready) /\ delayed \in Seq(Threads) /\ Once(delayed)
      /\ yield \in [Cores -> BOOLEAN]
  BY DEF KernelInv, KernelTyped, OneListEach
<1>2. /\ ready' = RemoveFirst(ready, t)
      /\ delayed' = RemoveFirst(delayed, t)
      /\ suspended' = suspended \ {t}
      /\ deleted' = deleted \cup {t}
      /\ yield' = [d \in Cores |-> yield[d] \/ current[d] = t]
      /\ UNCHANGED <<xTickCount, current>>
  BY DEF Delete
<1>3. /\ ready' \in Seq(Threads) /\ Once(ready')
      /\ \A u : Occurs(u, ready') <=> Occurs(u, ready) /\ u # t
  BY <1>1, <1>2, RemoveFirstFacts
<1>4. /\ delayed' \in Seq(Threads) /\ Once(delayed')
      /\ \A u : Occurs(u, delayed') <=> Occurs(u, delayed) /\ u # t
  BY <1>1, <1>2, RemoveFirstFacts
<1>5. /\ yield' \in [Cores -> BOOLEAN]
      /\ \A d \in Cores : yield[d] \/ current[d] = t => yield'[d]
  BY <1>1, <1>2
<1>6. KernelTyped'
  BY <1>2, <1>3, <1>4, <1>5 DEF KernelInv, KernelTyped
<1>7. OneListEach'
  BY <1>2, <1>3, <1>4 DEF KernelInv, OneListEach
<1>7a. SignalsGrow
  BY <1>5, SignalsKept DEF KernelInv, Delete
<1>8. KernelInv'
  BY <1>2, <1>3, <1>5, <1>6, <1>7, <1>7a, SameCores
<1>9. \A u : u # t => SameLists(u)
  BY <1>2, <1>3, <1>4 DEF SameLists
<1> QED BY <1>2, <1>3, <1>4, <1>5, <1>8, <1>9

(* xTaskIncrementTick moves due tasks from delayed to ready, nothing else. *)
LEMMA TickEffect ==
    ASSUME KernelInv, UNCHANGED tcb, IncrementTick
    PROVE  /\ KernelInv'
           /\ xTickCount' = xTickCount + 1
           /\ \A t : Occurs(t, ready) => Occurs(t, ready)'
           /\ \A t : Occurs(t, ready)' => Occurs(t, ready) \/ Occurs(t, delayed)
           /\ \A t : Occurs(t, delayed) => Occurs(t, ready)' \/ Occurs(t, delayed)'
           /\ \A t : Occurs(t, delayed)' => Occurs(t, delayed)
           /\ UNCHANGED <<suspended, deleted, current>>
           /\ \A c \in Cores : yield[c] => yield'[c]
<1> DEFINE n == DueBy(xTickCount + 1)
           pending == YieldsFor(n)
           a == SubSeq(delayed, 1, n)
           b == SubSeq(delayed, n + 1, Len(delayed))
<1>1. /\ ready \in Seq(Threads) /\ Once(ready) /\ delayed \in Seq(Threads) /\ Once(delayed)
      /\ yield \in [Cores -> BOOLEAN] /\ xTickCount \in Nat
  BY DEF KernelInv, KernelTyped, OneListEach
<1>2. n \in 0 .. Len(delayed) /\ n \in Nat
  <2>1. n \in 0 .. Len(delayed) /\ Len(delayed) \in Nat
    BY <1>1, DueByTyped, LenProperties
  <2> QED BY <2>1
<1>3. /\ xTickCount' = xTickCount + 1
      /\ delayed' = b
      /\ ready' = ready \o a
      /\ yield' = [c \in Cores |-> pending[c] \/ SharesItsPriority(c, ready')]
      /\ UNCHANGED <<suspended, deleted, current>>
  BY DEF IncrementTick
<1> HIDE DEF n
<1>4. pending \in [Cores -> BOOLEAN] /\ \A c \in Cores : yield[c] => pending[c]
  BY <1>1, <1>2, YieldsForTyped
<1> HIDE DEF pending
<1>5. yield' \in [Cores -> BOOLEAN] /\ \A c \in Cores : yield[c] => yield'[c]
  <2>1. ASSUME NEW c \in Cores PROVE SharesItsPriority(c, ready') \in BOOLEAN
    <3>1. CASE current[c] = IDLE
      BY <3>1 DEF SharesItsPriority
    <3>2. CASE current[c] # IDLE
      BY <3>2, Zenon DEF SharesItsPriority
    <3> QED BY <3>1, <3>2
  <2> QED BY <1>3, <1>4, <2>1
<1>6. /\ a \in Seq(Threads) /\ b \in Seq(Threads) /\ Once(a) /\ Once(b)
      /\ \A t : Occurs(t, delayed) <=> Occurs(t, a) \/ Occurs(t, b)
      /\ \A t : ~ (Occurs(t, a) /\ Occurs(t, b))
  BY <1>1, <1>2, CutOnce
<1> HIDE DEF a, b
<1>7. \A t : ~ (Occurs(t, ready) /\ Occurs(t, a))
  BY <1>6 DEF KernelInv, OneListEach
<1>8. /\ ready' \in Seq(Threads) /\ Once(ready')
      /\ \A t : Occurs(t, ready') <=> Occurs(t, ready) \/ Occurs(t, a)
  BY <1>1, <1>3, <1>6, <1>7, JoinOnce
<1>9. KernelTyped'
  BY <1>1, <1>3, <1>5, <1>6, <1>8 DEF KernelInv, KernelTyped
<1>10. OneListEach'
  BY <1>3, <1>6, <1>8 DEF KernelInv, OneListEach
<1>10a. SignalsGrow
  <2>1. signalled' = signalled \cup SignalledBy(configTICK_CORE)
    BY DEF IncrementTick
  <2> QED BY <1>5, <2>1, SignalsKept DEF KernelInv
<1>11. KernelInv'
  BY <1>3, <1>5, <1>8, <1>9, <1>10, <1>10a, SameCores
<1> QED BY <1>3, <1>5, <1>6, <1>8, <1>11

(* vTaskSwitchContext changes what the core runs, and no list. *)
LEMMA SwitchEffect ==
    ASSUME MasksAndPriorities, KernelInv, UNCHANGED tcb, NEW c \in Cores, SwitchContext(c)
    PROVE  /\ KernelInv'
           /\ \A t : SameLists(t)
           /\ UNCHANGED <<xTickCount, delayed, suspended, deleted>>
           /\ current' = [current EXCEPT ![c] = Selected(c)]
           /\ ~ yield'[c]
           /\ \A d \in Cores : d # c /\ yield[d] => yield'[d]
<1> DEFINE t == Selected(c)
           cores == IF t # current[c] /\ IsReady(current[c])
                      THEN EvictionCores(c, current[c], t) ELSE {}
<1>1. /\ current' = [current EXCEPT ![c] = t]
      /\ yield' = [d \in Cores |-> IF d = c THEN FALSE
                                   ELSE yield[d] \/ (cores # {} /\ d = WorstCore(cores))]
      /\ ready' = Requeued(c)
      /\ UNCHANGED <<xTickCount, delayed, suspended, deleted>>
  BY DEF SwitchContext
<1> HIDE DEF cores
<1>2. /\ current \in [Cores -> Threads \cup {IDLE}] /\ yield \in [Cores -> BOOLEAN]
  BY DEF KernelInv, KernelTyped
<1>3. /\ ready' \in Seq(Threads) /\ Once(ready')
      /\ \A u : Occurs(u, ready') <=> Occurs(u, ready)
  BY <1>1, RequeuedFacts
<1>4. /\ t \in Threads \cup {IDLE}
      /\ t # IDLE => Occurs(t, ready) /\ MayRunOn(t, c)
  BY SelectedIsBest
<1> HIDE DEF t
<1>5. /\ yield' \in [Cores -> BOOLEAN] /\ ~ yield'[c]
      /\ \A d \in Cores : d # c /\ yield[d] => yield'[d]
  BY <1>1, <1>2
<1>6. current'[c] = t /\ \A d \in Cores : d # c => current'[d] = current[d]
  BY <1>1, <1>2
<1>7. KernelTyped'
  BY <1>1, <1>2, <1>3, <1>4, <1>5 DEF KernelInv, KernelTyped
<1>8. OneListEach'
  BY <1>1, <1>3 DEF KernelInv, OneListEach
<1>9. OneCoreAtATime'
  <2> SUFFICES ASSUME NEW d \in Cores, current'[d] # IDLE
               PROVE  /\ {x \in Cores : current'[x] = current'[d]} = {d}
                      /\ d \in uxCoreAffinityMask(current'[d])
    BY DEF OneCoreAtATime, RunsOn, uxCoreAffinityMask
  <2>1. CASE d = c
    <3>1. RunsOn(t) \subseteq {c} /\ c \in uxCoreAffinityMask(t)
      BY <1>4, <1>6, <2>1 DEF MayRunOn
    <3> QED BY <1>6, <2>1, <3>1 DEF RunsOn
  <2>2. CASE d # c
    <3>1. current'[d] = current[d] /\ RunsOn(current[d]) = {d} /\ d \in uxCoreAffinityMask(current[d])
      BY <1>6, <2>2 DEF KernelInv, OneCoreAtATime
    <3>2. t # current[d]
      <4>1. t # IDLE => RunsOn(t) \subseteq {c}
        BY <1>4 DEF MayRunOn
      <4> QED BY <1>6, <2>2, <3>1, <4>1
    <3> QED BY <1>6, <2>2, <3>1, <3>2 DEF RunsOn
  <2> QED BY <2>1, <2>2
<1>10. CallersReady'
  <2> SUFFICES ASSUME NEW d \in Cores, current'[d] # IDLE, ~ yield'[d]
               PROVE  Occurs(current'[d], ready')
    BY DEF CallersReady, IsReady, Occurs
  <2>1. CASE d = c
    BY <1>3, <1>4, <1>6, <2>1
  <2>2. CASE d # c
    <3>1. current'[d] = current[d] /\ ~ yield[d]
      BY <1>5, <1>6, <2>2
    <3>2. Occurs(current[d], ready)
      BY <3>1 DEF KernelInv, CallersReady, IsReady, Occurs
    <3> QED BY <1>3, <3>1, <3>2
  <2> QED BY <2>1, <2>2
<1>10a. SignalsPending'
  BY <1>5 DEF KernelInv, SignalsPending, SignalledBy, SwitchContext
<1>10b. ExecutingListed'
  <2> SUFFICES ASSUME NEW d \in Cores, current'[d] # IDLE, yield'[d] => d \in signalled'
               PROVE  Occurs(current'[d], ready') \/ current'[d] \in deleted
    BY <1>1 DEF ExecutingListed, IsReady, Occurs
  <2>1. CASE d = c
    BY <1>3, <1>4, <1>6, <2>1
  <2>2. CASE d # c
    <3>1. current'[d] = current[d] /\ (yield[d] => d \in signalled)
      BY <1>5, <1>6, <2>2 DEF SwitchContext, SignalledBy
    <3>2. Occurs(current[d], ready) \/ current[d] \in deleted
      BY <3>1 DEF KernelInv, ExecutingListed, IsReady, Occurs
    <3> QED BY <1>3, <3>1, <3>2
  <2> QED BY <2>1, <2>2
<1>11. KernelInv'
  BY <1>7, <1>8, <1>9, <1>10, <1>10a, <1>10b DEF KernelInv
<1> QED BY <1>1, <1>3, <1>5, <1>11 DEF SameLists, t

----------------------------------------------------------------------------
(* vTaskStartScheduler                                                     *)

(* The tasks created so far are listed, each once. *)
LEMMA CreationOrderFacts ==
    ASSUME NEW created \in SUBSET Threads
    PROVE  /\ CreationOrder(created) \in Seq(Threads)
           /\ Once(CreationOrder(created))
           /\ \A t : Occurs(t, CreationOrder(created)) <=> t \in created
<1> USE ThreadFacts
<1> DEFINE N == MAX_NUM_TASKS
           V == Seq(Threads)
           base == IF MONITOR \in created THEN <<MONITOR>> ELSE <<>>
           A(n, q) == IF n - 1 \in created THEN Append(q, n - 1) ELSE q
           step == [n \in 1 .. N |-> [q \in V |-> A(n, q)]]
           R(h) == h = [n \in 0 .. N |-> IF n = 0 THEN base ELSE A(n, h[n - 1])]
           h == CHOOSE h : R(h)
           Q(n, q) == /\ q \in V /\ Once(q)
                      /\ \A t : Occurs(t, q) <=> t \in created /\ (t = MONITOR \/ t \in 0 .. n - 1)
<1>1. CreationOrder(created) = h[N]
  BY DEF CreationOrder
<1>2. base \in V /\ Q(0, base)
  <2>1. CASE MONITOR \in created
    <3>1. base = <<MONITOR>> /\ Len(base) = 1 /\ base[1] = MONITOR /\ base \in V
      BY <2>1
    <3> HIDE DEF base
    <3>2. \A t : Occurs(t, base) <=> t = MONITOR
      BY <3>1 DEF Occurs
    <3>3. Once(base)
      BY <3>1 DEF Once
    <3> QED BY <2>1, <3>1, <3>2, <3>3
  <2>2. CASE MONITOR \notin created
    <3>1. base = <<>> /\ Len(base) = 0 /\ base \in V
      BY <2>2
    <3> HIDE DEF base
    <3>2. \A t : ~ Occurs(t, base)
      BY <3>1 DEF Occurs
    <3>3. Once(base)
      BY <3>1 DEF Once
    <3> QED BY <2>2, <3>1, <3>2, <3>3
  <2> QED BY <2>1, <2>2
<1>3. ASSUME NEW n \in 1 .. N, NEW q \in V
      PROVE  A(n, q) \in V /\ (Q(n - 1, q) => Q(n, A(n, q)))
  <2>1. n - 1 \in Threads /\ n - 1 # MONITOR
    OBVIOUS
  <2>2. \A t : t \in 0 .. n - 1 <=> t \in 0 .. (n - 1) - 1 \/ t = n - 1
    OBVIOUS
  <2>3. CASE n - 1 \notin created
    <3>1. A(n, q) = q
      BY <2>3
    <3> QED BY <2>2, <2>3, <3>1
  <2>4. CASE n - 1 \in created
    <3>1. A(n, q) = Append(q, n - 1)
      BY <2>4
    <3>2. /\ Append(q, n - 1) \in V
          /\ \A t : Occurs(t, Append(q, n - 1)) <=> Occurs(t, q) \/ t = n - 1
          /\ Once(q) /\ ~ Occurs(n - 1, q) => Once(Append(q, n - 1))
      BY <2>1, AppendOnce
    <3>3. n - 1 \notin 0 .. (n - 1) - 1
      OBVIOUS
    <3> QED BY <2>1, <2>2, <2>4, <3>1, <3>2, <3>3
  <2> QED BY <2>3, <2>4
<1> HIDE DEF A, base
<1>4. step \in [1 .. N -> [V -> V]]
  BY <1>3
<1>5. PICK g \in [0 .. N -> V] : g[0] = base /\ \A n \in 1 .. N : g[n] = step[n][g[n - 1]]
  <2> HIDE DEF step, V
  <2> QED BY <1>2, <1>4, Iteration
<1>6. R(g)
  <2>1. ASSUME NEW n \in 0 .. N PROVE g[n] = IF n = 0 THEN base ELSE A(n, g[n - 1])
    <3>1. CASE n = 0
      BY <1>5, <3>1
    <3>2. CASE n # 0
      <4>1. n \in 1 .. N /\ n - 1 \in 0 .. N
        BY <3>2
      <4>2. g[n] = step[n][g[n - 1]] /\ g[n - 1] \in V
        BY <1>5, <4>1
      <4> QED BY <3>2, <4>1, <4>2
    <3> QED BY <3>1, <3>2
  <2> HIDE DEF step, V
  <2> QED BY <1>5, <2>1
<1>7. R(h)
  <2> HIDE DEF R
  <2> QED BY <1>6
<1> HIDE DEF h, step
<1>8. h[0] = base /\ \A n \in 1 .. N : h[n] = A(n, h[n - 1])
  <2>1. \A n \in 1 .. N : n \in 0 .. N /\ n # 0
    OBVIOUS
  <2> QED BY <1>7, <2>1
<1> DEFINE T == {n \in 0 .. N : ~ Q(n, h[n])}
<1>9. T = {}
  <2> HIDE DEF Q, R
  <2> SUFFICES ASSUME T # {} PROVE FALSE
    OBVIOUS
  <2>1. T \in SUBSET Nat
    OBVIOUS
  <2>2. PICK m \in T : \A y \in T : m <= y
    <3> HIDE DEF T
    <3> QED BY <2>1, LeastElement
  <2>3. m \in 1 .. N /\ m - 1 \in 0 .. N /\ ~ (m <= m - 1)
    <3>1. m \in 0 .. N /\ m # 0
      BY <1>2, <1>8, <2>2
    <3> QED BY <3>1
  <2>4. Q(m - 1, h[m - 1])
    BY <2>2, <2>3
  <2>5. h[m - 1] \in V
    BY <2>4 DEF Q
  <2>6. Q(m, h[m])
    BY SMTT(20), <1>3, <1>8, <2>3, <2>4, <2>5
  <2> QED BY <2>2, <2>6
<1>10. Q(N, h[N])
  <2> HIDE DEF Q
  <2>1. N \in 0 .. N
    OBVIOUS
  <2> QED BY <1>9, <2>1
<1>11. \A t \in created : t = MONITOR \/ t \in 0 .. N - 1
  OBVIOUS
<1> QED BY <1>1, <1>10, <1>11

LEMMA StartEffect ==
    ASSUME KernelInit, UNCHANGED tcb, NEW created \in SUBSET Threads, StartKernel(created)
    PROVE  /\ KernelInv'
           /\ \A t : Occurs(t, ready)' <=> t \in created
           /\ \A t : ~ Occurs(t, delayed)'
           /\ suspended' = {} /\ deleted' = {} /\ xTickCount' = 0
           /\ \A c \in Cores : current'[c] = IDLE /\ yield'[c]
<1>1. /\ ready' = CreationOrder(created)
      /\ yield' = [c \in Cores |-> TRUE]
      /\ xTickCount' = 0 /\ delayed' = <<>> /\ suspended' = {} /\ deleted' = {}
      /\ current' = [c \in Cores |-> IDLE]
  BY DEF StartKernel, KernelInit
<1>2. /\ ready' \in Seq(Threads) /\ Once(ready')
      /\ \A t : Occurs(t, ready') <=> t \in created
  BY <1>1, CreationOrderFacts
<1>3. delayed' \in Seq(Threads) /\ Once(delayed') /\ \A t : ~ Occurs(t, delayed')
  <2>1. Len(delayed') = 0 /\ delayed' \in Seq(Threads)
    BY <1>1
  <2> QED BY <2>1 DEF Once, Occurs
<1>4. KernelTyped'
  BY <1>1, <1>2, <1>3 DEF KernelTyped
<1>5. OneListEach'
  BY <1>1, <1>2, <1>3 DEF OneListEach
<1>6. OneCoreAtATime' /\ CallersReady' /\ ExecutingListed'
  BY <1>1 DEF OneCoreAtATime, CallersReady, ExecutingListed
<1>7. SignalsPending'
  BY DEF StartKernel, KernelInit, SignalsPending
<1> QED BY <1>1, <1>2, <1>3, <1>4, <1>5, <1>6, <1>7 DEF KernelInv

----------------------------------------------------------------------------
(* The refinement of Scheduler: the list a task is in is its state.        *)

StatesByList ==
    \A t : /\ t \in deleted => TaskState(t) = "deleted"
           /\ Occurs(t, ready) => TaskState(t) = "ready"
           /\ Occurs(t, delayed) => TaskState(t) = "blocked"
           /\ t \in suspended => TaskState(t) = "suspended"
           /\ ~ Occurs(t, ready) /\ ~ Occurs(t, delayed) /\ t \notin suspended /\ t \notin deleted
                => TaskState(t) = "new"

LEMMA StateFacts == OneListEach => StatesByList
<1> SUFFICES ASSUME OneListEach, NEW t
             PROVE  /\ t \in deleted => TaskState(t) = "deleted"
                    /\ Occurs(t, ready) => TaskState(t) = "ready"
                    /\ Occurs(t, delayed) => TaskState(t) = "blocked"
                    /\ t \in suspended => TaskState(t) = "suspended"
                    /\ ~ Occurs(t, ready) /\ ~ Occurs(t, delayed) /\ t \notin suspended
                         /\ t \notin deleted => TaskState(t) = "new"
  BY DEF StatesByList
<1>1. t \in deleted => ~ Occurs(t, ready) /\ ~ Occurs(t, delayed) /\ t \notin suspended
  BY DEF OneListEach
<1>2. Occurs(t, ready) => ~ Occurs(t, delayed) /\ t \notin suspended
  BY DEF OneListEach
<1>3. Occurs(t, delayed) => t \notin suspended
  BY DEF OneListEach
<1>4. IsReady(t) <=> Occurs(t, ready)
  BY DEF IsReady, Occurs
<1>5. (\E k \in 1 .. Len(delayed) : delayed[k] = t) <=> Occurs(t, delayed)
  BY DEF Occurs
<1> QED BY <1>1, <1>2, <1>3, <1>4, <1>5, Zenon DEF TaskState

LEMMA StateFactsNext == OneListEach' => StatesByList'
  BY StateFacts, PTL

(* A task in the same lists is in the same state. *)
LEMMA SameState ==
    ASSUME OneListEach, NEW t, SameLists(t) PROVE TaskState(t)' = TaskState(t)
<1> DEFINE R == IsReady(t)
           D == \E k \in 1 .. Len(delayed) : delayed[k] = t
<1>1. (IsReady(t)' <=> R) /\ (R <=> Occurs(t, ready))
  BY DEF SameLists, Occurs, IsReady
<1>2. ((\E k \in 1 .. Len(delayed') : delayed'[k] = t) <=> D) /\ (D <=> Occurs(t, delayed))
  BY DEF SameLists, Occurs
<1>3. (t \in deleted' <=> t \in deleted) /\ (t \in suspended' <=> t \in suspended)
  BY DEF SameLists
<1>4. CASE t \in deleted
  <2>1. ~ R /\ ~ D /\ t \notin suspended
    BY <1>1, <1>2, <1>4 DEF OneListEach
  <2> QED BY <1>1, <1>2, <1>3, <1>4, <2>1, Zenon DEF TaskState
<1>5. CASE R
  <2>1. t \notin deleted /\ ~ D /\ t \notin suspended
    BY <1>1, <1>2, <1>5 DEF OneListEach
  <2> QED BY <1>1, <1>2, <1>3, <1>5, <2>1, Zenon DEF TaskState
<1>6. CASE D
  <2>1. t \notin deleted /\ ~ R /\ t \notin suspended
    BY <1>1, <1>2, <1>6 DEF OneListEach
  <2> QED BY <1>1, <1>2, <1>3, <1>6, <2>1, Zenon DEF TaskState
<1>7. CASE t \in suspended
  <2>1. t \notin deleted /\ ~ R /\ ~ D
    BY <1>1, <1>2, <1>7 DEF OneListEach
  <2> QED BY <1>1, <1>2, <1>3, <1>7, <2>1, Zenon DEF TaskState
<1>8. CASE t \notin deleted /\ ~ R /\ ~ D /\ t \notin suspended
  BY <1>1, <1>2, <1>3, <1>8, Zenon DEF TaskState
<1> QED BY <1>4, <1>5, <1>6, <1>7, <1>8, Zenon

(* The priorities and masks only depend on the task control blocks. *)
LEMMA SameTCBs ==
    ASSUME UNCHANGED tcb
    PROVE  /\ [t \in Threads |-> uxPriority(t)]' = [t \in Threads |-> uxPriority(t)]
           /\ [t \in Threads |-> uxCoreAffinityMask(t)]' = [t \in Threads |-> uxCoreAffinityMask(t)]
<1>1. ASSUME NEW t PROVE uxPriority(t)' = uxPriority(t)
  <2>1. CASE t = IDLE
    BY <2>1, Zenon DEF uxPriority
  <2>2. CASE t # IDLE /\ t = MONITOR
    BY <2>2, Zenon DEF uxPriority
  <2>3. CASE t # IDLE /\ t # MONITOR
    BY <2>3, Zenon DEF uxPriority
  <2> QED BY <2>1, <2>2, <2>3
<1>2. \A t : uxCoreAffinityMask(t)' = uxCoreAffinityMask(t)
  BY DEF uxCoreAffinityMask
<1> QED BY <1>1, <1>2

LEMMA RefinesStutter ==
    ASSUME OneListEach, UNCHANGED tcb, UNCHANGED current, \A t : SameLists(t)
    PROVE  UNCHANGED <<[t \in Threads |-> uxPriority(t)], [t \in Threads |-> uxCoreAffinityMask(t)],
                       [t \in Threads |-> TaskState(t)], current>>
<1>1. [t \in Threads |-> TaskState(t)]' = [t \in Threads |-> TaskState(t)]
  BY SameState
<1> QED BY <1>1, SameTCBs

LEMMA RefinesBecomes ==
    ASSUME OneListEach, OneListEach', UNCHANGED tcb, UNCHANGED current,
           NEW t \in Threads, \A u : u # t => SameLists(u),
           NEW old, NEW new, TaskState(t) \in old, TaskState(t)' = new
    PROVE  Contract!Becomes(t, old, new)
<1>1. [u \in Threads |-> TaskState(u)]' = [[u \in Threads |-> TaskState(u)] EXCEPT ![t] = new]
  BY SameState
<1> QED BY <1>1, SameTCBs DEF Contract!Becomes

(* A task that puts itself to sleep: it is on a core, and ready. *)
LEMMA RefinesStop ==
    ASSUME KernelInv, KernelInv', UNCHANGED tcb, UNCHANGED current, NEW c \in Cores, current[c] # IDLE,
           Occurs(current[c], ready),
           \A u : u # current[c] => SameLists(u),
           Occurs(current[c], delayed)' \/ current[c] \in suspended'
    PROVE  Contract!Stop(c)
<1> DEFINE e == current[c]
<1>1. e \in Threads /\ OneListEach /\ OneListEach'
  BY DEF KernelInv, KernelTyped
<1>2. TaskState(e) = "ready"
  BY <1>1, StateFacts DEF StatesByList
<1>3. CASE Occurs(e, delayed)'
  <2>1. TaskState(e)' = "blocked"
    BY <1>1, <1>3, StateFactsNext DEF StatesByList
  <2>2. Contract!Becomes(e, {"ready"}, "blocked")
    <3> HIDE DEF e
    <3> QED BY <1>1, <1>2, <2>1, RefinesBecomes DEF e
  <2> QED BY <2>2 DEF Contract!Stop
<1>4. CASE e \in suspended'
  <2>1. TaskState(e)' = "suspended"
    BY <1>1, <1>4, StateFactsNext DEF StatesByList
  <2>2. Contract!Becomes(e, {"ready"}, "suspended")
    <3> HIDE DEF e
    <3> QED BY <1>1, <1>2, <2>1, RefinesBecomes DEF e
  <2> QED BY <2>2 DEF Contract!Stop
<1> QED BY <1>3, <1>4

LEMMA DelayRefines ==
    ASSUME KernelInv, UNCHANGED tcb, NEW c \in Cores, current[c] # IDLE, ~ yield[c],
           NEW time, DelayUntilTick(c, time)
    PROVE  Contract!SchedulerNext
<1>1. /\ KernelInv' /\ UNCHANGED current
      /\ \A u : u # current[c] => SameLists(u)
      /\ Occurs(current[c], ready) /\ Occurs(current[c], delayed)'
  BY DelayEffect
<1>2. Contract!Stop(c)
  BY <1>1, RefinesStop
<1> QED BY <1>2 DEF Contract!SchedulerNext

LEMMA SuspendRefines ==
    ASSUME KernelInv, UNCHANGED tcb, NEW c \in Cores, current[c] # IDLE, ~ yield[c],
           SuspendSelf(c)
    PROVE  Contract!SchedulerNext
<1>1. /\ KernelInv' /\ UNCHANGED current
      /\ \A u : u # current[c] => SameLists(u)
      /\ Occurs(current[c], ready) /\ suspended' = suspended \cup {current[c]}
  BY SuspendEffect
<1>2. Contract!Stop(c)
  BY <1>1, RefinesStop
<1> QED BY <1>2 DEF Contract!SchedulerNext

(* What the mapped variables of Scheduler are, and their stuttering. *)
SchedulerVars ==
    <<[t \in Threads |-> uxPriority(t)], [t \in Threads |-> uxCoreAffinityMask(t)],
      [t \in Threads |-> TaskState(t)], current>>

LEMMA ResumeRefines ==
    ASSUME KernelInv, UNCHANGED tcb, NEW t, NEW c, Resume(t, c)
    PROVE  Contract!SchedulerNext \/ UNCHANGED SchedulerVars
<1>1. /\ KernelInv' /\ UNCHANGED <<delayed, deleted, current>>
      /\ \A u : u # t => SameLists(u)
      /\ t \notin suspended => UNCHANGED <<ready, suspended, yield>>
      /\ t \in suspended => Occurs(t, ready)' /\ t \notin suspended'
  BY ResumeEffect
<1>2. OneListEach /\ OneListEach' /\ suspended \in SUBSET Threads
  BY <1>1 DEF KernelInv, KernelTyped
<1>3. CASE t \in suspended
  <2>1. t \in Threads /\ TaskState(t) = "suspended" /\ TaskState(t)' = "ready"
    BY <1>1, <1>2, <1>3, StateFacts, StateFactsNext DEF StatesByList
  <2>2. Contract!Becomes(t, {"suspended"}, "ready")
    BY <1>1, <1>2, <2>1, RefinesBecomes
  <2> QED BY <2>1, <2>2 DEF Contract!SchedulerNext
<1>4. CASE t \notin suspended
  <2>1. \A u : SameLists(u)
    BY <1>1, <1>4 DEF SameLists
  <2> QED BY <1>1, <1>2, <2>1, RefinesStutter DEF SchedulerVars
<1> QED BY <1>3, <1>4

LEMMA DeleteRefines ==
    ASSUME KernelInv, UNCHANGED tcb, NEW t \in Threads, NEW c, Delete(t, c),
           Occurs(t, ready) \/ Occurs(t, delayed) \/ t \in suspended
    PROVE  Contract!SchedulerNext
<1>1. /\ KernelInv' /\ UNCHANGED current /\ deleted' = deleted \cup {t}
      /\ \A u : u # t => SameLists(u)
  BY DeleteEffect
<1>2. OneListEach /\ OneListEach'
  BY <1>1 DEF KernelInv
<1>3. TaskState(t) \in {"ready", "blocked", "suspended"}
  BY <1>2, StateFacts DEF StatesByList
<1>4. TaskState(t)' = "deleted"
  BY <1>1, <1>2, StateFactsNext DEF StatesByList
<1>5. Contract!Becomes(t, {"ready", "blocked", "suspended"}, "deleted")
  BY <1>1, <1>2, <1>3, <1>4, RefinesBecomes
<1> QED BY <1>5 DEF Contract!SchedulerNext

LEMMA TickRefines ==
    ASSUME KernelInv, UNCHANGED tcb, IncrementTick
    PROVE  Contract!SchedulerNext
<1>1. /\ KernelInv' /\ UNCHANGED <<suspended, deleted, current>>
      /\ \A t : Occurs(t, ready) => Occurs(t, ready)'
      /\ \A t : Occurs(t, ready)' => Occurs(t, ready) \/ Occurs(t, delayed)
      /\ \A t : Occurs(t, delayed) => Occurs(t, ready)' \/ Occurs(t, delayed)'
      /\ \A t : Occurs(t, delayed)' => Occurs(t, delayed)
  BY TickEffect
<1>2. OneListEach /\ OneListEach' /\ StatesByList /\ StatesByList'
  BY <1>1, StateFacts, StateFactsNext DEF KernelInv
<1>3. ASSUME NEW t \in Threads, TaskState(t)' # TaskState(t)
      PROVE  TaskState(t) = "blocked" /\ TaskState(t)' = "ready"
  <2>1. ~ SameLists(t)
    BY <1>2, <1>3, SameState
  <2>2. Occurs(t, delayed) /\ Occurs(t, ready)'
    <3>1. ~ (Occurs(t, ready)' /\ Occurs(t, delayed)') /\ ~ (Occurs(t, ready) /\ Occurs(t, delayed))
      BY <1>2 DEF OneListEach
    <3> QED BY <1>1, <2>1, <3>1 DEF SameLists
  <2> QED BY <1>2, <2>2 DEF StatesByList
<1>4. Contract!Wake
  BY <1>1, <1>3, SameTCBs DEF Contract!Wake
<1> QED BY <1>4 DEF Contract!SchedulerNext

(* The core's choice is one of the highest priority among the eligible. *)
LEMMA SwitchRefines ==
    ASSUME MasksAndPriorities, KernelInv, UNCHANGED tcb, NEW c \in Cores, SwitchContext(c)
    PROVE  Contract!SchedulerNext
<1>1. /\ KernelInv' /\ \A t : SameLists(t)
      /\ current' = [current EXCEPT ![c] = Selected(c)]
  BY SwitchEffect
<1>2. OneListEach /\ StatesByList /\ current \in [Cores -> Threads \cup {IDLE}] /\ ready \in Seq(Threads)
  BY StateFacts DEF KernelInv, KernelTyped
<1>3. UNCHANGED <<[t \in Threads |-> uxPriority(t)], [t \in Threads |-> uxCoreAffinityMask(t)],
                  [t \in Threads |-> TaskState(t)]>>
  <2>1. [t \in Threads |-> TaskState(t)]' = [t \in Threads |-> TaskState(t)]
    BY <1>1, <1>2, SameState
  <2> QED BY <2>1, SameTCBs
<1>4. ASSUME NEW t \in Threads
      PROVE  t \in Contract!Eligible(c) <=> Occurs(t, ready) /\ MayRunOn(t, c)
  <2>1. TaskState(t) = "ready" <=> Occurs(t, ready)
    BY <1>2 DEF StatesByList
  <2>2. (\A d \in Cores \ {c} : current[d] # t) <=> RunsOn(t) \subseteq {c}
    BY DEF RunsOn
  <2> QED BY <2>1, <2>2 DEF Contract!Eligible, MayRunOn
<1>5. \A u : Occurs(u, ready) => u \in Threads
  BY <1>2 DEF Occurs
<1>6. Contract!Eligible(c) \subseteq Threads
  BY DEF Contract!Eligible
<1> HIDE DEF Contract!Eligible
<1>7. Contract!Dispatch(c)
  <2>1. CASE Selected(c) = IDLE /\ \A u : Occurs(u, ready) => ~ MayRunOn(u, c)
    <3>1. Contract!Eligible(c) = {}
      BY <1>4, <1>6, <2>1
    <3> QED BY <1>1, <1>3, <2>1, <3>1 DEF Contract!Dispatch
  <2>2. CASE /\ Selected(c) \in Threads
             /\ Occurs(Selected(c), ready)
             /\ MayRunOn(Selected(c), c)
             /\ \A u : Occurs(u, ready) /\ MayRunOn(u, c)
                         => uxPriority(u) <= uxPriority(Selected(c))
    <3>1. Selected(c) \in Contract!Eligible(c)
      BY <1>4, <2>2
    <3>2. \A u \in Contract!Eligible(c) :
             [t \in Threads |-> uxPriority(t)][u] <= [t \in Threads |-> uxPriority(t)][Selected(c)]
      BY <1>4, <1>6, <2>2
    <3> QED BY <1>1, <1>3, <3>1, <3>2 DEF Contract!Dispatch
  <2> QED BY <2>1, <2>2, SelectedIsBest
<1> QED BY <1>7 DEF Contract!SchedulerNext

LEMMA StartRefines ==
    ASSUME KernelInit, UNCHANGED tcb, NEW created \in SUBSET Threads, StartKernel(created)
    PROVE  Contract!SchedulerNext
<1>1. /\ KernelInv'
      /\ \A t : Occurs(t, ready)' <=> t \in created
      /\ \A t : ~ Occurs(t, delayed)'
      /\ suspended' = {} /\ deleted' = {}
  BY StartEffect
<1>2. UNCHANGED current
  BY DEF StartKernel
<1>3. ready = <<>> /\ delayed = <<>> /\ suspended = {} /\ deleted = {}
  BY DEF KernelInit
<1>4. \A t : ~ Occurs(t, <<>>)
  BY DEF Occurs
<1>5. OneListEach
  BY <1>3, <1>4 DEF OneListEach, Once
<1>6. StatesByList /\ StatesByList'
  BY <1>1, <1>5, StateFacts, StateFactsNext DEF KernelInv
<1>7. \A t \in Threads : TaskState(t) = "new" /\ TaskState(t)' \in {"new", "ready"}
  BY <1>1, <1>3, <1>4, <1>6 DEF StatesByList
<1>8. Contract!Start
  BY <1>2, <1>7, SameTCBs DEF Contract!Start
<1> QED BY <1>8 DEF Contract!SchedulerNext

----------------------------------------------------------------------------
(* Who gets a core: the requests prvYieldForTask makes, and how a core     *)
(* chooses among equals.                                                   *)

(* Priorities can be compared, and every task is above the idle tasks. *)
LEMMA PrioritiesTyped ==
    ASSUME MasksAndPriorities
    PROVE  /\ \A t \in Threads : uxPriority(t) \in Nat
           /\ uxPriority(IDLE) = -1
           /\ \A t \in Threads \cup {IDLE} : uxPriority(t) \in Int /\ uxPriority(t) + 1 \in Nat
<1>1. PICK b \in Nat : \A t \in Threads : uxPriority(t) \in 0 .. b
  BY MasksTyped
<1>2. uxPriority(IDLE) = -1
  BY MasksTyped
<1>3. \A t \in Threads : uxPriority(t) \in Nat
  BY <1>1
<1>4. \A t \in Threads : uxPriority(t) \in Int /\ uxPriority(t) + 1 \in Nat
  BY <1>3
<1>5. uxPriority(IDLE) \in Int /\ uxPriority(IDLE) + 1 \in Nat
  BY <1>2
<1> QED BY <1>2, <1>3, <1>4, <1>5

LEMMA SamePriority ==
    ASSUME UNCHANGED tcb, NEW t
    PROVE  uxPriority(t)' = uxPriority(t) /\ uxCoreAffinityMask(t)' = uxCoreAffinityMask(t)
<1>1. uxPriority(t)' = uxPriority(t)
  <2>1. CASE t = IDLE
    BY <2>1, Zenon DEF uxPriority
  <2>2. CASE t # IDLE /\ t = MONITOR
    BY <2>2, Zenon DEF uxPriority
  <2>3. CASE t # IDLE /\ t # MONITOR
    BY <2>3, Zenon DEF uxPriority
  <2> QED BY <2>1, <2>2, <2>3
<1> QED BY <1>1 DEF uxCoreAffinityMask

(* The scan for the core of least priority. *)
LEMMA WorstCoreFacts ==
    ASSUME MasksAndPriorities, current \in [Cores -> Threads \cup {IDLE}],
           NEW cores \in SUBSET Cores, cores # {}
    PROVE  /\ WorstCore(cores) \in cores
           /\ \A d \in cores : uxPriority(current[WorstCore(cores)]) <= uxPriority(current[d])
<1> DEFINE p(d) == uxPriority(current[d])
           worst(c) == \A d \in cores : p(c) <= p(d) /\ (d > c => p(c) < p(d))
           N == configNUMBER_OF_CORES
<1>1. \A d \in Cores : p(d) \in Int /\ p(d) + 1 \in Nat
  BY PrioritiesTyped
<1>2. WorstCore(cores) = CHOOSE c \in cores : worst(c)
  BY DEF WorstCore
<1>3. N \in Nat \ {0} /\ Cores = 0 .. N - 1 /\ N - 1 \in Nat
  BY ThreadFacts
<1> HIDE DEF p, N
<1> DEFINE P == {p(d) + 1 : d \in cores}
<1>4. P \in SUBSET Nat /\ P # {}
  BY <1>1
<1>5. PICK low \in P : \A q \in P : low <= q
  <2> HIDE DEF P
  <2> QED BY <1>4, LeastElement
<1> DEFINE F == {d \in cores : p(d) + 1 = low}
<1>6. F \in SUBSET (0 .. N - 1) /\ F # {}
  BY <1>3, <1>5
<1>7. PICK c \in F : \A d \in F : d <= c
  <2> HIDE DEF F
  <2> QED BY <1>3, <1>6, MaxIsGreatest
<1>8. ASSUME NEW d \in cores PROVE p(c) <= p(d) /\ (d > c => p(c) < p(d))
  <2>1. low <= p(d) + 1 /\ p(c) + 1 = low /\ p(d) \in Int /\ p(c) \in Int
    BY <1>1, <1>5, <1>7
  <2>2. d \in Nat /\ c \in Nat
    BY <1>3, <1>7
  <2>3. p(d) + 1 = low => d <= c
    BY <1>7
  <2> QED BY ONLY <2>1, <2>2, <2>3
<1>9. c \in cores /\ worst(c)
  BY <1>7, <1>8
<1>10. WorstCore(cores) \in cores /\ worst(WorstCore(cores))
  <2> HIDE DEF worst
  <2> QED BY <1>2, <1>9
<1> HIDE DEF P, F
<1>11. \A d \in cores : p(WorstCore(cores)) <= p(d)
  BY <1>10
<1> QED BY <1>10, <1>11 DEF p

(* prvYieldForTask asks the core of least priority among those the task    *)
(* may preempt, unless there is none.                                      *)
LEMMA YieldForTaskAsks ==
    ASSUME MasksAndPriorities, KernelInv, NEW t \in Threads, RunsOn(t) = {},
           NEW pending \in [Cores -> BOOLEAN]
    PROVE  \/ /\ YieldForTask(t, pending) = pending
              /\ \A c \in uxCoreAffinityMask(t) : pending[c] \/ uxPriority(t) <= uxPriority(current[c])
           \/ \E d \in uxCoreAffinityMask(t) :
                 /\ ~ pending[d] /\ uxPriority(current[d]) < uxPriority(t)
                 /\ YieldForTask(t, pending) = [pending EXCEPT ![d] = TRUE]
                 /\ \A c \in uxCoreAffinityMask(t) :
                       ~ pending[c] /\ uxPriority(current[c]) < uxPriority(t)
                         => uxPriority(current[d]) <= uxPriority(current[c])
<1> DEFINE cores == Preemptable(t, pending)
<1>1. /\ current \in [Cores -> Threads \cup {IDLE}]
      /\ uxCoreAffinityMask(t) \subseteq Cores
  BY MasksTyped DEF KernelInv, KernelTyped
<1>2. cores = {c \in uxCoreAffinityMask(t) : ~ pending[c] /\ uxPriority(current[c]) < uxPriority(t)}
  BY DEF Preemptable
<1>3. YieldForTask(t, pending) = IF cores = {} THEN pending
                                 ELSE [pending EXCEPT ![WorstCore(cores)] = TRUE]
  BY DEF YieldForTask
<1> HIDE DEF cores
<1>4. CASE cores = {}
  <2>1. ASSUME NEW c \in uxCoreAffinityMask(t), ~ pending[c]
        PROVE  uxPriority(t) <= uxPriority(current[c])
    <3>1. ~ (uxPriority(current[c]) < uxPriority(t))
      BY <1>2, <1>4, <2>1
    <3>2. uxPriority(current[c]) \in Int /\ uxPriority(t) \in Int
      BY <1>1, PrioritiesTyped
    <3> QED BY <3>1, <3>2
  <2> QED BY <1>3, <1>4, <2>1
<1>5. CASE cores # {}
  <2>1. cores \in SUBSET Cores
    BY <1>1, <1>2
  <2>2. PICK d : d = WorstCore(cores)
    OBVIOUS
  <2>3. d \in cores /\ \A c \in cores : uxPriority(current[d]) <= uxPriority(current[c])
    BY <1>1, <1>5, <2>1, <2>2, WorstCoreFacts
  <2> QED BY <1>2, <1>3, <1>5, <2>2, <2>3
<1> QED BY <1>4, <1>5

(* The outgoing task goes behind all others, whose order stays. *)
LEMMA RequeuedAhead ==
    ASSUME KernelInv, NEW c \in Cores, NEW t, t # current[c],
           NEW u, Ahead(u, t, Requeued(c))
    PROVE  Ahead(u, t, ready) /\ u # current[c]
<1> DEFINE lists == Requeued(c)
<1>1. ready \in Seq(Threads) /\ Once(ready)
  BY DEF KernelInv, KernelTyped, OneListEach
<1>2. CASE ~ IsReady(current[c])
  <2>1. lists = ready
    BY <1>2 DEF Requeued
  <2>2. Occurs(u, ready)
    BY <2>1 DEF Ahead, Occurs
  <2> QED BY <1>2, <2>1, <2>2 DEF IsReady, Occurs
<1>3. CASE IsReady(current[c])
  <2> DEFINE r == RemoveFirst(ready, current[c])
  <2>1. lists = Append(r, current[c])
    BY <1>3 DEF Requeued
  <2>2. r \in Seq(Threads) /\ \A x : Occurs(x, r) => x # current[c]
    BY <1>1, RemoveFirstFacts
  <2>3. current[c] \in Threads
    BY <1>1, <1>3 DEF IsReady
  <2>4. Ahead(u, t, lists)
    OBVIOUS
  <2>5. Ahead(u, t, r)
    <3> HIDE DEF r, lists
    <3> QED BY <2>1, <2>2, <2>3, <2>4, AheadAppend
  <2>6. Occurs(u, r)
    BY <2>5 DEF Ahead, Occurs
  <2>7. Ahead(u, t, ready)
    BY <1>1, <2>5, AheadRemove
  <2> QED BY <2>2, <2>6, <2>7
<1> QED BY <1>2, <1>3

(* Among those of the highest priority the core takes the first in the list. *)
LEMMA SelectedIsFirst ==
    ASSUME MasksAndPriorities, KernelInv, NEW c \in Cores,
           NEW t, Occurs(t, ready), MayRunOn(t, c), t # current[c],
           \A u : Occurs(u, ready) /\ MayRunOn(u, c) => uxPriority(u) <= uxPriority(t),
           \A u : Ahead(u, t, ready) /\ MayRunOn(u, c) /\ u # current[c]
                    => uxPriority(u) < uxPriority(t)
    PROVE  Selected(c) = t
<1> DEFINE lists == Requeued(c)
           candidates == {k \in 1 .. Len(lists) : MayRunOn(lists[k], c)}
           p(k) == uxPriority(lists[k])
           best(k) == \A j \in candidates : p(k) >= p(j) /\ (j < k => p(k) > p(j))
           K == CHOOSE k \in candidates : best(k)
<1>1. Selected(c) = IF candidates = {} THEN IDLE ELSE lists[K]
  BY DEF Selected
<1>2. lists \in Seq(Threads) /\ Once(lists) /\ \A u : Occurs(u, lists) <=> Occurs(u, ready)
  BY RequeuedFacts
<1>3. Len(lists) \in Nat /\ \A k \in 1 .. Len(lists) : lists[k] \in Threads
  BY <1>2, LenProperties
<1>4. ready \in Seq(Threads) /\ Once(ready)
  BY DEF KernelInv, KernelTyped, OneListEach
<1>5. \A u : Ahead(u, t, lists) => Ahead(u, t, ready) /\ u # current[c]
  BY RequeuedAhead
<1> HIDE DEF lists
<1>6. PICK k \in 1 .. Len(lists) : lists[k] = t
  BY <1>2 DEF Occurs
<1>7. k \in candidates
  BY <1>6
<1>8. \A j \in candidates : p(j) \in Int /\ j \in Nat
  BY <1>3, PrioritiesTyped
<1>9. ASSUME NEW j \in candidates PROVE p(k) >= p(j) /\ (j < k => p(k) > p(j))
  <2>1. Occurs(lists[j], ready) /\ MayRunOn(lists[j], c)
    BY <1>2 DEF Occurs
  <2>2. p(j) <= p(k)
    BY <1>6, <2>1
  <2>3. ASSUME j < k PROVE p(j) < p(k)
    <3>1. Ahead(lists[j], t, lists)
      BY <1>6, <2>3 DEF Ahead
    <3> QED BY <1>5, <1>6, <2>1, <3>1
  <2> HIDE DEF candidates, p
  <2> QED BY <1>7, <1>8, <2>2, <2>3
<1> HIDE DEF candidates, p
<1>10. best(k)
  BY <1>9
<1>11. K \in candidates /\ best(K)
  <2> HIDE DEF best
  <2> QED BY <1>7, <1>10
<1>12. K = k
  <2>1. p(K) >= p(k) /\ (k < K => p(K) > p(k))
    BY <1>7, <1>11
  <2>2. p(k) >= p(K) /\ (K < k => p(k) > p(K))
    BY <1>9, <1>11
  <2>3. p(k) \in Int /\ p(K) \in Int /\ k \in Nat /\ K \in Nat
    BY <1>7, <1>8, <1>11
  <2> HIDE DEF K
  <2> QED BY ONLY <2>1, <2>2, <2>3
<1> QED BY <1>1, <1>6, <1>7, <1>12

----------------------------------------------------------------------------
(* Tasks that are pinned to a core each, and one above them, the monitor,  *)
(* that may use every core.                                                *)

TasksPinned ==
    \A t \in Slots : Occurs(t, ready) \/ Occurs(t, delayed) \/ t \in suspended
                       => \E c \in Cores : tcb[t].affinity = {c}

MonitorOnTop == \A t \in Slots : uxPriority(t) <= uxPriority(MONITOR)

(* The core of a pinned task that waits is about to switch, or executes    *)
(* nothing below the task.                                                 *)
PinnedServed ==
    \A t \in Slots, c \in Cores :
        Occurs(t, ready) /\ RunsOn(t) = {} /\ tcb[t].affinity = {c}
            => yield[c] \/ uxPriority(t) <= uxPriority(current[c])

(* Core d is about to switch, and will switch to the monitor. *)
MonitorNext(d) ==
    /\ yield[d]
    /\ uxPriority(current[d]) < uxPriority(MONITOR)
    /\ \A u \in Slots : tcb[u].affinity = {d} /\ Ahead(u, MONITOR, ready)
                          => uxPriority(u) < uxPriority(MONITOR)

(* The monitor waits only for cores that are about to switch or execute    *)
(* nothing below it, or one core is going to take it.                      *)
MonitorServed ==
    Occurs(MONITOR, ready) /\ RunsOn(MONITOR) = {} =>
        \/ \A c \in Cores : yield[c] \/ uxPriority(MONITOR) <= uxPriority(current[c])
        \/ \E d \in Cores : MonitorNext(d)

Served == PinnedServed /\ MonitorServed

(* A call that makes no task ready and only asks cores to switch. *)
LEMMA ServedKept ==
    ASSUME Served, UNCHANGED <<tcb, current>>,
           \A c \in Cores : yield[c] => yield'[c],
           \A t : Occurs(t, ready)' => Occurs(t, ready),
           \A u : Ahead(u, MONITOR, ready)' => Ahead(u, MONITOR, ready)
    PROVE  Served'
<1>1. \A t : uxPriority(t)' = uxPriority(t) /\ RunsOn(t)' = RunsOn(t)
  BY SamePriority DEF RunsOn
<1>2. PinnedServed'
  BY <1>1 DEF Served, PinnedServed
<1>3. \A d \in Cores : MonitorNext(d) => MonitorNext(d)'
  BY <1>1 DEF MonitorNext
<1>4. MonitorServed'
  BY <1>1, <1>3 DEF Served, MonitorServed
<1> QED BY <1>2, <1>4 DEF Served

(* The caller goes to sleep, or a task is deleted. *)
LEMMA ServedRemove ==
    ASSUME KernelInv, Served, UNCHANGED <<tcb, current>>, NEW e, ready' = RemoveFirst(ready, e),
           \A c \in Cores : yield[c] => yield'[c]
    PROVE  Served'
<1>1. ready \in Seq(Threads) /\ Once(ready)
  BY DEF KernelInv, KernelTyped, OneListEach
<1>2. \A t : Occurs(t, ready') => Occurs(t, ready)
  BY <1>1, RemoveFirstFacts
<1>3. \A u : Ahead(u, MONITOR, ready') => Ahead(u, MONITOR, ready)
  BY <1>1, AheadRemove
<1> QED BY <1>2, <1>3, ServedKept

(* vTaskResume of a pinned task asks its core, if it has to. *)
LEMMA ServedResume ==
    ASSUME MasksAndPriorities, KernelInv, TasksPinned, Served, UNCHANGED tcb,
           NEW s \in Slots, s \in suspended, NEW d, Resume(s, d)
    PROVE  Served'
<1>1. /\ ready \in Seq(Threads) /\ yield \in [Cores -> BOOLEAN]
      /\ current \in [Cores -> Threads \cup {IDLE}]
  BY DEF KernelInv, KernelTyped
<1>2. /\ ready' = Append(ready, s)
      /\ yield' = YieldForTask(s, yield)
      /\ UNCHANGED current
  BY DEF Resume
<1>3. s \in Threads /\ s # MONITOR
  BY ThreadFacts
<1>4. \A t : Occurs(t, ready') <=> Occurs(t, ready) \/ t = s
  BY <1>1, <1>2, <1>3, AppendOnce
<1>5. \A u : Ahead(u, MONITOR, ready') => Ahead(u, MONITOR, ready)
  BY <1>1, <1>2, <1>3, AheadAppend
<1>6. \A c \in Cores : yield[c] => yield'[c]
  BY <1>1, <1>2, YieldForTaskTyped
<1>7. \A t : uxPriority(t)' = uxPriority(t) /\ RunsOn(t)' = RunsOn(t)
  BY <1>2, SamePriority DEF RunsOn
<1>8. PinnedServed'
  <2> SUFFICES ASSUME NEW t \in Slots, NEW c \in Cores, Occurs(t, ready'), RunsOn(t) = {},
                      tcb[t].affinity = {c}, ~ yield'[c]
               PROVE  uxPriority(t) <= uxPriority(current[c])
    BY <1>2, <1>7 DEF PinnedServed
  <2>1. CASE t # s
    BY <1>4, <1>6, <2>1 DEF Served, PinnedServed
  <2>2. CASE t = s
    <3>1. uxCoreAffinityMask(s) = {c}
      BY <2>2 DEF uxCoreAffinityMask
    <3>2. CASE \A e \in uxCoreAffinityMask(s) : yield[e] \/ uxPriority(s) <= uxPriority(current[e])
      BY <1>6, <2>2, <3>1, <3>2
    <3>3. CASE \E e \in uxCoreAffinityMask(s) : yield' = [yield EXCEPT ![e] = TRUE]
      <4>1. yield'[c]
        BY <1>1, <3>1, <3>3
      <4> QED BY <4>1
    <3> QED BY <1>1, <1>2, <1>3, <2>2, <3>2, <3>3, YieldForTaskAsks
  <2> QED BY <2>1, <2>2
<1>9. \A e \in Cores : MonitorNext(e) => MonitorNext(e)'
  BY <1>2, <1>5, <1>6, <1>7 DEF MonitorNext
<1>10. MonitorServed'
  BY <1>2, <1>3, <1>4, <1>6, <1>7, <1>9 DEF Served, MonitorServed
<1> QED BY <1>8, <1>10 DEF Served

(* xTaskIncrementTick: nobody waited behind a task of lower priority       *)
(* before, and each task that is woken asks a core in its turn.            *)
LEMMA ServedTick ==
    ASSUME MasksAndPriorities, KernelInv, TasksPinned, MonitorOnTop, Served, UNCHANGED tcb,
           \A c \in Cores : ~ yield[c], IncrementTick
    PROVE  Served'
<1> DEFINE n == DueBy(xTickCount + 1)
           a == SubSeq(delayed, 1, n)
<1>1. /\ ready \in Seq(Threads) /\ delayed \in Seq(Threads) /\ yield \in [Cores -> BOOLEAN]
      /\ current \in [Cores -> Threads \cup {IDLE}] /\ Once(delayed)
  BY DEF KernelInv, KernelTyped, OneListEach
<1>2. n \in 0 .. Len(delayed) /\ n \in Nat /\ Len(delayed) \in Nat
  <2>1. n \in 0 .. Len(delayed) /\ Len(delayed) \in Nat
    BY <1>1, DueByTyped, LenProperties
  <2> QED BY <2>1
<1>3. /\ ready' = ready \o a
      /\ yield' = [c \in Cores |-> YieldsFor(n)[c] \/ SharesItsPriority(c, ready')]
      /\ UNCHANGED current
  BY DEF IncrementTick
<1> HIDE DEF n
<1>4. PICK p \in [0 .. n -> [Cores -> BOOLEAN]] :
         /\ p[0] = yield /\ p[n] = YieldsFor(n)
         /\ \A k \in 1 .. n : p[k] = YieldForTask(delayed[k], p[k - 1])
         /\ \A k \in 0 .. n, c \in Cores : p[k][c] => p[n][c]
  BY <1>1, <1>2, YieldsForSteps
<1>5. \A k \in 0 .. n, c \in Cores : p[k][c] => yield'[c]
  BY <1>3, <1>4
<1>6. /\ a \in Seq(Threads) /\ Len(a) = n /\ \A k \in 1 .. n : a[k] = delayed[k]
  BY <1>1, <1>2, SubSeqProperties
<1> HIDE DEF a
<1>7. \A t : uxPriority(t)' = uxPriority(t) /\ RunsOn(t)' = RunsOn(t)
  BY <1>3, SamePriority DEF RunsOn
<1>8. \A t : Occurs(t, ready') => Occurs(t, ready) \/ \E k \in 1 .. n : delayed[k] = t
  <2>1. \A t : Occurs(t, ready') => Occurs(t, ready) \/ Occurs(t, a)
    BY <1>1, <1>3, <1>6, JoinOnce
  <2>2. \A t : Occurs(t, a) => \E k \in 1 .. n : delayed[k] = t
    BY <1>6 DEF Occurs
  <2> QED BY <2>1, <2>2
<1>9. ASSUME NEW k \in 1 .. n, RunsOn(delayed[k]) = {}
      PROVE  \/ \A c \in uxCoreAffinityMask(delayed[k]) :
                   p[k - 1][c] \/ uxPriority(delayed[k]) <= uxPriority(current[c])
             \/ \E d \in uxCoreAffinityMask(delayed[k]) :
                   /\ ~ p[k - 1][d] /\ uxPriority(current[d]) < uxPriority(delayed[k])
                   /\ p[k] = [p[k - 1] EXCEPT ![d] = TRUE]
  <2>1. delayed[k] \in Threads /\ p[k - 1] \in [Cores -> BOOLEAN]
    BY <1>1, <1>2, <1>4
  <2>2. p[k] = YieldForTask(delayed[k], p[k - 1])
    BY <1>4
  <2>3. PICK t \in Threads, q \in [Cores -> BOOLEAN] : t = delayed[k] /\ q = p[k - 1]
    BY <2>1
  <2>4. RunsOn(t) = {}
    BY <1>9, <2>3
  <2>5. \/ \A c \in uxCoreAffinityMask(t) : q[c] \/ uxPriority(t) <= uxPriority(current[c])
        \/ \E d \in uxCoreAffinityMask(t) :
              /\ ~ q[d] /\ uxPriority(current[d]) < uxPriority(t)
              /\ YieldForTask(t, q) = [q EXCEPT ![d] = TRUE]
    BY <2>4, YieldForTaskAsks
  <2> QED BY <2>2, <2>3, <2>5
<1>10. \A k \in 1 .. n : /\ k \in 0 .. n /\ k - 1 \in 0 .. n /\ p[k - 1] \in [Cores -> BOOLEAN]
                         /\ delayed[k] \in Threads /\ Occurs(delayed[k], delayed)
  BY <1>1, <1>2, <1>4 DEF Occurs
<1>11. ASSUME NEW k \in 1 .. n, delayed[k] \in Slots, NEW c \in Cores,
              tcb[delayed[k]].affinity = {c}, RunsOn(delayed[k]) = {}
       PROVE  p[k][c] \/ p[k - 1][c] \/ uxPriority(delayed[k]) <= uxPriority(current[c])
  <2>1. uxCoreAffinityMask(delayed[k]) = {c}
    BY <1>11 DEF uxCoreAffinityMask
  <2> QED BY <1>9, <1>10, <1>11, <2>1
<1>12. PinnedServed'
  <2> SUFFICES ASSUME NEW t \in Slots, NEW c \in Cores, Occurs(t, ready'), RunsOn(t) = {},
                      tcb[t].affinity = {c}, ~ yield'[c]
               PROVE  uxPriority(t) <= uxPriority(current[c])
    BY <1>3, <1>7 DEF PinnedServed
  <2>1. CASE Occurs(t, ready)
    BY <2>1 DEF Served, PinnedServed
  <2>2. CASE \E k \in 1 .. n : delayed[k] = t
    <3>1. PICK k \in 1 .. n : delayed[k] = t
      BY <2>2
    <3> QED BY <1>5, <1>10, <1>11, <3>1
  <2> QED BY <1>8, <2>1, <2>2
<1>13. MonitorServed'
  <2> SUFFICES ASSUME Occurs(MONITOR, ready'), RunsOn(MONITOR) = {},
                      NEW c \in Cores, ~ yield'[c], ~ (uxPriority(MONITOR) <= uxPriority(current[c]))
               PROVE  \E d \in Cores : MonitorNext(d)'
    BY <1>3, <1>7 DEF MonitorServed
  <2>1. ~ Occurs(MONITOR, ready)
    BY DEF Served, MonitorServed, MonitorNext
  <2>2. PICK k \in 1 .. n : delayed[k] = MONITOR
    BY <1>8, <2>1
  <2>3. uxCoreAffinityMask(MONITOR) = Cores
    BY ThreadFacts DEF uxCoreAffinityMask
  <2>4. ~ p[k - 1][c]
    BY <1>5, <1>10
  <2>5. PICK d \in Cores : /\ ~ p[k - 1][d] /\ uxPriority(current[d]) < uxPriority(MONITOR)
                           /\ p[k] = [p[k - 1] EXCEPT ![d] = TRUE]
    BY <1>9, <2>2, <2>3, <2>4
  <2>6. yield'[d]
    <3>1. p[k][d]
      BY <1>10, <2>5
    <3> QED BY <1>5, <1>10, <3>1
  <2>7. ASSUME NEW u \in Slots, tcb[u].affinity = {d}, Ahead(u, MONITOR, ready')
        PROVE  uxPriority(u) < uxPriority(MONITOR)
    <3>0. /\ uxPriority(u) \in Int /\ uxPriority(MONITOR) \in Int /\ uxPriority(current[d]) \in Int
      BY <1>1, PrioritiesTyped, ThreadFacts
    <3>1. CASE RunsOn(u) # {}
      <4>1. PICK e \in Cores : current[e] = u
        BY <3>1 DEF RunsOn
      <4>2. e \in uxCoreAffinityMask(u)
        BY <4>1, ThreadFacts DEF KernelInv, OneCoreAtATime
      <4>3. e = d
        BY <2>7, <4>2 DEF uxCoreAffinityMask
      <4> QED BY <2>5, <4>1, <4>3
    <3>2. CASE RunsOn(u) = {} /\ Occurs(u, ready)
      <4>1. uxPriority(u) <= uxPriority(current[d])
        BY <2>7, <3>2 DEF Served, PinnedServed
      <4> QED BY <2>5, <3>0, <4>1
    <3>3. CASE RunsOn(u) = {} /\ ~ Occurs(u, ready)
      <4>1. Ahead(u, MONITOR, a)
        <5>1. ~ Ahead(u, MONITOR, ready)
          BY <2>1 DEF Ahead, Occurs
        <5> QED BY <1>1, <1>3, <1>6, <2>7, <3>3, <5>1, AheadJoin
      <4>2. PICK j \in 1 .. n, m \in 1 .. n : j < m /\ delayed[j] = u /\ delayed[m] = MONITOR
        BY <1>6, <4>1 DEF Ahead
      <4>3. m = k
        <5>1. k \in 1 .. Len(delayed) /\ m \in 1 .. Len(delayed) /\ delayed[m] = delayed[k]
          BY <1>2, <2>2, <4>2
        <5> QED BY <1>1, <5>1 DEF Once
      <4>4. ~ p[j][d]
        <5>1. ASSUME p[j][d] PROVE FALSE
          <6> DEFINE T == {x \in j .. k - 1 : ~ p[x][d]}
          <6>1. T \in SUBSET Nat
            OBVIOUS
          <6>2. k - 1 \in j .. k - 1
            BY <4>2, <4>3
          <6>3. T # {}
            BY <2>5, <6>2
          <6>4. PICK x \in T : \A y \in T : x <= y
            <7> HIDE DEF T
            <7> QED BY <6>1, <6>3, LeastElement
          <6>5. x \in j .. k - 1 /\ x # j /\ ~ p[x][d]
            BY <5>1, <6>4
          <6>6. x \in 1 .. n /\ x - 1 \in j .. k - 1 /\ ~ (x <= x - 1)
            <7>1. j \in Nat /\ 1 <= j /\ k \in Nat /\ k <= n /\ n \in Nat
              BY <1>2, <4>2
            <7> QED BY ONLY <6>5, <7>1
          <6>7. p[x - 1][d]
            BY <6>4, <6>6
          <6> QED BY <1>4, <1>10, <6>5, <6>6, <6>7, YieldForTaskTyped
        <5> QED BY <5>1
      <4>5. ~ p[j - 1][d]
        BY <1>4, <1>10, <4>2, <4>4, YieldForTaskTyped
      <4>6. uxPriority(u) <= uxPriority(current[d])
        BY <1>11, <2>7, <3>3, <4>2, <4>4, <4>5
      <4> QED BY <2>5, <3>0, <4>6
    <3> QED BY <3>1, <3>2, <3>3
  <2>8. MonitorNext(d)'
    BY <1>3, <1>7, <2>5, <2>6, <2>7 DEF MonitorNext
  <2> QED BY <2>8
<1> QED BY <1>12, <1>13 DEF Served

(* vTaskSwitchContext: the core takes the best task it may; a monitor that *)
(* makes way for a task of its own priority is offered another core, where *)
(* nobody of that priority waits.                                          *)
LEMMA ServedSwitch ==
    ASSUME MasksAndPriorities, KernelInv, TasksPinned, MonitorOnTop, Served, UNCHANGED tcb,
           NEW c \in Cores, SwitchContext(c)
    PROVE  Served'
<1> DEFINE s == Selected(c)
           cores == IF s # current[c] /\ IsReady(current[c])
                      THEN EvictionCores(c, current[c], s) ELSE {}
<1>1. /\ ready' = Requeued(c) /\ current' = [current EXCEPT ![c] = s]
      /\ yield' = [d \in Cores |-> IF d = c THEN FALSE
                                   ELSE yield[d] \/ (cores # {} /\ d = WorstCore(cores))]
  BY DEF SwitchContext
<1>2. /\ current \in [Cores -> Threads \cup {IDLE}] /\ ready \in Seq(Threads) /\ Once(ready)
      /\ \A t : Occurs(t, ready) => t \in Threads
  BY DEF KernelInv, KernelTyped, OneListEach, Occurs
<1>3. \A t : Occurs(t, ready') <=> Occurs(t, ready)
  BY <1>1, RequeuedFacts
<1>4. /\ \A t : uxPriority(t)' = uxPriority(t)
      /\ MONITOR \in Threads /\ MONITOR \notin Slots /\ uxCoreAffinityMask(MONITOR) = Cores
      /\ \A t \in Threads \cup {IDLE} : uxPriority(t) \in Int
  BY SamePriority, PrioritiesTyped, ThreadFacts DEF uxCoreAffinityMask
<1>5. /\ \A d \in Cores : d # c => current'[d] = current[d] /\ (yield[d] => yield'[d])
      /\ current'[c] = s
  BY <1>1, <1>2
<1>6. ASSUME NEW t, Occurs(t, ready), MayRunOn(t, c) PROVE uxPriority(t) <= uxPriority(s)
  BY <1>6, SelectedIsBest
<1>7. ASSUME NEW t \in Threads, NEW d \in Cores, current[d] = t, t \in Slots,
             NEW e, tcb[t].affinity = {e}
      PROVE  d = e
  BY <1>7, ThreadFacts DEF KernelInv, OneCoreAtATime, uxCoreAffinityMask
<1> HIDE DEF s
<1>8. PinnedServed'
  <2> SUFFICES ASSUME NEW t \in Slots, NEW d \in Cores, Occurs(t, ready'), RunsOn(t)' = {},
                      tcb[t].affinity = {d}, ~ yield'[d]
               PROVE  uxPriority(t) <= uxPriority(current'[d])
    BY <1>4 DEF PinnedServed
  <2>1. t \in Threads /\ Occurs(t, ready) /\ uxCoreAffinityMask(t) = {d}
    BY <1>3, ThreadFacts DEF uxCoreAffinityMask
  <2>2. RunsOn(t) \subseteq {c}
    BY <1>5 DEF RunsOn
  <2>3. CASE d = c
    <3>1. MayRunOn(t, c)
      BY <2>1, <2>2, <2>3 DEF MayRunOn
    <3> QED BY <1>5, <1>6, <2>1, <2>3, <3>1
  <2>4. CASE d # c
    <3>1. RunsOn(t) = {}
      BY <1>7, <2>1, <2>2, <2>4 DEF RunsOn
    <3> QED BY <1>5, <2>1, <2>4, <3>1 DEF Served, PinnedServed
  <2> QED BY <2>3, <2>4
<1>9. MonitorServed'
  <2> SUFFICES ASSUME Occurs(MONITOR, ready'), RunsOn(MONITOR)' = {}
               PROVE  \/ \A d \in Cores : yield'[d] \/ uxPriority(MONITOR) <= uxPriority(current'[d])
                      \/ \E d \in Cores : MonitorNext(d)'
    BY <1>4 DEF MonitorServed
  <2>1. Occurs(MONITOR, ready)
    BY <1>3
  <2>2. RunsOn(MONITOR) \subseteq {c} /\ s # MONITOR
    BY <1>5 DEF RunsOn
  <2>3. MayRunOn(MONITOR, c)
    BY <1>4, <2>2 DEF MayRunOn
  <2>4. uxPriority(MONITOR) <= uxPriority(s)
    BY <1>6, <2>1, <2>3
  <2>5. ASSUME NEW d \in Cores, d # c, yield'[d],
               uxPriority(current[d]) < uxPriority(MONITOR),
               \A u \in Slots : tcb[u].affinity = {d} /\ Ahead(u, MONITOR, ready')
                                  => uxPriority(u) < uxPriority(MONITOR)
        PROVE  MonitorNext(d)'
    BY <1>4, <1>5, <2>5 DEF MonitorNext
  <2>6. CASE RunsOn(MONITOR) = {}
    <3>1. CASE \A d \in Cores : yield[d] \/ uxPriority(MONITOR) <= uxPriority(current[d])
      BY <1>5, <2>4, <3>1
    <3>2. ASSUME NEW d \in Cores, MonitorNext(d) PROVE \E e \in Cores : MonitorNext(e)'
      <4>1. current[c] # MONITOR
        BY <2>6 DEF RunsOn
      <4>2. CASE d = c
        <5>1. ASSUME NEW u, Occurs(u, ready), MayRunOn(u, c)
              PROVE  uxPriority(u) <= uxPriority(MONITOR)
          BY <1>2, <1>4, <5>1, ThreadFacts DEF MonitorOnTop
        <5>2. ASSUME NEW u, Ahead(u, MONITOR, ready), MayRunOn(u, c)
              PROVE  uxPriority(u) < uxPriority(MONITOR)
          <6>1. Occurs(u, ready) /\ u # MONITOR
            BY <1>2, <5>2 DEF Ahead, Occurs, Once
          <6>2. u \in Slots
            BY <1>2, <6>1, ThreadFacts
          <6>3. PICK e \in Cores : tcb[u].affinity = {e}
            BY <6>1, <6>2 DEF TasksPinned
          <6>4. e = c
            BY <5>2, <6>2, <6>3 DEF MayRunOn, uxCoreAffinityMask
          <6> QED BY <3>2, <4>2, <5>2, <6>2, <6>3, <6>4 DEF MonitorNext
        <5>3. s = MONITOR
          BY <2>1, <2>3, <4>1, <5>1, <5>2, SelectedIsFirst DEF s
        <5> QED BY <2>2, <5>3
      <4>3. CASE d # c
        <5>1. \A u : Ahead(u, MONITOR, ready') => Ahead(u, MONITOR, ready)
          BY <1>1, <4>1, RequeuedAhead
        <5>2. MonitorNext(d)'
          BY <1>5, <2>5, <3>2, <4>3, <5>1 DEF MonitorNext
        <5> QED BY <5>2
      <4> QED BY <4>2, <4>3
    <3> QED BY <2>1, <2>6, <3>1, <3>2 DEF Served, MonitorServed
  <2>7. CASE current[c] = MONITOR
    <3>1. IsReady(MONITOR)
      BY <2>1 DEF IsReady, Occurs
    <3>2. /\ s \in Slots /\ Occurs(s, ready) /\ MayRunOn(s, c)
      BY <2>1, <2>2, <2>3, SelectedIsBest, ThreadFacts DEF s
    <3>3. uxCoreAffinityMask(s) = {c}
      <4>1. PICK e \in Cores : tcb[s].affinity = {e}
        BY <3>2 DEF TasksPinned
      <4> QED BY <3>2, <4>1 DEF MayRunOn, uxCoreAffinityMask
    <3>4. cores = {d \in Cores \ {c} : ~ yield[d] /\ uxPriority(current[d]) < uxPriority(MONITOR)}
      BY <1>4, <2>2, <2>7, <3>1, <3>3 DEF EvictionCores
    <3> HIDE DEF cores
    <3>5. CASE cores = {}
      <4>1. ASSUME NEW d \in Cores, d # c, ~ yield[d]
            PROVE  uxPriority(MONITOR) <= uxPriority(current[d])
        <5>1. ~ (uxPriority(current[d]) < uxPriority(MONITOR))
          BY <3>4, <3>5, <4>1
        <5>2. uxPriority(current[d]) \in Int /\ uxPriority(MONITOR) \in Int
          BY <1>2, <1>4
        <5> QED BY <5>1, <5>2
      <4> QED BY <1>5, <2>4, <4>1
    <3>6. CASE cores # {}
      <4>1. cores \in SUBSET Cores
        BY <3>4
      <4>2. PICK d : d = WorstCore(cores)
        OBVIOUS
      <4>3. d \in cores
        BY <1>2, <3>6, <4>1, <4>2, WorstCoreFacts
      <4>4. d \in Cores /\ d # c /\ ~ yield[d] /\ uxPriority(current[d]) < uxPriority(MONITOR)
        BY <3>4, <4>3
      <4>5. yield'[d]
        BY <1>1, <3>6, <4>2, <4>4
      <4>6. ASSUME NEW u \in Slots, tcb[u].affinity = {d}, Ahead(u, MONITOR, ready')
            PROVE  uxPriority(u) < uxPriority(MONITOR)
        <5>1. Occurs(u, ready)
          BY <1>3, <4>6 DEF Ahead, Occurs
        <5>2. CASE RunsOn(u) = {}
          <6>1. uxPriority(u) <= uxPriority(current[d])
            BY <4>4, <4>6, <5>1, <5>2 DEF Served, PinnedServed
          <6>2. uxPriority(u) \in Int /\ uxPriority(current[d]) \in Int /\ uxPriority(MONITOR) \in Int
            BY <1>2, <1>4, <4>4, ThreadFacts
          <6> QED BY <4>4, <6>1, <6>2
        <5>3. CASE RunsOn(u) # {}
          <6>1. PICK e \in Cores : current[e] = u
            BY <5>3 DEF RunsOn
          <6>2. e = d
            BY <1>7, <4>6, <6>1, ThreadFacts
          <6> QED BY <4>4, <6>1, <6>2
        <5> QED BY <5>2, <5>3
      <4> QED BY <2>5, <4>4, <4>5, <4>6
    <3> QED BY <3>5, <3>6
  <2> QED BY <2>2, <2>6, <2>7 DEF RunsOn
<1> QED BY <1>8, <1>9 DEF Served

(* vTaskStartScheduler: every core is about to switch. *)
LEMMA ServedStart ==
    ASSUME \A c \in Cores : yield'[c] PROVE Served'
  BY DEF Served, PinnedServed, MonitorServed

(* Once no switch is pending a task waits only for its betters. *)
LEMMA ServedIsHighest ==
    ASSUME KernelInv, TasksPinned, Served, \A c \in Cores : ~ yield[c],
           NEW t, Occurs(t, ready), RunsOn(t) = {}, NEW c \in uxCoreAffinityMask(t)
    PROVE  uxPriority(t) <= uxPriority(current[c])
<1>1. t \in Threads
  BY DEF KernelInv, KernelTyped, Occurs
<1>2. CASE t \in Slots
  <2>1. PICK d \in Cores : tcb[t].affinity = {d}
    BY <1>2 DEF TasksPinned
  <2>2. c = d
    BY <1>2, <2>1 DEF uxCoreAffinityMask
  <2> QED BY <1>2, <2>1, <2>2 DEF Served, PinnedServed
<1>3. CASE t = MONITOR
  <2>1. c \in Cores
    BY <1>3, ThreadFacts DEF uxCoreAffinityMask
  <2> QED BY <1>3, <2>1 DEF Served, MonitorServed, MonitorNext
<1> QED BY <1>1, <1>2, <1>3, ThreadFacts

(* A pinned task that is evicted has no other core to go to: nobody else   *)
(* is asked to switch.                                                     *)
LEMMA PinnedEviction ==
    ASSUME MasksAndPriorities, KernelInv, TasksPinned, NEW c \in Cores, SwitchContext(c),
           current[c] = MONITOR => ~ Occurs(MONITOR, ready)
    PROVE  \A d \in Cores : yield'[d] => yield[d] /\ d # c
<1> DEFINE s == Selected(c)
           e == current[c]
           cores == IF s # e /\ IsReady(e) THEN EvictionCores(c, e, s) ELSE {}
<1>1. yield' = [d \in Cores |-> IF d = c THEN FALSE
                                ELSE yield[d] \/ (cores # {} /\ d = WorstCore(cores))]
  BY DEF SwitchContext
<1>2. cores = {}
  <2> SUFFICES ASSUME IsReady(e) PROVE EvictionCores(c, e, s) = {}
    OBVIOUS
  <2>1. Occurs(e, ready) /\ e \in Threads
    BY DEF IsReady, Occurs, KernelInv, KernelTyped
  <2>2. e \in Slots /\ e # IDLE
    BY <2>1, ThreadFacts
  <2>3. c \in uxCoreAffinityMask(e)
    BY <2>2 DEF KernelInv, OneCoreAtATime
  <2>4. uxCoreAffinityMask(e) = {c}
    BY <2>1, <2>2, <2>3 DEF TasksPinned, uxCoreAffinityMask
  <2>5. c \in uxCoreAffinityMask(s)
    <3>1. CASE s = IDLE
      BY <3>1, ThreadFacts DEF uxCoreAffinityMask
    <3>2. CASE s # IDLE
      BY <3>2, SelectedIsBest DEF MayRunOn
    <3> QED BY <3>1, <3>2
  <2> HIDE DEF s, e
  <2> QED BY <2>4, <2>5 DEF EvictionCores
<1> QED BY <1>1, <1>2

=============================================================================
