----------------------------- MODULE LedProofs -----------------------------
(***************************************************************************)
(* Theorems about led_task (module LedTasks), for every number of tasks    *)
(* and cores and every table: the cores execute the ready tasks of highest *)
(* priority, and the tasks that have a core to themselves meet their       *)
(* deadlines, whatever the others do.                                      *)
(***************************************************************************)
EXTENDS LedTasks, KernelProofs, FunctionTheorems

----------------------------------------------------------------------------
(* The counting argument, about what the cores run (cur), the switches     *)
(* asked for (p) and the ready tasks (S). A task of a lower number has a   *)
(* higher priority.                                                        *)

Pending(p) == {c \in Cores : p[c]}

(* The ready tasks that no core goes on executing. *)
Waiting(cur, p, S) == {u \in S : \A c \in Cores : cur[c] = u => p[c]}

UpTo(t, W) == {u \in W : u <= t}

Over(cur, c, t) == cur[c] \in LedTask /\ cur[c] < t

(* A task that waits finds better ones on all cores that go on, or enough  *)
(* switches have been asked for to serve it and all before it.             *)
Covered(cur, p, S) ==
    \A t \in Waiting(cur, p, S) :
        \/ \A c \in Cores : ~ p[c] => Over(cur, c, t)
        \/ Cardinality(UpTo(t, Waiting(cur, p, S))) <= Cardinality(Pending(p))

CoresTyped(cur) ==
    /\ cur \in [Cores -> LedTask \cup {IDLE}]
    /\ \A c, d \in Cores : cur[c] = cur[d] /\ cur[c] # IDLE => c = d

LEMMA LedNumbers ==
    /\ NUM_OF_TASK \in Nat \ {0} /\ configNUMBER_OF_CORES \in Nat \ {0}
    /\ LedTask = 0 .. NUM_OF_TASK - 1 /\ Cores = 0 .. configNUMBER_OF_CORES - 1
    /\ IDLE \notin LedTask /\ LedTask \subseteq Slots /\ LedTask \subseteq Nat
    /\ IsFiniteSet(LedTask) /\ IsFiniteSet(Cores) /\ Cardinality(Cores) = configNUMBER_OF_CORES
<1>1. NUM_OF_TASK \in Nat \ {0} /\ configNUMBER_OF_CORES \in Nat \ {0}
  BY TaskCountAssumption, CoreCountAssumption
<1>2. IsFiniteSet(0 .. NUM_OF_TASK - 1) /\ IsFiniteSet(0 .. configNUMBER_OF_CORES - 1)
      /\ Cardinality(0 .. configNUMBER_OF_CORES - 1) = configNUMBER_OF_CORES
  <2>1. NUM_OF_TASK - 1 \in Int /\ configNUMBER_OF_CORES - 1 \in Int /\ 0 \in Int
    BY <1>1
  <2>2. IsFiniteSet(0 .. NUM_OF_TASK - 1)
    BY <2>1, FS_Interval
  <2>3. /\ IsFiniteSet(0 .. configNUMBER_OF_CORES - 1)
        /\ Cardinality(0 .. configNUMBER_OF_CORES - 1) =
             IF 0 > configNUMBER_OF_CORES - 1 THEN 0 ELSE configNUMBER_OF_CORES - 1 - 0 + 1
    BY <2>1, FS_Interval
  <2> QED BY <1>1, <2>2, <2>3
<1> QED BY <1>1, <1>2 DEF LedTask, Cores, Slots, MAX_NUM_TASKS, IDLE, NULL

LEMMA Counts ==
    ASSUME NEW cur, NEW p, NEW S \in SUBSET LedTask, NEW t
    PROVE  /\ IsFiniteSet(Pending(p)) /\ Cardinality(Pending(p)) \in Nat
           /\ IsFiniteSet(UpTo(t, Waiting(cur, p, S)))
           /\ Cardinality(UpTo(t, Waiting(cur, p, S))) \in Nat
<1>1. Pending(p) \in SUBSET Cores /\ UpTo(t, Waiting(cur, p, S)) \in SUBSET LedTask
  BY DEF Pending, UpTo, Waiting
<1>2. IsFiniteSet(Pending(p)) /\ IsFiniteSet(UpTo(t, Waiting(cur, p, S)))
  BY <1>1, LedNumbers, FS_Subset
<1> QED BY <1>2, FS_CardinalityType

(* If a core goes on with something worse than t, there are switches for   *)
(* all that wait before t.                                                 *)
LEMMA CoveredBefore ==
    ASSUME NEW cur, NEW p, NEW S \in SUBSET LedTask, Covered(cur, p, S),
           NEW t \in LedTask, NEW c \in Cores, ~ p[c], ~ Over(cur, c, t)
    PROVE  LET B == {u \in Waiting(cur, p, S) : u < t}
           IN IsFiniteSet(B) /\ Cardinality(B) \in Nat /\ Cardinality(B) <= Cardinality(Pending(p))
<1> DEFINE W == Waiting(cur, p, S)
           B == {u \in W : u < t}
<1>1. W \subseteq LedTask /\ Cardinality(Pending(p)) \in Nat
  BY Counts DEF Waiting
<1>2. IsFiniteSet(B) /\ Cardinality(B) \in Nat
  <2>1. B \in SUBSET LedTask
    BY <1>1
  <2> HIDE DEF B
  <2>2. IsFiniteSet(B)
    BY <2>1, LedNumbers, FS_Subset
  <2> QED BY <2>2, FS_CardinalityType
<1>3. CASE B = {}
  BY <1>1, <1>3, FS_EmptySet
<1>4. CASE B # {}
  <2>1. t \in Nat /\ B \in SUBSET (0 .. t)
    BY <1>1, LedNumbers
  <2>2. PICK m \in B : \A u \in B : u <= m
    <3> HIDE DEF B
    <3> QED BY <1>4, <2>1, MaxIsGreatest
  <2>3. m \in W /\ m \in LedTask /\ m < t
    BY <1>1, <2>2
  <2>4. ~ Over(cur, c, m)
    BY <2>3, LedNumbers DEF Over
  <2>5. Cardinality(UpTo(m, W)) <= Cardinality(Pending(p))
    BY <2>3, <2>4 DEF Covered
  <2>6. UpTo(m, W) = B
    <3>1. \A u \in W : u \in Nat
      BY <1>1, LedNumbers
    <3>2. \A u \in W : u <= m => u < t
      <4>1. m \in Nat /\ t \in Nat
        BY <2>3, LedNumbers
      <4> QED BY <2>3, <3>1, <4>1
    <3> QED BY <2>2, <3>2 DEF UpTo
  <2> QED BY <1>2, <2>5, <2>6
<1> QED BY <1>2, <1>3, <1>4

LEMMA OneMore ==
    ASSUME NEW T, IsFiniteSet(T), NEW x
    PROVE  /\ IsFiniteSet(T \cup {x}) /\ Cardinality(T \cup {x}) \in Nat
           /\ Cardinality(T \cup {x}) <= Cardinality(T) + 1
<1>1. /\ IsFiniteSet(T \cup {x})
      /\ Cardinality(T \cup {x}) = IF x \in T THEN Cardinality(T) ELSE Cardinality(T) + 1
  BY FS_AddElement
<1>2. Cardinality(T) \in Nat /\ Cardinality(T \cup {x}) \in Nat
  BY <1>1, FS_CardinalityType
<1> QED BY <1>1, <1>2

(* A core is asked to switch, and its task remains ready or leaves. *)
LEMMA CoveredAsk ==
    ASSUME NEW cur, CoresTyped(cur), NEW p \in [Cores -> BOOLEAN], NEW S \in SUBSET LedTask,
           Covered(cur, p, S), NEW w \in Cores, ~ p[w],
           NEW R, R = S \/ R = S \ {cur[w]}
    PROVE  Covered(cur, [p EXCEPT ![w] = TRUE], R)
<1> DEFINE q == [p EXCEPT ![w] = TRUE]
           W == Waiting(cur, p, S)
           V == Waiting(cur, q, R)
           e == cur[w]
<1>1. R \in SUBSET LedTask /\ q \in [Cores -> BOOLEAN] /\ W \subseteq LedTask
  BY DEF Waiting
<1>2. \A c \in Cores : q[c] <=> p[c] \/ c = w
  OBVIOUS
<1> HIDE DEF q
<1>3. e \notin W
  BY DEF Waiting
<1>4. V \subseteq W \cup {e}
  BY <1>2 DEF CoresTyped, Waiting
<1>5. IsFiniteSet(Pending(p)) /\ Cardinality(Pending(p)) \in Nat
      /\ Cardinality(Pending(q)) = Cardinality(Pending(p)) + 1
  <2>1. Pending(q) = Pending(p) \cup {w} /\ w \notin Pending(p)
    BY <1>2 DEF Pending
  <2> QED BY <2>1, Counts, FS_AddElement
<1> HIDE DEF V, W, e
<1> SUFFICES ASSUME NEW t \in V, NEW c \in Cores, ~ q[c], ~ Over(cur, c, t)
             PROVE  Cardinality(UpTo(t, V)) <= Cardinality(Pending(q))
  BY DEF Covered, V, q
<1>6. ~ p[c] /\ t \in LedTask
  BY <1>1, <1>2 DEF V, Waiting
<1>7. /\ IsFiniteSet(UpTo(t, W)) /\ Cardinality(UpTo(t, W)) \in Nat
      /\ IsFiniteSet(UpTo(t, V)) /\ Cardinality(UpTo(t, V)) \in Nat
  BY <1>1, Counts DEF W, V
<1>8. CASE t \in W
  <2>1. Cardinality(UpTo(t, W)) <= Cardinality(Pending(p))
    BY <1>6, <1>8 DEF Covered, W
  <2>2. UpTo(t, V) \subseteq UpTo(t, W) \cup {e}
    BY <1>4 DEF UpTo
  <2>3. /\ IsFiniteSet(UpTo(t, W) \cup {e})
        /\ Cardinality(UpTo(t, W) \cup {e}) <= Cardinality(UpTo(t, W)) + 1
    BY <1>7, OneMore
  <2>4. Cardinality(UpTo(t, V)) <= Cardinality(UpTo(t, W) \cup {e})
    BY <2>2, <2>3, FS_Subset
  <2>5. Cardinality(UpTo(t, W) \cup {e}) \in Nat
    BY <2>3, FS_CardinalityType
  <2> QED BY <1>5, <1>7, <2>1, <2>3, <2>4, <2>5
<1>9. CASE t \notin W
  <2> DEFINE B == {u \in W : u < t}
  <2>1. t = e
    BY <1>4, <1>9
  <2>2. ~ Over(cur, w, t)
    BY <1>6, <2>1, LedNumbers DEF Over, e
  <2>3. IsFiniteSet(B) /\ Cardinality(B) \in Nat /\ Cardinality(B) <= Cardinality(Pending(p))
    BY <1>6, <2>2, CoveredBefore DEF W
  <2>4. UpTo(t, V) \subseteq B \cup {t}
    <3>1. \A u \in V : u \in Nat /\ (u \in W \/ u = t)
      BY <1>1, <1>4, <2>1, LedNumbers DEF V, Waiting
    <3>2. t \in Nat
      BY <1>6, LedNumbers
    <3>3. \A u \in V : u <= t => u < t \/ u = t
      <4> SUFFICES ASSUME NEW u \in V, u <= t PROVE u < t \/ u = t
        OBVIOUS
      <4>1. u \in Nat
        BY <3>1
      <4> QED BY <3>2, <4>1
    <3> QED BY <3>1, <3>3 DEF UpTo
  <2> HIDE DEF B
  <2>5. IsFiniteSet(B \cup {t}) /\ Cardinality(B \cup {t}) <= Cardinality(B) + 1
    BY <2>3, OneMore
  <2>6. Cardinality(UpTo(t, V)) <= Cardinality(B \cup {t}) /\ Cardinality(B \cup {t}) \in Nat
    BY <2>4, <2>5, FS_Subset, FS_CardinalityType
  <2> QED BY <1>5, <1>7, <2>3, <2>5, <2>6
<1> QED BY <1>8, <1>9

(* Idle cores are asked to switch: nobody begins to wait. *)
LEMMA CoveredIdle ==
    ASSUME NEW cur, NEW p, NEW q, NEW S \in SUBSET LedTask, Covered(cur, p, S),
           \A c \in Cores : p[c] => q[c],
           \A c \in Cores : q[c] /\ ~ p[c] => cur[c] = IDLE
    PROVE  Covered(cur, q, S)
<1>1. Waiting(cur, q, S) = Waiting(cur, p, S)
  BY LedNumbers DEF Waiting
<1>2. Pending(p) \subseteq Pending(q)
  BY DEF Pending
<1>3. IsFiniteSet(Pending(q)) /\ Cardinality(Pending(p)) <= Cardinality(Pending(q))
  BY <1>2, Counts, FS_Subset
<1>4. Cardinality(Pending(p)) \in Nat /\ Cardinality(Pending(q)) \in Nat
  BY Counts
<1> SUFFICES ASSUME NEW t \in Waiting(cur, p, S), NEW c \in Cores, ~ q[c], ~ Over(cur, c, t)
             PROVE  Cardinality(UpTo(t, Waiting(cur, p, S))) <= Cardinality(Pending(q))
  BY <1>1 DEF Covered
<1>5. Cardinality(UpTo(t, Waiting(cur, p, S))) <= Cardinality(Pending(p))
  BY DEF Covered
<1>6. Cardinality(UpTo(t, Waiting(cur, p, S))) \in Nat
  BY Counts
<1> QED BY <1>3, <1>4, <1>5, <1>6

(* A task wakes up and no core that goes on is worse. *)
LEMMA CoveredWake ==
    ASSUME NEW cur, NEW p, NEW S \in SUBSET LedTask, Covered(cur, p, S),
           NEW d \in LedTask, d \notin S, \A c \in Cores : cur[c] # d,
           \A c \in Cores : ~ p[c] => Over(cur, c, d)
    PROVE  Covered(cur, p, S \cup {d})
<1> DEFINE W == Waiting(cur, p, S)
           V == Waiting(cur, p, S \cup {d})
<1>1. V = W \cup {d} /\ W \subseteq LedTask /\ d \notin W
  BY DEF Waiting
<1> HIDE DEF V, W
<1> SUFFICES ASSUME NEW t \in V, NEW c \in Cores, ~ p[c], ~ Over(cur, c, t)
             PROVE  Cardinality(UpTo(t, V)) <= Cardinality(Pending(p))
  BY DEF Covered, V
<1>2. t \in W /\ t \in LedTask
  BY <1>1
<1>3. Cardinality(UpTo(t, W)) <= Cardinality(Pending(p))
  BY <1>2 DEF Covered, W
<1>4. ~ (d <= t)
  BY <1>2, LedNumbers DEF Over
<1>5. UpTo(t, V) = UpTo(t, W)
  BY <1>1, <1>4 DEF UpTo
<1> QED BY <1>3, <1>5

(* A task wakes up and the worst of the cores that go on, which is worse   *)
(* than the task, is asked to switch.                                      *)
LEMMA CoveredWakeAsk ==
    ASSUME NEW cur, CoresTyped(cur), NEW p \in [Cores -> BOOLEAN], NEW S \in SUBSET LedTask,
           Covered(cur, p, S),
           NEW d \in LedTask, d \notin S, \A c \in Cores : cur[c] # d,
           NEW w \in Cores, ~ p[w], ~ Over(cur, w, d),
           \A c \in Cores : ~ p[c] => cur[w] = IDLE \/ (cur[c] \in LedTask /\ cur[c] <= cur[w])
    PROVE  Covered(cur, [p EXCEPT ![w] = TRUE], S \cup {d})
<1> DEFINE q == [p EXCEPT ![w] = TRUE]
           W == Waiting(cur, p, S)
           V == Waiting(cur, q, S \cup {d})
           e == cur[w]
           B == {u \in W : u < d}
<1>1. W \subseteq LedTask /\ V \subseteq LedTask
  BY DEF Waiting
<1>2. \A c \in Cores : q[c] <=> p[c] \/ c = w
  OBVIOUS
<1> HIDE DEF q
<1>3. e \notin W
  BY DEF Waiting
<1>4. V \subseteq W \cup {e, d}
  BY <1>2 DEF CoresTyped, Waiting
<1>5. /\ Cardinality(Pending(p)) \in Nat
      /\ Cardinality(Pending(q)) = Cardinality(Pending(p)) + 1
  <2>1. Pending(q) = Pending(p) \cup {w} /\ w \notin Pending(p)
    BY <1>2 DEF Pending
  <2> QED BY <2>1, Counts, FS_AddElement
<1>6. e \in LedTask \cup {IDLE}
  BY DEF CoresTyped
<1>7. IsFiniteSet(B) /\ Cardinality(B) \in Nat /\ Cardinality(B) <= Cardinality(Pending(p))
  BY CoveredBefore
<1>8. \A c \in Cores : ~ p[c] /\ e \in LedTask => cur[c] \in LedTask /\ cur[c] <= e
  BY LedNumbers
<1>9. e \in LedTask => d <= e
  BY LedNumbers DEF Over
<1>10. S \cup {d} \in SUBSET LedTask
  OBVIOUS
<1>11. \A c \in Cores : cur[c] = e /\ e # IDLE => c = w
  BY DEF CoresTyped
<1> HIDE DEF V, W, e
<1> SUFFICES ASSUME NEW t \in V, NEW c \in Cores, ~ q[c], ~ Over(cur, c, t)
             PROVE  Cardinality(UpTo(t, V)) <= Cardinality(Pending(q))
  BY DEF Covered, V, q
<1>12. ~ p[c] /\ t \in LedTask /\ c # w
  BY <1>1, <1>2
<1>13. /\ IsFiniteSet(UpTo(t, W)) /\ Cardinality(UpTo(t, W)) \in Nat
       /\ IsFiniteSet(UpTo(t, V)) /\ Cardinality(UpTo(t, V)) \in Nat
  BY <1>10, Counts DEF W, V
<1>14. \A u \in V : u \in Nat
  BY <1>1, LedNumbers
<1>15. t \in Nat /\ d \in Nat /\ t \in Int
  BY <1>12, LedNumbers
<1>16. e \in LedTask => ~ (e <= t)
  <2> SUFFICES ASSUME e \in LedTask, e <= t PROVE FALSE
    OBVIOUS
  <2>1. cur[c] \in LedTask /\ cur[c] <= e /\ cur[c] # e
    BY <1>8, <1>11, <1>12, LedNumbers
  <2>2. cur[c] \in Nat /\ e \in Nat
    BY <2>1, LedNumbers
  <2>3. cur[c] < t
    BY <1>15, <2>1, <2>2
  <2> QED BY <2>1, <2>3 DEF Over
<1>17. ASSUME NEW T, IsFiniteSet(T), Cardinality(T) \in Nat, Cardinality(T) <= Cardinality(Pending(p)),
              UpTo(t, V) \subseteq T \cup {d}
       PROVE  Cardinality(UpTo(t, V)) <= Cardinality(Pending(q))
  <2>1. /\ IsFiniteSet(T \cup {d}) /\ Cardinality(T \cup {d}) \in Nat
        /\ Cardinality(T \cup {d}) <= Cardinality(T) + 1
    BY <1>17, OneMore
  <2>2. Cardinality(UpTo(t, V)) <= Cardinality(T \cup {d})
    BY <1>17, <2>1, FS_Subset
  <2> QED BY <1>5, <1>13, <1>17, <2>1, <2>2
<1>18. e \notin UpTo(t, V)
  <2> SUFFICES ASSUME e \in V, e <= t PROVE FALSE
    BY DEF UpTo
  <2> QED BY <1>1, <1>16
<1>19. CASE t = d
  <2>1. UpTo(t, V) \subseteq B \cup {d}
    <3> SUFFICES ASSUME NEW u \in V, u <= t, u # d PROVE u \in B
      BY DEF UpTo
    <3>1. u \in W
      <4>1. u \in UpTo(t, V)
        BY DEF UpTo
      <4> QED BY <1>4, <1>18, <4>1
    <3>2. u < d
      BY <1>14, <1>15, <1>19
    <3> QED BY <3>1, <3>2
  <2> HIDE DEF B
  <2> QED BY <1>7, <1>17, <2>1
<1>20. CASE t # d
  <2>1. t \in UpTo(t, V)
    BY <1>15 DEF UpTo
  <2>2. t \in W
    BY <1>4, <1>18, <1>20, <2>1 DEF UpTo
  <2>3. Cardinality(UpTo(t, W)) <= Cardinality(Pending(p))
    BY <1>12, <2>2 DEF Covered, W
  <2>4. UpTo(t, V) \subseteq UpTo(t, W) \cup {d}
    BY <1>4, <1>18 DEF UpTo
  <2> QED BY <1>13, <1>17, <2>3, <2>4
<1> QED BY <1>19, <1>20

(* A core that was asked to switch takes the best task that no other core  *)
(* executes, or none if there is none.                                     *)
LEMMA CoveredSwitch ==
    ASSUME NEW cur, CoresTyped(cur), NEW p \in [Cores -> BOOLEAN], NEW S \in SUBSET LedTask,
           Covered(cur, p, S), NEW c \in Cores, p[c], NEW s \in LedTask \cup {IDLE},
           s # IDLE => s \in S /\ \A d \in Cores : cur[d] = s => d = c,
           \A u \in S : (\A d \in Cores : cur[d] = u => d = c) => s # IDLE /\ s <= u
    PROVE  Covered([cur EXCEPT ![c] = s], [p EXCEPT ![c] = FALSE], S)
<1> DEFINE new == [cur EXCEPT ![c] = s]
           q == [p EXCEPT ![c] = FALSE]
           W == Waiting(cur, p, S)
           V == Waiting(new, q, S)
<1>1. /\ \A d \in Cores : new[d] = IF d = c THEN s ELSE cur[d]
      /\ \A d \in Cores : q[d] <=> p[d] /\ d # c
      /\ W \subseteq LedTask
  BY DEF CoresTyped, Waiting
<1> HIDE DEF new, q
<1>2. V = W \ {s}
  BY <1>1 DEF Waiting
<1>3. s # IDLE => s \in W
  BY DEF Waiting
<1>4. IsFiniteSet(Pending(p)) /\ Cardinality(Pending(p)) \in Nat
      /\ Cardinality(Pending(q)) = Cardinality(Pending(p)) - 1
      /\ Pending(q) = Pending(p) \ {c}
  <2>1. Pending(q) = Pending(p) \ {c} /\ c \in Pending(p)
    BY <1>1 DEF Pending
  <2> QED BY <2>1, Counts, FS_RemoveElement
<1>5. \A u \in W : \A d \in Cores : cur[d] = u => p[d]
  BY DEF Waiting
<1> HIDE DEF V, W
<1> SUFFICES ASSUME NEW t \in V, NEW d \in Cores, ~ q[d], ~ Over(new, d, t)
             PROVE  Cardinality(UpTo(t, V)) <= Cardinality(Pending(q))
  BY DEF Covered, V, new, q
<1>6. t \in W /\ t \in LedTask /\ t \in Nat /\ t # s
  BY <1>1, <1>2, LedNumbers
<1>7. /\ IsFiniteSet(UpTo(t, W)) /\ Cardinality(UpTo(t, W)) \in Nat
      /\ IsFiniteSet(UpTo(t, V)) /\ Cardinality(UpTo(t, V)) \in Nat
  BY Counts DEF W, V
<1>8. CASE s # IDLE /\ s < t
  <2>1. Over(new, c, t)
    BY <1>1, <1>8 DEF Over
  <2>2. ~ p[d] /\ ~ Over(cur, d, t)
    BY <1>1, <2>1 DEF Over
  <2>3. Cardinality(UpTo(t, W)) <= Cardinality(Pending(p))
    BY <1>6, <2>2 DEF Covered, W
  <2>4. UpTo(t, V) = UpTo(t, W) \ {s} /\ s \in UpTo(t, W)
    <3>1. s <= t
      BY <1>6, <1>8, LedNumbers
    <3> QED BY <1>2, <1>3, <1>8, <3>1 DEF UpTo
  <2>5. Cardinality(UpTo(t, V)) = Cardinality(UpTo(t, W)) - 1
    BY <1>7, <2>4, FS_RemoveElement
  <2> QED BY <1>4, <1>7, <2>3, <2>5
<1>9. CASE ~ (s # IDLE /\ s < t)
  <2> DEFINE U == UpTo(t, V)
             core == [u \in U |-> CHOOSE x \in Cores : cur[x] = u /\ x # c]
  <2>1. ASSUME NEW u \in U PROVE \E x \in Cores : cur[x] = u /\ x # c
    <3>1. u \in W /\ u # s /\ u <= t /\ u \in S
      BY <1>2 DEF UpTo, W, Waiting
    <3>2. u \in LedTask /\ u \in Nat
      BY <3>1, LedNumbers
    <3>3. ~ (s # IDLE /\ s <= u)
      <4> SUFFICES ASSUME s # IDLE, s <= u PROVE FALSE
        OBVIOUS
      <4>1. s \in Nat
        BY LedNumbers
      <4>2. s < t
        BY <1>6, <3>1, <3>2, <4>1
      <4> QED BY <1>9, <4>2
    <3> QED BY <3>1, <3>3
  <2>2. \A u \in U : core[u] \in Cores /\ cur[core[u]] = u /\ core[u] # c
    BY <2>1
  <2>3. \A u \in U : u \in W
    BY <1>2 DEF UpTo
  <2>4. \A u \in U : core[u] \in Pending(q)
    BY <1>4, <1>5, <2>2, <2>3 DEF Pending
  <2>5. core \in Injection(U, Pending(q))
    <3>1. core \in [U -> Pending(q)]
      BY <2>4
    <3>2. \A u, x \in U : core[u] = core[x] => u = x
      BY <2>2
    <3> HIDE DEF core, U
    <3> QED BY <3>1, <3>2 DEF Injection, IsInjective
  <2>6. IsFiniteSet(Pending(q))
    BY Counts
  <2> HIDE DEF core, U
  <2>7. Cardinality(U) <= Cardinality(Pending(q))
    BY <2>5, <2>6, FS_Injection
  <2> QED BY <2>7 DEF U
<1> QED BY <1>8, <1>9

(* Once no switch is asked for, nobody waits below a worse task. *)
LEMMA CoveredTop ==
    ASSUME NEW cur, NEW p, NEW S \in SUBSET LedTask, Covered(cur, p, S), \A c \in Cores : ~ p[c],
           NEW t \in S, \A c \in Cores : cur[c] # t
    PROVE  \A c \in Cores : Over(cur, c, t)
<1>1. t \in Waiting(cur, p, S) /\ t \in LedTask
  BY DEF Waiting
<1>2. t \in UpTo(t, Waiting(cur, p, S))
  BY <1>1, LedNumbers DEF UpTo
<1>3. Pending(p) = {}
  BY DEF Pending
<1>4. Cardinality(UpTo(t, Waiting(cur, p, S))) # 0
  BY <1>2, Counts, FS_EmptySet
<1>5. Cardinality(Pending(p)) = 0 /\ Cardinality(UpTo(t, Waiting(cur, p, S))) \in Nat
  BY <1>3, FS_EmptySet, Counts
<1> QED BY <1>1, <1>4, <1>5 DEF Covered

(* The tasks of highest priority, one for each core, all have a core. *)
LEMMA TopHasCore ==
    ASSUME NEW cur, CoresTyped(cur), NEW p, NEW S \in SUBSET LedTask, Covered(cur, p, S),
           \A c \in Cores : ~ p[c], NEW t \in S, t < configNUMBER_OF_CORES
    PROVE  \E c \in Cores : cur[c] = t
<1> SUFFICES ASSUME \A c \in Cores : cur[c] # t PROVE FALSE
  OBVIOUS
<1>1. \A c \in Cores : cur[c] \in LedTask /\ cur[c] < t
  BY CoveredTop DEF Over
<1>2. t \in Nat /\ configNUMBER_OF_CORES \in Nat
  BY LedNumbers
<1>3. \A c \in Cores : cur[c] \in 0 .. t - 1
  <2> SUFFICES ASSUME NEW c \in Cores PROVE cur[c] \in 0 .. t - 1
    OBVIOUS
  <2>1. cur[c] \in Nat /\ cur[c] < t
    BY <1>1, LedNumbers
  <2> QED BY <1>2, <2>1
<1>4. cur \in Injection(Cores, 0 .. t - 1)
  <2>1. cur \in [Cores -> 0 .. t - 1]
    BY <1>3 DEF CoresTyped
  <2>2. \A c, d \in Cores : cur[c] = cur[d] => c = d
    BY <1>1, LedNumbers DEF CoresTyped
  <2> QED BY <2>1, <2>2 DEF Injection, IsInjective
<1>5. IsFiniteSet(0 .. t - 1) /\ Cardinality(0 .. t - 1) = t
  <2>1. 0 \in Int /\ t - 1 \in Int
    BY <1>2
  <2>2. /\ IsFiniteSet(0 .. t - 1)
        /\ Cardinality(0 .. t - 1) = IF 0 > t - 1 THEN 0 ELSE t - 1 - 0 + 1
    BY <2>1, FS_Interval
  <2> QED BY <1>2, <2>2
<1>6. Cardinality(Cores) <= t
  BY <1>4, <1>5, FS_Injection
<1> QED BY <1>2, <1>6, LedNumbers

----------------------------------------------------------------------------
(* The kernel under led_task.                                              *)

LedTcb ==
    tcb = [s \in Slots |-> IF s \in LedTask
                             THEN [uxPriority |-> NUM_OF_TASK - s, affinity |-> Cores] ELSE NoTCB]

ReadyTasks == {t \in LedTask : Occurs(t, ready)}

(* Nobody but the tasks of led_task is in a list or on a core; the lists   *)
(* hold all of them from vTaskStartScheduler on, and no task is deleted.   *)
LedLists ==
    /\ deleted = {}
    /\ \A t : Occurs(t, ready) \/ Occurs(t, delayed) => t \in LedTask
    /\ \A c \in Cores : current[c] \in LedTask \cup {IDLE}
    /\ KernelInit \/ \A t \in LedTask : Occurs(t, ready) \/ Occurs(t, delayed)

KernelPart ==
    /\ LedTcb
    /\ KernelInv
    /\ LedLists
    /\ Covered(current, yield, ReadyTasks)

LEMMA LedFacts ==
    ASSUME LedTcb
    PROVE  /\ MasksAndPriorities
           /\ \A t \in LedTask : /\ t \in Threads /\ t \in Nat /\ uxCoreAffinityMask(t) = Cores
                                 /\ uxPriority(t) = NUM_OF_TASK - t
           /\ uxPriority(IDLE) = -1
           /\ uxCoreAffinityMask(IDLE) = Cores
<1> USE LedNumbers
<1>1. MasksAndPriorities
  <2>1. \A s \in Slots : tcb[s].affinity \subseteq Cores
    BY DEF LedTcb, NoTCB
  <2>2. \A s \in Slots : tcb[s].uxPriority \in 0 .. NUM_OF_TASK
    <3> SUFFICES ASSUME NEW s \in Slots PROVE tcb[s].uxPriority \in 0 .. NUM_OF_TASK
      OBVIOUS
    <3>1. CASE s \in LedTask
      <4>1. tcb[s].uxPriority = NUM_OF_TASK - s
        BY <3>1 DEF LedTcb
      <4> QED BY <3>1, <4>1
    <3>2. CASE s \notin LedTask
      BY <3>2 DEF LedTcb, NoTCB
    <3> QED BY <3>1, <3>2
  <2> QED BY <2>1, <2>2 DEF MasksAndPriorities
<1>2. ASSUME NEW t \in LedTask
      PROVE  /\ t \in Threads /\ t \in Nat /\ uxCoreAffinityMask(t) = Cores
             /\ uxPriority(t) = NUM_OF_TASK - t
  <2>1. t \in Slots /\ t # IDLE /\ t # MONITOR /\ t \in Threads
    BY ThreadFacts
  <2>2. tcb[t] = [uxPriority |-> NUM_OF_TASK - t, affinity |-> Cores]
    BY <2>1 DEF LedTcb
  <2> QED BY <2>1, <2>2 DEF uxPriority, uxCoreAffinityMask
<1>3. uxPriority(IDLE) = -1
  BY <1>1, MasksTyped
<1>4. uxCoreAffinityMask(IDLE) = Cores
  BY ThreadFacts DEF uxCoreAffinityMask
<1> QED BY <1>1, <1>2, <1>3, <1>4

(* What a core runs, against a task, by priority and by number. *)
LEMMA LedOrder ==
    ASSUME LedTcb, NEW t \in LedTask, NEW x \in LedTask \cup {IDLE}
    PROVE  /\ uxPriority(t) <= uxPriority(x) <=> x \in LedTask /\ x <= t
           /\ uxPriority(x) < uxPriority(t) <=> ~ (x \in LedTask /\ x <= t)
           /\ uxPriority(x) > uxPriority(t) <=> x \in LedTask /\ x < t
           /\ uxPriority(x) <= uxPriority(IDLE) <=> x = IDLE
<1>1. /\ uxPriority(t) = NUM_OF_TASK - t /\ t \in 0 .. NUM_OF_TASK - 1 /\ NUM_OF_TASK \in Nat
      /\ uxPriority(IDLE) = -1 /\ IDLE \notin LedTask
  BY LedFacts, LedNumbers
<1>2. CASE x \in LedTask
  <2>1. uxPriority(x) = NUM_OF_TASK - x /\ x \in 0 .. NUM_OF_TASK - 1
    BY <1>2, LedFacts, LedNumbers
  <2> QED BY <1>1, <1>2, <2>1
<1>3. CASE x = IDLE
  BY <1>1, <1>3
<1> QED BY <1>2, <1>3

LEMMA LedCores == ASSUME KernelPart PROVE CoresTyped(current)
<1>1. current \in [Cores -> LedTask \cup {IDLE}]
  BY DEF KernelPart, LedLists, KernelInv, KernelTyped
<1>2. \A c, d \in Cores : current[c] = current[d] /\ current[c] # IDLE => c = d
  BY DEF KernelPart, KernelInv, OneCoreAtATime, RunsOn
<1> QED BY <1>1, <1>2 DEF CoresTyped

(* What is true of the kernel if only the lists and the requests change. *)
LEMMA KernelPartKept ==
    ASSUME KernelPart, UNCHANGED <<tcb, current, deleted>>, KernelInv',
           Covered(current, yield', ReadyTasks'),
           \A t : Occurs(t, ready)' \/ Occurs(t, delayed)' <=> Occurs(t, ready) \/ Occurs(t, delayed),
           ~ KernelInit \/ KernelInit'
    PROVE  KernelPart'
<1>1. LedTcb'
  BY DEF KernelPart, LedTcb
<1>2. LedLists'
  BY DEF KernelPart, LedLists
<1> QED BY <1>1, <1>2 DEF KernelPart

(* A task on a core that goes on, and one whose kernel call is not held up.*)
LEMMA LedExecuting ==
    ASSUME KernelPart, NEW t \in LedTask, NEW c \in Cores, Executes(t, c)
    PROVE  /\ current[c] = t /\ current[c] # IDLE
           /\ Occurs(t, ready) /\ ~ Occurs(t, delayed) /\ ~ KernelInit
           /\ t \in ReadyTasks
<1>1. current[c] = t /\ current[c] # IDLE /\ (yield[c] => c \in signalled)
  BY LedNumbers DEF Executes
<1>2. Occurs(t, ready)
  BY <1>1 DEF KernelPart, LedLists, KernelInv, ExecutingListed, IsReady, Occurs
<1>3. ~ Occurs(t, delayed)
  BY <1>2 DEF KernelPart, KernelInv, OneListEach
<1>4. ~ KernelInit
  BY <1>1 DEF KernelInit
<1> QED BY <1>1, <1>2, <1>3, <1>4 DEF ReadyTasks

LEMMA LedCalling ==
    ASSUME KernelPart, NEW t \in LedTask, NEW c \in Cores, Calls(t, c)
    PROVE  /\ Executes(t, c) /\ ~ yield[c]
           /\ current[c] = t /\ current[c] # IDLE
           /\ Occurs(t, ready) /\ ~ Occurs(t, delayed) /\ ~ KernelInit
           /\ t \in ReadyTasks
<1>1. Executes(t, c) /\ ~ yield[c]
  BY DEF Calls, Executes
<1> QED BY <1>1, LedExecuting

(* The steps of a task between two kernel calls. *)
OwnCode(t, c) ==
    StartJob(t, c) \/ StartLoop(t, c) \/ SleepTurn(t, c) \/ EndJob(t, c) \/ Return(t, c)

LEMMA LedSteps ==
    ASSUME NEW t \in LedTask, NEW c \in Cores, TaskStep(t, c)
    PROVE  /\ Executes(t, c) /\ UNCHANGED <<tcb, rows>>
           /\ Entry(t, c) \/ Sleep(t, c) => Calls(t, c)
           /\ OwnCode(t, c) => UNCHANGED kernelVars
<1>1. Entry(t, c) \/ Sleep(t, c) => Calls(t, c) /\ UNCHANGED <<tcb, rows>>
  BY DEF Entry, Sleep
<1>2. OwnCode(t, c) => Executes(t, c) /\ UNCHANGED <<tcb, rows>> /\ UNCHANGED kernelVars
  BY DEF OwnCode, StartJob, StartLoop, SleepTurn, EndJob, Return
<1>3. Calls(t, c) => Executes(t, c)
  BY DEF Calls, Executes
<1> QED BY <1>1, <1>2, <1>3 DEF TaskStep, OwnCode

LEMMA LedDelay ==
    ASSUME KernelPart, UNCHANGED tcb, NEW t \in LedTask, NEW c \in Cores, Calls(t, c),
           NEW time, DelayUntilTick(c, time)
    PROVE  /\ KernelPart'
           /\ \A u : u # t => SameLists(u)
           /\ Occurs(t, delayed)' /\ ~ Occurs(t, ready)'
           /\ UNCHANGED xTickCount
<1>1. /\ current[c] = t /\ current[c] # IDLE /\ ~ yield[c] /\ Occurs(t, ready) /\ ~ KernelInit
      /\ KernelInv
  BY LedCalling DEF KernelPart
<1>2. /\ KernelInv' /\ \A u : u # t => SameLists(u)
      /\ Occurs(t, delayed)' /\ UNCHANGED <<xTickCount, current, deleted>>
      /\ yield' = [yield EXCEPT ![c] = TRUE]
  BY <1>1, DelayEffect
<1>3. ~ Occurs(t, ready)'
  BY <1>2 DEF KernelInv, OneListEach
<1>4. ReadyTasks' = ReadyTasks \ {current[c]}
  BY <1>1, <1>2, <1>3 DEF ReadyTasks, SameLists
<1>5. ReadyTasks \in SUBSET LedTask /\ yield \in [Cores -> BOOLEAN]
  BY <1>1 DEF ReadyTasks, KernelInv, KernelTyped
<1>6. Covered(current, yield', ReadyTasks')
  BY <1>1, <1>2, <1>4, <1>5, LedCores, CoveredAsk DEF KernelPart
<1>7. \A u : Occurs(u, ready)' \/ Occurs(u, delayed)' <=> Occurs(u, ready) \/ Occurs(u, delayed)
  BY <1>1, <1>2 DEF SameLists
<1> QED BY <1>1, <1>2, <1>3, <1>6, <1>7, KernelPartKept

LEMMA LedYield ==
    ASSUME KernelPart, UNCHANGED tcb, NEW t \in LedTask, NEW c \in Cores, Calls(t, c),
           YieldWithinAPI(c)
    PROVE  KernelPart' /\ UNCHANGED <<xTickCount, ready, delayed, wake>>
<1>1. /\ current[c] = t /\ ~ yield[c] /\ ~ KernelInit /\ KernelInv
  BY LedCalling DEF KernelPart
<1>2. /\ KernelInv' /\ UNCHANGED <<xTickCount, ready, delayed, wake, current, deleted>>
      /\ yield' = [yield EXCEPT ![c] = TRUE]
  BY <1>1, YieldEffect DEF YieldWithinAPI
<1>3. ReadyTasks' = ReadyTasks
  BY <1>2 DEF ReadyTasks, Occurs
<1>4. ReadyTasks \in SUBSET LedTask /\ yield \in [Cores -> BOOLEAN]
  BY <1>1 DEF ReadyTasks, KernelInv, KernelTyped
<1>5. Covered(current, yield', ReadyTasks')
  BY <1>1, <1>2, <1>3, <1>4, LedCores, CoveredAsk DEF KernelPart
<1>6. \A u : Occurs(u, ready)' \/ Occurs(u, delayed)' <=> Occurs(u, ready) \/ Occurs(u, delayed)
  BY <1>2 DEF Occurs
<1> QED BY <1>1, <1>2, <1>5, <1>6, KernelPartKept

(* vTaskSwitchContext: whoever is evicted may use no core that its         *)
(* successor may not, so nobody else is asked to switch.                   *)
LEMMA LedSwitch ==
    ASSUME KernelPart, UNCHANGED tcb, NEW c \in Cores, SwitchContext(c)
    PROVE  /\ KernelPart' /\ UNCHANGED <<xTickCount, delayed, wake>>
           /\ \A t : SameLists(t)
<1> DEFINE s == Selected(c)
           e == current[c]
           cores == IF s # e /\ IsReady(e) THEN EvictionCores(c, e, s) ELSE {}
<1>1. KernelInv /\ LedTcb /\ MasksAndPriorities /\ yield[c] /\ LedLists
  BY LedFacts DEF KernelPart, SwitchContext
<1>2. /\ yield' = [d \in Cores |-> IF d = c THEN FALSE
                                   ELSE yield[d] \/ (cores # {} /\ d = WorstCore(cores))]
      /\ UNCHANGED <<xTickCount, delayed, wake>>
  BY DEF SwitchContext
<1>3. /\ KernelInv' /\ \A t : SameLists(t)
      /\ current' = [current EXCEPT ![c] = s]
  BY <1>1, SwitchEffect
<1>4. \/ s = IDLE /\ \A u : Occurs(u, ready) => ~ MayRunOn(u, c)
      \/ /\ Occurs(s, ready) /\ MayRunOn(s, c)
         /\ \A u : Occurs(u, ready) /\ MayRunOn(u, c) => uxPriority(u) <= uxPriority(s)
  BY <1>1, SelectedIsBest
<1>5. s \in LedTask \cup {IDLE}
  BY <1>1, <1>4 DEF LedLists
<1> HIDE DEF s
<1>6. cores = {}
  <2> SUFFICES ASSUME IsReady(e) PROVE EvictionCores(c, e, s) = {}
    OBVIOUS
  <2>1. e \in LedTask
    BY <1>1 DEF IsReady, Occurs, LedLists
  <2>2. uxCoreAffinityMask(e) = Cores /\ uxCoreAffinityMask(s) = Cores
    BY <1>1, <1>5, <2>1, LedFacts
  <2> QED BY <2>2 DEF EvictionCores
<1>7. yield \in [Cores -> BOOLEAN] /\ current \in [Cores -> Threads \cup {IDLE}]
  BY <1>1 DEF KernelInv, KernelTyped
<1>8. yield' = [yield EXCEPT ![c] = FALSE]
  <2> HIDE DEF cores
  <2> QED BY <1>2, <1>6, <1>7
<1>9. ReadyTasks' = ReadyTasks /\ ReadyTasks \in SUBSET LedTask
  BY <1>3 DEF ReadyTasks, SameLists
<1>10. \A u \in ReadyTasks : MayRunOn(u, c) <=> \A d \in Cores : current[d] = u => d = c
  BY <1>1, LedFacts DEF ReadyTasks, MayRunOn, RunsOn
<1>11. s # IDLE => s \in ReadyTasks /\ \A d \in Cores : current[d] = s => d = c
  BY <1>4, <1>5, <1>10 DEF ReadyTasks
<1>12. ASSUME NEW u \in ReadyTasks, \A d \in Cores : current[d] = u => d = c
       PROVE  s # IDLE /\ s <= u
  <2>1. u \in LedTask /\ Occurs(u, ready) /\ MayRunOn(u, c)
    BY <1>10, <1>12 DEF ReadyTasks
  <2>2. uxPriority(u) <= uxPriority(s)
    BY <1>4, <2>1
  <2> QED BY <1>1, <1>5, <2>1, <2>2, LedOrder, LedNumbers
<1>13. Covered(current', yield', ReadyTasks')
  BY <1>1, <1>3, <1>5, <1>7, <1>8, <1>9, <1>11, <1>12, LedCores, CoveredSwitch DEF KernelPart
<1>14. LedTcb'
  BY <1>1 DEF LedTcb
<1>15. LedLists'
  <2>1. ~ KernelInit
    BY <1>1 DEF KernelInit
  <2>2. \A d \in Cores : current'[d] \in LedTask \cup {IDLE}
    BY <1>1, <1>3, <1>5, <1>7 DEF LedLists
  <2> QED BY <1>1, <1>3, <2>1, <2>2 DEF LedLists, SameLists
<1> QED BY <1>2, <1>3, <1>13, <1>14, <1>15 DEF KernelPart

(* prvYieldForTask for a task that has just woken up. *)
LEMMA LedWake ==
    ASSUME KernelPart, NEW p \in [Cores -> BOOLEAN], NEW S \in SUBSET LedTask,
           Covered(current, p, S),
           NEW d \in LedTask, d \notin S, RunsOn(d) = {}
    PROVE  Covered(current, YieldForTask(d, p), S \cup {d})
<1>1. KernelInv /\ LedTcb /\ MasksAndPriorities /\ CoresTyped(current)
  BY LedFacts, LedCores DEF KernelPart
<1>2. d \in Threads /\ uxCoreAffinityMask(d) = Cores
  BY <1>1, LedFacts
<1>3. \A c \in Cores : current[c] # d /\ current[c] \in LedTask \cup {IDLE}
  BY <1>1 DEF RunsOn, CoresTyped
<1>4. ASSUME NEW c \in Cores PROVE uxPriority(d) <= uxPriority(current[c]) <=> Over(current, c, d)
  <2>1. uxPriority(d) <= uxPriority(current[c]) <=> current[c] \in LedTask /\ current[c] <= d
    BY <1>1, <1>3, LedOrder
  <2>2. current[c] \in LedTask => (current[c] <= d <=> current[c] < d)
    <3>1. current[c] \in LedTask => current[c] \in Nat /\ d \in Nat
      BY LedNumbers
    <3> QED BY <1>3, <3>1
  <2> QED BY <2>1, <2>2 DEF Over
<1>5. CASE /\ YieldForTask(d, p) = p
           /\ \A c \in uxCoreAffinityMask(d) : p[c] \/ uxPriority(d) <= uxPriority(current[c])
  <2>1. \A c \in Cores : ~ p[c] => Over(current, c, d)
    BY <1>2, <1>4, <1>5
  <2> QED BY <1>3, <1>5, <2>1, CoveredWake
<1>6. CASE \E w \in uxCoreAffinityMask(d) :
              /\ ~ p[w] /\ uxPriority(current[w]) < uxPriority(d)
              /\ YieldForTask(d, p) = [p EXCEPT ![w] = TRUE]
              /\ \A c \in uxCoreAffinityMask(d) :
                    ~ p[c] /\ uxPriority(current[c]) < uxPriority(d)
                      => uxPriority(current[w]) <= uxPriority(current[c])
  <2>1. PICK w \in Cores :
              /\ ~ p[w] /\ uxPriority(current[w]) < uxPriority(d)
              /\ YieldForTask(d, p) = [p EXCEPT ![w] = TRUE]
              /\ \A c \in Cores :
                    ~ p[c] /\ uxPriority(current[c]) < uxPriority(d)
                      => uxPriority(current[w]) <= uxPriority(current[c])
    BY <1>2, <1>6
  <2>2. \A x \in LedTask \cup {IDLE} : uxPriority(x) \in Int
    BY <1>1, PrioritiesTyped, LedFacts
  <2>3. ~ Over(current, w, d)
    BY <1>3, <1>4, <2>1, <2>2
  <2>4. ASSUME NEW c \in Cores, ~ p[c], current[w] # IDLE
        PROVE  current[c] \in LedTask /\ current[c] <= current[w]
    <3>1. uxPriority(current[w]) <= uxPriority(current[c])
      <4>1. /\ uxPriority(current[w]) \in Int /\ uxPriority(current[c]) \in Int
            /\ uxPriority(d) \in Int
        BY <1>3, <2>2
      <4> QED BY <2>1, <2>4, <4>1
    <3>2. current[w] \in LedTask
      BY <1>3, <2>4
    <3> QED BY <1>1, <1>3, <3>1, <3>2, LedOrder
  <2>5. \A c \in Cores : ~ p[c] =>
           current[w] = IDLE \/ (current[c] \in LedTask /\ current[c] <= current[w])
    BY <2>4
  <2>6. Covered(current, [p EXCEPT ![w] = TRUE], S \cup {d})
    BY <1>1, <1>3, <2>1, <2>3, <2>5, CoveredWakeAsk
  <2> QED BY <2>1, <2>6
<1>7. \/ /\ YieldForTask(d, p) = p
         /\ \A c \in uxCoreAffinityMask(d) : p[c] \/ uxPriority(d) <= uxPriority(current[c])
      \/ \E w \in uxCoreAffinityMask(d) :
            /\ ~ p[w] /\ uxPriority(current[w]) < uxPriority(d)
            /\ YieldForTask(d, p) = [p EXCEPT ![w] = TRUE]
            /\ \A c \in uxCoreAffinityMask(d) :
                  ~ p[c] /\ uxPriority(current[c]) < uxPriority(d)
                    => uxPriority(current[w]) <= uxPriority(current[c])
  BY <1>1, <1>2, YieldForTaskAsks
<1> QED BY <1>5, <1>6, <1>7

(* xTaskIncrementTick: after each task it wakes, and with the idle cores   *)
(* that it asks at the end, there are switches enough.                     *)
LEMMA LedTick ==
    ASSUME KernelPart, UNCHANGED tcb, ~ KernelInit, \A c \in Cores : ~ yield[c], IncrementTick
    PROVE  KernelPart'
<1> DEFINE n == DueBy(xTickCount + 1)
           a == SubSeq(delayed, 1, n)
           S(k) == ReadyTasks \cup {delayed[j] : j \in 1 .. k}
<1>1. /\ KernelInv /\ LedTcb /\ LedLists
      /\ ready \in Seq(Threads) /\ delayed \in Seq(Threads) /\ yield \in [Cores -> BOOLEAN]
      /\ Once(delayed)
  BY DEF KernelPart, KernelInv, KernelTyped, OneListEach
<1>2. n \in 0 .. Len(delayed) /\ n \in Nat /\ Len(delayed) \in Nat
  <2>1. n \in 0 .. Len(delayed) /\ Len(delayed) \in Nat
    BY <1>1, DueByTyped, LenProperties
  <2> QED BY <2>1
<1>3. /\ ready' = ready \o a
      /\ yield' = [c \in Cores |-> YieldsFor(n)[c] \/ SharesItsPriority(c, ready')]
      /\ UNCHANGED current
  BY DEF IncrementTick
<1> HIDE DEF n
<1>4. PICK p \in [0 .. n -> [Cores -> BOOLEAN]] :
         /\ p[0] = yield /\ p[n] = YieldsFor(n)
         /\ \A k \in 1 .. n : p[k] = YieldForTask(delayed[k], p[k - 1])
  BY <1>1, <1>2, YieldsForSteps
<1>5. /\ a \in Seq(Threads) /\ Len(a) = n /\ \A k \in 1 .. n : a[k] = delayed[k]
  BY <1>1, <1>2, SubSeqProperties
<1> HIDE DEF a
<1>6. \A k \in 1 .. n : /\ delayed[k] \in LedTask /\ Occurs(delayed[k], delayed)
                        /\ k \in 1 .. Len(delayed)
  <2> SUFFICES ASSUME NEW k \in 1 .. n
               PROVE  delayed[k] \in LedTask /\ Occurs(delayed[k], delayed) /\ k \in 1 .. Len(delayed)
    OBVIOUS
  <2>1. k \in 1 .. Len(delayed)
    BY <1>2
  <2>2. Occurs(delayed[k], delayed)
    BY <2>1 DEF Occurs
  <2> QED BY <1>1, <2>1, <2>2 DEF LedLists
<1>7. \A k \in 1 .. n : RunsOn(delayed[k]) = {} /\ delayed[k] \notin ReadyTasks
  <2> SUFFICES ASSUME NEW k \in 1 .. n
               PROVE  RunsOn(delayed[k]) = {} /\ delayed[k] \notin ReadyTasks
    OBVIOUS
  <2>1. ~ Occurs(delayed[k], ready) /\ delayed[k] # IDLE
    BY <1>1, <1>6, LedNumbers DEF KernelInv, OneListEach
  <2>2. \A c \in Cores : current[c] # delayed[k]
    BY <1>1, <2>1 DEF KernelInv, CallersReady, IsReady, Occurs
  <2> QED BY <2>1, <2>2 DEF RunsOn, ReadyTasks
<1>8. ASSUME NEW k \in 0 .. n PROVE S(k) \in SUBSET LedTask
  BY <1>2, <1>6 DEF ReadyTasks
<1>9. ASSUME NEW k \in 0 .. n PROVE Covered(current, p[k], S(k))
  <2> DEFINE T == {j \in 0 .. n : ~ Covered(current, p[j], S(j))}
  <2> SUFFICES ASSUME T # {} PROVE FALSE
    OBVIOUS
  <2>1. T \in SUBSET Nat
    OBVIOUS
  <2>2. PICK m \in T : \A y \in T : m <= y
    <3> HIDE DEF T
    <3> QED BY <2>1, LeastElement
  <2>3. m \in 0 .. n /\ ~ Covered(current, p[m], S(m))
    BY <2>2
  <2>4. m # 0
    <3>1. S(0) = ReadyTasks
      OBVIOUS
    <3> QED BY <1>4, <2>3, <3>1 DEF KernelPart
  <2>5. m \in 1 .. n /\ m - 1 \in 0 .. n /\ ~ (m <= m - 1) /\ m \in Nat
    BY <1>2, <2>3, <2>4
  <2>6. Covered(current, p[m - 1], S(m - 1))
    BY <2>2, <2>5
  <2>7. S(m) = S(m - 1) \cup {delayed[m]}
    <3>1. 1 .. m = (1 .. m - 1) \cup {m}
      BY <2>5
    <3> QED BY <3>1
  <2>8. delayed[m] \notin S(m - 1)
    <3>1. \A j \in 1 .. m - 1 : delayed[j] # delayed[m]
      <4> SUFFICES ASSUME NEW j \in 1 .. m - 1 PROVE delayed[j] # delayed[m]
        OBVIOUS
      <4>1. j \in 1 .. n /\ j # m
        BY <1>2, <2>5
      <4> QED BY <1>1, <1>6, <2>5, <4>1 DEF Once
    <3> QED BY <1>7, <2>5, <3>1
  <2>9. S(m - 1) \in SUBSET LedTask /\ p[m - 1] \in [Cores -> BOOLEAN] /\ delayed[m] \in LedTask
        /\ RunsOn(delayed[m]) = {}
    BY <1>4, <1>6, <1>7, <1>8, <2>5
  <2> HIDE DEF S
  <2>10. Covered(current, YieldForTask(delayed[m], p[m - 1]), S(m - 1) \cup {delayed[m]})
    BY <2>6, <2>8, <2>9, LedWake
  <2> QED BY <1>4, <2>3, <2>5, <2>7, <2>10
<1>10. n \in 0 .. n
  BY <1>2
<1>11. ReadyTasks' = S(n)
  <2>1. \A t : Occurs(t, ready') <=> Occurs(t, ready) \/ Occurs(t, a)
    BY <1>1, <1>3, <1>5, JoinOnce
  <2>2. \A t : Occurs(t, a) <=> \E k \in 1 .. n : delayed[k] = t
    BY <1>5 DEF Occurs
  <2> QED BY <1>6, <2>1, <2>2 DEF ReadyTasks
<1>12. /\ KernelInv'
       /\ \A t : Occurs(t, ready) => Occurs(t, ready)'
       /\ \A t : Occurs(t, ready)' => Occurs(t, ready) \/ Occurs(t, delayed)
       /\ \A t : Occurs(t, delayed) => Occurs(t, ready)' \/ Occurs(t, delayed)'
       /\ \A t : Occurs(t, delayed)' => Occurs(t, delayed)
       /\ UNCHANGED deleted
  BY <1>1, TickEffect
<1>13. ASSUME NEW c \in Cores, yield'[c], ~ p[n][c] PROVE current[c] = IDLE
  <2> SUFFICES ASSUME current[c] # IDLE PROVE FALSE
    OBVIOUS
  <2>1. SharesItsPriority(c, ready')
    BY <1>3, <1>4, <1>13
  <2>2. PICK k, j \in 1 .. Len(ready') :
              /\ j # k
              /\ uxPriority(ready'[k]) = uxPriority(current[c])
              /\ uxPriority(ready'[j]) = uxPriority(current[c])
    BY <2>1 DEF SharesItsPriority
  <2>3. ready'[k] \in LedTask /\ ready'[j] \in LedTask
    <3>1. Occurs(ready'[k], ready') /\ Occurs(ready'[j], ready')
      BY DEF Occurs
    <3> QED BY <1>1, <1>12, <3>1 DEF LedLists
  <2>4. /\ uxPriority(ready'[k]) = NUM_OF_TASK - ready'[k] /\ uxPriority(ready'[j]) = NUM_OF_TASK - ready'[j]
        /\ ready'[k] \in Nat /\ ready'[j] \in Nat /\ NUM_OF_TASK \in Nat
    BY <1>1, <2>3, LedFacts, LedNumbers
  <2>5. ready'[k] = ready'[j]
    BY <2>2, <2>4
  <2> QED BY <1>12, <2>2, <2>5 DEF KernelInv, OneListEach, Once
<1>14. Covered(current, yield', ReadyTasks')
  <2>1. \A c \in Cores : p[n][c] => yield'[c]
    BY <1>3, <1>4
  <2>2. S(n) \in SUBSET LedTask /\ Covered(current, p[n], S(n))
    BY <1>8, <1>9, <1>10
  <2> HIDE DEF S
  <2> QED BY <1>11, <1>13, <2>1, <2>2, CoveredIdle
<1>15. \A t : Occurs(t, ready)' \/ Occurs(t, delayed)' <=> Occurs(t, ready) \/ Occurs(t, delayed)
  BY <1>12
<1> QED BY <1>3, <1>12, <1>14, <1>15, KernelPartKept

(* vTaskStartScheduler: every core is asked to switch. *)
LEMMA LedStart ==
    ASSUME LedTcb, KernelInit, UNCHANGED tcb, StartKernel(LedTask)
    PROVE  /\ KernelPart' /\ xTickCount' = 0
           /\ \A t \in LedTask : Occurs(t, ready)' /\ ~ Occurs(t, delayed)'
<1>1. LedTask \in SUBSET Threads
  BY LedFacts
<1>2. /\ KernelInv'
      /\ \A t : Occurs(t, ready)' <=> t \in LedTask
      /\ \A t : ~ Occurs(t, delayed)'
      /\ xTickCount' = 0 /\ deleted' = {}
      /\ \A c \in Cores : current'[c] = IDLE /\ yield'[c]
  BY <1>1, StartEffect
<1>3. Covered(current', yield', ReadyTasks')
  BY <1>2 DEF Covered
<1>4. LedTcb' /\ LedLists'
  BY <1>2 DEF LedTcb, LedLists
<1> QED BY <1>2, <1>3, <1>4 DEF KernelPart

LEMMA LedUntouched ==
    ASSUME KernelPart, UNCHANGED tcb, UNCHANGED kernelVars PROVE KernelPart'
<1>1. UNCHANGED <<xTickCount, ready, delayed, wake, suspended, deleted, current, yield, signalled>>
  BY DEF kernelVars
<1>2. ReadyTasks' = ReadyTasks /\ \A t : SameLists(t)
  BY <1>1 DEF ReadyTasks, Occurs, SameLists
<1>3. KernelInv'
  BY <1>1 DEF KernelPart, KernelInv, KernelTyped, OneListEach, OneCoreAtATime, CallersReady,
              ExecutingListed, SignalsPending, RunsOn, IsReady, uxCoreAffinityMask, Occurs, Once
<1>4. KernelInit => KernelInit'
  BY <1>1 DEF KernelInit
<1>5. Covered(current, yield', ReadyTasks')
  BY <1>1, <1>2 DEF KernelPart
<1>6. \A u : Occurs(u, ready)' \/ Occurs(u, delayed)' <=> Occurs(u, ready) \/ Occurs(u, delayed)
  BY <1>2 DEF SameLists
<1> QED BY <1>1, <1>3, <1>4, <1>5, <1>6, KernelPartKept

(* Nothing is in a list before the scheduler is started, and only then. *)
LEMMA LedLaunch ==
    ASSUME KernelPart, Launch
    PROVE  /\ KernelInit /\ KernelPart' /\ xTickCount' = 0
           /\ \A t \in LedTask : Occurs(t, ready)' /\ ~ Occurs(t, delayed)'
<1>1. KernelInit
  <2>1. \A t : ~ Occurs(t, ready) /\ ~ Occurs(t, delayed)
    <3>1. Len(ready) = 0 /\ Len(delayed) = 0
      BY DEF Launch
    <3> QED BY <3>1 DEF Occurs
  <2>2. 0 \in LedTask
    BY LedNumbers
  <2> QED BY <2>1, <2>2 DEF KernelPart, LedLists
<1>2. LedTcb /\ UNCHANGED tcb /\ StartKernel(LedTask)
  BY DEF KernelPart, Launch
<1> QED BY <1>1, <1>2, LedStart

LEMMA KernelPartTask ==
    ASSUME KernelPart, NEW t \in LedTask, NEW c \in Cores, TaskStep(t, c) PROVE KernelPart'
<1>1. UNCHANGED tcb
  BY LedSteps
<1>2. CASE Entry(t, c)
  BY <1>1, <1>2, LedDelay DEF Entry
<1>3. CASE OwnCode(t, c)
  BY <1>1, <1>3, LedSteps, LedUntouched
<1>4. CASE Sleep(t, c)
  <2>1. DelayUntilTick(c, last[t] + rows[t].Period) \/ YieldWithinAPI(c)
    BY <1>4 DEF Sleep
  <2>2. Calls(t, c)
    BY <1>4, LedSteps
  <2> QED BY <1>1, <2>1, <2>2, LedDelay, LedYield
<1> QED BY <1>2, <1>3, <1>4 DEF TaskStep, OwnCode

(* The guard of the tick: the scheduler has been started. *)
LEMMA TickFacts ==
    ASSUME Tick
    PROVE  /\ ~ KernelInit /\ UNCHANGED tcb /\ IncrementTick
           /\ \A c \in Cores : Waits(c) /\ ~ yield[c]
  BY DEF Tick, Waits, KernelInit

LEMMA KernelPartStep == KernelPart /\ [Next]_vars => KernelPart'
<1> SUFFICES ASSUME KernelPart, [Next]_vars PROVE KernelPart'
  OBVIOUS
<1>1. CASE \E c \in Cores : Switch(c)
  BY <1>1, LedSwitch DEF Switch
<1>2. CASE Ended \/ UNCHANGED vars
  BY <1>2, LedUntouched DEF Ended, vars
<1>3. CASE Tick
  BY <1>3, TickFacts, LedTick
<1> QED BY <1>1, <1>2, <1>3, LedLaunch, KernelPartTask DEF Next

LEMMA KernelPartInit == Init => KernelPart
<1> SUFFICES ASSUME Init PROVE KernelPart
  OBVIOUS
<1>1. KernelInit /\ LedTcb
  BY DEF Init, LedTcb
<1>2. \A t : ~ Occurs(t, ready) /\ ~ Occurs(t, delayed)
  <2>1. Len(ready) = 0 /\ Len(delayed) = 0
    BY <1>1 DEF KernelInit
  <2> QED BY <2>1 DEF Occurs
<1>3. KernelInv
  <2>1. KernelTyped
    <3>1. ready = <<>> /\ delayed = <<>> /\ <<>> \in Seq(Threads)
      BY <1>1 DEF KernelInit
    <3> QED BY <1>1, <3>1 DEF KernelInit, KernelTyped
  <2>2. OneListEach
    <3>1. Len(ready) = 0 /\ Len(delayed) = 0 /\ suspended = {}
      BY <1>1 DEF KernelInit
    <3> QED BY <1>2, <3>1 DEF OneListEach, Once
  <2>3. OneCoreAtATime /\ CallersReady /\ ExecutingListed /\ SignalsPending
    BY <1>1 DEF KernelInit, OneCoreAtATime, CallersReady, ExecutingListed, SignalsPending
  <2> QED BY <2>1, <2>2, <2>3 DEF KernelInv
<1>4. LedLists
  BY <1>1, <1>2 DEF LedLists, KernelInit
<1>5. Covered(current, yield, ReadyTasks)
  BY <1>2 DEF Covered, Waiting, ReadyTasks
<1> QED BY <1>1, <1>3, <1>4, <1>5 DEF KernelPart

LEMMA TopOfKernel == KernelPart => TopTasksRun
<1> SUFFICES ASSUME KernelPart, \A c \in Cores : ~ yield[c], NEW k \in 1 .. Len(ready),
                    RunsOn(ready[k]) = {}, NEW c \in Cores
             PROVE  uxPriority(current[c]) > uxPriority(ready[k])
  BY DEF TopTasksRun
<1>1. PICK t : t = ready[k]
  OBVIOUS
<1>2. Occurs(t, ready)
  BY <1>1 DEF Occurs
<1>3. t \in ReadyTasks /\ ReadyTasks \in SUBSET LedTask
  BY <1>2 DEF ReadyTasks, KernelPart, LedLists
<1>4. \A d \in Cores : current[d] # t
  BY <1>1 DEF RunsOn
<1>5. Over(current, c, t)
  BY <1>3, <1>4, CoveredTop DEF KernelPart
<1>6. uxPriority(current[c]) > uxPriority(t)
  BY <1>3, <1>5, LedOrder DEF KernelPart, Over
<1> QED BY <1>1, <1>6

(* Global fixed-priority scheduling by prvYieldForTask and the switch, for *)
(* every number of tasks and cores: once no switch is pending, a ready     *)
(* task that has no core finds a task of higher priority on every core.    *)
THEOREM TopTasksHaveCores == Spec => []TopTasksRun
<1>1. KernelPart => TopTasksRun
  BY TopOfKernel
<1> QED BY <1>1, KernelPartInit, KernelPartStep, PTL DEF Spec

----------------------------------------------------------------------------
(* The delayed list, in the order of wake times.                           *)

InWakeOrder ==
    \A i, j \in 1 .. Len(delayed) : i < j => wake[delayed[i]] <= wake[delayed[j]]

DelayPart ==
    /\ wake \in [Threads -> Nat]
    /\ InWakeOrder
    /\ \A t : Occurs(t, delayed) => wake[t] > xTickCount

(* The first tasks are due, the others are not. *)
LEMMA DueFacts ==
    ASSUME delayed \in Seq(Threads), DelayPart, NEW time \in Nat
    PROVE  /\ DueBy(time) \in 0 .. Len(delayed)
           /\ \A k \in 1 .. Len(delayed) : k <= DueBy(time) <=> wake[delayed[k]] <= time
<1> DEFINE T == {n \in 0 .. Len(delayed) : \A k \in 1 .. n : wake[delayed[k]] <= time}
<1>1. Len(delayed) \in Nat /\ \A k \in 1 .. Len(delayed) : delayed[k] \in Threads
  BY LenProperties
<1>2. 0 \in T
  BY <1>1
<1>3. T \in SUBSET (0 .. Len(delayed)) /\ T # {}
  BY <1>2
<1>4. PICK n : n = DueBy(time)
  OBVIOUS
<1>5. n = Max(T)
  BY <1>4 DEF DueBy
<1>6. n \in T /\ \A y \in T : y <= n
  <2> HIDE DEF T
  <2> QED BY <1>1, <1>3, <1>5, MaxIsGreatest
<1>7. n \in 0 .. Len(delayed) /\ \A k \in 1 .. n : wake[delayed[k]] <= time
  BY <1>6
<1>8. ASSUME NEW k \in 1 .. Len(delayed) PROVE k <= n <=> wake[delayed[k]] <= time
  <2>1. CASE k <= n
    BY <1>7, <2>1
  <2>2. CASE ~ (k <= n)
    <3>1. n + 1 \in 0 .. Len(delayed) /\ n + 1 \in 1 .. Len(delayed) /\ ~ (n + 1 <= n) /\ n \in Nat
      BY <1>1, <1>7, <2>2
    <3>2. n + 1 \notin T
      BY <1>6, <3>1
    <3>3. PICK j \in 1 .. n + 1 : ~ (wake[delayed[j]] <= time)
      BY <3>1, <3>2
    <3>4. j = n + 1
      <4>1. ~ (j \in 1 .. n)
        BY <1>7, <3>3
      <4> QED BY <3>1, <4>1
    <3>5. n + 1 = k \/ n + 1 < k
      BY <1>1, <2>2, <3>1
    <3>6. wake[delayed[n + 1]] <= wake[delayed[k]]
      <4>1. wake[delayed[k]] \in Nat
        BY <1>1 DEF DelayPart
      <4> QED BY <3>1, <3>5, <4>1 DEF DelayPart, InWakeOrder
    <3>7. wake[delayed[n + 1]] \in Nat /\ wake[delayed[k]] \in Nat
      BY <1>1, <3>1 DEF DelayPart
    <3> QED BY <2>2, <3>3, <3>4, <3>6, <3>7
  <2> QED BY <2>1, <2>2
<1> QED BY <1>4, <1>7, <1>8

LEMMA DelayPartDelay ==
    ASSUME KernelPart, DelayPart, NEW t \in LedTask, NEW c \in Cores, Calls(t, c),
           NEW time \in Nat, time > xTickCount, DelayUntilTick(c, time)
    PROVE  /\ DelayPart' /\ wake'[t] = time
           /\ \A u : u # t => wake'[u] = wake[u]
<1>1. /\ current[c] = t /\ ~ Occurs(t, delayed) /\ t \in Threads
      /\ delayed \in Seq(Threads) /\ xTickCount \in Nat
  BY LedCalling, LedFacts DEF KernelPart, KernelInv, KernelTyped
<1>2. PICK n : n = DueBy(time) + 1
  OBVIOUS
<1>3. /\ n - 1 \in 0 .. Len(delayed) /\ n \in 1 .. Len(delayed) + 1 /\ Len(delayed) \in Nat
      /\ \A k \in 1 .. Len(delayed) : k < n <=> wake[delayed[k]] <= time
  <2>1. /\ DueBy(time) \in 0 .. Len(delayed)
        /\ \A k \in 1 .. Len(delayed) : k <= DueBy(time) <=> wake[delayed[k]] <= time
    BY <1>1, DueFacts
  <2>2. Len(delayed) \in Nat
    BY <1>1, LenProperties
  <2> QED BY <1>2, <2>1, <2>2
<1>4. /\ delayed' = InsertAt(delayed, n, t)
      /\ wake' = [wake EXCEPT ![t] = time]
      /\ UNCHANGED xTickCount
  BY <1>1, <1>2 DEF DelayUntilTick
<1>5. /\ Len(delayed') = Len(delayed) + 1
      /\ \A k \in 1 .. Len(delayed) + 1 :
            delayed'[k] = IF k < n THEN delayed[k] ELSE IF k = n THEN t ELSE delayed[k - 1]
  BY <1>1, <1>3, <1>4, InsertAtFacts
<1>6. /\ wake' \in [Threads -> Nat] /\ wake'[t] = time
      /\ \A u : u # t => wake'[u] = wake[u]
  BY <1>1, <1>4 DEF DelayPart
<1>7. \A k \in 1 .. Len(delayed) : /\ delayed[k] \in Threads /\ delayed[k] # t
                                   /\ wake[delayed[k]] \in Nat /\ wake'[delayed[k]] = wake[delayed[k]]
  BY <1>1, <1>6, LenProperties DEF Occurs, DelayPart
<1>8. InWakeOrder'
  <2> SUFFICES ASSUME NEW i \in 1 .. Len(delayed) + 1, NEW j \in 1 .. Len(delayed) + 1, i < j
               PROVE  wake'[delayed'[i]] <= wake'[delayed'[j]]
    BY <1>5 DEF InWakeOrder
  <2>1. ASSUME NEW k \in 1 .. Len(delayed) + 1, k < n
        PROVE  k \in 1 .. Len(delayed) /\ delayed'[k] = delayed[k] /\ wake'[delayed'[k]] = wake[delayed[k]]
               /\ wake[delayed[k]] <= time
    <3>1. k \in 1 .. Len(delayed)
      BY <1>3, <2>1
    <3> QED BY <1>3, <1>5, <1>7, <2>1, <3>1
  <2>2. ASSUME NEW k \in 1 .. Len(delayed) + 1, ~ (k < n), k # n
        PROVE  k - 1 \in 1 .. Len(delayed) /\ wake'[delayed'[k]] = wake[delayed[k - 1]]
               /\ time < wake[delayed[k - 1]] /\ ~ (k - 1 < n)
    <3>1. k - 1 \in 1 .. Len(delayed) /\ ~ (k - 1 < n)
      BY <1>3, <2>2
    <3>2. ~ (wake[delayed[k - 1]] <= time) /\ wake[delayed[k - 1]] \in Nat
      BY <1>3, <1>7, <3>1
    <3>3. delayed'[k] = delayed[k - 1]
      BY <1>5, <2>2
    <3>4. wake'[delayed'[k]] = wake[delayed[k - 1]]
      BY <1>7, <3>1, <3>3
    <3> QED BY <3>1, <3>2, <3>4
  <2>3. delayed'[n] = t /\ wake'[delayed'[n]] = time
    BY <1>3, <1>5, <1>6
  <2>4. \A a, b \in 1 .. Len(delayed) : a < b => wake[delayed[a]] <= wake[delayed[b]]
    BY DEF DelayPart, InWakeOrder
  <2>5. CASE i < n /\ j < n
    BY <2>1, <2>4, <2>5
  <2>6. CASE i < n /\ ~ (j < n)
    <3>1. wake'[delayed'[i]] <= time /\ wake'[delayed'[i]] \in Nat
      BY <1>7, <2>1, <2>6
    <3>2. j = n \/ (wake'[delayed'[j]] > time /\ wake'[delayed'[j]] \in Nat)
      BY <1>7, <2>2, <2>6
    <3> QED BY <2>3, <3>1, <3>2
  <2>7. CASE i = n
    <3>1. ~ (j < n) /\ j # n
      BY <1>3, <2>7
    <3>2. time < wake'[delayed'[j]] /\ wake'[delayed'[j]] \in Nat
      BY <1>7, <2>2, <3>1
    <3> QED BY <2>3, <2>7, <3>2
  <2>8. CASE ~ (i < n) /\ i # n
    <3>1. ~ (j < n) /\ j # n
      BY <1>3, <2>8
    <3>2. i - 1 \in 1 .. Len(delayed) /\ j - 1 \in 1 .. Len(delayed) /\ i - 1 < j - 1
      BY <2>2, <2>8, <3>1
    <3>3. wake'[delayed'[i]] = wake[delayed[i - 1]] /\ wake'[delayed'[j]] = wake[delayed[j - 1]]
      BY <2>2, <2>8, <3>1
    <3> QED BY <2>4, <3>2, <3>3
  <2> QED BY <2>5, <2>6, <2>7, <2>8
<1>9. ASSUME NEW u, Occurs(u, delayed') PROVE wake'[u] > xTickCount
  <2>1. u = t \/ Occurs(u, delayed)
    <3>1. \A x : Occurs(x, InsertAt(delayed, n, t)) <=> Occurs(x, delayed) \/ x = t
      BY <1>1, <1>3, InsertOnce
    <3> QED BY <1>4, <1>9, <3>1
  <2>2. CASE u = t
    BY <1>6, <2>2
  <2>3. CASE u # t
    BY <1>6, <2>1, <2>3 DEF DelayPart
  <2> QED BY <2>2, <2>3
<1> QED BY <1>4, <1>6, <1>8, <1>9 DEF DelayPart

(* The tick wakes the tasks that are due and no other. *)
LEMMA DelayPartTick ==
    ASSUME KernelPart, DelayPart, IncrementTick
    PROVE  /\ DelayPart' /\ UNCHANGED wake /\ xTickCount' = xTickCount + 1
           /\ \A t : Occurs(t, ready)' /\ ~ Occurs(t, ready) => wake[t] <= xTickCount'
           /\ \A t : Occurs(t, delayed)' => Occurs(t, delayed)
<1> DEFINE n == DueBy(xTickCount + 1)
<1>1. /\ ready \in Seq(Threads) /\ delayed \in Seq(Threads) /\ xTickCount \in Nat
      /\ wake \in [Threads -> Nat]
  BY DEF KernelPart, KernelInv, KernelTyped, DelayPart
<1>2. /\ xTickCount' = xTickCount + 1
      /\ delayed' = SubSeq(delayed, n + 1, Len(delayed))
      /\ ready' = ready \o SubSeq(delayed, 1, n)
      /\ UNCHANGED wake
  BY DEF IncrementTick
<1>3. /\ n \in 0 .. Len(delayed) /\ Len(delayed) \in Nat
      /\ \A k \in 1 .. Len(delayed) : k <= n <=> wake[delayed[k]] <= xTickCount + 1
  <2>1. xTickCount + 1 \in Nat /\ Len(delayed) \in Nat
    BY <1>1, LenProperties
  <2> QED BY <1>1, <2>1, DueFacts
<1> HIDE DEF n
<1>4. /\ Len(delayed') = Len(delayed) - n
      /\ \A k \in 1 .. Len(delayed) - n : delayed'[k] = delayed[n + k]
  <2>1. Once(delayed)
    BY DEF KernelPart, KernelInv, OneListEach
  <2>2. /\ Len(SubSeq(delayed, n + 1, Len(delayed))) = Len(delayed) - n
        /\ \A k \in 1 .. Len(delayed) - n : SubSeq(delayed, n + 1, Len(delayed))[k] = delayed[n + k]
    BY <1>1, <1>3, <2>1, CutOnce
  <2> QED BY <1>2, <2>2
<1>5. \A k \in 1 .. Len(delayed) - n : n + k \in 1 .. Len(delayed) /\ ~ (n + k <= n) /\ k \in Nat
  BY <1>3
<1>6. InWakeOrder'
  <2>1. ASSUME NEW i \in 1 .. Len(delayed'), NEW j \in 1 .. Len(delayed'), i < j
        PROVE  wake'[delayed'[i]] <= wake'[delayed'[j]]
    <3>1. i \in 1 .. Len(delayed) - n /\ j \in 1 .. Len(delayed) - n
      BY <1>4
    <3>2. delayed'[i] = delayed[n + i] /\ delayed'[j] = delayed[n + j]
      BY <1>4, <3>1
    <3>3. n + i \in 1 .. Len(delayed) /\ n + j \in 1 .. Len(delayed) /\ n + i < n + j
      BY <1>3, <1>5, <2>1, <3>1
    <3>4. wake[delayed[n + i]] <= wake[delayed[n + j]]
      BY <3>3 DEF DelayPart, InWakeOrder
    <3> QED BY <1>2, <3>2, <3>4
  <2> QED BY <2>1 DEF InWakeOrder
<1>7. ASSUME NEW t, Occurs(t, delayed') PROVE wake[t] > xTickCount + 1
  <2>1. PICK k \in 1 .. Len(delayed) - n : delayed[n + k] = t
    BY <1>4, <1>7 DEF Occurs
  <2>2. ~ (wake[t] <= xTickCount + 1) /\ t \in Threads
    BY <1>1, <1>3, <1>5, <2>1, LenProperties
  <2>3. wake[t] \in Nat
    BY <1>1, <2>2
  <2> QED BY <1>1, <2>2, <2>3
<1>8. ASSUME NEW t, Occurs(t, ready'), ~ Occurs(t, ready) PROVE wake[t] <= xTickCount + 1
  <2>1. /\ SubSeq(delayed, 1, n) \in Seq(Threads) /\ Len(SubSeq(delayed, 1, n)) = n
        /\ \A k \in 1 .. n : SubSeq(delayed, 1, n)[k] = delayed[k]
    BY <1>1, <1>3, SubSeqProperties
  <2>2. Occurs(t, SubSeq(delayed, 1, n))
    BY <1>1, <1>2, <1>8, <2>1, JoinOnce
  <2>3. PICK k \in 1 .. n : delayed[k] = t
    BY <2>1, <2>2 DEF Occurs
  <2>4. k \in 1 .. Len(delayed) /\ k <= n
    BY <1>3
  <2> QED BY <1>3, <2>3, <2>4
<1>9. ASSUME NEW t, Occurs(t, delayed)' PROVE Occurs(t, delayed)
  <2>1. PICK k \in 1 .. Len(delayed) - n : delayed[n + k] = t
    BY <1>4, <1>9 DEF Occurs
  <2> QED BY <1>5, <2>1 DEF Occurs
<1> QED BY <1>1, <1>2, <1>6, <1>7, <1>8, <1>9 DEF DelayPart

----------------------------------------------------------------------------
(* The tasks that have a core to themselves, on the clock.                 *)

TimeTyped ==
    /\ rows \in [LedTask -> [Run_tick : Nat \ {0}, Period : Nat \ {0}]]
    /\ at \in [LedTask -> {"entry", "job", "loop", "busy", "check", "sleep", "overflow"}]
    /\ last \in [LedTask -> Nat]
    /\ Deadline \in [LedTask -> Nat]
    /\ left \in [LedTask -> Int]
    /\ until \in [LedTask -> Nat]

Fits(t) == t < configNUMBER_OF_CORES /\ rows[t].Run_tick + 1 < rows[t].Period

(* The tick at which the job of a task starts: the first one comes a tick  *)
(* after the request, the others with it.                                  *)
StartTick(t) == IF last[t] = 0 THEN 1 ELSE last[t]

(* A turn of the execution loop begins with every tick, from the start.    *)
Executing(t) ==
    /\ ~ Occurs(t, delayed)
    /\ Deadline[t] = last[t] + rows[t].Period
    /\ at[t] = "loop" => xTickCount = StartTick(t) /\ left[t] = rows[t].Run_tick
    /\ at[t] = "busy" => /\ left[t] \in 1 .. rows[t].Run_tick
                         /\ until[t] = StartTick(t) + rows[t].Run_tick - left[t] + 1
                         /\ xTickCount = until[t] \/ xTickCount = until[t] - 1
    /\ at[t] \in {"check", "sleep"} => xTickCount = StartTick(t) + rows[t].Run_tick

OnTime(t) ==
    /\ at[t] # "overflow"
    /\ at[t] = "entry" => xTickCount = 0 /\ last[t] = 0 /\ ~ Occurs(t, delayed)
    /\ at[t] # "entry" => Occurs(t, ready) \/ Occurs(t, delayed)
    /\ at[t] = "job" => /\ Occurs(t, ready) => xTickCount = StartTick(t)
                        /\ Occurs(t, delayed) => wake[t] = StartTick(t)
    /\ at[t] \in {"loop", "busy", "check", "sleep"} => Executing(t)

TopOnTime == \A t \in LedTask : Fits(t) => OnTime(t)

TimeInv == KernelPart /\ TimeTyped /\ DelayPart /\ TopOnTime

LEMMA OwnTyped ==
    ASSUME KernelPart, TimeTyped, NEW t \in LedTask, NEW c \in Cores, TaskStep(t, c)
    PROVE  TimeTyped'
<1>1. xTickCount \in Nat /\ OVERFLOW_TICKS \in Nat
  BY OverflowTicksAssumption DEF KernelPart, KernelInv, KernelTyped
<1>2. rows[t].Run_tick \in Nat /\ rows[t].Period \in Nat /\ last[t] \in Nat /\ left[t] \in Int
  BY DEF TimeTyped
<1>3. UNCHANGED rows
  BY LedSteps
<1>4. last[t] + rows[t].Period \in Nat /\ xTickCount + 1 \in Nat /\ left[t] - 1 \in Int
      /\ xTickCount + OVERFLOW_TICKS \in Nat /\ rows[t].Run_tick \in Int
  BY <1>1, <1>2
<1>5. CASE Entry(t, c)
  BY <1>1, <1>3, <1>5 DEF Entry, TimeTyped
<1>6. CASE StartJob(t, c)
  BY <1>3, <1>4, <1>6 DEF StartJob, Overflow, TimeTyped
<1>7. CASE StartLoop(t, c)
  BY <1>3, <1>4, <1>7 DEF StartLoop, TimeTyped
<1>7a. CASE SleepTurn(t, c)
  <2>1. at' \in [LedTask -> {"entry", "job", "loop", "busy", "check", "sleep", "overflow"}]
    BY <1>7a DEF SleepTurn, TimeTyped
  <2>2. left' \in [LedTask -> Int]
    BY <1>4, <1>7a DEF SleepTurn, TimeTyped
  <2>3. until' \in [LedTask -> Nat]
    BY <1>4, <1>7a DEF SleepTurn, TimeTyped
  <2> QED BY <1>3, <1>7a, <2>1, <2>2, <2>3 DEF SleepTurn, TimeTyped
<1>8. CASE EndJob(t, c)
  BY <1>3, <1>4, <1>8 DEF EndJob, Overflow, TimeTyped
<1>9. CASE Sleep(t, c)
  BY <1>3, <1>4, <1>9 DEF Sleep, TimeTyped
<1>10. CASE Return(t, c)
  BY <1>3, <1>10 DEF Return, TimeTyped, ledVars
<1> QED BY <1>5, <1>6, <1>7, <1>7a, <1>8, <1>9, <1>10 DEF TaskStep

(* A task step changes the lists by at most one delay, of the task.        *)
LEMMA OwnKernel ==
    ASSUME KernelPart, TimeTyped, DelayPart, NEW t \in LedTask, NEW c \in Cores, TaskStep(t, c)
    PROVE  /\ DelayPart' /\ UNCHANGED xTickCount
           /\ \A u : u # t => SameLists(u) /\ wake'[u] = wake[u]
<1>1. xTickCount \in Nat /\ UNCHANGED tcb
  BY LedSteps DEF KernelPart, KernelInv, KernelTyped
<1>2. CASE OwnCode(t, c)
  <2>1. UNCHANGED kernelVars
    BY <1>2, LedSteps
  <2> QED BY <2>1 DEF DelayPart, InWakeOrder, SameLists, Occurs, kernelVars
<1>3. CASE YieldWithinAPI(c)
  BY <1>3 DEF DelayPart, InWakeOrder, SameLists, Occurs, YieldWithinAPI
<1>4. ASSUME NEW time \in Nat, time > xTickCount, Calls(t, c), DelayUntilTick(c, time)
      PROVE  /\ DelayPart' /\ UNCHANGED xTickCount
             /\ \A u : u # t => SameLists(u) /\ wake'[u] = wake[u]
  <2>1. UNCHANGED xTickCount /\ \A u : u # t => SameLists(u)
    BY <1>1, <1>4, LedDelay
  <2>2. DelayPart' /\ \A u : u # t => wake'[u] = wake[u]
    BY <1>1, <1>4, DelayPartDelay
  <2> QED BY <2>1, <2>2
<1>5. CASE Entry(t, c)
  <2>1. /\ DelayUntilTick(c, xTickCount + 1) /\ xTickCount + 1 \in Nat
        /\ xTickCount + 1 > xTickCount /\ Calls(t, c)
    BY <1>1, <1>5 DEF Entry
  <2> QED BY <1>4, <2>1
<1>6. CASE Sleep(t, c)
  <2>1. last[t] + rows[t].Period \in Nat
    BY DEF TimeTyped
  <2>2. /\ Calls(t, c)
        /\ \/ YieldWithinAPI(c)
           \/ DelayUntilTick(c, last[t] + rows[t].Period) /\ last[t] + rows[t].Period > xTickCount
    BY <1>6 DEF Sleep
  <2> QED BY <1>3, <1>4, <2>1, <2>2
<1> QED BY <1>2, <1>5, <1>6 DEF TaskStep, OwnCode

(* A task that does nothing while the clock stands stays on time.          *)
LEMMA OnTimeKept ==
    ASSUME NEW t \in LedTask, SameLists(t), UNCHANGED <<xTickCount, rows>>,
           wake'[t] = wake[t], at'[t] = at[t], last'[t] = last[t], Deadline'[t] = Deadline[t],
           left'[t] = left[t], until'[t] = until[t], Fits(t) => OnTime(t)
    PROVE  Fits(t)' => OnTime(t)'
  BY DEF SameLists, Fits, OnTime, Executing, StartTick

LEMMA TopEntry ==
    ASSUME TimeInv, NEW t \in LedTask, NEW c \in Cores, Entry(t, c), OnTime(t)
    PROVE  OnTime(t)'
<1>1. Calls(t, c) /\ UNCHANGED tcb /\ at[t] = "entry" /\ DelayUntilTick(c, xTickCount + 1)
      /\ at'[t] = "job" /\ last'[t] = xTickCount
  BY DEF Entry, TimeInv, TimeTyped
<1>2. xTickCount = 0 /\ last[t] = 0
  BY <1>1 DEF OnTime
<1>3. Occurs(t, delayed)' /\ ~ Occurs(t, ready)'
  BY <1>1, LedDelay DEF TimeInv
<1>4. wake'[t] = 1
  <2>1. xTickCount + 1 \in Nat /\ xTickCount + 1 > xTickCount /\ xTickCount + 1 = 1
    BY <1>2
  <2> QED BY <1>1, <2>1, DelayPartDelay DEF TimeInv
<1> QED BY <1>1, <1>2, <1>3, <1>4 DEF OnTime, StartTick

LEMMA TopJob ==
    ASSUME TimeInv, NEW t \in LedTask, NEW c \in Cores, TaskStep(t, c), ~ Entry(t, c),
           Fits(t), OnTime(t)
    PROVE  OnTime(t)'
<1>1. /\ Executes(t, c) /\ UNCHANGED <<tcb, rows>>
      /\ Occurs(t, ready) /\ ~ Occurs(t, delayed)
  <2>1. Executes(t, c) /\ UNCHANGED <<tcb, rows>>
    BY LedSteps
  <2> QED BY <2>1, LedExecuting DEF TimeInv
<1>2. PICK run, period, request, start \in Nat :
          /\ run = rows[t].Run_tick /\ period = rows[t].Period /\ request = last[t]
          /\ start = StartTick(t) /\ run >= 1
  <2>1. rows[t] \in [Run_tick : Nat \ {0}, Period : Nat \ {0}] /\ last[t] \in Nat
    BY DEF TimeInv, TimeTyped
  <2>2. rows[t].Run_tick \in Nat /\ rows[t].Run_tick >= 1 /\ rows[t].Period \in Nat
    BY <2>1
  <2>3. StartTick(t) \in Nat
    BY <2>1 DEF StartTick
  <2> QED BY <2>1, <2>2, <2>3
<1>3. /\ run + 1 < period /\ xTickCount \in Nat
      /\ start = IF request = 0 THEN 1 ELSE request
      /\ start <= request + 1
  BY <1>2 DEF Fits, StartTick, TimeInv, KernelPart, KernelInv, KernelTyped
<1>4. CASE StartJob(t, c)
  <2>1. xTickCount = start /\ at[t] = "job"
    BY <1>1, <1>2, <1>4 DEF OnTime, StartJob
  <2>2. ~ (xTickCount + run >= request + period)
    BY <1>3, <2>1
  <2>3. /\ at'[t] = "loop" /\ left'[t] = run
        /\ Deadline'[t] = request + period /\ UNCHANGED <<last, ready, delayed, xTickCount>>
    BY <1>2, <1>4, <2>2 DEF StartJob, TimeInv, TimeTyped, kernelVars
  <2>4. ~ Occurs(t, delayed)' /\ Occurs(t, ready)' /\ StartTick(t)' = start /\ rows'[t] = rows[t]
        /\ last'[t] = request
    BY <1>1, <1>2, <2>3 DEF Occurs, StartTick
  <2> QED BY <1>2, <2>1, <2>3, <2>4 DEF OnTime, Executing
<1>4a. CASE StartLoop(t, c)
  <2>1. at[t] = "loop" /\ Executing(t)
    BY <1>4a DEF StartLoop, OnTime
  <2>2. xTickCount = start /\ left[t] = run /\ Deadline[t] = request + period
    BY <1>2, <2>1 DEF Executing
  <2>3. /\ at'[t] = "busy" /\ until'[t] = xTickCount + 1
        /\ UNCHANGED <<last, Deadline, left, ready, delayed, xTickCount>>
    BY <1>4a DEF StartLoop, TimeInv, TimeTyped, kernelVars
  <2>4. ~ Occurs(t, delayed)' /\ Occurs(t, ready)' /\ StartTick(t)' = start /\ rows'[t] = rows[t]
        /\ last'[t] = request /\ Deadline'[t] = request + period /\ left'[t] = run
    BY <1>1, <1>2, <2>2, <2>3 DEF Occurs, StartTick
  <2>5. /\ left'[t] \in 1 .. run
        /\ until'[t] = start + run - left'[t] + 1
        /\ xTickCount' = until'[t] - 1
    <3>1. run \in Nat /\ start \in Nat /\ run >= 1
      BY <1>2
    <3>2. /\ left'[t] = run /\ until'[t] = start + 1 /\ xTickCount' = start
      BY <2>2, <2>3, <2>4
    <3>3. \A r, s, x, l, u \in Nat :
            r >= 1 /\ l = r /\ u = s + 1 /\ x = s =>
            l \in 1 .. r /\ u = s + r - l + 1 /\ x = u - 1
      OBVIOUS
    <3> QED BY ONLY <3>1, <3>2, <3>3
  <2> QED BY <1>2, <2>3, <2>4, <2>5 DEF OnTime, Executing
<1>5. CASE SleepTurn(t, c)
  <2>1. at[t] = "busy" /\ xTickCount >= until[t] /\ Executing(t)
    BY <1>5 DEF SleepTurn, OnTime
  <2>2. PICK n \in 1 .. run : n = left[t]
    BY <1>2, <2>1 DEF Executing
  <2>3. /\ until[t] = start + run - n + 1 /\ xTickCount = until[t]
        /\ Deadline[t] = request + period
    BY <1>2, <1>3, <2>1, <2>2 DEF Executing
  <2>4. /\ at'[t] = IF n = 1 THEN "check" ELSE "busy"
        /\ left'[t] = n - 1 /\ until'[t] = xTickCount + 1
        /\ UNCHANGED <<last, Deadline, ready, delayed, xTickCount>>
    BY <1>5, <2>2 DEF SleepTurn, TimeInv, TimeTyped, kernelVars
  <2>5. ~ Occurs(t, delayed)' /\ Occurs(t, ready)' /\ StartTick(t)' = start /\ rows'[t] = rows[t]
        /\ last'[t] = request /\ Deadline'[t] = request + period
    BY <1>1, <1>2, <2>3, <2>4 DEF Occurs, StartTick
  <2>6. CASE n = 1
    <3>1. xTickCount' = start + run
      BY <2>3, <2>4, <2>6
    <3> QED BY <1>2, <2>4, <2>5, <2>6, <3>1 DEF OnTime, Executing
  <2>7. CASE n # 1
    <3>1. /\ left'[t] \in 1 .. run
          /\ until'[t] = start + run - left'[t] + 1
          /\ xTickCount' = until'[t] - 1
      <4>1. n - 1 \in 1 .. run /\ n \in Int /\ run \in Int /\ start \in Int
        BY <2>7
      <4>2. until'[t] = start + run - n + 1 + 1 /\ left'[t] = n - 1
            /\ xTickCount' = start + run - n + 1
        BY <2>3, <2>4
      <4> QED BY ONLY <4>1, <4>2
    <3> QED BY <1>2, <2>4, <2>5, <2>7, <3>1 DEF OnTime, Executing
  <2> QED BY <2>6, <2>7
<1>6. CASE EndJob(t, c)
  <2>1. /\ at[t] = "check" /\ xTickCount = start + run /\ Deadline[t] = request + period
    BY <1>2, <1>6 DEF EndJob, OnTime, Executing
  <2>2. ~ (xTickCount > Deadline[t])
    BY <1>3, <2>1
  <2>3. at'[t] = "sleep" /\ UNCHANGED <<last, Deadline, left, until, ready, delayed, xTickCount>>
    BY <1>6, <2>2 DEF EndJob, TimeInv, TimeTyped, kernelVars
  <2>4. ~ Occurs(t, delayed)' /\ Occurs(t, ready)' /\ StartTick(t)' = start /\ rows'[t] = rows[t]
        /\ last'[t] = request /\ Deadline'[t] = request + period /\ xTickCount' = start + run
    BY <1>1, <1>2, <2>1, <2>3 DEF Occurs, StartTick
  <2> QED BY <1>2, <2>3, <2>4 DEF OnTime, Executing
<1>6a. CASE Sleep(t, c)
  <2>1. /\ at[t] = "sleep" /\ xTickCount = start + run /\ Calls(t, c)
    BY <1>2, <1>6a DEF Sleep, OnTime, Executing
  <2>2. request + period > xTickCount /\ request + period \in Nat /\ request + period # 0
    BY <1>3, <2>1
  <2>3. at'[t] = "job" /\ last'[t] = request + period /\ DelayUntilTick(c, request + period)
    BY <1>2, <1>6a, <2>2 DEF Sleep, TimeInv, TimeTyped
  <2>4. Occurs(t, delayed)' /\ ~ Occurs(t, ready)'
    BY <1>1, <2>1, <2>3, LedDelay DEF TimeInv
  <2>5. wake'[t] = request + period
    BY <1>1, <2>1, <2>2, <2>3, DelayPartDelay DEF TimeInv
  <2>6. StartTick(t)' = request + period
    BY <2>2, <2>3 DEF StartTick
  <2> QED BY <2>3, <2>4, <2>5, <2>6 DEF OnTime
<1>7. ~ Return(t, c)
  BY DEF Return, OnTime
<1> QED BY <1>4, <1>4a, <1>5, <1>6, <1>6a, <1>7 DEF TaskStep

LEMMA TopTask ==
    ASSUME TimeInv, NEW t \in LedTask, NEW c \in Cores, TaskStep(t, c) PROVE TimeInv'
<1>1. KernelPart' /\ TimeTyped'
  BY KernelPartTask, OwnTyped DEF TimeInv
<1>2. DelayPart' /\ UNCHANGED xTickCount /\ \A u : u # t => SameLists(u) /\ wake'[u] = wake[u]
  BY OwnKernel DEF TimeInv
<1>3. ASSUME NEW u \in LedTask, u # t
      PROVE  /\ UNCHANGED rows /\ at'[u] = at[u] /\ last'[u] = last[u]
             /\ Deadline'[u] = Deadline[u] /\ left'[u] = left[u] /\ until'[u] = until[u]
  <2> USE <1>3 DEF TimeInv, TimeTyped
  <2>1. CASE Entry(t, c)
    BY <2>1 DEF Entry
  <2>2. CASE StartJob(t, c)
    BY <2>2 DEF StartJob, Overflow
  <2>3. CASE StartLoop(t, c) \/ SleepTurn(t, c)
    BY <2>3 DEF StartLoop, SleepTurn
  <2>4. CASE EndJob(t, c)
    BY <2>4 DEF EndJob, Overflow
  <2>5. CASE Sleep(t, c)
    BY <2>5 DEF Sleep
  <2>6. CASE Return(t, c)
    BY <2>6 DEF Return, ledVars
  <2> QED BY <2>1, <2>2, <2>3, <2>4, <2>5, <2>6 DEF TaskStep
<1>4. ASSUME NEW u \in LedTask PROVE Fits(u)' => OnTime(u)'
  <2>1. Fits(u) => OnTime(u)
    BY DEF TimeInv, TopOnTime
  <2>2. CASE u # t
    BY <1>2, <1>3, <2>1, <2>2, OnTimeKept
  <2>3. CASE u = t
    <3>1. Fits(t)' => Fits(t)
      BY LedSteps DEF Fits
    <3> QED BY <2>1, <2>3, <3>1, TopEntry, TopJob
  <2> QED BY <2>2, <2>3
<1> QED BY <1>1, <1>2, <1>4 DEF TimeInv, TopOnTime

LEMMA TopSwitch ==
    ASSUME TimeInv, NEW c \in Cores, Switch(c) PROVE TimeInv'
<1>1. /\ KernelPart' /\ UNCHANGED <<xTickCount, delayed, wake>> /\ \A t : SameLists(t)
  BY LedSwitch DEF Switch, TimeInv
<1>2. UNCHANGED <<rows, at, last, Deadline, left, until>>
  BY DEF Switch, ledVars
<1>3. TimeTyped' /\ DelayPart'
  BY <1>1, <1>2 DEF TimeInv, TimeTyped, DelayPart, InWakeOrder, Occurs
<1>4. ASSUME NEW t \in LedTask PROVE Fits(t)' => OnTime(t)'
  <2>1. Fits(t) => OnTime(t)
    BY DEF TimeInv, TopOnTime
  <2> QED BY <1>1, <1>2, <2>1, OnTimeKept
<1> QED BY <1>1, <1>3, <1>4 DEF TimeInv, TopOnTime

LEMMA TopLaunch == ASSUME TimeInv, Launch PROVE TimeInv'
<1>1. /\ KernelInit /\ KernelPart' /\ xTickCount' = 0
      /\ \A t \in LedTask : Occurs(t, ready)' /\ ~ Occurs(t, delayed)'
  BY LedLaunch DEF TimeInv
<1>2. UNCHANGED <<rows, at, last, Deadline, left, until, xTickCount, delayed, wake>>
  BY DEF Launch, StartKernel, ledVars
<1>3. TimeTyped' /\ DelayPart'
  BY <1>2 DEF TimeInv, TimeTyped, DelayPart, InWakeOrder, Occurs
<1>4. ASSUME NEW t \in LedTask, Fits(t)' PROVE OnTime(t)'
  <2>1. OnTime(t)
    BY <1>2, <1>4 DEF TimeInv, TopOnTime, Fits
  <2>2. at[t] = "entry"
    <3>1. ~ Occurs(t, ready) /\ ~ Occurs(t, delayed)
      <4>1. Len(ready) = 0 /\ Len(delayed) = 0
        BY <1>1 DEF KernelInit
      <4> QED BY <4>1 DEF Occurs
    <3> QED BY <2>1, <3>1 DEF OnTime
  <2> QED BY <1>1, <1>2, <2>1, <2>2 DEF OnTime
<1> QED BY <1>1, <1>3, <1>4 DEF TimeInv, TopOnTime

(* The tick finds a task that has a core to itself in its sleep or delayed.*)
LEMMA TopTick == ASSUME TimeInv, Tick PROVE TimeInv'
<1>1. /\ ~ KernelInit /\ UNCHANGED <<tcb, rows, at, last, Deadline, left, until>> /\ IncrementTick
      /\ \A c \in Cores : Waits(c) /\ ~ yield[c]
  BY TickFacts DEF Tick, ledVars
<1>2. KernelPart'
  BY <1>1, LedTick DEF TimeInv
<1>3. /\ DelayPart' /\ UNCHANGED wake /\ xTickCount' = xTickCount + 1 /\ xTickCount \in Nat
      /\ \A t : Occurs(t, ready)' /\ ~ Occurs(t, ready) => wake[t] <= xTickCount + 1
      /\ \A t : Occurs(t, delayed)' => Occurs(t, delayed)
  <2>1. xTickCount \in Nat
    BY DEF TimeInv, KernelPart, KernelInv, KernelTyped
  <2> QED BY <1>1, <2>1, DelayPartTick DEF TimeInv
<1>4. TimeTyped'
  BY <1>1 DEF TimeInv, TimeTyped
<1>5. ASSUME NEW t \in LedTask, Fits(t), OnTime(t) PROVE OnTime(t)'
  <2>1. /\ Occurs(t, ready) \/ Occurs(t, delayed)
        /\ ~ (Occurs(t, ready) /\ Occurs(t, delayed))
    BY <1>1 DEF TimeInv, KernelPart, LedLists, KernelInv, OneListEach
  <2>2. Occurs(t, ready)' \/ Occurs(t, delayed)'
    <3>1. ~ KernelInit'
      BY <1>3 DEF KernelInit
    <3> QED BY <1>2, <3>1 DEF KernelPart, LedLists
  <2>3. ASSUME Occurs(t, ready)
        PROVE  at[t] = "busy" /\ xTickCount < until[t]
    <3>1. t \in ReadyTasks /\ ReadyTasks \in SUBSET LedTask
      BY <2>3 DEF ReadyTasks
    <3>2. CoresTyped(current) /\ Covered(current, yield, ReadyTasks)
      BY LedCores DEF TimeInv, KernelPart
    <3>3. PICK c \in Cores : current[c] = t
      BY <1>1, <1>5, <3>1, <3>2, TopHasCore DEF Fits
    <3>4. t # IDLE
      BY LedNumbers
    <3> QED BY <1>1, <1>5, <3>3, <3>4 DEF Waits, OnTime
  <2>4. CASE Occurs(t, ready)
    <3>1. at[t] = "busy" /\ xTickCount < until[t] /\ Executing(t)
      BY <1>5, <2>3, <2>4 DEF OnTime
    <3>2. until[t] \in Nat
      BY DEF TimeInv, TimeTyped
    <3>3. xTickCount' = until[t]
      BY <1>3, <3>1, <3>2 DEF Executing
    <3>4. ~ Occurs(t, delayed)' /\ Occurs(t, ready)'
      BY <1>3, <2>1, <2>2, <2>4
    <3>5. Executing(t)'
      BY <1>1, <3>1, <3>3, <3>4 DEF Executing, StartTick
    <3> QED BY <1>1, <3>1, <3>4, <3>5 DEF OnTime
  <2>5. CASE Occurs(t, delayed)
    <3>1. at[t] = "job" /\ wake[t] = StartTick(t)
      BY <1>5, <2>5 DEF OnTime, Executing, TimeInv, TimeTyped
    <3>2. wake[t] > xTickCount /\ StartTick(t) \in Nat
      BY <2>5 DEF TimeInv, DelayPart, TimeTyped, StartTick
    <3>3. StartTick(t)' = StartTick(t)
      BY <1>1 DEF StartTick
    <3>4. Occurs(t, ready)' => xTickCount' = StartTick(t)
      BY <1>3, <2>1, <2>5, <3>1, <3>2
    <3> QED BY <1>1, <1>3, <2>2, <3>1, <3>3, <3>4 DEF OnTime
  <2> QED BY <2>1, <2>4, <2>5
<1>6. ASSUME NEW t \in LedTask, Fits(t)' PROVE OnTime(t)'
  BY <1>1, <1>5, <1>6 DEF TimeInv, TopOnTime, Fits
<1> QED BY <1>2, <1>3, <1>4, <1>6 DEF TimeInv, TopOnTime

LEMMA TimeInvInit == Init => TimeInv
<1> SUFFICES ASSUME Init PROVE TimeInv
  OBVIOUS
<1>1. KernelPart
  BY KernelPartInit
<1>2. TimeTyped
  <2>1. rows \in [LedTask -> [Run_tick : Nat \ {0}, Period : Nat \ {0}]]
    BY TablesAssumption DEF Init, LedTask
  <2> QED BY <2>1 DEF Init, TimeTyped
<1>3. \A t : ~ Occurs(t, ready) /\ ~ Occurs(t, delayed)
  <2>1. Len(ready) = 0 /\ Len(delayed) = 0
    BY DEF Init, KernelInit
  <2> QED BY <2>1 DEF Occurs
<1>4. DelayPart
  <2>1. Len(delayed) = 0 /\ wake = [t \in Threads |-> 0]
    BY DEF Init, KernelInit
  <2> QED BY <1>3, <2>1 DEF DelayPart, InWakeOrder
<1>5. TopOnTime
  BY <1>3 DEF TopOnTime, OnTime, Init, KernelInit
<1> QED BY <1>1, <1>2, <1>4, <1>5 DEF TimeInv

LEMMA TimeInvStep == TimeInv /\ [Next]_vars => TimeInv'
<1> SUFFICES ASSUME TimeInv, [Next]_vars PROVE TimeInv'
  OBVIOUS
<1>1. CASE Ended \/ UNCHANGED vars
  <2>1. UNCHANGED <<tcb, kernelVars, rows, at, last, Deadline, left, until>>
    BY <1>1 DEF Ended, vars, ledVars
  <2>2. UNCHANGED <<xTickCount, ready, delayed, wake, suspended, deleted>>
    BY <2>1 DEF kernelVars
  <2>3. KernelPart'
    BY <2>1, LedUntouched DEF TimeInv
  <2>4. TimeTyped' /\ DelayPart'
    BY <2>1, <2>2 DEF TimeInv, TimeTyped, DelayPart, InWakeOrder, Occurs
  <2>5. ASSUME NEW t \in LedTask PROVE Fits(t)' => OnTime(t)'
    <3>1. SameLists(t) /\ (Fits(t) => OnTime(t))
      BY <2>2 DEF SameLists, Occurs, TimeInv, TopOnTime
    <3> QED BY <2>1, <2>2, <3>1, OnTimeKept
  <2> QED BY <2>3, <2>4, <2>5 DEF TimeInv, TopOnTime
<1> QED BY <1>1, TopLaunch, TopSwitch, TopTask, TopTick DEF Next

(* led_task/main.c 10-53: a task that has a core to itself and two ticks to*)
(* spare in its period never overflows, for every number of tasks and      *)
(* cores, every table and every horizon: its jobs start with the tick that *)
(* wakes it and end Run_tick ticks later, whatever the tasks below it do.  *)
THEOREM TopTasksMeetTheirDeadlines == Spec => []TopTasksNeverOverflow
<1>1. TimeInv => TopTasksNeverOverflow
  BY DEF TimeInv, TopOnTime, OnTime, Fits, TopTasksNeverOverflow
<1> QED BY <1>1, TimeInvInit, TimeInvStep, PTL DEF Spec

=============================================================================
