----------------------------- MODULE DelayLists -----------------------------
(***************************************************************************)
(* How the kernel keeps sleeping tasks (tasks.c, list.c): two lists sorted *)
(* by wake time that change places when the tick count wraps to 0, the     *)
(* time of the next wake-up, and the ticks that arrive while the scheduler *)
(* is suspended by a task in the middle of a delay call. The tasks are     *)
(* periodic, as those of smp_test and led_task: a first delay of one tick, *)
(* then xTaskDelayUntil for ever, or until they are deleted.               *)
(*                                                                         *)
(* SmpKernel abstracts from this machinery: it wakes a delayed task by an  *)
(* unbounded tick count. This module shows that it may.                    *)
(***************************************************************************)
EXTENDS Integers, SequencesExt

CONSTANTS
    Tasks,           \* the periodic tasks
    xTimeIncrement,  \* the increment of each task's xTaskDelayUntil
    TICK_MODULUS,    \* 2^32: the number of values of TickType_t
    MAX_PENDED       \* the bound on the ticks of one suspension

ASSUME ModulusAssumption == TICK_MODULUS \in Nat \ {0, 1}
ASSUME IncrementAssumption == xTimeIncrement \in [Tasks -> 1 .. TICK_MODULUS - 1]
ASSUME PendedAssumption == MAX_PENDED \in Nat

VARIABLES
    xTickCount,
    pxDelayedTaskList,          \* sleeping tasks to be woken before the wrap
    pxOverflowDelayedTaskList,  \* sleeping tasks to be woken after it
    xNextTaskUnblockTime,
    xPendedTicks,               \* ticks that came while the scheduler was suspended
    caller,                     \* the task in a delay call, which suspended it
    pxPreviousWakeTime,         \* LastRequestTime of each task
    age,                        \* history: ticks since that wake time was due
    wakeIn                      \* history: ticks until a sleeping task is to be woken

lists == <<pxDelayedTaskList, pxOverflowDelayedTaskList, xNextTaskUnblockTime>>
vars == <<xTickCount, lists, xPendedTicks, caller, pxPreviousWakeTime, age, wakeIn>>

portMAX_DELAY == TICK_MODULUS - 1
NOBODY == "nobody"
UNSET == -1  \* LastRequestTime before it is set
GONE == -2   \* and after the stack it is on was freed

Times == 0 .. TICK_MODULUS - 1

(* A list item: the task that owns it and xItemValue, its wake time. *)
Items == [owner : Tasks, xItemValue : Times]

Owners(list) == {list[k].owner : k \in 1 .. Len(list)}
Asleep == Owners(pxDelayedTaskList) \cup Owners(pxOverflowDelayedTaskList)
live == {t \in Tasks : pxPreviousWakeTime[t] \in Times}

----------------------------------------------------------------------------
(* vListInsert: behind the items at the head whose time is no later. *)
Inserted(list, item) ==
    LET noLater(n) == \A k \in 1 .. n : list[k].xItemValue <= item.xItemValue
    IN InsertAt(list, Max({n \in 0 .. Len(list) : noLater(n)}) + 1, item)

\* fault: a wake time that has wrapped goes to the current list like any other
OverflowedNever(xTimeToWake) == FALSE

Overflowed(xTimeToWake) == xTimeToWake < xTickCount

(* prvAddCurrentTaskToDelayedList; only the current list decides when the  *)
(* next task is to be woken.                                               *)
AddToDelayedList(t, ticks) ==
    LET xTimeToWake == (xTickCount + ticks) % TICK_MODULUS
        item == [owner |-> t, xItemValue |-> xTimeToWake]
    IN IF Overflowed(xTimeToWake)
         THEN /\ pxOverflowDelayedTaskList' = Inserted(pxOverflowDelayedTaskList, item)
              /\ UNCHANGED <<pxDelayedTaskList, xNextTaskUnblockTime>>
         ELSE /\ pxDelayedTaskList' = Inserted(pxDelayedTaskList, item)
              /\ xNextTaskUnblockTime' = IF xTimeToWake < xNextTaskUnblockTime
                                           THEN xTimeToWake ELSE xNextTaskUnblockTime
              /\ UNCHANGED pxOverflowDelayedTaskList

(* prvResetNextTaskUnblockTime *)
NextUnblockTime(list) == IF list = <<>> THEN portMAX_DELAY ELSE Head(list).xItemValue

(* vTaskN before its loop: the first request is now, one tick of delay. A  *)
(* delay call suspends the scheduler until xTaskResumeAll.                 *)
FirstDelay(t) ==
    /\ caller = NOBODY
    /\ pxPreviousWakeTime[t] = UNSET
    /\ caller' = t
    /\ pxPreviousWakeTime' = [pxPreviousWakeTime EXCEPT ![t] = xTickCount]
    /\ AddToDelayedList(t, 1)
    /\ wakeIn' = [wakeIn EXCEPT ![t] = 1]
    /\ UNCHANGED <<xTickCount, xPendedTicks, age>>

(* xTaskDelayUntil: whether the wake time is still ahead, decided with     *)
(* times that may have wrapped.                                            *)
\* fault: the wake time is compared as if times never wrapped
ShouldDelayUnwrapped(now, previous, xTimeToWake) == xTimeToWake > now

ShouldDelay(now, previous, xTimeToWake) ==
    IF now < previous
      THEN xTimeToWake < previous /\ xTimeToWake > now
      ELSE xTimeToWake < previous \/ xTimeToWake > now

DelayUntil(t) ==
    /\ caller = NOBODY
    /\ t \in live \ Asleep
    /\ caller' = t
    /\ LET previous == pxPreviousWakeTime[t]
           xTimeToWake == (previous + xTimeIncrement[t]) % TICK_MODULUS
       IN /\ pxPreviousWakeTime' = [pxPreviousWakeTime EXCEPT ![t] = xTimeToWake]
          /\ IF ShouldDelay(xTickCount, previous, xTimeToWake)
               THEN AddToDelayedList(t, (xTimeToWake - xTickCount) % TICK_MODULUS)
               ELSE UNCHANGED lists
    /\ wakeIn' = [wakeIn EXCEPT ![t] = IF t \in Asleep' THEN xTimeIncrement[t] - age[t] ELSE 0]
    /\ age' = [age EXCEPT ![t] = @ - xTimeIncrement[t]]
    /\ UNCHANGED <<xTickCount, xPendedTicks>>

----------------------------------------------------------------------------
(* xTaskIncrementTick on the tick count, the lists and the next wake-up.   *)

Kernel == [tick |-> xTickCount, delayed |-> pxDelayedTaskList,
           overflow |-> pxOverflowDelayedTaskList, next |-> xNextTaskUnblockTime]

\* fault: the count is compared with a value it never has
SwitchedNever(k) ==
    IF k.tick = TICK_MODULUS
      THEN [k EXCEPT !.delayed = k.overflow, !.overflow = k.delayed,
                     !.next = NextUnblockTime(k.overflow)]
      ELSE k

(* taskSWITCH_DELAYED_LISTS, when the tick count has become 0. *)
Switched(k) ==
    IF k.tick = 0
      THEN [k EXCEPT !.delayed = k.overflow, !.overflow = k.delayed,
                     !.next = NextUnblockTime(k.overflow)]
      ELSE k

(* The loop takes tasks from the head of the list while their time is up;  *)
(* where it stops it finds the next wake-up.                               *)
Woken(k) ==
    LET due(n) == \A j \in 1 .. n : k.delayed[j].xItemValue <= k.tick
        n == Max({m \in 0 .. Len(k.delayed) : due(m)})
        rest == SubSeq(k.delayed, n + 1, Len(k.delayed))
    IN IF k.tick >= k.next
         THEN [k EXCEPT !.delayed = rest, !.next = NextUnblockTime(rest)]
         ELSE k

\* fault: the lists change places only after the wake-ups of the tick
IncrementedLate(k) == Switched(Woken([k EXCEPT !.tick = (@ + 1) % TICK_MODULUS]))

Incremented(k) == Woken(Switched([k EXCEPT !.tick = (@ + 1) % TICK_MODULUS]))

SetKernel(kernel) ==
    \E k \in {kernel} :
        /\ xTickCount' = k.tick
        /\ pxDelayedTaskList' = k.delayed
        /\ pxOverflowDelayedTaskList' = k.overflow
        /\ xNextTaskUnblockTime' = k.next

(* n ticks pass; a task that is awake waits for none. *)
StillAsleep(n) ==
    LET asleep == Asleep' IN
    wakeIn' = [t \in Tasks |-> IF t \in asleep THEN wakeIn[t] - n ELSE 0]

(* What the tick interrupt means to the history variables. *)
TimePasses ==
    /\ age' = [t \in Tasks |-> IF t \in live THEN age[t] + 1 ELSE age[t]]
    /\ StillAsleep(1)

(* A task makes its next call before the tick count comes round to the     *)
(* last wake time it asked for.                                            *)
CallsInTime == \A t \in live : age[t] < TICK_MODULUS - 1

(* The tick interrupt, on core 0. *)
Tick ==
    /\ CallsInTime
    /\ caller = NOBODY
    /\ SetKernel(Incremented(Kernel))
    /\ TimePasses
    /\ UNCHANGED <<xPendedTicks, caller, pxPreviousWakeTime>>

TickWhileSuspended ==
    /\ CallsInTime
    /\ caller # NOBODY
    /\ xPendedTicks < MAX_PENDED
    /\ xPendedTicks' = xPendedTicks + 1
    /\ UNCHANGED <<xTickCount, lists, caller, pxPreviousWakeTime>>
    /\ TimePasses

\* fault: one pended tick is processed, however many there were
ReplayedOnce(k, n) == IF n = 0 THEN k ELSE Incremented(k)

Replayed(k, n) ==
    LET after[m \in 0 .. n] == IF m = 0 THEN k ELSE Incremented(after[m - 1])
    IN after[n]

(* xTaskResumeAll, at the end of the delay call: the pended ticks are made *)
(* up for, one by one.                                                     *)
ResumeAll ==
    /\ caller # NOBODY
    /\ caller' = NOBODY
    /\ SetKernel(Replayed(Kernel, xPendedTicks))
    /\ xPendedTicks' = 0
    /\ StillAsleep(0)
    /\ UNCHANGED <<pxPreviousWakeTime, age>>

(* uxListRemove, if the list holds the task's item. *)
Without(list, t) ==
    IF t \in Owners(list)
      THEN RemoveAt(list, CHOOSE k \in 1 .. Len(list) : list[k].owner = t)
      ELSE list

(* vTaskDelete, from another task: the task lock keeps it out while the    *)
(* scheduler is suspended. For a task that runs the next wake-up is not    *)
(* looked up again.                                                        *)
Delete(t) ==
    /\ caller = NOBODY
    /\ t \in live
    /\ pxPreviousWakeTime' = [pxPreviousWakeTime EXCEPT ![t] = GONE]
    /\ pxDelayedTaskList' = Without(pxDelayedTaskList, t)
    /\ pxOverflowDelayedTaskList' = Without(pxOverflowDelayedTaskList, t)
    /\ \/ xNextTaskUnblockTime' = NextUnblockTime(pxDelayedTaskList')
       \/ t \notin Asleep /\ UNCHANGED xNextTaskUnblockTime
    /\ age' = [age EXCEPT ![t] = 0]
    /\ wakeIn' = [wakeIn EXCEPT ![t] = 0]
    /\ UNCHANGED <<xTickCount, xPendedTicks, caller>>

----------------------------------------------------------------------------
Init ==
    /\ xTickCount = 0
    /\ pxDelayedTaskList = <<>>
    /\ pxOverflowDelayedTaskList = <<>>
    /\ xNextTaskUnblockTime = portMAX_DELAY
    /\ xPendedTicks = 0
    /\ caller = NOBODY
    /\ pxPreviousWakeTime = [t \in Tasks |-> UNSET]
    /\ age = [t \in Tasks |-> 0]
    /\ wakeIn = [t \in Tasks |-> 0]

Proceed ==
    \/ TickWhileSuspended
    \/ ResumeAll
    \/ Tick
    \/ \E t \in Tasks : FirstDelay(t) \/ DelayUntil(t)

Next == Proceed \/ \E t \in Tasks : Delete(t)

(* The cores keep executing and the tick keeps coming; nobody has to       *)
(* delete a task.                                                          *)
Spec == Init /\ [][Next]_vars /\ WF_vars(Proceed)

----------------------------------------------------------------------------
(* Properties                                                              *)

InOrder(list) ==
    \A j, k \in 1 .. Len(list) :
        j < k => /\ list[j].owner # list[k].owner
                 /\ list[j].xItemValue <= list[k].xItemValue

(* The lists of vListInsert and taskSWITCH_DELAYED_LISTS: each sorted, no  *)
(* task twice or in both; between two calls the current list holds wake    *)
(* times after the tick count, the other one times before it, and          *)
(* xNextTaskUnblockTime is the head of the current list.                   *)
ListsOK ==
    /\ xTickCount \in Times
    /\ xPendedTicks \in 0 .. MAX_PENDED
    /\ caller \in live \cup {NOBODY}
    /\ Asleep \subseteq live
    /\ InOrder(pxDelayedTaskList)
    /\ InOrder(pxOverflowDelayedTaskList)
    /\ Owners(pxDelayedTaskList) \cap Owners(pxOverflowDelayedTaskList) = {}
    /\ \A item \in ToSet(pxDelayedTaskList) : item \in Items /\ item.xItemValue > xTickCount
    /\ \A item \in ToSet(pxOverflowDelayedTaskList) :
           item \in Items /\ item.xItemValue < xTickCount
    /\ xNextTaskUnblockTime = NextUnblockTime(pxDelayedTaskList)

(* tasks.c 269, configASSERT( ( listLIST_IS_EMPTY( pxDelayedTaskList ) ) ): *)
(* when the tick count wraps nobody is left behind in the current list.     *)
WrapFindsEmptyList == xTickCount = portMAX_DELAY => pxDelayedTaskList = <<>>

Promise == INSTANCE Delays WITH
    Sleepers   <- Tasks,
    Increments <- xTimeIncrement,
    Batches    <- 1 .. MAX_PENDED + 1,
    remaining  <- [t \in Tasks |-> IF t \in Asleep THEN wakeIn[t] + xPendedTicks ELSE 0],
    age        <- [t \in Tasks |-> IF t \in live THEN age[t] - xPendedTicks ELSE 0]

(* The delay calls and the tick (tasks.c 2362-2500, 4725-4965, 8579-8690)  *)
(* implement Delays: however the tick count wraps and however many ticks   *)
(* are pended, a task is woken at the very tick it asked for, one that is  *)
(* late is not put to sleep, and no tick is lost.                          *)
ImplementsDelays == Promise!DelaysSpec

(* xTaskIncrementTick and xTaskResumeAll: whoever sleeps is woken some day *)
(* (or deleted), also when the tick count wraps while they sleep.          *)
SleepersWake == \A t \in Tasks : t \in Asleep ~> t \notin Asleep

=============================================================================
