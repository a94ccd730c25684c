# Verification of pico_scheduling_projects

The repository runs the SPA2 partitioning algorithm (semi-partitioned
fixed-priority scheduling with task splitting) on a Raspberry Pi Pico with the
SMP version of FreeRTOS. `smp_test/` is the program: at boot it assigns periodic
tasks to the two cores by utilization, splits a task that does not fit into a
body and a tail, starts the scheduler, and after one hyperperiod a monitor task
reports whether a deadline was missed. `led_task/` is a smaller program with four
periodic tasks that are not pinned to a core. This directory holds TLA+ models of
both programs and of the part of the kernel they use, the TLC runs that check
them, and TLAPS proofs about the partitioner, the running system and the kernel's
delayed lists.

## Inventory

| Part | Code | State | Operations |
|---|---|---|---|
| Partitioner (SPA2) | `smp_test/main.c` 89-211 | `task_list`, `core_list`, the stacks `core_manager`, `pre_assigned_core`, `task_manager`, `UQ`, `curr_idx` | `init_core`, `init_task`, PRE-ASSIGN, NORMAL-ASSIGN, `Task_split`, `Assign_task` |
| Stacks and table | `smp_test/task_manager.c`, `.h` | arrays with a top index | push, pop, full, empty, `get_min_core`, `simple_test`, `new_task` |
| Periodic tasks | `main.c` 216-493, `Periodic_Job` | `LastRequestTime`, deadline, busy-loop counter, the shared flag `schedulable` | entry and sync delay, request, two deadline checks, busy loop, overflow, delay until the next request |
| Split-task protocol | `run_task` | `Dependency`, `splitted_ptr` | the tail suspends itself, the body resumes it |
| Monitor | `main.c` 54-87, `gcd`, `lcm` | the verdict | delay for the hyperperiod, verdict, delete every task, delete itself |
| SPA1 variant | `main.c` 172-199 | as SPA2, `task_manager` is the queue | one assignment loop over all cores; built when `SPA2` is defined as 0 |
| SMP scheduler | `FreeRTOS-Kernel/tasks.c` | ready, delayed and suspended lists, the task on each core, pending yields, the tick count | create, set affinity, delay, delay until, suspend, resume, delete, tick, switch context |
| Delayed lists | `tasks.c`, `list.c` | the two delayed lists, the time of the next wake-up, the pended ticks | insert, wake, exchange at the wrap, suspend and resume the scheduler |
| led_task | `led_task/main.c` | as the periodic tasks | first request, two deadline checks, execution, sleep and return after an overflow |
| led_blink | `led_blink/` | - | a blinking loop |
| Rest of FreeRTOS, RP2040 port, pico-sdk | vendored | - | - |

How the parts interact: `main` runs alone, before the scheduler. It leaves
`task_list` (each `vTaskN` copies its row once when it starts) and the priority
and core affinity of each kernel task. From then on the tasks share the kernel's
lists, the flag `schedulable`, and, between a body and its tail,
`vTaskResume`. The monitor reads the flag and deletes tasks on both cores.

What is hard here: the boot is a long sequence of pushes and pops whose result
depends on rounding and on the order of the table, with several ways of reading
through `NULL` or before an array; the kernel lets two cores pick tasks from
shared lists with requests in flight between them; a tail's suspension races
with its body's resumption; the busy loop measures execution time with a clock
that runs also while the task does not; the monitor judges and deletes tasks
that are in the middle of something; the kernel keeps wake times in a counter
that wraps, and makes up for ticks it could not process when they came; an
`int` and a `uint16_t` hold values that need more bits. `PROJECT.json` lists these hazards at their
lines.

## Modules

| Module | Models | Uses |
|---|---|---|
| `Sums` | the summation loop of `simple_test`, as a recursive function | - |
| `TaskManager` | the data structures and pure functions of `task_manager.c`, and the kernel's priority clamp | `Sums` |
| `TaskControl` | the task control blocks, which the boot writes and the scheduler reads | `TaskManager` |
| `Partition` | `main()` up to `vTaskStartScheduler`, one action per loop iteration | `TaskControl` |
| `Spa1` | the other build of `main()`, with `SPA2` defined as 0 | `Partition` |
| `Placement` | abstract: what semi-partitioning promises | instantiated by `Partition` |
| `SmpKernel` | the SMP scheduler of `tasks.c`, one operator per kernel call | `TaskControl` |
| `PeriodicTasks` | the tasks of `main.c` and the monitor on that scheduler | `Partition`, `SmpKernel` |
| `System` | the composition: boot, launch, run | `PeriodicTasks` |
| `Scheduler` | abstract: preemptive fixed-priority scheduling on several cores | instantiated by `SmpKernel` |
| `DelayLists` | the delayed lists, the wrap of the tick count, pended ticks | - |
| `Delays` | abstract: sleeping for an exact number of ticks | instantiated by `DelayLists` |
| `HyperPeriod` | `gcd`, `lcm`, `calculate_lcm` step by step in ints | - |
| `LedTasks` | `led_task/main.c` on the scheduler | `SmpKernel` |
| `MCPartition`, `MCSystem`, `MCDelayLists`, `MCHyperPeriod`, `MCLedTasks` | tables and small constants for TLC | the module they are named after (`MCPartition`: `Spa1`) |
| `CommonProofs` | lemmas about sums, about least and greatest elements, and about kernel lists as sequences: insertion, removal, order | `Sums` |
| `PartitionProofs` | theorems about the placement of tasks and its ledger | `Partition`, `CommonProofs` |
| `SplitProofs` | theorems about split tasks, admission and the order of priorities on a core | `PartitionProofs` |
| `KernelProofs` | lemmas about the scheduler: what each kernel call does to lists and cores, who waits for a core | `SmpKernel`, `CommonProofs` |
| `SystemProofs` | theorems about the whole program | `System`, `KernelProofs`, `SplitProofs` |
| `DelayProofs` | theorems about the delayed lists | `DelayLists`, `CommonProofs` |
| `HyperProofs` | the hyperperiod | `HyperPeriod`, `CommonProofs` |
| `LedProofs` | theorems about `led_task` | `LedTasks`, `KernelProofs` |

Operators named like mutated versions of another one and marked `fault:` are
never used by a specification. Each one is a plausible mistake in the code next
to it, kept so that every checked property can be shown to depend on the code.

### State and code

*Pointers.* A `task_info*` is a slot number of `task_list`, a `core_info*` a core
number, a `TaskHandle_t` the slot whose `xTaskCreate` returned it, `NULL` is -1.
A global stack is zero-initialised, so that its `top` is 0 before `init_*_stack`
is called; the model starts there. A core mask with one bit is the set of that
core. A new task may run on every core.

*Utilizations.* A `float` utilization x is the integer x * `UNIT`, and
`Runtime / Period` rounds down to that grid. `UNIT` is a parameter; the proofs
hold for each value of it for which a period does not exceed `UNIT`, that is,
for which one tick of any task is at least one grid step. The truncation that the
code itself performs, from a `float` back to the `uint16_t Runtime` of the body,
is modelled as the division it is. `Utilization_Bound` is a parameter in
`1..UNIT` and stands for n(2^(1/n)-1); the test against the light bound U/(1+U)
is cross-multiplied, so it is exact.

*Undefined behaviour.* Where the code reads `list[-1]` or goes through `NULL`
there is nothing to say about what comes next: `pc` becomes `"undefined"` and
stays there. This covers an empty `core_manager` in `get_min_core`, the `NULL` of
`Pop_core` and the `NULL` of `new_task`. A `NULL` handle passed to
`vTaskCoreAffinitySet` before the scheduler runs is different: the assertion there
(tasks.c 3021) is empty, since `FreeRTOSConfig.h` does not define `configASSERT`
(FreeRTOS.h 97-99), and the function only stores a mask through `NULL`, where the
RP2040 has its boot ROM. Both are possible in the model: the store faults
(`PreAssignNull`, `NoHandle`: `pc` becomes `"undefined"`), or it is lost and the boot goes on
(`PreAssign`, `AssignWhole`, `AssignSplit`, with `PinnedTo` without effect). No property concludes that
the boot stops.

*Heap.* The heap is the number of `xTaskCreate` calls it still serves. All tasks
have the same stack size, so this is exact for a heap that nothing else uses. A
failed `xTaskCreate` leaves `my_ptr` alone, and as in the code nobody looks at
its result.

*Kernel calls.* A kernel call is one atomic step: the code runs it inside a
critical section or with the scheduler suspended. What is not atomic is kept
apart: a call that ends in a yield only marks the core (`yield`), and the switch is an
action of its own that the two cores take in either order.

A core that asks another one to switch (`prvYieldCore`) only raises an interrupt
there. Until the other core takes it, its task goes on with its own code, and
`xTaskGetTickCount`, which takes no lock, may already show it the next tick; only a
kernel call is held up, by `prvCheckForRunStateChange`. This is what `signalled`
is for, the marked cores whose request came from another core: a task `Executes` on
a core that is not marked or is `signalled`, and `Calls` the kernel on a core that
is not marked. A core that marks itself switches before it returns to the task.
The tick is taken by core 0 (`configTICK_CORE`), so the other cores that a tick
asks to switch are signalled ones. The steps of a job are fine enough for this: the
check, the first look at the tick count of an iteration, its end, the second check,
the resumption and the delay are actions of their own.

*Lists.* The ready lists of
all priorities are one sequence, since only the order within a priority is ever
looked at; running tasks stay in it, and a switch puts the outgoing task at the
end, as `prvSelectHighestPriorityTask` does. The delayed list is a sequence ordered by
wake time. The idle tasks are one value `IDLE`
below every priority. The timer daemon exists in the build, has no timers, and
blocks for ever; it is left out.

*Time.* A stretch of task code between two kernel calls, or one turn of the busy
loop, takes no time; the tick comes when every core idles, spins, or waits for it
in the busy loop and no switch is pending. With a tick of 10 ms this is the intended operation of the
program. Slower code only adds behaviours, so every violation found below is
also one of the program, and the passing runs speak about this operation. The
tick count is not bounded by a guard: the model ends when the monitor has
deleted itself, one hyperperiod and a tick after it started.

*SPA1.* The two builds share everything but the assignment loop. `BootSpec` is the
boot of either: they part after `init_task`, where `InitQueues` (SPA2) or
`EnterSpa1` is taken, and one run checks both. `pc` is `"spa1"` in the loop.

*Refinements.* `Placement` knows pieces of utilization that wait and the load of
each core; a piece of a `Partition` state is a slot that is neither pinned nor
unused. A step of the boot is a `Place`, a `Split`, a `Dedicate` (PRE-ASSIGN) or a
stutter. `Scheduler` knows a state per task and the task on each core; the list a
task is in is its state, `current` is `running`. A switch of a core must be a
`Dispatch`, which takes a task of the highest priority among those that are ready,
may use the core and are on no other. When a core has to switch is not part of
`Scheduler`: that is `HighestPriorityRuns` and `TopTasksRun`. `Delays` knows how many
ticks each task has still to sleep. For it a tick that was pended has not come
yet: `remaining` is the ticks left in real time plus the pended ones.

*Delayed lists.* `SmpKernel` wakes tasks by an unbounded tick count. `DelayLists`
models what the kernel does instead: `TickType_t` has `TICK_MODULUS` values, a wake
time that has wrapped goes to the overflow list, the lists change places when the
count becomes 0, and `xNextTaskUnblockTime` is kept along. A delay call suspends
the scheduler between its action and `ResumeAll`; ticks in between are pended, at
most `MAX_PENDED` of them, and processed by `ResumeAll` one by one. The task lock
keeps `vTaskDelete` out meanwhile. `CallsInTime` states the one thing the code
relies on without checking it: a task makes its next delay call before the tick
count comes round to its last wake time (2^32 ticks, more than a year). `age` and
`wakeIn` are history variables that count real ticks.

*Ints.* In `HyperPeriod` a product or a quotient that does not fit an `int`, and a
division by 0, is undefined; the model goes on with any value.

*led_task.* `sleep_ms` of the SDK does not give the core away (the port's time
interoperation needs `LIB_PICO_TIME` in the kernel's build, which is not set there): it watches
the clock, whether the task executes or not, like the busy loop of smp_test. A
task that overflowed sleeps for `OVERFLOW_TICKS` and returns into
`prvTaskExitError`, which panics; the model ends there. `configNUMBER_OF_CORES` is
2 in the `FreeRTOSConfig.h` both programs share, although the CMake file of
led_task does not link `pico_multicore`; the module takes the number of cores as a
parameter, and its properties also hold with one core, where the program's
own table overflows.

*History variables.* `table` and `heap_size` keep what the boot started from, `assigned`
the core that `Assign_task` was given for each slot, whether the task exists or not.
`ran` counts the ticks during which a job held a core, `preempted` how often it was switched out
in its busy loop.

## Runs

`Periods = {4, 6}` gives a hyperperiod of 12 ticks with both a task whose period
divides it twice and one that divides it three times, runtimes from 1 to the
whole period, and, with a bound of 9/12, tasks on both sides of the light bound
(0.43), splits with a body of several ticks and splits whose body is truncated
to nothing. Four tasks are enough for two pre-assignments, a split and a full
queue; two cores are what the board has. Priorities fall with the index, as in
the table of `main.c`. The system runs only use tables that are rate-monotonic:
sorting them is left to the author of the table (`task_manager.c` 68, "NOT YET").
The runs on the table of `main.c` itself use `UNIT = 2100`, the least common
multiple of its periods, so its utilizations are exact, and 1530/2100 = 0.7286
for the bound of seven tasks. Deadlock is checked everywhere: the ends of the
boot and of the experiment are explicit stuttering actions.

The heaps of `partition` serve 3, 5 or 6 calls of `xTaskCreate`, for the monitor, four tasks and
a tail: two tasks missing, the tail missing, nothing missing. `system` has 4 and 6 (the last task of
the table missing, and with it any tail; nothing missing), `system_ends` all cases of three tasks. `system_ends`
also has `configMAX_PRIORITIES = 4`, so that the monitor shares its priority with
the first task of the table, as in the build it does with the first four of `main.c`.

`system_ends` uses a deadline of 4 bits: with hyperperiods of 4, 6 and 12 and periods up to 6
some tables need more than that and some do not, so that both cases
of `OverflowIsExact` happen. `delays` has a tick count of 5 values and increments
of 2, 3 and 4: every call of the third task wraps, and up to 2 pended ticks can
themselves cross the wrap. `hyperperiod` has ints up to 63 and periods up to 10,
so that products overflow at the first or at the second multiplication, or
not at all. `led_task` takes the 27 tables of rows with 1/3, 3/6 and 4/7 ticks
whose last row is 4/7; they include jobs that end exactly at their deadline and jobs preempted past it,
and the table of `led_task/main.c` in tens of ticks; the sleep after an overflow
is longer than two of the longest periods of these rows, as in the program. `HORIZON` is the
hyperperiod of the program's table, longer than that of any other (42); the overflows of
the first 30 ticks leave two sleeps before it.

| Run | Result | What it shows |
|---|---|---|
| `partition` | passes | see below |
| `system` | passes | see below |
| `system_ends` | passes | the monitor always gets a core, prints a verdict and deletes every task and itself, also when tasks spin after an overflow; the narrow deadline stops no task wrongly as long as a hyperperiod and a period fit it |
| `delays` | passes | every sleeping task is woken at the tick it asked for, across the wrap and pended ticks |
| `hyperperiod` | passes | the monitor's computation is right if the hyperperiod times the longest period fits an `int`, and ends in any case |
| `led_task` | passes | see below |
| `partition_bounded` | violation | a set within the bound whose lowest-priority task is heavy: both cores are pre-assigned and `get_min_core` reads `list[-1]` |
| `partition_overload` | violation | four light tasks that ask for 19 where two cores take 18: a second split finds no slot and `Task_split` writes through the `NULL` of `new_task`; "ALL PROCESSORS FULLY UTILIZED" is not printed |
| `partition_repository` | violation | on the table of `main.c` the truncated ticks of the body go to the tail, whose core is then asked for more than the bound |
| `system_priority` | violation | priorities 7 to 4 all become 4 and are time-sliced |
| `system_verdict` | violation | "ALL TASKS SCHEDULABLE" is printed over a job that is unfinished past its deadline |
| `system_runtime` | violation | a job preempted between two ticks by a resumed tail is credited a tick it did not run |

`partition` checks, over all 10^4 tables of four tasks, three heaps and both builds:
`AdmissionOK` (an admissible set never leads to undefined behaviour, is never
rejected, and every task ends pinned to one core), `SplitKeepsWork` (body and
tail together run for the ticks of the table), `SplitPartsApart` (never on one
core), `CoreLedger` (the recorded utilization of a core is that of the tasks
assigned to it, and those of them that exist are pinned there), `AssignmentIsFinal` (a pinned task is never pinned
elsewhere and NORMAL-ASSIGN respects the bound), `BodyIsFirstOnItsCore` (nothing on
the core of a body has a higher priority, which the algorithm needs for the body
to be done when the tail's share begins), `ImplementsPlacement` (the boot refines
`Placement`: no utilization is lost, counted twice or moved back), `Spa1Admission`
(SPA1 places every set within the bound of the cores and reports every other
one) and `TypeOK`. *Admissible* means:
total utilization within the bound of the cores, a light task at the lowest
priority, and heap for the tasks, the monitor and one tail. The second condition
is what `partition_bounded` shows to be needed; the paper does not need it. The
third is exact too: with one call of `xTaskCreate` less the tail of some set has no handle, and pinning
it may fault. With less heap than that, nothing in the code keeps the scheduler from
starting without some of the tasks.

`system` checks, over the 189 admissible rate-monotonic tables, the two heaps and every order of
switches: `OneCoreAtATime` (no task on two cores, none outside its affinity),
`HighestPriorityRuns` (once no switch is pending, no ready task waits behind a
task of lower kernel priority on a core it may use), `JobTakesItsRuntime` (a job never
holds a core for more than `Runtime` ticks, and one that comes out of the busy loop
has held it for all of them but at most one for each preemption), `TailFollowsBody` (a tail works on a request only
after its body completed it), `HandOverIsCurrent` (a body with work never resumes
its tail too early, and the tail's deadline is that of the request handed over),
`ResumedTaskExists` (the order of the monitor's deletions never leaves a body
that resumes a deleted tail), `DeletedTasksStop` (a task that the monitor deletes
while the other core executes it may go on with its own code until the interrupt
arrives, but no kernel call of it takes effect and no core ever switches to it again),
`ImplementsScheduler` (the kernel
refines `Scheduler`) and `RunTypeOK` (which includes that a task is in
exactly one kernel list, once).

That a job executes for exactly its `Runtime` ticks is not true of this code.
An iteration of the busy loop ends when the tick count has moved, and the next one reads it anew. A job
that is switched out in the middle, by a tail that was resumed between two ticks (`system_runtime`
shows it), or right after it has read a new tick, on a core that takes its switch
late, is credited a tick it did not run. `JobTakesItsRuntime` bounds what is lost.

`HandOverIsCurrent` needs a body with at least one tick. A body whose runtime was
truncated to 0 resumes its tail before the tail has suspended itself; that
resumption is lost and the tail later works against an older deadline. And no run
claims that an accepted set is schedulable: the sync delay takes one tick from
every first period, so that a set may overflow that the bound accepts.

`led_task` checks `TopTasksRun` (with tasks that may use every core the cores always
execute the ready tasks of highest priority), `TopTasksNeverOverflow` (the tasks of
highest priority, one per core, meet their deadlines whatever happens below
them) and `OverflowEndsInPanic`.

*Fairness.* `SystemSpec` has weak fairness of the next-state relation and nothing
else: the processor keeps executing and the tick keeps coming. No fairness
between tasks is assumed; that the monitor is not starved follows from the
scheduler's rules, which is what `ExperimentEnds` checks. `LedTasks` and
`HyperPeriod` have the same fairness for the same reason, with `OverflowEndsInPanic`
and `HyperperiodIsFound`. In `DelayLists` it covers everything but `Delete`: nobody
has to delete a task. The tick and the delay calls are one fair relation: the tick
comes because a task that is awake can make only so many calls before it sleeps.

The findings in `PROJECT.json` quote the line of the code or the docs that each
violation disagrees with.

## Proofs

The theorems hold for every value of the constants that the `ASSUME`s allow: every
number of tasks and, unless a theorem says otherwise, of cores; every table of
positive runtimes with periods up to `UNIT`; every heap; every bound in `1..UNIT`;
in `DelayLists` every set of tasks, width of the tick count, increment below it and
number of pended ticks; in `HyperPeriod` every table of positive periods and every width
of `int`; in `LedTasks` every number of tasks and cores and every table of positive run
times and periods. TLC evaluates the assumptions on every run.

### Lemmas

`CommonProofs` shows that the recursive definition of `PrefixSum` defines what it
says: tables of partial sums exist and agree, from which the unfolding
`PrefixSum(f, n+1) = PrefixSum(f, n) + f[n]` and its consequences follow. It does the
same for the kernel's lists: what `vListInsert`, `vListInsertEnd` and `uxListRemove` leave
in a list, in which order, and that nothing is in it twice. Facts that would be proved by
induction on a number are proved here from `LeastElement`: a set of naturals that is not
empty has a least element, so there is no least counterexample.

### The boot

* `PartitionProofs!Typing` (`TypeOK`), for any number of cores. `TypeOK`
  is not inductive: that a popped task or core is a valid index needs to know
  what the stacks hold, and that the utilization and the runtime of a tail are
  not negative needs that a task is split only when it does not fit and that
  truncation leaves the tail at least its share. The inductive invariant
  `PlacementInv` adds: the task manager holds the tasks in order
  (`ManagerInOrder`); the core stacks hold cores (`CoreStacksHoldCores`); the queue
  holds distinct tasks in increasing order, all below `curr_idx`
  (`QueueInOrder`); a waiting task has its period and at least the ticks its
  utilization stands for (`PeriodsKept`, `WaitingCovered`); a waiting task is
  pinned to nothing (`WaitingUnplaced`).
* `PartitionProofs!AssignmentsAreFinal` (`AssignmentIsFinal`), for any number
  of cores with the same invariant: what is pinned is the popped task, which was
  waiting and therefore unpinned, and the charge is either one that fits or
  exactly what the core had left.
* `PartitionProofs!LedgerIsRight` (`CoreLedger`), for any number of cores. `AssignedInv`
  says that what waits has been assigned to no core, and that the affinity of a task
  that exists is what `Assign_task` made of it (`MasksMatch`). A waiting task contributes nothing, an assignment changes one
  summand (`CommonProofs!PrefixSumUpdate`), and a split shrinks the body before it
  is charged and leaves the tail without a core.
* `PartitionProofs!BootImplementsPlacement` (`ImplementsPlacement`), for any number of
  cores: the refinement of `Placement`, step by step. The invariant `PieceInv` says
  that the utilization of a row is the table's once `init_task` has measured it
  (`Measured`), that a slot nobody uses has none, so that a tail takes a free name
  (`FreeSlotsEmpty`), that PRE-ASSIGN finds the core it takes empty
  (`NormalCoresEmpty`), and that what waits is positive (`WaitingPositive`, which is
  where periods up to `UNIT` are needed).
* `SplitProofs!SplitsLoseNoWork` (`SplitKeepsWork`), for two cores. The
  invariant `SplitInv` adds to `PlacementInv` that the tail's slot is untouched
  before the split (`TailSlotFresh`) and that each task of the table is either
  whole or split into parts that add up (`WholeOrSplit`). That the tail has at
  least one tick comes from `WaitingCovered`: a tail with utilization left over
  has ticks left over. With more cores a tail may itself be split, and the
  property would have to follow the chain of tails.
* `SplitProofs!SplitPartsStayApart` (`SplitPartsApart`), for any number of cores.
  `HandleInv` ties handles, slots and pointers together: a handle names its own
  slot, a body knows its tail, which comes later in the table, and no two bodies
  have the same one. `ApartInv` adds that a waiting task has not been split
  (`WaitingWhole`) and that the core of a body is full (`BodiesFillCores`). A full
  core is never chosen, so the tail goes elsewhere, also when it is split again.
* `SplitProofs!AdmissibleSetsArePlaced` (`AdmissionOK`), for two cores. The argument
  is a conservation law: what waits and what the cores were charged is always the
  utilization of the table (`Conserved`, from the refinement of `Placement`). So the
  popped task fits what the two cores have left together (`RoomLeft`), which rules
  out that both are full, and that a second split is needed, since the first one
  has filled a core (`SplitFilledCore`). That one core always stays with
  `core_manager` (`CoresDivided`) is `simple_test`'s doing for all heavy tasks but the last of
  the table (`OneCoreIsKept`): this is where admissibility asks for a light one.
  `EveryHandle` counts the heap down, `PinnedOrWaiting` gives the pinning at the end.
* `SplitProofs!BodiesOutrankTheirCores` (`BodyIsFirstOnItsCore`), for two or more cores
  and tables in which every task has a higher priority than the next (`PrioritiesFall`; the table of
  main.c 28-34 has 7 down to 1, and all tables TLC uses fall). With equal or
  unordered priorities the property is false. `UQ` holds the
  highest priority at its bottom (`QueueFalls`; a tail takes the place and the priority of the task
  it was split from), so the popped task outranks nothing that is still queued. The core of
  the proof is `Outranked`: a waiting task outranks every placed one, except one whose
  core is full (`OnFullCore`) or one that PRE-ASSIGN gave a core (`Reserved`). Such a core only
  takes tasks when all normal cores are full, last given away first used; and for the
  last one given away `Room` says that the normal cores can hold all waiting tasks that
  do not outrank its task. `Room` begins as `simple_test` (`RoomReserved`: the loop
  over the tasks behind a heavy one sums exactly those), and an iteration that charges a
  core takes at least as much from the tasks that wait, or places a task that outranks the
  reserved one (`WorkMoves`, `LoadGrows`). So when a reserved core is filled by a
  split, nothing that its task outranks is waiting (`BodyOutranks`). Afterwards the core is full and is
  never chosen again (`BodiesFillCores`).

### The running system

All for any number of cores, from `SystemInv`: `PlacementInv` and `HandleInv` hold
throughout, the kernel is untouched until the scheduler starts, and then `RunInv`
holds: `KernelInv` (a task is in one list, once; a core executes a task that is ready,
may use the core and is on no other), the kernel's tasks are the created ones
(`ListedExist`), the tasks' own variables have their types, jobs are within their time
(`JobInTime`), and the monitor deletes by slot number (`DeletedInOrder`).

* `RunTyping` (`RunTypeOK`) and `TasksKeepToOneCore` (`OneCoreAtATime`) follow from it.
* `DeletedTasksEnd` (`DeletedTasksStop`): a deleted task is in no other list, so no switch
  selects it and no wake-up or resumption finds it; and the core that still executes it
  is marked (`KernelInv`: a core that is not marked executes a task that is ready), so that its kernel
  calls are held up.
* `JobsTakeTheirRuntime` (`JobTakesItsRuntime`), for any table and also after a boot that gave up. `JobInTime`
  balances the accounts of a job: `ran + left` exceeds the `Runtime` by at most the tick the busy loop
  has seen and not yet counted, and `ran + preempted + left` is at least the `Runtime`, and
  above it as long as the iteration in progress waits for a tick without a core or
  has already seen one it was on a core for.
* `HighestPriorityExecutes` (`HighestPriorityRuns`), for any number of cores, unless `full`, and with no
  kernel priority above the monitor's (`configMAX_PRIORITIES <= 11`; the build has 5, to
  which the monitor's 10 is clamped). The property talks about the moments without a pending
  switch; the invariant `Served` about all of them: a ready task that no core executes finds on the core it is pinned
  to a task of at least its priority, or a switch is pending there; and the monitor, which may use
  both cores, has had one of them asked to switch and nobody ahead of it in the ready
  list for that core (`MonitorNext`). Both hypotheses are needed: an unpinned task of the rest that `full` leaves
  behind, or a task above the monitor, may be given the very switch that
  `prvYieldForTask` asked for on behalf of another, which then waits without one.
* `AdmissibleSetsRun` puts the boot and the run together, on two cores: `SystemSpec`
  implements the `Spec` of `Partition` (`SystemBoots`), so `AdmissionOK` holds throughout, an
  admissible set is never `full`, and `HighestPriorityExecutes` holds for it without that condition;
  `JobTakesItsRuntime` is stated along with it.
* `ResumedTasksExist` (`ResumedTaskExists`): a tail's slot number is above its body's
  (`HandleInv`), so the body is deleted first.
* `TailsFollowBodies` (`TailFollowsBody`) needs `HandOverInv`: all tasks take their first
  request at the same tick (`FirstTick`), requests are multiples of the period
  (`RequestTimes`), a waiting tail is resumed for its own request or a later one, and
  a working tail is behind its body (`InTurn`). That the first tick does not pass
  before every task has entered rests on the scheduler: a ready task leaves no core
  it may use idle.
* `KernelImplementsScheduler` (`ImplementsScheduler`): each kernel call maps to a step of
  `Scheduler` or to none. The core of it is the selection loop, which takes the first
  ready task of the highest priority that the core may use and no other core has.

### The delayed lists

From `DelayInv` (theorem `DelayInvariant`). `KernelTimed`: the item of a sleeper in the
current list has the wake time `xTickCount` plus the ticks it has left, the pended ones
included; in the overflow list the same less `TICK_MODULUS`; both lists are in
order, `xNextTaskUnblockTime` is the first wake time, and nobody in the list is due.
`Aged`: the wake time a task last asked for is, modulo `TICK_MODULUS`, `age` ticks ago. It
is what makes the comparisons of `xTaskDelayUntil`, which look only at wrapped
values, decide correctly whether the task has to sleep and into which list it goes.

* `ListsStayOrdered` (`ListsOK`) and `WrapsFindEmptyList` (`WrapFindsEmptyList`): at the wrap
  a task left in the current list would have to be due earlier, and nobody is.
* `KernelImplementsDelays` (`ImplementsDelays`): the refinement of `Delays`; the ticks that
  `ResumeAll` makes up for wake exactly those whose time has come.

### The hyperperiod

`HyperperiodIsComputed` (`HyperperiodIsRight`), for every number of tasks, table of
periods and width of `int`: if the least common multiple fits with room for one more
product, `calculate_lcm` returns it. `gcd` is a loop of the model, one action per turn, so what it
computes is an invariant (`HyperInv`) and not an induction over data. In the loop the
pair `a`, `b` has no common divisors but those of the numbers it started from, and both are
combinations of these (`MadeOf`), also after `a % b` (`EuclidDivisors`, `EuclidMade`). So the
last `a` is the greatest common divisor, and the product over it is the least
common multiple (`LeastMultiple`). `Fits` carries the condition that nothing has overflowed: `result`
divides the hyperperiod, so `result * period` is below its bound.

### led_task

From `KernelInv` and the tables of the tasks, for any number of tasks and cores.

* `TopTasksHaveCores` (`TopTasksRun`). Here every task may use every core, so that a
  switch asked for on behalf of one task may serve another. `Covered` counts: a
  ready task that waits either finds tasks above it on all cores that have no pending
  switch, or there are at least as many pending switches as tasks waiting down to it. Every wake-up adds one
  of each; a switch takes the first of the waiting.
* `TopTasksMeetTheirDeadlines` (`TopTasksNeverOverflow`): as long as there are no more tasks above
  it than cores, the tick that wakes a task is the tick its job starts (`OnTime`), and the job
  ends `Run_tick` ticks later; two ticks to spare in the period cover the tick that the
  first job loses to the delay of the start, and the tick in which the deadline is checked.

### Only model-checked

On the instances above: `HandOverIsCurrent`, which rests on a body ending its job before its tail's
next release, a bound on response times; `OverflowIsExact`; and the SPA1 build
(`Spa1Admission`). Out of the prover's reach is liveness (`ExperimentEnds`, `SleepersWake`,
`HyperperiodIsFound`, `OverflowEndsInPanic`).

## Not modelled

`led_blink` has no state beyond a pin. The kernel's queues, timers, event groups and
stream buffers are not used by the programs. The heap appears as the number of
`xTaskCreate` calls it serves: with the 10240 bytes and stacks of this
repository, nine. The port and the SDK appear as the atomicity of kernel calls, the time an
inter-core interrupt takes (`signalled`), the switch and tick actions, and the panic of
`prvTaskExitError`. Of the kernel, notifications, mutexes and priority
inheritance, statistics, tickless idle (it never begins with two idle tasks) and
the idle task's clean-up of deleted tasks are left out. Printing is left out.
Everything else in the repository is vendored.

## Plan

Done: both builds of the partitioner, the kernel, the tasks and the monitor on it,
their composition, the delayed lists, the hyperperiod, led_task, three
refinements and their proofs. What could come next:

1. A bound on the response time of the highest-priority task of a core, from
   `BodiesOutrankTheirCores`, `AdmissibleSetsRun` and `JobTakesItsRuntime`: the step to a
   proof of `HandOverIsCurrent`.
2. `OverflowIsExact`, and the SPA1 build.
