# A TLA+ model of the hardware test platform

The platform runs a *fixture*: a list of *cases*, each a list of *functions*
that exercise a board (ping, serial loop-back, GPIO, ...). Most of the code
resolves configuration, talks to devices and formats reports. What can go wrong
in ways a test hardly reaches is where things meet: threads that share a table
of resource locks, function bodies that run on after their timeout, child tasks
that end, fail and raise in any order, an observer that all of them call and
whose files outlive a killed process, a display that watches those files while
the scheduler writes them, and four sources of settings that must agree on what
the tasks of a plan carry. The models follow that path from both ends: from the
files and options to a plan, from the plan through its execution to the exit
code.

    request --ConfigPlan--> plan --Scheduler--> tasks --FunctionTask--> bodies
                                      |            |                      |
                                   TaskTree    ResourceLocks        Expectations
                                      |            |
                                   Observer    LockTable
                                      |
                       snapshot --RunControl--> exit code

An arrow is a boundary between two modules. Two of them are proved refinements:
`Scheduler` implements `TaskTree`, over which `Observer` is built, and
`ResourceLocks` implements `LockTable`. The others are assumptions that one module
makes and another shows: the plans of `Scheduler` are as `PlanIsRunnable` says,
which is proved; `Scheduler` lets a function task end, as `TasksWithTimeoutEnd`
says, and `RunControl` lets the scheduler's thread end, as `RunEnds` and
`RunComesToAnEnd` say, which TLC checks.

All paths below are relative to `src/`; `exec/` stands for
`framework/execution/`.

## Inventory

| Component | State it keeps | Operations | Interacts with | Hard part, and what correct means |
|---|---|---|---|---|
| Resource lock manager, `exec/resource_locks.py` | `resource_locks`: owner, attempt and quarantine of each resource; a mutex per manager | `acquire` (polls), `release` | called by every function task; its table belongs to the context | atomic all-or-nothing grants, quarantine against a clock read too early, deadlines |
| Function task, `exec/scheduler.py:186-341`, `exec/function_executor.py` | attempt, last result; a worker thread and a queue per attempt; one lock manager per context | attempt, retry, `execute`, `release` in `finally` | lock manager, function body, observer | a timed-out body goes on: late answers, resources still in use, exceptions between acquire and release |
| Scheduler, `exec/scheduler.py` | per call: pending, in flight, results; shared: `completed_tasks`, `attempts` | `run`, `_execute_task`, the two child loops, precheck | pools of threads, observer, policies | order, dependencies, what a failure stops, exceptions through pools, verdicts |
| Policies, `exec/policies.py` | none | `should_retry`, `aggregate_status`, `summarize_children` | scheduler | no false pass |
| Plan builders, `exec/fixture_runner.py`, `exec/case_runner.py` | none | `build_plan`, `build_case_task` | resolver, scheduler | unique task ids, an order that sorting keeps |
| Expectations, `exec/function_executor.py:228-540` | none | normalise a result, apply rules | function bodies | a missed rule must not pass |
| Observer, `framework/observability/logger.py` | task states and results, latest snapshot, a re-entrant lock | `on_*` callbacks | scheduler threads, stores | pairing of events, retries, what a snapshot infers, failures of a write |
| Stores and reports, `framework/observability/*_store.py`, `report_generator.py` | event file, snapshot file, sequence per request id | append, read, write-then-rename | observer, dashboard | numbers that rise within a process, and over restarts if the docs are taken at their word; a file that is readable after a kill; no torn snapshot |
| Run control, `framework/cli/common.py` | result and error boxes | `execute_plan`, `_run_scheduler`, exit code | scheduler in a thread beside the dashboard | errors surface, the run ends |
| Dashboard, `framework/dashboard/cli_dashboard.py` | view, keys, completion time | display loop, automatic exit | snapshots, monitor, run control | leaves when the run has ended, not before |
| System monitor, `framework/monitoring/system_monitor.py` | thread, stop event, latest data | `start`, `stop`, loop | dashboard (through a file) | one loop at a time |
| Resolver, `framework/config/resolver.py` | none | precedence chains, case filters, templates | loader, validator, builders | the right source wins |
| Loader, validator, models, `framework/config/` | none | read and check JSON | resolver | field checks |
| Platform, `framework/platform/`; `functions/`; `scripts/` | devices | I/O | function bodies | not a matter of this model |

`PROJECT.json` lists every hazard with its line and the properties that would
catch it going wrong, and says of the few without one why.

## Modules

| Module | Models | Correspondence |
|---|---|---|
| `ResourceLocks` | the lock manager | one thread of `Threads` per caller; `pc` is its place in `acquire`/`release`; `Sample`, `Lock`, `Pass`, `Block`, `Wake`, `Claim` are the lines of the polling loop, one table entry per step; `LockToRelease`, `Unset` those of `release` |
| `LockTable` | what it promises | sets of resources granted and given back in one step |
| `FunctionTask` | `_execute_function_task` and the executor, over `ResourceLocks` | `step` is the place in the retry loop; `worker` and `outcome` are the thread and the queue of each attempt; `Lookup`/`Create` are `_resource_lock_manager` |
| `Policies` | retry and aggregation | operators on statuses and sets of statuses |
| `Scheduler` | the walk over a plan | `phase` of each task; `CallNext`, `Return`, ... are `_execute_children_sequential`; `Submit`, `Stall`, `Reap`, `Unwind`, `FinishParallel` are `_execute_children_parallel` |
| `TaskTree` | what the scheduler's callbacks show of that walk | `stage` of a task is idle, started, returned or raised; a container closes when each child has returned or, after a failure, was never started |
| `Observer` | `ExecutionObserver` with `EventStore`, `ResultStore` and `ReportGenerator`, over `TaskTree` | one action per callback; `states` and `results` are `task_states` and `task_results`; `log` is the event file, `snapshot` the snapshot file; `sequence` the counter of the process |
| `SystemMonitor` | the sampler behind the dashboard | `monitors` are the objects made, `loops` their threads; `JoinThread` gives up on a thread that is busy |
| `RunControl` | `main`, `execute_plan`, `_run_scheduler`, `_attach_dashboard` and the display loop, over `SystemMonitor` | `pc` is the main thread, `worker` the scheduler's; `Refresh` and `Check` are the two halves of a turn of the display, each of which reads the snapshot |
| `Expectations` | a function's answer normalised and judged by rules | operators on tagged values, named as the methods of `FunctionExecutor` |
| `ConfigPlan` | resolver and plan builders, over `Expectations` | `request` is what files and options say, `resolved` the resolved configuration, `plan` the plan; `Try` judges one answer by the rules a task carries |
| `ResourceLocksProofs`, `FunctionTaskProofs`, `PoliciesProofs`, `SchedulerProofs`, `TreeRefinementProofs`, `ObserverProofs`, `RunControlProofs`, `ConfigPlanProofs` | | the theorems |
| `MC*` | | constants for the runs |

Definitions that begin with "Mutant" in their comment are plausible mistakes in
the operation below them. Nothing uses them; put in its place, each makes a
property fail (`PROJECT.json`, "mutants"), which shows that the property
constrains the code.

### Choices in the models

* **Time** (`ResourceLocks`). `perf_counter` ticks; every instant is kept as its
  distance to now, so that the state space is finite without a bound on the
  length of a run. A poll sleeps 10 ms, less than any deadline or quarantine in
  use, and takes no tick. `MaxLag` bounds how long a thread may be suspended
  between reading the clock and the end of its scan; the proofs hold for every
  value of it.
* **Table entries** are visited one per step, in sorted order, because that is
  what a second manager with its own mutex can interleave with. Reading two
  fields of an entry, and creating a missing entry, are one step: with two
  managers the code has even more interleavings than the model.
* **A body** is any thread that ends with any status, at any time or never. When
  it has answered, the thread still takes a step to end (`WorkerExits`): a join
  that times out in between gives a timeout although the answer is there.
* **`ThreadPoolExecutor`** has a thread per child (`max_workers=len(child_tasks)`),
  so that what is submitted runs. `wait` may miss a child that has returned but
  not yet set its future: `Reap` takes any non-empty set of those that are done.
* **Plans** of `Scheduler` have two levels below the root, as the builders make
  them. `ExecutionTask.__post_init__` rejects unknown modes, so the checks for
  them in `run` and `_execute_task` never fail and have no action. Dependencies
  other than the builders' are those a caller of the library may set, as
  `tests/execution/test_scheduler.py` does.
* **Sorting** of task ids is that of the numerals in them (`SortsBefore`).
* **A callback** (`Observer`) is one step: it holds the observer's re-entrant lock
  from its first assignment to its last write. What can come between the writes
  of a callback is a failure or a kill, and these are in the model: the event is
  there and the snapshot is not. An event that could not be written has still
  taken its number, and may have left part of a line; the next line is glued to
  such a part, and from then on `EventStore.read` raises, in this run and in
  every later one with the request id. A failed write raises into the flow of
  the task that reported, and from there up the tree.
* **A snapshot** is written to a temporary file and renamed, so it is replaced as
  a whole or not at all.
* **Processes** follow each other with one request id and find each other's
  files. The counter of a new process starts at zero and jumps to the largest
  number in the file when the reports are made: `SequenceOrdersOneProcess` says
  what order remains, `SequenceRisesWithinRequest` what the docs promise beyond
  it. Of earlier processes only the largest number, the
  readability and a torn last line are kept.
* **The display** (`RunControl`) counts refreshes where the code compares clock
  readings; all that matters is that the first refresh that sees a final status
  only notes the time. The interrupts are those of the main thread in the display
  and in the join; a daemon worker dies with its process. `main` may be called
  twice in one process, as the tests do, so that the global sampler of the first
  call is there for the second; a sampler whose join gave up may be revived by the
  second `start`, which clears its event, and `OneSampler` is about all other
  cases (`overdue`).
* **Settings** (`ConfigPlan`). The numbers of one chain (timeout, retries, interval,
  quarantine) are functions over the names of the settings. The validator accepts a
  null in the place of any of them, and negative numbers; `from_dict` keeps both,
  and a global null takes the place of the default of `RuntimeDefaults`. So all
  settings are optional integers (`IsRequest`). What a chain leaves as null becomes 0
  for the retries and the pause of a case and of its functions (`OrZero`, the `or 0`
  of `CaseRunner`), and stays for the root task. `PlanIsRunnable` therefore says of every
  function of a case that it can be retried, and of the one task of `run_function` that
  it can if the global settings are numbers. `CaseSpec.execution` has the default
  "sequential" in the model class already, so that a case takes its fixture's mode only
  if its file says null. `run_function` builds
  its one task from options and global settings alone, without resources or rules.
  A template for an interface that is not bound renders as the text `None`, while
  the name derived from such an interface has no device: `SharedInterfaceIsLocked`
  is about bound ones. The name of a lock holds that of the interface: two interfaces
  bound to one device have two locks, and nothing is claimed of them.
* **Values** (`Expectations`) are tagged numbers, strings and collections; True and
  False are the numbers they equal in Python. Numbers are halves, which stand for all
  fractions: `int()` cuts them off, so that the code 0.5 is a pass, as is the text "0";
  `Numerals` says which texts it reads, `StringOrder` how texts compare. A word or a
  collection makes `int()` raise, null details make `dict()` raise, and a rule that
  compares what cannot be compared raises; the executor makes each a failure. A rule
  that fails an answer replaces its code if that is null or equals 0 and keeps it
  otherwise, also the text "0" that stood for a success. `ne` is satisfied by a
  field that is missing, and so is `in` with None among its values:
  `VerdictOnlyWorsens` names these.
* A function task is atomic in `Scheduler` but for its start and its end; its
  inside is `FunctionTask`, whose `TasksWithTimeoutEnd` is the reason for the
  fairness of `FunctionEnds`.

## Runs

| Run | What it shows | Bounds, and why they are enough |
|---|---|---|
| `locks` | exclusion, ownership, quarantine, answers, refinement of `LockTable` | two threads, two resources (overlapping, equal and disjoint sets), times up to one tick: a deadline before, at and after a quarantine's end, and a reading one tick old |
| `function_task` | shielding of bodies that run on, own answers only, no lock left, termination | two tasks over one resource; one has a timeout and a retry and meets its own old body and the other task; two managers may be made |
| `manager_race` | **violated**: `Serialised` | the same without the condition that one manager was made |
| `same_task_id` | **violated**: `SerialisedByOneManager` | both threads under one task id |
| `scheduler` | order, dependencies, aborts, verdict, termination | all modes of the root and of a case of three functions beside a case of one; stops, a failed precheck, a missing function; dependencies inside a case, across cases and in a cycle |
| `stop_status` | **violated**: `StopFailsCase` | as above |
| `observer` | nesting and numbering of events, what a failed write costs the file and the snapshot, no final status before the end, the end on disk | two cases of one function each, one of which may be retried once, in any order; the fixture stops on failure; a failed precheck, an unregistered function; one failed write or kill anywhere in the first process; a second process finds at most two lines of an unfinished first, or all of a finished one |
| `sequence_restarts` | **violated**: `SequenceRisesWithinRequest` | as above |
| `event_write_fails` | **violated**: `LostEventSparesTheRun` | as above |
| `run_control` | exit codes, automatic exit, one sampler, nothing left running | two calls of `main` with any mode and linger times None and 1 for success and failure; keys, interrupts, errors of the display, exceptions of the scheduler and joins that give up at any point; one or two output directories |
| `dashboard_hang` | **violated**: `FailureLeavesByItself` | one call |
| `config` | precedence, plans the scheduler can finish, shared locks, verdicts | every combination of a timeout on four levels with modes and stops, for the three commands; nulls in the global settings, in a fixture and in a case, with and without options and a negative number; all patterns of enabled functions and equal names in lists of three, in two cases; four ways to name a resource on two boards, one of which leaves an interface unbound; each operator on present, missing and incomparable fields for each kind of answer, with codes that are absent, zero, other numbers, a fraction, a numeral and a word |

In `scheduler` the system stops when the run has ended, and in no other state
(`RunEnds`); the same holds of `observer`, where the bound on processes ends it, of
`run_control`, where that on calls does, and of `config`, which is one pass. Deadlock
is therefore not an error in these. In `scheduler` the walk is also compared with
`TaskTree` (`ImplementsTaskTree`), which gives `observer` its right to take any
order that the tree allows. In `locks` and
`function_task` the clock ticks for ever, and deadlock is checked.

### Violations

* **Two lock managers.** `Scheduler._resource_lock_manager` is a get and a set
  without a lock. Two pool threads that start together may both get `None`; each
  then scans the shared table under its own mutex, and both take the resource.
  The window is short and takes a switch of threads inside it; nothing in the
  code excludes it.
* **Equal task ids.** `CaseRunner` names functions `function.<case>.<index>.<name>`
  without the case's index. Two parallel cases with one name (the same case
  twice in a fixture) own locks under the same id, and `acquire` lets the owner
  of a resource in again. Two such cases over a shared resource do run their
  bodies at the same time.
* **`stop_on_failure`.** doc/软件设计文档.md:896 wants a case that a failure has
  stopped to be failed; the abort of the rest outranks the failure.
* **Numbers that start again.** doc/软件设计文档.md:1105 and 1111-1112 want `sequence` to
  rise within a request, so that its timeline can be rebuilt by it. The counter lives
  in the process (event_store.py:26, 49): a second process with the same request id
  appends to the file and counts from one, until its reports read the file.
* **A failed event write.** doc/软件设计文档.md:1113 wants it to leave the run alone and to
  be logged as a warning. `append` and `_append_event` (event_store.py:58, logger.py:660)
  guard nothing: the exception goes into the task that reported, from there up the
  tree, and ends the run. `EventsExplainSnapshot` says only what such a write costs the
  files, not that the run has to end.
* **A display that waits.** doc/首期实现方案.md:653 wants the display of a failed run
  to leave after a short stay. The automatic exit looks for a final status in the
  snapshot; after an exception in the scheduler the snapshot says running for ever.

Disagreements with the docs that have no run of their own:

* **Declared order.** doc/软件设计文档.md:813 wants siblings to run in the order they are
  declared in; ids are sorted as strings (scheduler.py:73), so that from eleven siblings
  on number 10 runs before number 2. `SortsBefore` is that order, `OneAfterTheOther` is
  about it, and the plans of the run `scheduler` hold a function at position 10 before one
  at position 2.
* **Null retries.** doc/软件设计文档.md:234 wants `default_retry` to be an int; the
  validator accepts null, and `run_function` then raises in `range(None + 1)`
  (scheduler.py:207). `PlanIsRunnable` supposes that the global settings of such a run
  are numbers.

Seen while modelling, with no line of the repository that we know of against it: a
negative number of retries, which the validator accepts, leaves a task without an
attempt, and it raises; an answer `{"code": "0"}` that a rule fails keeps its code; the
counters of the last snapshot do not count aborted tasks, which no callback
reports; `completed_tasks` is set before `on_task_finished`, so that a task whose
last write failed counts as completed and raises; `loop`, `loop_count`,
`sn_required` and `--no-report` are read by nothing; a run that reuses a request id
shows the old final status until its first snapshot (`reused`).

### Fairness

`InternalFairness`: threads run, and a thread that finds the mutex free again
and again gets it. `threading.Lock` promises no order, but each poller sleeps
between two tries, so nobody holds or retakes the mutex without end. `Acquire`,
`Release` and `Refused`, the caller's own decisions, are not fair. `TaskFairness`
adds the scheduler's threads, and the end of a worker thread that has answered;
a body need never answer. `FairSpec` of `Scheduler` supposes that function tasks
end: they do with a timeout (`TasksWithTimeoutEnd`); without one, a body that
hangs hangs the run, and with it all that wait for its resources without a
deadline. `FairSpec` of `Observer` makes the same assumption of bodies and threads,
as one condition on `Report`: in each state something the run waits for can
happen, or the run is over. Kills, failed writes and restarts are never required.
In `RunControl` the worker, the display's loop, the return of `main` and the
samplers' threads are fair; keys, interrupts, errors and calls are not, so
`EndedRunIsReported` and `SamplersEnd` need nobody to press a key.

## Proofs

`tlapm` checks all of the following, for every value of the constants that meets
the named assumptions.

* `ResourceLocksProofs`. The invariant `IInv` is inductive: types; calls in flight
  go to one manager (`OneManagerInCalls`); a mutex belongs to the thread inside a
  critical section of its manager (`MutexInv`); entries
  owned under a task's id are exactly those of its grant, or the part of it that
  a loop has visited (`OwnerInv`); a scan has passed only entries that are free
  and out of quarantine at the clock it read, and they stay so (`ScanInv`,
  `ClaimInv`): while the mutex is held nobody writes them, and time only runs
  quarantines down. `MutualExclusion`, `OwnershipMatchesCalls` and
  `NoOwnerInQuarantine` are not inductive alone, since they say nothing of
  threads inside the loops. They suppose `DistinctTasks`, which the violation
  `same_task_id` shows to be needed, and one manager in calls, which
  `manager_race` shows to be needed; `Init` of `ResourceLocks` gives it.
  From the same invariant, each step maps to a step of `LockTable` or to a stutter:
  the end of a scan is the grant, the entry into the
  critical section of `release` is the giving back; the quarantine of an entry
  that the loop has not reached yet is the one that it is about to write.
  Without any condition on managers there remains `OwnsOnlyOwn`: a thread owns no
  more than its call has been granted and not yet given back.
* `FunctionTaskProofs`. The five safety properties of the run `function_task`, for
  any tasks, needs, timeouts and retries. Each step is a step of `ResourceLocks` or
  leaves the locks alone, but for the choice of a manager by a thread that makes
  no call (`LockPart`), so the invariants above carry over. `PlaceInv` says
  which call of the lock manager belongs to each step of the retry loop; with
  `OwnsOnlyOwn` it gives `NothingLeftLocked`, also for several managers.
  `ManagersInv` and `Single` are the condition `OneManagerMade` in a form that steps
  preserve: managers are only ever added, so `Single => IInv` is inductive, and
  `SerialisedByOneManager` follows from the ownership of those in bodies.
  `QuarantineShieldsZombies` needs `ZombieInv`, about each body given up less than
  a quarantine ago: either the table holds its resources back for the rest of that
  time, or the attempt has still to give them back and will begin their quarantine
  no earlier than the body was given up (`Cooling`). `OutcomeIsOwn` follows
  from `OutcomeInv`: from the end of the join on, a result that is neither a timeout
  nor an exception is what the queue of the current attempt holds, and the thread
  that put it there has ended.
  `NothingLeftLocked` and the two about one manager suppose `DistinctTasks`, as the
  locks do; typing and `OutcomeIsOwn` suppose nothing.
* `PoliciesProofs`. `aggregate_status` passes only what has passed, and does not
  depend on how non-empty groups are nested. `LargestExists`, that a
  finite set of numbers has a largest, is what the last line about a task
  (`ObserverProofs`) and the last function before another (`ConfigPlanProofs`) rest on.
* `SchedulerProofs`. Each safety property of `Scheduler` that the run `scheduler`
  checks, for any fixture, cases and functions (fewer than 100 siblings) and any
  set of plans over them. `Moves`, `Callers`, `Owners` and `Keeps` say once what a
  step may do: a task only moves on, only its running container calls or aborts
  it, only a container changes what it keeps. The invariant `IInv` has one part
  for each fact the properties lean on: what is collected has ended
  (`CollectedDone`), a sequential container waits for one child (`OneCall`), a
  stop has a failed child behind it and is set in the step that collects it
  (`StoppedForAReason`, `StopSeen`), an abort takes all that is left
  (`AbortIsLast`), what counts for a dependency has finished (`KnownFinished`).
  `PassedMeansAllPassed` follows from `Verdicts`, the same fact one level at a
  time, by `PassedOnlyByAll`.

* `TreeRefinementProofs`. `Scheduler` implements `TaskTree`, for any plan. What is
  shown of a task depends on its own phase and, if it was aborted, on whether its
  container has returned, so a step that moves one task is a step of the tree
  (`OneMoves`, `OneReturns`), and those that only submit, collect or abort show
  nothing (`NothingShown`). The returns of containers need `AbortedForAReason` and
  `ResultIsAggregate`, exceptions need `NothingOutlivesItsContainer` and that a loop
  is left only for a child that raised (`UnwoundForAReason`).
* `ObserverProofs`. The six safety properties of the run `observer`, for any finite
  tree of tasks, plans, outcomes, retries, failed writes and processes. The trees
  are finite because a counter is a number of tasks; the plans of the builders are.
  `SequenceOrdersOneProcess` needs that the counter is never behind the file
  (`CounterInv`), also where it jumps to the largest number read. `ShapeInv` says how
  the stages of a task and of its parent agree, `KnownInv` how what the observer
  noted of a task agrees with its stage; from both, an inferred final status is
  the task's own (`EarlyInv`), and what the last callbacks wrote is whole at the end
  (`EndInv`). `NestInv` says of all lines what `EventsAreNested` says of the last, and
  of each task what the lines tell at its stage (`ToldOf`): a task between attempts
  has a retry after each start, a finished one an end. `CostInv` bounds the tasks whose
  state the file does not tell by the failed writes: a report changes the state of its
  own task alone, and without a fault its line tells that state, whatever the file had
  missed of the task before. `ExplainInv` bounds how far the counters lag
  (`Lagging`): a failed write adds one to the bound, and a snapshot that is written
  makes up for all. All three suppose `NothingSwallowed`, as the properties do: after a
  torn line the file does not tell everything, and no invariant could make it.
* `RunControlProofs`. The four safety properties of the run `run_control`, for any
  number of calls, statuses, linger times and directories. `ExitCodeTellsTheRun` is
  inductive with one fact more (`NotYetOver`): while `main` runs it has no exit
  code, and before it begins there is no worker. `OneSampler` needs `SamplersInv`,
  which relates the threads of `SystemMonitor` to the place of the display: outside
  the display no object knows a thread, and none lives unless a join gave up.
  `AutoExitShowsTheEnd` needs that a final snapshot once seen is that of the run, for
  a request id of its own (`EndInv`), `RunControlTypeOK` the ranges of `TypesInv`.
* `ConfigPlanProofs`. `OverrideReachesEveryTask`, `SettingsAreInherited`,
  `PlanIsRunnable`, `SharedInterfaceIsLocked` and `VerdictOnlyWorsens`, for any requests that meet
  `IsRequest`, nulls and negative numbers included, and any boards. The one assumption on
  values, `ExpectationsAssumption`, says that None is not the number -1, that a numeral is read
  as an integer and that the order of strings is asymmetric. `Chain3` to `Chain5` say what `_choose_value` takes
  from a chain, `RootCarries`, `CaseCarries` and `FunctionCarries` what each level
  of a plan therefore carries; the invariant (`PlanInv`) is that a plan is the one of
  its request and a verdict that of its answer. `PlanIsRunnable` needs that a function
  has a dependency exactly if an enabled one stands before it, and that this is
  the last such (`LastBefore`, `Dependencies`), for lists of any length, and that a chain
  of optional numbers gives one after `OrZero` (`Filled`). The verdict needs only what rules do
  to a result (`Applied`, `HoldsOfNone`), not how the result is read from an answer.

So every safety property of the passing runs, invariant or action property, and
both refinements are theorems. Only model-checked are the liveness properties, since
fairness and ENABLED are out of the prover's reach: `CallsReturn`,
`TasksWithTimeoutEnd`, `RunEnds`, `RunComesToAnEnd`, `EndedRunIsReported` and
`SamplersEnd`. The properties of the violations do not hold; what is proved
beside them says what does: `SerialisedByOneManager` beside `Serialised`,
`DistinctTasks` as a hypothesis beside `same_task_id`, `SequenceOrdersOneProcess`
beside `SequenceRisesWithinRequest`, `EventsExplainSnapshot` beside
`LostEventSparesTheRun`.

## Plan

Done: the lock manager, function tasks, scheduler and policies with their proofs;
the task tree and the proof that the scheduler implements it; observer, stores and
reports with failed writes, kills and a second process; run control, display and
sampler; resolver, plan builders and rules.

Next, the boundaries that are still in words, as refinements: that a task of
`FunctionTask` is what `Scheduler` takes it for, a start followed by one end, and that
the scheduler with the display is what `RunControl` takes its worker for.

## Not modelled

* Adapters, capabilities and test functions: device I/O, or wrappers around it; to
  the scheduler they are bodies. The Zephyr adapters are skeletons that raise.
* The scripts that build, install and deploy packages: tooling around the
  program, not part of a run.
* The check of each field by the validator and the reading of JSON keep no state;
  `ConfigPlan` starts from what they leave (`IsRequest`), nulls and negative numbers
  included; `FunctionTask` takes tasks with a natural number of retries.
* Templates outside resources, loops, serial numbers and report switches, which no
  task carries.
* Argument parsing; the texts of reports, panels and messages; the logs; the
  standalone viewer `run_dashboard.py`, which only reads.
* One scheduler used for several contexts: managers are
  kept by `id(context)`, and a model of it would need the life of Python objects.
