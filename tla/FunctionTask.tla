---- MODULE FunctionTask ----
(***************************************************************************)
(* A function task from its first attempt to its result: the retry loop of *)
(* Scheduler._execute_function_task around the lock manager and the        *)
(* FunctionExecutor, which runs the body in a daemon thread and gives up   *)
(* waiting for it after the task's timeout, without stopping it.           *)
(*                                                                         *)
(* Each of Threads is a scheduler thread that executes one function task;  *)
(* all of them share the table of locks of one ExecutionContext.           *)
(***************************************************************************)
EXTENDS ResourceLocks, Policies, FiniteSets

CONSTANTS
    Needs,         \* the resources of each thread's task
    MaxRetries,    \* retry_policy.max_retries of each task
    TimeoutOf,     \* task.timeout of each task, NoDeadline for None
    IntervalOf,    \* retry_policy.interval_seconds of each task, in ticks
    QuarantineOf,  \* resource_lock_quarantine_seconds of each task, in ticks
    Outcomes,      \* the statuses that a finished body may give
    NoManager      \* no lock manager is registered for the context

ASSUME TaskAssumption ==
    /\ Needs \in [Threads -> SUBSET Resources]
    /\ MaxRetries \in [Threads -> Nat]
    /\ TimeoutOf \in [Threads -> NoDeadline .. MaxTimeout]
    /\ IntervalOf \in [Threads -> 0 .. MaxTimeout]
    /\ QuarantineOf \in [Threads -> 0 .. MaxQuarantine]
    /\ Outcomes \subseteq ResultStatus
    /\ NoManager \notin Managers

VARIABLES
    registry,    \* the threads whose function is in function_registry
    registered,  \* Scheduler._resource_lock_managers[id(context)]
    made,        \* the manager objects created so far
    step,        \* where each thread is in _execute_function_task
    attempt,     \* the loop variable of the retry loop
    result,      \* the status of the last attempt
    timer,       \* what is left of worker.join(timeout) or of the retry pause
    worker,      \* the state of the body of each attempt
    outcome,     \* what the body of each attempt put in its queue
    adrift       \* ticks since each attempt was given up, its body running

shared   == <<registry, registered, made>>
bodyVars == <<worker, outcome, adrift>>
taskVars == <<shared, step, attempt, result, timer, bodyVars>>
vars == <<lockVars, taskVars>>

Attempts == UNION {{t} \X (0 .. MaxRetries[t]) : t \in Threads}
Current(t) == <<t, attempt[t]>>

NotAdrift == -1

Steps == {"lookup", "create", "begin", "attempt", "join", "finally", "decide",
          "pause", "done", "raised"}

TaskTypeOK ==
    /\ TypeOK
    /\ registry \subseteq Threads
    /\ registered \in Managers \cup {NoManager}
    /\ made \subseteq Managers
    /\ step \in [Threads -> Steps]
    /\ attempt \in [Threads -> Nat]
    /\ \A t \in Threads : attempt[t] <= MaxRetries[t]
    /\ result \in [Threads -> ResultStatus \cup {"none", "raised"}]
    /\ timer \in [Threads -> NoDeadline .. MaxTimeout]
    /\ worker \in [Attempts -> {"none", "running", "ended", "dead"}]
    /\ outcome \in [Attempts -> ResultStatus \cup {"none"}]
    /\ adrift \in [Attempts -> NotAdrift .. MaxQuarantine]

(* The context has no lock and the scheduler no manager for it yet. *)
TaskInit ==
    /\ LockInit
    /\ manager = [t \in Threads |-> CHOOSE m \in Managers : TRUE]
    /\ registry \in SUBSET Threads
    /\ registered = NoManager
    /\ made = {}
    /\ step = [t \in Threads |-> "lookup"]
    /\ attempt = [t \in Threads |-> 0]
    /\ result = [t \in Threads |-> "none"]
    /\ timer = [t \in Threads |-> 0]
    /\ worker = [x \in Attempts |-> "none"]
    /\ outcome = [x \in Attempts |-> "none"]
    /\ adrift = [x \in Attempts |-> NotAdrift]


----------------------------------------------------------------------------
(* _resource_lock_manager: get, and create if there was none.  Nothing      *)
(* protects the two steps.                                                   *)

Lookup(t) ==
    /\ step[t] = "lookup"
    /\ IF registered = NoManager
       THEN /\ step' = [step EXCEPT ![t] = "create"]
            /\ UNCHANGED manager
       ELSE /\ step' = [step EXCEPT ![t] = "begin"]
            /\ manager' = [manager EXCEPT ![t] = registered]
    /\ UNCHANGED <<table, mutex, pc, callVars, shared, attempt, result, timer,
                   bodyVars>>

Create(t) ==
    /\ step[t] = "create"
    /\ \E m \in Managers \ made :
        /\ made' = made \cup {m}
        /\ registered' = m
        /\ manager' = [manager EXCEPT ![t] = m]
    /\ step' = [step EXCEPT ![t] = "begin"]
    /\ UNCHANGED <<table, mutex, pc, callVars, registry, attempt, result, timer, bodyVars>>

----------------------------------------------------------------------------
(* The retry loop *)

(* An attempt begins; the task's timeout also bounds the wait for its locks. *)
Begin(t) ==
    /\ step[t] = "begin"
    /\ step' = [step EXCEPT ![t] = "attempt"]
    /\ IF Needs[t] # {}
       THEN Acquire(t, Needs[t], TimeoutOf[t])
       ELSE UNCHANGED lockVars
    /\ result' = [result EXCEPT ![t] = "none"]
    /\ UNCHANGED <<shared, attempt, timer, bodyVars>>

(* The attempt ended with the status: pause and try again, or finish. *)
RetryOrFinish(t, status) ==
    IF should_retry(status, attempt[t], MaxRetries[t])
    THEN /\ step' = [step EXCEPT ![t] = "pause"]
         /\ attempt' = [attempt EXCEPT ![t] = @ + 1]
         /\ timer' = [timer EXCEPT ![t] = IntervalOf[t]]
    ELSE /\ step' = [step EXCEPT ![t] = "done"]
         /\ UNCHANGED <<attempt, timer>>

(* The locks were not to be had: the attempt ends as a timeout. *)
LockFailed(t) ==
    /\ step[t] = "attempt"
    /\ Refused(t)
    /\ result' = [result EXCEPT ![t] = "timeout"]
    /\ RetryOrFinish(t, "timeout")
    /\ UNCHANGED <<shared, bodyVars>>

(* Mutant: the answer of acquire is not looked at. *)
LocksNotAwaited(t) == Needs[t] = {} \/ pc[t] # "idle"

LocksHeld(t) == Needs[t] = {} \/ pc[t] = "holding"

(* Mutant: an exception skips the release. *)
ExecuteRaisesThrough(t) ==
    /\ step[t] = "attempt" /\ LocksHeld(t)
    /\ t \notin registry
    /\ result' = [result EXCEPT ![t] = "raised"]
    /\ step' = [step EXCEPT ![t] = "raised"]
    /\ UNCHANGED <<lockVars, shared, attempt, timer, bodyVars>>

(* FunctionExecutor.execute raises before it has a body to run. *)
ExecuteRaises(t) ==
    /\ step[t] = "attempt" /\ LocksHeld(t)
    /\ t \notin registry
    /\ result' = [result EXCEPT ![t] = "raised"]
    /\ step' = [step EXCEPT ![t] = "finally"]
    /\ UNCHANGED <<lockVars, shared, attempt, timer, bodyVars>>

(* The body starts, in a worker thread when the task has a timeout. *)
Execute(t) ==
    /\ step[t] = "attempt" /\ LocksHeld(t)
    /\ t \in registry
    /\ worker' = [worker EXCEPT ![Current(t)] = "running"]
    /\ timer' = [timer EXCEPT ![t] = TimeoutOf[t]]
    /\ step' = [step EXCEPT ![t] = "join"]
    /\ UNCHANGED <<lockVars, shared, attempt, result, outcome, adrift>>

(* A body finishes, in time or long after its attempt was given up, and     *)
(* puts its outcome in the queue of its own attempt.  A body called without  *)
(* a timeout has no worker thread and just returns.                          *)
BodyEnds(x) ==
    /\ worker[x] = "running"
    /\ worker' = [worker EXCEPT
                     ![x] = IF TimeoutOf[x[1]] = NoDeadline THEN "dead" ELSE "ended"]
    /\ \E status \in Outcomes : outcome' = [outcome EXCEPT ![x] = status]
    /\ adrift' = [adrift EXCEPT ![x] = NotAdrift]
    /\ UNCHANGED <<lockVars, shared, step, attempt, result, timer>>

WorkerExits(x) ==
    /\ worker[x] = "ended"
    /\ worker' = [worker EXCEPT ![x] = "dead"]
    /\ UNCHANGED <<lockVars, shared, step, attempt, result, timer, outcome, adrift>>

(* Mutant: the attempts of a task share one queue. *)
JoinReturnsAnyOutcome(t) ==
    /\ step[t] = "join"
    /\ \E x \in Attempts :
        /\ x[1] = t /\ worker[x] = "dead"
        /\ result' = [result EXCEPT ![t] = outcome[x]]
    /\ step' = [step EXCEPT ![t] = "finally"]
    /\ timer' = [timer EXCEPT ![t] = 0]
    /\ UNCHANGED <<lockVars, shared, attempt, bodyVars>>

(* worker.join returns and the worker is no longer alive. *)
JoinReturns(t) ==
    /\ step[t] = "join"
    /\ worker[Current(t)] = "dead"
    /\ result' = [result EXCEPT ![t] = outcome[Current(t)]]
    /\ step' = [step EXCEPT ![t] = "finally"]
    /\ timer' = [timer EXCEPT ![t] = 0]
    /\ UNCHANGED <<lockVars, shared, attempt, bodyVars>>

(* Mutant: the join gives up only on a body that has answered. *)
JoinTimesOutAnswered(t) ==
    /\ step[t] = "join"
    /\ TimeoutOf[t] # NoDeadline /\ timer[t] = 0
    /\ worker[Current(t)] = "ended"
    /\ result' = [result EXCEPT ![t] = "timeout"]
    /\ step' = [step EXCEPT ![t] = "finally"]
    /\ UNCHANGED <<lockVars, shared, attempt, timer, bodyVars>>

(* worker.join timed out and the worker is still alive, although it may have *)
(* put its outcome in the queue already.                                      *)
JoinTimesOut(t) ==
    /\ step[t] = "join"
    /\ TimeoutOf[t] # NoDeadline /\ timer[t] = 0
    /\ worker[Current(t)] # "dead"
    /\ result' = [result EXCEPT ![t] = "timeout"]
    /\ adrift' = [adrift EXCEPT ![Current(t)] =
                     IF worker[Current(t)] = "running" THEN 0 ELSE NotAdrift]
    /\ step' = [step EXCEPT ![t] = "finally"]
    /\ UNCHANGED <<lockVars, shared, attempt, timer, worker, outcome>>

(* Mutant: a timeout gives the locks back like any other end. *)
FinallyWithoutQuarantine(t) ==
    /\ step[t] = "finally"
    /\ step' = [step EXCEPT ![t] = "decide"]
    /\ IF Needs[t] # {} THEN Release(t, 0) ELSE UNCHANGED lockVars
    /\ UNCHANGED <<shared, attempt, result, timer, bodyVars>>

(* finally: the locks are given back, with a quarantine after a timeout, also *)
(* when execute raised.                                                       *)
Finally(t) ==
    /\ step[t] = "finally"
    /\ step' = [step EXCEPT ![t] = "decide"]
    /\ IF Needs[t] # {}
       THEN Release(t, IF result[t] = "timeout" THEN QuarantineOf[t] ELSE 0)
       ELSE UNCHANGED lockVars
    /\ UNCHANGED <<shared, attempt, result, timer, bodyVars>>

(* release has returned: propagate the exception, retry or finish. *)
Decide(t) ==
    /\ step[t] = "decide"
    /\ pc[t] = "idle"
    /\ IF result[t] = "raised"
       THEN /\ step' = [step EXCEPT ![t] = "raised"]
            /\ UNCHANGED <<attempt, timer>>
       ELSE RetryOrFinish(t, result[t])
    /\ UNCHANGED <<lockVars, shared, result, bodyVars>>

Resume(t) ==
    /\ step[t] = "pause"
    /\ timer[t] = 0
    /\ step' = [step EXCEPT ![t] = "begin"]
    /\ UNCHANGED <<lockVars, shared, attempt, result, timer, bodyVars>>

----------------------------------------------------------------------------
(* One clock for the locks, the joins, the pauses and the bodies adrift. *)
TaskTick ==
    /\ Tick
    /\ timer' = [t \in Threads |->
                    IF timer[t] = NoDeadline THEN NoDeadline
                    ELSE Sooner(timer[t], 0)]
    /\ adrift' = [x \in Attempts |->
                    IF adrift[x] = NotAdrift THEN NotAdrift
                    ELSE Shorter(adrift[x] + 1, MaxQuarantine)]
    /\ UNCHANGED <<shared, step, attempt, result, worker, outcome>>

(* The thread works on its attempt, in the lock manager or around it. *)
Work(t) ==
    \/ Lookup(t) \/ Create(t) \/ Begin(t) \/ LockFailed(t)
    \/ ExecuteRaises(t) \/ Execute(t)
    \/ JoinReturns(t) \/ JoinTimesOut(t) \/ Finally(t) \/ Decide(t) \/ Resume(t)

InLocks(t) == Internal(t) /\ UNCHANGED taskVars

TaskNext ==
    \/ \E t \in Threads : Work(t) \/ InLocks(t)
    \/ \E x \in Attempts : BodyEnds(x) \/ WorkerExits(x)
    \/ TaskTick

TaskSpec == TaskInit /\ [][TaskNext]_vars

(* Scheduler threads, worker threads and the clock run; a body need not end. *)
TaskFairness ==
    /\ \A t \in Threads :
        /\ WF_vars(Work(t) \/ InLocks(t))
        /\ SF_vars((Lock(t) \/ LockToRelease(t)) /\ UNCHANGED taskVars)
    /\ \A x \in Attempts : WF_vars(WorkerExits(x))
    /\ WF_vars(TaskTick)

FairTaskSpec == TaskSpec /\ TaskFairness

----------------------------------------------------------------------------
(* Properties *)

(* The task's own body runs and the task still waits for it. *)
InBody(t) == step[t] = "join" /\ worker[Current(t)] = "running"

(* Two tasks that need a common resource never run their bodies at once,    *)
(* as test_scheduler_serializes_parallel_cases_that_share_resource expects  *)
(* of two parallel cases.                                                    *)
Serialised ==
    \A t, u \in Threads :
        t # u /\ InBody(t) /\ InBody(u) => Needs[t] \cap Needs[u] = {}

OneManagerMade == Cardinality(made) <= 1

(* Tasks are serialised in every run in which the first threads did not race *)
(* through _resource_lock_manager.                                            *)
SerialisedByOneManager == OneManagerMade => Serialised

(* A body that outlives its timeout is given the whole quarantine before any  *)
(* body, its own retry's included, may use one of its resources again: the   *)
(* time starts no later than the timeout, whenever the lock is given back.   *)
QuarantineShieldsZombies ==
    OneManagerMade =>
        \A x \in Attempts, u \in Threads :
            adrift[x] # NotAdrift /\ InBody(u) /\ Needs[x[1]] \cap Needs[u] # {}
            => adrift[x] >= QuarantineOf[x[1]]

(* A task that is between attempts, finished or has raised owns no resource, *)
(* even when several managers fought over the table.                         *)
NothingLeftLocked ==
    \A t \in Threads :
        step[t] \in {"begin", "pause", "done", "raised"} =>
            \A r \in Resources : owner[r] # TaskOf[t]

(* The status a task ends with is that of its last attempt: a status other   *)
(* than a timeout is what that attempt's own body put in its queue before the *)
(* task stopped waiting, never the late answer of an attempt given up.       *)
OutcomeIsOwn ==
    \A t \in Threads :
        step[t] = "done" /\ result[t] # "timeout" =>
            /\ outcome[Current(t)] = result[t]
            /\ worker[Current(t)] = "dead"

(* A task with a timeout always ends, whatever its bodies, the other tasks   *)
(* and the quarantines do.                                                    *)
TasksWithTimeoutEnd ==
    \A t \in Threads :
        TimeoutOf[t] # NoDeadline => <>(step[t] \in {"done", "raised"})
====
