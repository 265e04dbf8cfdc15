---- MODULE Scheduler ----
(***************************************************************************)
(* The Scheduler (src/framework/execution/scheduler.py) walking a plan: a  *)
(* fixture over cases over functions.  _execute_task runs a container's    *)
(* children one after the other in its own thread, or each in a thread of  *)
(* a pool of its own, and collects their results; an exception travels up. *)
(*                                                                         *)
(* What happens inside a function task is the module FunctionTask; here it *)
(* ends with any status it may end with, or raises.                        *)
(***************************************************************************)
EXTENDS Policies

CONSTANTS
    Root,       \* plan.root_task, the fixture
    Cases,      \* the tasks of type case
    Functions,  \* the tasks of type function
    CaseOf,     \* parent_task_id of each function
    Position,   \* the index in the task id of each case and function
    Outcomes,   \* the statuses a function task may end with
    Plans       \* the plans to run, see PlanType

Containers == Cases \cup {Root}
Tasks == Containers \cup Functions

(* ExecutionTask.__post_init__ lets no other execution_mode into a plan, so  *)
(* that run and _execute_task never raise for one.                           *)
Modes == {"sequential", "parallel"}

PlanType ==
    [mode         : [Containers -> Modes],      \* execution_mode
     stop         : SUBSET Containers,          \* those with stop_on_failure
     unready      : SUBSET Cases,               \* those that miss an interface
     unregistered : SUBSET Functions,           \* those without implementation
     dependencies : [Cases \cup Functions -> SUBSET (Cases \cup Functions)]]

ASSUME SchedulerAssumption ==
    /\ Root \notin Cases /\ Root \notin Functions /\ Cases \cap Functions = {}
    /\ CaseOf \in [Functions -> Cases]
    /\ Position \in [Cases \cup Functions -> 0 .. 99]
    /\ Outcomes \subseteq ResultStatus
    /\ Plans \subseteq PlanType

VARIABLES
    plan,       \* the plan being run
    phase,      \* where each task is in its life
    status,     \* the status of its result
    loop,       \* where each parallel container is in its loop
    known,      \* its scheduler_completed
    collected,  \* the children whose results the container has taken
    stopping,   \* its stop_submitting
    completed   \* runtime_state["completed_tasks"]

vars == <<plan, phase, status, loop, known, collected, stopping, completed>>

Phases == {"idle", "submitted", "running", "finished", "raised", "aborted"}

SchedulerTypeOK ==
    /\ plan \in Plans
    /\ phase \in [Tasks -> Phases]
    /\ status \in [Tasks -> ResultStatus \cup {"none"}]
    /\ loop \in [Containers -> {"none", "submit", "wait", "unwind"}]
    /\ known \in [Containers -> SUBSET Tasks]
    /\ collected \in [Containers -> SUBSET Tasks]
    /\ stopping \in [Containers -> BOOLEAN]
    /\ completed \subseteq Tasks

(* children_by_parent *)
Kids(c) == IF c = Root THEN Cases ELSE {f \in Functions : CaseOf[f] = c}

Sequential(c) == plan.mode[c] = "sequential"

Idle(c)     == {k \in Kids(c) : phase[k] = "idle"}
Active(c)   == {k \in Kids(c) : phase[k] \in {"submitted", "running"}}
Called(c)   == {k \in Kids(c) : phase[k] \notin {"idle", "aborted"}}
InFlight(c) == Called(c) \ collected[c]

(* child_tasks.sort(key=task_id) compares the decimal numerals of the       *)
(* indices as strings.  Bound: fewer than 100 siblings.                      *)
FirstDigit(n) == IF n < 10 THEN n ELSE n \div 10

SortsBefore(j, k) ==
    LET m == Position[j]
        n == Position[k]
    IN  \/ FirstDigit(m) < FirstDigit(n)
        \/ FirstDigit(m) = FirstDigit(n) /\ m < n

(* Mutant: a status that is not in the enumeration. *)
CancelledResult == "cancelled"

(* _build_aborted_result *)
AbortedResult == "aborted"

NotPassed(k) == status[k] # "passed"

(* run calls _execute_task for the root. *)
Init ==
    /\ plan \in Plans
    /\ phase = [t \in Tasks |-> IF t = Root THEN "submitted" ELSE "idle"]
    /\ status = [t \in Tasks |-> "none"]
    /\ loop = [c \in Containers |-> "none"]
    /\ known = [c \in Containers |-> {}]
    /\ collected = [c \in Containers |-> {}]
    /\ stopping = [c \in Containers |-> FALSE]
    /\ completed = {}

----------------------------------------------------------------------------
(* _execute_task and _execute_function_task *)

Finished(t, s) ==
    /\ phase' = [phase EXCEPT ![t] = "finished"]
    /\ status' = [status EXCEPT ![t] = s]

Raised(t) ==
    /\ phase' = [phase EXCEPT ![t] = "raised"]
    /\ UNCHANGED <<plan, status, loop, known, collected, stopping, completed>>

(* The precheck comes first: a parallel container that passes it starts      *)
(* from the tasks completed by now.                                          *)
StartContainer(c) ==
    /\ phase[c] = "submitted"
    /\ phase' = [phase EXCEPT ![c] = "running"]
    /\ IF Sequential(c) \/ c \in plan.unready
       THEN UNCHANGED <<loop, known>>
       ELSE /\ loop' = [loop EXCEPT ![c] = "submit"]
            /\ known' = [known EXCEPT ![c] = completed]
    /\ UNCHANGED <<plan, status, collected, stopping, completed>>

(* A case that misses an interface has failed, with none of its functions   *)
(* started; it does not count as completed.                                 *)
PrecheckFails(c) ==
    /\ phase[c] = "running"
    /\ c \in plan.unready
    /\ Finished(c, "failed")
    /\ UNCHANGED <<plan, loop, known, collected, stopping, completed>>

StartFunction(f) ==
    /\ phase[f] = "submitted"
    /\ phase' = [phase EXCEPT ![f] = "running"]
    /\ UNCHANGED <<plan, status, loop, known, collected, stopping, completed>>

FunctionEnds(f) ==
    /\ phase[f] = "running"
    /\ f \notin plan.unregistered
    /\ \E s \in Outcomes : Finished(f, s)
    /\ completed' = completed \cup {f}
    /\ UNCHANGED <<plan, loop, known, collected, stopping>>

FunctionRaises(f) ==
    /\ phase[f] = "running"
    /\ f \in plan.unregistered
    /\ Raised(f)

(* The children's results are in: the container has its own. *)
Finish(c) ==
    /\ Finished(c, aggregate_status({status[k] : k \in Kids(c)}))
    /\ completed' = completed \cup {c}
    /\ UNCHANGED <<plan, loop, known, collected, stopping>>

----------------------------------------------------------------------------
(* _execute_children_sequential *)

(* Mutant: the children are not sorted. *)
CallAny(c) ==
    /\ phase[c] = "running" /\ Sequential(c) /\ c \notin plan.unready
    /\ InFlight(c) = {}
    /\ \E k \in Idle(c) : phase' = [phase EXCEPT ![k] = "submitted"]
    /\ UNCHANGED <<plan, status, loop, known, collected, stopping, completed>>

CallNext(c) ==
    /\ phase[c] = "running" /\ Sequential(c) /\ c \notin plan.unready
    /\ InFlight(c) = {}
    /\ \E k \in Idle(c) :
        /\ \A j \in Idle(c) \ {k} : SortsBefore(k, j)
        /\ phase' = [phase EXCEPT ![k] = "submitted"]
    /\ UNCHANGED <<plan, status, loop, known, collected, stopping, completed>>

(* The child returned; after a failure that stops the container each child  *)
(* not yet called gets an aborted result.                                    *)
Return(c) ==
    /\ phase[c] = "running" /\ Sequential(c)
    /\ \E k \in InFlight(c) :
        /\ phase[k] = "finished"
        /\ IF c \in plan.stop /\ NotPassed(k)
           THEN /\ phase' = [t \in Tasks |->
                                IF t \in Idle(c) THEN "aborted" ELSE phase[t]]
                /\ status' = [t \in Tasks |->
                                IF t \in Idle(c) THEN AbortedResult
                                ELSE status[t]]
                /\ collected' = [collected EXCEPT ![c] = @ \cup {k} \cup Idle(c)]
           ELSE /\ collected' = [collected EXCEPT ![c] = @ \cup {k}]
                /\ UNCHANGED <<phase, status>>
    /\ UNCHANGED <<plan, loop, known, stopping, completed>>

ChildRaised(c) ==
    /\ phase[c] = "running" /\ Sequential(c)
    /\ \E k \in InFlight(c) : phase[k] = "raised"
    /\ Raised(c)

FinishSequential(c) ==
    /\ phase[c] = "running" /\ Sequential(c) /\ c \notin plan.unready
    /\ collected[c] = Kids(c)
    /\ Finish(c)

----------------------------------------------------------------------------
(* _execute_children_parallel *)

AtSubmit(c) == phase[c] = "running" /\ loop[c] = "submit"

(* Mutant: a dependency counts as soon as it has been submitted. *)
ReadyEarly(c) ==
    {k \in Idle(c) :
        /\ ~stopping[c]
        /\ plan.dependencies[k] \subseteq known[c] \cup InFlight(c)}

(* Mutant: the stop does not reach the pending children. *)
ReadyAnyway(c) == {k \in Idle(c) : plan.dependencies[k] \subseteq known[c]}

Ready(c) ==
    {k \in Idle(c) : ~stopping[c] /\ plan.dependencies[k] \subseteq known[c]}

(* The pool has a thread for each child: whatever is submitted runs. *)
Submit(c) ==
    /\ AtSubmit(c)
    /\ InFlight(c) \cup Ready(c) # {}
    /\ phase' = [t \in Tasks |->
                    IF t \in Ready(c) THEN "submitted" ELSE phase[t]]
    /\ loop' = [loop EXCEPT ![c] = "wait"]
    /\ UNCHANGED <<plan, status, known, collected, stopping, completed>>

Stall(c) ==
    /\ AtSubmit(c)
    /\ InFlight(c) \cup Ready(c) = {}
    /\ Idle(c) # {} /\ ~stopping[c]
    /\ Raised(c)

(* Mutant: the exception of a child is lost. *)
ReapQuietly(c) ==
    /\ phase[c] = "running" /\ loop[c] = "wait"
    /\ \E done \in (SUBSET InFlight(c)) \ {{}} :
        /\ \A k \in done : phase[k] \in {"finished", "raised"}
        /\ loop' = [loop EXCEPT ![c] = "submit"]
        /\ known' = [known EXCEPT ![c] = @ \cup done]
        /\ collected' = [collected EXCEPT ![c] = @ \cup done]
        /\ stopping' = [stopping EXCEPT ![c] =
               @ \/ (c \in plan.stop /\ \E k \in done : NotPassed(k))]
    /\ UNCHANGED <<plan, phase, status, completed>>

(* wait returns the futures done so far, at least one: a child that has     *)
(* returned may not have set its future yet.  future.result() raises what    *)
(* the child raised, and the loop is left.                                   *)
Reap(c) ==
    /\ phase[c] = "running" /\ loop[c] = "wait"
    /\ \E done \in (SUBSET InFlight(c)) \ {{}} :
        /\ \A k \in done : phase[k] \in {"finished", "raised"}
        /\ IF \E k \in done : phase[k] = "raised"
           THEN /\ loop' = [loop EXCEPT ![c] = "unwind"]
                /\ UNCHANGED <<known, collected, stopping>>
           ELSE /\ loop' = [loop EXCEPT ![c] = "submit"]
                /\ known' = [known EXCEPT ![c] = @ \cup done]
                /\ collected' = [collected EXCEPT ![c] = @ \cup done]
                /\ stopping' = [stopping EXCEPT ![c] =
                       @ \/ (c \in plan.stop /\ \E k \in done : NotPassed(k))]
    /\ UNCHANGED <<plan, phase, status, completed>>

(* Mutant: the pool is shut down without waiting. *)
UnwindAtOnce(c) ==
    /\ phase[c] = "running" /\ loop[c] = "unwind"
    /\ Raised(c)

(* Leaving the with block waits for every child that was submitted. *)
Unwind(c) ==
    /\ phase[c] = "running" /\ loop[c] = "unwind"
    /\ Active(c) = {}
    /\ Raised(c)

(* Mutant: children that can never start count as aborted. *)
FinishStalled(c) ==
    /\ AtSubmit(c)
    /\ InFlight(c) \cup Ready(c) = {}
    /\ LET results == {status[k] : k \in Kids(c) \ Idle(c)}
                        \cup {AbortedResult : k \in Idle(c)}
       IN  status' = [t \in Tasks |-> IF t = c THEN aggregate_status(results)
                                      ELSE IF t \in Idle(c) THEN AbortedResult
                                      ELSE status[t]]
    /\ phase' = [t \in Tasks |-> IF t = c THEN "finished"
                                 ELSE IF t \in Idle(c) THEN "aborted"
                                 ELSE phase[t]]
    /\ completed' = completed \cup {c}
    /\ UNCHANGED <<plan, loop, known, collected, stopping>>

(* The children never submitted get an aborted result. *)
FinishParallel(c) ==
    /\ AtSubmit(c)
    /\ InFlight(c) = {}
    /\ Idle(c) = {} \/ stopping[c]
    /\ LET results == {status[k] : k \in Kids(c) \ Idle(c)}
                        \cup {AbortedResult : k \in Idle(c)}
       IN  status' = [t \in Tasks |-> IF t = c THEN aggregate_status(results)
                                      ELSE IF t \in Idle(c) THEN AbortedResult
                                      ELSE status[t]]
    /\ phase' = [t \in Tasks |-> IF t = c THEN "finished"
                                 ELSE IF t \in Idle(c) THEN "aborted"
                                 ELSE phase[t]]
    /\ completed' = completed \cup {c}
    /\ UNCHANGED <<plan, loop, known, collected, stopping>>

----------------------------------------------------------------------------
ContainerStep(c) ==
    \/ PrecheckFails(c) \/ StartContainer(c)
    \/ CallNext(c) \/ Return(c) \/ ChildRaised(c) \/ FinishSequential(c)
    \/ Submit(c) \/ Stall(c) \/ Reap(c) \/ Unwind(c) \/ FinishParallel(c)

FunctionStep(f) == StartFunction(f) \/ FunctionEnds(f) \/ FunctionRaises(f)

Next ==
    \/ \E c \in Containers : ContainerStep(c)
    \/ \E f \in Functions : FunctionStep(f)

Spec == Init /\ [][Next]_vars

(* The threads run, and function tasks end: they do when their bodies do or *)
(* they have a timeout (FunctionTask, TasksWithTimeoutEnd).                  *)
FairSpec ==
    /\ Spec
    /\ \A c \in Containers : WF_vars(ContainerStep(c))
    /\ \A f \in Functions : WF_vars(FunctionStep(f))

----------------------------------------------------------------------------
(* Properties *)

Ended(t) == phase[t] \in {"finished", "raised"}

(* A container that has a result or raised left nothing running: its pool   *)
(* is shut down also when an exception leaves the loop.  One with a result   *)
(* also has the result of each child, taken or aborted.                      *)
NothingOutlivesItsContainer ==
    \A c \in Containers :
        /\ phase[c] # "running" => Active(c) = {}
        /\ phase[c] = "finished" /\ c \notin plan.unready
           => \A k \in Kids(c) : phase[k] \in {"finished", "aborted"}

(* In a sequential container a child begins after those before it have      *)
(* ended.  Before means the order of the ids as strings (scheduler.py:73):   *)
(* the declared order of doc/软件设计文档.md:813 is another one from eleven     *)
(* siblings on, the eleventh of which (position 10) runs ahead of the third. *)
OneAfterTheOther ==
    \A c \in Containers :
        Sequential(c) =>
            \A j, k \in Kids(c) :
                SortsBefore(j, k) /\ phase[k] \notin {"idle", "aborted"}
                => phase[j] = "finished"

(* In a parallel container a child runs only after all it depends on has    *)
(* finished, wherever in the plan that is.                                   *)
DependenciesRespected ==
    \A c \in Containers :
        plan.mode[c] = "parallel" =>
            \A k \in Kids(c) : phase[k] \notin {"idle", "aborted"} =>
                \A d \in plan.dependencies[k] : phase[d] = "finished"

(* A task is aborted only in a container that stops on failure, because of a *)
(* sibling that ran and did not pass, and for no other reason.               *)
AbortedForAReason ==
    \A c \in Containers, k \in Tasks :
        k \in Kids(c) /\ phase[k] = "aborted" =>
            /\ c \in plan.stop
            /\ \E j \in Kids(c) : phase[j] = "finished" /\ NotPassed(j)

(* A run passes exactly if every case and every function of it ran and      *)
(* passed: no stop, precheck, abort or empty case hides in a pass.           *)
PassedMeansAllPassed ==
    phase[Root] = "finished" =>
        (status[Root] = "passed"
           <=> /\ Cases # {}
               /\ \A c \in Cases : Kids(c) # {}
               /\ \A t \in Cases \cup Functions :
                      phase[t] = "finished" /\ status[t] = "passed")

(* Once a container that stops on failure has seen a failure it submits     *)
(* nothing more, though what is in flight goes on.                           *)
StopIsFinal ==
    [][\A c \in Containers :
           c \in plan.stop
             /\ (\E k \in collected[c] : phase[k] = "finished" /\ NotPassed(k))
           => \A k \in Idle(c) : phase'[k] \in {"idle", "aborted"}]_vars

(* For those who watch it, the walk is that of the module TaskTree: a task    *)
(* that was submitted has not yet told anything, and an aborted one never    *)
(* does; its result comes with that of its container.                        *)
ShownStage ==
    [t \in Tasks |-> IF phase[t] = "running" THEN "started"
                     ELSE IF phase[t] = "finished" THEN "returned"
                     ELSE IF phase[t] = "raised" THEN "raised"
                     ELSE "idle"]

ShownVerdict ==
    [t \in Tasks |->
        IF \/ phase[t] = "finished"
           \/ phase[t] = "aborted" /\ phase[IF t \in Functions THEN CaseOf[t] ELSE Root] = "finished"
        THEN status[t] ELSE "none"]

Tree == INSTANCE TaskTree WITH stage <- ShownStage, verdict <- ShownVerdict

(* Whatever the modes, the order and the exceptions, what the callbacks of   *)
(* the scheduler show is a walk of the task tree: tasks inside their parents, *)
(* a result for each child of a container that returns, no task left running *)
(* in one that raised.                                                       *)
ImplementsTaskTree == Tree!TreeSpec

(* Every run ends, and an exception anywhere in the plan is the end of it:  *)
(* no pool swallows it.                                                      *)
RunEnds ==
    /\ <>Ended(Root)
    /\ (\E t \in Tasks : phase[t] = "raised") ~> phase[Root] = "raised"

(* doc/: a case in which a failure has triggered stop_on_failure is failed. *)
StopFailsCase ==
    \A c \in Cases :
        /\ phase[c] = "finished" /\ c \in plan.stop
        /\ \E k \in Kids(c) : status[k] = "failed"
        /\ \A k \in Kids(c) : status[k] \in {"passed", "failed", "aborted"}
        => status[c] = "failed"
====
