---- MODULE TaskTree ----
(***************************************************************************)
(* What those who watch a run may rely on, whatever order the Scheduler    *)
(* (src/framework/execution/scheduler.py) chooses: a task starts inside    *)
(* its parent, a container returns with a result for each child, and an    *)
(* exception leaves a container only when nothing in it runs any more.     *)
(* The module Scheduler implements this one; Observer is built over it.    *)
(***************************************************************************)
EXTENDS Policies

CONSTANTS
    Root,       \* plan.root_task, the fixture
    Cases,      \* the tasks of type case
    Functions,  \* the tasks of type function
    CaseOf,     \* parent_task_id of each function
    Outcomes,   \* the statuses a function task may end with
    Plans       \* records with the fields stop, unready and unregistered

Containers == Cases \cup {Root}
Tasks == Containers \cup Functions
Kids(c) == IF c = Root THEN Cases ELSE {f \in Functions : CaseOf[f] = c}
ParentOf(t) == IF t \in Functions THEN CaseOf[t] ELSE Root

VARIABLES
    plan,       \* the plan being run
    stage,      \* where each task is, as its callbacks show it
    verdict     \* the status of its result, aborted ones included

treeVars == <<plan, stage, verdict>>

TreeInit ==
    /\ plan \in Plans
    /\ stage = [t \in Tasks |-> "idle"]
    /\ verdict = [t \in Tasks |-> "none"]

CanStart(t) ==
    /\ stage[t] = "idle"
    /\ t # Root => stage[ParentOf(t)] = "started" /\ ParentOf(t) \notin plan.unready

CanReturn(f) == stage[f] = "started" /\ f \notin plan.unregistered

CanFailPrecheck(c) == stage[c] = "started" /\ c \in plan.unready

(* Mutant: a container does not wait for the children that run. *)
CollectedEarly(c) ==
    \E k \in Kids(c) : stage[k] = "returned"

(* Each child has returned, or has been aborted after a failure without ever *)
(* being started.                                                            *)
Collected(c) ==
    /\ \A k \in Kids(c) : stage[k] \in {"returned", "idle"}
    /\ (\E k \in Kids(c) : stage[k] = "idle") =>
           c \in plan.stop /\ \E k \in Kids(c) : stage[k] = "returned" /\ verdict[k] # "passed"

CanClose(c) == stage[c] = "started" /\ c \notin plan.unready /\ Collected(c)

(* The results when c closes: its own, and those of aborted children.        *)
ResultOf(k) == IF stage[k] = "returned" THEN verdict[k] ELSE "aborted"

Closed(c) ==
    [t \in Tasks |-> IF t = c THEN aggregate_status({ResultOf(k) : k \in Kids(c)})
                     ELSE IF t \in Kids(c) THEN ResultOf(t)
                     ELSE verdict[t]]

(* Mutant: a container raises only when all its children did. *)
RaisesOnlyIfAll(c) ==
    /\ stage[c] = "started"
    /\ Kids(c) # {} /\ \A k \in Kids(c) : stage[k] = "raised"

(* A child raised, or the rest can never be submitted; either way no child   *)
(* runs any more.                                                            *)
ContainerCanRaise(c) ==
    /\ stage[c] = "started" /\ c \notin plan.unready
    /\ \E k \in Kids(c) : stage[k] \in {"raised", "idle"}
    /\ \A k \in Kids(c) : stage[k] \in {"idle", "returned", "raised"}

FunctionCanRaise(f) == stage[f] = "started" /\ f \in plan.unregistered

----------------------------------------------------------------------------
(* A task moves to the next stage, with or without a result. *)

Enters(t, next) == stage' = [stage EXCEPT ![t] = next] /\ UNCHANGED <<plan, verdict>>

Returns(t, s) ==
    /\ stage' = [stage EXCEPT ![t] = "returned"]
    /\ verdict' = [verdict EXCEPT ![t] = s]
    /\ UNCHANGED plan

Closes(c) ==
    /\ CanClose(c)
    /\ stage' = [stage EXCEPT ![c] = "returned"]
    /\ verdict' = Closed(c)
    /\ UNCHANGED plan

TreeNext ==
    \/ \E t \in Tasks : CanStart(t) /\ Enters(t, "started")
    \/ \E f \in Functions, s \in Outcomes : CanReturn(f) /\ Returns(f, s)
    \/ \E f \in Functions : FunctionCanRaise(f) /\ Enters(f, "raised")
    \/ \E c \in Cases : CanFailPrecheck(c) /\ Returns(c, "failed")
    \/ \E c \in Containers : Closes(c)
    \/ \E c \in Containers : ContainerCanRaise(c) /\ Enters(c, "raised")

TreeSpec == TreeInit /\ [][TreeNext]_treeVars
====
