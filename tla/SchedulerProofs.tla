---- MODULE SchedulerProofs ----
(***************************************************************************)
(* The walk over a plan keeps its types, leaves nothing running behind,    *)
(* aborts only after a failure, and passes only if everything passed; for  *)
(* any fixture, cases and functions and any set of plans over them.        *)
(***************************************************************************)
EXTENDS Scheduler, PoliciesProofs

USE SchedulerAssumption

(* Nothing is called below a container that has not begun. *)
Untouched ==
    \A c \in Containers :
        phase[c] \in {"idle", "submitted", "aborted"}
        => \A k \in Kids(c) : phase[k] = "idle"

(* A case that misses an interface calls nothing. *)
UnreadyStays ==
    \A c \in plan.unready :
        loop[c] = "none" /\ \A k \in Kids(c) : phase[k] = "idle"

(* What a container has collected are results of its children. *)
CollectedDone ==
    \A c \in Containers :
        \A k \in collected[c] : k \in Kids(c) /\ phase[k] \in {"finished", "aborted"}

(* A sequential container waits for one child at a time. *)
OneCall ==
    \A c \in Containers :
        Sequential(c) => \A j, k \in InFlight(c) : j = k

(* Only a parallel container is in a loop. *)
LoopIsParallel == \A c \in Containers : loop[c] # "none" => ~Sequential(c)

(* A container stops because of a child that failed. *)
StoppedForAReason ==
    \A c \in Containers :
        stopping[c] =>
            /\ c \in plan.stop
            /\ \E k \in Kids(c) : phase[k] = "finished" /\ NotPassed(k)

(* A container that has collected a failure to stop for knows of it. *)
StopSeen ==
    \A c \in Containers :
        /\ c \in plan.stop
        /\ \E k \in collected[c] : phase[k] = "finished" /\ NotPassed(k)
        => Idle(c) = {} \/ (~Sequential(c) /\ stopping[c])

(* An abort takes all the children that are left. *)
AbortIsLast ==
    \A c \in Containers :
        (\E k \in Kids(c) : phase[k] = "aborted") => Idle(c) = {}

(* What counts for a dependency has finished. *)
KnownFinished ==
    /\ \A t \in completed : phase[t] = "finished"
    /\ \A c \in Containers : \A t \in known[c] : phase[t] = "finished"

(* Tasks that have ended have a status, aborted ones that of an abort. *)
Statuses ==
    \A t \in Tasks :
        /\ phase[t] = "finished" => status[t] \in ResultStatus
        /\ phase[t] = "aborted" => status[t] = "aborted"

(* A container has passed if it has children and they all ran and passed. *)
Verdicts ==
    \A c \in Containers :
        phase[c] = "finished" =>
            (status[c] = "passed"
               <=> /\ c \notin plan.unready
                   /\ Kids(c) # {}
                   /\ \A k \in Kids(c) :
                          phase[k] = "finished" /\ status[k] = "passed")

IInv ==
    /\ SchedulerTypeOK
    /\ Untouched
    /\ UnreadyStays
    /\ CollectedDone
    /\ OneCall
    /\ LoopIsParallel
    /\ StoppedForAReason
    /\ StopSeen
    /\ AbortIsLast
    /\ KnownFinished
    /\ Statuses
    /\ Verdicts
    /\ NothingOutlivesItsContainer
    /\ AbortedForAReason
    /\ OneAfterTheOther
    /\ DependenciesRespected

----------------------------------------------------------------------------
(* Each task but the root is the child of one container. *)
LEMMA KidsFacts ==
    /\ \A c \in Containers : Kids(c) \subseteq Tasks /\ c \notin Kids(c)
    /\ \A c \in Containers : Root \notin Kids(c)
    /\ \A c, d \in Containers : c # d => Kids(c) \cap Kids(d) = {}
  BY DEF Kids, Containers, Tasks

(* Types at the start. *)
LEMMA TypeInit == Init => SchedulerTypeOK
  BY DEF Init, SchedulerTypeOK, Phases, Tasks, Containers

(* Types over a step. *)
LEMMA TypeStep ==
    ASSUME SchedulerTypeOK, [Next]_vars
    PROVE  SchedulerTypeOK'
<1> USE DEF SchedulerTypeOK
<1>1. CASE UNCHANGED vars
  BY <1>1 DEF vars
<1>2. ASSUME NEW f \in Functions, FunctionStep(f)
      PROVE  SchedulerTypeOK'
  BY <1>2 DEF FunctionStep, StartFunction, FunctionEnds, FunctionRaises, Finished,
     Raised, Phases, Tasks
<1>3. ASSUME NEW c \in Containers, ContainerStep(c)
      PROVE  SchedulerTypeOK'
  <2> USE KidsFacts
  <2>0. c \in Tasks
    BY DEF Tasks
  <2>1. CASE PrecheckFails(c) \/ StartContainer(c)
    BY <2>0, <2>1 DEF PrecheckFails, StartContainer, Finished, Phases, ResultStatus
  <2>2. CASE CallNext(c)
    BY <2>0, <2>2 DEF CallNext, Idle, Phases
  <2>3. CASE Return(c)
    BY <2>0, <2>3 DEF Return, InFlight, Called, Idle, AbortedResult, Phases, ResultStatus
  <2>4. CASE ChildRaised(c) \/ Stall(c) \/ Unwind(c)
    BY <2>0, <2>4 DEF ChildRaised, Stall, Unwind, Raised, Phases
  <2>5. CASE FinishSequential(c)
    BY <2>0, <2>5, AggregateType DEF FinishSequential, Finish, Finished, Phases
  <2>6. CASE Submit(c)
    BY <2>0, <2>6 DEF Submit, Phases
  <2>7. CASE Reap(c)
    <3>1. PICK done \in (SUBSET InFlight(c)) \ {{}} :
            IF \E k \in done : phase[k] = "raised"
            THEN /\ loop' = [loop EXCEPT ![c] = "unwind"]
                 /\ UNCHANGED <<known, collected, stopping>>
            ELSE /\ loop' = [loop EXCEPT ![c] = "submit"]
                 /\ known' = [known EXCEPT ![c] = @ \cup done]
                 /\ collected' = [collected EXCEPT ![c] = @ \cup done]
                 /\ stopping' = [stopping EXCEPT ![c] =
                       @ \/ (c \in plan.stop /\ \E k \in done : NotPassed(k))]
      BY <2>7 DEF Reap
    <3>2. done \subseteq Tasks
      BY DEF InFlight, Called
    <3>3. (stopping[c] \/ (c \in plan.stop /\ \E k \in done : NotPassed(k))) \in BOOLEAN
      OBVIOUS
    <3>4. stopping' \in [Containers -> BOOLEAN]
      BY <3>1, <3>3
    <3>5. loop' \in [Containers -> {"none", "submit", "wait", "unwind"}]
      BY <3>1
    <3>6. /\ known' \in [Containers -> SUBSET Tasks]
          /\ collected' \in [Containers -> SUBSET Tasks]
      BY <3>1, <3>2
    <3> QED
      BY <2>7, <3>4, <3>5, <3>6 DEF Reap
  <2>8. CASE FinishParallel(c)
    BY <2>0, <2>8, AggregateType DEF FinishParallel, AbortedResult, Phases, ResultStatus
  <2> QED
    BY <1>3, <2>1, <2>2, <2>3, <2>4, <2>5, <2>6, <2>7, <2>8 DEF ContainerStep
<1> QED
  BY <1>1, <1>2, <1>3 DEF Next

----------------------------------------------------------------------------
(* A task only moves on, and one that has ended keeps its result. *)
Onward(t) ==
    /\ phase[t] = "idle" => phase'[t] \in {"idle", "submitted", "aborted"}
    /\ phase[t] = "submitted" => phase'[t] \in {"submitted", "running"}
    /\ phase[t] = "running" => phase'[t] \in {"running", "finished", "raised"}
    /\ phase[t] \in {"finished", "raised", "aborted"}
       => phase'[t] = phase[t] /\ status'[t] = status[t]

(* Every step moves tasks on. *)
LEMMA Moves ==
    ASSUME SchedulerTypeOK, [Next]_vars
    PROVE  plan' = plan /\ \A t \in Tasks : Onward(t)
<1> USE DEF SchedulerTypeOK, Onward
<1>1. CASE UNCHANGED vars
  BY <1>1 DEF vars
<1>2. ASSUME NEW f \in Functions, FunctionStep(f)
      PROVE  plan' = plan /\ \A t \in Tasks : Onward(t)
  BY <1>2 DEF FunctionStep, StartFunction, FunctionEnds, FunctionRaises, Finished,
     Raised, Tasks
<1>3. ASSUME NEW c \in Containers, ContainerStep(c)
      PROVE  plan' = plan /\ \A t \in Tasks : Onward(t)
  <2>0. c \in Tasks
    BY DEF Tasks
  <2>1. CASE PrecheckFails(c) \/ StartContainer(c)
    BY <2>0, <2>1 DEF PrecheckFails, StartContainer, Finished
  <2>2. CASE CallNext(c)
    BY <2>0, <2>2 DEF CallNext, Idle
  <2>3. CASE Return(c)
    BY <2>0, <2>3 DEF Return, Idle
  <2>4. CASE ChildRaised(c) \/ Stall(c) \/ Unwind(c)
    BY <2>0, <2>4 DEF ChildRaised, Stall, Unwind, Raised, AtSubmit
  <2>5. CASE FinishSequential(c)
    BY <2>0, <2>5 DEF FinishSequential, Finish, Finished
  <2>6. CASE Submit(c)
    BY <2>0, <2>6 DEF Submit, Ready, Idle
  <2>7. CASE Reap(c)
    BY <2>0, <2>7 DEF Reap
  <2>8. CASE FinishParallel(c)
    BY <2>0, <2>8 DEF FinishParallel, AtSubmit, Idle
  <2> QED
    BY <1>3, <2>1, <2>2, <2>3, <2>4, <2>5, <2>6, <2>7, <2>8 DEF ContainerStep
<1> QED
  BY <1>1, <1>2, <1>3 DEF Next

(* Only its container, while it runs, calls or aborts a task: a sequential   *)
(* one after the task before it, a parallel one if it is ready.              *)
LEMMA Callers ==
    ASSUME SchedulerTypeOK, [Next]_vars,
           NEW c \in Containers, NEW k \in Kids(c),
           phase[k] = "idle", phase'[k] # "idle"
    PROVE  /\ phase[c] = "running"
           /\ phase'[k] = "aborted" => Return(c) \/ FinishParallel(c)
           /\ phase'[k] = "submitted" => CallNext(c) \/ Submit(c)
<1> USE DEF SchedulerTypeOK
<1>0. k \in Tasks /\ k # c
  BY KidsFacts
<1>1. CASE UNCHANGED vars
  BY <1>1 DEF vars
<1>2. ASSUME NEW f \in Functions, FunctionStep(f)
      PROVE  FALSE
  BY <1>0, <1>2 DEF FunctionStep, StartFunction, FunctionEnds, FunctionRaises,
     Finished, Raised, Tasks
<1>3. ASSUME NEW d \in Containers, ContainerStep(d)
      PROVE  /\ phase[c] = "running"
             /\ phase'[k] = "aborted" => Return(c) \/ FinishParallel(c)
             /\ phase'[k] = "submitted" => CallNext(c) \/ Submit(c)
  <2>0. d \in Tasks /\ (k \in Kids(d) => d = c)
    BY KidsFacts DEF Tasks
  <2>1. CASE PrecheckFails(d) \/ StartContainer(d)
    BY <1>0, <2>0, <2>1 DEF PrecheckFails, StartContainer, Finished
  <2>2. CASE CallNext(d)
    BY <1>0, <2>0, <2>2 DEF CallNext, Idle
  <2>3. CASE Return(d)
    BY <1>0, <2>0, <2>3 DEF Return, Idle
  <2>4. CASE ChildRaised(d) \/ Stall(d) \/ Unwind(d)
    BY <1>0, <2>0, <2>4 DEF ChildRaised, Stall, Unwind, Raised, AtSubmit
  <2>5. CASE FinishSequential(d)
    BY <1>0, <2>0, <2>5 DEF FinishSequential, Finish, Finished
  <2>6. CASE Submit(d)
    BY <1>0, <2>0, <2>6 DEF Submit, AtSubmit, Ready, Idle
  <2>7. CASE Reap(d)
    BY <1>0, <2>0, <2>7 DEF Reap
  <2>8. CASE FinishParallel(d)
    BY <1>0, <2>0, <2>8 DEF FinishParallel, AtSubmit, Idle
  <2> QED
    BY <1>3, <2>1, <2>2, <2>3, <2>4, <2>5, <2>6, <2>7, <2>8 DEF ContainerStep
<1> QED
  BY <1>1, <1>2, <1>3 DEF Next

(* What a container does with its own life and with what it keeps. *)
LEMMA Owners ==
    ASSUME SchedulerTypeOK, [Next]_vars, NEW c \in Containers
    PROVE  /\ phase[c] = "submitted" /\ phase'[c] = "running"
              => StartContainer(c)
           /\ phase[c] = "running" /\ phase'[c] = "finished"
              => PrecheckFails(c) \/ FinishSequential(c) \/ FinishParallel(c)
           /\ phase[c] = "running" /\ phase'[c] = "raised"
              => ChildRaised(c) \/ Stall(c) \/ Unwind(c)
           /\ collected'[c] # collected[c] => Return(c) \/ Reap(c)
           /\ loop'[c] # loop[c] => StartContainer(c) \/ Submit(c) \/ Reap(c)
           /\ known'[c] # known[c] => StartContainer(c) \/ Reap(c)
           /\ stopping'[c] # stopping[c] => Reap(c)
<1> USE DEF SchedulerTypeOK
<1>0. c \in Tasks /\ c \notin Functions
  BY DEF Tasks, Containers
<1>1. CASE UNCHANGED vars
  BY <1>1 DEF vars
<1>2. ASSUME NEW f \in Functions, FunctionStep(f)
      PROVE  UNCHANGED <<phase[c], loop, known, collected, stopping>>
  BY <1>0, <1>2 DEF FunctionStep, StartFunction, FunctionEnds, FunctionRaises,
     Finished, Raised, Tasks
<1>3. ASSUME NEW d \in Containers, d # c, ContainerStep(d)
      PROVE  /\ phase'[c] = phase[c] \/ phase[c] = "idle"
             /\ UNCHANGED <<loop[c], known[c], collected[c], stopping[c]>>
  <2>1. CASE PrecheckFails(d) \/ StartContainer(d)
    BY <1>0, <1>3, <2>1 DEF PrecheckFails, StartContainer, Finished
  <2>2. CASE CallNext(d)
    BY <1>0, <1>3, <2>2 DEF CallNext, Idle
  <2>3. CASE Return(d)
    BY <1>0, <1>3, <2>3 DEF Return, Idle
  <2>4. CASE ChildRaised(d) \/ Stall(d) \/ Unwind(d)
    BY <1>0, <1>3, <2>4 DEF ChildRaised, Stall, Unwind, Raised
  <2>5. CASE FinishSequential(d)
    BY <1>0, <1>3, <2>5 DEF FinishSequential, Finish, Finished
  <2>6. CASE Submit(d)
    BY <1>0, <1>3, <2>6 DEF Submit, Ready, Idle
  <2>7. CASE Reap(d)
    BY <1>0, <1>3, <2>7 DEF Reap
  <2>8. CASE FinishParallel(d)
    BY <1>0, <1>3, <2>8 DEF FinishParallel, Idle
  <2> QED
    BY <1>3, <2>1, <2>2, <2>3, <2>4, <2>5, <2>6, <2>7, <2>8 DEF ContainerStep
<1>4. CASE CallNext(c) \/ Submit(c)
  <2>1. phase[c] = "running" /\ c \notin Kids(c)
    BY <1>4, KidsFacts DEF CallNext, Submit, AtSubmit
  <2>2. phase'[c] = phase[c]
    BY <1>0, <1>4, <2>1 DEF CallNext, Submit, Idle, Ready
  <2> QED
    BY <1>4, <2>1, <2>2 DEF CallNext, Submit
<1>5. CASE Return(c) \/ Reap(c)
  <2>1. CASE Return(c)
    <3>1. phase[c] = "running" /\ c \notin Idle(c)
      BY <2>1 DEF Return, Idle
    <3>2. phase'[c] = phase[c]
      BY <1>0, <2>1, <3>1 DEF Return
    <3>3. UNCHANGED <<loop, known, stopping>>
      BY <2>1 DEF Return
    <3> QED
      BY <2>1, <3>1, <3>2, <3>3
  <2>2. CASE Reap(c)
    BY <2>2 DEF Reap
  <2> QED
    BY <1>5, <2>1, <2>2
<1>6. CASE PrecheckFails(c) \/ StartContainer(c)
  <2>1. CASE PrecheckFails(c)
    BY <1>0, <2>1 DEF PrecheckFails, Finished
  <2>2. CASE StartContainer(c)
    <3>1. phase[c] = "submitted" /\ phase'[c] = "running"
      BY <1>0, <2>2 DEF StartContainer
    <3>2. UNCHANGED <<collected, stopping>>
      BY <2>2 DEF StartContainer
    <3> QED
      BY <2>2, <3>1, <3>2
  <2> QED
    BY <1>6, <2>1, <2>2
<1>7. CASE ChildRaised(c) \/ Stall(c) \/ Unwind(c)
  BY <1>0, <1>7 DEF ChildRaised, Stall, Unwind, Raised
<1>8. CASE FinishSequential(c) \/ FinishParallel(c)
  BY <1>0, <1>8 DEF FinishSequential, Finish, FinishParallel, AtSubmit, Finished
<1>9. CASE ContainerStep(c)
  BY <1>4, <1>5, <1>6, <1>7, <1>8, <1>9 DEF ContainerStep
<1>10. CASE \E d \in Containers : d # c /\ ContainerStep(d)
  BY <1>3, <1>10
<1>11. CASE \E f \in Functions : FunctionStep(f)
  BY <1>2, <1>11
<1> QED
  BY <1>1, <1>9, <1>10, <1>11 DEF Next

(* What is collected, and a stop, is never taken back. *)
LEMMA Keeps ==
    ASSUME SchedulerTypeOK, [Next]_vars, NEW c \in Containers
    PROVE  /\ collected[c] \subseteq collected'[c]
           /\ stopping[c] => stopping'[c]
           /\ Idle(c)' \subseteq Idle(c)
<1> USE DEF SchedulerTypeOK
<1>1. Return(c) => collected[c] \subseteq collected'[c]
  BY DEF Return
<1>2. Reap(c) => collected[c] \subseteq collected'[c] /\ (stopping[c] => stopping'[c])
  BY DEF Reap
<1>3. Idle(c)' \subseteq Idle(c)
  BY Moves, KidsFacts DEF Idle, Onward, Phases
<1> QED
  BY <1>1, <1>2, <1>3, Owners

(* A task counts as completed when it has finished. *)
LEMMA Completions ==
    ASSUME SchedulerTypeOK, [Next]_vars, NEW t \in completed', t \notin completed
    PROVE  phase'[t] = "finished"
<1> USE DEF SchedulerTypeOK
<1>1. CASE UNCHANGED vars
  BY <1>1 DEF vars
<1>2. ASSUME NEW f \in Functions, FunctionStep(f)
      PROVE  phase'[t] = "finished"
  BY <1>2 DEF FunctionStep, StartFunction, FunctionEnds, FunctionRaises, Finished,
     Raised, Tasks
<1>3. ASSUME NEW c \in Containers, ContainerStep(c)
      PROVE  phase'[t] = "finished"
  <2>0. c \in Tasks
    BY DEF Tasks
  <2>1. CASE FinishSequential(c)
    BY <2>0, <2>1 DEF FinishSequential, Finish, Finished
  <2>2. CASE FinishParallel(c)
    BY <2>0, <2>2 DEF FinishParallel
  <2> QED
    BY <1>3, <2>1, <2>2 DEF ContainerStep, PrecheckFails, StartContainer, CallNext,
       Return, ChildRaised, Submit, Stall, Reap, Unwind, Raised
<1> QED
  BY <1>1, <1>2, <1>3 DEF Next

----------------------------------------------------------------------------
(* The parts of the invariant, over a step. *)

(* A container is running when it first calls a child. *)
LEMMA UntouchedStep ==
    ASSUME SchedulerTypeOK, Untouched, [Next]_vars
    PROVE  Untouched'
<1> SUFFICES ASSUME NEW c \in Containers,
                    phase'[c] \in {"idle", "submitted", "aborted"},
                    NEW k \in Kids(c)
             PROVE  phase'[k] = "idle"
  BY DEF Untouched
<1>1. phase[c] \in {"idle", "submitted", "aborted"}
  BY Moves DEF Onward, SchedulerTypeOK, Phases, Tasks
<1> QED
  BY <1>1, Callers DEF Untouched

(* The precheck comes before the loops. *)
LEMMA UnreadyStep ==
    ASSUME SchedulerTypeOK, UnreadyStays, [Next]_vars
    PROVE  UnreadyStays'
<1> SUFFICES ASSUME NEW c \in plan.unready
             PROVE  loop'[c] = "none" /\ \A k \in Kids(c) : phase'[k] = "idle"
  BY Moves DEF UnreadyStays
<1> USE DEF SchedulerTypeOK
<1>1. c \in Containers /\ loop[c] = "none" /\ \A k \in Kids(c) : phase[k] = "idle"
  BY DEF PlanType, Containers, UnreadyStays
<1>2. ~Submit(c) /\ ~Reap(c) /\ ~FinishParallel(c)
  BY <1>1 DEF Submit, Reap, FinishParallel, AtSubmit
<1>3. ~CallNext(c)
  BY DEF CallNext
<1>4. ~Return(c)
  BY <1>1 DEF Return, InFlight, Called
<1>5. loop'[c] = "none"
  BY <1>1, <1>2, Owners DEF StartContainer
<1>6. ASSUME NEW k \in Kids(c) PROVE phase'[k] = "idle"
  <2>1. k \in Tasks
    BY <1>1, KidsFacts
  <2> QED
    BY <1>1, <1>2, <1>3, <1>4, <2>1, Moves, Callers DEF Onward
<1> QED
  BY <1>5, <1>6

(* Only ended children, or those aborted in the same step, are collected. *)
LEMMA CollectedStep ==
    ASSUME SchedulerTypeOK, CollectedDone, [Next]_vars
    PROVE  CollectedDone'
<1> SUFFICES ASSUME NEW c \in Containers, NEW k \in collected'[c]
             PROVE  k \in Kids(c) /\ phase'[k] \in {"finished", "aborted"}
  BY DEF CollectedDone
<1> USE DEF SchedulerTypeOK
<1>1. CASE k \in collected[c]
  BY <1>1, Moves, KidsFacts DEF CollectedDone, Onward
<1>2. CASE Return(c) /\ k \notin collected[c]
  BY <1>2, KidsFacts, Moves DEF Return, InFlight, Called, Idle, Onward
<1>3. CASE Reap(c) /\ k \notin collected[c]
  BY <1>3 DEF Reap, InFlight, Called
<1> QED
  BY <1>1, <1>2, <1>3, Owners

(* The loop is entered by a parallel container. *)
LEMMA LoopStep ==
    ASSUME SchedulerTypeOK, LoopIsParallel, [Next]_vars
    PROVE  LoopIsParallel'
<1> SUFFICES ASSUME NEW c \in Containers, loop'[c] # "none"
             PROVE  ~Sequential(c)
  BY Moves DEF LoopIsParallel, Sequential
<1>1. CASE StartContainer(c)
  BY <1>1 DEF StartContainer, LoopIsParallel
<1>2. CASE Submit(c) \/ Reap(c)
  BY <1>2 DEF Submit, AtSubmit, Reap, LoopIsParallel
<1> QED
  BY <1>1, <1>2, Owners DEF LoopIsParallel

(* The next child is called after the last one was collected. *)
LEMMA OneCallStep ==
    ASSUME SchedulerTypeOK, OneCall, LoopIsParallel, [Next]_vars
    PROVE  OneCall'
<1> SUFFICES ASSUME NEW c \in Containers, Sequential(c),
                    NEW j \in InFlight(c)', NEW k \in InFlight(c)'
             PROVE  j = k
  BY Moves DEF OneCall, Sequential
<1> USE DEF SchedulerTypeOK
<1>1. j \in Kids(c) /\ k \in Kids(c)
  BY DEF InFlight, Called
<1>2. ASSUME NEW i \in InFlight(c)', i \notin InFlight(c)
      PROVE  CallNext(c) /\ phase[i] = "idle" /\ phase'[i] = "submitted"
  <2>1. i \in Kids(c) /\ i \in Tasks /\ i \notin collected[c]
    BY Keeps, KidsFacts DEF InFlight, Called
  <2>2. phase[i] \in {"idle", "aborted"}
    BY <1>2, <2>1 DEF InFlight, Called
  <2>3. phase'[i] \notin {"idle", "aborted"}
    BY DEF InFlight, Called
  <2>4. phase[i] = "idle" /\ phase'[i] = "submitted"
    BY <2>1, <2>2, <2>3, Moves DEF Onward
  <2>5. ~Submit(c)
    BY DEF LoopIsParallel, Submit, AtSubmit
  <2> QED
    BY <2>1, <2>4, <2>5, Callers
<1>3. CASE CallNext(c)
  <2>1. InFlight(c) = {}
    BY <1>3 DEF CallNext
  <2>2. /\ phase[j] = "idle" /\ phase'[j] = "submitted"
        /\ phase[k] = "idle" /\ phase'[k] = "submitted"
    BY <1>2, <2>1
  <2> QED
    BY <1>3, <2>2 DEF CallNext
<1>4. CASE ~CallNext(c)
  BY <1>2, <1>4 DEF OneCall
<1> QED
  BY <1>3, <1>4

(* It is a failure, among the results just taken, that sets the stop. *)
LEMMA StoppedStep ==
    ASSUME SchedulerTypeOK, StoppedForAReason, [Next]_vars
    PROVE  StoppedForAReason'
<1> SUFFICES ASSUME NEW c \in Containers, stopping'[c]
             PROVE  /\ c \in plan.stop
                    /\ \E k \in Kids(c) : phase'[k] = "finished" /\ status'[k] # "passed"
  BY Moves DEF StoppedForAReason, NotPassed
<1> USE DEF SchedulerTypeOK
<1>1. ASSUME NEW k \in Kids(c), phase[k] = "finished", NotPassed(k)
      PROVE  phase'[k] = "finished" /\ status'[k] # "passed"
  BY <1>1, Moves, KidsFacts DEF Onward, NotPassed
<1>2. CASE stopping[c]
  BY <1>1, <1>2 DEF StoppedForAReason
<1>3. CASE ~stopping[c]
  <2>1. Reap(c)
    BY <1>3, Owners
  <2>2. PICK done \in (SUBSET InFlight(c)) \ {{}} :
          /\ \A k \in done : phase[k] \in {"finished", "raised"}
          /\ ~\E k \in done : phase[k] = "raised"
          /\ c \in plan.stop /\ \E k \in done : NotPassed(k)
    BY <1>3, <2>1 DEF Reap
  <2>3. done \subseteq Kids(c)
    BY DEF InFlight, Called
  <2> QED
    BY <1>1, <2>2, <2>3
<1> QED
  BY <1>2, <1>3

(* A failure is seen in the step that collects it. *)
LEMMA StopSeenStep ==
    ASSUME SchedulerTypeOK, CollectedDone, LoopIsParallel, StopSeen, [Next]_vars
    PROVE  StopSeen'
<1> SUFFICES ASSUME NEW c \in Containers, c \in plan.stop, NEW k \in collected'[c],
                    phase'[k] = "finished", status'[k] # "passed"
             PROVE  Idle(c)' = {} \/ (~Sequential(c) /\ stopping'[c])
  BY Moves DEF StopSeen, NotPassed, Sequential
<1> USE DEF SchedulerTypeOK
<1>1. CASE k \in collected[c]
  <2>1. phase[k] = "finished" /\ NotPassed(k)
    BY <1>1, Moves, KidsFacts DEF CollectedDone, Onward, NotPassed
  <2> QED
    BY <1>1, <2>1, Keeps DEF StopSeen
<1>2. CASE Return(c) /\ k \notin collected[c]
  <2>1. PICK i \in InFlight(c) :
          IF c \in plan.stop /\ NotPassed(i)
          THEN /\ phase' = [t \in Tasks |->
                               IF t \in Idle(c) THEN "aborted" ELSE phase[t]]
               /\ collected' = [collected EXCEPT ![c] = @ \cup {i} \cup Idle(c)]
          ELSE /\ collected' = [collected EXCEPT ![c] = @ \cup {i}]
               /\ UNCHANGED <<phase, status>>
    BY <1>2 DEF Return
  <2>2. CASE NotPassed(i)
    BY <2>1, <2>2, KidsFacts DEF Idle
  <2>3. CASE ~NotPassed(i)
    BY <1>2, <2>1, <2>3 DEF NotPassed
  <2> QED
    BY <2>2, <2>3
<1>3. CASE Reap(c) /\ k \notin collected[c]
  <2>1. PICK done \in (SUBSET InFlight(c)) \ {{}} :
          /\ collected' = [collected EXCEPT ![c] = @ \cup done]
          /\ stopping' = [stopping EXCEPT ![c] =
                @ \/ (c \in plan.stop /\ \E i \in done : NotPassed(i))]
    BY <1>3 DEF Reap
  <2>2. k \in done /\ NotPassed(k)
    BY <1>3, <2>1 DEF Reap, NotPassed
  <2>3. stopping'[c]
    BY <2>1, <2>2
  <2>4. ~Sequential(c)
    BY <1>3 DEF Reap, LoopIsParallel
  <2> QED
    BY <2>3, <2>4
<1> QED
  BY <1>1, <1>2, <1>3, Owners

(* Whatever aborts a child aborts all that have not been called. *)
LEMMA AbortStep ==
    ASSUME SchedulerTypeOK, AbortIsLast, [Next]_vars
    PROVE  AbortIsLast'
<1> SUFFICES ASSUME NEW c \in Containers, NEW j \in Kids(c), phase'[j] = "aborted"
             PROVE  Idle(c)' = {}
  BY DEF AbortIsLast
<1> USE DEF SchedulerTypeOK
<1>1. CASE phase[j] = "aborted"
  BY <1>1, Keeps DEF AbortIsLast
<1>2. CASE phase[j] = "idle"
  <2>1. CASE Return(c)
    BY <1>2, <2>1, KidsFacts DEF Return, Idle
  <2>2. CASE FinishParallel(c)
    BY <2>2, KidsFacts DEF FinishParallel, Idle
  <2> QED
    BY <1>2, <2>1, <2>2, Callers
<1> QED
  BY <1>1, <1>2, Moves, KidsFacts DEF Onward, Phases

(* Only finished tasks become known. *)
LEMMA KnownStep ==
    ASSUME SchedulerTypeOK, KnownFinished, [Next]_vars
    PROVE  KnownFinished'
<1> USE DEF SchedulerTypeOK
<1>1. ASSUME NEW t \in completed'
      PROVE  phase'[t] = "finished"
  BY Completions, Moves DEF KnownFinished, Onward
<1>2. ASSUME NEW c \in Containers, NEW t \in known'[c]
      PROVE  phase'[t] = "finished"
  <2>1. CASE t \in known[c]
    BY <2>1, Moves DEF KnownFinished, Onward
  <2>2. CASE StartContainer(c) /\ t \notin known[c]
    <3>1. t \in completed
      BY <1>2, <2>2 DEF StartContainer
    <3> QED
      BY <3>1, Moves DEF KnownFinished, Onward
  <2>3. CASE Reap(c) /\ t \notin known[c]
    BY <1>2, <2>3 DEF Reap
  <2> QED
    BY <1>2, <2>1, <2>2, <2>3, Owners
<1> QED
  BY <1>1, <1>2 DEF KnownFinished

(* A task gets its status as it ends. *)
LEMMA StatusStep ==
    ASSUME SchedulerTypeOK, Statuses, [Next]_vars
    PROVE  Statuses'
<1> USE DEF SchedulerTypeOK, Statuses
<1>1. CASE UNCHANGED vars
  BY <1>1 DEF vars
<1>2. ASSUME NEW f \in Functions, FunctionStep(f)
      PROVE  Statuses'
  BY <1>2 DEF FunctionStep, StartFunction, FunctionEnds, FunctionRaises, Finished,
     Raised, Tasks
<1>3. ASSUME NEW c \in Containers, ContainerStep(c)
      PROVE  Statuses'
  <2>0. c \in Tasks
    BY DEF Tasks
  <2>1. CASE PrecheckFails(c) \/ StartContainer(c)
    BY <2>0, <2>1 DEF PrecheckFails, StartContainer, Finished, ResultStatus
  <2>2. CASE CallNext(c)
    BY <2>0, <2>2 DEF CallNext
  <2>3. CASE Return(c)
    BY <2>0, <2>3 DEF Return, AbortedResult, Idle
  <2>4. CASE ChildRaised(c) \/ Stall(c) \/ Unwind(c)
    BY <2>0, <2>4 DEF ChildRaised, Stall, Unwind, Raised
  <2>5. CASE FinishSequential(c)
    <3>1. /\ phase' = [phase EXCEPT ![c] = "finished"]
          /\ \E s \in ResultStatus : status' = [status EXCEPT ![c] = s]
      BY <2>5, AggregateType DEF FinishSequential, Finish, Finished
    <3> QED
      BY <2>0, <3>1
  <2>6. CASE Submit(c)
    BY <2>0, <2>6 DEF Submit
  <2>7. CASE Reap(c)
    BY <2>0, <2>7 DEF Reap
  <2>8. CASE FinishParallel(c)
    <3>1. /\ phase' = [t \in Tasks |-> IF t = c THEN "finished"
                                       ELSE IF t \in Idle(c) THEN "aborted"
                                       ELSE phase[t]]
          /\ \E s \in ResultStatus :
                status' = [t \in Tasks |-> IF t = c THEN s
                                          ELSE IF t \in Idle(c) THEN "aborted"
                                          ELSE status[t]]
      BY <2>8, AggregateType DEF FinishParallel, AbortedResult
    <3> QED
      BY <2>0, <3>1
  <2> QED
    BY <1>3, <2>1, <2>2, <2>3, <2>4, <2>5, <2>6, <2>7, <2>8 DEF ContainerStep
<1> QED
  BY <1>1, <1>2, <1>3 DEF Next

(* When a container has its result, each child has ended or is aborted. *)
LEMMA FinishEndsKids ==
    ASSUME SchedulerTypeOK, CollectedDone, [Next]_vars,
           NEW c \in Containers, FinishSequential(c) \/ FinishParallel(c),
           NEW k \in Kids(c)
    PROVE  phase'[k] \in {"finished", "aborted"}
<1> USE DEF SchedulerTypeOK
<1>0. k \in Tasks /\ k # c
  BY KidsFacts
<1>1. CASE phase[k] \in {"finished", "aborted"}
  BY <1>0, <1>1, Moves DEF Onward
<1>2. CASE phase[k] = "idle"
  <2>1. FinishParallel(c)
    BY <1>2 DEF FinishSequential, CollectedDone
  <2> QED
    BY <1>0, <1>2, <2>1 DEF FinishParallel, Idle
<1>3. CASE phase[k] \in {"submitted", "running", "raised"}
  <2>1. k \in InFlight(c)
    BY <1>3 DEF InFlight, Called, CollectedDone
  <2> QED
    BY <1>3, <2>1 DEF FinishSequential, FinishParallel, CollectedDone
<1> QED
  BY <1>0, <1>1, <1>2, <1>3 DEF Phases

(* A container leaves its children when none of them is active. *)
LEMMA OutlivesStep ==
    ASSUME SchedulerTypeOK, UnreadyStays, CollectedDone, OneCall,
           NothingOutlivesItsContainer, [Next]_vars
    PROVE  NothingOutlivesItsContainer'
<1> USE DEF SchedulerTypeOK
<1>1. ASSUME NEW c \in Containers, phase'[c] # "running",
             NEW k \in Kids(c), phase'[k] \in {"submitted", "running"}
      PROVE  FALSE
  <2>0. c \in Tasks /\ k \in Tasks
    BY KidsFacts DEF Tasks
  <2>1. phase[c] = "running"
    <3>1. CASE phase[k] = "idle"
      BY <1>1, <3>1, Callers
    <3>2. CASE phase[k] \in {"submitted", "running"}
      BY <1>1, <3>2 DEF NothingOutlivesItsContainer, Active
    <3> QED
      BY <1>1, <2>0, <3>1, <3>2, Moves DEF Onward, Phases
  <2>2. phase'[c] \in {"finished", "raised"}
    BY <1>1, <2>0, <2>1, Moves DEF Onward
  <2>3. CASE phase'[c] = "finished"
    <3>1. CASE PrecheckFails(c)
      BY <1>1, <2>0, <3>1, KidsFacts DEF PrecheckFails, Finished, UnreadyStays
    <3>2. CASE FinishSequential(c) \/ FinishParallel(c)
      BY <1>1, <3>2, FinishEndsKids
    <3> QED
      BY <2>1, <2>3, <3>1, <3>2, Owners
  <2>4. CASE phase'[c] = "raised"
    <3>1. phase' = [phase EXCEPT ![c] = "raised"]
      BY <2>1, <2>4, Owners DEF ChildRaised, Stall, Unwind, Raised
    <3>2. phase[k] \in {"submitted", "running"}
      BY <1>1, <2>0, <3>1, KidsFacts
    <3>3. k \in InFlight(c) /\ k \in Active(c)
      BY <1>1, <3>2 DEF InFlight, Called, Active, CollectedDone
    <3>4. ~ChildRaised(c)
      BY <3>2, <3>3 DEF ChildRaised, OneCall
    <3> QED
      BY <2>1, <2>4, <3>3, <3>4, Owners DEF Stall, Unwind
  <2> QED
    BY <2>2, <2>3, <2>4
<1>2. ASSUME NEW c \in Containers, phase'[c] = "finished", c \notin plan.unready,
             NEW k \in Kids(c)
      PROVE  phase'[k] \in {"finished", "aborted"}
  <2>0. c \in Tasks /\ k \in Tasks
    BY KidsFacts DEF Tasks
  <2>1. CASE phase[c] = "finished"
    BY <1>2, <2>0, <2>1, Moves DEF NothingOutlivesItsContainer, Onward
  <2>2. CASE phase[c] # "finished"
    <3>1. FinishSequential(c) \/ FinishParallel(c)
      BY <1>2, <2>0, <2>2, Moves, Owners DEF Onward, Phases, PrecheckFails
    <3> QED
      BY <3>1, FinishEndsKids
  <2> QED
    BY <2>1, <2>2
<1> QED
  BY <1>1, <1>2, Moves DEF NothingOutlivesItsContainer, Active

(* A container's result is the aggregate of the results of its children. *)
LEMMA ResultIsAggregate ==
    ASSUME SchedulerTypeOK, NEW c \in Containers,
           FinishSequential(c) \/ FinishParallel(c)
    PROVE  status'[c] = aggregate_status({status'[k] : k \in Kids(c)})
<1> DEFINE S == {status'[k] : k \in Kids(c)}
<1> USE DEF SchedulerTypeOK
<1>0. c \in Tasks /\ Kids(c) \subseteq Tasks /\ c \notin Kids(c)
  BY KidsFacts DEF Tasks
<1>1. CASE FinishSequential(c)
  <2>1. /\ status' = [status EXCEPT ![c] =
               aggregate_status({status[k] : k \in Kids(c)})]
    BY <1>1 DEF FinishSequential, Finish, Finished
  <2>2. S = {status[k] : k \in Kids(c)}
    BY <1>0, <2>1
  <2> QED
    BY <1>0, <2>1, <2>2
<1>2. CASE FinishParallel(c)
  <2> DEFINE R == {status[k] : k \in Kids(c) \ Idle(c)}
                    \cup {AbortedResult : k \in Idle(c)}
  <2>1. status' = [t \in Tasks |-> IF t = c THEN aggregate_status(R)
                                   ELSE IF t \in Idle(c) THEN AbortedResult
                                   ELSE status[t]]
    BY <1>2 DEF FinishParallel
  <2>2. Idle(c) \subseteq Kids(c)
    BY DEF Idle
  <2>3. \A k \in Kids(c) :
          status'[k] = IF k \in Idle(c) THEN AbortedResult ELSE status[k]
    BY <1>0, <2>1
  <2>4. S \subseteq R
    BY <2>3
  <2>5. R \subseteq S
    <3>1. ASSUME NEW k \in Kids(c) \ Idle(c) PROVE status[k] \in S
      BY <2>3
    <3>2. ASSUME NEW k \in Idle(c) PROVE AbortedResult \in S
      BY <2>2, <2>3
    <3> QED
      BY <3>1, <3>2
  <2> QED
    BY <1>0, <2>1, <2>4, <2>5
<1> QED
  BY <1>1, <1>2

(* A container's status is computed from those of its children, which stay. *)
LEMMA VerdictStep ==
    ASSUME SchedulerTypeOK, UnreadyStays, CollectedDone, Statuses, Statuses', Verdicts,
           NothingOutlivesItsContainer, [Next]_vars
    PROVE  Verdicts'
<1> DEFINE AllPass(c) == \A k \in Kids(c) : phase'[k] = "finished" /\ status'[k] = "passed"
<1> SUFFICES ASSUME NEW c \in Containers, phase'[c] = "finished"
             PROVE  status'[c] = "passed"
                      <=> c \notin plan.unready /\ Kids(c) # {} /\ AllPass(c)
  BY Moves DEF Verdicts
<1> USE DEF SchedulerTypeOK
<1>0. c \in Tasks /\ Kids(c) \subseteq Tasks /\ c \notin Kids(c)
  BY KidsFacts DEF Tasks
<1>1. CASE phase[c] = "finished"
  <2>1. status'[c] = status[c]
    BY <1>0, <1>1, Moves DEF Onward
  <2>2. CASE c \in plan.unready
    BY <1>1, <2>1, <2>2 DEF Verdicts
  <2>3. CASE c \notin plan.unready
    <3>1. \A k \in Kids(c) : phase'[k] = phase[k] /\ status'[k] = status[k]
      BY <1>0, <1>1, <2>3, Moves DEF NothingOutlivesItsContainer, Onward
    <3> QED
      BY <1>1, <2>1, <2>3, <3>1 DEF Verdicts
  <2> QED
    BY <2>2, <2>3
<1>2. CASE PrecheckFails(c)
  BY <1>0, <1>2 DEF PrecheckFails, Finished
<1>3. CASE FinishSequential(c) \/ FinishParallel(c)
  <2> DEFINE S == {status'[k] : k \in Kids(c)}
  <2>1. c \notin plan.unready
    BY <1>3 DEF FinishSequential, FinishParallel, AtSubmit, UnreadyStays
  <2>2. \A k \in Kids(c) : phase'[k] \in {"finished", "aborted"}
    BY <1>3, FinishEndsKids
  <2>3. S \in SUBSET ResultStatus
    <3>1. "aborted" \in ResultStatus
      BY DEF ResultStatus
    <3> QED
      BY <1>0, <2>2, <3>1 DEF Statuses
  <2>4. status'[c] = aggregate_status(S)
    BY <1>3, ResultIsAggregate
  <2>5. status'[c] = "passed" <=> S = {"passed"}
    BY <2>3, <2>4, PassedOnlyByAll
  <2>6. S = {"passed"} <=> Kids(c) # {} /\ \A k \in Kids(c) : status'[k] = "passed"
    <3>1. ASSUME S = {"passed"}
          PROVE  Kids(c) # {} /\ \A k \in Kids(c) : status'[k] = "passed"
      BY <3>1
    <3>2. ASSUME NEW i \in Kids(c), \A k \in Kids(c) : status'[k] = "passed"
          PROVE  S = {"passed"}
      BY <3>2
    <3> QED
      BY <3>1, <3>2
  <2>7. \A k \in Kids(c) : status'[k] = "passed" => phase'[k] = "finished"
    BY <1>0, <2>2 DEF Statuses
  <2> QED
    BY <2>1, <2>5, <2>6, <2>7
<1> QED
  BY <1>0, <1>1, <1>2, <1>3, Moves, Owners DEF Onward, Phases

(* An abort has a failed sibling, which keeps its status. *)
LEMMA AbortedStep ==
    ASSUME SchedulerTypeOK, StoppedForAReason, AbortedForAReason, [Next]_vars
    PROVE  AbortedForAReason'
<1> SUFFICES ASSUME NEW c \in Containers, NEW k \in Kids(c), phase'[k] = "aborted"
             PROVE  /\ c \in plan.stop
                    /\ \E j \in Kids(c) : phase'[j] = "finished" /\ status'[j] # "passed"
  BY Moves DEF AbortedForAReason, NotPassed
<1> USE DEF SchedulerTypeOK
<1>0. k \in Tasks
  BY KidsFacts
<1>1. ASSUME NEW j \in Kids(c), phase[j] = "finished", NotPassed(j)
      PROVE  phase'[j] = "finished" /\ status'[j] # "passed"
  BY <1>1, Moves, KidsFacts DEF Onward, NotPassed
<1>2. c \in plan.stop /\ \E j \in Kids(c) : phase[j] = "finished" /\ NotPassed(j)
  <2>1. CASE phase[k] = "aborted"
    BY <1>0, <2>1 DEF AbortedForAReason
  <2>2. CASE phase[k] = "idle" /\ Return(c)
    BY <2>2 DEF Return, InFlight, Called
  <2>3. CASE phase[k] = "idle" /\ FinishParallel(c)
    BY <2>3 DEF FinishParallel, Idle, StoppedForAReason
  <2> QED
    BY <1>0, <2>1, <2>2, <2>3, Moves, Callers DEF Onward, Phases
<1> QED
  BY <1>1, <1>2

(* The order of the task ids is strict. *)
LEMMA SortsBeforeStrict ==
    ASSUME NEW j \in Cases \cup Functions, NEW k \in Cases \cup Functions,
           SortsBefore(j, k)
    PROVE  j # k /\ ~SortsBefore(k, j)
<1>1. Position[j] \in 0 .. 99 /\ Position[k] \in 0 .. 99
  OBVIOUS
<1>2. \A n \in 0 .. 99 : FirstDigit(n) \in Int
  BY DEF FirstDigit
<1> QED
  BY <1>1, <1>2 DEF SortsBefore

(* The task called is the first of those left, and those before it ended. *)
LEMMA OrderStep ==
    ASSUME SchedulerTypeOK, LoopIsParallel, CollectedDone, AbortIsLast,
           OneAfterTheOther, [Next]_vars
    PROVE  OneAfterTheOther'
<1> SUFFICES ASSUME NEW c \in Containers, Sequential(c),
                    NEW j \in Kids(c), NEW k \in Kids(c), SortsBefore(j, k),
                    phase'[k] \notin {"idle", "aborted"}
             PROVE  phase'[j] = "finished"
  BY Moves DEF OneAfterTheOther, Sequential
<1> USE DEF SchedulerTypeOK
<1>0. /\ j \in Tasks /\ k \in Tasks
      /\ j \in Cases \cup Functions /\ k \in Cases \cup Functions
  BY KidsFacts DEF Kids
<1>1. CASE phase[k] \notin {"idle", "aborted"}
  BY <1>0, <1>1, Moves DEF OneAfterTheOther, Onward
<1>2. CASE phase[k] = "idle"
  <2>1. CallNext(c)
    BY <1>0, <1>2, Moves, Callers DEF Onward, LoopIsParallel, Submit, AtSubmit
  <2>2. \A i \in Idle(c) \ {k} : SortsBefore(k, i)
    BY <1>0, <1>2, <2>1 DEF CallNext, Idle
  <2>3. j \notin Idle(c)
    BY <1>0, <2>2, SortsBeforeStrict
  <2>4. phase[j] \notin {"idle", "aborted"}
    BY <1>2, <2>3 DEF Idle, AbortIsLast
  <2>5. j \in collected[c]
    BY <2>1, <2>4 DEF CallNext, InFlight, Called
  <2>6. phase[j] = "finished"
    BY <2>4, <2>5 DEF CollectedDone
  <2> QED
    BY <1>0, <2>6, Moves DEF Onward
<1> QED
  BY <1>0, <1>1, <1>2, Moves DEF Onward

(* What a task depends on is known when it is submitted. *)
LEMMA DependencyStep ==
    ASSUME SchedulerTypeOK, KnownFinished, DependenciesRespected, [Next]_vars
    PROVE  DependenciesRespected'
<1> SUFFICES ASSUME NEW c \in Containers, plan.mode[c] = "parallel",
                    NEW k \in Kids(c), phase'[k] \notin {"idle", "aborted"},
                    NEW d \in plan.dependencies[k]
             PROVE  phase'[d] = "finished"
  BY Moves DEF DependenciesRespected
<1> USE DEF SchedulerTypeOK
<1>0. k \in Tasks /\ k \in Cases \cup Functions /\ d \in Tasks
  BY KidsFacts DEF Kids, PlanType, Tasks, Containers
<1>1. CASE phase[k] \notin {"idle", "aborted"}
  BY <1>0, <1>1, Moves DEF DependenciesRespected, Onward
<1>2. CASE phase[k] = "idle"
  <2>1. Submit(c)
    BY <1>0, <1>2, Moves, Callers DEF Onward, CallNext, Sequential
  <2>2. d \in known[c]
    BY <1>0, <1>2, <2>1 DEF Submit, Ready
  <2> QED
    BY <1>0, <2>2, Moves DEF KnownFinished, Onward
<1> QED
  BY <1>0, <1>1, <1>2, Moves DEF Onward

----------------------------------------------------------------------------
(* The invariant holds at the start. *)
LEMMA InvInit == Init => IInv
<1> SUFFICES ASSUME Init PROVE IInv
  OBVIOUS
<1>1. \A t \in Tasks : phase[t] = (IF t = Root THEN "submitted" ELSE "idle")
  BY DEF Init
<1>2. \A c \in Containers : \A k \in Kids(c) : phase[k] = "idle"
  BY <1>1, KidsFacts
<1>3. \A c \in Containers :
        c \in Tasks /\ loop[c] = "none" /\ known[c] = {} /\ collected[c] = {} /\ ~stopping[c]
  BY DEF Init, Tasks
<1>4. Untouched /\ OneCall /\ AbortIsLast /\ AbortedForAReason
  BY <1>2 DEF Untouched, OneCall, InFlight, Called, AbortIsLast, AbortedForAReason
<1>5. UnreadyStays
  <2>1. plan.unready \subseteq Containers
    BY TypeInit DEF SchedulerTypeOK, PlanType, Containers
  <2> QED
    BY <1>2, <1>3, <2>1 DEF UnreadyStays
<1>6. CollectedDone /\ LoopIsParallel /\ StoppedForAReason /\ StopSeen
  BY <1>3 DEF CollectedDone, LoopIsParallel, StoppedForAReason, StopSeen
<1>7. KnownFinished
  BY <1>3 DEF Init, KnownFinished
<1>8. Statuses /\ Verdicts
  BY <1>1, <1>3 DEF Statuses, Verdicts
<1>9. NothingOutlivesItsContainer
  BY <1>1, <1>2, <1>3 DEF NothingOutlivesItsContainer, Active
<1>10. OneAfterTheOther /\ DependenciesRespected
  BY <1>2 DEF OneAfterTheOther, DependenciesRespected
<1> QED
  BY <1>4, <1>5, <1>6, <1>7, <1>8, <1>9, <1>10, TypeInit DEF IInv

(* Every step keeps it. *)
LEMMA InvStep == IInv /\ [Next]_vars => IInv'
<1> SUFFICES ASSUME IInv, [Next]_vars PROVE IInv'
  OBVIOUS
<1> USE DEF IInv
<1>1. SchedulerTypeOK' /\ Statuses'
  BY TypeStep, StatusStep
<1>2. Untouched' /\ UnreadyStays' /\ CollectedDone' /\ OneCall' /\ LoopIsParallel'
  BY UntouchedStep, UnreadyStep, CollectedStep, OneCallStep, LoopStep
<1>3. StoppedForAReason' /\ StopSeen' /\ AbortIsLast' /\ AbortedForAReason'
  BY StoppedStep, StopSeenStep, AbortStep, AbortedStep
<1>4. Verdicts' /\ NothingOutlivesItsContainer'
  BY <1>1, VerdictStep, OutlivesStep
<1>5. KnownFinished' /\ OneAfterTheOther' /\ DependenciesRespected'
  BY KnownStep, OrderStep, DependencyStep
<1> QED
  BY <1>1, <1>2, <1>3, <1>4, <1>5

(* It holds in every run. *)
LEMMA SchedulerInvariant == Spec => []IInv
  BY InvInit, InvStep, PTL DEF Spec

(* The types hold in every run.                                              *)
THEOREM SchedulerTyping == Spec => []SchedulerTypeOK
<1>1. IInv => SchedulerTypeOK
  BY DEF IInv
<1> QED
  BY <1>1, SchedulerInvariant, PTL

(* No container with a result, or that raised, has a child in a thread.      *)
THEOREM SchedulerLeavesNothing == Spec => []NothingOutlivesItsContainer
<1>1. IInv => NothingOutlivesItsContainer
  BY DEF IInv
<1> QED
  BY <1>1, SchedulerInvariant, PTL

(* The children of a sequential container run one after the other.           *)
THEOREM SchedulerSequence == Spec => []OneAfterTheOther
<1>1. IInv => OneAfterTheOther
  BY DEF IInv
<1> QED
  BY <1>1, SchedulerInvariant, PTL

(* No child of a parallel container runs before what it depends on.          *)
THEOREM SchedulerDependencies == Spec => []DependenciesRespected
<1>1. IInv => DependenciesRespected
  BY DEF IInv
<1> QED
  BY <1>1, SchedulerInvariant, PTL

(* Nothing is aborted but after a failure under a container that stops.      *)
THEOREM SchedulerAborts == Spec => []AbortedForAReason
<1>1. IInv => AbortedForAReason
  BY DEF IInv
<1> QED
  BY <1>1, SchedulerInvariant, PTL

(* A run passes exactly if everything in its plan ran and passed.            *)
THEOREM SchedulerPass == Spec => []PassedMeansAllPassed
<1>1. IInv => PassedMeansAllPassed
  <2> SUFFICES ASSUME IInv, phase[Root] = "finished"
               PROVE  status[Root] = "passed"
                        <=> /\ Cases # {}
                            /\ \A c \in Cases : Kids(c) # {}
                            /\ \A t \in Cases \cup Functions :
                                   phase[t] = "finished" /\ status[t] = "passed"
    BY DEF PassedMeansAllPassed
  <2>1. Root \in Containers /\ Kids(Root) = Cases /\ Root \notin plan.unready
    BY DEF IInv, SchedulerTypeOK, PlanType, Containers, Kids
  <2>2. status[Root] = "passed"
          <=> Cases # {} /\ \A c \in Cases : phase[c] = "finished" /\ status[c] = "passed"
    BY <2>1 DEF IInv, Verdicts
  <2>3. ASSUME NEW c \in Cases, phase[c] = "finished", status[c] = "passed"
        PROVE  Kids(c) # {} /\ \A k \in Kids(c) : phase[k] = "finished" /\ status[k] = "passed"
    BY <2>3 DEF IInv, Verdicts, Containers
  <2>4. \A f \in Functions : CaseOf[f] \in Cases /\ f \in Kids(CaseOf[f])
    BY DEF Kids
  <2> QED
    BY <2>2, <2>3, <2>4
<1> QED
  BY <1>1, SchedulerInvariant, PTL

(* A container that stops on failure and has seen one submits nothing more.  *)
THEOREM SchedulerStop == Spec => StopIsFinal
<1> DEFINE Stop ==
      \A c \in Containers :
          c \in plan.stop
            /\ (\E k \in collected[c] : phase[k] = "finished" /\ NotPassed(k))
          => \A k \in Idle(c) : phase'[k] \in {"idle", "aborted"}
<1>1. ASSUME IInv, [Next]_vars
      PROVE  Stop
  <2> SUFFICES ASSUME NEW c \in Containers, c \in plan.stop,
                      \E k \in collected[c] : phase[k] = "finished" /\ NotPassed(k),
                      NEW k \in Idle(c)
               PROVE  phase'[k] \in {"idle", "aborted"}
    OBVIOUS
  <2>1. ~Sequential(c) /\ stopping[c]
    BY <1>1 DEF IInv, StopSeen
  <2>2. k \in Kids(c) /\ k \in Tasks /\ phase[k] = "idle"
    BY KidsFacts DEF Idle
  <2>3. ASSUME phase'[k] = "submitted" PROVE FALSE
    <3>1. Submit(c)
      BY <1>1, <2>1, <2>2, <2>3, Callers DEF IInv, CallNext
    <3> QED
      BY <1>1, <2>1, <2>2, <2>3, <3>1 DEF IInv, SchedulerTypeOK, Submit, Ready
  <2> QED
    BY <1>1, <2>2, <2>3, Moves DEF IInv, Onward
<1>2. IInv /\ [Next]_vars => [Stop]_vars
  BY <1>1
<1> QED
  BY <1>2, SchedulerInvariant, PTL DEF Spec, StopIsFinal
====
