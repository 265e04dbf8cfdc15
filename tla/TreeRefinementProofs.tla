---- MODULE TreeRefinementProofs ----
(***************************************************************************)
(* The Scheduler implements the task tree that those who watch it rely on, *)
(* for any fixture, cases, functions and plans.                            *)
(***************************************************************************)
EXTENDS SchedulerProofs

USE SchedulerAssumption

(* A loop is left for a child that raised. *)
UnwoundForAReason ==
    \A c \in Containers :
        loop[c] = "unwind" => \E k \in Kids(c) : phase[k] = "raised"

Parent(t) == IF t \in Functions THEN CaseOf[t] ELSE Root

(* What is shown of one task. *)
LEMMA ShownFacts ==
    ASSUME SchedulerTypeOK, NEW t \in Tasks
    PROVE  /\ ShownStage[t] = "idle" <=> phase[t] \in {"idle", "submitted", "aborted"}
           /\ ShownStage[t] = "started" <=> phase[t] = "running"
           /\ ShownStage[t] = "returned" <=> phase[t] = "finished"
           /\ ShownStage[t] = "raised" <=> phase[t] = "raised"
           /\ phase[t] = "finished" => ShownVerdict[t] = status[t]
           /\ phase[t] \in {"idle", "submitted", "running", "raised"} => ShownVerdict[t] = "none"
           /\ phase[t] = "aborted" =>
                ShownVerdict[t] = IF phase[Parent(t)] = "finished" THEN status[t] ELSE "none"
  BY DEF ShownStage, ShownVerdict, SchedulerTypeOK, Phases, Parent

(* Every task but the root is the child of its parent. *)
LEMMA ParentFacts ==
    /\ \A t \in Tasks : Parent(t) \in Containers /\ Parent(t) \in Tasks
    /\ \A t \in Tasks : t # Root => t \in Kids(Parent(t))
    /\ \A c \in Containers : \A k \in Kids(c) : Parent(k) = c
<1>1. ASSUME NEW f \in Functions
      PROVE  Parent(f) = CaseOf[f] /\ CaseOf[f] \in Cases /\ f \in Kids(CaseOf[f])
  BY DEF Parent, Kids
<1>2. ASSUME NEW c \in Cases
      PROVE  Parent(c) = Root /\ c \in Kids(Root)
  BY DEF Parent, Kids
<1>3. Parent(Root) = Root
  BY DEF Parent
<1>4. \A c \in Containers : \A k \in Kids(c) : Parent(k) = c
  BY <1>1, <1>2 DEF Kids, Containers
<1> QED
  BY <1>1, <1>2, <1>3, <1>4 DEF Tasks, Containers

(* The terms of the tree are those of the scheduler. *)
LEMMA TreeTerms ==
    /\ Tree!Tasks = Tasks
    /\ Tree!Containers = Containers
    /\ \A c : Tree!Kids(c) = Kids(c)
    /\ \A t : Tree!ParentOf(t) = Parent(t)
<1>1. Tree!Containers = Containers
  BY DEF Tree!Containers, Containers
<1>2. Tree!Tasks = Tasks
  BY <1>1 DEF Tree!Tasks, Tasks
<1>3. ASSUME NEW c PROVE Tree!Kids(c) = Kids(c)
  BY DEF Tree!Kids, Kids
<1>4. ASSUME NEW t PROVE Tree!ParentOf(t) = Parent(t)
  BY DEF Tree!ParentOf, Parent
<1> QED
  BY <1>1, <1>2, <1>3, <1>4

(* Nothing has been told at the start. *)
LEMMA TreeStart == Init => Tree!TreeInit
<1> SUFFICES ASSUME Init PROVE Tree!TreeInit
  OBVIOUS
<1>1. \A t \in Tasks : phase[t] \in {"idle", "submitted"}
  BY DEF Init
<1>2. \A t \in Tasks : ShownStage[t] = "idle" /\ ShownVerdict[t] = "none"
  BY <1>1, ShownFacts, TypeInit
<1>3. ShownStage = [t \in Tasks |-> "idle"] /\ ShownVerdict = [t \in Tasks |-> "none"]
  BY <1>2 DEF ShownStage, ShownVerdict
<1> QED
  BY <1>3, TreeTerms DEF Tree!TreeInit, Init

(* A child that is submitted has a parent that runs and passed its precheck. *)
LEMMA SubmittedCanStart ==
    ASSUME IInv, NEW t \in Tasks, phase[t] = "submitted"
    PROVE  Tree!CanStart(t)
<1> USE DEF IInv
<1>1. ShownStage[t] = "idle"
  BY ShownFacts
<1>2. ASSUME t # Root
      PROVE  ShownStage[Parent(t)] = "started" /\ Parent(t) \notin plan.unready
  <2>1. Parent(t) \in Containers /\ Parent(t) \in Tasks /\ t \in Kids(Parent(t))
    BY <1>2, ParentFacts
  <2>2. t \in Active(Parent(t))
    BY <2>1 DEF Active
  <2>3. phase[Parent(t)] = "running"
    BY <2>1, <2>2 DEF NothingOutlivesItsContainer
  <2>4. Parent(t) \notin plan.unready
    BY <2>1 DEF UnreadyStays
  <2> QED
    BY <2>1, <2>3, <2>4, ShownFacts
<1> QED
  BY <1>1, <1>2, TreeTerms DEF Tree!CanStart

(* A task moves alone, and is not a container that returns. *)
LEMMA OneMoves ==
    ASSUME SchedulerTypeOK, SchedulerTypeOK', NEW t \in Tasks,
           NEW p \in {"running", "raised"}, phase[t] \in {"submitted", "running"},
           phase' = [phase EXCEPT ![t] = p], status' = status
    PROVE  /\ ShownStage' = [ShownStage EXCEPT ![t] = IF p = "running" THEN "started" ELSE "raised"]
           /\ ShownVerdict' = ShownVerdict
<1> USE DEF SchedulerTypeOK
<1>1. \A u \in Tasks : u # t => phase'[u] = phase[u]
  OBVIOUS
<1>2. phase'[t] = p
  OBVIOUS
<1>3. ASSUME NEW u \in Tasks
      PROVE  ShownStage'[u] = IF u # t THEN ShownStage[u]
                              ELSE IF p = "running" THEN "started" ELSE "raised"
  <2>1. CASE u # t
    BY <1>1, <2>1 DEF ShownStage
  <2>2. CASE u = t /\ p = "running"
    BY <1>2, <2>2 DEF ShownStage
  <2>3. CASE u = t /\ p = "raised"
    BY <1>2, <2>3 DEF ShownStage
  <2> QED
    BY <2>1, <2>2, <2>3
<1>4. \A u \in Tasks : phase'[u] = "finished" <=> phase[u] = "finished"
  BY <1>1, <1>2
<1>5. \A u \in Tasks : phase'[u] = "aborted" <=> phase[u] = "aborted"
  BY <1>1, <1>2
<1>6. \A u \in Tasks : ShownVerdict'[u] = ShownVerdict[u]
  BY <1>4, <1>5, ParentFacts DEF ShownVerdict, Parent
<1>7. ShownStage' = [ShownStage EXCEPT ![t] = IF p = "running" THEN "started" ELSE "raised"]
  BY <1>3 DEF ShownStage
<1>8. ShownVerdict' = ShownVerdict
  BY <1>6 DEF ShownVerdict
<1> QED
  BY <1>7, <1>8

(* A task without aborted children returns alone. *)
LEMMA OneReturns ==
    ASSUME SchedulerTypeOK, SchedulerTypeOK', NEW t \in Tasks, NEW s,
           phase[t] = "running",
           phase' = [phase EXCEPT ![t] = "finished"], status' = [status EXCEPT ![t] = s],
           \A u \in Tasks : phase[u] = "aborted" => Parent(u) # t,
           plan' = plan
    PROVE  Tree!Returns(t, s)
<1> USE DEF SchedulerTypeOK
<1>1. \A u \in Tasks : u # t => phase'[u] = phase[u] /\ status'[u] = status[u]
  OBVIOUS
<1>2. phase'[t] = "finished" /\ status'[t] = s
  OBVIOUS
<1>3. \A u \in Tasks : ShownStage'[u] = IF u = t THEN "returned" ELSE ShownStage[u]
  BY <1>1, <1>2 DEF ShownStage
<1>4. ASSUME NEW u \in Tasks
      PROVE  ShownVerdict'[u] = IF u = t THEN s ELSE ShownVerdict[u]
  <2>1. CASE u = t
    BY <1>2, <2>1 DEF ShownVerdict
  <2>2. CASE u # t /\ phase[u] = "aborted"
    <3>1. phase'[Parent(u)] = phase[Parent(u)]
      BY <1>1, <2>2, ParentFacts
    <3> QED
      BY <1>1, <2>2, <3>1 DEF ShownVerdict, Parent
  <2>3. CASE u # t /\ phase[u] # "aborted"
    BY <1>1, <2>3 DEF ShownVerdict
  <2> QED
    BY <2>1, <2>2, <2>3
<1>5. ShownStage' = [ShownStage EXCEPT ![t] = "returned"]
  BY <1>3 DEF ShownStage
<1>6. ShownVerdict' = [ShownVerdict EXCEPT ![t] = s]
  BY <1>4 DEF ShownVerdict
<1> QED
  BY <1>5, <1>6 DEF Tree!Returns

----------------------------------------------------------------------------
(* The steps *)

(* What is submitted, aborted or collected is not shown. *)
LEMMA NothingShown ==
    ASSUME IInv, IInv', NEW c \in Containers,
           CallNext(c) \/ Submit(c) \/ Reap(c) \/ Return(c)
    PROVE  ShownStage' = ShownStage /\ ShownVerdict' = ShownVerdict /\ plan' = plan
<1> USE DEF IInv, SchedulerTypeOK
<1>0. /\ c \in Tasks /\ phase[c] = "running"
      /\ Idle(c) \subseteq Tasks /\ c \notin Idle(c)
      /\ \A k \in Idle(c) : phase[k] = "idle" /\ Parent(k) = c
  BY KidsFacts, ParentFacts DEF Tasks, CallNext, Submit, AtSubmit, Reap, Return, Idle
<1>1. plan' = plan
  BY DEF CallNext, Submit, Reap, Return
<1>2. \A t \in Tasks :
        \/ phase'[t] = phase[t] /\ status'[t] = status[t]
        \/ phase[t] = "idle" /\ phase'[t] = "submitted" /\ status'[t] = status[t]
        \/ phase[t] = "idle" /\ phase'[t] = "aborted" /\ Parent(t) = c
  <2>1. CASE CallNext(c)
    BY <1>0, <2>1 DEF CallNext
  <2>2. CASE Submit(c)
    BY <1>0, <2>2 DEF Submit, Ready
  <2>3. CASE Reap(c)
    BY <2>3 DEF Reap
  <2>4. CASE Return(c)
    BY <1>0, <2>4 DEF Return
  <2> QED
    BY <2>1, <2>2, <2>3, <2>4
<1>3. phase'[c] = "running"
  BY <1>0, <1>2
<1>4. \A t \in Tasks : ShownStage'[t] = ShownStage[t]
  BY <1>2 DEF ShownStage
<1>5. \A t \in Tasks : phase'[t] = "finished" <=> phase[t] = "finished"
  BY <1>2
<1>6. ASSUME NEW t \in Tasks
      PROVE  ShownVerdict'[t] = ShownVerdict[t]
  <2>1. CASE phase'[t] = phase[t] /\ status'[t] = status[t]
    BY <1>5, <2>1, ParentFacts DEF ShownVerdict, Parent
  <2>2. CASE phase[t] = "idle" /\ phase'[t] = "submitted"
    BY <2>2 DEF ShownVerdict
  <2>3. CASE phase[t] = "idle" /\ phase'[t] = "aborted" /\ Parent(t) = c
    BY <1>3, <2>3 DEF ShownVerdict, Parent
  <2> QED
    BY <1>2, <2>1, <2>2, <2>3
<1>7. ShownStage' = ShownStage
  BY <1>4 DEF ShownStage
<1>8. ShownVerdict' = ShownVerdict
  BY <1>6 DEF ShownVerdict
<1> QED
  BY <1>1, <1>7, <1>8

(* Functions and containers start as they leave the submitted. *)
LEMMA StartShown ==
    ASSUME IInv, IInv', NEW t \in Tasks, phase[t] = "submitted",
           phase' = [phase EXCEPT ![t] = "running"], status' = status, plan' = plan
    PROVE  Tree!TreeNext
<1>1. Tree!CanStart(t)
  BY SubmittedCanStart
<1>2. Tree!Enters(t, "started")
  BY OneMoves DEF IInv, Tree!Enters
<1> QED
  BY <1>1, <1>2, TreeTerms DEF Tree!TreeNext

(* The end of a function. *)
LEMMA FunctionShown ==
    ASSUME IInv, IInv', NEW f \in Functions, FunctionEnds(f) \/ FunctionRaises(f)
    PROVE  Tree!TreeNext
<1> USE DEF IInv, SchedulerTypeOK
<1>0. f \in Tasks /\ f \notin Containers
  BY DEF Tasks, Containers
<1>1. CASE FunctionEnds(f)
  <2>1. PICK s \in Outcomes : Finished(f, s)
    BY <1>1 DEF FunctionEnds
  <2>2. phase[f] = "running" /\ f \notin plan.unregistered /\ plan' = plan
    BY <1>1 DEF FunctionEnds
  <2>3. Tree!CanReturn(f)
    BY <1>0, <2>2, ShownFacts DEF Tree!CanReturn
  <2>4. \A u \in Tasks : Parent(u) # f
    BY <1>0, ParentFacts
  <2>5. phase' = [phase EXCEPT ![f] = "finished"] /\ status' = [status EXCEPT ![f] = s]
    BY <2>1 DEF Finished
  <2>6. Tree!Returns(f, s)
    BY <1>0, <2>2, <2>4, <2>5, OneReturns
  <2> QED
    BY <2>3, <2>6 DEF Tree!TreeNext
<1>2. CASE FunctionRaises(f)
  <2>1. phase[f] = "running" /\ f \in plan.unregistered
    BY <1>2 DEF FunctionRaises
  <2>2. phase' = [phase EXCEPT ![f] = "raised"] /\ status' = status /\ plan' = plan
    BY <1>2 DEF FunctionRaises, Raised
  <2>3. Tree!FunctionCanRaise(f)
    BY <1>0, <2>1, ShownFacts DEF Tree!FunctionCanRaise
  <2>4. Tree!Enters(f, "raised")
    BY <1>0, <2>1, <2>2, OneMoves DEF Tree!Enters
  <2> QED
    BY <2>3, <2>4 DEF Tree!TreeNext
<1> QED
  BY <1>1, <1>2

(* A failed precheck. *)
LEMMA PrecheckShown ==
    ASSUME IInv, IInv', NEW c \in Containers, PrecheckFails(c)
    PROVE  Tree!TreeNext
<1> USE DEF IInv, SchedulerTypeOK
<1>1. /\ phase[c] = "running" /\ c \in plan.unready /\ plan' = plan
      /\ phase' = [phase EXCEPT ![c] = "finished"]
      /\ status' = [status EXCEPT ![c] = "failed"]
  BY DEF PrecheckFails, Finished
<1>2. c \in Tasks /\ c \in Cases
  BY <1>1 DEF PlanType, Tasks
<1>3. \A u \in Tasks : phase[u] = "aborted" => Parent(u) # c
  <2>1. ASSUME NEW u \in Tasks, Parent(u) = c PROVE phase[u] # "aborted"
    <3>1. u # Root
      BY <1>2, <2>1 DEF Parent
    <3>2. u \in Kids(c)
      BY <2>1, <3>1, ParentFacts
    <3> QED
      BY <1>1, <3>2 DEF UnreadyStays
  <2> QED
    BY <2>1
<1>4. Tree!Returns(c, "failed")
  BY <1>1, <1>2, <1>3, OneReturns
<1>5. Tree!CanFailPrecheck(c)
  BY <1>1, <1>2, ShownFacts DEF Tree!CanFailPrecheck
<1> QED
  BY <1>2, <1>4, <1>5 DEF Tree!TreeNext

(* A container raises when no child runs. *)
LEMMA RaiseShown ==
    ASSUME IInv, IInv', UnwoundForAReason, NEW c \in Containers,
           ChildRaised(c) \/ Stall(c) \/ Unwind(c)
    PROVE  Tree!TreeNext
<1> USE DEF IInv, SchedulerTypeOK
<1>0. c \in Tasks /\ Kids(c) \subseteq Tasks /\ c \notin Kids(c)
  BY KidsFacts DEF Tasks
<1>1. /\ phase[c] = "running"
      /\ phase' = [phase EXCEPT ![c] = "raised"]
      /\ status' = status /\ plan' = plan
  BY DEF ChildRaised, Stall, Unwind, AtSubmit, Raised
<1>2. c \notin plan.unready
  BY DEF ChildRaised, InFlight, Called, Stall, Unwind, AtSubmit, UnreadyStays
<1>3. \E k \in Kids(c) : phase[k] \in {"raised", "idle"}
  BY DEF ChildRaised, InFlight, Called, Stall, Idle, Unwind, UnwoundForAReason
<1>4. \A k \in Kids(c) : phase[k] \notin {"submitted", "running"}
  <2>1. \A k \in Kids(c) : phase'[k] = phase[k]
    BY <1>0, <1>1
  <2>2. phase'[c] = "raised"
    BY <1>0, <1>1
  <2>3. \A k \in Kids(c) : phase'[k] \notin {"submitted", "running"}
    BY <2>2 DEF NothingOutlivesItsContainer, Active
  <2> QED
    BY <2>1, <2>3
<1>5. ShownStage[c] = "started"
  BY <1>0, <1>1, ShownFacts
<1>6. \E k \in Kids(c) : ShownStage[k] \in {"raised", "idle"}
  BY <1>0, <1>3, ShownFacts
<1>7. \A k \in Kids(c) : ShownStage[k] \in {"idle", "returned", "raised"}
  BY <1>0, <1>4, ShownFacts DEF Phases
<1>8. Tree!ContainerCanRaise(c)
  BY <1>2, <1>5, <1>6, <1>7, TreeTerms DEF Tree!ContainerCanRaise
<1>9. Tree!Enters(c, "raised")
  BY <1>0, <1>1, OneMoves DEF Tree!Enters
<1> QED
  BY <1>8, <1>9, TreeTerms DEF Tree!TreeNext

(* A container returns with the results of its children. *)
LEMMA CloseShown ==
    ASSUME IInv, IInv', [Next]_vars, NEW c \in Containers,
           FinishSequential(c) \/ FinishParallel(c)
    PROVE  Tree!TreeNext
<1> USE DEF IInv, SchedulerTypeOK
<1>0. c \in Tasks /\ Kids(c) \subseteq Tasks /\ c \notin Kids(c)
  BY KidsFacts DEF Tasks
<1>1. phase[c] = "running" /\ c \notin plan.unready /\ plan' = plan
  BY DEF FinishSequential, Finish, FinishParallel, AtSubmit, UnreadyStays
<1>2. /\ phase'[c] = "finished"
      /\ \A t \in Tasks : t # c /\ t \notin Idle(c) =>
            phase'[t] = phase[t] /\ status'[t] = status[t]
  <2>1. CASE FinishSequential(c)
    <3>1. /\ phase' = [phase EXCEPT ![c] = "finished"]
          /\ \A t \in Tasks : t # c => status'[t] = status[t]
      BY <2>1 DEF FinishSequential, Finish, Finished
    <3> QED
      BY <1>0, <3>1
  <2>2. CASE FinishParallel(c)
    <3>1. /\ phase' = [t \in Tasks |-> IF t = c THEN "finished"
                                       ELSE IF t \in Idle(c) THEN "aborted"
                                       ELSE phase[t]]
          /\ \A t \in Tasks : t # c /\ t \notin Idle(c) => status'[t] = status[t]
      BY <2>2 DEF FinishParallel
    <3> QED
      BY <1>0, <3>1
  <2> QED
    BY <2>1, <2>2
<1>3. \A k \in Kids(c) : phase'[k] \in {"finished", "aborted"}
  BY FinishEndsKids
<1>4. ASSUME NEW k \in Kids(c)
      PROVE  IF ShownStage[k] = "returned"
             THEN /\ phase'[k] = "finished" /\ status'[k] = status[k]
                  /\ ShownVerdict[k] = status'[k]
             ELSE /\ ShownStage[k] = "idle"
                  /\ phase'[k] = "aborted" /\ status'[k] = "aborted"
  <2>0. k \in Tasks /\ k # c
    BY <1>0
  <2>1. CASE k \in Idle(c)
    <3>1. phase[k] = "idle" /\ FinishParallel(c)
      BY <1>0, <2>1 DEF Idle, FinishSequential, CollectedDone
    <3>2. phase'[k] = "aborted"
      BY <2>0, <2>1, <3>1 DEF FinishParallel
    <3>3. status'[k] = "aborted"
      BY <2>0, <3>2 DEF Statuses
    <3> QED
      BY <2>0, <3>1, <3>2, <3>3, ShownFacts
  <2>2. CASE k \notin Idle(c)
    <3>1. phase'[k] = phase[k] /\ status'[k] = status[k]
      BY <1>2, <2>0, <2>2
    <3>2. phase[k] \in {"finished", "aborted"}
      BY <1>3, <3>1
    <3>3. phase[k] = "aborted" => status[k] = "aborted"
      BY <2>0 DEF Statuses
    <3> QED
      BY <2>0, <3>1, <3>2, <3>3, ShownFacts
  <2> QED
    BY <2>1, <2>2
<1>5. \A k \in Kids(c) : Tree!ResultOf(k) = status'[k]
  BY <1>4 DEF Tree!ResultOf
<1>6. Tree!Collected(c)
  <2>1. \A k \in Kids(c) : ShownStage[k] \in {"returned", "idle"}
    BY <1>4
  <2>2. ASSUME NEW k \in Kids(c), ShownStage[k] = "idle"
        PROVE  /\ c \in plan.stop
               /\ \E j \in Kids(c) : ShownStage[j] = "returned" /\ ShownVerdict[j] # "passed"
    <3>1. phase'[k] = "aborted" /\ k \in Tasks
      BY <1>0, <1>4, <2>2
    <3>2. /\ c \in plan.stop
          /\ \E j \in Kids(c) : phase'[j] = "finished" /\ status'[j] # "passed"
      BY <1>1, <3>1 DEF AbortedForAReason, NotPassed
    <3>3. PICK j \in Kids(c) : phase'[j] = "finished" /\ status'[j] # "passed"
      BY <3>2
    <3>4. ShownStage[j] = "returned" /\ ShownVerdict[j] # "passed"
      BY <1>4, <3>3
    <3> QED
      BY <3>2, <3>4
  <2> QED
    BY <2>1, <2>2, TreeTerms DEF Tree!Collected
<1>7. ShownStage' = [ShownStage EXCEPT ![c] = "returned"]
  <2>1. ASSUME NEW t \in Tasks
        PROVE  ShownStage'[t] = IF t = c THEN "returned" ELSE ShownStage[t]
    <3>1. CASE t = c
      BY <1>2, <3>1 DEF ShownStage
    <3>2. CASE t # c /\ t \in Idle(c)
      <4>1. t \in Kids(c) /\ phase[t] = "idle"
        BY <3>2 DEF Idle
      <4>2. phase'[t] \in {"finished", "aborted"} /\ ShownStage[t] = "idle"
        BY <1>3, <4>1, ShownFacts
      <4>3. phase'[t] = "aborted"
        BY <1>4, <4>1, <4>2
      <4> QED
        BY <3>2, <4>2, <4>3 DEF ShownStage
    <3>3. CASE t # c /\ t \notin Idle(c)
      BY <1>2, <3>3 DEF ShownStage
    <3> QED
      BY <3>1, <3>2, <3>3
  <2> QED
    BY <2>1 DEF ShownStage
<1>8. ShownVerdict' = Tree!Closed(c)
  <2> DEFINE R == {Tree!ResultOf(k) : k \in Tree!Kids(c)}
  <2>1. status'[c] = aggregate_status(R)
    <3>1. status'[c] = aggregate_status({status'[k] : k \in Kids(c)})
      BY ResultIsAggregate
    <3>2. R = {status'[k] : k \in Kids(c)}
      BY <1>5, TreeTerms
    <3> QED
      BY <3>1, <3>2
  <2> HIDE DEF R
  <2>2. ASSUME NEW t \in Tasks
        PROVE  ShownVerdict'[t] = IF t = c THEN aggregate_status(R)
                                  ELSE IF t \in Tree!Kids(c) THEN Tree!ResultOf(t)
                                  ELSE ShownVerdict[t]
    <3>1. CASE t = c
      BY <1>2, <2>1, <3>1 DEF ShownVerdict
    <3>2. CASE t # c /\ t \in Kids(c)
      <4>1. Parent(t) = c
        BY <3>2, ParentFacts
      <4>2. ShownVerdict'[t] = status'[t]
        BY <1>2, <1>3, <3>2, <4>1 DEF ShownVerdict, Parent
      <4> QED
        BY <1>5, <3>2, <4>2, TreeTerms
    <3>3. CASE t # c /\ t \notin Kids(c)
      <4>1. Parent(t) # c
        BY <3>3, ParentFacts DEF Parent
      <4>2. phase'[t] = phase[t] /\ status'[t] = status[t]
        BY <1>2, <3>3 DEF Idle
      <4>3. phase'[Parent(t)] = "finished" <=> phase[Parent(t)] = "finished"
        <5>1. CASE Parent(t) \in Idle(c)
          <6>1. Parent(t) \in Kids(c) /\ phase[Parent(t)] = "idle"
            BY <5>1 DEF Idle
          <6>2. ShownStage[Parent(t)] = "idle"
            BY <1>0, <6>1, ShownFacts
          <6> QED
            BY <1>4, <6>1, <6>2
        <5>2. CASE Parent(t) \notin Idle(c)
          BY <1>2, <4>1, <5>2, ParentFacts
        <5> QED
          BY <5>1, <5>2
      <4> QED
        BY <3>3, <4>2, <4>3, TreeTerms DEF ShownVerdict, Parent
    <3> QED
      BY <3>1, <3>2, <3>3
  <2>3. Tree!Closed(c) = [t \in Tasks |-> IF t = c THEN aggregate_status(R)
                                          ELSE IF t \in Tree!Kids(c) THEN Tree!ResultOf(t)
                                          ELSE ShownVerdict[t]]
    <3>1. Tree!aggregate_status(R) = aggregate_status(R)
      BY DEF Tree!aggregate_status, aggregate_status
    <3> QED
      BY <3>1, TreeTerms DEF Tree!Closed, R
  <2> QED
    BY <2>2, <2>3 DEF ShownVerdict
<1>9. Tree!CanClose(c)
  BY <1>0, <1>1, <1>6, ShownFacts DEF Tree!CanClose
<1>10. Tree!Closes(c)
  BY <1>1, <1>7, <1>8, <1>9 DEF Tree!Closes
<1> QED
  BY <1>10, TreeTerms DEF Tree!TreeNext

----------------------------------------------------------------------------
(* A loop is left in the step that takes the future of a child that raised. *)
LEMMA UnwoundStep ==
    ASSUME SchedulerTypeOK, UnwoundForAReason, [Next]_vars
    PROVE  UnwoundForAReason'
<1> SUFFICES ASSUME NEW c \in Containers, loop'[c] = "unwind"
             PROVE  \E k \in Kids(c) : phase'[k] = "raised"
  BY DEF UnwoundForAReason
<1> USE DEF SchedulerTypeOK
<1>1. ASSUME NEW k \in Kids(c), phase[k] = "raised" PROVE phase'[k] = "raised"
  BY <1>1, Moves, KidsFacts DEF Onward
<1>2. CASE loop[c] = "unwind"
  BY <1>1, <1>2 DEF UnwoundForAReason
<1>3. CASE loop[c] # "unwind"
  <2>1. Reap(c)
    BY <1>3, Owners DEF StartContainer, Submit
  <2>2. \E k \in InFlight(c) : phase[k] = "raised"
    BY <1>3, <2>1 DEF Reap
  <2> QED
    BY <1>1, <2>2 DEF InFlight, Called
<1> QED
  BY <1>2, <1>3

(* Each step of the scheduler is a step of the tree, or shows nothing. *)
LEMMA TreeStep ==
    ASSUME IInv, IInv', UnwoundForAReason, [Next]_vars
    PROVE  [Tree!TreeNext]_(Tree!treeVars)
<1>1. CASE UNCHANGED vars
  BY <1>1 DEF vars, Tree!treeVars, ShownStage, ShownVerdict
<1>2. ASSUME NEW f \in Functions, FunctionStep(f)
      PROVE  Tree!TreeNext
  <2>1. CASE StartFunction(f)
    BY <2>1, StartShown DEF StartFunction, Tasks
  <2> QED
    BY <1>2, <2>1, FunctionShown DEF FunctionStep
<1>3. ASSUME NEW c \in Containers, ContainerStep(c)
      PROVE  Tree!TreeNext \/ UNCHANGED Tree!treeVars
  <2>1. CASE StartContainer(c)
    BY <2>1, StartShown DEF StartContainer, Tasks
  <2>2. CASE PrecheckFails(c)
    BY <2>2, PrecheckShown
  <2>3. CASE ChildRaised(c) \/ Stall(c) \/ Unwind(c)
    BY <2>3, RaiseShown
  <2>4. CASE FinishSequential(c) \/ FinishParallel(c)
    BY <2>4, CloseShown
  <2>5. CASE CallNext(c) \/ Submit(c) \/ Reap(c) \/ Return(c)
    BY <2>5, NothingShown DEF Tree!treeVars
  <2> QED
    BY <1>3, <2>1, <2>2, <2>3, <2>4, <2>5 DEF ContainerStep
<1> QED
  BY <1>1, <1>2, <1>3 DEF Next

(* What the scheduler shows is a walk of the task tree: nothing starts       *)
(* outside its parent, nothing is left running, each result is accounted for. *)
THEOREM TreeRefinement == Spec => ImplementsTaskTree
<1>1. Init => UnwoundForAReason
  BY DEF Init, UnwoundForAReason
<1>2. IInv /\ UnwoundForAReason /\ [Next]_vars => UnwoundForAReason'
  BY UnwoundStep DEF IInv
<1>3. IInv /\ IInv' /\ UnwoundForAReason /\ [Next]_vars => [Tree!TreeNext]_(Tree!treeVars)
  BY TreeStep
<1> QED
  BY <1>1, <1>2, <1>3, TreeStart, SchedulerInvariant, PTL
     DEF Spec, ImplementsTaskTree, Tree!TreeSpec
====
