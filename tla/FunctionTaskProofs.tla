---- MODULE FunctionTaskProofs ----
(***************************************************************************)
(* Proofs about FunctionTask, for any tasks, timeouts, retries and bodies: *)
(* what its threads may rely on with one lock manager, and what holds even *)
(* after they have made several.                                           *)
(***************************************************************************)
EXTENDS FunctionTask, ResourceLocksProofs, FiniteSetTheorems

(* Attempts are numbered by the task, and the current one is among them. *)
LEMMA AttemptPairs ==
    ASSUME NEW x \in Attempts
    PROVE  x[1] \in Threads /\ x = <<x[1], x[2]>> /\ x[2] \in 0 .. MaxRetries[x[1]]
  BY DEF Attempts

LEMMA CurrentAttempt ==
    ASSUME TaskTypeOK, NEW t \in Threads
    PROVE  Current(t) \in Attempts /\ Current(t)[1] = t
<1>1. attempt[t] \in 0 .. MaxRetries[t]
  BY TaskAssumption DEF TaskTypeOK
<1> QED
  BY <1>1 DEF Attempts, Current

----------------------------------------------------------------------------
(* What a step does to the locks *)

(* An idle thread is given a manager. *)
Binds(t) ==
    /\ step[t] \in {"lookup", "create"}
    /\ UNCHANGED <<table, mutex, pc, callVars>>
    /\ \E m \in Managers : manager' = [manager EXCEPT ![t] = m]

(* A step either gives a thread its manager or is one of the lock manager's.  *)
LEMMA LockPart ==
    ASSUME TaskTypeOK, [TaskNext]_vars
    PROVE  [Next]_lockVars \/ \E t \in Threads : Binds(t)
<1> USE TaskAssumption
<1>1. ASSUME NEW t \in Threads, Lookup(t) PROVE Binds(t) \/ UNCHANGED lockVars
  BY <1>1 DEF Lookup, Binds, TaskTypeOK, lockVars, table, callVars
<1>2. ASSUME NEW t \in Threads, Create(t) PROVE Binds(t)
  BY <1>2 DEF Create, Binds
<1>3. ASSUME NEW t \in Threads, Begin(t) PROVE Next \/ UNCHANGED lockVars
  <2>1. CASE Needs[t] # {}
    <3>1. /\ Acquire(t, Needs[t], TimeoutOf[t])
          /\ Needs[t] \in (SUBSET Resources) \ {{}} /\ TimeoutOf[t] \in NoDeadline .. MaxTimeout
      BY <1>3, <2>1 DEF Begin
    <3> QED
      BY <3>1 DEF Next
  <2> QED
    BY <1>3, <2>1 DEF Begin
<1>4. ASSUME NEW t \in Threads, Finally(t) PROVE Next \/ UNCHANGED lockVars
  <2>1. CASE Needs[t] # {}
    <3>1. PICK seconds \in 0 .. MaxQuarantine : Release(t, seconds)
      BY <1>4, <2>1, LockAssumption DEF Finally
    <3> QED
      BY <3>1 DEF Next
  <2> QED
    BY <1>4, <2>1 DEF Finally
<1>5. ASSUME NEW t \in Threads, LockFailed(t) PROVE Next
  BY <1>5 DEF LockFailed, Next
<1>6. ASSUME NEW t \in Threads, InLocks(t) PROVE Next
  BY <1>6 DEF InLocks, Next
<1>7. ASSUME NEW t \in Threads,
             ExecuteRaises(t) \/ Execute(t) \/ JoinReturns(t) \/ JoinTimesOut(t)
             \/ Decide(t) \/ Resume(t)
      PROVE  UNCHANGED lockVars
  BY <1>7 DEF ExecuteRaises, Execute, JoinReturns, JoinTimesOut, Decide, Resume
<1>8. ASSUME NEW x \in Attempts, BodyEnds(x) \/ WorkerExits(x)
      PROVE  UNCHANGED lockVars
  BY <1>8 DEF BodyEnds, WorkerExits
<1>9. CASE TaskTick
  BY <1>9 DEF TaskTick, Next
<1>10. CASE UNCHANGED vars
  BY <1>10 DEF vars
<1> QED
  BY <1>1, <1>2, <1>3, <1>4, <1>5, <1>6, <1>7, <1>8, <1>9, <1>10 DEF TaskNext, Work

----------------------------------------------------------------------------
(* Types *)

LEMMA TaskTypeInit == TaskInit => TaskTypeOK
<1> SUFFICES ASSUME TaskInit PROVE TaskTypeOK
  OBVIOUS
<1> USE LockAssumption, TaskAssumption
<1>1. TypeOK
  BY DEF TaskInit, LockInit, TypeOK, Places, NoDeadline, Over
<1> QED
  BY <1>1 DEF TaskInit, TaskTypeOK, Steps, NoDeadline, NotAdrift

(* RetryOrFinish moves the thread and counts its attempts. *)
LEMMA RetryTyped ==
    ASSUME TaskTypeOK, NEW t \in Threads, NEW status, RetryOrFinish(t, status)
    PROVE  /\ step' \in [Threads -> Steps]
           /\ attempt' \in [Threads -> Nat]
           /\ \A u \in Threads : attempt'[u] <= MaxRetries[u]
           /\ timer' \in [Threads -> NoDeadline .. MaxTimeout]
<1> USE TaskAssumption, LockAssumption DEF NoDeadline
<1>1. CASE should_retry(status, attempt[t], MaxRetries[t])
  <2>1. attempt[t] < MaxRetries[t] /\ attempt[t] \in Nat /\ MaxRetries[t] \in Nat
    BY <1>1 DEF should_retry, TaskTypeOK
  <2>2. /\ step' = [step EXCEPT ![t] = "pause"]
        /\ attempt' = [attempt EXCEPT ![t] = @ + 1]
        /\ timer' = [timer EXCEPT ![t] = IntervalOf[t]]
    BY <1>1 DEF RetryOrFinish
  <2>3. attempt' \in [Threads -> Nat] /\ \A u \in Threads : attempt'[u] <= MaxRetries[u]
    BY <2>1, <2>2 DEF TaskTypeOK
  <2> QED
    BY <2>2, <2>3 DEF TaskTypeOK, Steps
<1>2. CASE ~should_retry(status, attempt[t], MaxRetries[t])
  BY <1>2 DEF RetryOrFinish, TaskTypeOK, Steps
<1> QED
  BY <1>1, <1>2

LEMMA TaskTypeStep ==
    ASSUME TaskTypeOK, [TaskNext]_vars
    PROVE  TaskTypeOK'
<1> USE TaskAssumption, LockAssumption
<1>1. TypeOK'
  <2>1. CASE [Next]_lockVars
    BY <2>1, TypeStep DEF TaskTypeOK
  <2>2. ASSUME NEW t \in Threads, Binds(t) PROVE TypeOK'
    BY <2>2 DEF Binds, TaskTypeOK, TypeOK, table, callVars
  <2> QED
    BY <2>1, <2>2, LockPart
<1> DEFINE Mine ==
      /\ registry \subseteq Threads
      /\ registered \in Managers \cup {NoManager}
      /\ made \subseteq Managers
      /\ step \in [Threads -> Steps]
      /\ attempt \in [Threads -> Nat]
      /\ \A t \in Threads : attempt[t] <= MaxRetries[t]
      /\ result \in [Threads -> ResultStatus \cup {"none", "raised"}]
      /\ timer \in [Threads -> NoDeadline .. MaxTimeout]
      /\ worker \in [Attempts -> {"none", "running", "ended", "dead"}]
      /\ outcome \in [Attempts -> ResultStatus \cup {"none"}]
      /\ adrift \in [Attempts -> NotAdrift .. MaxQuarantine]
<1>2. Mine /\ TypeOK
  BY DEF TaskTypeOK
<1> SUFFICES Mine'
  BY <1>1 DEF TaskTypeOK
<1> USE DEF shared, bodyVars
<1>3. ASSUME NEW t \in Threads, Lookup(t) \/ Create(t) PROVE Mine'
  BY <1>2, <1>3 DEF Lookup, Create, Steps
<1>4. ASSUME NEW t \in Threads, Begin(t) \/ Finally(t) \/ Resume(t) PROVE Mine'
  BY <1>2, <1>4 DEF Begin, Finally, Resume, Steps, ResultStatus
<1>5. ASSUME NEW t \in Threads, LockFailed(t) PROVE Mine'
  <2>1. result' \in [Threads -> ResultStatus \cup {"none", "raised"}]
    BY <1>2, <1>5 DEF LockFailed, ResultStatus
  <2> QED
    BY <1>2, <1>5, <2>1, RetryTyped DEF LockFailed
<1>6. ASSUME NEW t \in Threads, Decide(t) PROVE Mine'
  <2>1. CASE result[t] = "raised"
    BY <1>2, <1>6, <2>1 DEF Decide, Steps
  <2>2. CASE result[t] # "raised"
    BY <1>2, <1>6, <2>2, RetryTyped DEF Decide
  <2> QED
    BY <2>1, <2>2
<1>7. ASSUME NEW t \in Threads, ExecuteRaises(t) PROVE Mine'
  BY <1>2, <1>7 DEF ExecuteRaises, Steps
<1>8. ASSUME NEW t \in Threads, Execute(t) PROVE Mine'
  BY <1>2, <1>8 DEF Execute, Steps
<1>9. ASSUME NEW t \in Threads, JoinReturns(t) PROVE Mine'
  <2>1. outcome[Current(t)] \in ResultStatus \cup {"none"}
    BY CurrentAttempt DEF TaskTypeOK
  <2> QED
    BY <1>2, <1>9, <2>1 DEF JoinReturns, Steps, NoDeadline
<1>10. ASSUME NEW t \in Threads, JoinTimesOut(t) PROVE Mine'
  <2>1. /\ step' = [step EXCEPT ![t] = "finally"]
        /\ result' = [result EXCEPT ![t] = "timeout"]
        /\ \E n \in {0, NotAdrift} : adrift' = [adrift EXCEPT ![Current(t)] = n]
        /\ UNCHANGED <<shared, attempt, timer, worker, outcome>>
    BY <1>10 DEF JoinTimesOut
  <2>2. PICK n \in {0, NotAdrift} : adrift' = [adrift EXCEPT ![Current(t)] = n]
    BY <2>1
  <2>3. n \in NotAdrift .. MaxQuarantine
    BY DEF NotAdrift
  <2>4. adrift' \in [Attempts -> NotAdrift .. MaxQuarantine]
    BY <1>2, <2>2, <2>3
  <2>5. step' \in [Threads -> Steps]
    BY <1>2, <2>1 DEF Steps
  <2>6. result' \in [Threads -> ResultStatus \cup {"none", "raised"}]
    BY <1>2, <2>1 DEF ResultStatus
  <2> QED
    BY <1>2, <2>1, <2>4, <2>5, <2>6
<1>11. ASSUME NEW x \in Attempts, BodyEnds(x) \/ WorkerExits(x) PROVE Mine'
  BY <1>2, <1>11 DEF BodyEnds, WorkerExits, NotAdrift
<1>12. CASE TaskTick
  BY <1>2, <1>12 DEF TaskTick, Sooner, Shorter, NotAdrift, NoDeadline
<1>13. ASSUME NEW t \in Threads, InLocks(t) PROVE Mine'
  BY <1>2, <1>13 DEF InLocks, taskVars
<1>14. CASE UNCHANGED vars
  BY <1>2, <1>14 DEF vars, taskVars
<1> QED
  BY <1>3, <1>4, <1>5, <1>6, <1>7, <1>8, <1>9, <1>10, <1>11, <1>12, <1>13, <1>14
  DEF TaskNext, Work

(* Every variable of the retry loops keeps its type. *)
THEOREM TaskTyping == TaskSpec => []TaskTypeOK
<1>1. TaskTypeOK /\ [TaskNext]_vars => TaskTypeOK'
  BY TaskTypeStep
<1> QED
  BY <1>1, TaskTypeInit, PTL DEF TaskSpec
----------------------------------------------------------------------------
(* Outcomes *)

(* A task that goes by an answer has that of the attempt it is in; see       *)
(* OutcomeIsOwn.  An answered attempt stays as it is, since its worker is    *)
(* dead, and the next one starts a new queue.                                *)
OutcomeInv ==
    /\ \A t \in Threads :
        step[t] \in {"finally", "decide", "done"} /\ result[t] \notin {"timeout", "raised"} =>
            outcome[Current(t)] = result[t] /\ worker[Current(t)] = "dead"
    /\ \A t \in Threads : step[t] = "done" => result[t] # "raised"

LEMMA OutcomeStep ==
    ASSUME TaskTypeOK, OutcomeInv, [TaskNext]_vars
    PROVE  OutcomeInv'
<1> USE TaskAssumption DEF shared, bodyVars
<1> DEFINE Own(u) ==
      /\ step[u] \in {"finally", "decide", "done"} /\ result[u] \notin {"timeout", "raised"} =>
             outcome[Current(u)] = result[u] /\ worker[Current(u)] = "dead"
      /\ step[u] = "done" => result[u] # "raised"
<1>1. \A u \in Threads : Own(u)
  BY DEF OutcomeInv
<1> SUFFICES \A u \in Threads : Own(u)'
  BY DEF OutcomeInv
<1> HIDE DEF Own
(* A step of t alone that touches no body is to be judged for t only. *)
<1>2. ASSUME NEW t \in Threads, NEW u \in Threads, u # t,
             step'[u] = step[u], result'[u] = result[u], attempt'[u] = attempt[u],
             UNCHANGED <<outcome, worker>>
      PROVE  Own(u)'
  BY <1>1, <1>2 DEF Own, Current
<1>3. ASSUME NEW t \in Threads,
             \/ Lookup(t) \/ Create(t) \/ Begin(t) \/ ExecuteRaises(t) \/ JoinTimesOut(t) \/ Resume(t)
      PROVE  \A u \in Threads : Own(u)'
  <2>1. /\ UNCHANGED <<outcome, worker>>
        /\ \A u \in Threads : u # t =>
               step'[u] = step[u] /\ result'[u] = result[u] /\ attempt'[u] = attempt[u]
        /\ \/ step'[t] \in {"create", "begin", "attempt"}
           \/ step'[t] = "finally" /\ result'[t] \in {"raised", "timeout"}
    BY <1>3 DEF Lookup, Create, Begin, ExecuteRaises, JoinTimesOut, Resume, TaskTypeOK
  <2>2. Own(t)'
    BY <2>1 DEF Own
  <2> QED
    BY <1>2, <2>1, <2>2
<1>4. ASSUME NEW t \in Threads, LockFailed(t) PROVE \A u \in Threads : Own(u)'
  <2>1. /\ UNCHANGED <<outcome, worker>> /\ result'[t] = "timeout"
        /\ \A u \in Threads : u # t =>
               step'[u] = step[u] /\ result'[u] = result[u] /\ attempt'[u] = attempt[u]
    BY <1>4 DEF LockFailed, RetryOrFinish, TaskTypeOK
  <2>2. Own(t)'
    BY <2>1 DEF Own
  <2> QED
    BY <1>2, <2>1, <2>2
<1>5. ASSUME NEW t \in Threads, Finally(t) PROVE \A u \in Threads : Own(u)'
  <2>1. /\ UNCHANGED <<outcome, worker, result, attempt>>
        /\ step[t] = "finally" /\ step'[t] = "decide"
        /\ \A u \in Threads : u # t => step'[u] = step[u]
    BY <1>5 DEF Finally, TaskTypeOK
  <2>2. Own(t)'
    BY <1>1, <2>1 DEF Own, Current
  <2> QED
    BY <1>2, <2>1, <2>2
<1>6. ASSUME NEW t \in Threads, Decide(t) PROVE \A u \in Threads : Own(u)'
  <2>1. /\ UNCHANGED <<outcome, worker, result>> /\ step[t] = "decide"
        /\ \A u \in Threads : u # t => step'[u] = step[u] /\ attempt'[u] = attempt[u]
        /\ \/ step'[t] = "raised"
           \/ step'[t] = "pause"
           \/ step'[t] = "done" /\ result[t] # "raised" /\ attempt' = attempt
    BY <1>6 DEF Decide, RetryOrFinish, TaskTypeOK
  <2>2. Own(t)'
    BY <1>1, <2>1 DEF Own, Current
  <2> QED
    BY <1>2, <2>1, <2>2
<1>7. ASSUME NEW t \in Threads, JoinReturns(t) PROVE \A u \in Threads : Own(u)'
  <2>1. /\ UNCHANGED <<outcome, worker, attempt>>
        /\ step'[t] = "finally" /\ result'[t] = outcome[Current(t)] /\ worker[Current(t)] = "dead"
        /\ \A u \in Threads : u # t => step'[u] = step[u] /\ result'[u] = result[u]
    BY <1>7 DEF JoinReturns, TaskTypeOK
  <2>2. Own(t)'
    BY <2>1 DEF Own, Current
  <2> QED
    BY <1>2, <2>1, <2>2
(* A body that starts or goes on is not that of an answered attempt. *)
<1>8. ASSUME NEW x \in Attempts, UNCHANGED <<step, result, attempt>>, worker[x] # "dead",
             \A y \in Attempts : y # x => worker'[y] = worker[y] /\ outcome'[y] = outcome[y]
      PROVE  \A u \in Threads : Own(u)'
  <2> SUFFICES ASSUME NEW u \in Threads PROVE Own(u)'
    OBVIOUS
  <2>1. CASE Current(u) = x
    BY <1>1, <1>8, <2>1 DEF Own, Current
  <2>2. CASE Current(u) # x
    <3>1. worker'[Current(u)] = worker[Current(u)] /\ outcome'[Current(u)] = outcome[Current(u)]
      BY <1>8, <2>2, CurrentAttempt
    <3> QED
      BY <1>1, <1>8, <3>1 DEF Own, Current
  <2> QED
    BY <2>1, <2>2
<1>9. ASSUME NEW x \in Attempts, BodyEnds(x) \/ WorkerExits(x)
      PROVE  \A u \in Threads : Own(u)'
  <2>1. /\ UNCHANGED <<step, result, attempt>> /\ worker[x] # "dead"
        /\ \A y \in Attempts : y # x => worker'[y] = worker[y] /\ outcome'[y] = outcome[y]
    BY <1>9 DEF BodyEnds, WorkerExits, TaskTypeOK
  <2> QED
    BY <1>8, <2>1
<1>10. ASSUME NEW t \in Threads, Execute(t) PROVE \A u \in Threads : Own(u)'
  <2>1. /\ UNCHANGED <<result, attempt, outcome>> /\ step'[t] = "join"
        /\ \A u \in Threads : u # t => step'[u] = step[u]
        /\ \A y \in Attempts : y # Current(t) => worker'[y] = worker[y]
    BY <1>10 DEF Execute, TaskTypeOK
  <2>2. Own(t)'
    BY <2>1 DEF Own
  <2>3. ASSUME NEW u \in Threads, u # t PROVE Own(u)'
    <3>1. Current(u) \in Attempts /\ Current(u) # Current(t)
      BY <2>3, CurrentAttempt
    <3> QED
      BY <1>1, <2>1, <2>3, <3>1 DEF Own, Current
  <2> QED
    BY <2>2, <2>3
<1>11. ASSUME UNCHANGED <<step, result, attempt, worker, outcome>>
       PROVE  \A u \in Threads : Own(u)'
  BY <1>1, <1>11 DEF Own, Current
<1>12. ASSUME NEW t \in Threads, InLocks(t) PROVE UNCHANGED <<step, result, attempt, worker, outcome>>
  BY <1>12 DEF InLocks, taskVars
<1>13. TaskTick \/ UNCHANGED vars => UNCHANGED <<step, result, attempt, worker, outcome>>
  BY DEF TaskTick, vars, taskVars
<1> QED
  BY <1>3, <1>4, <1>5, <1>6, <1>7, <1>9, <1>10, <1>11, <1>12, <1>13 DEF TaskNext, Work

(* The answer a task ends with is that of its last attempt. *)
THEOREM OwnOutcomes == TaskSpec => []OutcomeIsOwn
<1>1. TaskInit => OutcomeInv
  BY DEF TaskInit, OutcomeInv
<1>2. TaskTypeOK /\ OutcomeInv /\ [TaskNext]_vars => OutcomeInv'
  BY OutcomeStep
<1>3. OutcomeInv => OutcomeIsOwn
  BY DEF OutcomeInv, OutcomeIsOwn
<1> QED
  BY <1>1, <1>2, <1>3, TaskTyping, PTL DEF TaskSpec

----------------------------------------------------------------------------
(* Where a task is in its attempt and where its thread is in the locks *)

Asking == {"sample", "lock", "scan", "claim", "sleep"}

(* The call that belongs to each step of the retry loop. *)
PlaceInv ==
    \A t \in Threads :
        /\ step[t] \in {"lookup", "create", "begin", "pause", "done", "raised"} \/ Needs[t] = {}
           => pc[t] = "idle"
        /\ Needs[t] # {} =>
            /\ step[t] = "attempt" => pc[t] \in Asking \cup {"refused", "holding"}
            /\ step[t] \in {"join", "finally"} => pc[t] = "holding"
            /\ step[t] = "decide" => pc[t] \in {"release", "unset", "idle"}
            /\ pc[t] \notin {"idle", "refused"} => wants[t] = Needs[t]

LEMMA PlaceStep ==
    ASSUME TaskTypeOK, PlaceInv, [TaskNext]_vars
    PROVE  PlaceInv'
<1> USE TaskAssumption DEF shared, bodyVars, callVars, table, lockVars
<1> DEFINE Placed(u) ==
        /\ step[u] \in {"lookup", "create", "begin", "pause", "done", "raised"} \/ Needs[u] = {}
           => pc[u] = "idle"
        /\ Needs[u] # {} =>
            /\ step[u] = "attempt" => pc[u] \in Asking \cup {"refused", "holding"}
            /\ step[u] \in {"join", "finally"} => pc[u] = "holding"
            /\ step[u] = "decide" => pc[u] \in {"release", "unset", "idle"}
            /\ pc[u] \notin {"idle", "refused"} => wants[u] = Needs[u]
<1>0. TypeOK /\ step \in [Threads -> Steps] /\ \A u \in Threads : Placed(u)
  BY DEF PlaceInv, TaskTypeOK
<1>1. ASSUME NEW u \in Threads, step'[u] = step[u], pc'[u] = pc[u], wants'[u] = wants[u]
      PROVE  Placed(u)'
  BY <1>0, <1>1
<1> HIDE DEF Placed
<1> SUFFICES \A u \in Threads : Placed(u)'
  BY DEF PlaceInv, Placed
<1>2. ASSUME NEW t \in Threads, Placed(t)',
             \A u \in Threads : u # t => step'[u] = step[u] /\ pc'[u] = pc[u] /\ wants'[u] = wants[u]
      PROVE  \A u \in Threads : Placed(u)'
  BY <1>1, <1>2
<1>3. ASSUME NEW t \in Threads, Lookup(t) \/ Create(t) \/ Resume(t) PROVE \A u \in Threads : Placed(u)'
  <2>1. /\ step[t] \in {"lookup", "create", "pause"} /\ step'[t] \in {"create", "begin"}
        /\ pc' = pc /\ wants' = wants /\ \A u \in Threads : u # t => step'[u] = step[u]
    BY <1>0, <1>3 DEF Lookup, Create, Resume
  <2>2. Placed(t)'
    BY <1>0, <2>1 DEF Placed
  <2> QED
    BY <1>2, <2>1, <2>2
<1>4. ASSUME NEW t \in Threads, Begin(t) PROVE \A u \in Threads : Placed(u)'
  <2>1. step[t] = "begin" /\ step' = [step EXCEPT ![t] = "attempt"]
    BY <1>4 DEF Begin
  <2>2. CASE Needs[t] = {}
    <3>1. pc' = pc /\ wants' = wants
      BY <1>4, <2>2 DEF Begin
    <3>2. Placed(t)'
      BY <1>0, <2>1, <2>2, <3>1 DEF Placed
    <3> QED
      BY <1>0, <1>2, <2>1, <3>1, <3>2
  <2>3. CASE Needs[t] # {}
    <3>1. pc' = [pc EXCEPT ![t] = "sample"] /\ wants' = [wants EXCEPT ![t] = Needs[t]]
      BY <1>4, <2>3 DEF Begin, Acquire
    <3>2. Placed(t)'
      BY <1>0, <2>1, <2>3, <3>1 DEF Placed, TypeOK, Asking
    <3> QED
      BY <1>0, <1>2, <2>1, <3>1, <3>2 DEF TypeOK
  <2> QED
    BY <2>2, <2>3
<1>5. ASSUME NEW t \in Threads, LockFailed(t) PROVE \A u \in Threads : Placed(u)'
  <2>1. /\ step[t] = "attempt" /\ step'[t] \in {"pause", "done"} /\ pc[t] = "refused" /\ pc'[t] = "idle"
        /\ wants' = wants /\ \A u \in Threads : u # t => step'[u] = step[u] /\ pc'[u] = pc[u]
    BY <1>0, <1>5 DEF LockFailed, Refused, RetryOrFinish, TypeOK
  <2>2. Placed(t)'
    BY <1>0, <2>1 DEF Placed
  <2> QED
    BY <1>2, <2>1, <2>2
<1>6. ASSUME NEW t \in Threads,
             ExecuteRaises(t) \/ Execute(t) \/ JoinReturns(t) \/ JoinTimesOut(t)
      PROVE  \A u \in Threads : Placed(u)'
  <2>1. /\ \/ step[t] = "attempt" /\ LocksHeld(t) /\ step'[t] \in {"join", "finally"}
           \/ step[t] = "join" /\ step'[t] = "finally"
        /\ pc' = pc /\ wants' = wants /\ \A u \in Threads : u # t => step'[u] = step[u]
    BY <1>0, <1>6 DEF ExecuteRaises, Execute, JoinReturns, JoinTimesOut
  <2>2. Placed(t)'
    BY <1>0, <2>1 DEF Placed, LocksHeld
  <2> QED
    BY <1>2, <2>1, <2>2
<1>7. ASSUME NEW t \in Threads, Finally(t) PROVE \A u \in Threads : Placed(u)'
  <2>1. step[t] = "finally" /\ step' = [step EXCEPT ![t] = "decide"]
    BY <1>7 DEF Finally
  <2>2. CASE Needs[t] = {}
    <3>1. pc' = pc /\ wants' = wants
      BY <1>7, <2>2 DEF Finally
    <3>2. Placed(t)'
      BY <1>0, <2>1, <2>2, <3>1 DEF Placed
    <3> QED
      BY <1>0, <1>2, <2>1, <3>1, <3>2
  <2>3. CASE Needs[t] # {}
    <3>1. pc[t] = "holding" /\ pc' = [pc EXCEPT ![t] = "release"] /\ wants' = wants
      BY <1>7, <2>3 DEF Finally, Release
    <3>2. Placed(t)'
      BY <1>0, <2>1, <2>3, <3>1 DEF Placed, TypeOK
    <3> QED
      BY <1>0, <1>2, <2>1, <3>1, <3>2 DEF TypeOK
  <2> QED
    BY <2>2, <2>3
<1>8. ASSUME NEW t \in Threads, Decide(t) PROVE \A u \in Threads : Placed(u)'
  <2>1. /\ pc[t] = "idle" /\ step'[t] \in {"raised", "pause", "done"}
        /\ pc' = pc /\ wants' = wants /\ \A u \in Threads : u # t => step'[u] = step[u]
    BY <1>0, <1>8 DEF Decide, RetryOrFinish
  <2>2. Placed(t)'
    BY <1>0, <2>1 DEF Placed
  <2> QED
    BY <1>2, <2>1, <2>2
<1>9. ASSUME NEW t \in Threads, InLocks(t) PROVE \A u \in Threads : Placed(u)'
  <2>0. step' = step /\ Internal(t)
    BY <1>9 DEF InLocks, taskVars
  <2>1. /\ \A u \in Threads : u # t => pc'[u] = pc[u] /\ wants'[u] = wants[u]
        /\ \/ pc[t] \in Asking /\ pc'[t] \in Asking \cup {"holding"} /\ wants'[t] = wants[t]
           \/ pc[t] \in Asking /\ pc'[t] = "refused"
           \/ pc[t] \in {"release", "unset"} /\ pc'[t] = "unset" /\ wants'[t] = wants[t]
           \/ pc[t] = "unset" /\ pc'[t] = "idle"
    <3>1. CASE Sample(t) \/ Wake(t) \/ Lock(t) \/ LockToRelease(t)
      BY <1>0, <3>1 DEF Sample, Wake, Lock, LockToRelease, TakeMutex, Asking, TypeOK
    <3>2. CASE Pass(t)
      BY <1>0, <3>2 DEF Pass, Asking, TypeOK
    <3>3. CASE Block(t)
      BY <1>0, <3>3 DEF Block, Forget, Asking, TypeOK
    <3>4. CASE Claim(t)
      <4>1. PICK r \in Resources : LoopStep(t, r, "holding", wants[t])
        BY <3>4 DEF Claim
      <4> QED
        BY <1>0, <3>4, <4>1 DEF Claim, LoopStep, Forget, Asking, TypeOK
    <3>5. CASE Unset(t)
      <4>1. PICK r \in Resources : LoopStep(t, r, "idle", {})
        BY <3>5 DEF Unset
      <4> QED
        BY <1>0, <3>5, <4>1 DEF Unset, LoopStep, Forget, TypeOK
    <3> QED
      BY <2>0, <3>1, <3>2, <3>3, <3>4, <3>5 DEF Internal
  <2>2. pc[t] # "idle"
    BY <2>1 DEF Asking
  <2>3. step[t] \in {"attempt", "decide"} /\ Needs[t] # {}
    BY <1>0, <2>1, <2>2 DEF Placed, Steps, Asking
  <2>4. Placed(t)'
    BY <1>0, <2>0, <2>1, <2>3 DEF Placed, Asking
  <2> QED
    BY <1>2, <2>0, <2>1, <2>4
<1>10. ASSUME UNCHANGED <<step, pc, wants>> PROVE \A u \in Threads : Placed(u)'
  BY <1>1, <1>10
<1>11. ASSUME NEW x \in Attempts, BodyEnds(x) \/ WorkerExits(x) PROVE UNCHANGED <<step, pc, wants>>
  BY <1>11 DEF BodyEnds, WorkerExits
<1>12. TaskTick \/ UNCHANGED vars => UNCHANGED <<step, pc, wants>>
  BY DEF TaskTick, Tick, vars, taskVars
<1> QED
  BY <1>3, <1>4, <1>5, <1>6, <1>7, <1>8, <1>9, <1>10, <1>11, <1>12 DEF TaskNext, Work

LEMMA PlaceInit == TaskInit => PlaceInv
<1> SUFFICES ASSUME TaskInit, NEW t \in Threads
             PROVE  PlaceInv!(t)
  BY DEF PlaceInv
<1>1. step[t] = "lookup" /\ pc[t] = "idle"
  BY DEF TaskInit, LockInit
<1> QED
  BY <1>1

LEMMA TypedAndPlaced == TaskSpec => [](TaskTypeOK /\ PlaceInv)
<1>1. TaskTypeOK /\ PlaceInv /\ [TaskNext]_vars => PlaceInv'
  BY PlaceStep
<1> QED
  BY <1>1, PlaceInit, TaskTyping, PTL DEF TaskSpec

(* A task between attempts or at its end owns nothing, also when the threads *)
(* have made several managers.                                               *)
THEOREM LeavesNothingLocked == ASSUME DistinctTasks PROVE TaskSpec => []NothingLeftLocked
<1>1. TaskInit => OwnsOnlyOwn
  BY LockAssumption DEF TaskInit, LockInit, OwnsOnlyOwn
<1>2. TaskTypeOK /\ OwnsOnlyOwn /\ [TaskNext]_vars => OwnsOnlyOwn'
  <2> SUFFICES ASSUME TaskTypeOK, OwnsOnlyOwn, [TaskNext]_vars PROVE OwnsOnlyOwn'
    OBVIOUS
  <2>1. CASE [Next]_lockVars
    BY <2>1, OwnsOnlyOwnStep DEF TaskTypeOK
  <2>2. ASSUME NEW t \in Threads, Binds(t) PROVE OwnsOnlyOwn'
    BY <2>2 DEF Binds, OwnsOnlyOwn, Owned, Holds, table, callVars
  <2> QED
    BY <2>1, <2>2, LockPart
<1>3. TaskTypeOK /\ PlaceInv /\ OwnsOnlyOwn => NothingLeftLocked
  BY DEF PlaceInv, OwnsOnlyOwn, Owned, Holds, NothingLeftLocked
<1> QED
  BY <1>1, <1>2, <1>3, TypedAndPlaced, PTL DEF TaskSpec

----------------------------------------------------------------------------
(* One manager *)

(* A thread beyond _resource_lock_manager has a manager that was made. *)
ManagersInv ==
    /\ IsFiniteSet(made)
    /\ registered \in made \cup {NoManager}
    /\ \A t \in Threads : step[t] \in {"lookup", "create"} \/ manager[t] \in made

Single == \A m, n \in made : m = n

(* The attempt's locks are still to be given back, with r among them, and    *)
(* the quarantine of r will begin no earlier than the body was given up.      *)
Cooling(x, r) ==
    LET t == x[1] IN
    /\ x = Current(t)
    /\ \/ step[t] = "finally" /\ result[t] = "timeout"
       \/ /\ step[t] = "decide"
          /\ pc[t] = "release" \/ (pc[t] = "unset" /\ r \in todo[t])
          /\ cooling[t] >= QuarantineOf[t] - adrift[x]

(* A body that was given up less than a quarantine ago is kept apart by the  *)
(* table, resource by resource, or will be.                                  *)
ZombieInv ==
    \A x \in Attempts : adrift[x] # NotAdrift /\ adrift[x] < QuarantineOf[x[1]] =>
        \A r \in Needs[x[1]] :
            quarantine[r] >= QuarantineOf[x[1]] - adrift[x] \/ Cooling(x, r)

LEMMA ManagersStep ==
    ASSUME TaskTypeOK, ManagersInv, [TaskNext]_vars
    PROVE  ManagersInv' /\ made \subseteq made'
<1> USE TaskAssumption DEF shared
<1>1. ASSUME NEW t \in Threads, Create(t) PROVE ManagersInv' /\ made \subseteq made'
  <2>1. PICK m \in Managers \ made :
          made' = made \cup {m} /\ registered' = m /\ manager' = [manager EXCEPT ![t] = m]
    BY <1>1 DEF Create
  <2>2. IsFiniteSet(made')
    BY <2>1, FS_AddElement DEF ManagersInv
  <2>3. step' = [step EXCEPT ![t] = "begin"]
    BY <1>1 DEF Create
  <2> QED
    BY <2>1, <2>2, <2>3 DEF ManagersInv, TaskTypeOK, TypeOK
<1>2. ASSUME NEW t \in Threads, Lookup(t) PROVE ManagersInv' /\ made \subseteq made'
  BY <1>2 DEF Lookup, ManagersInv, TaskTypeOK, TypeOK
<1>3. ASSUME UNCHANGED <<shared, manager>>,
             \A t \in Threads : step[t] \in {"lookup", "create"} \/ step'[t] \notin {"lookup", "create"},
             \A t \in Threads : step[t] \in {"lookup", "create"} => step'[t] = step[t]
      PROVE  ManagersInv' /\ made \subseteq made'
  BY <1>3 DEF ManagersInv
<1>4. ASSUME NEW t \in Threads, Begin(t) \/ Finally(t) \/ LockFailed(t)
      PROVE  UNCHANGED <<shared, manager>>
  BY <1>4 DEF Begin, Finally, LockFailed, Acquire, Release, Refused, lockVars
<1>5. ASSUME NEW t \in Threads,
             ExecuteRaises(t) \/ Execute(t) \/ JoinReturns(t) \/ JoinTimesOut(t)
             \/ Decide(t) \/ Resume(t)
      PROVE  UNCHANGED <<shared, manager>>
  BY <1>5 DEF ExecuteRaises, Execute, JoinReturns, JoinTimesOut, Decide, Resume, lockVars
<1>6. ASSUME NEW t \in Threads,
             \/ Begin(t) \/ LockFailed(t) \/ ExecuteRaises(t) \/ Execute(t)
             \/ JoinReturns(t) \/ JoinTimesOut(t) \/ Finally(t) \/ Decide(t) \/ Resume(t)
      PROVE  /\ step[t] \notin {"lookup", "create"} /\ step'[t] \notin {"lookup", "create"}
             /\ \A u \in Threads : u # t => step'[u] = step[u]
  BY <1>6 DEF Begin, LockFailed, ExecuteRaises, Execute, JoinReturns, JoinTimesOut, Finally,
              Decide, Resume, RetryOrFinish, TaskTypeOK
<1>7. ASSUME NEW t \in Threads, InLocks(t) PROVE UNCHANGED <<shared, manager, step>>
  <2>1. Next
    BY <1>7 DEF InLocks, Next
  <2> QED
    BY <1>7, <2>1, ManagersStay DEF InLocks, taskVars
<1>8. ASSUME NEW x \in Attempts, BodyEnds(x) \/ WorkerExits(x)
      PROVE  UNCHANGED <<shared, manager, step>>
  BY <1>8 DEF BodyEnds, WorkerExits, lockVars
<1>9. TaskTick \/ UNCHANGED vars => UNCHANGED <<shared, manager, step>>
  BY DEF TaskTick, Tick, vars, taskVars, lockVars
<1>10. ASSUME UNCHANGED <<shared, manager, step>> PROVE ManagersInv' /\ made \subseteq made'
  BY <1>10 DEF ManagersInv
<1> QED
  BY <1>1, <1>2, <1>3, <1>4, <1>5, <1>6, <1>7, <1>8, <1>9, <1>10 DEF TaskNext, Work

(* The lock manager's invariant holds as long as there is one manager. *)
LEMMA LocksStep ==
    ASSUME DistinctTasks, TaskTypeOK, PlaceInv, ManagersInv, IInv, [TaskNext]_vars, Single'
    PROVE  IInv'
<1>1. TaskTypeOK' /\ PlaceInv' /\ ManagersInv'
  BY TaskTypeStep, PlaceStep, ManagersStep
<1>2. \A t \in Threads : pc'[t] # "idle" => manager'[t] \in made'
  BY <1>1 DEF PlaceInv, ManagersInv
<1>3. OneManagerInCalls'
  BY <1>2 DEF Single, OneManagerInCalls
<1>4. CASE [Next]_lockVars
  BY <1>3, <1>4, InvStep
<1>5. ASSUME NEW t \in Threads, Binds(t) PROVE IInv'
  <2>1. /\ UNCHANGED <<owner, quarantine, mutex, pc, wants, todo, lag>>
        /\ \A u \in Threads : u # t => manager'[u] = manager[u]
    BY <1>5 DEF Binds, table, callVars, TaskTypeOK, TypeOK
  <2>2. pc[t] = "idle"
    BY <1>5 DEF Binds, PlaceInv
  <2>3. MutexInv'
    BY <2>1, <2>2 DEF IInv, MutexInv, InMutex
  <2>4. OwnerInv'
    BY <2>1 DEF IInv, OwnerInv, Owned, Holds
  <2>5. ScanInv' /\ ClaimInv' /\ NoOwnerInQuarantine'
    BY <2>1 DEF IInv, ScanInv, ClaimInv, NoOwnerInQuarantine, Quarantined, Locked
  <2> QED
    BY <1>1, <1>3, <2>3, <2>4, <2>5 DEF IInv, TaskTypeOK
<1> QED
  BY <1>4, <1>5, LockPart

(* A set of at most one element has no two. *)
LEMMA AtMostOne ==
    ASSUME ManagersInv, OneManagerMade
    PROVE  Single
<1> SUFFICES ASSUME NEW m \in made, NEW n \in made, m # n PROVE FALSE
  BY DEF Single
<1>1. IsFiniteSet(made) /\ Cardinality(made) \in Nat
  BY FS_CardinalityType DEF ManagersInv
<1>2. IsFiniteSet(made \ {m}) /\ Cardinality(made \ {m}) = Cardinality(made) - 1
  BY <1>1, FS_RemoveElement
<1>3. Cardinality(made \ {m}) # 0
  BY <1>2, FS_EmptySet
<1> QED
  BY <1>1, <1>2, <1>3, FS_CardinalityType DEF OneManagerMade

(* A task that has its locks owns them in the table, out of quarantine. *)
LEMMA LocksOwned ==
    ASSUME TaskTypeOK, PlaceInv, IInv, NEW t \in Threads, NEW r \in Resources,
           \/ step[t] \in {"join", "finally"} /\ r \in Needs[t]
           \/ pc[t] = "release" /\ r \in Needs[t]
           \/ pc[t] = "unset" /\ r \in todo[t]
    PROVE  owner[r] = TaskOf[t] /\ owner[r] # NoOwner /\ quarantine[r] <= 0
<1>1. r \in Owned(t)
  BY DEF PlaceInv, Owned, Holds
<1>2. owner[r] = TaskOf[t] /\ TaskOf[t] # NoOwner
  BY <1>1, LockAssumption DEF IInv, OwnerInv
<1> QED
  BY <1>2 DEF IInv, NoOwnerInQuarantine

LEMMA ZombieStep ==
    ASSUME DistinctTasks, TaskTypeOK, PlaceInv, IInv, ZombieInv, [TaskNext]_vars
    PROVE  ZombieInv'
<1> SUFFICES ASSUME NEW x \in Attempts, adrift'[x] # NotAdrift, adrift'[x] < QuarantineOf[x[1]],
                    NEW r \in Needs[x[1]]
             PROVE  quarantine'[r] >= QuarantineOf[x[1]] - adrift'[x] \/ Cooling(x, r)'
  BY DEF ZombieInv
<1> USE DEF shared, bodyVars, table, callVars
<1> DEFINE o == x[1]
           Q == QuarantineOf[o]
           Shielded == quarantine[r] >= Q - adrift[x]
<1>0. /\ o \in Threads /\ r \in Resources /\ Needs[o] # {}
      /\ Q \in 0 .. MaxQuarantine /\ MaxQuarantine \in Nat
      /\ adrift[x] \in NotAdrift .. MaxQuarantine
      /\ quarantine[r] \in Int /\ cooling[o] \in Int
      /\ TypeOK
  BY AttemptPairs, TaskAssumption, LockAssumption DEF TaskTypeOK, TypeOK, Over
<1>1. adrift[x] # NotAdrift /\ adrift[x] < Q => Shielded \/ Cooling(x, r)
  BY DEF ZombieInv
<1> DEFINE Goal == Shielded' \/ Cooling(x, r)'
<1> SUFFICES Goal
  OBVIOUS
<1> HIDE DEF Goal
(* Nothing happens to the owner of x. *)
<1>2. ASSUME quarantine'[r] = quarantine[r], adrift'[x] = adrift[x], step'[o] = step[o],
             attempt'[o] = attempt[o], result'[o] = result[o], pc'[o] = pc[o],
             todo'[o] = todo[o], cooling'[o] = cooling[o]
      PROVE  Goal
  BY <1>1, <1>2 DEF Goal, Cooling, Current
(* The owner of x is not about to give back the locks of x. *)
<1>3. ASSUME quarantine'[r] = quarantine[r], adrift'[x] = adrift[x], ~Cooling(x, r)
      PROVE  Goal
  BY <1>1, <1>3 DEF Goal
<1>4. ASSUME NEW t \in Threads,
             \/ Lookup(t) \/ Create(t) \/ Begin(t) \/ LockFailed(t)
             \/ ExecuteRaises(t) \/ Execute(t) \/ JoinReturns(t) \/ Resume(t)
      PROVE  Goal
  <2>1. /\ UNCHANGED <<quarantine, adrift>> /\ step[t] \notin {"finally", "decide"}
        /\ \A u \in Threads : u # t =>
              /\ step'[u] = step[u] /\ attempt'[u] = attempt[u] /\ result'[u] = result[u]
              /\ pc'[u] = pc[u] /\ todo'[u] = todo[u] /\ cooling'[u] = cooling[u]
    BY <1>0, <1>4 DEF Lookup, Create, Begin, LockFailed, ExecuteRaises, Execute, JoinReturns,
       Resume, RetryOrFinish, Acquire, Refused, lockVars, TaskTypeOK, TypeOK
  <2>2. CASE t = o
    BY <1>3, <2>1, <2>2 DEF Cooling
  <2>3. CASE t # o
    BY <1>0, <1>2, <2>1, <2>3
  <2> QED
    BY <2>2, <2>3
<1>5. ASSUME NEW t \in Threads, JoinTimesOut(t) PROVE Goal
  <2>1. /\ UNCHANGED <<lockVars, attempt>> /\ step[t] = "join"
        /\ step'[t] = "finally" /\ result'[t] = "timeout"
        /\ \A y \in Attempts : y # Current(t) => adrift'[y] = adrift[y]
        /\ \A u \in Threads : u # t => step'[u] = step[u] /\ result'[u] = result[u]
    BY <1>5 DEF JoinTimesOut, TaskTypeOK
  <2>2. CASE x = Current(t)
    BY <2>1, <2>2, CurrentAttempt DEF Goal, Cooling, Current
  <2>3. CASE x # Current(t) /\ t = o
    BY <1>3, <2>1, <2>3 DEF Cooling, lockVars
  <2>4. CASE x # Current(t) /\ t # o
    BY <1>0, <1>2, <2>1, <2>4 DEF lockVars
  <2> QED
    BY <2>2, <2>3, <2>4
<1>6. ASSUME NEW t \in Threads, Finally(t) PROVE Goal
  <2>1. /\ UNCHANGED <<attempt, result, adrift>> /\ step[t] = "finally" /\ step'[t] = "decide"
        /\ \A u \in Threads : u # t => step'[u] = step[u]
    BY <1>6 DEF Finally, TaskTypeOK
  <2>2. /\ UNCHANGED <<quarantine, todo>>
        /\ \A u \in Threads : u # t => pc'[u] = pc[u] /\ cooling'[u] = cooling[u]
    BY <1>0, <1>6 DEF Finally, Release, lockVars, TypeOK
  <2>3. CASE t = o /\ Cooling(x, r)
    <3>1. x = Current(o) /\ result[o] = "timeout"
      BY <2>1, <2>3 DEF Cooling
    <3>2. Release(o, Q)
      BY <1>0, <1>6, <2>3, <3>1 DEF Finally
    <3>3. Q > 0
      BY <1>0, <2>1 DEF NotAdrift
    <3>4. pc'[o] = "release" /\ cooling'[o] = Q
      BY <1>0, <3>2, <3>3 DEF Release, TypeOK
    <3>5. Q >= Q - adrift'[x]
      BY <1>0, <2>1 DEF NotAdrift
    <3>6. x = Current(o)'
      BY <2>1, <3>1 DEF Current
    <3> QED
      BY <2>1, <2>3, <3>4, <3>5, <3>6 DEF Goal, Cooling
  <2>4. CASE ~Cooling(x, r)
    BY <1>3, <2>1, <2>2, <2>4
  <2>5. CASE t # o
    BY <1>0, <1>2, <2>1, <2>2, <2>5
  <2> QED
    BY <2>3, <2>4, <2>5
<1>7. ASSUME NEW t \in Threads, Decide(t) PROVE Goal
  <2>1. /\ UNCHANGED <<quarantine, pc, todo, cooling, adrift, result>>
        /\ step[t] = "decide" /\ pc[t] = "idle"
        /\ \A u \in Threads : u # t => step'[u] = step[u] /\ attempt'[u] = attempt[u]
    BY <1>7 DEF Decide, RetryOrFinish, lockVars, TaskTypeOK
  <2>2. CASE t = o
    BY <1>3, <2>1, <2>2 DEF Cooling
  <2>3. CASE t # o
    BY <1>0, <1>2, <2>1, <2>3
  <2> QED
    BY <2>2, <2>3
<1>8. ASSUME NEW t \in Threads, InLocks(t) PROVE Goal
  <2>1. UNCHANGED <<step, attempt, result, adrift>> /\ Internal(t)
    BY <1>8 DEF InLocks, taskVars
  <2>2. CASE Sample(t) \/ Lock(t) \/ Pass(t) \/ Block(t) \/ Wake(t) \/ Claim(t)
    <3>1. pc[t] \in Asking
      BY <2>2 DEF Sample, Lock, TakeMutex, Pass, Block, Wake, Claim, Asking
    <3>2. quarantine' = quarantine
      BY <2>2 DEF Sample, Lock, TakeMutex, Pass, Block, Wake, Claim
    <3>3. ASSUME NEW u \in Threads, u # t
          PROVE  pc'[u] = pc[u] /\ todo'[u] = todo[u] /\ cooling'[u] = cooling[u]
      <4>1. CASE Claim(t)
        <5>1. PICK s \in Resources : LoopStep(t, s, "holding", wants[t])
          BY <4>1 DEF Claim
        <5> QED
          BY <1>0, <3>3, <5>1 DEF LoopStep, Forget, TypeOK
      <4>2. CASE Block(t)
        BY <1>0, <3>3, <4>2 DEF Block, Forget, TypeOK
      <4> QED
        BY <1>0, <2>2, <3>3, <4>1, <4>2 DEF Sample, Lock, TakeMutex, Pass, Wake, TypeOK
    <3>4. CASE t = o
      <4>1. ~Cooling(x, r)
        BY <1>0, <3>1, <3>4 DEF Cooling, PlaceInv, Asking
      <4> QED
        BY <1>3, <2>1, <3>2, <4>1
    <3>5. CASE t # o
      BY <1>0, <1>2, <2>1, <3>2, <3>3, <3>5
    <3> QED
      BY <3>4, <3>5
  <2>3. CASE LockToRelease(t)
    <3>1. /\ UNCHANGED <<quarantine, cooling>> /\ pc[t] = "release" /\ pc'[t] = "unset"
          /\ todo'[t] = wants[t]
          /\ \A u \in Threads : u # t => pc'[u] = pc[u] /\ todo'[u] = todo[u]
      BY <1>0, <2>3 DEF LockToRelease, TakeMutex, TypeOK
    <3>2. CASE t = o
      <4>1. r \in todo'[o]
        BY <1>0, <3>1, <3>2 DEF PlaceInv
      <4>2. ASSUME Cooling(x, r) PROVE Cooling(x, r)'
        <5>1. step[o] = "decide"
          BY <1>0, <3>1, <3>2, <4>2 DEF Cooling, PlaceInv
        <5> QED
          BY <2>1, <3>1, <3>2, <4>1, <4>2, <5>1 DEF Cooling, Current
      <4> QED
        BY <1>3, <2>1, <3>1, <4>2 DEF Goal
    <3>3. CASE t # o
      BY <1>0, <1>2, <2>1, <3>1, <3>3
    <3> QED
      BY <3>2, <3>3
  <2>4. CASE Unset(t)
    <3>1. PICK s \in Resources :
            /\ IsNext(s, t)
            /\ IF Locked(t, s)
               THEN UNCHANGED table
               ELSE /\ owner' = [owner EXCEPT ![s] = NoOwner]
                    /\ quarantine' = [quarantine EXCEPT ![s] = cooling[t]]
            /\ LoopStep(t, s, "idle", {})
      BY <2>4 DEF Unset
    <3>2. pc[t] = "unset" /\ s \in todo[t]
      BY <2>4, <3>1 DEF Unset, IsNext
    <3>3. owner[s] = TaskOf[t] /\ quarantine[s] <= 0
      BY <3>2, LocksOwned
    <3>4. ~Locked(t, s)
      BY <3>3 DEF Locked
    <3>5. quarantine' = [quarantine EXCEPT ![s] = cooling[t]]
      BY <3>1, <3>4
    <3>6. /\ todo' = [todo EXCEPT ![t] = @ \ {s}]
          /\ \A u \in Threads : u # t => pc'[u] = pc[u] /\ cooling'[u] = cooling[u]
          /\ todo[t] # {s} => pc' = pc /\ cooling' = cooling
      BY <1>0, <3>1 DEF LoopStep, Forget, TypeOK
    <3>7. CASE s # r
      <4>1. quarantine'[r] = quarantine[r]
        BY <1>0, <3>5, <3>7 DEF TypeOK
      <4>2. CASE t # o
        <5>1. todo'[o] = todo[o]
          BY <1>0, <3>6, <4>2 DEF TypeOK
        <5> QED
          BY <1>0, <1>2, <2>1, <3>6, <4>1, <4>2, <5>1
      <4>3. CASE t = o /\ Cooling(x, r)
        <5>1. step[o] = "decide" /\ r \in todo[o] /\ x = Current(o) /\ cooling[o] >= Q - adrift[x]
          BY <1>0, <3>2, <4>3 DEF Cooling, PlaceInv
        <5>2. r \in todo'[o] /\ pc'[o] = "unset" /\ cooling'[o] = cooling[o]
          BY <1>0, <3>2, <3>6, <3>7, <4>3, <5>1 DEF TypeOK
        <5> QED
          BY <2>1, <5>1, <5>2 DEF Goal, Cooling, Current
      <4> QED
        BY <1>3, <2>1, <4>1, <4>2, <4>3
    <3>8. CASE s = r
      <4>1. ~Shielded
        BY <1>0, <2>1, <3>3, <3>8
      <4>2. Cooling(x, r)
        BY <1>1, <2>1, <4>1
      <4>3. owner[r] = TaskOf[o]
        BY <1>0, <4>2, LocksOwned DEF Cooling
      <4>4. t = o
        BY <1>0, <3>3, <3>8, <4>3 DEF DistinctTasks
      <4>5. cooling[o] >= Q - adrift[x]
        BY <1>0, <3>2, <4>2, <4>4 DEF Cooling, PlaceInv
      <4>6. quarantine'[r] = cooling[o]
        BY <1>0, <3>5, <3>8, <4>4 DEF TypeOK
      <4> QED
        BY <2>1, <4>5, <4>6 DEF Goal
    <3> QED
      BY <3>7, <3>8
  <2> QED
    BY <2>1, <2>2, <2>3, <2>4 DEF Internal
<1>9. CASE TaskTick
  <2>1. Tick /\ UNCHANGED <<step, attempt, result, pc, todo>>
    BY <1>9 DEF TaskTick, Tick
  <2>2. adrift'[x] = adrift[x] + 1 /\ adrift[x] # NotAdrift /\ adrift[x] < Q
    <3>1. adrift'[x] = IF adrift[x] = NotAdrift THEN NotAdrift ELSE Shorter(adrift[x] + 1, MaxQuarantine)
      BY <1>9 DEF TaskTick
    <3> QED
      BY <1>0, <3>1 DEF Shorter, NotAdrift
  <2>3. /\ quarantine'[r] = Sooner(quarantine[r], Over)
        /\ cooling'[o] = Sooner(cooling[o], Over)
    BY <1>0, <2>1 DEF Tick
  <2>4. ASSUME NEW q \in Int, q >= Q - adrift[x] PROVE Sooner(q, Over) >= Q - adrift'[x]
    BY <1>0, <2>2, <2>4, LockAssumption DEF Sooner, Over, NotAdrift
  <2>5. CASE Shielded
    BY <1>0, <2>3, <2>4, <2>5 DEF Goal
  <2>6. CASE Cooling(x, r)
    <3>1. cooling[o] >= Q - adrift[x] => cooling'[o] >= Q - adrift'[x]
      BY <1>0, <2>3, <2>4
    <3> QED
      BY <2>1, <2>6, <3>1 DEF Goal, Cooling, Current
  <2> QED
    BY <1>1, <2>2, <2>5, <2>6
<1>10. ASSUME NEW y \in Attempts, BodyEnds(y) \/ WorkerExits(y) PROVE Goal
  <2>1. /\ UNCHANGED <<lockVars, step, attempt, result>>
        /\ adrift' = [adrift EXCEPT ![y] = NotAdrift] \/ adrift' = adrift
    BY <1>10 DEF BodyEnds, WorkerExits
  <2>2. adrift'[x] = adrift[x]
    BY <2>1 DEF TaskTypeOK
  <2> QED
    BY <1>2, <2>1, <2>2 DEF lockVars
<1>11. CASE UNCHANGED vars
  BY <1>2, <1>11 DEF vars, taskVars, lockVars
<1> QED
  BY <1>4, <1>5, <1>6, <1>7, <1>8, <1>9, <1>10, <1>11 DEF TaskNext, Work

(* As long as there is one manager, the locks keep their invariant and the   *)
(* bodies given up their shield.                                             *)
OneManagerInv == Single => IInv /\ ZombieInv

LEMMA OneManagerInit == TaskInit => ManagersInv /\ OneManagerInv
<1> SUFFICES ASSUME TaskInit PROVE ManagersInv /\ OneManagerInv
  OBVIOUS
<1> USE LockAssumption DEF TaskInit, LockInit
<1>1. IsFiniteSet(made)
  BY FS_EmptySet
<1>2. ManagersInv
  BY <1>1 DEF ManagersInv
<1>3. TypeOK
  BY TaskTypeInit DEF TaskTypeOK
<1>4. OneManagerInCalls /\ MutexInv
  BY DEF OneManagerInCalls, MutexInv, InMutex
<1>5. OwnerInv
  BY DEF OwnerInv, Owned, Holds
<1>6. ScanInv /\ ClaimInv /\ NoOwnerInQuarantine
  BY DEF ScanInv, ClaimInv, NoOwnerInQuarantine
<1>7. ZombieInv
  <2>1. \A x \in Attempts : adrift[x] = NotAdrift
    OBVIOUS
  <2> QED
    BY <2>1 DEF ZombieInv
<1> QED
  BY <1>2, <1>3, <1>4, <1>5, <1>6, <1>7 DEF IInv, OneManagerInv

LEMMA OneManagerStep ==
    ASSUME DistinctTasks, TaskTypeOK, PlaceInv, ManagersInv, OneManagerInv, [TaskNext]_vars
    PROVE  ManagersInv' /\ OneManagerInv'
<1>1. ManagersInv' /\ made \subseteq made'
  BY ManagersStep
<1>2. ASSUME Single' PROVE IInv' /\ ZombieInv'
  <2>1. Single
    BY <1>1, <1>2 DEF Single
  <2>2. IInv /\ ZombieInv
    BY <2>1 DEF OneManagerInv
  <2> QED
    BY <1>2, <2>2, LocksStep, ZombieStep
<1> QED
  BY <1>1, <1>2 DEF OneManagerInv

LEMMA OneManagerInvariance ==
    ASSUME DistinctTasks
    PROVE  TaskSpec => [](TaskTypeOK /\ PlaceInv /\ ManagersInv /\ OneManagerInv)
<1>1. TaskTypeOK /\ PlaceInv /\ ManagersInv /\ OneManagerInv /\ [TaskNext]_vars
      => ManagersInv' /\ OneManagerInv'
  BY OneManagerStep
<1> QED
  BY <1>1, OneManagerInit, TypedAndPlaced, PTL DEF TaskSpec

(* Two tasks that need a common resource never run their bodies at once, if  *)
(* the first threads did not race through _resource_lock_manager.            *)
THEOREM Serialisation == ASSUME DistinctTasks PROVE TaskSpec => []SerialisedByOneManager
<1>1. TaskTypeOK /\ PlaceInv /\ ManagersInv /\ OneManagerInv => SerialisedByOneManager
  <2> SUFFICES ASSUME TaskTypeOK, PlaceInv, ManagersInv, OneManagerInv, OneManagerMade,
                      NEW t \in Threads, NEW u \in Threads, t # u, InBody(t), InBody(u),
                      NEW r \in Needs[t] \cap Needs[u]
               PROVE  FALSE
    BY DEF SerialisedByOneManager, Serialised
  <2>1. IInv /\ r \in Resources
    BY AtMostOne, TaskAssumption DEF OneManagerInv
  <2>2. owner[r] = TaskOf[t] /\ owner[r] = TaskOf[u]
    BY <2>1, LocksOwned DEF InBody
  <2> QED
    BY <2>2 DEF DistinctTasks
<1> QED
  BY <1>1, OneManagerInvariance, PTL

(* Whoever runs a body over a resource of a body given up earlier runs it    *)
(* after the whole quarantine.                                               *)
THEOREM ZombiesShielded == ASSUME DistinctTasks PROVE TaskSpec => []QuarantineShieldsZombies
<1>1. TaskTypeOK /\ PlaceInv /\ ManagersInv /\ OneManagerInv => QuarantineShieldsZombies
  <2> SUFFICES ASSUME TaskTypeOK, PlaceInv, ManagersInv, OneManagerInv, OneManagerMade,
                      NEW x \in Attempts, NEW u \in Threads, adrift[x] # NotAdrift, InBody(u),
                      NEW r \in Needs[x[1]] \cap Needs[u],
                      ~(adrift[x] >= QuarantineOf[x[1]])
               PROVE  FALSE
    BY DEF QuarantineShieldsZombies
  <2>1. IInv /\ ZombieInv /\ r \in Resources /\ x[1] \in Threads
    BY AtMostOne, AttemptPairs, TaskAssumption DEF OneManagerInv
  <2>2. /\ QuarantineOf[x[1]] \in Int /\ adrift[x] \in Int /\ quarantine[r] \in Int
    BY <2>1, TaskAssumption, LockAssumption DEF TaskTypeOK, TypeOK, NotAdrift, Over
  <2>3. owner[r] = TaskOf[u] /\ quarantine[r] <= 0
    BY <2>1, LocksOwned DEF InBody
  <2>4. Cooling(x, r)
    BY <2>1, <2>2, <2>3 DEF ZombieInv
  <2>5. owner[r] = TaskOf[x[1]]
    BY <2>1, <2>4, LocksOwned DEF Cooling
  <2>6. u = x[1]
    BY <2>1, <2>3, <2>5 DEF DistinctTasks
  <2> QED
    BY <2>4, <2>6 DEF Cooling, InBody
<1> QED
  BY <1>1, OneManagerInvariance, PTL
====
