---- MODULE ResourceLocksProofs ----
(***************************************************************************)
(* Proofs about ResourceLocks, for any threads, resources and bounds: its  *)
(* types, its safety properties, and that it implements LockTable.         *)
(***************************************************************************)
EXTENDS ResourceLocks, TLAPS

(* The variables that a returning call touches keep their types. *)
LEMMA ForgetTyped ==
    ASSUME TypeOK, NEW t \in Threads, NEW R \in SUBSET Resources, Forget(t, R)
    PROVE  /\ wants' \in [Threads -> SUBSET Resources]
           /\ left' \in [Threads -> NoDeadline .. MaxTimeout]
           /\ budget' \in [Threads -> NoDeadline .. MaxTimeout]
           /\ lag' \in [Threads -> 0 .. MaxLag]
           /\ cooling' \in [Threads -> Over .. MaxQuarantine]
  BY LockAssumption DEF TypeOK, Forget, NoDeadline, Over

LEMMA LoopStepTyped ==
    ASSUME TypeOK, NEW t \in Threads, NEW r \in Resources,
           NEW done \in Places, NEW R \in SUBSET Resources,
           LoopStep(t, r, done, R),
           owner' \in [Resources -> TaskIds \cup {NoOwner}],
           quarantine' \in [Resources -> Over .. MaxQuarantine]
    PROVE  TypeOK'
<1>1. CASE todo[t] = {r}
  <2>1. Forget(t, R)
    BY <1>1 DEF LoopStep
  <2>2. /\ mutex' \in [Managers -> Threads \cup {Free}]
        /\ manager' \in [Threads -> Managers]
        /\ pc' \in [Threads -> Places]
        /\ todo' \in [Threads -> SUBSET Resources]
        /\ nap' \in [Threads -> 0 .. MaxQuarantine + MaxLag]
    BY <1>1 DEF LoopStep, TypeOK
  <2> QED
    BY <2>1, <2>2, ForgetTyped DEF TypeOK
<1>2. CASE todo[t] # {r}
  BY <1>2 DEF LoopStep, TypeOK
<1> QED
  BY <1>1, <1>2

LEMMA TypeInit == Init => TypeOK
  BY LockAssumption DEF Init, LockInit, TypeOK, Places, NoDeadline, Over

LEMMA TypeStep == TypeOK /\ [Next]_lockVars => TypeOK'
<1> USE LockAssumption DEF NoDeadline, Over
<1> SUFFICES ASSUME TypeOK, [Next]_lockVars PROVE TypeOK'
  OBVIOUS
<1> USE DEF TypeOK, Places, table, callVars
<1>1. ASSUME NEW t \in Threads, NEW R \in (SUBSET Resources) \ {{}},
             NEW timeout \in NoDeadline .. MaxTimeout, Acquire(t, R, timeout)
      PROVE  TypeOK'
  BY <1>1 DEF Acquire
<1>2. ASSUME NEW t \in Threads, NEW seconds \in 0 .. MaxQuarantine,
             Release(t, seconds)
      PROVE  TypeOK'
  BY <1>2 DEF Release
<1>3. ASSUME NEW t \in Threads, Internal(t) PROVE TypeOK'
  <2>1. CASE Sample(t)
    BY <2>1 DEF Sample
  <2>2. CASE Lock(t)
    BY <2>2 DEF Lock, TakeMutex
  <2>3. CASE Pass(t)
    BY <2>3 DEF Pass
  <2>4. CASE Block(t)
    <3>1. PICK r \in Resources : Block(t)!2!(r)
      BY <2>4 DEF Block
    <3>2. SleepTime(t, r) \in 0 .. MaxQuarantine + MaxLag \/ budget[t] = 0
      BY DEF SleepTime, Quarantined, Shorter
    <3>3. /\ mutex' \in [Managers -> Threads \cup {Free}]
          /\ todo' \in [Threads -> SUBSET Resources]
          /\ UNCHANGED <<table, manager>>
      BY <2>4 DEF Block
    <3>4. CASE budget[t] = 0
      <4>1. Forget(t, {}) /\ pc' \in [Threads -> Places] /\ UNCHANGED nap
        BY <3>1, <3>4
      <4> QED
        BY <3>3, <4>1, ForgetTyped
    <3>5. CASE budget[t] # 0
      <4>1. /\ pc' \in [Threads -> Places]
            /\ nap' = [nap EXCEPT ![t] = SleepTime(t, r)]
            /\ UNCHANGED <<wants, left, budget, lag, cooling>>
        BY <3>1, <3>5
      <4>2. nap' \in [Threads -> 0 .. MaxQuarantine + MaxLag]
        BY <3>2, <3>5, <4>1
      <4> QED
        BY <3>3, <4>1, <4>2
    <3> QED
      BY <3>4, <3>5
  <2>5. CASE Wake(t)
    BY <2>5 DEF Wake
  <2>6. CASE Claim(t)
    <3>1. PICK r \in Resources :
            /\ owner' = [owner EXCEPT ![r] = TaskOf[t]]
            /\ LoopStep(t, r, "holding", wants[t])
      BY <2>6 DEF Claim
    <3>2. /\ owner' \in [Resources -> TaskIds \cup {NoOwner}]
          /\ quarantine' \in [Resources -> Over .. MaxQuarantine]
      BY <2>6, <3>1 DEF Claim
    <3> QED
      BY <3>1, <3>2, LoopStepTyped
  <2>7. CASE LockToRelease(t)
    BY <2>7 DEF LockToRelease, TakeMutex
  <2>8. CASE Unset(t)
    <3>1. PICK r \in Resources :
            /\ IF Locked(t, r)
               THEN UNCHANGED table
               ELSE /\ owner' = [owner EXCEPT ![r] = NoOwner]
                    /\ quarantine' = [quarantine EXCEPT ![r] = cooling[t]]
            /\ LoopStep(t, r, "idle", {})
      BY <2>8 DEF Unset
    <3>2. /\ owner' \in [Resources -> TaskIds \cup {NoOwner}]
          /\ quarantine' \in [Resources -> Over .. MaxQuarantine]
      BY <3>1
    <3>3. LoopStep(t, r, "idle", {})
      BY <3>1
    <3>4. "idle" \in Places /\ {} \in SUBSET Resources
      OBVIOUS
    <3> HIDE DEF TypeOK, Places, NoDeadline, Over
    <3> QED
      BY <3>2, <3>3, <3>4, LoopStepTyped
  <2> QED
    BY <1>3, <2>1, <2>2, <2>3, <2>4, <2>5, <2>6, <2>7, <2>8 DEF Internal
<1>4. ASSUME NEW t \in Threads, Refused(t) PROVE TypeOK'
  BY <1>4 DEF Refused
<1>5. CASE Tick
  BY <1>5 DEF Tick, Sooner
<1>6. CASE UNCHANGED lockVars
  BY <1>6 DEF lockVars
<1> QED
  BY <1>1, <1>2, <1>3, <1>4, <1>5, <1>6 DEF Next

(* Every variable of the lock manager keeps the type TypeOK gives it.  *)
THEOREM Typing == Spec => []TypeOK
  BY TypeInit, TypeStep, PTL DEF Spec

----------------------------------------------------------------------------
(* The inductive invariant.  It says what each place in the two loops has    *)
(* established, and that the table agrees with the loops resource by         *)
(* resource; mutual exclusion alone is not inductive, because it says nothing *)
(* about a thread that has scanned its resources and not yet claimed them.    *)

(* What t owns: while it claims, the part already written; while it unsets, *)
(* the part not yet erased.                                                  *)
Owned(t) ==
    IF Holds(t) THEN wants[t]
    ELSE IF pc[t] = "claim" THEN wants[t] \ todo[t]
    ELSE IF pc[t] = "unset" THEN todo[t]
    ELSE {}

(* Calls go to one manager; a thread that makes none may have another. *)
OneManagerInCalls ==
    \A t, u \in Threads : pc[t] # "idle" /\ pc[u] # "idle" => manager[t] = manager[u]

(* A mutex names the thread that is in a critical section of its manager. *)
MutexInv ==
    \A t \in Threads, m \in Managers : mutex[m] = t <=> pc[t] \in InMutex /\ manager[t] = m

OwnerInv ==
    \A t \in Threads, r \in Resources : owner[r] = TaskOf[t] <=> r \in Owned(t)

(* What the scan has seen is still true: nobody else is in the mutex. *)
ScanInv ==
    \A t \in Threads : pc[t] = "scan" =>
        /\ todo[t] \subseteq wants[t]
        /\ \A r \in wants[t] \ todo[t] : ~Quarantined(t, r) /\ ~Locked(t, r)

ClaimInv ==
    \A t \in Threads : pc[t] = "claim" =>
        /\ todo[t] \subseteq wants[t]
        /\ \A r \in wants[t] : quarantine[r] <= 0 /\ ~Locked(t, r)

IInv ==
    /\ TypeOK
    /\ OneManagerInCalls
    /\ MutexInv
    /\ OwnerInv
    /\ ScanInv
    /\ ClaimInv
    /\ NoOwnerInQuarantine

LEMMA InvInit == Init => IInv
<1> SUFFICES ASSUME Init PROVE IInv
  OBVIOUS
<1> USE LockAssumption DEF Init, LockInit
<1>1. TypeOK
  BY TypeInit
<1>2. OneManagerInCalls /\ MutexInv
  BY DEF OneManagerInCalls, MutexInv, InMutex
<1>3. OwnerInv
  BY DEF OwnerInv, Owned, Holds
<1>4. ScanInv /\ ClaimInv /\ NoOwnerInQuarantine
  BY DEF ScanInv, ClaimInv, NoOwnerInQuarantine
<1> QED
  BY <1>1, <1>2, <1>3, <1>4 DEF IInv

LEMMA OnlyOneInMutex ==
    ASSUME TypeOK, OneManagerInCalls, MutexInv, NEW t \in Threads, pc[t] \in InMutex,
           NEW u \in Threads, u # t
    PROVE  pc[u] \notin InMutex
<1> SUFFICES ASSUME pc[u] \in InMutex PROVE FALSE
  OBVIOUS
<1>1. manager[t] = manager[u] /\ manager[t] \in Managers
  BY DEF OneManagerInCalls, TypeOK, InMutex
<1>2. mutex[manager[t]] = t /\ mutex[manager[t]] = u
  BY <1>1 DEF MutexInv
<1> QED
  BY <1>2

(* A step of a loop under the mutex touches no other thread's variables. *)
LEMMA LoopStepLocal ==
    ASSUME TypeOK, NEW t \in Threads, NEW r \in Resources,
           NEW done, NEW R, LoopStep(t, r, done, R), NEW u \in Threads, u # t
    PROVE  /\ pc'[u] = pc[u] /\ todo'[u] = todo[u] /\ wants'[u] = wants[u]
           /\ lag'[u] = lag[u]
  BY DEF TypeOK, LoopStep, Forget

(* The thread that ends its loop leaves the critical section and the mutex. *)
LEMMA LoopStepKeepsMutexInv ==
    ASSUME TypeOK, MutexInv, NEW t \in Threads, NEW r \in Resources,
           NEW done, done \notin InMutex, NEW R, LoopStep(t, r, done, R),
           pc[t] \in InMutex
    PROVE  MutexInv'
<1>1. manager' = manager
  BY DEF LoopStep
<1>2. ASSUME NEW u \in Threads, NEW m \in Managers
      PROVE  mutex'[m] = u <=> pc'[u] \in InMutex /\ manager[u] = m
  <2>1. CASE todo[t] # {r}
    BY <2>1 DEF LoopStep, MutexInv
  <2>2. CASE todo[t] = {r}
    <3>1. /\ pc' = [pc EXCEPT ![t] = done]
          /\ mutex' = [mutex EXCEPT ![manager[t]] = Free]
      BY <2>2 DEF LoopStep
    <3>2. mutex[manager[t]] = t /\ manager[t] \in Managers
      BY DEF MutexInv, TypeOK
    <3> QED
      BY <3>1, <3>2, LockAssumption DEF TypeOK, MutexInv
  <2> QED
    BY <2>1, <2>2
<1> QED
  BY <1>1, <1>2 DEF MutexInv

(* No step changes which manager a thread calls. *)
LEMMA ManagersStay == [Next]_lockVars => manager' = manager
  BY DEF Next, lockVars, Internal, Acquire, Sample, Lock, LockToRelease, TakeMutex, Pass,
         Block, Wake, Claim, Unset, LoopStep, Refused, Release, Tick

(* A thread enters a critical section by taking a free mutex. *)
LEMMA AcquireKeepsMutexInv ==
    ASSUME TypeOK, MutexInv, NEW t \in Threads,
           Lock(t) \/ LockToRelease(t)
    PROVE  MutexInv'
<1>1. /\ pc[t] \notin InMutex /\ pc'[t] \in InMutex
      /\ \A u \in Threads : u # t => pc'[u] = pc[u]
      /\ mutex[manager[t]] = Free /\ mutex' = [mutex EXCEPT ![manager[t]] = t]
      /\ manager' = manager
  BY DEF Lock, LockToRelease, TakeMutex, InMutex, TypeOK
<1>2. \A m \in Managers : mutex[m] # t
  BY <1>1 DEF MutexInv
<1>3. \A u \in Threads : u # Free
  BY LockAssumption
<1> QED
  BY <1>1, <1>2, <1>3 DEF MutexInv, TypeOK

(* The invariant survives every step of a thread and of the clock. *)
LEMMA InvStep ==
    ASSUME DistinctTasks, IInv, [Next]_lockVars, OneManagerInCalls'
    PROVE  IInv'
<1> USE LockAssumption
<1>1. TypeOK /\ TypeOK'
  BY TypeStep DEF IInv
<1> USE DEF IInv, table, callVars
<1>2. ASSUME NEW t \in Threads, NEW R \in (SUBSET Resources) \ {{}},
             NEW timeout \in NoDeadline .. MaxTimeout, Acquire(t, R, timeout)
      PROVE  IInv'
  <2> USE <1>2 DEF Acquire
  <2>1. MutexInv'
    BY <1>1 DEF MutexInv, InMutex, TypeOK
  <2>2. OwnerInv'
    BY <1>1 DEF OwnerInv, Owned, Holds, TypeOK
  <2>3. ScanInv' /\ ClaimInv'
    BY <1>1 DEF ScanInv, ClaimInv, Quarantined, Locked, TypeOK
  <2>4. NoOwnerInQuarantine'
    BY DEF NoOwnerInQuarantine
  <2> QED
    BY <1>1, <2>1, <2>2, <2>3, <2>4
<1>3. ASSUME NEW t \in Threads, NEW seconds \in 0 .. MaxQuarantine,
             Release(t, seconds)
      PROVE  IInv'
  <2> USE <1>3 DEF Release
  <2>1. MutexInv'
    BY <1>1 DEF MutexInv, InMutex, TypeOK
  <2>2. OwnerInv'
    BY <1>1 DEF OwnerInv, Owned, Holds, TypeOK
  <2>3. ScanInv' /\ ClaimInv'
    BY <1>1 DEF ScanInv, ClaimInv, Quarantined, Locked, TypeOK
  <2>4. NoOwnerInQuarantine'
    BY DEF NoOwnerInQuarantine
  <2> QED
    BY <1>1, <2>1, <2>2, <2>3, <2>4
<1>4. ASSUME NEW t \in Threads, Sample(t) \/ Wake(t) \/ Refused(t) PROVE IInv'
  <2> USE <1>4 DEF Sample, Wake, Refused
  <2>1. MutexInv'
    BY <1>1 DEF MutexInv, InMutex, TypeOK
  <2>2. OwnerInv'
    BY <1>1 DEF OwnerInv, Owned, Holds, TypeOK
  <2>3. ScanInv' /\ ClaimInv'
    BY <1>1 DEF ScanInv, ClaimInv, Quarantined, Locked, TypeOK
  <2>4. NoOwnerInQuarantine'
    BY DEF NoOwnerInQuarantine
  <2> QED
    BY <1>1, <2>1, <2>2, <2>3, <2>4
<1>5. ASSUME NEW t \in Threads, Lock(t) \/ LockToRelease(t) PROVE IInv'
  <2> USE <1>5 DEF Lock, LockToRelease, TakeMutex
  <2>1. MutexInv'
    BY <1>1, AcquireKeepsMutexInv
  <2>2. OwnerInv'
    BY <1>1 DEF OwnerInv, Owned, Holds, TypeOK
  <2>3. ScanInv' /\ ClaimInv'
    <3>1. pc'[t] \in {"scan", "unset"} /\ todo'[t] = wants[t] /\ wants' = wants
      BY <1>1 DEF TypeOK
    <3>2. \A u \in Threads : u # t => pc'[u] = pc[u] /\ todo'[u] = todo[u]
      BY <1>1 DEF TypeOK
    <3> QED
      BY <1>1, <3>1, <3>2 DEF ScanInv, ClaimInv, Quarantined, Locked
  <2>4. NoOwnerInQuarantine'
    BY DEF NoOwnerInQuarantine
  <2> QED
    BY <1>1, <2>1, <2>2, <2>3, <2>4
<1>6. ASSUME NEW t \in Threads, Pass(t) PROVE IInv'
  <2>1. PICK r \in Resources :
          /\ IsNext(r, t) /\ ~Quarantined(t, r) /\ ~Locked(t, r)
          /\ IF todo[t] = {r}
             THEN /\ pc' = [pc EXCEPT ![t] = "claim"]
                  /\ todo' = [todo EXCEPT ![t] = wants[t]]
             ELSE /\ todo' = [todo EXCEPT ![t] = @ \ {r}]
                  /\ UNCHANGED pc
    BY <1>6 DEF Pass
  <2>2. /\ pc[t] = "scan"
        /\ UNCHANGED <<owner, quarantine, mutex, manager, wants, lag>>
    BY <1>6 DEF Pass
  <2>3. CASE todo[t] = {r}
    <3>1. /\ pc' = [pc EXCEPT ![t] = "claim"]
          /\ todo' = [todo EXCEPT ![t] = wants[t]]
      BY <2>1, <2>3
    <3>2. MutexInv'
      BY <1>1, <2>2, <3>1 DEF MutexInv, InMutex, TypeOK
    <3>3. OwnerInv'
      BY <1>1, <2>2, <3>1 DEF OwnerInv, Owned, Holds, TypeOK
    <3>4. ScanInv'
      BY <1>1, <2>2, <3>1 DEF ScanInv, Quarantined, Locked, TypeOK
    <3>5. \A s \in wants[t] : quarantine[s] <= 0 /\ ~Locked(t, s)
      BY <1>1, <2>1, <2>2, <2>3 DEF ScanInv, Quarantined, TypeOK, Over
    <3>6. ClaimInv'
      BY <1>1, <2>2, <3>1, <3>5 DEF ClaimInv, Locked, TypeOK
    <3>7. NoOwnerInQuarantine'
      BY <2>2 DEF NoOwnerInQuarantine
    <3> QED
      BY <1>1, <3>2, <3>3, <3>4, <3>6, <3>7
  <2>4. CASE todo[t] # {r}
    <3>1. todo' = [todo EXCEPT ![t] = @ \ {r}] /\ UNCHANGED pc
      BY <2>1, <2>4
    <3>2. MutexInv'
      BY <2>2, <3>1 DEF MutexInv
    <3>3. OwnerInv'
      BY <1>1, <2>2, <3>1 DEF OwnerInv, Owned, Holds, TypeOK
    <3>4. ScanInv'
      BY <1>1, <2>1, <2>2, <3>1 DEF ScanInv, Quarantined, Locked, TypeOK
    <3>5. ClaimInv'
      BY <1>1, <2>2, <3>1 DEF ClaimInv, Locked, TypeOK
    <3>6. NoOwnerInQuarantine'
      BY <2>2 DEF NoOwnerInQuarantine
    <3> QED
      BY <1>1, <3>2, <3>3, <3>4, <3>5, <3>6
  <2> QED
    BY <2>3, <2>4
<1>7. ASSUME NEW t \in Threads, Block(t) PROVE IInv'
  <2>1. /\ pc[t] = "scan"
        /\ pc' = [pc EXCEPT ![t] = "refused"] \/ pc' = [pc EXCEPT ![t] = "sleep"]
        /\ mutex' = [mutex EXCEPT ![manager[t]] = Free]
        /\ UNCHANGED <<owner, quarantine, manager>>
    BY <1>7 DEF Block
  <2>2. MutexInv'
    <3>1. mutex[manager[t]] = t /\ manager[t] \in Managers
      BY <1>1, <2>1 DEF MutexInv, InMutex, TypeOK
    <3> QED
      BY <1>1, <2>1, <3>1 DEF MutexInv, InMutex, TypeOK
  <2>4. OwnerInv'
    <3>1. \A u \in Threads : u # t =>
             pc'[u] = pc[u] /\ todo'[u] = todo[u] /\ wants'[u] = wants[u]
      BY <1>1, <1>7 DEF Block, Forget, TypeOK
    <3>2. Owned(t) = {} /\ Owned(t)' = {}
      BY <1>1, <2>1 DEF Owned, Holds, TypeOK
    <3> QED
      BY <2>1, <3>1, <3>2 DEF OwnerInv, Owned, Holds
  <2>5. ScanInv' /\ ClaimInv'
    <3>1. \A u \in Threads : u # t =>
             /\ pc'[u] = pc[u] /\ todo'[u] = todo[u] /\ wants'[u] = wants[u]
             /\ lag'[u] = lag[u]
      BY <1>1, <1>7 DEF Block, Forget, TypeOK
    <3>2. pc'[t] \notin {"scan", "claim"}
      BY <1>1, <2>1 DEF TypeOK
    <3> QED
      BY <2>1, <3>1, <3>2 DEF ScanInv, ClaimInv, Quarantined, Locked
  <2>6. NoOwnerInQuarantine'
    BY <2>1 DEF NoOwnerInQuarantine
  <2> QED
    BY <1>1, <2>2, <2>4, <2>5, <2>6
<1>8. ASSUME NEW t \in Threads, Claim(t) PROVE IInv'
  <2>1. PICK r \in Resources :
          /\ IsNext(r, t)
          /\ owner' = [owner EXCEPT ![r] = TaskOf[t]]
          /\ LoopStep(t, r, "holding", wants[t])
    BY <1>8 DEF Claim
  <2>2. pc[t] = "claim" /\ r \in todo[t] /\ UNCHANGED quarantine
    BY <1>8, <2>1 DEF Claim, IsNext
  <2>3. MutexInv'
    BY <1>1, <2>1, <2>2, LoopStepKeepsMutexInv DEF InMutex
  <2>4. \A u \in Threads : u # t => owner[r] # TaskOf[u] /\ TaskOf[t] # TaskOf[u]
    BY <1>1, <2>2 DEF ClaimInv, Locked, DistinctTasks, TypeOK
  <2>5. OwnerInv'
    <3>1. ASSUME NEW u \in Threads, u # t PROVE Owned(u)' = Owned(u)
      BY <1>1, <2>1, <3>1, LoopStepLocal DEF Owned, Holds
    <3>2. Owned(t) = wants[t] \ todo[t] /\ Owned(t)' = Owned(t) \cup {r}
      BY <1>1, <2>1, <2>2 DEF Owned, Holds, LoopStep, Forget, ClaimInv, TypeOK
    <3> QED
      BY <1>1, <2>1, <2>4, <3>1, <3>2 DEF OwnerInv, TypeOK
  <2>6. ScanInv' /\ ClaimInv'
    <3>1. \A u \in Threads : u # t => pc'[u] \notin {"scan", "claim"}
      BY <1>1, <2>1, <2>2, OnlyOneInMutex, LoopStepLocal DEF InMutex
    <3>2. pc'[t] # "scan"
      BY <1>1, <2>1, <2>2 DEF LoopStep, TypeOK
    <3>3. pc'[t] = "claim" => wants' = wants /\ todo'[t] = todo[t] \ {r}
      BY <1>1, <2>1, <2>2 DEF LoopStep, TypeOK
    <3>4. \A s \in wants[t] : owner'[s] \in {NoOwner, TaskOf[t]}
      BY <1>1, <2>1, <2>2 DEF ClaimInv, Locked, TypeOK
    <3> QED
      BY <1>1, <2>2, <3>1, <3>2, <3>3, <3>4 DEF ScanInv, ClaimInv, Locked
  <2>7. NoOwnerInQuarantine'
    BY <1>1, <1>8 DEF Claim, ClaimInv, IsNext, NoOwnerInQuarantine, TypeOK
  <2> QED
    BY <1>1, <2>3, <2>5, <2>6, <2>7
<1>9. ASSUME NEW t \in Threads, Unset(t) PROVE IInv'
  <2>1. PICK r \in Resources :
          /\ IsNext(r, t)
          /\ IF Locked(t, r)
             THEN UNCHANGED table
             ELSE /\ owner' = [owner EXCEPT ![r] = NoOwner]
                  /\ quarantine' = [quarantine EXCEPT ![r] = cooling[t]]
          /\ LoopStep(t, r, "idle", {})
    BY <1>9 DEF Unset
  <2>2. pc[t] = "unset" /\ r \in todo[t]
    BY <1>9, <2>1 DEF Unset, IsNext
  <2>3. owner[r] = TaskOf[t]
    BY <2>2 DEF OwnerInv, Owned, Holds
  <2>4. /\ owner' = [owner EXCEPT ![r] = NoOwner]
        /\ quarantine' = [quarantine EXCEPT ![r] = cooling[t]]
    BY <2>1, <2>3 DEF Locked
  <2>5. MutexInv'
    BY <1>1, <2>1, <2>2, LoopStepKeepsMutexInv DEF InMutex
  <2>6. OwnerInv'
    <3>1. ASSUME NEW u \in Threads, u # t
          PROVE  Owned(u)' = Owned(u) /\ r \notin Owned(u)
      <4>1. TaskOf[u] # TaskOf[t]
        BY <3>1 DEF DistinctTasks
      <4> QED
        BY <1>1, <2>1, <2>3, <3>1, <4>1, LoopStepLocal DEF Owned, Holds, OwnerInv
    <3>2. Owned(t) = todo[t] /\ Owned(t)' = todo[t] \ {r}
      BY <1>1, <2>1, <2>2 DEF Owned, Holds, LoopStep, TypeOK
    <3>3. \A u \in Threads : TaskOf[u] # NoOwner
      OBVIOUS
    <3> QED
      BY <1>1, <2>4, <3>1, <3>2, <3>3 DEF OwnerInv, TypeOK
  <2>7. ScanInv' /\ ClaimInv'
    <3>1. \A u \in Threads : u # t => pc'[u] \notin {"scan", "claim"}
      BY <1>1, <2>1, <2>2, OnlyOneInMutex, LoopStepLocal DEF InMutex
    <3>2. pc'[t] \notin {"scan", "claim"}
      BY <1>1, <2>1, <2>2 DEF LoopStep, TypeOK
    <3> QED
      BY <3>1, <3>2 DEF ScanInv, ClaimInv
  <2>8. NoOwnerInQuarantine'
    BY <1>1, <2>4 DEF NoOwnerInQuarantine, TypeOK
  <2> QED
    BY <1>1, <2>5, <2>6, <2>7, <2>8
<1>10. CASE Tick
  <2>1. /\ UNCHANGED <<owner, mutex, manager, pc, wants, todo>>
        /\ \A r \in Resources : quarantine'[r] = Sooner(quarantine[r], Over)
    BY <1>10 DEF Tick
  <2>2. MutexInv'
    BY <2>1 DEF MutexInv
  <2>3. OwnerInv'
    BY <2>1 DEF OwnerInv, Owned, Holds
  <2>4. ScanInv'
    <3> SUFFICES ASSUME NEW t \in Threads, pc[t] = "scan",
                        NEW r \in wants[t] \ todo[t]
                 PROVE  quarantine'[r] + lag'[t] <= 0
      BY <1>1, <2>1 DEF ScanInv, Quarantined, Locked, TypeOK
    <3>1. lag[t] < MaxLag /\ lag'[t] = lag[t] + 1
      BY <1>10 DEF Tick
    <3>2. r \in Resources /\ ~(quarantine[r] + lag[t] > 0)
      BY <1>1 DEF ScanInv, Quarantined, TypeOK
    <3> QED
      BY <1>1, <2>1, <3>1, <3>2 DEF Sooner, Over, TypeOK
  <2>5. \A r \in Resources : quarantine[r] <= 0 => quarantine'[r] <= 0
    BY <1>1, <2>1 DEF Sooner, Over, TypeOK
  <2>6. ClaimInv'
    BY <1>1, <2>1, <2>5 DEF ClaimInv, Locked, TypeOK
  <2>7. NoOwnerInQuarantine'
    BY <2>1, <2>5 DEF NoOwnerInQuarantine
  <2> QED
    BY <1>1, <2>2, <2>3, <2>4, <2>6, <2>7
<1>11. CASE UNCHANGED lockVars
  BY <1>1, <1>11 DEF lockVars, MutexInv, OwnerInv, Owned, Holds,
       ScanInv, ClaimInv, Quarantined, Locked, NoOwnerInQuarantine
<1> HIDE DEF IInv, table, callVars
<1>12. ASSUME NEW t \in Threads, Internal(t) PROVE IInv'
  BY <1>4, <1>5, <1>6, <1>7, <1>8, <1>9, <1>12 DEF Internal
<1>13. CASE Next
  BY <1>2, <1>3, <1>4, <1>10, <1>12, <1>13 DEF Next
<1> QED
  BY <1>11, <1>13

(* The invariant holds in every reachable state.  *)
LEMMA Invariance == ASSUME DistinctTasks PROVE Spec => []IInv
<1>1. Init => IInv /\ OneManager
  BY InvInit DEF Init, OneManager
<1>2. IInv /\ OneManager /\ [Next]_lockVars => (IInv /\ OneManager)'
  <2> SUFFICES ASSUME IInv, OneManager, [Next]_lockVars PROVE IInv' /\ OneManager'
    OBVIOUS
  <2>1. OneManager' /\ OneManagerInCalls'
    BY ManagersStay DEF OneManager, OneManagerInCalls
  <2> QED
    BY <2>1, InvStep
<1> QED
  BY <1>1, <1>2, PTL DEF Spec

(* Two threads that hold locks hold disjoint sets of resources.  *)
THEOREM Exclusion == ASSUME DistinctTasks PROVE Spec => []MutualExclusion
<1>1. IInv => MutualExclusion
  <2> SUFFICES ASSUME IInv,
                      NEW t \in Threads, NEW u \in Threads, t # u,
                      Holds(t), Holds(u), NEW r \in wants[t] \cap wants[u]
               PROVE  FALSE
    BY DEF MutualExclusion
  <2>1. r \in Resources /\ r \in Owned(t) /\ r \in Owned(u)
    BY DEF IInv, TypeOK, Owned
  <2>2. TaskOf[t] = TaskOf[u]
    BY <2>1 DEF IInv, OwnerInv
  <2> QED
    BY <2>2 DEF DistinctTasks
<1> QED
  BY <1>1, Invariance, PTL

(* The table and the calls agree whenever no loop is half way through. *)
THEOREM Ownership == ASSUME DistinctTasks PROVE Spec => []OwnershipMatchesCalls
<1>1. IInv => OwnershipMatchesCalls
  <2> SUFFICES ASSUME IInv, \A t \in Threads : pc[t] \notin {"claim", "unset"},
                      NEW r \in Resources, NEW t \in Threads
               PROVE  owner[r] = TaskOf[t] <=> Holds(t) /\ r \in wants[t]
    BY DEF OwnershipMatchesCalls
  <2>1. owner[r] = TaskOf[t] <=> r \in Owned(t)
    BY DEF IInv, OwnerInv
  <2> QED
    BY <2>1 DEF Owned
<1> QED
  BY <1>1, Invariance, PTL

(* No resource is owned before its quarantine is over. *)
THEOREM QuarantineRespected == ASSUME DistinctTasks PROVE Spec => []NoOwnerInQuarantine
  BY Invariance, PTL DEF IInv
----------------------------------------------------------------------------
(* With any number of managers: mutexes that are not shared exclude nobody,  *)
(* but a thread still writes its own task id only for what it is granted, and *)
(* erases it wherever it finds it.                                           *)

OwnsOnlyOwn ==
    /\ \A t \in Threads, r \in Resources : owner[r] = TaskOf[t] => r \in Owned(t)
    /\ \A t \in Threads : pc[t] = "claim" => todo[t] \subseteq wants[t]

LEMMA OwnsOnlyOwnStep ==
    ASSUME DistinctTasks, TypeOK, OwnsOnlyOwn, [Next]_lockVars
    PROVE  OwnsOnlyOwn'
<1> USE LockAssumption DEF table, callVars
<1> DEFINE Bound(u) == pc[u] = "claim" => todo[u] \subseteq wants[u]
           Mine(u) == \A r \in Resources : owner[r] = TaskOf[u] => r \in Owned(u)
(* A step of t that writes no owner and keeps what t owns. *)
<1>0. ASSUME NEW t \in Threads, owner' = owner,
             \A u \in Threads : u # t =>
                 pc'[u] = pc[u] /\ todo'[u] = todo[u] /\ wants'[u] = wants[u],
             Owned(t)' = Owned(t), Bound(t)'
      PROVE  OwnsOnlyOwn'
  BY <1>0 DEF OwnsOnlyOwn, Owned, Holds
<1>1. ASSUME NEW t \in Threads,
             \/ \E R \in (SUBSET Resources) \ {{}}, timeout \in NoDeadline .. MaxTimeout :
                    Acquire(t, R, timeout)
             \/ \E seconds \in 0 .. MaxQuarantine : Release(t, seconds)
             \/ Sample(t) \/ Lock(t) \/ Wake(t) \/ LockToRelease(t) \/ Refused(t)
      PROVE  OwnsOnlyOwn'
  <2>1. /\ owner' = owner
        /\ \A u \in Threads : u # t =>
               pc'[u] = pc[u] /\ todo'[u] = todo[u] /\ wants'[u] = wants[u]
        /\ pc'[t] # "claim"
    BY <1>1 DEF Acquire, Release, Sample, Lock, LockToRelease, TakeMutex, Wake, Refused, TypeOK
  <2>2. Owned(t)' = Owned(t)
    BY <1>1 DEF Acquire, Release, Sample, Lock, LockToRelease, TakeMutex, Wake, Refused,
                TypeOK, Owned, Holds
  <2> QED
    BY <1>0, <2>1, <2>2
<1>2. ASSUME NEW t \in Threads, Pass(t) PROVE OwnsOnlyOwn'
  <2>1. /\ owner' = owner /\ wants' = wants /\ pc[t] = "scan"
        /\ \A u \in Threads : u # t => pc'[u] = pc[u] /\ todo'[u] = todo[u]
        /\ \/ pc'[t] = "claim" /\ todo'[t] = wants[t]
           \/ pc'[t] = "scan"
    BY <1>2 DEF Pass, TypeOK
  <2>2. Owned(t)' = Owned(t) /\ Bound(t)'
    BY <2>1 DEF Owned, Holds
  <2> QED
    BY <1>0, <2>1, <2>2
<1>3. ASSUME NEW t \in Threads, Block(t) PROVE OwnsOnlyOwn'
  <2>1. /\ owner' = owner /\ pc[t] = "scan" /\ pc'[t] \in {"refused", "sleep"}
        /\ \A u \in Threads : u # t =>
               pc'[u] = pc[u] /\ todo'[u] = todo[u] /\ wants'[u] = wants[u]
    BY <1>3 DEF Block, Forget, TypeOK
  <2>2. Owned(t)' = Owned(t) /\ Bound(t)'
    BY <2>1 DEF Owned, Holds
  <2> QED
    BY <1>0, <2>1, <2>2
<1>4. ASSUME NEW t \in Threads, Claim(t) PROVE OwnsOnlyOwn'
  <2>1. PICK r \in Resources :
          /\ IsNext(r, t)
          /\ owner' = [owner EXCEPT ![r] = TaskOf[t]]
          /\ LoopStep(t, r, "holding", wants[t])
    BY <1>4 DEF Claim
  <2>2. pc[t] = "claim" /\ r \in todo[t] /\ todo[t] \subseteq wants[t]
    BY <1>4, <2>1 DEF Claim, IsNext, OwnsOnlyOwn
  <2>3. Owned(t) = wants[t] \ todo[t] /\ Owned(t)' = Owned(t) \cup {r} /\ Bound(t)'
    BY <2>1, <2>2 DEF Owned, Holds, LoopStep, Forget, TypeOK
  <2>4. \A u \in Threads : u # t => Owned(u)' = Owned(u) /\ (Bound(u)' <=> Bound(u))
    BY <2>1, LoopStepLocal DEF Owned, Holds
  <2>5. \A u \in Threads : u # t => TaskOf[u] # TaskOf[t]
    BY DEF DistinctTasks
  <2> QED
    BY <2>1, <2>3, <2>4, <2>5 DEF OwnsOnlyOwn, TypeOK
<1>5. ASSUME NEW t \in Threads, Unset(t) PROVE OwnsOnlyOwn'
  <2>1. PICK r \in Resources :
          /\ IsNext(r, t)
          /\ IF Locked(t, r)
             THEN UNCHANGED table
             ELSE /\ owner' = [owner EXCEPT ![r] = NoOwner]
                  /\ quarantine' = [quarantine EXCEPT ![r] = cooling[t]]
          /\ LoopStep(t, r, "idle", {})
    BY <1>5 DEF Unset
  <2>2. pc[t] = "unset" /\ r \in todo[t]
    BY <1>5, <2>1 DEF Unset, IsNext
  <2>3. Owned(t) = todo[t] /\ Owned(t)' = todo[t] \ {r} /\ Bound(t)'
    BY <2>1, <2>2 DEF Owned, Holds, LoopStep, TypeOK
  <2>4. \A u \in Threads : u # t => Owned(u)' = Owned(u) /\ (Bound(u)' <=> Bound(u))
    BY <2>1, LoopStepLocal DEF Owned, Holds
  <2>5. \A u \in Threads : TaskOf[u] # NoOwner /\ (u # t => TaskOf[u] # TaskOf[t])
    BY DEF DistinctTasks
  <2>6. /\ owner'[r] = NoOwner \/ (owner'[r] = owner[r] /\ owner[r] # TaskOf[t])
        /\ \A s \in Resources : s # r => owner'[s] = owner[s]
    BY <2>1 DEF Locked, TypeOK
  <2> QED
    BY <2>3, <2>4, <2>5, <2>6 DEF OwnsOnlyOwn
<1>6. CASE Tick
  BY <1>6 DEF Tick, OwnsOnlyOwn, Owned, Holds
<1>7. CASE UNCHANGED lockVars
  BY <1>7 DEF lockVars, OwnsOnlyOwn, Owned, Holds
<1> QED
  BY <1>1, <1>2, <1>3, <1>4, <1>5, <1>6, <1>7 DEF Next, Internal

----------------------------------------------------------------------------
(* ResourceLocks implements LockTable: every step of the polling code is a   *)
(* step of the atomic table or changes nothing in it.                        *)

held == [t \in Threads |-> HeldBy(t)]
cool == [r \in Resources |-> CoolFor(r)]

Positive(x) == IF x > 0 THEN x ELSE 0

(* While a thread erases its entries, the table shows for each entry to     *)
(* come the quarantine that the thread carries.                             *)
LEMMA CoolDuringUnset ==
    ASSUME IInv, NEW t \in Threads, pc[t] = "unset", NEW r \in todo[t]
    PROVE  CoolFor(r) = Positive(cooling[t])
<1>1. Unsetting(r, t)
  BY DEF Unsetting
<1>2. \A u \in Threads : Unsetting(r, u) => u = t
  BY OnlyOneInMutex DEF Unsetting, InMutex, IInv
<1>3. (CHOOSE u \in Threads : Unsetting(r, u)) = t
  BY <1>1, <1>2
<1> QED
  BY <1>1, <1>3 DEF CoolFor, Positive

(* The same of the next state. *)
LEMMA CoolAfter ==
    ASSUME NEW t \in Threads, NEW r \in Resources,
           \A u \in Threads : Unsetting(r, u)' <=> u = t
    PROVE  CoolFor(r)' = Positive(cooling'[t])
<1>1. (CHOOSE u \in Threads : Unsetting(r, u))' = t
  OBVIOUS
<1> QED
  BY <1>1 DEF CoolFor, Positive

LEMMA CoolOtherwise ==
    ASSUME NEW r \in Resources, \A t \in Threads : ~Unsetting(r, t)
    PROVE  CoolFor(r) = Positive(quarantine[r])
  BY DEF CoolFor, Positive

(* A step that leaves the timers and everybody's unsetting alone leaves the *)
(* abstract timers alone.                                                   *)
LEMMA CoolUnchanged ==
    ASSUME UNCHANGED quarantine,
           \A t \in Threads, r \in Resources :
               /\ Unsetting(r, t)' <=> Unsetting(r, t)
               /\ Unsetting(r, t) => cooling'[t] = cooling[t]
    PROVE  UNCHANGED cool
<1> SUFFICES ASSUME NEW r \in Resources PROVE CoolFor(r)' = CoolFor(r)
  BY DEF cool
<1>1. (\E t \in Threads : Unsetting(r, t))' <=> (\E t \in Threads : Unsetting(r, t))
  OBVIOUS
<1>2. (CHOOSE t \in Threads : Unsetting(r, t))' = (CHOOSE t \in Threads : Unsetting(r, t))
  OBVIOUS
<1>3. CASE \E t \in Threads : Unsetting(r, t)
  <2>1. Unsetting(r, CHOOSE t \in Threads : Unsetting(r, t))
    BY <1>3
  <2> QED
    BY <1>1, <1>2, <1>3, <2>1 DEF CoolFor
<1>4. CASE ~ \E t \in Threads : Unsetting(r, t)
  BY <1>1, <1>4 DEF CoolFor
<1> QED
  BY <1>3, <1>4

LEMMA RefineInit == Init => Promise!Init
<1> SUFFICES ASSUME Init PROVE Promise!Init
  OBVIOUS
<1>1. \A t \in Threads : HeldBy(t) = {}
  BY DEF Init, LockInit, HeldBy, Holds
<1>2. \A r \in Resources : CoolFor(r) = 0
  BY LockAssumption DEF Init, LockInit, CoolFor, Unsetting, Over
<1> QED
  BY <1>1, <1>2 DEF Promise!Init

(* The last step of a scan grants the call all that it wants.  *)
LEMMA RefinePass ==
    ASSUME DistinctTasks, IInv, IInv', NEW t \in Threads, Pass(t)
    PROVE  (\E R \in (SUBSET Resources) \ {{}} : Promise!Grant(t, R))
           \/ UNCHANGED <<held, cool>>
<1>1. PICK r \in Resources :
        /\ IsNext(r, t) /\ ~Quarantined(t, r) /\ ~Locked(t, r)
        /\ IF todo[t] = {r}
           THEN /\ pc' = [pc EXCEPT ![t] = "claim"]
                /\ todo' = [todo EXCEPT ![t] = wants[t]]
           ELSE /\ todo' = [todo EXCEPT ![t] = @ \ {r}]
                /\ UNCHANGED pc
  BY DEF Pass
<1>2. /\ pc[t] = "scan"
      /\ UNCHANGED <<owner, quarantine, mutex, manager, wants, cooling>>
  BY DEF Pass, table
<1>3. TypeOK /\ MutexInv /\ OneManagerInCalls
  BY DEF IInv
<1>4. \A u \in Threads : pc[u] # "unset"
  BY <1>2, <1>3, OnlyOneInMutex DEF InMutex
<1>5. \A u \in Threads : pc'[u] # "unset"
  BY <1>1, <1>2, <1>3, <1>4 DEF TypeOK
<1>6. UNCHANGED cool
  BY <1>2, <1>4, <1>5, CoolUnchanged DEF Unsetting
<1>7. \A u \in Threads : u # t => HeldBy(u)' = HeldBy(u)
  BY <1>1, <1>2, <1>3 DEF HeldBy, Holds, TypeOK
<1>8. HeldBy(t) = {}
  BY <1>2 DEF HeldBy, Holds
<1>9. CASE todo[t] = {r}
  <2>1. pc'[t] = "claim" /\ HeldBy(t)' = wants[t]
    BY <1>1, <1>2, <1>3, <1>9 DEF HeldBy, TypeOK
  <2>2. \A s \in wants[t] : quarantine[s] <= 0 /\ owner[s] \in {NoOwner, TaskOf[t]}
    BY <1>2, <2>1 DEF IInv, ClaimInv, Locked
  <2>3. \A s \in wants[t] : CoolFor(s) = 0
    <3> SUFFICES ASSUME NEW s \in wants[t] PROVE CoolFor(s) = 0
      OBVIOUS
    <3>1. s \in Resources /\ \A u \in Threads : ~Unsetting(s, u)
      BY <1>3, <1>4 DEF Unsetting, TypeOK
    <3>2. CoolFor(s) = Positive(quarantine[s]) /\ quarantine[s] \in Int
      BY <1>3, <3>1, CoolOtherwise DEF TypeOK, Over
    <3> QED
      BY <2>2, <3>2 DEF Positive
  <2>4. \A s \in wants[t], u \in Threads : s \notin HeldBy(u)
    <3> SUFFICES ASSUME NEW s \in wants[t], NEW u \in Threads, s \in HeldBy(u)
                 PROVE  FALSE
      OBVIOUS
    <3>1. u # t /\ Holds(u) /\ s \in wants[u]
      <4>1. pc[u] # "claim"
        BY <1>2, <1>3, OnlyOneInMutex DEF InMutex
      <4> QED
        BY <1>8, <4>1 DEF HeldBy
    <3>2. owner[s] = TaskOf[u]
      BY <1>3, <3>1 DEF IInv, OwnerInv, Owned, TypeOK
    <3> QED
      BY <2>2, <3>1, <3>2, LockAssumption DEF DistinctTasks
  <2>5. wants[t] \in SUBSET Resources
    BY <1>3 DEF TypeOK
  <2>6. CASE wants[t] # {}
    <3>1. held' = [held EXCEPT ![t] = wants[t]]
      BY <1>7, <2>1 DEF held
    <3>2. \A s \in wants[t] : Promise!Available(s)
      BY <1>3, <2>3, <2>4 DEF Promise!Available, TypeOK
    <3>3. Promise!Grant(t, wants[t])
      BY <1>6, <1>8, <3>1, <3>2 DEF Promise!Grant, held, cool
    <3>4. wants[t] \in (SUBSET Resources) \ {{}}
      BY <2>5, <2>6
    <3> QED
      BY <3>3, <3>4
  <2>7. CASE wants[t] = {}
    BY <1>6, <1>7, <1>8, <2>1, <2>7 DEF held
  <2> QED
    BY <2>6, <2>7
<1>10. CASE todo[t] # {r}
  <2>1. UNCHANGED pc
    BY <1>1, <1>10
  <2> QED
    BY <1>2, <1>6, <2>1 DEF held, HeldBy, Holds
<1> QED
  BY <1>9, <1>10

(* A release takes effect when it gets the mutex.  *)
LEMMA RefineLockToRelease ==
    ASSUME DistinctTasks, IInv, IInv', NEW t \in Threads, LockToRelease(t)
    PROVE  (\E seconds \in 0 .. MaxQuarantine : Promise!GiveBack(t, seconds))
           \/ UNCHANGED <<held, cool>>
<1>1. /\ pc[t] = "release" /\ pc' = [pc EXCEPT ![t] = "unset"]
      /\ todo' = [todo EXCEPT ![t] = wants[t]]
      /\ mutex[manager[t]] = Free
      /\ UNCHANGED <<owner, quarantine, manager, wants, cooling>>
  BY DEF LockToRelease, TakeMutex, table
<1>2. TypeOK /\ MutexInv /\ OneManagerInCalls
  BY DEF IInv
<1>3. \A u \in Threads : pc[u] # "unset"
  <2> SUFFICES ASSUME NEW u \in Threads, pc[u] = "unset" PROVE FALSE
    OBVIOUS
  <2>1. manager[u] = manager[t] /\ manager[t] \in Managers
    BY <1>1, <1>2 DEF OneManagerInCalls, TypeOK
  <2>2. mutex[manager[t]] = u
    BY <1>2, <2>1 DEF MutexInv, InMutex
  <2> QED
    BY <1>1, <2>2, LockAssumption
<1>4. \A u \in Threads : u # t => HeldBy(u)' = HeldBy(u)
  BY <1>1, <1>2 DEF HeldBy, Holds, TypeOK
<1>5. HeldBy(t) = wants[t] /\ HeldBy(t)' = {}
  BY <1>1, <1>2 DEF HeldBy, Holds, TypeOK
<1>6. \A r \in Resources : CoolFor(r) = Positive(quarantine[r])
  BY <1>3, CoolOtherwise DEF Unsetting
<1>7. \A r \in Resources :
        CoolFor(r)' = IF r \in wants[t] THEN Positive(cooling[t]) ELSE CoolFor(r)
  <2> SUFFICES ASSUME NEW r \in Resources
               PROVE  CoolFor(r)' = IF r \in wants[t] THEN Positive(cooling[t])
                                    ELSE CoolFor(r)
    OBVIOUS
  <2>1. pc'[t] = "unset" /\ todo'[t] = wants[t]
    BY <1>1, <1>2 DEF TypeOK
  <2>2. CASE r \in wants[t]
    <3>1. \A u \in Threads : Unsetting(r, u)' <=> u = t
      BY <1>1, <1>2, <1>3, <2>1, <2>2 DEF Unsetting, TypeOK
    <3>2. CoolFor(r)' = Positive(cooling'[t])
      BY <3>1, CoolAfter
    <3> QED
      BY <1>1, <2>2, <3>2
  <2>3. CASE r \notin wants[t]
    <3>1. \A u \in Threads : ~Unsetting(r, u)'
      BY <1>1, <1>2, <1>3, <2>1, <2>3 DEF Unsetting, TypeOK
    <3> QED
      BY <1>1, <1>6, <2>3, <3>1 DEF CoolFor, Positive
  <2> QED
    BY <2>2, <2>3
<1>8. Positive(cooling[t]) \in 0 .. MaxQuarantine
  BY <1>2, LockAssumption DEF Positive, TypeOK, Over
<1>9. CASE wants[t] # {}
  <2>1. held' = [held EXCEPT ![t] = {}] /\ held[t] = wants[t]
    BY <1>4, <1>5 DEF held
  <2>2. cool' = [r \in Resources |-> IF r \in held[t] THEN Positive(cooling[t])
                                     ELSE cool[r]]
    BY <1>7, <2>1 DEF cool
  <2>3. Promise!GiveBack(t, Positive(cooling[t]))
    BY <1>9, <2>1, <2>2 DEF Promise!GiveBack, held, cool
  <2> QED
    BY <1>8, <2>3
<1>10. CASE wants[t] = {}
  BY <1>4, <1>5, <1>7, <1>10 DEF held, cool
<1> QED
  BY <1>9, <1>10

(* Erasing an entry changes nothing in the table seen from outside.  *)
LEMMA RefineUnset ==
    ASSUME DistinctTasks, IInv, IInv', NEW t \in Threads, Unset(t)
    PROVE  UNCHANGED <<held, cool>>
<1>1. PICK r \in Resources :
        /\ IsNext(r, t)
        /\ IF Locked(t, r)
           THEN UNCHANGED table
           ELSE /\ owner' = [owner EXCEPT ![r] = NoOwner]
                /\ quarantine' = [quarantine EXCEPT ![r] = cooling[t]]
        /\ LoopStep(t, r, "idle", {})
  BY DEF Unset
<1>2. pc[t] = "unset" /\ r \in todo[t]
  BY <1>1 DEF Unset, IsNext
<1>3. TypeOK /\ TypeOK' /\ MutexInv /\ OneManagerInCalls
  BY DEF IInv
<1>4. owner[r] = TaskOf[t]
  BY <1>2 DEF IInv, OwnerInv, Owned, Holds
<1>5. quarantine' = [quarantine EXCEPT ![r] = cooling[t]]
  BY <1>1, <1>4 DEF Locked
<1>6. todo' = [todo EXCEPT ![t] = @ \ {r}]
  BY <1>1 DEF LoopStep
<1>7. \A u \in Threads : u # t => pc[u] # "unset"
  BY <1>2, <1>3, OnlyOneInMutex DEF InMutex
<1>8. \A u \in Threads : u # t => pc'[u] = pc[u] /\ wants'[u] = wants[u]
  BY <1>1, <1>3, LoopStepLocal
<1>9. pc'[t] \in {"unset", "idle"} /\ (pc'[t] # "unset" => todo[t] = {r})
  BY <1>1, <1>2, <1>3 DEF LoopStep, TypeOK
<1>10. pc'[t] = "unset" => cooling' = cooling
  BY <1>1, <1>2, <1>3 DEF LoopStep, TypeOK
<1>11. UNCHANGED held
  BY <1>2, <1>8, <1>9 DEF held, HeldBy, Holds
<1>12. ASSUME NEW s \in Resources PROVE CoolFor(s)' = CoolFor(s)
  <2>1. CASE s = r
    <3>1. \A u \in Threads : ~Unsetting(s, u)'
      BY <1>3, <1>6, <1>7, <1>8, <2>1 DEF Unsetting, TypeOK
    <3>2. CoolFor(s)' = Positive(cooling[t])
      BY <1>3, <1>5, <2>1, <3>1 DEF CoolFor, Positive, TypeOK
    <3> QED
      BY <1>2, <2>1, <3>2, CoolDuringUnset
  <2>2. CASE s # r /\ s \in todo[t]
    <3>1. pc'[t] = "unset" /\ s \in todo'[t] /\ cooling' = cooling
      BY <1>3, <1>6, <1>9, <1>10, <2>2 DEF TypeOK
    <3>2. \A u \in Threads : Unsetting(s, u)' <=> u = t
      BY <1>7, <1>8, <3>1 DEF Unsetting
    <3>3. CoolFor(s)' = Positive(cooling'[t])
      BY <3>2, CoolAfter
    <3>4. CoolFor(s) = Positive(cooling[t])
      BY <1>2, <2>2, CoolDuringUnset
    <3> QED
      BY <3>1, <3>3, <3>4
  <2>3. CASE s \notin todo[t]
    <3>1. s # r /\ \A u \in Threads : ~Unsetting(s, u) /\ ~Unsetting(s, u)'
      BY <1>2, <1>3, <1>6, <1>7, <1>8, <2>3 DEF Unsetting, TypeOK
    <3>2. quarantine'[s] = quarantine[s]
      BY <1>3, <1>5, <3>1 DEF TypeOK
    <3> QED
      BY <3>1, <3>2 DEF CoolFor
  <2> QED
    BY <2>1, <2>2, <2>3
<1> QED
  BY <1>11, <1>12 DEF cool

(* A tick of the clock is a tick of the table's timers.  *)
LEMMA RefineTick ==
    ASSUME IInv, IInv', Tick
    PROVE  Promise!Elapse
<1>1. /\ UNCHANGED <<pc, wants, todo>>
      /\ quarantine' = [r \in Resources |-> Sooner(quarantine[r], Over)]
      /\ cooling' = [t \in Threads |-> Sooner(cooling[t], Over)]
  BY DEF Tick
<1>2. UNCHANGED held
  BY <1>1 DEF held, HeldBy, Holds
<1>3. \A x \in Over .. MaxQuarantine :
        Positive(Sooner(x, Over)) = IF Positive(x) > 0 THEN Positive(x) - 1 ELSE 0
  BY LockAssumption DEF Positive, Sooner, Over
<1>4. ASSUME NEW r \in Resources
      PROVE  CoolFor(r)' = IF CoolFor(r) > 0 THEN CoolFor(r) - 1 ELSE 0
  <2>1. CASE \E t \in Threads : Unsetting(r, t)
    <3>1. PICK t \in Threads : pc[t] = "unset" /\ r \in todo[t]
      BY <2>1 DEF Unsetting
    <3>2. CoolFor(r) = Positive(cooling[t])
      BY <3>1, CoolDuringUnset
    <3>3. \A u \in Threads : Unsetting(r, u)' <=> u = t
      BY <1>1, <3>1, OnlyOneInMutex DEF Unsetting, InMutex, IInv
    <3>4. cooling[t] \in Over .. MaxQuarantine
      BY DEF IInv, TypeOK
    <3>5. CoolFor(r)' = Positive(Sooner(cooling[t], Over))
      BY <1>1, <3>3, CoolAfter
    <3> QED
      BY <1>3, <3>2, <3>4, <3>5
  <2>2. CASE \A t \in Threads : ~Unsetting(r, t)
    <3>1. CoolFor(r) = Positive(quarantine[r])
      BY <2>2, CoolOtherwise
    <3>2. CoolFor(r)' = Positive(Sooner(quarantine[r], Over))
      BY <1>1, <2>2 DEF CoolFor, Positive, Unsetting
    <3>3. quarantine[r] \in Over .. MaxQuarantine
      BY DEF IInv, TypeOK
    <3> QED
      BY <1>3, <3>1, <3>2, <3>3
  <2> QED
    BY <2>1, <2>2
<1>5. cool' = [r \in Resources |-> IF cool[r] > 0 THEN cool[r] - 1 ELSE 0]
  BY <1>4 DEF cool
<1> QED
  BY <1>2, <1>5 DEF Promise!Elapse, held, cool

(* Every other step happens inside a call and changes nothing that the table *)
(* shows.                                                                     *)
LEMMA RefineInside ==
    ASSUME NEW t \in Threads, UNCHANGED quarantine,
           pc[t] # "unset", pc'[t] # "unset", HeldBy(t)' = HeldBy(t),
           \A u \in Threads : u # t =>
               /\ pc'[u] = pc[u] /\ todo'[u] = todo[u]
               /\ wants'[u] = wants[u] /\ cooling'[u] = cooling[u]
    PROVE  UNCHANGED <<held, cool>>
<1>1. \A u \in Threads : HeldBy(u)' = HeldBy(u)
  BY DEF HeldBy, Holds
<1>2. \A u \in Threads, r \in Resources :
        /\ Unsetting(r, u)' <=> Unsetting(r, u)
        /\ Unsetting(r, u) => cooling'[u] = cooling[u]
  BY DEF Unsetting
<1>3. UNCHANGED cool
  BY <1>2, CoolUnchanged
<1> QED
  BY <1>1, <1>3 DEF held

LEMMA RefineStep ==
    ASSUME DistinctTasks, IInv, IInv', [Next]_lockVars
    PROVE  [Promise!Next]_<<held, cool>>
<1> USE DEF table, callVars
<1>1. TypeOK
  BY DEF IInv
<1>2. ASSUME NEW t \in Threads, NEW R \in (SUBSET Resources) \ {{}},
             NEW timeout \in NoDeadline .. MaxTimeout, Acquire(t, R, timeout)
      PROVE  UNCHANGED <<held, cool>>
  <2>1. pc[t] = "idle" /\ pc'[t] = "sample"
    BY <1>1, <1>2 DEF Acquire, TypeOK
  <2> QED
    BY <1>1, <1>2, <2>1, RefineInside DEF Acquire, HeldBy, Holds, TypeOK
<1>3. ASSUME NEW t \in Threads, NEW seconds \in 0 .. MaxQuarantine,
             Release(t, seconds)
      PROVE  UNCHANGED <<held, cool>>
  <2>1. pc[t] = "holding" /\ pc'[t] = "release"
    BY <1>1, <1>3 DEF Release, TypeOK
  <2> QED
    BY <1>1, <1>3, <2>1, RefineInside DEF Release, HeldBy, Holds, TypeOK
<1>4. ASSUME NEW t \in Threads, Sample(t) \/ Wake(t) \/ Refused(t)
      PROVE  UNCHANGED <<held, cool>>
  <2>1. pc[t] \in {"sample", "sleep", "refused"} /\ pc'[t] \in {"lock", "sample", "idle"}
    BY <1>1, <1>4 DEF Sample, Wake, Refused, TypeOK
  <2> QED
    BY <1>1, <1>4, <2>1, RefineInside DEF Sample, Wake, Refused, HeldBy, Holds, TypeOK
<1>5. ASSUME NEW t \in Threads, Lock(t)
      PROVE  UNCHANGED <<held, cool>>
  <2>1. pc[t] = "lock" /\ pc'[t] = "scan"
    BY <1>1, <1>5 DEF Lock, TakeMutex, TypeOK
  <2> QED
    BY <1>1, <1>5, <2>1, RefineInside DEF Lock, TakeMutex, HeldBy, Holds, TypeOK
<1>6. ASSUME NEW t \in Threads, Block(t)
      PROVE  UNCHANGED <<held, cool>>
  <2>1. pc[t] = "scan" /\ pc'[t] \in {"refused", "sleep"}
    BY <1>1, <1>6 DEF Block, TypeOK
  <2>2. \A u \in Threads : u # t =>
           /\ pc'[u] = pc[u] /\ todo'[u] = todo[u]
           /\ wants'[u] = wants[u] /\ cooling'[u] = cooling[u]
    BY <1>1, <1>6 DEF Block, Forget, TypeOK
  <2>3. UNCHANGED quarantine
    BY <1>6 DEF Block
  <2> QED
    BY <2>1, <2>2, <2>3, RefineInside DEF HeldBy, Holds
<1>7. ASSUME NEW t \in Threads, Claim(t)
      PROVE  UNCHANGED <<held, cool>>
  <2>1. PICK r \in Resources : LoopStep(t, r, "holding", wants[t])
    BY <1>7 DEF Claim
  <2>2. pc[t] = "claim" /\ UNCHANGED quarantine
    BY <1>7 DEF Claim
  <2>3. pc'[t] \in {"claim", "holding"} /\ wants'[t] = wants[t]
    BY <1>1, <2>1, <2>2 DEF LoopStep, Forget, TypeOK
  <2>4. \A u \in Threads : u # t =>
           /\ pc'[u] = pc[u] /\ todo'[u] = todo[u]
           /\ wants'[u] = wants[u] /\ cooling'[u] = cooling[u]
    BY <1>1, <2>1 DEF LoopStep, Forget, TypeOK
  <2> QED
    BY <2>2, <2>3, <2>4, RefineInside DEF HeldBy, Holds
<1>8. CASE UNCHANGED lockVars
  <2>1. \A u \in Threads, r \in Resources :
          /\ Unsetting(r, u)' <=> Unsetting(r, u)
          /\ Unsetting(r, u) => cooling'[u] = cooling[u]
    BY <1>8 DEF lockVars, Unsetting
  <2>2. UNCHANGED quarantine
    BY <1>8 DEF lockVars
  <2>3. UNCHANGED cool
    BY <2>1, <2>2, CoolUnchanged
  <2>4. UNCHANGED held
    BY <1>8 DEF lockVars, held, HeldBy, Holds
  <2> QED
    BY <2>3, <2>4
<1>9. CASE Next
  <2>1. ASSUME NEW t \in Threads, Internal(t)
        PROVE  [Promise!Next]_<<held, cool>>
    <3>1. CASE Pass(t)
      BY <3>1, RefinePass DEF Promise!Next
    <3>2. CASE LockToRelease(t)
      BY <3>2, RefineLockToRelease DEF Promise!Next
    <3>3. CASE Unset(t)
      BY <3>3, RefineUnset
    <3> QED
      BY <1>4, <1>5, <1>6, <1>7, <2>1, <3>1, <3>2, <3>3 DEF Internal
  <2>2. CASE Tick
    BY <2>2, RefineTick DEF Promise!Next
  <2> QED
    BY <1>2, <1>3, <1>4, <1>9, <2>1, <2>2 DEF Next
<1> QED
  BY <1>8, <1>9

(* The lock manager implements the atomic table, for callers with distinct  *)
(* task ids.                                                                 *)
THEOREM Refinement == ASSUME DistinctTasks PROVE Spec => ImplementsLockTable
<1>1. IInv /\ IInv' /\ [Next]_lockVars => [Promise!Next]_<<held, cool>>
  BY RefineStep
<1> QED
  BY <1>1, RefineInit, Invariance, PTL DEF Spec, ImplementsLockTable, Promise!Spec, held, cool
====
