---- MODULE ResourceLocks ----
(***************************************************************************)
(* ResourceLockManager (src/framework/execution/resource_locks.py): the    *)
(* table of resource locks that the worker threads of a run share.         *)
(*                                                                         *)
(* A thread asks for a set of resources and polls until every one of them  *)
(* is free and out of quarantine, or until its deadline has passed.  The   *)
(* table is read and written one resource at a time under the mutex of the *)
(* thread's manager; the clock is read BEFORE the mutex is taken, so the   *)
(* value the scan compares with may be stale.                              *)
(*                                                                         *)
(* Time.  perf_counter() is a clock that ticks.  Instants are kept as      *)
(* distances to the present: quarantine[r] is quarantine_until_perf minus  *)
(* the current time, left[t] the deadline minus the current time, lag[t]   *)
(* the current time minus the now_perf that t read last.                   *)
(***************************************************************************)
EXTENDS Integers

CONSTANTS
    Threads,        \* the threads that call acquire and release
    TaskIds,        \* the values of owner_task_id
    TaskOf,         \* the owner_task_id under which each thread calls
    Resources,      \* resource names, as numbers in the order str sorts them
    Managers,       \* the ResourceLockManager objects over the same state
    NoOwner,        \* owner_task_id = None
    Free,           \* the mutex is not held
    MaxTimeout,     \* bound: the longest timeout_seconds, in ticks
    MaxQuarantine,  \* bound: the longest quarantine_seconds, in ticks
    MaxLag          \* bound: ticks between reading the clock and using it

ASSUME LockAssumption ==
    /\ TaskOf \in [Threads -> TaskIds]
    /\ Resources \subseteq Nat
    /\ Managers # {}
    /\ NoOwner \notin TaskIds
    /\ Free \notin Threads
    /\ MaxTimeout \in Nat /\ MaxQuarantine \in Nat /\ MaxLag \in Nat

VARIABLES
    owner,       \* entry["owner_task_id"] of each resource
    quarantine,  \* entry["quarantine_until_perf"] of each resource
    mutex,       \* the thread that holds each manager's _mutex
    manager,     \* the manager object each thread calls
    pc,          \* where each thread is in acquire or release
    wants,       \* normalized_resources of the thread's call
    todo,        \* the resources the loop under the mutex has yet to visit
    left,        \* the deadline of acquire
    budget,      \* deadline - now_perf, as of the last reading of the clock
    lag,         \* age of that reading
    nap,         \* what is left of time.sleep(sleep_seconds)
    cooling      \* quarantine_until_perf computed by release

table    == <<owner, quarantine>>
callVars == <<wants, todo, left, budget, lag, nap, cooling>>
lockVars == <<owner, quarantine, mutex, manager, pc, wants, todo, left, budget,
              lag, nap, cooling>>

NoDeadline == -1

(* quarantine_until_perf = None, or so long ago that no reading in use can  *)
(* precede it.                                                              *)
Over == -MaxLag

(* What a timer shows one tick later. *)
Sooner(x, floor) == IF x > floor THEN x - 1 ELSE floor

Shorter(x, y) == IF x <= y THEN x ELSE y

(* The next resource of a loop over the sorted list. *)
IsNext(r, t) == r \in todo[t] /\ \A s \in todo[t] : r <= s

InMutex == {"scan", "claim", "unset"}

Places == {"idle", "sample", "lock", "scan", "claim", "sleep", "refused",
           "holding", "release", "unset"}

TypeOK ==
    /\ owner \in [Resources -> TaskIds \cup {NoOwner}]
    /\ quarantine \in [Resources -> Over .. MaxQuarantine]
    /\ mutex \in [Managers -> Threads \cup {Free}]
    /\ manager \in [Threads -> Managers]
    /\ pc \in [Threads -> Places]
    /\ wants \in [Threads -> SUBSET Resources]
    /\ todo \in [Threads -> SUBSET Resources]
    /\ left \in [Threads -> NoDeadline .. MaxTimeout]
    /\ budget \in [Threads -> NoDeadline .. MaxTimeout]
    /\ lag \in [Threads -> 0 .. MaxLag]
    /\ nap \in [Threads -> 0 .. MaxQuarantine + MaxLag]
    /\ cooling \in [Threads -> Over .. MaxQuarantine]

LockInit ==
    /\ owner = [r \in Resources |-> NoOwner]
    /\ quarantine = [r \in Resources |-> Over]
    /\ mutex = [m \in Managers |-> Free]
    /\ pc = [t \in Threads |-> "idle"]
    /\ wants = [t \in Threads |-> {}]
    /\ todo = [t \in Threads |-> {}]
    /\ left = [t \in Threads |-> NoDeadline]
    /\ budget = [t \in Threads |-> NoDeadline]
    /\ lag = [t \in Threads |-> 0]
    /\ nap = [t \in Threads |-> 0]
    /\ cooling = [t \in Threads |-> Over]

(* One manager object serves every thread, as the class intends. *)
Init == LockInit /\ \E m \in Managers : manager = [t \in Threads |-> m]

(* A call returns: its local variables are gone, and the caller keeps R. *)
Forget(t, R) ==
    /\ wants' = [wants EXCEPT ![t] = R]
    /\ left' = [left EXCEPT ![t] = NoDeadline]
    /\ budget' = [budget EXCEPT ![t] = NoDeadline]
    /\ lag' = [lag EXCEPT ![t] = 0]
    /\ cooling' = [cooling EXCEPT ![t] = Over]

----------------------------------------------------------------------------
(* acquire *)

(* The call: the resources are normalised, the deadline is computed. *)
Acquire(t, R, timeout) ==
    /\ pc[t] = "idle"
    /\ pc' = [pc EXCEPT ![t] = "sample"]
    /\ wants' = [wants EXCEPT ![t] = R]
    /\ left' = [left EXCEPT ![t] = timeout]
    /\ UNCHANGED <<table, mutex, manager, todo, budget, lag, nap, cooling>>

(* now_perf = time.perf_counter(), outside the mutex. *)
Sample(t) ==
    /\ pc[t] = "sample"
    /\ pc' = [pc EXCEPT ![t] = "lock"]
    /\ budget' = [budget EXCEPT ![t] = left[t]]
    /\ lag' = [lag EXCEPT ![t] = 0]
    /\ UNCHANGED <<table, mutex, manager, wants, todo, left, nap, cooling>>

(* Mutant: the critical section is entered without the mutex. *)
TakeNothing(t, from, to) ==
    /\ pc[t] = from
    /\ pc' = [pc EXCEPT ![t] = to]
    /\ todo' = [todo EXCEPT ![t] = wants[t]]
    /\ UNCHANGED <<table, mutex, manager, wants, left, budget, lag, nap, cooling>>

(* with self._mutex *)
TakeMutex(t, from, to) ==
    /\ pc[t] = from
    /\ mutex[manager[t]] = Free
    /\ mutex' = [mutex EXCEPT ![manager[t]] = t]
    /\ pc' = [pc EXCEPT ![t] = to]
    /\ todo' = [todo EXCEPT ![t] = wants[t]]
    /\ UNCHANGED <<table, manager, wants, left, budget, lag, nap, cooling>>

Lock(t) == TakeMutex(t, "lock", "scan")

(* Mutant: the scan trusts a clock that is ahead. *)
QuarantinedAhead(t, r) == quarantine[r] - lag[t] > 0

Quarantined(t, r) == quarantine[r] + lag[t] > 0

(* An entry already owned by the caller's own task id does not block it. *)
Locked(t, r) == owner[r] \notin {NoOwner, TaskOf[t]}

(* The scan finds the next resource available.  After the last one the     *)
(* second loop starts over, still under the mutex.                          *)
Pass(t) ==
    /\ pc[t] = "scan"
    /\ \E r \in Resources :
        /\ IsNext(r, t)
        /\ ~Quarantined(t, r)
        /\ ~Locked(t, r)
        /\ IF todo[t] = {r}
           THEN /\ pc' = [pc EXCEPT ![t] = "claim"]
                /\ todo' = [todo EXCEPT ![t] = wants[t]]
           ELSE /\ todo' = [todo EXCEPT ![t] = @ \ {r}]
                /\ UNCHANGED pc
    /\ UNCHANGED <<table, mutex, manager, wants, left, budget, lag, nap, cooling>>

(* Mutant: the deadline bounds the sleep also when there is none. *)
SleepToDeadline(t, r) ==
    LET wait == IF Quarantined(t, r) THEN quarantine[r] + lag[t] ELSE 0
    IN  Shorter(wait, budget[t])

(* sleep_seconds: the rest of the quarantine, or 10 ms (less than a tick),  *)
(* and never beyond the deadline.                                           *)
SleepTime(t, r) ==
    LET wait == IF Quarantined(t, r) THEN quarantine[r] + lag[t] ELSE 0
    IN  IF budget[t] = NoDeadline THEN wait ELSE Shorter(wait, budget[t])

(* Mutant: a blocked call sleeps whatever its deadline. *)
BlockForever(t) ==
    /\ pc[t] = "scan"
    /\ \E r \in Resources :
        /\ IsNext(r, t)
        /\ Quarantined(t, r) \/ Locked(t, r)
        /\ nap' = [nap EXCEPT ![t] = SleepTime(t, r)]
    /\ pc' = [pc EXCEPT ![t] = "sleep"]
    /\ mutex' = [mutex EXCEPT ![manager[t]] = Free]
    /\ todo' = [todo EXCEPT ![t] = {}]
    /\ UNCHANGED <<table, manager, wants, left, budget, lag, cooling>>

(* The scan meets a blocked resource and leaves the mutex; the call fails if *)
(* the clock had reached the deadline when it was read, and sleeps otherwise.*)
Block(t) ==
    /\ pc[t] = "scan"
    /\ \E r \in Resources :
        /\ IsNext(r, t)
        /\ Quarantined(t, r) \/ Locked(t, r)
        /\ IF budget[t] = 0
           THEN /\ pc' = [pc EXCEPT ![t] = "refused"]
                /\ Forget(t, {})
                /\ UNCHANGED nap
           ELSE /\ pc' = [pc EXCEPT ![t] = "sleep"]
                /\ nap' = [nap EXCEPT ![t] = SleepTime(t, r)]
                /\ UNCHANGED <<wants, left, budget, lag, cooling>>
    /\ mutex' = [mutex EXCEPT ![manager[t]] = Free]
    /\ todo' = [todo EXCEPT ![t] = {}]
    /\ UNCHANGED <<table, manager>>

Wake(t) ==
    /\ pc[t] = "sleep"
    /\ nap[t] = 0
    /\ pc' = [pc EXCEPT ![t] = "sample"]
    /\ UNCHANGED <<table, mutex, manager, callVars>>

(* After the last resource the mutex is left and the call returns. *)
LoopStep(t, r, done, R) ==
    /\ todo' = [todo EXCEPT ![t] = @ \ {r}]
    /\ IF todo[t] = {r}
       THEN /\ pc' = [pc EXCEPT ![t] = done]
            /\ mutex' = [mutex EXCEPT ![manager[t]] = Free]
            /\ Forget(t, R)
       ELSE UNCHANGED <<pc, mutex, wants, left, budget, lag, cooling>>
    /\ UNCHANGED <<manager, nap>>

Claim(t) ==
    /\ pc[t] = "claim"
    /\ \E r \in Resources :
        /\ IsNext(r, t)
        /\ owner' = [owner EXCEPT ![r] = TaskOf[t]]
        /\ LoopStep(t, r, "holding", wants[t])
    /\ UNCHANGED quarantine

(* The caller takes the negative answer. *)
Refused(t) ==
    /\ pc[t] = "refused"
    /\ pc' = [pc EXCEPT ![t] = "idle"]
    /\ UNCHANGED <<table, mutex, manager, callVars>>

----------------------------------------------------------------------------
(* release *)

(* quarantine_until_perf is computed before the mutex is taken. *)
Release(t, seconds) ==
    /\ pc[t] = "holding"
    /\ pc' = [pc EXCEPT ![t] = "release"]
    /\ cooling' = [cooling EXCEPT ![t] = IF seconds > 0 THEN seconds ELSE Over]
    /\ UNCHANGED <<table, mutex, manager, wants, todo, left, budget, lag, nap>>

LockToRelease(t) == TakeMutex(t, "release", "unset")

(* Mutant: an entry that is quarantined keeps its owner. *)
UnsetOrQuarantine(t) ==
    /\ pc[t] = "unset"
    /\ \E r \in Resources :
        /\ IsNext(r, t)
        /\ IF Locked(t, r)
           THEN UNCHANGED table
           ELSE /\ owner' = [owner EXCEPT ![r] = IF cooling[t] > 0 THEN @ ELSE NoOwner]
                /\ quarantine' = [quarantine EXCEPT ![r] = cooling[t]]
        /\ LoopStep(t, r, "idle", {})

(* Mutant: release forgets the quarantine. *)
UnsetOwnerOnly(t) ==
    /\ pc[t] = "unset"
    /\ \E r \in Resources :
        /\ IsNext(r, t)
        /\ owner' = [owner EXCEPT ![r] = IF Locked(t, r) THEN @ ELSE NoOwner]
        /\ LoopStep(t, r, "idle", {})
    /\ UNCHANGED quarantine

(* An entry owned by another task is left as it is; any other entry loses   *)
(* its owner and has its quarantine overwritten.                            *)
Unset(t) ==
    /\ pc[t] = "unset"
    /\ \E r \in Resources :
        /\ IsNext(r, t)
        /\ IF Locked(t, r)
           THEN UNCHANGED table
           ELSE /\ owner' = [owner EXCEPT ![r] = NoOwner]
                /\ quarantine' = [quarantine EXCEPT ![r] = cooling[t]]
        /\ LoopStep(t, r, "idle", {})

----------------------------------------------------------------------------
(* Time passes for everybody.  Bound: no thread is suspended for more than  *)
(* MaxLag ticks between reading the clock and the end of its scan.          *)
Tick ==
    /\ \A t \in Threads : pc[t] \in {"lock", "scan"} => lag[t] < MaxLag
    /\ quarantine' = [r \in Resources |-> Sooner(quarantine[r], Over)]
    /\ left' = [t \in Threads |->
                   IF left[t] = NoDeadline THEN NoDeadline ELSE Sooner(left[t], 0)]
    /\ lag' = [t \in Threads |->
                   IF pc[t] \in {"lock", "scan"} THEN lag[t] + 1 ELSE lag[t]]
    /\ nap' = [t \in Threads |-> Sooner(nap[t], 0)]
    /\ cooling' = [t \in Threads |-> Sooner(cooling[t], Over)]
    /\ UNCHANGED <<owner, mutex, manager, pc, wants, todo, budget>>

(* The steps a thread takes inside acquire and release. *)
Internal(t) ==
    \/ Sample(t) \/ Lock(t) \/ Pass(t) \/ Block(t) \/ Wake(t) \/ Claim(t)
    \/ LockToRelease(t) \/ Unset(t)

Next ==
    \/ \E t \in Threads :
        \/ \E R \in (SUBSET Resources) \ {{}}, timeout \in NoDeadline .. MaxTimeout :
               Acquire(t, R, timeout)
        \/ \E seconds \in 0 .. MaxQuarantine : Release(t, seconds)
        \/ Internal(t)
        \/ Refused(t)
    \/ Tick

Spec == Init /\ [][Next]_lockVars

(* Threads run, the clock runs, and a thread that keeps finding the mutex   *)
(* free gets it: threading.Lock is not fair, but a poller sleeps between    *)
(* its tries, so a mutex is free again and again and nobody spins on it.    *)
InternalFairness ==
    /\ \A t \in Threads : WF_lockVars(Internal(t))
    /\ \A t \in Threads : SF_lockVars(Lock(t) \/ LockToRelease(t))

FairSpec == Spec /\ InternalFairness /\ WF_lockVars(Tick)

----------------------------------------------------------------------------
(* Properties.  Those about holders suppose what the scheduler means to give *)
(* the class: one manager, and one task id per thread.                       *)

OneManager == \A t, u \in Threads : manager[t] = manager[u]

DistinctTasks == \A t, u \in Threads : TaskOf[t] = TaskOf[u] => t = u

(* The thread is between the grant and the end of its release. *)
Holds(t) == pc[t] \in {"holding", "release"}

(* Two threads never hold the same resource at once: acquire's scan and its *)
(* second loop are one critical section, and all callers agree on it.       *)
MutualExclusion ==
    \A t, u \in Threads :
        t # u /\ Holds(t) /\ Holds(u) => wants[t] \cap wants[u] = {}

(* The table says who holds what, whenever no loop is half way through it: *)
(* a holder owns all it asked for, and every owned resource has its holder, *)
(* so that a refused, retried or finished call leaves nothing locked.       *)
OwnershipMatchesCalls ==
    (\A t \in Threads : pc[t] \notin {"claim", "unset"})
    => \A r \in Resources, t \in Threads :
           owner[r] = TaskOf[t] <=> Holds(t) /\ r \in wants[t]

(* No resource is owned while its quarantine runs, although acquire reads   *)
(* the clock before it waits for the mutex and may compare an old reading   *)
(* with a quarantine that was written meanwhile.                            *)
NoOwnerInQuarantine ==
    \A r \in Resources : owner[r] # NoOwner => quarantine[r] <= 0

(* acquire with a deadline answers, and release returns, whatever the other *)
(* threads hold and for however long.                                       *)
CallsReturn ==
    \A t \in Threads :
        /\ (pc[t] \in {"sample", "lock", "scan", "claim", "sleep"}
              /\ left[t] # NoDeadline) ~> pc[t] \in {"holding", "refused"}
        /\ pc[t] = "release" ~> pc[t] = "idle"

(* A grant takes effect when the scan has passed its last resource, a       *)
(* release when it gets the mutex.                                          *)
HeldBy(t) == IF pc[t] = "claim" \/ Holds(t) THEN wants[t] ELSE {}

Unsetting(r, t) == pc[t] = "unset" /\ r \in todo[t]

CoolFor(r) ==
    LET timer == IF \E t \in Threads : Unsetting(r, t)
                 THEN cooling[CHOOSE t \in Threads : Unsetting(r, t)]
                 ELSE quarantine[r]
    IN  IF timer > 0 THEN timer ELSE 0

Promise == INSTANCE LockTable WITH
    Callers <- Threads,
    held <- [t \in Threads |-> HeldBy(t)],
    cool <- [r \in Resources |-> CoolFor(r)]

(* The polling, lock-by-lock code implements the table that grants and takes *)
(* back whole sets of resources in one step (LockTable).                     *)
ImplementsLockTable == Promise!Spec
====
