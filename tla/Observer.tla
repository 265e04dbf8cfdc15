---- MODULE Observer ----
(***************************************************************************)
(* The ExecutionObserver (src/framework/observability/logger.py) and what  *)
(* it keeps on disk: the event file of event_store.py, the snapshot of     *)
(* result_store.py, the reports of report_generator.py.                    *)
(*                                                                         *)
(* A callback holds the observer's lock from its first assignment to its   *)
(* last write, so it is one step; the threads of the scheduler call it in  *)
(* any order that the tree of tasks allows.  A write may fail, which       *)
(* raises into the task that reported; a process may be killed, and a      *)
(* later one may be given the same request id.                             *)
(***************************************************************************)
EXTENDS TaskTree, Sequences, FiniteSets

CONSTANTS
    MaxRetries, \* retry_policy.max_retries of each function
    MaxFaults,  \* bound: failed writes and kills, in the first process
    MaxRuns,    \* bound: processes with this request id
    MaxLeft     \* bound: lines left by an unfinished process before another

ASSUME ObserverAssumption ==
    /\ Root \notin Cases /\ Root \notin Functions /\ Cases \cap Functions = {}
    /\ IsFiniteSet(Cases) /\ IsFiniteSet(Functions)
    /\ CaseOf \in [Functions -> Cases]
    /\ MaxRetries \in [Functions -> Nat]
    /\ Plans \subseteq [stop : SUBSET Containers, unready : SUBSET Cases,
                      unregistered : SUBSET Functions]
    /\ Outcomes \subseteq ResultStatus \ {"running"}
    /\ MaxFaults \in Nat /\ MaxRuns \in Nat \ {0} /\ MaxLeft \in Nat

VARIABLES
    run,        \* which process this is
    phase,      \* where it is
    attempt,    \* of each function, from zero
    states,     \* task_states
    results,    \* the statuses in task_results
    sequence,   \* _sequence_by_request of this request
    log,        \* the lines this process found torn or added to the event file
    before,     \* of the lines of earlier processes: top sequence, readability
    snapshot,   \* the snapshot file
    reports,    \* the report files of this process
    faults      \* failed writes and kills so far

memory == <<stage, attempt, verdict, states, results>>
disk == <<log, before, snapshot, reports>>
vars == <<plan, run, phase, sequence, faults, memory, disk>>

Final == {"passed", "failed", "timeout", "aborted", "skipped"}
States == ResultStatus \cup {"retrying"}
Torn == [type |-> "torn"]       \* the part of a line, without its end
Garbled == [type |-> "garbled"] \* such a part and the line written after it
NoSnapshot == [run |-> 0, status |-> "pending"]
Over == {"ended", "failed", "killed"}

----------------------------------------------------------------------------
(* What a snapshot says *)

(* _build_counters *)
Counters(st) == [s \in States |-> Cardinality({t \in Tasks : st[t] = s})]

(* Mutant: what has ended outranks what still runs. *)
InferEagerly(counters) ==
    IF counters["failed"] > 0 THEN "failed"
    ELSE IF counters["running"] > 0 \/ counters["retrying"] > 0 THEN "running"
    ELSE IF counters["timeout"] > 0 THEN "timeout"
    ELSE IF counters["aborted"] > 0 THEN "aborted"
    ELSE IF counters["passed"] > 0 THEN "passed"
    ELSE IF counters["skipped"] > 0 THEN "skipped"
    ELSE "pending"

_infer_current_status(counters) ==
    IF counters["running"] > 0 \/ counters["retrying"] > 0 THEN "running"
    ELSE IF counters["failed"] > 0 THEN "failed"
    ELSE IF counters["timeout"] > 0 THEN "timeout"
    ELSE IF counters["aborted"] > 0 THEN "aborted"
    ELSE IF counters["passed"] > 0 THEN "passed"
    ELSE IF counters["skipped"] > 0 THEN "skipped"
    ELSE "pending"

(* _collect_child_statuses *)
ChildStatuses(c, st, rs) ==
    {IF rs[f] # "none" THEN rs[f] ELSE st[f] :
        f \in {k \in Kids(c) : rs[k] # "none" \/ st[k] # "none"}}

_infer_task_status(c, st, children) ==
    IF st[c] # "none" THEN st[c]
    ELSE IF children \cap {"running", "retrying"} # {} THEN "running"
    ELSE IF "failed" \in children THEN "failed"
    ELSE IF "timeout" \in children THEN "timeout"
    ELSE IF "aborted" \in children THEN "aborted"
    ELSE IF children = {"passed"} THEN "passed"
    ELSE IF children = {"skipped"} THEN "skipped"
    ELSE "pending"

(* Mutant: the cases of the plan are listed from the results reported so far *)
(* even when the fixture's own result is there.                              *)
CaseStatusAsReported(c, st, rs, v, final) ==
    IF rs[c] # "none" THEN rs[c]
    ELSE _infer_task_status(c, st, ChildStatuses(c, st, rs))

(* _build_case_summaries *)
CaseStatus(c, st, rs, v, final) ==
    IF final THEN v[c]
    ELSE IF rs[c] # "none" THEN rs[c]
    ELSE _infer_task_status(c, st, ChildStatuses(c, st, rs))

(* _write_snapshot, given the states, the results reported, all results, and *)
(* whether the fixture's is passed to it as root_result.                     *)
Snapshot(st, rs, v, final) ==
    [run      |-> run,
     status   |-> IF final THEN v[Root] ELSE _infer_current_status(Counters(st)),
     cases    |-> [c \in Cases |-> CaseStatus(c, st, rs, v, final)],
     counters |-> Counters(st)]

----------------------------------------------------------------------------
(* The event file *)

Event(type, t, s) ==
    [type |-> type, task |-> t, status |-> s, sequence |-> sequence + 1]

EndsTorn == log # <<>> /\ log[Len(log)] = Torn

(* What append leaves: a line after a torn one has no line of its own. *)
WithLine(e) == IF EndsTorn THEN [log EXCEPT ![Len(log)] = Garbled]
               ELSE Append(log, e)

WithTornLine == IF EndsTorn THEN log ELSE Append(log, Torn)

Readable == before.readable /\ \A i \in DOMAIN log : log[i] \notin {Torn, Garbled}

Sequences == {log[i].sequence : i \in {j \in DOMAIN log : log[j] \notin {Torn, Garbled}}}

TopSequence == CHOOSE n \in Sequences \cup {before.top} :
                   \A m \in Sequences \cup {before.top} : m <= n

Fault == faults < MaxFaults /\ faults' = faults + 1

(* The file could not be written, or only in part. *)
AppendFails ==
    /\ Fault
    /\ log' \in {log, WithTornLine}

----------------------------------------------------------------------------
(* The run and its tasks *)

Start(r) ==
    /\ run' = r
    /\ phase' = "planning"
    /\ stage' = [t \in Tasks |-> "idle"]
    /\ attempt' = [f \in Functions |-> 0]
    /\ verdict' = [t \in Tasks |-> "none"]
    /\ states' = [t \in Tasks |-> "none"]
    /\ results' = [t \in Tasks |-> "none"]
    /\ sequence' = 0
    /\ reports' = {}

Init ==
    /\ TreeInit
    /\ run = 1
    /\ phase = "planning"
    /\ attempt = [f \in Functions |-> 0]
    /\ states = [t \in Tasks |-> "none"]
    /\ results = [t \in Tasks |-> "none"]
    /\ sequence = 0
    /\ log = <<>>
    /\ before = [top |-> 0, readable |-> TRUE]
    /\ snapshot = NoSnapshot
    /\ reports = {}
    /\ faults = 0

on_plan_created ==
    /\ phase = "planning"
    /\ sequence' = sequence + 1
    /\ \/ /\ log' = WithLine(Event("plan_created", Root, "none"))
          /\ phase' = "running"
          /\ UNCHANGED faults
       \/ AppendFails /\ phase' = "failed"
    /\ UNCHANGED <<plan, run, memory, before, snapshot, reports>>

(* Mutant: the first state stays, as in setdefault. *)
RememberFirst(t, s) == [states EXCEPT ![t] = IF @ = "none" THEN s ELSE @]

Remember(t, s) == [states EXCEPT ![t] = s]

(* A callback for task t: state s and, if it has finished, its result; the  *)
(* event; the snapshot.  The task goes on to next, or the failed write       *)
(* raises out of it.                                                         *)
Told(type, t, s, next, v) ==
    LET st == Remember(t, s)
        rs == IF type = "task_finished" THEN [results EXCEPT ![t] = s] ELSE results
        Raises == stage' = [stage EXCEPT ![t] = "raised"] /\ UNCHANGED snapshot
    IN  /\ states' = st
        /\ results' = rs
        /\ sequence' = sequence + 1
        /\ \/ /\ log' = WithLine(Event(type, t, s))
              /\ \/ /\ snapshot' = Snapshot(st, rs, v, type = "task_finished" /\ t = Root)
                    /\ stage' = [stage EXCEPT ![t] = next]
                    /\ UNCHANGED faults
                 \/ Fault /\ Raises
           \/ AppendFails /\ Raises
        /\ UNCHANGED <<plan, run, phase, before, reports>>

(* Each start of a task, the one after a retry included. *)
on_task_started(t) ==
    /\ phase = "running"
    /\ CanStart(t) \/ stage[t] = "retrying"
    /\ Told("task_started", t, "running", "started", verdict)
    /\ UNCHANGED <<attempt, verdict>>

on_task_retried(f) ==
    /\ phase = "running" /\ CanReturn(f)
    /\ \E s \in Outcomes : should_retry(s, attempt[f], MaxRetries[f])
    /\ attempt' = [attempt EXCEPT ![f] = @ + 1]
    /\ Told("task_retried", f, "retrying", "retrying", verdict)
    /\ UNCHANGED verdict

FunctionFinishes(f) ==
    /\ phase = "running" /\ CanReturn(f)
    /\ \E s \in Outcomes :
        /\ ~should_retry(s, attempt[f], MaxRetries[f])
        /\ verdict' = [verdict EXCEPT ![f] = s]
        /\ Told("task_finished", f, s, "returned", verdict')
    /\ UNCHANGED attempt

(* The precheck of a case fails before any function is called. *)
PrecheckFails(c) ==
    /\ phase = "running" /\ CanFailPrecheck(c)
    /\ verdict' = [verdict EXCEPT ![c] = "failed"]
    /\ Told("task_finished", c, "failed", "returned", verdict')
    /\ UNCHANGED attempt

ContainerFinishes(c) ==
    /\ phase = "running" /\ CanClose(c)
    /\ verdict' = Closed(c)
    /\ Told("task_finished", c, verdict'[c], "returned", verdict')
    /\ UNCHANGED attempt

(* An exception travels without a callback: that of a function that is not   *)
(* registered, of a child, of children that can never be submitted.          *)
Raises(t) ==
    /\ phase = "running"
    /\ IF t \in Functions THEN FunctionCanRaise(t) ELSE ContainerCanRaise(t)
    /\ Enters(t, "raised")
    /\ UNCHANGED <<run, phase, sequence, faults, attempt, states, results, disk>>

RunRaises ==
    /\ phase = "running" /\ stage[Root] = "raised"
    /\ phase' = "failed"
    /\ UNCHANGED <<plan, run, sequence, faults, memory, disk>>

----------------------------------------------------------------------------
(* on_execution_finished: snapshot, events and reports, event and snapshot.  *)
(* Only the thread that called run is left.                                  *)

FinalSnapshot ==
    /\ phase = "running" /\ stage[Root] = "returned"
    /\ \/ /\ snapshot' = Snapshot(states, results, verdict, TRUE)
          /\ phase' = "reporting"
          /\ UNCHANGED faults
       \/ Fault /\ phase' = "failed" /\ UNCHANGED snapshot
    /\ UNCHANGED <<plan, run, sequence, memory, log, before, reports>>

(* Mutant: reading the events leaves the counter alone. *)
SequenceKept == UNCHANGED sequence

(* read: the counter becomes the largest number in the file. *)
SequenceRead == sequence' = TopSequence

(* The text comes before the JSON; a line that is not JSON raises first. *)
GenerateReports ==
    /\ phase = "reporting"
    /\ \/ /\ Readable
          /\ SequenceRead
          /\ \/ reports' = {"text", "json"} /\ phase' = "announcing" /\ UNCHANGED faults
             \/ Fault /\ reports' \in {{}, {"text"}} /\ phase' = "failed"
       \/ /\ ~Readable
          /\ phase' = "failed"
          /\ UNCHANGED <<sequence, reports, faults>>
    /\ UNCHANGED <<plan, run, memory, log, before, snapshot>>

AnnounceReports ==
    /\ phase = "announcing"
    /\ sequence' = sequence + 1
    /\ \/ /\ log' = WithLine(Event("report_generated", Root, verdict[Root]))
          /\ \/ /\ snapshot' = Snapshot(states, results, verdict, TRUE)
                /\ phase' = "ended"
                /\ UNCHANGED faults
             \/ Fault /\ phase' = "failed" /\ UNCHANGED snapshot
       \/ AppendFails /\ phase' = "failed" /\ UNCHANGED snapshot
    /\ UNCHANGED <<plan, run, memory, before, reports>>

----------------------------------------------------------------------------
(* Processes *)

(* Between an event and the snapshot after it, a kill leaves what the failed *)
(* write of a snapshot leaves.                                               *)
Kill ==
    /\ phase \notin Over
    /\ Fault
    /\ phase' = "killed"
    /\ UNCHANGED <<plan, run, sequence, memory, disk>>

(* Another process with the same --request-id finds the files. *)
Restart ==
    /\ phase = "ended" \/ (phase \in Over /\ Len(log) <= MaxLeft)
    /\ run < MaxRuns
    /\ Start(run + 1)
    /\ before' = [top |-> TopSequence,
                  readable |-> before.readable
                               /\ \A i \in DOMAIN log : log[i] # Garbled]
    /\ log' = IF EndsTorn THEN <<Torn>> ELSE <<>>
    /\ faults' = MaxFaults
    /\ UNCHANGED <<plan, snapshot>>

Report ==
    \/ on_plan_created
    \/ \E t \in Tasks : on_task_started(t) \/ Raises(t)
    \/ \E f \in Functions : on_task_retried(f) \/ FunctionFinishes(f)
    \/ \E c \in Cases : PrecheckFails(c)
    \/ \E c \in Containers : ContainerFinishes(c)
    \/ RunRaises
    \/ FinalSnapshot \/ GenerateReports \/ AnnounceReports

Next == Report \/ Kill \/ Restart

Spec == Init /\ [][Next]_vars

(* Function bodies end, as the module FunctionTask says of those with a      *)
(* timeout, and threads run.                                                 *)
FairSpec == Spec /\ WF_vars(Report)

----------------------------------------------------------------------------
(* Properties *)

ObserverTypeOK ==
    /\ plan \in Plans
    /\ run \in 1 .. MaxRuns
    /\ phase \in {"planning", "running", "reporting", "announcing"} \cup Over
    /\ stage \in [Tasks -> {"idle", "started", "retrying", "returned", "raised"}]
    /\ \A f \in Functions : attempt[f] \in 0 .. MaxRetries[f]
    /\ verdict \in [Tasks -> ResultStatus \cup {"none"}]
    /\ states \in [Tasks -> States \cup {"none"}]
    /\ results \in [Tasks -> ResultStatus \cup {"none"}]
    /\ sequence \in Nat
    /\ before \in [top : Nat, readable : BOOLEAN]
    /\ reports \subseteq {"text", "json"}
    /\ faults \in 0 .. MaxFaults
    /\ \A i \in DOMAIN log : log[i] \in {Torn, Garbled} \/ log[i].sequence \in Nat \ {0}
    /\ snapshot.run \in 0 .. run

(* Line i tells something of task t. *)
Tells(i, t) ==
    log[i].type \in {"task_started", "task_retried", "task_finished"} /\ log[i].task = t

Is(i, type, t) == Tells(i, t) /\ log[i].type = type

NothingSwallowed == \A i \in DOMAIN log : log[i] # Garbled

(* The state of each task as the first n lines tell it. *)
Rebuilt(n) ==
    [t \in Tasks |->
        IF \E i \in 1 .. n : Tells(i, t)
        THEN LET last == CHOOSE i \in 1 .. n :
                            Tells(i, t) /\ \A j \in i + 1 .. n : ~Tells(j, t)
             IN  log[last].status
        ELSE "none"]

(* The events of a run are well nested although many threads write them: a  *)
(* task tells nothing after its end, nothing before its parent's start or    *)
(* after its parent's end, starts again only after a retry was announced, and *)
(* in a run that ended each start has an end (doc/软件设计文档.md:805).  Said   *)
(* of the last line, since lines are only added.                              *)
EventsAreNested ==
    NothingSwallowed =>
        /\ \A t \in Tasks : log # <<>> /\ Tells(Len(log), t) =>
            LET earlier == 1 .. Len(log) - 1
                parent == ParentOf(t)
            IN  /\ \A j \in earlier : ~Is(j, "task_finished", t)
                /\ t # Root =>
                    /\ \E j \in earlier : Is(j, "task_started", parent)
                    /\ \A j \in earlier : ~Is(j, "task_finished", parent)
                /\ Is(Len(log), "task_started", t) =>
                    \A j \in earlier : Is(j, "task_started", t) =>
                        \E k \in j + 1 .. Len(log) : Is(k, "task_retried", t)
        /\ phase = "ended" =>
            \A i \in DOMAIN log, t \in Tasks : Is(i, "task_started", t) =>
                \E j \in i .. Len(log) : Is(j, "task_finished", t)

NumbersRise ==
    \A j \in 1 .. Len(log) - 1 :
        log[j] \notin {Torn, Garbled} => log[j].sequence < log[Len(log)].sequence

(* Within one process the numbers of the events increase along the file, and *)
(* the line of its reports lies above all that earlier processes wrote,      *)
(* although failed writes leave gaps and reading sets the counter anew       *)
(* (event_store.py:82).  Of the other lines of a second process nothing is   *)
(* said here: see SequenceRisesWithinRequest.                                *)
SequenceOrdersOneProcess ==
    log # <<>> /\ log[Len(log)] \notin {Torn, Garbled} =>
        /\ NumbersRise
        /\ log[Len(log)].type = "report_generated" => log[Len(log)].sequence > before.top

(* What the docs say of the numbers (doc/软件设计文档.md:1105, 1111, 1112): they *)
(* rise within a request, so that its timeline can be rebuilt by them.  The   *)
(* code does not do so: a second process with the request id counts from one  *)
(* again in the file that the first has left (event_store.py:26, 49).         *)
SequenceRisesWithinRequest ==
    log # <<>> /\ log[Len(log)] \notin {Torn, Garbled} =>
        NumbersRise /\ log[Len(log)].sequence > before.top

(* The events explain the snapshot (doc/软件设计文档.md:1203): each failed      *)
(* write costs the file the state of one task at most, whatever the tasks     *)
(* report afterwards, and while file and observer agree, the counters of the  *)
(* snapshot are those rebuilt from the file but for its last lines, one for   *)
(* each failed write.                                                         *)
EventsExplainSnapshot ==
    NothingSwallowed =>
        LET now == Rebuilt(Len(log))
        IN  /\ Cardinality({t \in Tasks : states[t] # now[t]}) <= faults
            /\ snapshot.run = run /\ states = now =>
                \/ snapshot.counters = Counters(states)
                \/ \E lag \in 1 .. faults :
                    snapshot.counters = Counters(Rebuilt(Len(log) - lag))

(* What the docs say of a failed event write (doc/软件设计文档.md:1113): it must *)
(* not affect the run.  The code does not do so: append raises through        *)
(* _append_event (event_store.py:58, logger.py:660) into the task, and from   *)
(* there up the tree: a function whose event is missing takes the fixture     *)
(* with it.                                                                   *)
LostEventSparesTheRun ==
    NothingSwallowed /\ (\E f \in Functions : states[f] # Rebuilt(Len(log))[f]) =>
        stage[Root] # "raised"

(* No reader of the snapshot is told that the run, or a case, has come to an  *)
(* end that it does not come to: a final status is the task's own, however    *)
(* the other tasks stand when it is inferred.                                 *)
NoFinalStatusTooEarly ==
    snapshot.run = run =>
        /\ snapshot.status \in Final => snapshot.status = verdict[Root]
        /\ \A c \in Cases : snapshot.cases[c] \in Final => snapshot.cases[c] = verdict[c]

(* A run that ended left a snapshot with the status of each case, those       *)
(* aborted without an event included, both reports, and the event that tells  *)
(* of them.                                                                    *)
EndedRunIsOnDisk ==
    phase = "ended" =>
        /\ snapshot.run = run
        /\ snapshot.status = verdict[Root]
        /\ snapshot.cases = [c \in Cases |-> verdict[c]]
        /\ reports = {"text", "json"}
        /\ log[Len(log)].type \in {"report_generated", "garbled"}

(* A run that is not killed comes to an end, also when writes fail and        *)
(* exceptions travel up through containers whose other children still run.    *)
RunComesToAnEnd == phase = "planning" ~> phase \in Over
====
