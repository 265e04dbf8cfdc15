---- MODULE ObserverProofs ----
(***************************************************************************)
(* Proofs about Observer, for any fixture, cases, functions, retries,      *)
(* plans, failed writes, kills and processes: how the event file is        *)
(* numbered and nested, and what the snapshot and the reports may say.     *)
(***************************************************************************)
EXTENDS Observer, PoliciesProofs

----------------------------------------------------------------------------
(* Types *)

EventTypes == {"plan_created", "task_started", "task_retried", "task_finished",
               "report_generated"}

Events == [type : EventTypes, task : Tasks, status : States \cup {"none"},
           sequence : Nat \ {0}]

Lines == Events \cup {Torn, Garbled}

Typed ==
    /\ ObserverTypeOK
    /\ attempt \in [Functions -> Nat]
    /\ log \in Seq(Lines)

Good(line) == line \notin {Torn, Garbled}

LEMMA LineFacts ==
    /\ \A e \in Events : Good(e) /\ e.type \in EventTypes /\ e.sequence \in Nat \ {0}
    /\ \A e \in Lines : Good(e) => e \in Events
    /\ Torn.type = "torn" /\ Garbled.type = "garbled" /\ Torn # Garbled
  BY DEF Events, Lines, Good, EventTypes, Torn, Garbled

(* What append does to the file: a line more, or a torn line garbled. *)
LEMMA WithLineFacts ==
    ASSUME log \in Seq(Lines), NEW e \in Events, log' = WithLine(e)
    PROVE  /\ log' \in Seq(Lines) /\ log' # <<>>
           /\ \/ /\ ~EndsTorn /\ log' = Append(log, e)
                 /\ Len(log') = Len(log) + 1 /\ log'[Len(log')] = e
                 /\ \A i \in 1 .. Len(log) : log'[i] = log[i]
              \/ /\ EndsTorn /\ Len(log') = Len(log) /\ log'[Len(log)] = Garbled
                 /\ \A i \in 1 .. Len(log) - 1 : log'[i] = log[i]
<1>1. CASE EndsTorn
  <2>1. log # <<>> /\ Len(log) \in Nat /\ Len(log) # 0 /\ DOMAIN log = 1 .. Len(log)
    BY <1>1 DEF EndsTorn
  <2>2. log' = [log EXCEPT ![Len(log)] = Garbled]
    BY <1>1 DEF WithLine
  <2>3. log' \in Seq(Lines) /\ Len(log') = Len(log)
    BY <2>1, <2>2 DEF Lines
  <2>4. log'[Len(log)] = Garbled
    BY <2>1, <2>2
  <2>6. ASSUME NEW i \in 1 .. Len(log) - 1 PROVE log'[i] = log[i]
    <3>0. Len(log) \in Nat
      BY <2>1
    <3>3. i \in 1 .. Len(log) /\ i # Len(log)
      BY <3>0
    <3>1. i \in DOMAIN log /\ i # Len(log)
      BY <2>1, <3>3
    <3> QED
      BY <2>2, <3>1
  <2>5. log' # <<>>
    BY <2>1, <2>3
  <2> QED
    BY <1>1, <2>3, <2>4, <2>5, <2>6
<1>2. CASE ~EndsTorn
  <2>1. log' = Append(log, e)
    BY <1>2 DEF WithLine
  <2> QED
    BY <1>2, <2>1 DEF Lines
<1> QED
  BY <1>1, <1>2

(* A write that fails leaves the file or the part of a line. *)
LEMMA TornFacts ==
    ASSUME log \in Seq(Lines), log' \in {log, WithTornLine}
    PROVE  /\ log' \in Seq(Lines)
           /\ \/ log' = log
              \/ /\ Len(log') = Len(log) + 1 /\ log'[Len(log')] = Torn
                 /\ \A i \in 1 .. Len(log) : log'[i] = log[i]
<1>1. CASE log' = log
  BY <1>1
<1>2. CASE log' # log
  <2>1. log' = Append(log, Torn)
    BY <1>2 DEF WithTornLine
  <2> QED
    BY <2>1 DEF Lines
<1> QED
  BY <1>1, <1>2

Stages == {"idle", "started", "retrying", "returned", "raised"}

LEMMA TreeFacts ==
    /\ Root \in Containers /\ Cases \subseteq Containers /\ Containers \subseteq Tasks
    /\ Functions \subseteq Tasks /\ Containers \cap Functions = {}
    /\ \A t \in Tasks : t # Root => t \in Kids(ParentOf(t))
    /\ \A t \in Tasks : ParentOf(t) \in Containers
    /\ \A c \in Containers : \A k \in Kids(c) :
          k \in Tasks /\ k # Root /\ k # c /\ ParentOf(k) = c
<1> USE ObserverAssumption
<1>1. ASSUME NEW f \in Functions
      PROVE  ParentOf(f) = CaseOf[f] /\ CaseOf[f] \in Cases /\ f \in Kids(CaseOf[f])
  BY DEF ParentOf, Kids
<1>2. ASSUME NEW c \in Cases PROVE ParentOf(c) = Root /\ c \in Kids(Root)
  BY DEF ParentOf, Kids
<1>3. ParentOf(Root) = Root
  BY DEF ParentOf
<1>4. ASSUME NEW c \in Containers, NEW k \in Kids(c)
      PROVE  k \in Tasks /\ k # Root /\ k # c /\ ParentOf(k) = c
  <2>1. CASE c = Root
    BY <1>2, <1>4, <2>1 DEF Kids, Containers, Tasks
  <2>2. CASE c # Root
    BY <1>1, <1>4, <2>2 DEF Kids, Containers, Tasks
  <2> QED
    BY <2>1, <2>2
<1> QED
  BY <1>1, <1>2, <1>3, <1>4 DEF Containers, Tasks

(* The outcomes of a callback: everything is written, or a write fails. *)
LEMMA ToldFacts ==
    ASSUME Typed, NEW type \in {"task_started", "task_retried", "task_finished"},
           NEW t \in Tasks, NEW s \in States, NEW next, NEW v,
           Told(type, t, s, next, v)
    PROVE  /\ states' = [states EXCEPT ![t] = s]
           /\ results' = IF type = "task_finished" THEN [results EXCEPT ![t] = s] ELSE results
           /\ sequence' = sequence + 1
           /\ UNCHANGED <<plan, run, phase, before, reports>>
           /\ Event(type, t, s) \in Events
           /\ \/ /\ log' = WithLine(Event(type, t, s))
                 /\ snapshot' = Snapshot(states', results', v, type = "task_finished" /\ t = Root)
                 /\ stage' = [stage EXCEPT ![t] = next]
                 /\ UNCHANGED faults
              \/ /\ log' = WithLine(Event(type, t, s))
                 /\ stage' = [stage EXCEPT ![t] = "raised"]
                 /\ UNCHANGED snapshot /\ Fault
              \/ /\ log' \in {log, WithTornLine}
                 /\ stage' = [stage EXCEPT ![t] = "raised"]
                 /\ UNCHANGED snapshot /\ Fault
<1>1. Event(type, t, s) \in Events
  <2>1. sequence + 1 \in Nat \ {0}
    BY DEF Typed, ObserverTypeOK
  <2> QED
    BY <2>1 DEF Event, Events, EventTypes
<1>2. /\ states' = [states EXCEPT ![t] = s]
      /\ results' = IF type = "task_finished" THEN [results EXCEPT ![t] = s] ELSE results
      /\ sequence' = sequence + 1
      /\ UNCHANGED <<plan, run, phase, before, reports>>
  BY DEF Told, Remember
<1> DEFINE Raising == stage' = [stage EXCEPT ![t] = "raised"] /\ UNCHANGED snapshot
<1>3. \/ /\ log' = WithLine(Event(type, t, s))
         /\ \/ /\ snapshot' = Snapshot(states', results', v, type = "task_finished" /\ t = Root)
               /\ stage' = [stage EXCEPT ![t] = next]
               /\ UNCHANGED faults
            \/ Fault /\ Raising
      \/ AppendFails /\ Raising
  BY <1>2 DEF Told, Remember
<1> QED
  BY <1>1, <1>2, <1>3 DEF AppendFails

(* Only a fixture that finishes is told of as final. *)
LEMMA ToldMidway ==
    ASSUME Typed, NEW type \in {"task_started", "task_retried"},
           NEW t \in Tasks, NEW s \in States, NEW next, NEW v,
           Told(type, t, s, next, v)
    PROVE  snapshot' = snapshot \/ snapshot' = Snapshot(states', results', v, FALSE)
<1>1. (type = "task_finished" /\ t = Root) = FALSE
  OBVIOUS
<1>2. \/ snapshot' = snapshot
      \/ snapshot' = Snapshot(states', results', v, type = "task_finished" /\ t = Root)
  BY ToldFacts
<1> QED
  BY <1>1, <1>2

(* A task that finishes does so with a result for itself, and a container    *)
(* for its aborted children as well.                                         *)
Finishes(t) ==
    /\ phase = "running" /\ stage[t] = "started"
    /\ Told("task_finished", t, verdict'[t], "returned", verdict')
    /\ verdict'[t] \in ResultStatus
    /\ \/ /\ t \in Functions \/ (t \in Cases /\ t \in plan.unready)
          /\ verdict' = [verdict EXCEPT ![t] = verdict'[t]] /\ verdict'[t] # "running"
       \/ t \in Containers /\ CanClose(t) /\ verdict' = Closed(t)

LEMMA FinishKinds ==
    ASSUME Typed, \/ \E f \in Functions : FunctionFinishes(f)
                  \/ \E c \in Cases : PrecheckFails(c)
                  \/ \E c \in Containers : ContainerFinishes(c)
    PROVE  \E t \in Tasks : Finishes(t)
<1> USE DEF Typed, ObserverTypeOK
<1>1. ASSUME NEW f \in Functions, FunctionFinishes(f) PROVE Finishes(f)
  <2>1. PICK s \in Outcomes :
          /\ verdict' = [verdict EXCEPT ![f] = s]
          /\ Told("task_finished", f, s, "returned", verdict')
    BY <1>1 DEF FunctionFinishes
  <2>2. verdict'[f] = s /\ s \in ResultStatus /\ s # "running"
    BY <2>1, TreeFacts, ObserverAssumption
  <2> QED
    BY <1>1, <2>1, <2>2 DEF FunctionFinishes, Finishes, CanReturn
<1>2. ASSUME NEW c \in Cases, PrecheckFails(c) PROVE Finishes(c)
  <2>1. verdict'[c] = "failed" /\ verdict' = [verdict EXCEPT ![c] = verdict'[c]]
    BY <1>2, TreeFacts DEF PrecheckFails
  <2> QED
    BY <1>2, <2>1 DEF PrecheckFails, Finishes, CanFailPrecheck, ResultStatus
<1>3. ASSUME NEW c \in Containers, ContainerFinishes(c) PROVE Finishes(c)
  <2>1. verdict'[c] \in ResultStatus
    BY <1>3, TreeFacts, AggregateType DEF ContainerFinishes, Closed
  <2> QED
    BY <1>3, <2>1 DEF ContainerFinishes, Finishes, CanClose
<1> QED
  BY <1>1, <1>2, <1>3, TreeFacts

LEMMA TypedInit == Init => Typed
<1> SUFFICES ASSUME Init PROVE Typed
  OBVIOUS
<1>1. ObserverTypeOK
  BY ObserverAssumption DEF Init, TreeInit, ObserverTypeOK, NoSnapshot, Over, States
<1> QED
  BY <1>1 DEF Init, Typed

LEMMA LogTyped ==
    ASSUME NEW l \in Seq(Lines)
    PROVE  \A i \in DOMAIN l : l[i] \in {Torn, Garbled} \/ l[i].sequence \in Nat \ {0}
<1> SUFFICES ASSUME NEW i \in DOMAIN l
             PROVE  l[i] \in {Torn, Garbled} \/ l[i].sequence \in Nat \ {0}
  OBVIOUS
<1>1. l[i] \in Lines
  OBVIOUS
<1> QED
  BY <1>1, LineFacts DEF Good

(* What a callback writes has its type. *)
LEMMA ToldTyped ==
    ASSUME Typed, NEW type \in {"task_started", "task_retried", "task_finished"},
           NEW t \in Tasks, NEW s \in States, NEW next \in Stages, NEW v,
           type = "task_finished" => s \in ResultStatus,
           Told(type, t, s, next, v),
           attempt' \in [Functions -> Nat], \A f \in Functions : attempt'[f] \in 0 .. MaxRetries[f],
           verdict' \in [Tasks -> ResultStatus \cup {"none"}]
    PROVE  Typed'
<1> USE DEF Typed, ObserverTypeOK
<1>1. /\ states' = [states EXCEPT ![t] = s]
      /\ results' = IF type = "task_finished" THEN [results EXCEPT ![t] = s] ELSE results
      /\ sequence' = sequence + 1
      /\ UNCHANGED <<plan, run, phase, before, reports>>
      /\ Event(type, t, s) \in Events
  BY ToldFacts
<1>2. stage' \in [Tasks -> Stages]
  <2>1. stage' = [stage EXCEPT ![t] = next] \/ stage' = [stage EXCEPT ![t] = "raised"]
    BY ToldFacts
  <2> QED
    BY <2>1 DEF Stages
<1>3. log' \in Seq(Lines)
  <2>1. log' = WithLine(Event(type, t, s)) \/ log' \in {log, WithTornLine}
    BY ToldFacts
  <2> QED
    BY <1>1, <2>1, WithLineFacts, TornFacts
<1>4. faults' \in 0 .. MaxFaults
  <2>1. faults' = faults \/ Fault
    BY ToldFacts
  <2> QED
    BY <2>1, ObserverAssumption DEF Fault
<1>5. snapshot'.run \in 0 .. run
  <2>1. snapshot' = snapshot \/ snapshot' = Snapshot(states', results', v, type = "task_finished" /\ t = Root)
    BY ToldFacts
  <2>2. CASE snapshot' # snapshot
    <3>1. snapshot'.run = run
      BY <2>1, <2>2 DEF Snapshot
    <3> QED
      BY <3>1, ObserverAssumption
  <2> QED
    BY <2>2
<1>6. results' \in [Tasks -> ResultStatus \cup {"none"}]
  BY <1>1
<1>7. states' \in [Tasks -> States \cup {"none"}]
  BY <1>1
<1>8. \A i \in DOMAIN log' : log'[i] \in {Torn, Garbled} \/ log'[i].sequence \in Nat \ {0}
  BY <1>3, LogTyped
<1> HIDE DEF Typed, ObserverTypeOK
<1> QED
  BY <1>1, <1>2, <1>3, <1>4, <1>5, <1>6, <1>7, <1>8 DEF Typed, ObserverTypeOK, Stages

LEMMA FaultCounted ==
    ASSUME Typed, faults' = faults \/ Fault
    PROVE  faults' \in 0 .. MaxFaults
  BY ObserverAssumption DEF Typed, ObserverTypeOK, Fault

LEMMA SnapshotOfRun ==
    ASSUME Typed, NEW st, NEW rs, NEW v, NEW final \in BOOLEAN,
           snapshot' = snapshot \/ snapshot' = Snapshot(st, rs, v, final)
    PROVE  snapshot'.run \in 0 .. run
<1>1. run \in Nat /\ snapshot.run \in 0 .. run
  BY ObserverAssumption DEF Typed, ObserverTypeOK
<1>2. snapshot' # snapshot => snapshot'.run = run
  BY DEF Snapshot
<1> QED
  BY <1>1, <1>2

LEMMA SequencesFinite ==
    ASSUME Typed, NEW n \in Nat, \A i \in DOMAIN log : Good(log[i]) => log[i].sequence <= n
    PROVE  Sequences \in SUBSET Nat /\ IsFiniteSet(Sequences)
<1>1. Sequences \in SUBSET Nat
  BY LogTyped DEF Sequences, Typed
<1>2. \A m \in Sequences : m <= n
  BY DEF Sequences, Good
<1> QED
  BY <1>1, <1>2, FS_BoundedSetOfNaturals

(* The counter is never behind the file. *)
CounterInv == \A i \in DOMAIN log : Good(log[i]) => log[i].sequence <= sequence

LEMMA TopFacts ==
    ASSUME Typed, CounterInv
    PROVE  /\ TopSequence \in Nat /\ before.top <= TopSequence
           /\ \A i \in DOMAIN log : Good(log[i]) => log[i].sequence <= TopSequence
<1> DEFINE S == Sequences \cup {before.top}
<1>1. sequence \in Nat /\ before.top \in Nat
  BY DEF Typed, ObserverTypeOK
<1>2. Sequences \in SUBSET Nat /\ IsFiniteSet(Sequences)
  BY <1>1, SequencesFinite DEF CounterInv
<1>3. S \in SUBSET Int /\ IsFiniteSet(S) /\ S # {}
  <2>1. IsFiniteSet(S)
    BY <1>2, FS_AddElement
  <2>2. before.top \in S /\ before.top \in Int
    BY <1>1
  <2>3. ASSUME NEW m \in S PROVE m \in Int
    <3>1. Sequences \subseteq Nat
      BY <1>2
    <3>2. m \in Sequences \/ m = before.top
      OBVIOUS
    <3> QED
      BY <2>2, <3>1, <3>2
  <2> QED
    BY <2>1, <2>2, <2>3
<1>4. TopSequence \in S /\ \A m \in S : m <= TopSequence
  <2>1. \E n \in S : \A m \in S : m <= n
    BY <1>3, LargestExists
  <2> QED
    BY <2>1 DEF TopSequence
<1>5. \A i \in DOMAIN log : Good(log[i]) => log[i].sequence \in Sequences
  BY DEF Sequences, Good
<1> QED
  BY <1>1, <1>2, <1>4, <1>5

(* Only one line is added or garbled, and the counter is raised for it. *)
LEMMA CounterKept ==
    ASSUME Typed, CounterInv, sequence' = sequence + 1,
           NEW e \in Events, e.sequence = sequence + 1,
           log' = WithLine(e) \/ log' \in {log, WithTornLine}
    PROVE  CounterInv'
<1>0. log \in Seq(Lines) /\ sequence \in Nat /\ Len(log) \in Nat /\ DOMAIN log = 1 .. Len(log)
  BY DEF Typed, ObserverTypeOK
<1>1. log' \in Seq(Lines)
  BY <1>0, WithLineFacts, TornFacts
<1>2. \A i \in 1 .. Len(log) : Good(log[i]) => log[i].sequence <= sequence /\ log[i].sequence \in Nat
  BY <1>0, LogTyped DEF CounterInv, Good
<1> SUFFICES ASSUME NEW i \in 1 .. Len(log'), Good(log'[i])
             PROVE  log'[i].sequence <= sequence + 1
  BY <1>1 DEF CounterInv
<1>3. CASE log' = WithLine(e)
  <2>1. \/ i \in 1 .. Len(log) /\ log'[i] = log[i]
        \/ log'[i] = e
        \/ log'[i] = Garbled
    BY <1>0, <1>3, WithLineFacts
  <2> QED
    BY <1>0, <1>2, <2>1 DEF Good
<1>4. CASE log' \in {log, WithTornLine}
  <2>1. \/ i \in 1 .. Len(log) /\ log'[i] = log[i]
        \/ log'[i] = Torn
    BY <1>0, <1>4, TornFacts
  <2> QED
    BY <1>0, <1>2, <2>1 DEF Good
<1> QED
  BY <1>3, <1>4

(* An event of the process is a line. *)
LEMMA ProcessEvents ==
    ASSUME Typed, NEW type \in EventTypes, NEW s \in States \cup {"none"}
    PROVE  /\ Event(type, Root, s) \in Events
           /\ Event(type, Root, s).sequence = sequence + 1
<1>1. sequence + 1 \in Nat \ {0}
  BY DEF Typed, ObserverTypeOK
<1> QED
  BY <1>1, TreeFacts DEF Event, Events

LEMMA TypedStep ==
    ASSUME Typed, CounterInv, [Next]_vars
    PROVE  Typed' /\ CounterInv'
<1> USE ObserverAssumption
<1>0. /\ log \in Seq(Lines) /\ attempt \in [Functions -> Nat]
      /\ ObserverTypeOK
  BY DEF Typed
(* A callback *)
<1>1. ASSUME NEW type \in {"task_started", "task_retried", "task_finished"},
             NEW t \in Tasks, NEW s \in States, NEW next \in Stages, NEW v,
             Told(type, t, s, next, v)
      PROVE  CounterInv'
  <2>1. /\ Event(type, t, s) \in Events /\ sequence' = sequence + 1
        /\ log' = WithLine(Event(type, t, s)) \/ log' \in {log, WithTornLine}
    BY <1>1, ToldFacts
  <2>2. Event(type, t, s).sequence = sequence + 1
    BY DEF Event
  <2> HIDE DEF Event
  <2> QED
    BY <2>1, <2>2, CounterKept
<1>2. ASSUME NEW t \in Tasks, on_task_started(t) PROVE Typed' /\ CounterInv'
  <2>1. /\ Told("task_started", t, "running", "started", verdict)
        /\ UNCHANGED <<attempt, verdict>>
    BY <1>2 DEF on_task_started
  <2>2. "running" \in States /\ "started" \in Stages
    BY DEF States, ResultStatus, Stages
  <2>3. Typed'
    BY <1>0, <2>1, <2>2, ToldTyped DEF ObserverTypeOK
  <2> QED
    BY <1>1, <2>1, <2>2, <2>3
<1>3. ASSUME NEW f \in Functions, on_task_retried(f) PROVE Typed' /\ CounterInv'
  <2>1. /\ Told("task_retried", f, "retrying", "retrying", verdict)
        /\ verdict' = verdict
    BY <1>3 DEF on_task_retried
  <2>2. "retrying" \in States /\ "retrying" \in Stages /\ f \in Tasks
    BY TreeFacts DEF States, Stages
  <2>3. attempt' \in [Functions -> Nat] /\ \A g \in Functions : attempt'[g] \in 0 .. MaxRetries[g]
    <3>1. attempt' = [attempt EXCEPT ![f] = @ + 1] /\ attempt[f] < MaxRetries[f]
      BY <1>3 DEF on_task_retried, should_retry
    <3> QED
      BY <1>0, <3>1 DEF ObserverTypeOK
  <2>4. Typed'
    BY <1>0, <2>1, <2>2, <2>3, ToldTyped DEF ObserverTypeOK
  <2> QED
    BY <1>1, <2>1, <2>2, <2>4
<1>4. ASSUME \/ \E f \in Functions : FunctionFinishes(f)
             \/ \E c \in Cases : PrecheckFails(c)
             \/ \E c \in Containers : ContainerFinishes(c)
      PROVE  Typed' /\ CounterInv'
  <2>1. PICK t \in Tasks : Finishes(t)
    BY <1>4, FinishKinds
  <2>2. attempt' = attempt
    BY <1>4 DEF FunctionFinishes, PrecheckFails, ContainerFinishes
  <2>3. verdict'[t] \in States /\ verdict'[t] \in ResultStatus /\ "returned" \in Stages
    BY <2>1 DEF Finishes, States, Stages
  <2>4. verdict' \in [Tasks -> ResultStatus \cup {"none"}]
    <3>1. CASE verdict' = [verdict EXCEPT ![t] = verdict'[t]]
      BY <1>0, <2>3, <3>1 DEF ObserverTypeOK
    <3>2. CASE verdict' = Closed(t)
      <4>1. \A k \in Tasks : ResultOf(k) \in ResultStatus \cup {"none"}
        BY <1>0 DEF ObserverTypeOK, ResultOf, ResultStatus
      <4> QED
        BY <1>0, <3>2, <4>1, AggregateType DEF ObserverTypeOK, Closed
    <3> QED
      BY <2>1, <3>1, <3>2 DEF Finishes
  <2>5. Told("task_finished", t, verdict'[t], "returned", verdict')
    BY <2>1 DEF Finishes
  <2>6. Typed'
    BY <1>0, <2>2, <2>3, <2>4, <2>5, ToldTyped DEF ObserverTypeOK
  <2> QED
    BY <1>1, <2>3, <2>5, <2>6
(* Other steps write to the log at most. *)
<1>5. ASSUME on_plan_created \/ AnnounceReports PROVE Typed' /\ CounterInv'
  <2>1. PICK e \in Events : /\ e.sequence = sequence + 1
                            /\ log' = WithLine(e) \/ log' \in {log, WithTornLine}
    <3>1. CASE on_plan_created
      BY <3>1, ProcessEvents DEF on_plan_created, AppendFails, EventTypes
    <3>2. CASE AnnounceReports
      <4>1. verdict[Root] \in States \cup {"none"}
        BY <1>0, TreeFacts DEF ObserverTypeOK, States
      <4> QED
        BY <3>2, <4>1, ProcessEvents DEF AnnounceReports, AppendFails, EventTypes
    <3> QED
      BY <1>5, <3>1, <3>2
  <2>2. sequence' = sequence + 1
    BY <1>5 DEF on_plan_created, AnnounceReports
  <2>3. CounterInv' /\ log' \in Seq(Lines)
    BY <1>0, <2>1, <2>2, CounterKept, WithLineFacts, TornFacts
  <2>4. \A i \in DOMAIN log' : log'[i] \in {Torn, Garbled} \/ log'[i].sequence \in Nat \ {0}
    BY <2>3, LogTyped
  <2>5. UNCHANGED <<plan, run, memory, before, reports>>
    BY <1>5 DEF on_plan_created, AnnounceReports
  <2>6. sequence' \in Nat
    BY <1>0, <2>2 DEF ObserverTypeOK
  <2>7. phase' \in {"running", "ended", "failed"} /\ (faults' = faults \/ Fault)
    BY <1>5 DEF on_plan_created, AnnounceReports, AppendFails
  <2>8. faults' \in 0 .. MaxFaults
    BY <2>7, FaultCounted
  <2>9. snapshot'.run \in 0 .. run
    <3>1. snapshot' = snapshot \/ snapshot' = Snapshot(states, results, verdict, TRUE)
      BY <1>5 DEF on_plan_created, AnnounceReports
    <3> QED
      BY <3>1, SnapshotOfRun
  <2> QED
    BY <1>0, <2>3, <2>4, <2>5, <2>6, <2>7, <2>8, <2>9 DEF Typed, ObserverTypeOK, memory, Over
<1>6. ASSUME NEW t \in Tasks, Raises(t) PROVE Typed' /\ CounterInv'
  BY <1>0, <1>6 DEF Raises, Enters, disk, Typed, ObserverTypeOK, CounterInv
<1>7. CASE FinalSnapshot
  <2>1. snapshot'.run \in 0 .. run
    <3>1. snapshot' = snapshot \/ snapshot' = Snapshot(states, results, verdict, TRUE)
      BY <1>7 DEF FinalSnapshot
    <3> QED
      BY <3>1, SnapshotOfRun
  <2>2. faults' \in 0 .. MaxFaults /\ phase' \in {"reporting", "failed"}
    BY <1>7, FaultCounted DEF FinalSnapshot
  <2>3. UNCHANGED <<plan, run, sequence, memory, log, before, reports>>
    BY <1>7 DEF FinalSnapshot
  <2> QED
    BY <1>0, <2>1, <2>2, <2>3 DEF memory, Over, Typed, ObserverTypeOK, CounterInv
<1>8. CASE GenerateReports
  <2>1. /\ UNCHANGED <<plan, run, memory, log, before, snapshot>>
        /\ phase' \in {"announcing", "failed"} /\ (faults' = faults \/ Fault)
        /\ reports' \in {reports, {}, {"text"}, {"text", "json"}}
        /\ sequence' = sequence \/ sequence' = TopSequence
    BY <1>8 DEF GenerateReports, SequenceRead
  <2>2. sequence' \in Nat /\ CounterInv'
    BY <1>0, <2>1, TopFacts DEF CounterInv, ObserverTypeOK
  <2>3. faults' \in 0 .. MaxFaults
    BY <2>1, FaultCounted
  <2> QED
    BY <1>0, <2>1, <2>2, <2>3 DEF memory, Over, Typed, ObserverTypeOK
<1>9. CASE Kill \/ RunRaises
  <2>1. /\ UNCHANGED <<plan, run, sequence, memory, disk>>
        /\ phase' \in Over /\ faults' \in 0 .. MaxFaults
    BY <1>0, <1>9 DEF Kill, RunRaises, Fault, Over, ObserverTypeOK
  <2> QED
    BY <1>0, <2>1 DEF memory, disk, Typed, ObserverTypeOK, CounterInv
<1>10. CASE Restart
  <2>1. /\ run < MaxRuns /\ run' = run + 1 /\ phase' = "planning" /\ sequence' = 0 /\ reports' = {}
        /\ stage' = [t \in Tasks |-> "idle"] /\ attempt' = [f \in Functions |-> 0]
        /\ verdict' = [t \in Tasks |-> "none"] /\ states' = [t \in Tasks |-> "none"]
        /\ results' = [t \in Tasks |-> "none"]
        /\ faults' = MaxFaults /\ UNCHANGED <<plan, snapshot>>
        /\ log' = <<Torn>> \/ log' = <<>>
        /\ before'.top = TopSequence /\ before' \in [top : {TopSequence}, readable : BOOLEAN]
    <3>1. \E b \in BOOLEAN : before' = [top |-> TopSequence, readable |-> b]
      BY <1>0, <1>10 DEF Restart, ObserverTypeOK
    <3>2. before'.top = TopSequence /\ before' \in [top : {TopSequence}, readable : BOOLEAN]
      BY <3>1
    <3> QED
      BY <1>10, <3>2 DEF Restart, Start
  <2>2. before' \in [top : Nat, readable : BOOLEAN]
    BY <2>1, TopFacts
  <2>3. log' \in Seq(Lines) /\ \A i \in DOMAIN log' : log'[i] = Torn
    <3>1. Torn \in Lines
      BY DEF Lines
    <3>2. <<Torn>> \in Seq(Lines) /\ \A i \in DOMAIN <<Torn>> : <<Torn>>[i] = Torn
      BY <3>1
    <3>3. <<>> \in Seq(Lines) /\ DOMAIN <<>> = {}
      OBVIOUS
    <3> QED
      BY <2>1, <3>2, <3>3
  <2>4. CounterInv'
    BY <2>3 DEF CounterInv, Good
  <2> QED
    BY <1>0, <2>1, <2>2, <2>3, <2>4 DEF Typed, ObserverTypeOK, States
<1>11. CASE UNCHANGED vars
  BY <1>0, <1>11 DEF vars, memory, disk, Typed, ObserverTypeOK, CounterInv
<1> QED
  BY <1>2, <1>3, <1>4, <1>5, <1>6, <1>7, <1>8, <1>9, <1>10, <1>11 DEF Next, Report

LEMMA AlwaysTyped == Spec => [](Typed /\ CounterInv)
<1>1. Init => Typed /\ CounterInv
  BY TypedInit DEF Init, CounterInv
<1>2. Typed /\ CounterInv /\ [Next]_vars => Typed' /\ CounterInv'
  BY TypedStep
<1> QED
  BY <1>1, <1>2, PTL DEF Spec

(* Every variable of the observer and every number in the file has its type. *)
THEOREM ObserverTyping == Spec => []ObserverTypeOK
<1>1. Typed => ObserverTypeOK
  BY DEF Typed
<1> QED
  BY <1>1, AlwaysTyped, PTL

----------------------------------------------------------------------------
(* The numbers of the events *)

OrderInv ==
    /\ \A i, j \in 1 .. Len(log) :
        i < j /\ Good(log[i]) /\ Good(log[j]) => log[i].sequence < log[j].sequence
    /\ phase = "announcing" => before.top <= sequence
    /\ \A i \in 1 .. Len(log) :
        log[i].type = "report_generated" => log[i].sequence > before.top

(* A line with the next number keeps the order. *)
LEMMA OrderKept ==
    ASSUME Typed, CounterInv, OrderInv, NEW e \in Events, e.sequence = sequence + 1,
           log' = WithLine(e) \/ log' \in {log, WithTornLine},
           before' = before, phase' # "announcing",
           e.type = "report_generated" => phase = "announcing"
    PROVE  OrderInv'
<1> DEFINE n == Len(log)
           Rising(l) == \A i, j \in 1 .. Len(l) :
               i < j /\ Good(l[i]) /\ Good(l[j]) => l[i].sequence < l[j].sequence
           Reports(l) == \A i \in 1 .. Len(l) :
               l[i].type = "report_generated" => l[i].sequence > before.top
<1>0. /\ log \in Seq(Lines) /\ n \in Nat /\ DOMAIN log = 1 .. n
      /\ sequence \in Nat /\ before.top \in Nat
  BY DEF Typed, ObserverTypeOK
<1>1. \A i \in 1 .. n : Good(log[i]) => log[i].sequence \in Nat /\ log[i].sequence <= sequence
  BY <1>0, LogTyped DEF CounterInv, Good
<1>2. Rising(log) /\ Reports(log)
  BY DEF OrderInv
(* The lines are the old ones but for the last, which is e or says nothing. *)
<1>3. /\ Len(log') \in {n, n + 1}
      /\ \A i \in 1 .. Len(log') :
            \/ i \in 1 .. n /\ log'[i] = log[i]
            \/ i = Len(log') /\ i = n + 1 /\ log'[i] = e
            \/ log'[i] \in {Torn, Garbled}
  <2>1. CASE log' = WithLine(e)
    BY <1>0, <2>1, WithLineFacts
  <2>2. CASE log' \in {log, WithTornLine}
    BY <1>0, <2>2, TornFacts
  <2> QED
    BY <2>1, <2>2
<1>4. Rising(log')
  <2> SUFFICES ASSUME NEW i \in 1 .. Len(log'), NEW j \in 1 .. Len(log'), i < j,
                      Good(log'[i]), Good(log'[j])
               PROVE  log'[i].sequence < log'[j].sequence
    OBVIOUS
  <2>1. i \in 1 .. n /\ log'[i] = log[i]
    BY <1>0, <1>3 DEF Good
  <2>2. CASE j \in 1 .. n /\ log'[j] = log[j]
    BY <1>2, <2>1, <2>2
  <2>3. CASE log'[j] = e
    BY <1>0, <1>1, <2>1, <2>3
  <2> QED
    BY <1>3, <2>2, <2>3 DEF Good
<1>5. Reports(log')
  <2> SUFFICES ASSUME NEW i \in 1 .. Len(log'), log'[i].type = "report_generated"
               PROVE  log'[i].sequence > before.top
    OBVIOUS
  <2>1. CASE i \in 1 .. n /\ log'[i] = log[i]
    BY <1>2, <2>1
  <2>2. CASE log'[i] = e
    BY <1>0, <2>2 DEF OrderInv
  <2>3. log'[i] \notin {Torn, Garbled}
    BY LineFacts
  <2> QED
    BY <1>3, <2>1, <2>2, <2>3
<1> QED
  BY <1>4, <1>5 DEF OrderInv

LEMMA OrderStep ==
    ASSUME Typed, CounterInv, OrderInv, [Next]_vars
    PROVE  OrderInv'
<1>1. ASSUME NEW type \in {"task_started", "task_retried", "task_finished"},
             NEW t \in Tasks, NEW s \in States, NEW next \in Stages, NEW v,
             phase = "running", Told(type, t, s, next, v)
      PROVE  OrderInv'
  <2>1. /\ Event(type, t, s) \in Events /\ sequence' = sequence + 1 /\ phase' = phase
        /\ log' = WithLine(Event(type, t, s)) \/ log' \in {log, WithTornLine}
        /\ before' = before
    BY <1>1, ToldFacts
  <2>2. Event(type, t, s).sequence = sequence + 1 /\ Event(type, t, s).type = type
    BY DEF Event
  <2> HIDE DEF Event
  <2> QED
    BY <1>1, <2>1, <2>2, OrderKept
<1>2. ASSUME NEW t \in Tasks, on_task_started(t) PROVE OrderInv'
  <2>1. "running" \in States /\ "started" \in Stages
    BY DEF States, ResultStatus, Stages
  <2> QED
    BY <1>1, <1>2, <2>1 DEF on_task_started
<1>3. ASSUME NEW f \in Functions, on_task_retried(f) PROVE OrderInv'
  <2>1. "retrying" \in States /\ "retrying" \in Stages /\ f \in Tasks
    BY TreeFacts DEF States, Stages
  <2> QED
    BY <1>1, <1>3, <2>1 DEF on_task_retried
<1>4. ASSUME \/ \E f \in Functions : FunctionFinishes(f)
             \/ \E c \in Cases : PrecheckFails(c)
             \/ \E c \in Containers : ContainerFinishes(c)
      PROVE  OrderInv'
  <2>1. PICK t \in Tasks : Finishes(t)
    BY <1>4, FinishKinds
  <2>2. verdict'[t] \in States /\ "returned" \in Stages
    BY <2>1 DEF Finishes, States, Stages
  <2> QED
    BY <1>1, <2>1, <2>2 DEF Finishes
<1>5. CASE on_plan_created
  <2>1. "plan_created" \in EventTypes /\ "none" \in States \cup {"none"}
    BY DEF EventTypes
  <2>2. /\ Event("plan_created", Root, "none") \in Events
        /\ Event("plan_created", Root, "none").sequence = sequence + 1
        /\ Event("plan_created", Root, "none").type = "plan_created"
    BY <2>1, ProcessEvents DEF Event
  <2>3. /\ log' = WithLine(Event("plan_created", Root, "none")) \/ log' \in {log, WithTornLine}
        /\ before' = before /\ phase' \in {"running", "failed"}
    BY <1>5 DEF on_plan_created, AppendFails
  <2> HIDE DEF Event
  <2> QED
    BY <2>2, <2>3, OrderKept
<1>6. CASE AnnounceReports
  <2>1. "report_generated" \in EventTypes /\ verdict[Root] \in States \cup {"none"}
    BY TreeFacts DEF EventTypes, Typed, ObserverTypeOK, States
  <2>2. /\ Event("report_generated", Root, verdict[Root]) \in Events
        /\ Event("report_generated", Root, verdict[Root]).sequence = sequence + 1
    BY <2>1, ProcessEvents
  <2>3. /\ \/ log' = WithLine(Event("report_generated", Root, verdict[Root]))
           \/ log' \in {log, WithTornLine}
        /\ before' = before /\ phase = "announcing" /\ phase' \in {"ended", "failed"}
    BY <1>6 DEF AnnounceReports, AppendFails
  <2> HIDE DEF Event
  <2> QED
    BY <2>2, <2>3, OrderKept
<1>7. CASE GenerateReports
  <2>1. /\ UNCHANGED <<log, before>>
        /\ phase' = "announcing" => sequence' = TopSequence
    BY <1>7 DEF GenerateReports, SequenceRead
  <2> QED
    BY <2>1, TopFacts DEF OrderInv
<1>8. CASE Restart
  <2>1. (log' = <<Torn>> \/ log' = <<>>) /\ phase' = "planning"
    BY <1>8 DEF Restart, Start
  <2>2. \A i \in 1 .. Len(log') : log'[i] = Torn
    BY <2>1
  <2> QED
    BY <2>1, <2>2, LineFacts DEF OrderInv, Good
<1>9. ASSUME UNCHANGED <<log, before, sequence>>, phase' # "announcing" \/ phase' = phase
      PROVE  OrderInv'
  BY <1>9 DEF OrderInv
<1>10. ASSUME NEW t \in Tasks, Raises(t)
       PROVE  UNCHANGED <<log, before, sequence, phase>>
  BY <1>10 DEF Raises, disk
<1>11. FinalSnapshot \/ Kill \/ RunRaises =>
         UNCHANGED <<log, before, sequence>> /\ phase' # "announcing"
  BY DEF FinalSnapshot, Kill, RunRaises, disk
<1>12. UNCHANGED vars => UNCHANGED <<log, before, sequence, phase>>
  BY DEF vars, disk
<1> QED
  BY <1>2, <1>3, <1>4, <1>5, <1>6, <1>7, <1>8, <1>9, <1>10, <1>11, <1>12 DEF Next, Report

(* The numbers rise along the file of a process, and that of a report's event *)
(* lies above all that earlier processes wrote.                               *)
THEOREM NumbersOrderEvents == Spec => []SequenceOrdersOneProcess
<1>1. Init => OrderInv
  BY DEF Init, OrderInv
<1>2. Typed /\ CounterInv /\ OrderInv /\ [Next]_vars => OrderInv'
  BY OrderStep
<1>3. Typed /\ OrderInv => SequenceOrdersOneProcess
  <2> SUFFICES ASSUME Typed, OrderInv, log # <<>>, Good(log[Len(log)])
               PROVE  /\ \A j \in 1 .. Len(log) - 1 :
                          Good(log[j]) => log[j].sequence < log[Len(log)].sequence
                      /\ log[Len(log)].type = "report_generated" =>
                          log[Len(log)].sequence > before.top
    BY DEF SequenceOrdersOneProcess, NumbersRise, Good
  <2>1. Len(log) \in Nat /\ Len(log) # 0
    BY DEF Typed
  <2>2. Len(log) \in 1 .. Len(log) /\ \A j \in 1 .. Len(log) - 1 : j \in 1 .. Len(log) /\ j < Len(log)
    BY <2>1
  <2> QED
    BY <2>2 DEF OrderInv
<1> QED
  BY <1>1, <1>2, <1>3, AlwaysTyped, PTL DEF Spec

----------------------------------------------------------------------------
(* What a run that ended leaves *)

EndInv ==
    /\ phase \in {"reporting", "announcing", "ended"} =>
        /\ stage[Root] = "returned"
        /\ snapshot.run = run
        /\ snapshot.status = verdict[Root]
        /\ snapshot.cases = [c \in Cases |-> verdict[c]]
        /\ snapshot.counters = Counters(states)
    /\ phase \in {"announcing", "ended"} => reports = {"text", "json"}
    /\ phase = "ended" => log[Len(log)].type \in {"report_generated", "garbled"}

(* The snapshots of on_execution_finished are those of the result. *)
LEMMA FinalSnapshotSays ==
    ASSUME snapshot' = Snapshot(states, results, verdict, TRUE)
    PROVE  /\ snapshot'.run = run
           /\ snapshot'.status = verdict[Root]
           /\ snapshot'.cases = [c \in Cases |-> verdict[c]]
           /\ snapshot'.counters = Counters(states)
  BY DEF Snapshot, CaseStatus

LEMMA EndStep ==
    ASSUME Typed, EndInv, [Next]_vars
    PROVE  EndInv'
<1>1. ASSUME phase' \notin {"reporting", "announcing", "ended"} PROVE EndInv'
  BY <1>1 DEF EndInv
<1>2. ASSUME NEW t \in Tasks,
             \/ on_task_started(t) \/ Raises(t)
             \/ t \in Functions /\ (on_task_retried(t) \/ FunctionFinishes(t))
             \/ t \in Cases /\ PrecheckFails(t)
             \/ t \in Containers /\ ContainerFinishes(t)
      PROVE  phase' = "running"
  BY <1>2 DEF on_task_started, Raises, on_task_retried, FunctionFinishes, PrecheckFails,
              ContainerFinishes, Told
<1>3. on_plan_created \/ RunRaises \/ Kill \/ Restart => phase' \in {"running", "failed", "killed", "planning"}
  BY DEF on_plan_created, RunRaises, Kill, Restart, Start
<1>4. CASE FinalSnapshot
  <2>1. CASE phase' = "reporting"
    <3>1. /\ snapshot' = Snapshot(states, results, verdict, TRUE)
          /\ stage[Root] = "returned" /\ UNCHANGED <<run, memory>>
      BY <1>4, <2>1 DEF FinalSnapshot
    <3> QED
      BY <2>1, <3>1, FinalSnapshotSays DEF EndInv, memory
  <2> QED
    BY <1>1, <1>4, <2>1 DEF FinalSnapshot
<1>5. CASE GenerateReports
  <2>1. CASE phase' = "announcing"
    <3>1. phase = "reporting" /\ reports' = {"text", "json"} /\ UNCHANGED <<run, memory, snapshot>>
      BY <1>5, <2>1 DEF GenerateReports
    <3>2. Counters(states)' = Counters(states)
      BY <3>1 DEF memory
    <3> QED
      BY <2>1, <3>1, <3>2 DEF EndInv, memory
  <2> QED
    BY <1>1, <1>5, <2>1 DEF GenerateReports
<1>6. CASE AnnounceReports
  <2> DEFINE e == Event("report_generated", Root, verdict[Root])
  <2>1. CASE phase' = "ended"
    <3>1. /\ phase = "announcing" /\ log' = WithLine(e)
          /\ snapshot' = Snapshot(states, results, verdict, TRUE)
          /\ UNCHANGED <<run, memory, reports>>
      BY <1>6, <2>1 DEF AnnounceReports
    <3>2. e \in Events /\ e.type = "report_generated"
      <4>1. "report_generated" \in EventTypes /\ verdict[Root] \in States \cup {"none"}
        BY TreeFacts DEF EventTypes, Typed, ObserverTypeOK, States
      <4> QED
        BY <4>1, ProcessEvents DEF Event
    <3> HIDE DEF e
    <3>3. log'[Len(log')] \in {e, Garbled}
      BY <3>1, <3>2, WithLineFacts DEF Typed
    <3>4. log'[Len(log')].type \in {"report_generated", "garbled"}
      BY <3>2, <3>3, LineFacts
    <3>5. Counters(states)' = Counters(states)
      BY <3>1 DEF memory
    <3> QED
      BY <3>1, <3>4, <3>5, FinalSnapshotSays DEF EndInv, memory
  <2> QED
    BY <1>1, <1>6, <2>1 DEF AnnounceReports
<1>7. CASE UNCHANGED vars
  <2>1. Counters(states)' = Counters(states)
    BY <1>7 DEF vars, memory
  <2> QED
    BY <1>7, <2>1 DEF vars, memory, disk, EndInv
<1> QED
  BY <1>1, <1>2, <1>3, <1>4, <1>5, <1>6, <1>7, TreeFacts DEF Next, Report

LEMMA AlwaysEnds == Spec => [](Typed /\ CounterInv /\ EndInv)
<1>1. Init => EndInv
  BY DEF Init, EndInv
<1>2. Typed /\ EndInv /\ [Next]_vars => EndInv'
  BY EndStep
<1> QED
  BY <1>1, <1>2, AlwaysTyped, PTL DEF Spec

(* A run that ended has left its result, both reports and their event. *)
THEOREM EndOnDisk == Spec => []EndedRunIsOnDisk
<1>1. EndInv => EndedRunIsOnDisk
  BY DEF EndInv, EndedRunIsOnDisk
<1> QED
  BY <1>1, AlwaysEnds, PTL

----------------------------------------------------------------------------
(* The tree of tasks *)

Moving == {"started", "retrying"}

(* A task moves inside its parent; a container that returned has no child    *)
(* that raised, and none of its children ever starts if its precheck fails.   *)
ShapeInv ==
    /\ \A t \in Tasks : t # Root /\ stage[t] \in Moving => stage[ParentOf(t)] = "started"
    /\ \A c \in Containers :
        /\ stage[c] # "retrying"
        /\ \A k \in Kids(c) :
            /\ stage[c] = "idle" \/ c \in plan.unready => stage[k] = "idle"
            /\ stage[c] = "returned" => stage[k] \in {"returned", "idle"}

LEMMA ShapeKept ==
    ASSUME Typed, ShapeInv, NEW t \in Tasks, NEW x \in Stages \ {"idle"},
           stage' = [stage EXCEPT ![t] = x], plan' = plan,
           t # Root => stage[ParentOf(t)] = "started" /\ ParentOf(t) \notin plan.unready,
           t \in Containers => x # "retrying",
           t \in Containers /\ x # "started" => \A k \in Kids(t) : stage[k] \notin Moving,
           t \in Containers /\ x = "returned" => \A k \in Kids(t) : stage[k] \in {"returned", "idle"}
    PROVE  ShapeInv'
<1>0. stage \in [Tasks -> Stages]
  BY DEF Typed, ObserverTypeOK, Stages
<1>1. stage'[t] = x /\ \A u \in Tasks : u # t => stage'[u] = stage[u]
  BY <1>0
<1>2. ASSUME NEW u \in Tasks, u # Root, stage'[u] \in Moving
      PROVE  stage'[ParentOf(u)] = "started"
  <2>1. u \in Kids(ParentOf(u)) /\ ParentOf(u) \in Containers /\ ParentOf(u) \in Tasks
    BY <1>2, TreeFacts
  <2>2. stage[ParentOf(u)] = "started"
    BY <1>1, <1>2 DEF ShapeInv
  <2>3. CASE ParentOf(u) = t
    <3>1. u # t
      BY <2>1, <2>3, TreeFacts
    <3>2. stage[u] \in Moving
      BY <1>1, <1>2, <3>1
    <3> QED
      BY <1>1, <2>1, <2>3, <3>2
  <2>4. CASE ParentOf(u) # t
    BY <1>1, <2>1, <2>2, <2>4
  <2> QED
    BY <2>3, <2>4
<1>3. ASSUME NEW c \in Containers, NEW k \in Kids(c)
      PROVE  /\ stage'[c] = "idle" \/ c \in plan.unready => stage'[k] = "idle"
             /\ stage'[c] = "returned" => stage'[k] \in {"returned", "idle"}
  <2>1. k \in Tasks /\ k # Root /\ ParentOf(k) = c /\ c \in Tasks
    BY <1>3, TreeFacts
  <2>2. CASE k = t
    <3>1. stage[c] = "started" /\ c \notin plan.unready /\ c # t
      BY <2>1, <2>2, TreeFacts
    <3> QED
      BY <1>1, <2>1, <3>1
  <2>3. CASE k # t /\ c = t
    <3>1. stage'[k] = stage[k] /\ stage'[c] # "idle"
      BY <1>1, <2>1, <2>3
    <3> QED
      BY <1>1, <1>3, <2>3, <3>1 DEF ShapeInv
  <2>4. CASE k # t /\ c # t
    BY <1>1, <1>3, <2>1, <2>4 DEF ShapeInv
  <2> QED
    BY <2>2, <2>3, <2>4
<1>4. ASSUME NEW c \in Containers PROVE stage'[c] # "retrying"
  BY <1>1, <1>4, TreeFacts DEF ShapeInv
<1> QED
  BY <1>2, <1>3, <1>4 DEF ShapeInv

(* The callbacks of a start, which may be a retry's, and of a retry. *)
Starts(t) ==
    /\ phase = "running" /\ UNCHANGED verdict
    /\ CanStart(t) \/ stage[t] = "retrying"
    /\ Told("task_started", t, "running", "started", verdict')

Retries(t) ==
    /\ phase = "running" /\ UNCHANGED verdict
    /\ t \in Functions /\ stage[t] = "started"
    /\ Told("task_retried", t, "retrying", "retrying", verdict')

(* What happens to the tasks and to what the observer knows of them. *)
LEMMA StepKinds ==
    ASSUME Typed, [Next]_vars
    PROVE  \/ \E t \in Tasks : Starts(t) \/ Retries(t) \/ Finishes(t) \/ Raises(t)
           \/ Restart
           \/ UNCHANGED <<plan, run, memory>>
<1>1. ASSUME NEW t \in Tasks, on_task_started(t) PROVE Starts(t)
  BY <1>1 DEF on_task_started, Starts
<1>2. ASSUME NEW f \in Functions, on_task_retried(f) PROVE f \in Tasks /\ Retries(f)
  BY <1>2, TreeFacts DEF on_task_retried, Retries, CanReturn
<1>3. on_plan_created \/ RunRaises \/ FinalSnapshot \/ GenerateReports \/ AnnounceReports \/ Kill
      => UNCHANGED <<plan, run, memory>>
  BY DEF on_plan_created, RunRaises, FinalSnapshot, GenerateReports, AnnounceReports, Kill
<1>4. UNCHANGED vars => UNCHANGED <<plan, run, memory>>
  BY DEF vars
<1> QED
  BY <1>1, <1>2, <1>3, <1>4, FinishKinds DEF Next, Report

(* A task acts while its parent runs and has passed its precheck. *)
LEMMA ParentRuns ==
    ASSUME Typed, ShapeInv, NEW t \in Tasks, t # Root, CanStart(t) \/ stage[t] \in Moving
    PROVE  stage[ParentOf(t)] = "started" /\ ParentOf(t) \notin plan.unready
<1>1. t \in Kids(ParentOf(t)) /\ ParentOf(t) \in Containers
  BY TreeFacts
<1> QED
  BY <1>1 DEF ShapeInv, CanStart, Moving

LEMMA ShapeStep ==
    ASSUME Typed, ShapeInv, [Next]_vars
    PROVE  ShapeInv'
<1>1. ASSUME NEW t \in Tasks, Starts(t) PROVE ShapeInv'
  <2>1. /\ plan' = plan
        /\ stage' = [stage EXCEPT ![t] = "started"] \/ stage' = [stage EXCEPT ![t] = "raised"]
    <3>1. "running" \in States
      BY DEF States, ResultStatus
    <3> QED
      BY <1>1, <3>1, ToldFacts DEF Starts
  <2>2. t # Root => stage[ParentOf(t)] = "started" /\ ParentOf(t) \notin plan.unready
    BY <1>1, ParentRuns DEF Starts, Moving
  <2>3. ASSUME t \in Containers, NEW k \in Kids(t) PROVE stage[k] = "idle"
    BY <1>1, <2>3 DEF Starts, CanStart, ShapeInv
  <2> QED
    BY <2>1, <2>2, <2>3, ShapeKept DEF Stages, Moving
<1>2. ASSUME NEW t \in Tasks, Retries(t) PROVE ShapeInv'
  <2>1. /\ plan' = plan
        /\ stage' = [stage EXCEPT ![t] = "retrying"] \/ stage' = [stage EXCEPT ![t] = "raised"]
    <3>1. "retrying" \in States
      BY DEF States
    <3> QED
      BY <1>2, <3>1, ToldFacts DEF Retries
  <2>2. t # Root => stage[ParentOf(t)] = "started" /\ ParentOf(t) \notin plan.unready
    BY <1>2, ParentRuns DEF Retries, Moving
  <2>3. t \notin Containers
    BY <1>2, TreeFacts DEF Retries
  <2> QED
    BY <2>1, <2>2, <2>3, ShapeKept DEF Stages
<1>3. ASSUME NEW t \in Tasks, Finishes(t) PROVE ShapeInv'
  <2>1. /\ plan' = plan
        /\ stage' = [stage EXCEPT ![t] = "returned"] \/ stage' = [stage EXCEPT ![t] = "raised"]
    <3>1. verdict'[t] \in States
      BY <1>3 DEF Finishes, States
    <3> QED
      BY <1>3, <3>1, ToldFacts DEF Finishes
  <2>2. t # Root => stage[ParentOf(t)] = "started" /\ ParentOf(t) \notin plan.unready
    BY <1>3, ParentRuns DEF Finishes, Moving
  <2>3. ASSUME t \in Containers, NEW k \in Kids(t) PROVE stage[k] \in {"returned", "idle"}
    BY <1>3, <2>3, TreeFacts DEF Finishes, CanClose, Collected, ShapeInv
  <2> QED
    BY <2>1, <2>2, <2>3, ShapeKept DEF Stages, Moving
<1>4. ASSUME NEW t \in Tasks, Raises(t) PROVE ShapeInv'
  <2>1. plan' = plan /\ stage' = [stage EXCEPT ![t] = "raised"] /\ stage[t] = "started"
    BY <1>4 DEF Raises, Enters, FunctionCanRaise, ContainerCanRaise
  <2>2. t # Root => stage[ParentOf(t)] = "started" /\ ParentOf(t) \notin plan.unready
    BY <2>1, ParentRuns DEF Moving
  <2>3. ASSUME t \in Containers, NEW k \in Kids(t) PROVE stage[k] \notin Moving
    BY <1>4, <2>3, TreeFacts DEF Raises, ContainerCanRaise, Moving
  <2> QED
    BY <2>1, <2>2, <2>3, ShapeKept DEF Stages
<1>5. CASE Restart
  <2>1. \A t \in Tasks : stage'[t] = "idle"
    BY <1>5 DEF Restart, Start
  <2>2. \A c \in Containers : c \in Tasks /\ Kids(c) \subseteq Tasks
    BY TreeFacts
  <2> QED
    BY <2>1, <2>2 DEF ShapeInv, Moving
<1>6. CASE UNCHANGED <<plan, run, memory>>
  BY <1>6 DEF memory, ShapeInv
<1> QED
  BY <1>1, <1>2, <1>3, <1>4, <1>5, <1>6, StepKinds

(* What the observer knows of a task is what its stage says, and a result    *)
(* that was reported is the task's own.                                      *)
Known(t) ==
    /\ verdict[t] \in Final \cup {"none"}
    /\ stage[t] = "idle" => states[t] = "none" /\ results[t] = "none"
    /\ stage[t] = "started" => states[t] = "running" /\ results[t] = "none"
    /\ stage[t] = "retrying" => states[t] = "retrying" /\ results[t] = "none"
    /\ stage[t] = "returned" => results[t] = verdict[t] /\ verdict[t] \in Final
    /\ stage[t] = "raised" => states[t] # "none"
    /\ IF results[t] = "none" THEN states[t] \in {"none", "running", "retrying"}
       ELSE results[t] = verdict[t] /\ states[t] = verdict[t]

KnownInv == \A t \in Tasks : Known(t)

(* A task that finishes has a final status; of the others only its children  *)
(* that never started get one.                                               *)
LEMMA FinishFacts ==
    ASSUME Typed, KnownInv, NEW t \in Tasks, Finishes(t)
    PROVE  /\ verdict'[t] \in Final
           /\ \A u \in Tasks : u # t =>
                \/ verdict'[u] = verdict[u]
                \/ t \in Containers /\ u \in Kids(t) /\ stage[u] = "idle" /\ verdict'[u] = "aborted"
<1>0. verdict \in [Tasks -> ResultStatus \cup {"none"}]
  BY DEF Typed, ObserverTypeOK
<1>1. CASE verdict' = [verdict EXCEPT ![t] = verdict'[t]] /\ verdict'[t] # "running"
  BY <1>0, <1>1 DEF Finishes, ResultStatus, Final
<1>2. CASE t \in Containers /\ CanClose(t) /\ verdict' = Closed(t)
  <2> DEFINE S == {ResultOf(k) : k \in Kids(t)}
  <2>1. ASSUME NEW k \in Kids(t)
        PROVE  /\ k \in Tasks /\ k # t /\ stage[k] \in {"returned", "idle"}
               /\ ResultOf(k) \in Final
               /\ stage[k] = "returned" => ResultOf(k) = verdict[k]
               /\ stage[k] = "idle" => ResultOf(k) = "aborted"
    BY <1>2, TreeFacts DEF CanClose, Collected, KnownInv, Known, ResultOf, Final
  <2>2. S \in SUBSET Final
    BY <2>1
  <2> HIDE DEF S
  <2>3. aggregate_status(S) \in Final
    BY <2>2 DEF aggregate_status, Final
  <2>4. verdict'[t] = aggregate_status(S)
    BY <1>2 DEF Closed, S
  <2>5. \A u \in Tasks : u # t => verdict'[u] = IF u \in Kids(t) THEN ResultOf(u) ELSE verdict[u]
    BY <1>2 DEF Closed
  <2> QED
    BY <1>2, <2>1, <2>3, <2>4, <2>5
<1> QED
  BY <1>1, <1>2 DEF Finishes

(* A step of t alone is to be judged for t only. *)
LEMMA KnownOfOthers ==
    ASSUME Typed, KnownInv, NEW t \in Tasks, NEW s, NEW x, NEW r,
           states' = [states EXCEPT ![t] = s], stage' = [stage EXCEPT ![t] = x],
           results' = [results EXCEPT ![t] = r],
           \A u \in Tasks : u # t =>
              verdict'[u] = verdict[u] \/ (stage[u] = "idle" /\ verdict'[u] \in Final),
           Known(t)'
    PROVE  KnownInv'
<1> SUFFICES ASSUME NEW u \in Tasks, u # t PROVE Known(u)'
  BY DEF KnownInv
<1>1. states'[u] = states[u] /\ stage'[u] = stage[u] /\ results'[u] = results[u]
  BY DEF Typed, ObserverTypeOK
<1>2. Known(u)
  BY DEF KnownInv
<1>3. verdict'[u] = verdict[u] \/ (stage[u] = "idle" /\ verdict'[u] \in Final)
  OBVIOUS
<1> QED
  BY <1>1, <1>2, <1>3 DEF Known

LEMMA KnownStep ==
    ASSUME Typed, KnownInv, [Next]_vars
    PROVE  KnownInv'
<1>0. /\ stage \in [Tasks -> Stages] /\ states \in [Tasks -> States \cup {"none"}]
      /\ results \in [Tasks -> ResultStatus \cup {"none"}]
  BY DEF Typed, ObserverTypeOK, Stages
<1>1. ASSUME NEW t \in Tasks, Starts(t) PROVE KnownInv'
  <2>1. /\ states' = [states EXCEPT ![t] = "running"] /\ results' = results
        /\ stage' = [stage EXCEPT ![t] = "started"] \/ stage' = [stage EXCEPT ![t] = "raised"]
    <3>1. "running" \in States
      BY DEF States, ResultStatus
    <3> QED
      BY <1>1, <3>1, ToldFacts DEF Starts
  <2>2. results[t] = "none" /\ verdict' = verdict /\ verdict[t] \in Final \cup {"none"}
    BY <1>1 DEF Starts, CanStart, KnownInv, Known
  <2>3. results' = [results EXCEPT ![t] = results[t]]
    BY <1>0, <2>1
  <2>4. Known(t)'
    BY <1>0, <2>1, <2>2 DEF Known
  <2> QED
    BY <2>1, <2>2, <2>3, <2>4, KnownOfOthers
<1>2. ASSUME NEW t \in Tasks, Retries(t) PROVE KnownInv'
  <2>1. /\ states' = [states EXCEPT ![t] = "retrying"] /\ results' = results
        /\ stage' = [stage EXCEPT ![t] = "retrying"] \/ stage' = [stage EXCEPT ![t] = "raised"]
    <3>1. "retrying" \in States
      BY DEF States
    <3> QED
      BY <1>2, <3>1, ToldFacts DEF Retries
  <2>2. results[t] = "none" /\ verdict' = verdict /\ verdict[t] \in Final \cup {"none"}
    BY <1>2 DEF Retries, KnownInv, Known
  <2>3. results' = [results EXCEPT ![t] = results[t]]
    BY <1>0, <2>1
  <2>4. Known(t)'
    BY <1>0, <2>1, <2>2 DEF Known
  <2> QED
    BY <2>1, <2>2, <2>3, <2>4, KnownOfOthers
<1>3. ASSUME NEW t \in Tasks, Finishes(t) PROVE KnownInv'
  <2>1. /\ states' = [states EXCEPT ![t] = verdict'[t]]
        /\ results' = [results EXCEPT ![t] = verdict'[t]]
        /\ stage' = [stage EXCEPT ![t] = "returned"] \/ stage' = [stage EXCEPT ![t] = "raised"]
    <3>1. verdict'[t] \in States
      BY <1>3 DEF Finishes, States
    <3> QED
      BY <1>3, <3>1, ToldFacts DEF Finishes
  <2>2. /\ verdict'[t] \in Final
        /\ \A u \in Tasks : u # t =>
              verdict'[u] = verdict[u] \/ (stage[u] = "idle" /\ verdict'[u] \in Final)
    BY <1>3, FinishFacts DEF Final
  <2>3. Known(t)'
    BY <1>0, <2>1, <2>2 DEF Known, Final
  <2> QED
    BY <2>1, <2>2, <2>3, KnownOfOthers
<1>4. ASSUME NEW t \in Tasks, Raises(t) PROVE KnownInv'
  <2>1. /\ stage' = [stage EXCEPT ![t] = "raised"] /\ stage[t] = "started"
        /\ UNCHANGED <<states, results, verdict>>
    BY <1>4 DEF Raises, Enters, FunctionCanRaise, ContainerCanRaise
  <2>2. /\ states' = [states EXCEPT ![t] = states[t]]
        /\ results' = [results EXCEPT ![t] = results[t]]
    BY <1>0, <2>1
  <2>3. Known(t)'
    BY <1>0, <2>1 DEF Known, KnownInv
  <2> QED
    BY <2>1, <2>2, <2>3, KnownOfOthers
<1>5. CASE Restart
  <2>1. \A t \in Tasks : /\ stage'[t] = "idle" /\ verdict'[t] = "none"
                         /\ states'[t] = "none" /\ results'[t] = "none"
    BY <1>5 DEF Restart, Start
  <2> QED
    BY <2>1 DEF KnownInv, Known
<1>6. CASE UNCHANGED <<plan, run, memory>>
  BY <1>6 DEF memory, KnownInv, Known
<1> QED
  BY <1>1, <1>2, <1>3, <1>4, <1>5, <1>6, StepKinds

----------------------------------------------------------------------------
(* What a snapshot says before the end *)

(* While the fixture runs, so does the request. *)
LEMMA RunningCounts ==
    ASSUME NEW st, st[Root] = "running"
    PROVE  _infer_current_status(Counters(st)) = "running"
<1> DEFINE R == {t \in Tasks : st[t] = "running"}
<1>1. IsFiniteSet(Tasks)
  <2>1. IsFiniteSet(Containers)
    BY ObserverAssumption, FS_AddElement DEF Containers
  <2> QED
    BY <2>1, ObserverAssumption, FS_Union DEF Tasks
<1>2. R \subseteq Tasks /\ Root \in R
  BY TreeFacts
<1>3. IsFiniteSet(R) /\ R # {}
  <2> HIDE DEF R
  <2> QED
    BY <1>1, <1>2, FS_Subset
<1>4. Cardinality(R) \in Nat /\ Cardinality(R) # 0
  <2> HIDE DEF R
  <2> QED
    BY <1>3, FS_CardinalityType, FS_EmptySet
<1>5. "running" \in States
  BY DEF States, ResultStatus
<1>6. Counters(st)["running"] = Cardinality(R)
  BY <1>5 DEF Counters
<1> HIDE DEF R
<1> QED
  BY <1>4, <1>6 DEF _infer_current_status

(* A task acts while the fixture runs. *)
LEMMA RootRuns ==
    ASSUME Typed, ShapeInv, KnownInv, NEW t \in Tasks, t # Root, CanStart(t) \/ stage[t] \in Moving
    PROVE  stage[Root] = "started" /\ states[Root] = "running"
<1>1. stage[ParentOf(t)] = "started" /\ ParentOf(t) \in Tasks /\ ParentOf(t) \in Containers
  BY ParentRuns, TreeFacts
<1>2. stage[Root] = "started"
  <2>1. CASE ParentOf(t) # Root
    <3>1. ParentOf(ParentOf(t)) = Root
      BY <1>1, <2>1, TreeFacts DEF ParentOf, Containers
    <3> QED
      BY <1>1, <2>1, <3>1 DEF ShapeInv, Moving
  <2> QED
    BY <1>1, <2>1
<1> QED
  BY <1>2, TreeFacts DEF KnownInv, Known

(* A case listed midway as ended has reported its result. *)
LEMMA MidwaySays ==
    ASSUME Typed', ShapeInv', KnownInv', states'[Root] = "running",
           snapshot' = Snapshot(states', results', verdict', FALSE)
    PROVE  /\ snapshot'.status = "running"
           /\ \A c \in Cases : snapshot'.cases[c] \in Final =>
                 snapshot'.cases[c] = verdict'[c] /\ stage'[c] \in {"returned", "raised"}
<1>1. snapshot'.status = "running"
  <2>1. snapshot'.status = _infer_current_status(Counters(states'))
    BY DEF Snapshot
  <2>2. _infer_current_status(Counters(states')) = "running"
    BY RunningCounts
  <2> QED
    BY <2>1, <2>2
<1>2. ASSUME NEW c \in Cases, snapshot'.cases[c] \in Final
      PROVE  snapshot'.cases[c] = verdict'[c] /\ stage'[c] \in {"returned", "raised"}
  <2>0. c \in Tasks /\ c \in Containers /\ Known(c)'
    BY TreeFacts DEF KnownInv
  <2>4. stage'[c] \in Stages
    BY <2>0 DEF Typed, ObserverTypeOK, Stages
  <2>1. snapshot'.cases[c] = CaseStatus(c, states', results', verdict', FALSE)
    BY DEF Snapshot
  <2>2. CASE results'[c] # "none"
    <3>1. snapshot'.cases[c] = results'[c]
      BY <2>1, <2>2 DEF CaseStatus
    <3> QED
      BY <2>0, <2>2, <2>4, <3>1 DEF Known, Stages
  <2>3. CASE results'[c] = "none"
    <3>1. snapshot'.cases[c] = _infer_task_status(c, states', ChildStatuses(c, states', results'))
      BY <2>1, <2>3 DEF CaseStatus
    <3>2. states'[c] = "none"
      BY <1>2, <2>0, <2>3, <3>1 DEF _infer_task_status, Known, Final
    <3>3. \A k \in Kids(c) : stage'[k] = "idle" /\ k \in Tasks
      BY <2>0, <2>3, <2>4, <3>2, TreeFacts DEF Known, ShapeInv, Final, Stages
    <3>4. \A k \in Kids(c) : states'[k] = "none" /\ results'[k] = "none"
      BY <3>3 DEF KnownInv, Known
    <3>5. ChildStatuses(c, states', results') = {}
      BY <3>4 DEF ChildStatuses
    <3>6. snapshot'.cases[c] = "pending"
      BY <3>1, <3>2, <3>5 DEF _infer_task_status
    <3> QED
      BY <1>2, <3>6 DEF Final
  <2> QED
    BY <2>2, <2>3
<1> QED
  BY <1>1, <1>2

(* See NoFinalStatusTooEarly; a snapshot lists as ended only what has ended. *)
EarlyInv ==
    snapshot.run = run =>
        /\ snapshot.status \in Final => snapshot.status = verdict[Root] /\ stage[Root] = "returned"
        /\ \A c \in Cases : snapshot.cases[c] \in Final =>
            /\ snapshot.cases[c] = verdict[c]
            /\ stage[c] \in {"returned", "raised"} \/ stage[Root] = "returned"

(* A task that acts, and nobody else, moves and gets a verdict. *)
LEMMA MovesAlone ==
    ASSUME Typed, ShapeInv, KnownInv, NEW t \in Tasks,
           Starts(t) \/ Retries(t) \/ Finishes(t) \/ Raises(t)
    PROVE  /\ stage[t] \in {"idle"} \cup Moving /\ run' = run
           /\ \A u \in Tasks : u # t =>
                 stage'[u] = stage[u] /\ (verdict'[u] = verdict[u] \/ (stage[u] = "idle" /\ u # Root))
           /\ t # Root => stage[Root] = "started" /\ states[Root] = "running"
           /\ states'[Root] = states[Root] \/ t = Root
<1>1. "running" \in States /\ "retrying" \in States /\ (Finishes(t) => verdict'[t] \in States)
  BY DEF States, ResultStatus, Finishes
<1>2. /\ \E x : stage' = [stage EXCEPT ![t] = x]
      /\ \E s : states' = [states EXCEPT ![t] = s]
      /\ run' = run
  <2>1. CASE Raises(t)
    <3>1. stage' = [stage EXCEPT ![t] = "raised"] /\ states' = states /\ run' = run
      BY <2>1 DEF Raises, Enters
    <3>2. states' = [states EXCEPT ![t] = states[t]]
      BY <3>1 DEF Typed, ObserverTypeOK
    <3> QED
      BY <3>1, <3>2
  <2>2. CASE Starts(t)
    BY <1>1, <2>2, ToldFacts DEF Starts
  <2>3. CASE Retries(t)
    BY <1>1, <2>3, ToldFacts DEF Retries
  <2>4. CASE Finishes(t)
    BY <1>1, <2>4, ToldFacts DEF Finishes
  <2> QED
    BY <2>1, <2>2, <2>3, <2>4
<1>3. stage[t] \in {"idle"} \cup Moving /\ (CanStart(t) \/ stage[t] \in Moving)
  BY DEF Starts, Retries, Finishes, Raises, CanStart, FunctionCanRaise, ContainerCanRaise, Moving
<1>4. ASSUME NEW u \in Tasks, u # t
      PROVE  verdict'[u] = verdict[u] \/ (stage[u] = "idle" /\ u # Root)
  <2>1. CASE Finishes(t)
    BY <1>4, <2>1, FinishFacts, TreeFacts
  <2>2. CASE ~Finishes(t)
    BY <2>2 DEF Starts, Retries, Raises, Enters
  <2> QED
    BY <2>1, <2>2
<1>5. t # Root => stage[Root] = "started" /\ states[Root] = "running"
  BY <1>3, RootRuns
<1> QED
  BY <1>2, <1>3, <1>4, <1>5, TreeFacts DEF Typed, ObserverTypeOK

LEMMA EarlyStep ==
    ASSUME Typed, ShapeInv, KnownInv, EndInv, EarlyInv,
           Typed', ShapeInv', KnownInv', [Next]_vars
    PROVE  EarlyInv'
<1>0. Root \in Tasks /\ \A c \in Cases : c \in Tasks /\ c # Root /\ c \in Containers
  BY TreeFacts, ObserverAssumption
(* A task acts, and the snapshot stays as it is. *)
<1>1. ASSUME NEW t \in Tasks, Starts(t) \/ Retries(t) \/ Finishes(t) \/ Raises(t),
             snapshot' = snapshot
      PROVE  EarlyInv'
  <2>1. /\ stage[t] \in {"idle"} \cup Moving /\ run' = run
        /\ \A u \in Tasks : u # t =>
              stage'[u] = stage[u] /\ (verdict'[u] = verdict[u] \/ (stage[u] = "idle" /\ u # Root))
        /\ t # Root => stage[Root] = "started"
    BY <1>1, MovesAlone
  <2> SUFFICES ASSUME snapshot.run = run
               PROVE  /\ snapshot.status \in Final =>
                            snapshot.status = verdict'[Root] /\ stage'[Root] = "returned"
                      /\ \A c \in Cases : snapshot.cases[c] \in Final =>
                            /\ snapshot.cases[c] = verdict'[c]
                            /\ stage'[c] \in {"returned", "raised"} \/ stage'[Root] = "returned"
    BY <1>1, <2>1 DEF EarlyInv
  <2>2. stage[Root] # "returned"
    BY <2>1 DEF Moving
  <2>3. snapshot.status \notin Final
    BY <2>2 DEF EarlyInv
  <2>4. ASSUME NEW c \in Cases, snapshot.cases[c] \in Final
        PROVE  snapshot.cases[c] = verdict'[c] /\ stage'[c] \in {"returned", "raised"}
    <3>1. snapshot.cases[c] = verdict[c] /\ stage[c] \in {"returned", "raised"}
      BY <2>2, <2>4 DEF EarlyInv
    <3>2. c # t
      BY <2>1, <3>1 DEF Moving
    <3> QED
      BY <1>0, <2>1, <3>1, <3>2
  <2> QED
    BY <2>3, <2>4
(* A task acts, and the snapshot is written. *)
<1>2. ASSUME NEW t \in Tasks, Starts(t) \/ Retries(t) \/ Finishes(t),
             snapshot' = Snapshot(states', results', verdict', FALSE),
             t = Root => states'[t] = "running"
      PROVE  EarlyInv'
  <2>1. states'[Root] = "running"
    BY <1>2, MovesAlone
  <2>2. /\ snapshot'.status = "running"
        /\ \A c \in Cases : snapshot'.cases[c] \in Final =>
              snapshot'.cases[c] = verdict'[c] /\ stage'[c] \in {"returned", "raised"}
    BY <1>2, <2>1, MidwaySays
  <2> QED
    BY <2>2 DEF EarlyInv, Final
<1>3. ASSUME snapshot' = Snapshot(states', results', verdict', TRUE), stage'[Root] = "returned"
      PROVE  EarlyInv'
  BY <1>3 DEF Snapshot, CaseStatus, EarlyInv
<1>4. ASSUME NEW t \in Tasks, Starts(t) PROVE EarlyInv'
  <2>1. "running" \in States
    BY DEF States, ResultStatus
  <2>2. /\ states' = [states EXCEPT ![t] = "running"]
        /\ snapshot' = snapshot \/ snapshot' = Snapshot(states', results', verdict', FALSE)
    <3>1. states' = [states EXCEPT ![t] = "running"]
      BY <1>4, <2>1, ToldFacts DEF Starts
    <3> QED
      BY <1>4, <2>1, <3>1, ToldMidway DEF Starts
  <2>3. states'[t] = "running"
    BY <2>2 DEF Typed, ObserverTypeOK
  <2> QED
    BY <1>1, <1>2, <1>4, <2>2, <2>3
<1>5. ASSUME NEW t \in Tasks, Retries(t) PROVE EarlyInv'
  <2>1. "retrying" \in States /\ t # Root
    BY <1>5, ObserverAssumption DEF States, Retries
  <2>2. snapshot' = snapshot \/ snapshot' = Snapshot(states', results', verdict', FALSE)
    <3> QED
      BY <1>5, <2>1, ToldMidway DEF Retries
  <2> QED
    BY <1>1, <1>2, <1>5, <2>1, <2>2
<1>6. ASSUME NEW t \in Tasks, Finishes(t) PROVE EarlyInv'
  <2>1. verdict'[t] \in States
    BY <1>6 DEF Finishes, States
  <2>2. \/ snapshot' = snapshot
        \/ /\ snapshot' = Snapshot(states', results', verdict', t = Root)
           /\ stage' = [stage EXCEPT ![t] = "returned"]
    <3>1. ("task_finished" = "task_finished" /\ t = Root) = (t = Root)
      OBVIOUS
    <3> QED
      BY <1>6, <2>1, <3>1, ToldFacts DEF Finishes
  <2>3. CASE snapshot' = snapshot
    BY <1>1, <1>6, <2>3
  <2>4. CASE snapshot' # snapshot /\ t = Root
    <3>1. (t = Root) = TRUE /\ stage'[Root] = "returned"
      BY <1>0, <2>2, <2>4 DEF Typed, ObserverTypeOK
    <3> QED
      BY <1>3, <2>2, <2>4, <3>1
  <2>5. CASE snapshot' # snapshot /\ t # Root
    <3>1. (t = Root) = FALSE
      BY <2>5
    <3> QED
      BY <1>2, <1>6, <2>2, <2>5, <3>1
  <2> QED
    BY <2>3, <2>4, <2>5
<1>7. ASSUME NEW t \in Tasks, Raises(t) PROVE EarlyInv'
  BY <1>1, <1>7 DEF Raises, disk
<1>8. CASE Restart
  <2>1. run' = run + 1 /\ snapshot' = snapshot
    BY <1>8 DEF Restart, Start
  <2>2. snapshot.run \in 0 .. run /\ run \in Nat
    BY ObserverAssumption DEF Typed, ObserverTypeOK
  <2> QED
    BY <2>1, <2>2 DEF EarlyInv
<1>9. ASSUME UNCHANGED <<run, memory, snapshot>> PROVE EarlyInv'
  BY <1>9 DEF EarlyInv, memory
<1>10. on_plan_created \/ RunRaises \/ GenerateReports \/ Kill => UNCHANGED <<run, memory, snapshot>>
  BY DEF on_plan_created, RunRaises, GenerateReports, Kill, disk
<1>11. UNCHANGED vars => UNCHANGED <<run, memory, snapshot>>
  BY DEF vars, disk
<1>12. CASE FinalSnapshot \/ AnnounceReports
  <2>1. /\ stage[Root] = "returned" /\ UNCHANGED <<run, memory>>
        /\ snapshot' = snapshot \/ snapshot' = Snapshot(states, results, verdict, TRUE)
    BY <1>12 DEF FinalSnapshot, AnnounceReports, EndInv
  <2> QED
    BY <1>3, <1>9, <2>1 DEF memory
<1>13. ASSUME \/ \E f \in Functions : FunctionFinishes(f)
              \/ \E c \in Cases : PrecheckFails(c)
              \/ \E c \in Containers : ContainerFinishes(c)
       PROVE  EarlyInv'
  BY <1>6, <1>13, FinishKinds
<1>14. ASSUME NEW t \in Tasks, on_task_started(t) PROVE EarlyInv'
  BY <1>4, <1>14 DEF on_task_started, Starts
<1>15. ASSUME NEW f \in Functions, on_task_retried(f) PROVE EarlyInv'
  BY <1>5, <1>15, TreeFacts DEF on_task_retried, Retries, CanReturn
<1> QED
  BY <1>7, <1>8, <1>9, <1>10, <1>11, <1>12, <1>13, <1>14, <1>15 DEF Next, Report

LEMMA AlwaysEarly == Spec => [](Typed /\ CounterInv /\ EndInv /\ ShapeInv /\ KnownInv /\ EarlyInv)
<1>1. Init => ShapeInv /\ KnownInv
  <2> SUFFICES ASSUME Init PROVE ShapeInv /\ KnownInv
    OBVIOUS
  <2>1. \A t \in Tasks : /\ stage[t] = "idle" /\ verdict[t] = "none"
                         /\ states[t] = "none" /\ results[t] = "none"
    BY DEF Init, TreeInit
  <2>2. \A c \in Containers : c \in Tasks /\ Kids(c) \subseteq Tasks
    BY TreeFacts
  <2> QED
    BY <2>1, <2>2 DEF ShapeInv, KnownInv, Known, Moving
<1>2. Init => EarlyInv
  BY DEF Init, NoSnapshot, EarlyInv
<1>3. Typed /\ ShapeInv /\ [Next]_vars => ShapeInv'
  BY ShapeStep
<1>4. Typed /\ KnownInv /\ [Next]_vars => KnownInv'
  BY KnownStep
<1>5. /\ Typed /\ ShapeInv /\ KnownInv /\ EndInv /\ EarlyInv
      /\ Typed' /\ ShapeInv' /\ KnownInv' /\ [Next]_vars
      => EarlyInv'
  BY EarlyStep
<1> QED
  BY <1>1, <1>2, <1>3, <1>4, <1>5, AlwaysEnds, PTL DEF Spec

(* No snapshot tells of an end to which its run, or its case, does not come. *)
THEOREM NothingEndsTooEarly == Spec => []NoFinalStatusTooEarly
<1>1. EarlyInv => NoFinalStatusTooEarly
  BY DEF EarlyInv, NoFinalStatusTooEarly
<1> QED
  BY <1>1, AlwaysEarly, PTL

----------------------------------------------------------------------------
(* The lines of the event file *)

TaskTypes == {"task_started", "task_retried", "task_finished"}

(* Line i of l tells something of task t. *)
Says(l, i, t) == l[i].type \in TaskTypes /\ l[i].task = t

SaysThat(l, i, type, t) == Says(l, i, t) /\ l[i].type = type

(* Each start of t is followed by a line of the type. *)
Followed(l, type, t) ==
    \A i \in 1 .. Len(l) : SaysThat(l, i, "task_started", t) =>
        \E k \in i + 1 .. Len(l) : SaysThat(l, k, type, t)

(* What the lines tell of a task that stands at stage s. *)
ToldOf(l, t, s) ==
    /\ \A i \in 1 .. Len(l) : Says(l, i, t) => s # "idle"
    /\ \A i \in 1 .. Len(l) : SaysThat(l, i, "task_finished", t) => s \in {"returned", "raised"}
    /\ s \in Moving => \E i \in 1 .. Len(l) : SaysThat(l, i, "task_started", t)
    /\ s = "retrying" => Followed(l, "task_retried", t)
    /\ s = "returned" => Followed(l, "task_finished", t)

(* See EventsAreNested. *)
LastNested(l) ==
    \A t \in Tasks : l # <<>> /\ Says(l, Len(l), t) =>
        /\ \A j \in 1 .. Len(l) - 1 : ~SaysThat(l, j, "task_finished", t)
        /\ t # Root =>
            /\ \E j \in 1 .. Len(l) - 1 : SaysThat(l, j, "task_started", ParentOf(t))
            /\ \A j \in 1 .. Len(l) - 1 : ~SaysThat(l, j, "task_finished", ParentOf(t))
        /\ SaysThat(l, Len(l), "task_started", t) =>
            \A j \in 1 .. Len(l) - 1 : SaysThat(l, j, "task_started", t) =>
                \E k \in j + 1 .. Len(l) : SaysThat(l, k, "task_retried", t)

NestInv ==
    NothingSwallowed =>
        /\ LastNested(log)
        /\ \A t \in Tasks : ToldOf(log, t, stage[t])

(* The file m is l and one line more. *)
Longer(l, m) ==
    /\ Len(m) = Len(l) + 1
    /\ \A i \in 1 .. Len(l) : m[i] = l[i]

(* What a step leaves that garbles nothing. *)
LEMMA LineAdded ==
    ASSUME Typed, NEW e \in Events, log' = WithLine(e), NothingSwallowed'
    PROVE  NothingSwallowed /\ Longer(log, log') /\ log'[Len(log')] = e
<1>0. log \in Seq(Lines) /\ Len(log) \in Nat /\ DOMAIN log = 1 .. Len(log)
  BY DEF Typed
<1>1. log' \in Seq(Lines) /\ DOMAIN log' = 1 .. Len(log')
  BY <1>0, WithLineFacts
<1>2. ~EndsTorn
  <2> SUFFICES ASSUME EndsTorn PROVE FALSE
    OBVIOUS
  <2>1. Len(log') = Len(log) /\ log'[Len(log)] = Garbled /\ log # <<>>
    BY <1>0, WithLineFacts DEF EndsTorn
  <2>2. Len(log) \in DOMAIN log'
    BY <1>0, <1>1, <2>1
  <2> QED
    BY <2>1, <2>2 DEF NothingSwallowed
<1>3. Longer(log, log') /\ log'[Len(log')] = e
  BY <1>0, <1>2, WithLineFacts DEF Longer
<1>4. \A i \in DOMAIN log : i \in DOMAIN log' /\ log'[i] = log[i]
  BY <1>0, <1>1, <1>3 DEF Longer
<1> QED
  BY <1>3, <1>4 DEF NothingSwallowed

LEMMA TornAdded ==
    ASSUME Typed, log' \in {log, WithTornLine}, NothingSwallowed'
    PROVE  /\ NothingSwallowed
           /\ log' = log \/ (Longer(log, log') /\ log'[Len(log')] = Torn)
<1>0. log \in Seq(Lines) /\ Len(log) \in Nat /\ DOMAIN log = 1 .. Len(log)
  BY DEF Typed
<1>1. log' = log \/ (Longer(log, log') /\ log'[Len(log')] = Torn)
  BY <1>0, TornFacts DEF Longer
<1>2. log' \in Seq(Lines) /\ DOMAIN log' = 1 .. Len(log')
  BY <1>0, TornFacts
<1>3. ASSUME NEW i \in DOMAIN log PROVE i \in DOMAIN log' /\ log'[i] = log[i]
  <2>1. CASE log' = log
    BY <2>1
  <2>2. CASE Longer(log, log')
    BY <1>0, <1>2, <2>2 DEF Longer
  <2> QED
    BY <1>1, <2>1, <2>2
<1> QED
  BY <1>1, <1>3 DEF NothingSwallowed

(* A line more that tells nothing of t tells nothing new of it, even if its  *)
(* stage is lost to an exception.                                            *)
LEMMA ToldQuietly ==
    ASSUME NEW l \in Seq(Lines), NEW m \in Seq(Lines), NEW t \in Tasks, NEW s, NEW x,
           ToldOf(l, t, s), m = l \/ (Longer(l, m) /\ ~Says(m, Len(m), t)),
           x = s \/ x = "raised"
    PROVE  ToldOf(m, t, x)
<1>0. Len(l) \in Nat /\ Len(m) \in Nat
  OBVIOUS
<1>1. CASE m = l
  BY <1>1 DEF ToldOf, Moving
<1>2. CASE Longer(l, m) /\ ~Says(m, Len(m), t)
  <2>1. \A i \in 1 .. Len(m) : i \in 1 .. Len(l) \/ i = Len(m)
    BY <1>0, <1>2 DEF Longer
  <2>2. \A i \in 1 .. Len(l) : i \in 1 .. Len(m) /\ (Says(m, i, t) <=> Says(l, i, t))
    BY <1>0, <1>2 DEF Longer, Says
  <2>3. ASSUME NEW type
        PROVE  \A i \in 1 .. Len(l) : SaysThat(m, i, type, t) <=> SaysThat(l, i, type, t)
    BY <1>0, <1>2 DEF Longer, Says, SaysThat
  <2>4. \A type : ~SaysThat(m, Len(m), type, t)
    BY <1>2 DEF SaysThat
  <2>5. ASSUME NEW type, Followed(l, type, t) PROVE Followed(m, type, t)
    <3> SUFFICES ASSUME NEW i \in 1 .. Len(m), SaysThat(m, i, "task_started", t)
                 PROVE  \E k \in i + 1 .. Len(m) : SaysThat(m, k, type, t)
      BY DEF Followed
    <3>1. i \in 1 .. Len(l) /\ SaysThat(l, i, "task_started", t)
      BY <2>1, <2>3, <2>4
    <3>2. PICK k \in i + 1 .. Len(l) : SaysThat(l, k, type, t)
      BY <2>5, <3>1 DEF Followed
    <3>3. k \in 1 .. Len(l) /\ k \in i + 1 .. Len(m)
      BY <1>0, <1>2, <3>1 DEF Longer
    <3> QED
      BY <2>3, <3>2, <3>3
  <2>6. \A i \in 1 .. Len(m) : Says(m, i, t) => x # "idle"
    BY <1>2, <2>1, <2>2 DEF ToldOf
  <2>7. \A i \in 1 .. Len(m) : SaysThat(m, i, "task_finished", t) => x \in {"returned", "raised"}
    BY <2>1, <2>3, <2>4 DEF ToldOf
  <2>8. x \in Moving => \E i \in 1 .. Len(m) : SaysThat(m, i, "task_started", t)
    BY <2>2, <2>3 DEF ToldOf, Moving
  <2> QED
    BY <2>5, <2>6, <2>7, <2>8 DEF ToldOf
<1> QED
  BY <1>1, <1>2

(* The stages after the line of a callback. *)
Reached(type) ==
    CASE type = "task_started" -> "started"
      [] type = "task_retried" -> "retrying"
      [] type = "task_finished" -> "returned"

(* A line more of t itself. *)
LEMMA ToldAloud ==
    ASSUME NEW l \in Seq(Lines), NEW m \in Seq(Lines), NEW t \in Tasks, NEW s, NEW x,
           ToldOf(l, t, s), Longer(l, m), NEW type \in TaskTypes,
           SaysThat(m, Len(m), type, t),
           s \in {"idle"} \cup Moving, type = "task_retried" => s = "started",
           x = "raised" \/ x = Reached(type)
    PROVE  ToldOf(m, t, x)
<1>0. Len(l) \in Nat /\ Len(m) = Len(l) + 1 /\ Len(m) \in 1 .. Len(m)
  BY DEF Longer
<1>1. x # "idle" /\ (x = "started" => type = "task_started")
      /\ (x = "retrying" => type = "task_retried")
      /\ (x = "returned" => type = "task_finished")
      /\ (type = "task_finished" => x \in {"returned", "raised"})
  BY DEF Reached, TaskTypes
<1>2. \A i \in 1 .. Len(m) : i \in 1 .. Len(l) \/ i = Len(m)
  BY <1>0
<1>3. ASSUME NEW ty
      PROVE  \A i \in 1 .. Len(l) : SaysThat(m, i, ty, t) <=> SaysThat(l, i, ty, t)
  BY <1>0 DEF Longer, Says, SaysThat
<1>4. \A i \in 1 .. Len(m) : SaysThat(m, i, "task_finished", t) => x \in {"returned", "raised"}
  <2>1. \A i \in 1 .. Len(l) : ~SaysThat(l, i, "task_finished", t)
    BY DEF ToldOf, Moving
  <2>2. SaysThat(m, Len(m), "task_finished", t) => type = "task_finished"
    BY DEF SaysThat
  <2> QED
    BY <1>1, <1>2, <1>3, <2>1, <2>2
<1>5. ASSUME x \in Moving PROVE \E i \in 1 .. Len(m) : SaysThat(m, i, "task_started", t)
  <2>1. CASE x = "started"
    BY <1>0, <1>1, <2>1
  <2>2. CASE x = "retrying"
    <3>1. PICK i \in 1 .. Len(l) : SaysThat(l, i, "task_started", t)
      BY <1>1, <2>2 DEF ToldOf, Moving
    <3> QED
      BY <1>0, <1>3, <3>1
  <2> QED
    BY <1>5, <2>1, <2>2 DEF Moving
<1>6. ASSUME type # "task_started" PROVE Followed(m, type, t)
  <2> SUFFICES ASSUME NEW i \in 1 .. Len(m), SaysThat(m, i, "task_started", t)
               PROVE  Len(m) \in i + 1 .. Len(m)
    BY DEF Followed
  <2>1. i # Len(m)
    BY <1>6 DEF SaysThat
  <2> QED
    BY <1>0, <2>1
<1> QED
  BY <1>1, <1>4, <1>5, <1>6 DEF ToldOf

(* The line itself is well nested: t has not finished, its parent runs, and  *)
(* when t starts it starts for the first time or after a retry.              *)
LEMMA LineNested ==
    ASSUME NEW l \in Seq(Lines), NEW m \in Seq(Lines), NEW st, NEW t \in Tasks,
           \A u \in Tasks : ToldOf(l, u, st[u]), Longer(l, m), NEW type \in TaskTypes,
           SaysThat(m, Len(m), type, t),
           st[t] \in {"idle"} \cup Moving,
           type = "task_started" => st[t] \in {"idle", "retrying"},
           t # Root => st[ParentOf(t)] = "started"
    PROVE  LastNested(m)
<1>0. Len(l) \in Nat /\ Len(m) = Len(l) + 1 /\ Len(m) - 1 = Len(l)
  BY DEF Longer
<1>1. ASSUME NEW u \in Tasks, Says(m, Len(m), u) PROVE u = t
  BY <1>1 DEF SaysThat, Says
<1>2. ASSUME NEW ty, NEW u
      PROVE  \A i \in 1 .. Len(l) : SaysThat(m, i, ty, u) <=> SaysThat(l, i, ty, u)
  BY <1>0 DEF Longer, Says, SaysThat
<1>3. \A j \in 1 .. Len(m) - 1 : ~SaysThat(m, j, "task_finished", t)
  <2>1. ToldOf(l, t, st[t])
    OBVIOUS
  <2>2. \A j \in 1 .. Len(l) : ~SaysThat(l, j, "task_finished", t)
    BY <2>1 DEF ToldOf, Moving
  <2> QED
    BY <1>0, <1>2, <2>2
<1>4. ASSUME t # Root
      PROVE  /\ \E j \in 1 .. Len(m) - 1 : SaysThat(m, j, "task_started", ParentOf(t))
             /\ \A j \in 1 .. Len(m) - 1 : ~SaysThat(m, j, "task_finished", ParentOf(t))
  <2>1. ToldOf(l, ParentOf(t), "started")
    BY <1>4, TreeFacts
  <2>2. /\ \E j \in 1 .. Len(l) : SaysThat(l, j, "task_started", ParentOf(t))
        /\ \A j \in 1 .. Len(l) : ~SaysThat(l, j, "task_finished", ParentOf(t))
    BY <2>1 DEF ToldOf, Moving
  <2> QED
    BY <1>0, <1>2, <2>2
<1>5. ASSUME type = "task_started", NEW j \in 1 .. Len(m) - 1, SaysThat(m, j, "task_started", t)
      PROVE  \E k \in j + 1 .. Len(m) : SaysThat(m, k, "task_retried", t)
  <2>0. j \in 1 .. Len(l)
    BY <1>0
  <2>6. SaysThat(l, j, "task_started", t)
    BY <1>2, <1>5, <2>0
  <2>1. j \in 1 .. Len(l) /\ SaysThat(l, j, "task_started", t) /\ Says(l, j, t)
    BY <2>0, <2>6 DEF SaysThat
  <2>2. ToldOf(l, t, st[t])
    OBVIOUS
  <2>3. st[t] = "retrying"
    BY <1>5, <2>1, <2>2 DEF ToldOf
  <2>4. PICK k \in j + 1 .. Len(l) : SaysThat(l, k, "task_retried", t)
    BY <2>1, <2>2, <2>3 DEF ToldOf, Followed
  <2>5. k \in 1 .. Len(l) /\ k \in j + 1 .. Len(m)
    BY <1>0, <2>1
  <2> QED
    BY <1>2, <2>4, <2>5
<1>6. SaysThat(m, Len(m), "task_started", t) => type = "task_started"
  BY DEF SaysThat
<1> QED
  BY <1>1, <1>3, <1>4, <1>5, <1>6 DEF LastNested
(* A step that tells nothing leaves the rest told as it was. *)
LEMMA NestQuietly ==
    ASSUME Typed, Typed', NestInv, NEW t \in Tasks,
           NothingSwallowed' =>
              /\ NothingSwallowed
              /\ \/ log' = log
                 \/ Longer(log, log') /\ log'[Len(log')].type \notin TaskTypes,
           stage' = stage \/ stage' = [stage EXCEPT ![t] = "raised"]
    PROVE  NestInv'
<1> SUFFICES ASSUME NothingSwallowed'
             PROVE  LastNested(log') /\ \A u \in Tasks : ToldOf(log', u, stage'[u])
  BY DEF NestInv
<1>0. log \in Seq(Lines) /\ log' \in Seq(Lines)
  BY DEF Typed
<1>1. LastNested(log) /\ \A u \in Tasks : ToldOf(log, u, stage[u])
  BY DEF NestInv
<1>2. LastNested(log')
  BY <1>1 DEF LastNested, Says
<1>3. ASSUME NEW u \in Tasks PROVE ToldOf(log', u, stage'[u])
  <2>1. stage'[u] = stage[u] \/ stage'[u] = "raised"
    BY DEF Typed, ObserverTypeOK
  <2>2. log' = log \/ (Longer(log, log') /\ ~Says(log', Len(log'), u))
    BY DEF Says
  <2> QED
    BY <1>0, <1>1, <2>1, <2>2, ToldQuietly
<1> QED
  BY <1>2, <1>3

(* A callback in the place its stages give it. *)
LEMMA NestAloud ==
    ASSUME Typed, Typed', NestInv, NEW type \in TaskTypes, NEW t \in Tasks, NEW s \in States, NEW v,
           Told(type, t, s, Reached(type), v),
           stage[t] \in {"idle"} \cup Moving,
           type = "task_started" => stage[t] \in {"idle", "retrying"},
           type = "task_retried" => stage[t] = "started",
           t # Root => stage[ParentOf(t)] = "started"
    PROVE  NestInv'
<1> DEFINE e == Event(type, t, s)
<1>1. /\ e \in Events /\ e.type = type /\ e.task = t
      /\ \/ log' = WithLine(e) /\ \E x \in {"raised", Reached(type)} : stage' = [stage EXCEPT ![t] = x]
         \/ log' \in {log, WithTornLine} /\ stage' = [stage EXCEPT ![t] = "raised"]
  <2>1. e.type = type /\ e.task = t
    BY DEF Event
  <2> QED
    BY <2>1, ToldFacts DEF TaskTypes
<1> HIDE DEF e
<1>2. CASE log' \in {log, WithTornLine} /\ stage' = [stage EXCEPT ![t] = "raised"]
  <2>1. NothingSwallowed' =>
          /\ NothingSwallowed
          /\ \/ log' = log
             \/ Longer(log, log') /\ log'[Len(log')].type \notin TaskTypes
    BY <1>2, TornAdded, LineFacts DEF TaskTypes
  <2> QED
    BY <1>2, <2>1, NestQuietly
<1>3. ASSUME log' = WithLine(e), NEW x \in {"raised", Reached(type)}, stage' = [stage EXCEPT ![t] = x]
      PROVE  NestInv'
  <2> SUFFICES ASSUME NothingSwallowed'
               PROVE  LastNested(log') /\ \A u \in Tasks : ToldOf(log', u, stage'[u])
    BY DEF NestInv
  <2>0. log \in Seq(Lines) /\ log' \in Seq(Lines)
    BY DEF Typed
  <2>1. NothingSwallowed /\ Longer(log, log') /\ log'[Len(log')] = e
    BY <1>1, <1>3, LineAdded
  <2>2. \A u \in Tasks : ToldOf(log, u, stage[u])
    BY <2>1 DEF NestInv
  <2>3. SaysThat(log', Len(log'), type, t)
    BY <1>1, <2>1 DEF SaysThat, Says
  <2>4. LastNested(log')
    BY <2>0, <2>1, <2>2, <2>3, LineNested
  <2>5. ASSUME NEW u \in Tasks PROVE ToldOf(log', u, stage'[u])
    <3>1. CASE u = t
      <4>1. stage'[u] = x
        BY <1>3, <3>1 DEF Typed, ObserverTypeOK
      <4> QED
        BY <2>0, <2>1, <2>2, <2>3, <3>1, <4>1, ToldAloud
    <3>2. CASE u # t
      <4>1. stage'[u] = stage[u]
        BY <1>3, <3>2 DEF Typed, ObserverTypeOK
      <4>2. ~Says(log', Len(log'), u)
        BY <1>1, <2>1, <3>2 DEF Says
      <4> QED
        BY <2>0, <2>1, <2>2, <4>1, <4>2, ToldQuietly
    <3> QED
      BY <3>1, <3>2
  <2> QED
    BY <2>4, <2>5
<1> QED
  BY <1>1, <1>2, <1>3

LEMMA NestStep ==
    ASSUME Typed, Typed', ShapeInv, NestInv, [Next]_vars
    PROVE  NestInv'
<1>0. \A t \in Tasks : t # Root /\ (CanStart(t) \/ stage[t] \in Moving) =>
          stage[ParentOf(t)] = "started"
  BY ParentRuns
<1>1. ASSUME NEW t \in Tasks, Starts(t) PROVE NestInv'
  <2>1. "running" \in States /\ Reached("task_started") = "started" /\ "task_started" \in TaskTypes
    BY DEF States, ResultStatus, Reached, TaskTypes
  <2>2. stage[t] \in {"idle", "retrying"}
    BY <1>1 DEF Starts, CanStart
  <2> QED
    BY <1>0, <1>1, <2>1, <2>2, NestAloud DEF Starts, Moving
<1>2. ASSUME NEW t \in Tasks, Retries(t) PROVE NestInv'
  <2>1. "retrying" \in States /\ Reached("task_retried") = "retrying" /\ "task_retried" \in TaskTypes
    BY DEF States, Reached, TaskTypes
  <2> QED
    BY <1>0, <1>2, <2>1, NestAloud DEF Retries, Moving
<1>3. ASSUME NEW t \in Tasks, Finishes(t) PROVE NestInv'
  <2>1. /\ verdict'[t] \in States /\ Reached("task_finished") = "returned"
        /\ "task_finished" \in TaskTypes
    BY <1>3 DEF Finishes, States, Reached, TaskTypes
  <2> QED
    BY <1>0, <1>3, <2>1, NestAloud DEF Finishes, Moving
<1>4. ASSUME log' = log, stage' = stage \/ \E t \in Tasks : stage' = [stage EXCEPT ![t] = "raised"]
      PROVE  NestInv'
  <2>1. NothingSwallowed' => NothingSwallowed
    BY <1>4 DEF NothingSwallowed
  <2> QED
    BY <1>4, <2>1, NestQuietly, TreeFacts
<1>5. ASSUME NEW t \in Tasks, Raises(t) PROVE NestInv'
  BY <1>4, <1>5 DEF Raises, Enters, disk
<1>6. ASSUME NEW e \in Events, e.type \notin TaskTypes,
             log' = WithLine(e) \/ log' \in {log, WithTornLine}, stage' = stage
      PROVE  NestInv'
  <2>1. NothingSwallowed' =>
          /\ NothingSwallowed
          /\ \/ log' = log
             \/ Longer(log, log') /\ log'[Len(log')].type \notin TaskTypes
    BY <1>6, LineAdded, TornAdded, LineFacts DEF TaskTypes
  <2> QED
    BY <1>6, <2>1, NestQuietly, TreeFacts
<1>7. CASE on_plan_created
  <2> DEFINE e == Event("plan_created", Root, "none")
  <2>1. e \in Events /\ e.type \notin TaskTypes
    <3>1. "plan_created" \in EventTypes
      BY DEF EventTypes
    <3> QED
      BY <3>1, ProcessEvents DEF Event, TaskTypes
  <2>2. (log' = WithLine(e) \/ log' \in {log, WithTornLine}) /\ stage' = stage
    BY <1>7 DEF on_plan_created, AppendFails, memory
  <2> HIDE DEF e
  <2> QED
    BY <1>6, <2>1, <2>2
<1>8. CASE AnnounceReports
  <2> DEFINE e == Event("report_generated", Root, verdict[Root])
  <2>1. e \in Events /\ e.type \notin TaskTypes
    <3>1. "report_generated" \in EventTypes /\ verdict[Root] \in States \cup {"none"}
      BY TreeFacts DEF EventTypes, Typed, ObserverTypeOK, States
    <3> QED
      BY <3>1, ProcessEvents DEF Event, TaskTypes
  <2>2. (log' = WithLine(e) \/ log' \in {log, WithTornLine}) /\ stage' = stage
    BY <1>8 DEF AnnounceReports, AppendFails, memory
  <2> HIDE DEF e
  <2> QED
    BY <1>6, <2>1, <2>2
<1>9. CASE Restart
  <2>1. (log' = <<Torn>> \/ log' = <<>>) /\ \A t \in Tasks : stage'[t] = "idle"
    BY <1>9 DEF Restart, Start
  <2>2. \A i \in 1 .. Len(log') : log'[i] = Torn
    BY <2>1
  <2>3. \A i \in 1 .. Len(log'), t \in Tasks : ~Says(log', i, t)
    BY <2>2, LineFacts DEF Says, TaskTypes
  <2>4. LastNested(log')
    BY <2>1, <2>3 DEF LastNested
  <2>5. ASSUME NEW t \in Tasks PROVE ToldOf(log', t, stage'[t])
    BY <2>1, <2>3 DEF ToldOf, SaysThat, Moving
  <2> QED
    BY <2>4, <2>5 DEF NestInv
<1>10. RunRaises \/ FinalSnapshot \/ GenerateReports \/ Kill \/ UNCHANGED vars
       => log' = log /\ stage' = stage
  BY DEF RunRaises, FinalSnapshot, GenerateReports, Kill, vars, memory, disk
<1>11. ASSUME NEW t \in Tasks, on_task_started(t) PROVE NestInv'
  BY <1>1, <1>11 DEF on_task_started, Starts
<1>12. ASSUME NEW f \in Functions, on_task_retried(f) PROVE NestInv'
  BY <1>2, <1>12, TreeFacts DEF on_task_retried, Retries, CanReturn
<1>13. ASSUME \/ \E f \in Functions : FunctionFinishes(f)
              \/ \E c \in Cases : PrecheckFails(c)
              \/ \E c \in Containers : ContainerFinishes(c)
       PROVE  NestInv'
  BY <1>3, <1>13, FinishKinds
<1> QED
  BY <1>4, <1>5, <1>7, <1>8, <1>9, <1>10, <1>11, <1>12, <1>13 DEF Next, Report

(* In a run that ended no task is on its way, and none was lost. *)
LEMMA AllReturned ==
    ASSUME Typed, ShapeInv, EndInv, phase = "ended", NEW t \in Tasks
    PROVE  stage[t] \in {"idle", "returned"}
<1>1. stage[Root] = "returned"
  BY DEF EndInv
<1>2. ASSUME NEW c \in Containers, stage[c] \in {"idle", "returned"}, NEW k \in Kids(c)
      PROVE  stage[k] \in {"idle", "returned"}
  BY <1>2 DEF ShapeInv
<1>3. CASE t \in Cases
  BY <1>1, <1>2, <1>3, TreeFacts DEF Kids
<1>4. CASE t \in Functions
  <2>1. CaseOf[t] \in Cases /\ CaseOf[t] \in Containers /\ t \in Kids(CaseOf[t])
        /\ CaseOf[t] \in Kids(Root)
    BY <1>4, ObserverAssumption, TreeFacts DEF Kids
  <2> QED
    BY <1>1, <1>2, <2>1, TreeFacts
<1> QED
  BY <1>1, <1>3, <1>4 DEF Tasks, Containers

(* The events of a run are well nested, unless a line was swallowed by a torn *)
(* one before it.                                                             *)
THEOREM RunsAreNested == Spec => []EventsAreNested
<1>1. Init => NestInv
  <2> SUFFICES ASSUME Init PROVE NestInv
    OBVIOUS
  <2>1. log = <<>> /\ \A t \in Tasks : stage[t] = "idle"
    BY DEF Init, TreeInit
  <2> QED
    BY <2>1 DEF NestInv, LastNested, ToldOf, Moving
<1>2. Typed /\ Typed' /\ ShapeInv /\ NestInv /\ [Next]_vars => NestInv'
  BY NestStep
<1>3. Typed /\ ShapeInv /\ EndInv /\ NestInv => EventsAreNested
  <2> SUFFICES ASSUME Typed, ShapeInv, EndInv, NestInv, NothingSwallowed
               PROVE  EventsAreNested
    BY DEF EventsAreNested
  <2>0. Len(log) \in Nat /\ DOMAIN log = 1 .. Len(log)
    BY DEF Typed
  <2>1. LastNested(log) /\ \A t \in Tasks : ToldOf(log, t, stage[t])
    BY DEF NestInv
  <2>2. \A i \in 1 .. Len(log), t \in Tasks :
           /\ Tells(i, t) <=> Says(log, i, t)
           /\ \A type : Is(i, type, t) <=> SaysThat(log, i, type, t)
    BY DEF Tells, Is, Says, SaysThat, TaskTypes
  <2>3. ASSUME phase = "ended", NEW i \in DOMAIN log, NEW t \in Tasks, Is(i, "task_started", t)
        PROVE  \E j \in i .. Len(log) : Is(j, "task_finished", t)
    <3>1. SaysThat(log, i, "task_started", t) /\ Says(log, i, t) /\ i \in 1 .. Len(log)
      BY <2>0, <2>2, <2>3 DEF SaysThat
    <3>2. stage[t] = "returned"
      BY <2>1, <2>3, <3>1, AllReturned DEF ToldOf
    <3>3. PICK j \in i + 1 .. Len(log) : SaysThat(log, j, "task_finished", t)
      BY <2>1, <3>1, <3>2 DEF ToldOf, Followed
    <3>4. j \in 1 .. Len(log) /\ j \in i .. Len(log)
      BY <2>0, <3>1
    <3> QED
      BY <2>2, <3>3, <3>4
  <2>4. ASSUME NEW t \in Tasks, log # <<>>, Tells(Len(log), t)
        PROVE  /\ \A j \in 1 .. Len(log) - 1 : ~Is(j, "task_finished", t)
               /\ t # Root =>
                   /\ \E j \in 1 .. Len(log) - 1 : Is(j, "task_started", ParentOf(t))
                   /\ \A j \in 1 .. Len(log) - 1 : ~Is(j, "task_finished", ParentOf(t))
               /\ Is(Len(log), "task_started", t) =>
                   \A j \in 1 .. Len(log) - 1 : Is(j, "task_started", t) =>
                       \E k \in j + 1 .. Len(log) : Is(k, "task_retried", t)
    <3>1. Len(log) \in 1 .. Len(log) /\ \A j \in 1 .. Len(log) - 1 : j \in 1 .. Len(log)
      BY <2>0, <2>4
    <3>2. Says(log, Len(log), t) /\ ParentOf(t) \in Tasks
      BY <2>2, <2>4, <3>1, TreeFacts
    <3>3. \A j \in 1 .. Len(log) - 1 : \A k \in j + 1 .. Len(log) : k \in 1 .. Len(log)
      BY <2>0
    <3>4. /\ \A j \in 1 .. Len(log) - 1 : ~Is(j, "task_finished", t)
          /\ t # Root =>
                /\ \E j \in 1 .. Len(log) - 1 : Is(j, "task_started", ParentOf(t))
                /\ \A j \in 1 .. Len(log) - 1 : ~Is(j, "task_finished", ParentOf(t))
      BY <2>1, <2>2, <2>4, <3>1, <3>2 DEF LastNested
    <3>5. ASSUME Is(Len(log), "task_started", t), NEW j \in 1 .. Len(log) - 1,
                 Is(j, "task_started", t)
          PROVE  \E k \in j + 1 .. Len(log) : Is(k, "task_retried", t)
      BY <2>1, <2>2, <2>4, <3>1, <3>2, <3>3, <3>5 DEF LastNested
    <3> QED
      BY <3>4, <3>5
  <2> QED
    BY <2>3, <2>4 DEF EventsAreNested
<1> QED
  BY <1>1, <1>2, <1>3, AlwaysEarly, PTL DEF Spec
----------------------------------------------------------------------------
(* The states as the file tells them *)

(* See Rebuilt. *)
RebuiltOf(l, n) ==
    [t \in Tasks |->
        IF \E i \in 1 .. n : Says(l, i, t)
        THEN LET last == CHOOSE i \in 1 .. n :
                            Says(l, i, t) /\ \A j \in i + 1 .. n : ~Says(l, j, t)
             IN  l[last].status
        ELSE "none"]

(* The counters are those of the states, or behind by one line of the file   *)
(* for each failed write at most.                                            *)
Lagging(l, f, st, counters) ==
    \/ counters = Counters(st)
    \/ \E lag \in 1 .. f : counters = Counters(RebuiltOf(l, Len(l) - lag))

ExplainInv ==
    NothingSwallowed =>
        /\ \A t \in Tasks : stage[t] # "raised" => states[t] = RebuiltOf(log, Len(log))[t]
        /\ snapshot.run = run /\ states = RebuiltOf(log, Len(log)) =>
              Lagging(log, faults, states, snapshot.counters)

(* Before the plan is announced the snapshot is not of this process. *)
PlanningInv == phase = "planning" => snapshot.run < run

LEMMA LastExists ==
    ASSUME NEW l \in Seq(Lines), NEW n \in Int, NEW t, \E i \in 1 .. n : Says(l, i, t)
    PROVE  \E i \in 1 .. n : Says(l, i, t) /\ \A j \in i + 1 .. n : ~Says(l, j, t)
<1> DEFINE S == {i \in 1 .. n : Says(l, i, t)}
<1>1. S \in SUBSET Int /\ S \subseteq 1 .. n /\ S # {}
  OBVIOUS
<1>2. IsFiniteSet(S)
  BY <1>1, FS_Interval, FS_Subset
<1>3. PICK i \in S : \A j \in S : j <= i
  <2> HIDE DEF S
  <2> QED
    BY <1>1, <1>2, LargestExists
<1>4. ASSUME NEW j \in i + 1 .. n PROVE ~Says(l, j, t)
  <2>1. j \in 1 .. n /\ ~(j <= i)
    OBVIOUS
  <2> QED
    BY <1>3, <2>1
<1> QED
  BY <1>4

(* The state of a task is what the last line that tells of it says. *)
LEMMA RebuiltSays ==
    ASSUME NEW l, NEW n \in Int, NEW t \in Tasks
    PROVE  /\ (\A i \in 1 .. n : ~Says(l, i, t)) => RebuiltOf(l, n)[t] = "none"
           /\ \A i \in 1 .. n : Says(l, i, t) /\ (\A j \in i + 1 .. n : ~Says(l, j, t)) =>
                 RebuiltOf(l, n)[t] = l[i].status
<1>1. (\A i \in 1 .. n : ~Says(l, i, t)) => RebuiltOf(l, n)[t] = "none"
  BY DEF RebuiltOf
<1>2. ASSUME NEW i \in 1 .. n, Says(l, i, t), \A j \in i + 1 .. n : ~Says(l, j, t)
      PROVE  RebuiltOf(l, n)[t] = l[i].status
  <2> DEFINE Last(k) == Says(l, k, t) /\ \A j \in k + 1 .. n : ~Says(l, j, t)
             last == CHOOSE k \in 1 .. n : Last(k)
  <2>1. RebuiltOf(l, n)[t] = l[last].status
    BY <1>2 DEF RebuiltOf
  <2>2. last \in 1 .. n /\ Last(last)
    <3>1. \E k \in 1 .. n : Last(k)
      BY <1>2
    <3> HIDE DEF Last
    <3> QED
      BY <3>1
  <2>3. last = i
    <3> HIDE DEF last
    <3>1. ~(last > i) /\ ~(last < i)
      BY <1>2, <2>2
    <3> QED
      BY <2>2, <3>1
  <2> QED
    BY <2>1, <2>3
<1> QED
  BY <1>1, <1>2

(* Two files with the same first lines tell the same with them. *)
LEMMA RebuiltSame ==
    ASSUME NEW l \in Seq(Lines), NEW m \in Seq(Lines), NEW n \in Int,
           \A i \in 1 .. n : m[i] = l[i]
    PROVE  RebuiltOf(m, n) = RebuiltOf(l, n)
<1>1. \A i \in 1 .. n, t \in Tasks : Says(m, i, t) <=> Says(l, i, t)
  BY DEF Says
<1>2. ASSUME NEW t \in Tasks PROVE RebuiltOf(m, n)[t] = RebuiltOf(l, n)[t]
  <2>1. CASE \A i \in 1 .. n : ~Says(l, i, t)
    BY <1>1, <2>1, RebuiltSays
  <2>2. CASE \E i \in 1 .. n : Says(l, i, t)
    <3>1. PICK i \in 1 .. n : Says(l, i, t) /\ \A j \in i + 1 .. n : ~Says(l, j, t)
      BY <2>2, LastExists
    <3>2. \A j \in i + 1 .. n : j \in 1 .. n
      OBVIOUS
    <3>3. Says(m, i, t) /\ \A j \in i + 1 .. n : ~Says(m, j, t)
      BY <1>1, <3>1, <3>2
    <3> QED
      BY <3>1, <3>3, RebuiltSays
  <2> QED
    BY <2>1, <2>2
<1>3. RebuiltOf(m, n) = [t \in Tasks |-> RebuiltOf(m, n)[t]]
  BY DEF RebuiltOf
<1>4. RebuiltOf(l, n) = [t \in Tasks |-> RebuiltOf(l, n)[t]]
  BY DEF RebuiltOf
<1> HIDE DEF RebuiltOf
<1> QED
  BY <1>2, <1>3, <1>4

(* One line more is one state more, or none. *)
LEMMA RebuiltLonger ==
    ASSUME NEW l \in Seq(Lines), NEW m \in Seq(Lines), Longer(l, m), NEW t \in Tasks
    PROVE  RebuiltOf(m, Len(m))[t] =
              IF Says(m, Len(m), t) THEN m[Len(m)].status ELSE RebuiltOf(l, Len(l))[t]
<1>0. Len(l) \in Nat /\ Len(m) = Len(l) + 1 /\ Len(m) \in 1 .. Len(m)
  BY DEF Longer
<1>1. CASE Says(m, Len(m), t)
  <2>1. \A j \in Len(m) + 1 .. Len(m) : ~Says(m, j, t)
    BY <1>0
  <2> QED
    BY <1>0, <1>1, <2>1, RebuiltSays
<1>2. CASE ~Says(m, Len(m), t)
  <2>1. RebuiltOf(m, Len(l)) = RebuiltOf(l, Len(l))
    BY <1>0, RebuiltSame DEF Longer
  <2>2. CASE \A i \in 1 .. Len(l) : ~Says(m, i, t)
    <3>1. \A i \in 1 .. Len(m) : ~Says(m, i, t)
      BY <1>0, <1>2, <2>2
    <3> QED
      BY <1>0, <1>2, <2>1, <2>2, <3>1, RebuiltSays
  <2>3. CASE \E i \in 1 .. Len(l) : Says(m, i, t)
    <3>1. PICK i \in 1 .. Len(l) : Says(m, i, t) /\ \A j \in i + 1 .. Len(l) : ~Says(m, j, t)
      <4>1. Len(l) \in Int
        BY <1>0
      <4> QED
        BY <2>3, <4>1, LastExists
    <3>2. i \in 1 .. Len(m) /\ \A j \in i + 1 .. Len(m) : j \in i + 1 .. Len(l) \/ j = Len(m)
      BY <1>0
    <3>3. RebuiltOf(m, Len(m))[t] = m[i].status
      BY <1>0, <1>2, <3>1, <3>2, RebuiltSays
    <3>4. RebuiltOf(m, Len(l))[t] = m[i].status
      BY <1>0, <3>1, RebuiltSays
    <3> QED
      BY <1>2, <2>1, <3>3, <3>4
  <2> QED
    BY <2>2, <2>3
<1> QED
  BY <1>1, <1>2

(* A file without a line for a task leaves every state unknown. *)
LEMMA RebuiltNothing ==
    ASSUME NEW l \in Seq(Lines), \A i \in 1 .. Len(l), t \in Tasks : ~Says(l, i, t), NEW t \in Tasks
    PROVE  RebuiltOf(l, Len(l))[t] = "none"
  BY RebuiltSays
(* A lag may grow by a line with each failed write. *)
LEMMA LagGrows ==
    ASSUME NEW l \in Seq(Lines), NEW m \in Seq(Lines), NEW f \in Nat, NEW g \in Nat, NEW counters,
           NEW st, NEW su,
           \/ m = l /\ f <= g /\ su = st
           \/ Longer(l, m) /\ g = f + 1 /\ st = RebuiltOf(l, Len(l)),
           Lagging(l, f, st, counters)
    PROVE  Lagging(m, g, su, counters)
<1>0. Len(l) \in Nat
  OBVIOUS
<1>1. CASE m = l /\ f <= g /\ su = st
  <2>1. \A lag \in 1 .. f : lag \in 1 .. g
    BY <1>1
  <2> QED
    BY <1>1, <2>1 DEF Lagging
<1>2. CASE Longer(l, m) /\ g = f + 1 /\ st = RebuiltOf(l, Len(l))
  <2>1. ASSUME NEW lag \in 0 .. f
        PROVE  RebuiltOf(m, Len(m) - (lag + 1)) = RebuiltOf(l, Len(l) - lag)
    <3>1. Len(m) - (lag + 1) = Len(l) - lag /\ Len(l) - lag \in Int
      BY <1>0, <1>2 DEF Longer
    <3>2. \A i \in 1 .. Len(l) - lag : m[i] = l[i]
      BY <1>0, <1>2 DEF Longer
    <3>3. RebuiltOf(m, Len(l) - lag) = RebuiltOf(l, Len(l) - lag)
      BY <3>1, <3>2, RebuiltSame
    <3> QED
      BY <3>1, <3>3
  <2>2. PICK lag \in 0 .. f : counters = Counters(RebuiltOf(l, Len(l) - lag))
    <3>1. CASE counters = Counters(st)
      <4>1. Len(l) - 0 = Len(l) /\ 0 \in 0 .. f
        BY <1>0
      <4> QED
        BY <1>2, <3>1, <4>1
    <3>2. CASE counters # Counters(st)
      <4>1. \A lag \in 1 .. f : lag \in 0 .. f
        OBVIOUS
      <4> QED
        BY <3>2, <4>1 DEF Lagging
    <3> QED
      BY <3>1, <3>2
  <2>3. lag + 1 \in 1 .. g
    BY <1>2
  <2>4. counters = Counters(RebuiltOf(m, Len(m) - (lag + 1)))
    BY <2>1, <2>2
  <2> QED
    BY <2>3, <2>4 DEF Lagging
<1> QED
  BY <1>1, <1>2

(* A step that tells nothing. *)
LEMMA ExplainQuietly ==
    ASSUME Typed, Typed', ExplainInv, states' = states,
           NothingSwallowed' =>
              /\ NothingSwallowed
              /\ \/ log' = log
                 \/ Longer(log, log') /\ log'[Len(log')].type \notin TaskTypes,
           \A u \in Tasks : stage'[u] = stage[u] \/ stage'[u] = "raised",
           snapshot'.run = run' =>
              \/ snapshot'.counters = Counters(states')
              \/ log' = log /\ snapshot' = snapshot /\ run' = run /\ faults <= faults'
    PROVE  ExplainInv'
<1> SUFFICES ASSUME NothingSwallowed'
             PROVE  /\ \A u \in Tasks : stage'[u] # "raised" =>
                          states'[u] = RebuiltOf(log', Len(log'))[u]
                    /\ snapshot'.run = run' /\ states' = RebuiltOf(log', Len(log')) =>
                          Lagging(log', faults', states', snapshot'.counters)
  BY DEF ExplainInv
<1>0. log \in Seq(Lines) /\ log' \in Seq(Lines) /\ faults \in Nat /\ faults' \in Nat
  BY DEF Typed, ObserverTypeOK
<1>1. ASSUME NEW u \in Tasks
      PROVE  RebuiltOf(log', Len(log'))[u] = RebuiltOf(log, Len(log))[u]
  <2>1. CASE log' = log
    BY <2>1
  <2>2. CASE Longer(log, log') /\ log'[Len(log')].type \notin TaskTypes
    <3>1. ~Says(log', Len(log'), u)
      BY <2>2 DEF Says
    <3> QED
      BY <1>0, <2>2, <3>1, RebuiltLonger
  <2> QED
    BY <2>1, <2>2
<1>2. ASSUME NEW u \in Tasks, stage'[u] # "raised"
      PROVE  states'[u] = RebuiltOf(log', Len(log'))[u]
  BY <1>1, <1>2 DEF ExplainInv
<1>3. ASSUME snapshot'.run = run', states' = RebuiltOf(log', Len(log'))
      PROVE  Lagging(log', faults', states', snapshot'.counters)
  <2>1. CASE snapshot'.counters = Counters(states')
    BY <2>1 DEF Lagging
  <2>2. CASE log' = log /\ snapshot' = snapshot /\ run' = run /\ faults <= faults'
    <3>1. Lagging(log, faults, states, snapshot.counters)
      BY <1>3, <2>2 DEF ExplainInv
    <3> QED
      BY <1>0, <2>2, <3>1, LagGrows
  <2> QED
    BY <1>3, <2>1, <2>2
<1> QED
  BY <1>2, <1>3

(* A callback of a task that has not raised, with a state that is new. *)
LEMMA ExplainAloud ==
    ASSUME Typed, Typed', ExplainInv,
           NEW type \in TaskTypes, NEW t \in Tasks, NEW s \in States, NEW next, NEW v,
           Told(type, t, s, next, v), stage[t] # "raised", s # states[t]
    PROVE  ExplainInv'
<1> DEFINE e == Event(type, t, s)
           old == RebuiltOf(log, Len(log))
           new == RebuiltOf(log', Len(log'))
<1> SUFFICES ASSUME NothingSwallowed'
             PROVE  /\ \A u \in Tasks : stage'[u] # "raised" => states'[u] = new[u]
                    /\ snapshot'.run = run' /\ states' = new =>
                          Lagging(log', faults', states', snapshot'.counters)
  BY DEF ExplainInv
<1>0. log \in Seq(Lines) /\ log' \in Seq(Lines) /\ faults \in Nat
  BY DEF Typed, ObserverTypeOK
<1>1. /\ e \in Events /\ e.type = type /\ e.task = t /\ e.status = s
      /\ states' = [states EXCEPT ![t] = s] /\ run' = run
      /\ \/ /\ log' = WithLine(e)
            /\ snapshot' = Snapshot(states', results', v, type = "task_finished" /\ t = Root)
            /\ stage' = [stage EXCEPT ![t] = next]
         \/ /\ log' = WithLine(e) /\ snapshot' = snapshot /\ faults' = faults + 1
            /\ stage' = [stage EXCEPT ![t] = "raised"]
         \/ /\ log' \in {log, WithTornLine}
            /\ stage' = [stage EXCEPT ![t] = "raised"]
  <2>1. e.type = type /\ e.task = t /\ e.status = s
    BY DEF Event
  <2> QED
    BY <2>1, ToldFacts DEF TaskTypes, Fault
<1> HIDE DEF e
<1>2. /\ states'[t] = s
      /\ \A u \in Tasks : u # t => states'[u] = states[u] /\ stage'[u] = stage[u]
  BY <1>1 DEF Typed, ObserverTypeOK
<1>3. NothingSwallowed
  BY <1>1, LineAdded, TornAdded
<1>4. /\ \A u \in Tasks : stage[u] # "raised" => states[u] = old[u]
      /\ snapshot.run = run /\ states = old => Lagging(log, faults, states, snapshot.counters)
  BY <1>3 DEF ExplainInv
<1>5. CASE log' \in {log, WithTornLine} /\ stage' = [stage EXCEPT ![t] = "raised"]
  <2>1. \A u \in Tasks : new[u] = old[u]
    <3>1. CASE log' = log
      BY <3>1
    <3>2. CASE Longer(log, log') /\ log'[Len(log')] = Torn
      <4>1. \A u \in Tasks : ~Says(log', Len(log'), u)
        BY <3>2, LineFacts DEF Says, TaskTypes
      <4> QED
        BY <1>0, <3>2, <4>1, RebuiltLonger
    <3> QED
      BY <1>5, <3>1, <3>2, TornAdded
  <2> HIDE DEF old, new
  <2>2. stage'[t] = "raised"
    BY <1>5 DEF Typed, ObserverTypeOK
  <2>3. states'[t] # new[t]
    BY <1>2, <1>4, <2>1
  <2> QED
    BY <1>2, <1>4, <2>1, <2>2, <2>3
<1>6. CASE log' = WithLine(e)
  <2>1. Longer(log, log') /\ log'[Len(log')] = e
    BY <1>1, <1>6, LineAdded
  <2>2. \A u \in Tasks : new[u] = IF u = t THEN s ELSE old[u]
    <3>1. \A u \in Tasks : Says(log', Len(log'), u) <=> u = t
      BY <1>1, <2>1 DEF Says
    <3> QED
      BY <1>0, <1>1, <2>1, <3>1, RebuiltLonger
  <2>3. \A u \in Tasks : stage'[u] # "raised" => states'[u] = new[u]
    <3> HIDE DEF old, new
    <3> QED
      BY <1>2, <1>4, <2>2
  <2>4. ASSUME snapshot' = snapshot, faults' = faults + 1, snapshot'.run = run', states' = new
        PROVE  Lagging(log', faults', states', snapshot'.counters)
    <3>1. states = old
      <4>1. \A u \in Tasks : states[u] = old[u]
        <5> HIDE DEF old, new
        <5> QED
          BY <1>2, <1>4, <2>2, <2>4
      <4>2. old = [u \in Tasks |-> old[u]]
        BY DEF RebuiltOf
      <4>3. states = [u \in Tasks |-> states[u]]
        BY DEF Typed, ObserverTypeOK
      <4> HIDE DEF old
      <4> QED
        BY <4>1, <4>2, <4>3
    <3>2. Lagging(log, faults, states, snapshot.counters)
      BY <1>1, <1>4, <2>4, <3>1
    <3> QED
      BY <1>0, <2>1, <2>4, <3>1, <3>2, LagGrows
  <2>5. ASSUME snapshot' = Snapshot(states', results', v, type = "task_finished" /\ t = Root)
        PROVE  Lagging(log', faults', states', snapshot'.counters)
    <3>1. snapshot'.counters = Counters(states')
      BY <2>5 DEF Snapshot
    <3> QED
      BY <3>1 DEF Lagging
  <2>6. CASE stage' = [stage EXCEPT ![t] = "raised"] /\ log' \in {log, WithTornLine}
    BY <1>5, <2>6
  <2> QED
    BY <1>1, <2>3, <2>4, <2>5, <2>6
<1> QED
  BY <1>1, <1>5, <1>6
LEMMA PlanningStep ==
    ASSUME Typed, PlanningInv, [Next]_vars
    PROVE  PlanningInv'
<1>1. CASE Restart
  <2>1. run' = run + 1 /\ snapshot' = snapshot
    BY <1>1 DEF Restart, Start
  <2>2. snapshot.run \in 0 .. run /\ run \in Nat
    BY ObserverAssumption DEF Typed, ObserverTypeOK
  <2> QED
    BY <2>1, <2>2 DEF PlanningInv
<1>2. ASSUME NEW t \in Tasks,
             \/ on_task_started(t) \/ Raises(t)
             \/ t \in Functions /\ (on_task_retried(t) \/ FunctionFinishes(t))
             \/ t \in Cases /\ PrecheckFails(t)
             \/ t \in Containers /\ ContainerFinishes(t)
      PROVE  phase' = "running"
  BY <1>2 DEF on_task_started, Raises, on_task_retried, FunctionFinishes, PrecheckFails,
              ContainerFinishes, Told
<1>3. on_plan_created \/ RunRaises \/ FinalSnapshot \/ GenerateReports \/ AnnounceReports \/ Kill
      => phase' # "planning"
  BY DEF on_plan_created, RunRaises, FinalSnapshot, GenerateReports, AnnounceReports, Kill
<1>4. UNCHANGED vars => UNCHANGED <<phase, run, snapshot>>
  BY DEF vars, disk
<1> QED
  BY <1>1, <1>2, <1>3, <1>4, TreeFacts DEF Next, Report, PlanningInv

(* The tasks of which the observer knows what the file l does not tell. *)
Missing(st, l) == {t \in Tasks : st[t] # RebuiltOf(l, Len(l))[t]}

CostInv == NothingSwallowed => Cardinality(Missing(states, log)) <= faults

(* A step that costs the file at most the state of one task, if a write fails. *)
LEMMA CostKept ==
    ASSUME Typed, Typed', CostInv, NothingSwallowed' => NothingSwallowed,
           NothingSwallowed' =>
              \/ Missing(states', log') \subseteq Missing(states, log) /\ faults <= faults'
              \/ \E t \in Tasks : /\ Missing(states', log') \subseteq Missing(states, log) \cup {t}
                                  /\ faults' = faults + 1
    PROVE  CostInv'
<1> SUFFICES ASSUME NothingSwallowed' PROVE Cardinality(Missing(states', log')) <= faults'
  BY DEF CostInv
<1> DEFINE S == Missing(states, log)
           T == Missing(states', log')
<1>1. IsFiniteSet(S)
  <2>1. IsFiniteSet(Tasks)
    BY ObserverAssumption, FS_Union, FS_Singleton DEF Tasks, Containers
  <2> QED
    BY <2>1, FS_Subset DEF Missing
<1>2. Cardinality(S) \in Nat /\ Cardinality(S) <= faults /\ faults \in Nat /\ faults' \in Nat
  BY <1>1, FS_CardinalityType, ObserverAssumption DEF CostInv, Typed, ObserverTypeOK
<1> HIDE DEF S, T
<1>3. CASE T \subseteq S /\ faults <= faults'
  <2>1. Cardinality(T) \in Nat /\ Cardinality(T) <= Cardinality(S)
    BY <1>1, <1>3, FS_Subset, FS_CardinalityType
  <2> QED
    BY <1>2, <1>3, <2>1 DEF T
<1>4. ASSUME NEW t \in Tasks, T \subseteq S \cup {t}, faults' = faults + 1
      PROVE  Cardinality(T) <= faults'
  <2>1. IsFiniteSet(S \cup {t}) /\ Cardinality(S \cup {t}) \in Nat
    BY <1>1, FS_AddElement, FS_CardinalityType
  <2>2. Cardinality(S \cup {t}) <= Cardinality(S) + 1
    <3>1. Cardinality(S \cup {t}) \in {Cardinality(S), Cardinality(S) + 1}
      BY <1>1, FS_AddElement
    <3> QED
      BY <1>2, <3>1
  <2>3. Cardinality(T) \in Nat /\ Cardinality(T) <= Cardinality(S \cup {t})
    BY <1>4, <2>1, FS_Subset, FS_CardinalityType
  <2> QED
    BY <1>2, <1>4, <2>1, <2>2, <2>3
<1> QED
  BY <1>3, <1>4 DEF S, T

(* A step that tells nothing of a task costs nothing. *)
LEMMA CostQuietly ==
    ASSUME Typed, Typed', CostInv, states' = states, faults' = faults \/ Fault,
           NothingSwallowed' =>
              /\ NothingSwallowed
              /\ \/ log' = log
                 \/ Longer(log, log') /\ log'[Len(log')].type \notin TaskTypes
    PROVE  CostInv'
<1>0. log \in Seq(Lines) /\ log' \in Seq(Lines) /\ faults \in Nat /\ faults' \in {faults, faults + 1}
  BY DEF Typed, ObserverTypeOK, Fault
<1>1. ASSUME NothingSwallowed', NEW u \in Tasks
      PROVE  RebuiltOf(log', Len(log'))[u] = RebuiltOf(log, Len(log))[u]
  <2>1. CASE log' = log
    BY <2>1
  <2>2. CASE Longer(log, log') /\ log'[Len(log')].type \notin TaskTypes
    <3>1. ~Says(log', Len(log'), u)
      BY <2>2 DEF Says
    <3> QED
      BY <1>0, <2>2, <3>1, RebuiltLonger
  <2> QED
    BY <1>1, <2>1, <2>2
<1>2. NothingSwallowed' => Missing(states', log') \subseteq Missing(states, log)
  BY <1>1 DEF Missing
<1>3. faults <= faults'
  BY <1>0
<1> QED
  BY <1>2, <1>3, CostKept

(* A callback: the line of t makes good what the file did not tell of it, and *)
(* without the line the file lacks the state of t at most.                    *)
LEMMA CostAloud ==
    ASSUME Typed, Typed', CostInv,
           NEW type \in TaskTypes, NEW t \in Tasks, NEW s \in States, NEW next, NEW v,
           Told(type, t, s, next, v)
    PROVE  CostInv'
<1> DEFINE e == Event(type, t, s)
           old == RebuiltOf(log, Len(log))
           new == RebuiltOf(log', Len(log'))
<1>0. log \in Seq(Lines) /\ log' \in Seq(Lines) /\ faults \in Nat
  BY DEF Typed, ObserverTypeOK
<1>1. /\ e \in Events /\ e.type = type /\ e.task = t /\ e.status = s
      /\ states' = [states EXCEPT ![t] = s]
      /\ \/ log' = WithLine(e) /\ (faults' = faults \/ faults' = faults + 1)
         \/ log' \in {log, WithTornLine} /\ faults' = faults + 1
  <2>1. e.type = type /\ e.task = t /\ e.status = s
    BY DEF Event
  <2> QED
    BY <2>1, ToldFacts DEF TaskTypes, Fault
<1> HIDE DEF e
<1>2. states'[t] = s /\ \A u \in Tasks : u # t => states'[u] = states[u]
  BY <1>1 DEF Typed, ObserverTypeOK
<1>3. NothingSwallowed' => NothingSwallowed
  BY <1>1, LineAdded, TornAdded
<1>4. CASE log' = WithLine(e)
  <2>1. ASSUME NothingSwallowed', NEW u \in Tasks PROVE new[u] = IF u = t THEN s ELSE old[u]
    <3>1. Longer(log, log') /\ log'[Len(log')] = e
      BY <1>1, <1>4, <2>1, LineAdded
    <3>2. Says(log', Len(log'), u) <=> u = t
      BY <1>1, <3>1 DEF Says
    <3> QED
      BY <1>0, <1>1, <3>1, <3>2, RebuiltLonger
  <2> HIDE DEF old, new
  <2>2. ASSUME NothingSwallowed', NEW u \in Tasks, states'[u] # new[u] PROVE states[u] # old[u]
    BY <1>2, <2>1, <2>2
  <2>3. NothingSwallowed' => Missing(states', log') \subseteq Missing(states, log)
    BY <2>2 DEF Missing, old, new
  <2>4. faults <= faults'
    BY <1>0, <1>1
  <2> QED
    BY <1>3, <2>3, <2>4, CostKept
<1>5. CASE log' \in {log, WithTornLine} /\ faults' = faults + 1
  <2>1. ASSUME NothingSwallowed', NEW u \in Tasks PROVE new[u] = old[u]
    <3>1. CASE log' = log
      BY <3>1
    <3>2. CASE Longer(log, log') /\ log'[Len(log')] = Torn
      <4>1. ~Says(log', Len(log'), u)
        BY <3>2, LineFacts DEF Says, TaskTypes
      <4> QED
        BY <1>0, <3>2, <4>1, RebuiltLonger
    <3> QED
      BY <1>5, <2>1, <3>1, <3>2, TornAdded
  <2> HIDE DEF old, new
  <2>2. ASSUME NothingSwallowed', NEW u \in Tasks, u # t, states'[u] # new[u] PROVE states[u] # old[u]
    BY <1>2, <2>1, <2>2
  <2>3. NothingSwallowed' => Missing(states', log') \subseteq Missing(states, log) \cup {t}
    BY <2>2 DEF Missing, old, new
  <2> QED
    BY <1>3, <1>5, <2>3, CostKept
<1> QED
  BY <1>1, <1>4, <1>5

LEMMA CostStep ==
    ASSUME Typed, Typed', CostInv, [Next]_vars
    PROVE  CostInv'
<1>1. ASSUME NEW t \in Tasks, Starts(t) \/ Retries(t) \/ Finishes(t) PROVE CostInv'
  <2>1. /\ {"running", "retrying"} \cup ResultStatus \subseteq States
        /\ {"task_started", "task_retried", "task_finished"} \subseteq TaskTypes
    BY DEF States, ResultStatus, TaskTypes
  <2> QED
    BY <1>1, <2>1, CostAloud DEF Starts, Retries, Finishes
<1>2. CASE /\ UNCHANGED <<log, states>>
           /\ faults' = faults \/ Fault
  <2>1. NothingSwallowed' => NothingSwallowed
    BY <1>2 DEF NothingSwallowed
  <2> QED
    BY <1>2, <2>1, CostQuietly
<1>3. ASSUME NEW e \in Events, e.type \notin TaskTypes, states' = states,
             faults' = faults \/ Fault,
             log' = WithLine(e) \/ log' \in {log, WithTornLine}
      PROVE  CostInv'
  <2>1. NothingSwallowed' =>
          /\ NothingSwallowed
          /\ \/ log' = log
             \/ Longer(log, log') /\ log'[Len(log')].type \notin TaskTypes
    BY <1>3, LineAdded, TornAdded, LineFacts DEF TaskTypes
  <2> QED
    BY <1>3, <2>1, CostQuietly
<1>4. CASE on_plan_created \/ AnnounceReports
  <2> DEFINE e == IF on_plan_created THEN Event("plan_created", Root, "none")
                  ELSE Event("report_generated", Root, verdict[Root])
  <2>1. e \in Events /\ e.type \notin TaskTypes
    <3>1. {"plan_created", "report_generated"} \subseteq EventTypes
          /\ verdict[Root] \in States \cup {"none"}
      BY TreeFacts DEF EventTypes, Typed, ObserverTypeOK, States
    <3> QED
      BY <3>1, ProcessEvents DEF Event, TaskTypes
  <2>2. /\ log' = WithLine(e) \/ log' \in {log, WithTornLine}
        /\ states' = states /\ (faults' = faults \/ Fault)
    BY <1>4 DEF on_plan_created, AnnounceReports, AppendFails, memory
  <2> HIDE DEF e
  <2> QED
    BY <1>3, <2>1, <2>2
<1>5. CASE Restart
  <2>1. /\ log' = <<Torn>> \/ log' = <<>>
        /\ \A t \in Tasks : states'[t] = "none"
        /\ faults' = MaxFaults
    BY <1>5 DEF Restart, Start
  <2>2. \A i \in 1 .. Len(log') : log'[i] = Torn
    BY <2>1
  <2>3. \A i \in 1 .. Len(log'), t \in Tasks : ~Says(log', i, t)
    BY <2>2, LineFacts DEF Says, TaskTypes
  <2>4. \A t \in Tasks : RebuiltOf(log', Len(log'))[t] = "none"
    <3>1. log' \in Seq(Lines)
      BY DEF Typed
    <3> QED
      BY <2>3, <3>1, RebuiltNothing
  <2>5. Missing(states', log') = {}
    BY <2>1, <2>4 DEF Missing
  <2> QED
    BY <2>1, <2>5, FS_EmptySet, ObserverAssumption DEF CostInv
<1>6. ASSUME NEW t \in Tasks, Raises(t) PROVE CostInv'
  BY <1>2, <1>6 DEF Raises, disk
<1>7. RunRaises \/ FinalSnapshot \/ GenerateReports \/ Kill \/ UNCHANGED vars => CostInv'
  <2>1. RunRaises \/ FinalSnapshot \/ GenerateReports \/ Kill \/ UNCHANGED vars =>
            UNCHANGED <<log, states>> /\ (faults' = faults \/ Fault)
    BY DEF RunRaises, FinalSnapshot, GenerateReports, Kill, vars, memory, disk
  <2> QED
    BY <1>2, <2>1
<1>8. ASSUME NEW t \in Tasks, on_task_started(t) PROVE CostInv'
  BY <1>1, <1>8 DEF on_task_started, Starts
<1>9. ASSUME NEW f \in Functions, on_task_retried(f) PROVE CostInv'
  BY <1>1, <1>9, TreeFacts DEF on_task_retried, Retries, CanReturn
<1>10. ASSUME \/ \E f \in Functions : FunctionFinishes(f)
              \/ \E c \in Cases : PrecheckFails(c)
              \/ \E c \in Containers : ContainerFinishes(c)
       PROVE  CostInv'
  BY <1>1, <1>10, FinishKinds
<1> QED
  BY <1>4, <1>5, <1>6, <1>7, <1>8, <1>9, <1>10 DEF Next, Report

LEMMA ExplainStep ==
    ASSUME Typed, Typed', KnownInv, EndInv, PlanningInv, ExplainInv, [Next]_vars
    PROVE  ExplainInv'
<1>1. ASSUME NEW t \in Tasks, Starts(t) PROVE ExplainInv'
  <2>1. "running" \in States /\ "task_started" \in TaskTypes
    BY DEF States, ResultStatus, TaskTypes
  <2>2. stage[t] # "raised" /\ states[t] # "running"
    BY <1>1 DEF Starts, CanStart, KnownInv, Known
  <2> QED
    BY <1>1, <2>1, <2>2, ExplainAloud DEF Starts
<1>2. ASSUME NEW t \in Tasks, Retries(t) PROVE ExplainInv'
  <2>1. "retrying" \in States /\ "task_retried" \in TaskTypes
    BY DEF States, TaskTypes
  <2>2. stage[t] # "raised" /\ states[t] # "retrying"
    BY <1>2 DEF Retries, KnownInv, Known
  <2> QED
    BY <1>2, <2>1, <2>2, ExplainAloud DEF Retries
<1>3. ASSUME NEW t \in Tasks, Finishes(t) PROVE ExplainInv'
  <2>1. verdict'[t] \in States /\ "task_finished" \in TaskTypes
    BY <1>3 DEF Finishes, States, TaskTypes
  <2>2. stage[t] # "raised" /\ states[t] # verdict'[t]
    BY <1>3, FinishFacts DEF Finishes, KnownInv, Known, Final
  <2> QED
    BY <1>3, <2>1, <2>2, ExplainAloud DEF Finishes
<1>4. ASSUME UNCHANGED <<log, states, snapshot, run>>, faults <= faults',
             stage' = stage \/ \E t \in Tasks : stage' = [stage EXCEPT ![t] = "raised"]
      PROVE  ExplainInv'
  <2>1. NothingSwallowed' => NothingSwallowed
    BY <1>4 DEF NothingSwallowed
  <2>2. \A u \in Tasks : stage'[u] = stage[u] \/ stage'[u] = "raised"
    BY <1>4 DEF Typed, ObserverTypeOK
  <2> QED
    BY <1>4, <2>1, <2>2, ExplainQuietly
<1>5. ASSUME NEW t \in Tasks, Raises(t) PROVE ExplainInv'
  <2>1. faults' = faults /\ faults \in Nat
    BY <1>5 DEF Raises, Typed, ObserverTypeOK
  <2>2. faults <= faults'
    BY <2>1
  <2>3. /\ UNCHANGED <<log, states, snapshot, run>>
        /\ stage' = [stage EXCEPT ![t] = "raised"]
    BY <1>5 DEF Raises, Enters, disk
  <2> QED
    BY <1>4, <2>2, <2>3
<1>6. ASSUME NEW e \in Events, e.type \notin TaskTypes,
             log' = WithLine(e) \/ log' \in {log, WithTornLine},
             stage' = stage, states' = states,
             snapshot'.run = run' => snapshot'.counters = Counters(states')
      PROVE  ExplainInv'
  <2>1. NothingSwallowed' =>
          /\ NothingSwallowed
          /\ \/ log' = log
             \/ Longer(log, log') /\ log'[Len(log')].type \notin TaskTypes
    BY <1>6, LineAdded, TornAdded, LineFacts DEF TaskTypes
  <2> QED
    BY <1>6, <2>1, ExplainQuietly
<1>7. CASE on_plan_created
  <2> DEFINE e == Event("plan_created", Root, "none")
  <2>1. e \in Events /\ e.type \notin TaskTypes
    <3>1. "plan_created" \in EventTypes
      BY DEF EventTypes
    <3> QED
      BY <3>1, ProcessEvents DEF Event, TaskTypes
  <2>2. /\ log' = WithLine(e) \/ log' \in {log, WithTornLine}
        /\ stage' = stage /\ states' = states /\ snapshot' = snapshot /\ run' = run
    BY <1>7 DEF on_plan_created, AppendFails, memory
  <2>3. snapshot.run < run /\ run \in Nat /\ snapshot.run \in Int
    BY <1>7, ObserverAssumption DEF on_plan_created, PlanningInv, Typed, ObserverTypeOK
  <2> HIDE DEF e
  <2>4. snapshot'.run # run'
    BY <2>2, <2>3
  <2> QED
    BY <1>6, <2>1, <2>2, <2>4
<1>8. CASE AnnounceReports
  <2> DEFINE e == Event("report_generated", Root, verdict[Root])
  <2>1. e \in Events /\ e.type \notin TaskTypes
    <3>1. "report_generated" \in EventTypes /\ verdict[Root] \in States \cup {"none"}
      BY TreeFacts DEF EventTypes, Typed, ObserverTypeOK, States
    <3> QED
      BY <3>1, ProcessEvents DEF Event, TaskTypes
  <2>2. /\ log' = WithLine(e) \/ log' \in {log, WithTornLine}
        /\ stage' = stage /\ states' = states
        /\ snapshot' = snapshot \/ snapshot' = Snapshot(states, results, verdict, TRUE)
    BY <1>8 DEF AnnounceReports, AppendFails, memory
  <2>3. snapshot'.counters = Counters(states)
    BY <1>8, <2>2, FinalSnapshotSays DEF AnnounceReports, EndInv
  <2> HIDE DEF e
  <2> QED
    BY <1>6, <2>1, <2>2, <2>3
<1>9. CASE FinalSnapshot
  <2>1. CASE snapshot' = snapshot
    <3>1. faults' = faults \/ faults' = faults + 1
      BY <1>9 DEF FinalSnapshot, Fault
    <3>2. faults <= faults'
      BY <3>1 DEF Typed, ObserverTypeOK
    <3> QED
      BY <1>4, <1>9, <2>1, <3>2 DEF FinalSnapshot, memory
  <2>2. CASE snapshot' = Snapshot(states, results, verdict, TRUE)
    <3>1. snapshot'.counters = Counters(states')
      BY <1>9, <2>2, FinalSnapshotSays DEF FinalSnapshot, memory
    <3>2. NothingSwallowed' => NothingSwallowed
      BY <1>9 DEF FinalSnapshot, NothingSwallowed
    <3> QED
      BY <1>9, <3>1, <3>2, ExplainQuietly DEF FinalSnapshot, memory
  <2> QED
    BY <1>9, <2>1, <2>2 DEF FinalSnapshot
<1>10. CASE RunRaises \/ GenerateReports \/ Kill \/ UNCHANGED vars
  <2>1. /\ UNCHANGED <<log, states, snapshot, run, stage>>
        /\ faults' = faults \/ Fault
    BY <1>10 DEF RunRaises, GenerateReports, Kill, vars, memory, disk
  <2>2. faults <= faults'
    <3>1. faults' \in {faults, faults + 1} /\ faults \in Nat
      BY <2>1 DEF Fault, Typed, ObserverTypeOK
    <3> QED
      BY <3>1
  <2> QED
    BY <1>4, <2>1, <2>2
<1>11. CASE Restart
  <2>1. /\ log' = <<Torn>> \/ log' = <<>>
        /\ \A t \in Tasks : states'[t] = "none"
        /\ run' = run + 1 /\ snapshot' = snapshot
    BY <1>11 DEF Restart, Start
  <2>2. \A i \in 1 .. Len(log') : log'[i] = Torn
    BY <2>1
  <2>3. \A i \in 1 .. Len(log'), t \in Tasks : ~Says(log', i, t)
    BY <2>2, LineFacts DEF Says, TaskTypes
  <2>4. log' \in Seq(Lines)
    BY DEF Typed
  <2>5. \A t \in Tasks : states'[t] = RebuiltOf(log', Len(log'))[t]
    BY <2>1, <2>3, <2>4, RebuiltNothing
  <2>6. snapshot.run \in 0 .. run /\ run \in Nat
    BY ObserverAssumption DEF Typed, ObserverTypeOK
  <2>7. snapshot'.run # run'
    BY <2>1, <2>6
  <2> QED
    BY <2>5, <2>7 DEF ExplainInv
<1>12. ASSUME NEW t \in Tasks, on_task_started(t) PROVE ExplainInv'
  BY <1>1, <1>12 DEF on_task_started, Starts
<1>13. ASSUME NEW f \in Functions, on_task_retried(f) PROVE ExplainInv'
  BY <1>2, <1>13, TreeFacts DEF on_task_retried, Retries, CanReturn
<1>14. ASSUME \/ \E f \in Functions : FunctionFinishes(f)
              \/ \E c \in Cases : PrecheckFails(c)
              \/ \E c \in Containers : ContainerFinishes(c)
       PROVE  ExplainInv'
  BY <1>3, <1>14, FinishKinds
<1> QED
  BY <1>5, <1>7, <1>8, <1>9, <1>10, <1>11, <1>12, <1>13, <1>14 DEF Next, Report

(* Each failed write costs the file the state of one task at most, and the    *)
(* counters of the snapshot lag by one line for each at most.                 *)
THEOREM EventsExplain == Spec => []EventsExplainSnapshot
<1>1. Init => PlanningInv
  BY DEF Init, PlanningInv, NoSnapshot
<1>2. Init => ExplainInv
  <2> SUFFICES ASSUME Init PROVE ExplainInv
    OBVIOUS
  <2>1. log = <<>> /\ snapshot.run # run /\ \A t \in Tasks : states[t] = "none"
    BY DEF Init, NoSnapshot
  <2>2. log \in Seq(Lines) /\ \A i \in 1 .. Len(log), t \in Tasks : ~Says(log, i, t)
    BY <2>1
  <2>3. \A t \in Tasks : RebuiltOf(log, Len(log))[t] = "none"
    BY <2>2, RebuiltNothing
  <2> QED
    BY <2>1, <2>3 DEF ExplainInv
<1>3. Init => CostInv
  <2> SUFFICES ASSUME Init PROVE CostInv
    OBVIOUS
  <2>1. log = <<>> /\ faults = 0 /\ \A t \in Tasks : states[t] = "none"
    BY DEF Init
  <2>2. log \in Seq(Lines) /\ \A i \in 1 .. Len(log), t \in Tasks : ~Says(log, i, t)
    BY <2>1
  <2>3. \A t \in Tasks : RebuiltOf(log, Len(log))[t] = "none"
    BY <2>2, RebuiltNothing
  <2>4. Missing(states, log) = {}
    BY <2>1, <2>3 DEF Missing
  <2> QED
    BY <2>1, <2>4, FS_EmptySet DEF CostInv
<1>4. Typed /\ Typed' /\ CostInv /\ [Next]_vars => CostInv'
  BY CostStep
<1>5. Typed /\ PlanningInv /\ [Next]_vars => PlanningInv'
  BY PlanningStep
<1>6. /\ Typed /\ Typed' /\ KnownInv /\ EndInv /\ PlanningInv /\ ExplainInv
      /\ [Next]_vars
      => ExplainInv'
  BY ExplainStep
<1>7. ExplainInv /\ CostInv => EventsExplainSnapshot
  <2>1. \A n : Rebuilt(n) = RebuiltOf(log, n)
    BY DEF Rebuilt, RebuiltOf, Tells, Says, TaskTypes
  <2> SUFFICES ASSUME ExplainInv, CostInv, NothingSwallowed PROVE EventsExplainSnapshot
    BY DEF EventsExplainSnapshot
  <2>2. /\ Cardinality({t \in Tasks : states[t] # Rebuilt(Len(log))[t]}) <= faults
        /\ snapshot.run = run /\ states = Rebuilt(Len(log)) =>
              \/ snapshot.counters = Counters(states)
              \/ \E lag \in 1 .. faults :
                  snapshot.counters = Counters(Rebuilt(Len(log) - lag))
    BY <2>1 DEF ExplainInv, Lagging, CostInv, Missing
  <2> QED
    BY <2>2 DEF EventsExplainSnapshot
<1> QED
  BY <1>1, <1>2, <1>3, <1>4, <1>5, <1>6, <1>7, AlwaysEarly, PTL DEF Spec
====
