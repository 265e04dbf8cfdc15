---- MODULE RunControl ----
(***************************************************************************)
(* One process of the command line: main of run_fixture.py, run_case.py    *)
(* and run_function.py, execute_plan, _run_scheduler and _attach_dashboard *)
(* of src/framework/cli/common.py, and the display loop of                 *)
(* src/framework/dashboard/cli_dashboard.py.                               *)
(*                                                                         *)
(* With --dashboard the scheduler runs in a daemon thread, the worker, and *)
(* the main thread shows the snapshot file until a key, the automatic      *)
(* exit, an interrupt or an error ends the display; then it waits for the  *)
(* worker.  The scheduler itself is here what the snapshot shows of it.    *)
(* Keys that change only what is on the screen (r), and the text file of   *)
(* the screen (s), are left out.  One tick of the linger time is one       *)
(* refresh of the display.                                                 *)
(***************************************************************************)
EXTENDS SystemMonitor, Policies

CONSTANTS
    Outcomes,   \* the statuses the root task may end with
    Lingers,    \* the values of dashboard_auto_exit_on_{success,failure}_seconds
    None,       \* among them: no automatic exit
    MaxCalls    \* bound: calls of main in one process, as the tests make

ASSUME RunControlAssumption ==
    /\ Outcomes \subseteq ResultStatus \ {"running"}
    /\ Lingers \ {None} \subseteq Nat
    /\ MaxCalls \in Nat \ {0}

VARIABLES
    pc,         \* where the main thread is
    calls,      \* of main, so far
    linger,     \* success_ and failure_exit_linger_seconds of the display
    worker,     \* where the scheduler is
    outcome,    \* the status of root_result
    shown,      \* current_status in the snapshot file
    reused,     \* was there a file of an earlier run with this request id
    view,       \* _view_mode; the main and the debug view both show the status
    drawn,      \* the status in the layout drawn last
    completed,  \* _completed_at, as the refreshes since then, and _completed_status
    leftBy,     \* what ended the display
    exit        \* the exit code, or how else main ended

display == <<linger, view, drawn, completed, leftBy>>
run == <<worker, outcome, shown>>
vars == <<pc, calls, reused, exit, display, run, monitorVars>>

Final == {"passed", "failed", "timeout", "aborted", "skipped"}
\* no dashboard, one without a terminal, one with a terminal
Modes == {"plain", "detached", "attached"}
Displaying == {"start", "key", "check", "stop", "joinMonitor"}
NoLinger == [success |-> None, failure |-> None]
NotCompleted == [ticks |-> None, status |-> None]
Working == {"planning", "running", "reporting"}

----------------------------------------------------------------------------
(* The scheduler, in the worker or, without a dashboard, in the main thread *)

(* on_task_started of the root task writes the first snapshot; before it,  *)
(* on_plan_created has only added an event.                                *)
FirstSnapshot ==
    /\ worker = "planning"
    /\ worker' = "running" /\ shown' = "running"
    /\ UNCHANGED <<pc, calls, reused, exit, display, outcome, monitorVars>>

(* on_task_finished of the root task writes the last one. *)
LastSnapshot ==
    /\ worker = "running"
    /\ \E s \in Outcomes : outcome' = s /\ shown' = s
    /\ worker' = "reporting"
    /\ UNCHANGED <<pc, calls, reused, exit, display, monitorVars>>

WorkerEnds ==
    /\ worker = "reporting"
    /\ worker' = "ended"
    /\ UNCHANGED <<pc, calls, reused, exit, display, outcome, shown, monitorVars>>

(* An exception of a write, a task or a report, kept in error_box. *)
WorkerRaises ==
    /\ worker \in Working
    /\ worker' = "raised"
    /\ UNCHANGED <<pc, calls, reused, exit, display, outcome, shown, monitorVars>>

----------------------------------------------------------------------------
(* main, execute_plan and _run_scheduler *)

(* The statuses are those of the table in _linger_seconds_for_status. *)
_linger_seconds_for_status(status) ==
    IF status \in {"passed", "skipped"} THEN linger.success
    ELSE IF status \in {"failed", "timeout", "aborted"} THEN linger.failure
    ELSE None

_auto_exit == linger.success # None \/ linger.failure # None

(* main begins; --request-id may name an earlier run, whose snapshot stays. *)
Call(again) ==
    /\ pc \in {"idle", "returned"} /\ calls < MaxCalls
    /\ pc' = "input" /\ calls' = calls + 1
    /\ reused' = (again /\ shown # "none")
    /\ shown' = IF again THEN shown ELSE "none"
    /\ worker' = "none" /\ outcome' = "none" /\ exit' = "none"
    /\ UNCHANGED <<display, monitorVars>>

(* A CLIError, and in run_case a ConfigError, exits with 2; a ConfigError in  *)
(* the others is not caught.                                                  *)
BadInput ==
    /\ pc = "input"
    /\ pc' = "returned"
    /\ exit' \in {"2", "traceback"}
    /\ UNCHANGED <<calls, reused, display, run, monitorVars>>

(* _run_scheduler up to the display or the join; the times are the display's, *)
(* and keep_open takes both away.                                             *)
Begin(m, success, failure, keep_open) ==
    /\ pc = "input"
    /\ worker' = "planning"
    /\ pc' = IF m = "attached" THEN "start" ELSE "join"
    /\ linger' = IF m # "attached" \/ keep_open THEN NoLinger
                 ELSE [success |-> success, failure |-> failure]
    /\ UNCHANGED <<calls, reused, exit, view, drawn, completed, leftBy, outcome, shown, monitorVars>>

payload_exit_code(status) == IF status = "passed" THEN "0" ELSE "1"

(* Mutant: the display's end is taken for the run's. *)
ReturnsWithoutJoin ==
    /\ pc = "join"
    /\ pc' = "returned"
    /\ exit' = payload_exit_code(shown)
    /\ UNCHANGED <<calls, reused, display, run, monitorVars>>

(* worker.join, the raise of error_box, print_payload and the exit code. *)
Returns ==
    /\ pc = "join" /\ worker \in {"ended", "raised"}
    /\ pc' = "returned"
    /\ exit' = IF worker = "raised" THEN "traceback" ELSE payload_exit_code(outcome)
    /\ UNCHANGED <<calls, reused, display, run, monitorVars>>

(* An interrupt in the join, or in the scheduler itself: the process ends     *)
(* and takes the daemon worker with it.                                       *)
Interrupted ==
    /\ pc = "join"
    /\ pc' = "dead" /\ exit' = "interrupted"
    /\ worker' = IF worker \in Working THEN "lost" ELSE worker
    /\ loops' = [t \in DOMAIN loops |-> [loops[t] EXCEPT !.pc = "gone"]]
    /\ UNCHANGED <<calls, reused, display, outcome, shown, monitors, current, overdue>>

----------------------------------------------------------------------------
(* The display *)

(* CLIDashboard.start up to the loop; --dashboard-no-monitor leaves the       *)
(* sampler alone.                                                             *)
StartDisplay(dir, start_monitor) ==
    /\ pc = "start"
    /\ pc' = "key"
    /\ drawn' = shown
    /\ IF start_monitor THEN start_monitoring(dir) ELSE UNCHANGED monitorVars
    /\ UNCHANGED <<calls, linger, reused, exit, view, completed, leftBy, run>>

(* read_key, _handle_key and _generate_layout, which reads the snapshot       *)
(* except in the view of the logs.                                            *)
Refresh(key) ==
    /\ pc = "key" /\ key # "q"
    /\ view' = IF key = "l" /\ view # "logs" THEN "logs"
               ELSE IF key \in {"l", "d"} THEN "status"
               ELSE view
    /\ drawn' = IF view' = "logs" THEN "logs" ELSE shown
    /\ pc' = "check"
    /\ UNCHANGED <<calls, linger, reused, exit, completed, leftBy, run, monitorVars>>

Quit ==
    /\ pc = "key"
    /\ pc' = "stop" /\ leftBy' = "key"
    /\ UNCHANGED <<calls, linger, reused, exit, view, drawn, completed, run, monitorVars>>

(* Mutant: the first sight of a final status sets the time and compares it    *)
(* at once.                                                                   *)
LingersAtOnce(status) ==
    LET seen == [ticks |-> IF completed.ticks = None THEN 1 ELSE completed.ticks + 1,
                 status |-> status]
    IN /\ completed' = seen
       /\ IF seen.ticks >= _linger_seconds_for_status(status)
          THEN pc' = "stop" /\ leftBy' = "auto"
          ELSE pc' = "key" /\ UNCHANGED leftBy

(* Mutant: every refresh starts the time anew. *)
LingersAnew(status) ==
    /\ completed' = [ticks |-> 0, status |-> status]
    /\ pc' = "key" /\ UNCHANGED leftBy

(* The time of the first refresh that saw the status, and the comparison in   *)
(* the later ones.                                                            *)
Linger(status) ==
    IF completed.ticks = None \/ completed.status # status
    THEN /\ completed' = [ticks |-> 0, status |-> status]
         /\ pc' = "key" /\ UNCHANGED leftBy
    ELSE IF completed.ticks + 1 >= _linger_seconds_for_status(status)
    THEN /\ pc' = "stop" /\ leftBy' = "auto" /\ UNCHANGED completed
    ELSE /\ completed' = [completed EXCEPT !.ticks = @ + 1]
         /\ pc' = "key" /\ UNCHANGED leftBy

(* _update_auto_exit_state, which reads the snapshot again, the update of the *)
(* screen and the sleep.                                                      *)
Check ==
    /\ pc = "check"
    /\ IF ~_auto_exit
       THEN pc' = "key" /\ UNCHANGED <<completed, leftBy>>
       ELSE IF shown \notin Final
       THEN pc' = "key" /\ completed' = NotCompleted /\ UNCHANGED leftBy
       ELSE IF _linger_seconds_for_status(shown) = None
       THEN /\ pc' = "key" /\ UNCHANGED leftBy
            /\ completed' = [ticks |-> None, status |-> shown]
       ELSE Linger(shown)
    /\ UNCHANGED <<calls, linger, reused, exit, view, drawn, run, monitorVars>>

(* An exception of the display reaches the except of _attach_dashboard, and   *)
(* an interrupt that of run_dashboard, both after stop has been called.       *)
DisplayBreaks(cause) ==
    /\ pc \in {"start", "key", "check"}
    /\ pc' = "stop" /\ leftBy' = cause
    /\ UNCHANGED <<calls, linger, reused, exit, view, drawn, completed, run, monitorVars>>

(* Mutant: stop is called after the loop, not in its finally. *)
StopUnlessBroken ==
    /\ pc = "stop"
    /\ pc' = "joinMonitor"
    /\ IF leftBy \in {"key", "auto"} THEN stop_monitoring ELSE UNCHANGED monitorVars
    /\ UNCHANGED <<calls, reused, exit, display, run>>

(* stop up to the join of the sampler. *)
Stop ==
    /\ pc = "stop"
    /\ pc' = "joinMonitor"
    /\ stop_monitoring
    /\ UNCHANGED <<calls, reused, exit, display, run>>

(* run_dashboard returns, and its display is forgotten. *)
JoinMonitor ==
    /\ pc = "joinMonitor"
    /\ JoinThread
    /\ pc' = "join"
    /\ linger' = NoLinger /\ view' = "status" /\ drawn' = "none"
    /\ completed' = NotCompleted /\ leftBy' = "none"
    /\ UNCHANGED <<calls, reused, exit, run>>

(* An interrupt in the join makes run_dashboard call stop again. *)
StopInterrupted ==
    /\ pc = "joinMonitor" /\ leftBy # "interrupt"
    /\ pc' = "stop" /\ leftBy' = "interrupt"
    /\ UNCHANGED <<calls, linger, reused, exit, view, drawn, completed, run, monitorVars>>

Sample(t) ==
    /\ LoopStep(t)
    /\ UNCHANGED <<pc, calls, reused, exit, display, run>>

----------------------------------------------------------------------------
Init ==
    /\ pc = "idle" /\ calls = 0 /\ exit = "none"
    /\ worker = "none" /\ outcome = "none" /\ reused = FALSE
    /\ shown = "none"
    /\ linger = NoLinger /\ view = "status" /\ drawn = "none"
    /\ completed = NotCompleted /\ leftBy = "none"
    /\ SystemMonitorInit

Work == FirstSnapshot \/ LastSnapshot \/ WorkerEnds \/ WorkerRaises

Show ==
    \/ \E dir \in Dirs, m \in BOOLEAN : StartDisplay(dir, m)
    \/ \E key \in {"none", "d", "l"} : Refresh(key)
    \/ Check
    \/ Stop
    \/ JoinMonitor

Next ==
    \/ Work
    \/ Show
    \/ \E again \in BOOLEAN : Call(again)
    \/ BadInput
    \/ \E m \in Modes, s, f \in Lingers, k \in BOOLEAN : Begin(m, s, f, k)
    \/ Returns
    \/ Interrupted
    \/ Quit
    \/ \E cause \in {"error", "interrupt"} : DisplayBreaks(cause)
    \/ StopInterrupted
    \/ \E t \in DOMAIN loops : Sample(t)

Spec == Init /\ [][Next]_vars

(* The scheduler's run ends (its own specification shows it), the main thread *)
(* and the sampler's threads are scheduled; nobody has to press a key.        *)
FairSpec ==
    /\ Spec
    /\ WF_vars(Work) /\ WF_vars(Show) /\ WF_vars(Returns)
    /\ \A t \in 1 .. MaxCalls : WF_vars(t \in DOMAIN loops /\ Sample(t))

----------------------------------------------------------------------------
RunControlTypeOK ==
    /\ pc \in {"idle", "input", "join", "returned", "dead"} \cup Displaying
    /\ calls \in 0 .. MaxCalls
    /\ linger \in [success : Lingers \cup {None}, failure : Lingers \cup {None}]
    /\ worker \in {"none", "ended", "raised", "lost"} \cup Working
    /\ outcome \in {"none"} \cup Outcomes
    /\ shown \in {"none", "running"} \cup Outcomes
    /\ view \in {"status", "logs"}
    /\ drawn \in {"none", "running", "logs"} \cup Outcomes
    /\ leftBy \in {"none", "key", "auto", "error", "interrupt"}
    /\ exit \in {"none", "0", "1", "2", "traceback", "interrupted"}
    /\ Len(loops) <= calls /\ Len(monitors) <= calls
    /\ current \in 0 .. Len(monitors)
    /\ (pc \in {"idle", "input", "start", "join"}) =>
           \A i \in DOMAIN monitors : ~monitors[i].running /\ monitors[i].thread = 0

(* However the display ends, main returns what the run ended with: exit code *)
(* 0 says that the scheduler has ended and the root task passed, 1 that it   *)
(* has ended otherwise, a traceback that it raised or never began, and only  *)
(* an interrupt outside the display loses a run.                             *)
ExitCodeTellsTheRun ==
    /\ (exit = "0") => (worker = "ended" /\ outcome = "passed")
    /\ (exit = "1") => (worker = "ended" /\ outcome # "passed")
    /\ (exit = "2") => (worker = "none")
    /\ (exit = "traceback") => (worker \in {"none", "raised"})
    /\ (worker = "lost") => (exit = "interrupted")
    /\ (worker \in Working) => (exit = "none")

(* The display leaves by itself only after it has drawn the status the run   *)
(* ended with (or the user looks at the logs): the layout is made before the *)
(* test of the snapshot, so the refresh that first sees a final status may   *)
(* still show a running one.  A snapshot left by an earlier run with the     *)
(* same request id is the exception.                                         *)
AutoExitShowsTheEnd ==
    (leftBy = "auto" /\ ~reused) => drawn \in {"logs", outcome} \ {"none"}

(* As long as every join of stop ended with its thread, at most one thread   *)
(* samples in this process, and it is the one that the current object knows: *)
(* system_monitor.json has one writer.                                       *)
OneSampler ==
    ~overdue => \A t \in Live :
        /\ Live = {t}
        /\ loops[t].monitor = current /\ monitors[current].thread = t

(* A run that ended is reported to the caller: at once when no display is    *)
(* open, and by the automatic exit when a linger time is set for its status. *)
EndedRunIsReported ==
    (worker = "ended" /\ (pc \in Displaying => _linger_seconds_for_status(outcome) # None))
        ~> (pc \in {"returned", "dead"})

(* No thread of the sampler outlives the display for good, also one whose    *)
(* join gave up, unless another display revives it by clearing its event.    *)
SamplersEnd ==
    (Live # {} /\ pc \notin {"start", "key", "check"})
        ~> (Live = {} \/ pc \in {"start", "key", "check"})

(* With a linger time for failures, the display of a run that did not pass   *)
(* leaves by itself, as doc/首期实现方案.md says of failure scenarios: also   *)
(* when the scheduler raised.                                                *)
FailureLeavesByItself ==
    (worker = "raised" /\ linger.failure # None) ~> (pc \notin Displaying)
====
