---- MODULE SystemMonitor ----
(***************************************************************************)
(* The sampler behind the dashboard, src/framework/monitoring/             *)
(* system_monitor.py: one global object per output directory, whose start  *)
(* creates a thread and whose stop waits for it for a second at most.      *)
(* What is sampled is left out; a thread is "busy" from the first reading  *)
(* to the last byte of system_monitor.json, which is written in place.     *)
(***************************************************************************)
EXTENDS Integers, Sequences, FiniteSets

CONSTANT Dirs       \* the output directories

VARIABLES
    monitors,   \* the objects made so far
    current,    \* _monitor: the index of the last object, or 0
    loops,      \* the threads that start made, in their order
    overdue     \* has some join given up

monitorVars == <<monitors, current, loops, overdue>>

SystemMonitorInit ==
    monitors = <<>> /\ current = 0 /\ loops = <<>> /\ overdue = FALSE

Fresh(dir) == [dir |-> dir, running |-> FALSE, stopped |-> FALSE, thread |-> 0]

Started(m, thread) ==
    [m EXCEPT !.running = TRUE, !.stopped = FALSE, !.thread = thread]

(* The part of stop before its join. *)
Asked(m) == [m EXCEPT !.running = FALSE, !.stopped = TRUE]

(* An object that is replaced is stopped first; its thread is none by then,   *)
(* so that stop has nothing to join.                                          *)
start_monitoring(dir) ==
    LET keep == current # 0 /\ monitors[current].dir = dir
        kept == [i \in DOMAIN monitors |->
                    IF i = current /\ ~keep THEN Asked(monitors[i]) ELSE monitors[i]]
        now == IF keep THEN kept ELSE Append(kept, Fresh(dir))
        m == IF keep THEN current ELSE Len(now)
        thread == Len(loops) + 1
    IN /\ current' = m
       /\ IF now[m].running
          THEN monitors' = now /\ UNCHANGED loops
          ELSE /\ monitors' = [now EXCEPT ![m] = Started(@, thread)]
               /\ loops' = Append(loops, [monitor |-> m, pc |-> "check"])
       /\ UNCHANGED overdue

stop_monitoring ==
    /\ monitors' = [i \in DOMAIN monitors |->
                       IF i = current THEN Asked(monitors[i]) ELSE monitors[i]]
    /\ UNCHANGED <<current, loops, overdue>>

(* Mutant: stop forgets the thread without waiting for it. *)
ForgetThread ==
    /\ monitors' = [i \in DOMAIN monitors |->
                       IF i = current THEN [monitors[i] EXCEPT !.thread = 0]
                       ELSE monitors[i]]
    /\ UNCHANGED <<current, loops, overdue>>

(* The threads that have not ended. *)
Live == {t \in DOMAIN loops : loops[t].pc # "gone"}

(* The join of stop, which ends with the thread or after its second, when    *)
(* the thread may be busy.                                                    *)
JoinThread ==
    LET thread == IF current = 0 THEN 0 ELSE monitors[current].thread
    IN /\ thread \in Live => loops[thread].pc = "busy"
       /\ overdue' = (overdue \/ thread \in Live)
       /\ monitors' = [i \in DOMAIN monitors |->
                          IF i = current THEN [monitors[i] EXCEPT !.thread = 0]
                          ELSE monitors[i]]
       /\ UNCHANGED <<current, loops>>

Moves(t, from, to) ==
    /\ loops[t].pc = from
    /\ loops' = [loops EXCEPT ![t].pc = to]
    /\ UNCHANGED <<monitors, current, overdue>>

(* _run_loop: the test of its while, one sample, the wait between two. *)
LoopTests(t) ==
    Moves(t, "check", IF monitors[loops[t].monitor].running THEN "busy" ELSE "gone")

LoopSamples(t) == Moves(t, "busy", "wait")

LoopWaits(t) ==
    Moves(t, "wait", IF monitors[loops[t].monitor].stopped THEN "gone" ELSE "check")

LoopStep(t) == LoopTests(t) \/ LoopSamples(t) \/ LoopWaits(t)
====
