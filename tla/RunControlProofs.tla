---- MODULE RunControlProofs ----
(***************************************************************************)
(* The exit code tells the run, and one thread samples at a time, for any  *)
(* number of calls of main, any statuses, linger times and directories.    *)
(***************************************************************************)
EXTENDS RunControl, SequenceTheorems, TLAPS

(* While main runs it has no exit code, before it begins there is no worker. *)
NotYetOver ==
    /\ pc \notin {"returned", "dead"} => exit = "none"
    /\ pc \in {"idle", "input"} => worker = "none"

IInv == ExitCodeTellsTheRun /\ NotYetOver

LEMMA ExitInit == Init => IInv
  BY DEF Init, IInv, ExitCodeTellsTheRun, NotYetOver, Working

(* A step of the display, of the sampler or of a key leaves exit code, worker *)
(* and outcome alone, and main within its call.                               *)
LEMMA DisplayLeavesTheRun ==
    ASSUME \/ Show \/ Quit \/ StopInterrupted
           \/ \E cause \in {"error", "interrupt"} : DisplayBreaks(cause)
           \/ \E t \in DOMAIN loops : Sample(t)
    PROVE  /\ UNCHANGED <<exit, worker, outcome>>
           /\ \/ pc' = pc
              \/ pc \in Displaying /\ pc' \in Displaying \cup {"join"}
<1>1. CASE Show
  <2>1. ASSUME NEW dir \in Dirs, NEW m \in BOOLEAN, StartDisplay(dir, m)
        PROVE  UNCHANGED <<exit, run>> /\ pc \in Displaying /\ pc' \in Displaying
    BY <2>1 DEF StartDisplay, Displaying
  <2>2. ASSUME NEW key \in {"none", "d", "l"}, Refresh(key)
        PROVE  UNCHANGED <<exit, run>> /\ pc \in Displaying /\ pc' \in Displaying
    BY <2>2 DEF Refresh, Displaying
  <2>3. CASE Check
    <3>1. UNCHANGED <<exit, run>> /\ pc \in Displaying
      BY <2>3 DEF Check, Displaying
    <3>2. pc' \in {"key", "stop"}
      BY <2>3 DEF Check, Linger
    <3> QED
      BY <3>1, <3>2 DEF Displaying, run
  <2>4. CASE Stop
    BY <2>4 DEF Stop, Displaying, run
  <2>5. CASE JoinMonitor
    BY <2>5 DEF JoinMonitor, Displaying, run
  <2> QED
    BY <1>1, <2>1, <2>2, <2>3, <2>4, <2>5 DEF Show, run
<1>2. CASE Quit \/ StopInterrupted
  BY <1>2 DEF Quit, StopInterrupted, Displaying, run
<1>3. ASSUME NEW cause \in {"error", "interrupt"}, DisplayBreaks(cause)
      PROVE  UNCHANGED <<exit, run>> /\ pc \in Displaying /\ pc' \in Displaying
  BY <1>3 DEF DisplayBreaks, Displaying
<1>4. ASSUME NEW t \in DOMAIN loops, Sample(t)
      PROVE  UNCHANGED <<exit, run, pc>>
  BY <1>4 DEF Sample
<1> QED
  BY <1>1, <1>2, <1>3, <1>4 DEF run

LEMMA ExitStep == IInv /\ [Next]_vars => IInv'
<1> SUFFICES ASSUME IInv, [Next]_vars PROVE IInv'
  OBVIOUS
<1> USE DEF IInv, ExitCodeTellsTheRun, NotYetOver, Working
<1>1. CASE UNCHANGED vars
  BY <1>1 DEF vars, run
<1>2. CASE Work
  BY <1>2 DEF Work, FirstSnapshot, LastSnapshot, WorkerEnds, WorkerRaises
<1>3. CASE \/ Show \/ Quit \/ StopInterrupted
           \/ \E cause \in {"error", "interrupt"} : DisplayBreaks(cause)
           \/ \E t \in DOMAIN loops : Sample(t)
  BY <1>3, DisplayLeavesTheRun DEF Displaying
<1>4. ASSUME NEW again \in BOOLEAN, Call(again)
      PROVE  IInv'
  BY <1>4 DEF Call
<1>5. CASE BadInput
  BY <1>5 DEF BadInput, run
<1>6. ASSUME NEW m \in Modes, NEW s \in Lingers, NEW f \in Lingers, NEW k \in BOOLEAN,
             Begin(m, s, f, k)
      PROVE  IInv'
  BY <1>6 DEF Begin
<1>7. CASE Returns
  BY <1>7 DEF Returns, payload_exit_code, run
<1>8. CASE Interrupted
  BY <1>8 DEF Interrupted
<1> QED
  BY <1>1, <1>2, <1>3, <1>4, <1>5, <1>6, <1>7, <1>8 DEF Next

(* However the display ends, main returns what the run ended with; see      *)
(* ExitCodeTellsTheRun.                                                      *)
THEOREM ExitCodes == Spec => []ExitCodeTellsTheRun
<1>1. Init => IInv
  BY ExitInit
<1>2. IInv /\ [Next]_vars => IInv'
  BY ExitStep
<1>3. IInv => ExitCodeTellsTheRun
  BY DEF IInv
<1> QED
  BY <1>1, <1>2, <1>3, PTL DEF Spec

----------------------------------------------------------------------------
(* The threads of the sampler *)

Opened == {"key", "check", "stop", "joinMonitor"}

MonitorType == [dir : Dirs, running : BOOLEAN, stopped : BOOLEAN, thread : Nat]
LoopType == [monitor : Nat \ {0}, pc : {"check", "busy", "wait", "gone"}]

(* An object that no display uses has no thread and does not run; each call  *)
(* makes one object and one thread at most.                                   *)
SamplersInv ==
    /\ monitors \in Seq(MonitorType) /\ loops \in Seq(LoopType)
    /\ current \in 0 .. Len(monitors) /\ overdue \in BOOLEAN
    /\ calls \in 0 .. MaxCalls
    /\ Len(monitors) <= calls /\ Len(loops) <= calls
    /\ pc \in {"input", "start"} => Len(monitors) < calls /\ Len(loops) < calls
    /\ \A i \in DOMAIN monitors :
           /\ i # current \/ pc \notin Opened => monitors[i].thread = 0
           /\ i # current \/ pc \notin Opened \/ pc = "joinMonitor" => ~monitors[i].running
    /\ overdue \/ pc \in Opened \/ Live = {}
    /\ OneSampler

(* A function on 1 .. n is a sequence of length n. *)
LEMMA Listed ==
    ASSUME NEW S, NEW n \in Nat, NEW f \in [1 .. n -> S]
    PROVE  f \in Seq(S) /\ Len(f) = n
<1>1. f \in Seq(S)
  BY SeqDef
<1>2. Len(f) \in Nat /\ DOMAIN f = 1 .. Len(f)
  BY <1>1, LenProperties
<1> QED
  BY <1>1, <1>2

(* The object of a new thread. *)
LEMMA OneStarts ==
    ASSUME NEW m \in MonitorType, NEW n \in Nat
    PROVE  Started(m, n) \in MonitorType /\ Started(m, n).thread = n
<1> DEFINE a == [m EXCEPT !.running = TRUE]
           b == [a EXCEPT !.stopped = FALSE]
<1>1. a \in MonitorType
  BY DEF MonitorType
<1> HIDE DEF a
<1>2. b \in MonitorType
  BY <1>1 DEF MonitorType
<1> HIDE DEF b
<1>3. [b EXCEPT !.thread = n] \in MonitorType /\ [b EXCEPT !.thread = n].thread = n
  BY <1>2 DEF MonitorType
<1>4. Started(m, n) = [b EXCEPT !.thread = n]
  BY DEF Started, a, b
<1> QED
  BY <1>3, <1>4

LEMMA Lists ==
    ASSUME SamplersInv
    PROVE  /\ Len(monitors) \in Nat /\ DOMAIN monitors = 1 .. Len(monitors)
           /\ monitors \in [1 .. Len(monitors) -> MonitorType]
           /\ Len(loops) \in Nat /\ DOMAIN loops = 1 .. Len(loops)
           /\ loops \in [1 .. Len(loops) -> LoopType]
  BY LenProperties DEF SamplersInv

LEMMA SamplersStart == Init => SamplersInv
<1> SUFFICES ASSUME Init PROVE SamplersInv
  OBVIOUS
<1>1. Live = {}
  BY DEF Init, SystemMonitorInit, Live
<1>2. /\ monitors \in Seq(MonitorType) /\ Len(monitors) = 0
      /\ loops \in Seq(LoopType) /\ Len(loops) = 0 /\ DOMAIN monitors = {}
  BY EmptySeq DEF Init, SystemMonitorInit
<1>3. current = 0 /\ overdue = FALSE /\ calls = 0 /\ pc = "idle" /\ MaxCalls \in Nat
  BY RunControlAssumption DEF Init, SystemMonitorInit
<1>4. OneSampler
  BY <1>1 DEF OneSampler
<1> QED
  <2>1. Len(monitors) <= calls /\ Len(loops) <= calls /\ calls \in 0 .. MaxCalls
    BY <1>2, <1>3
  <2>2. current \in 0 .. Len(monitors)
    BY <1>2, <1>3
  <2>3. overdue \in BOOLEAN
    BY <1>3
  <2> QED
    BY <1>1, <1>2, <1>3, <1>4, <2>1, <2>2, <2>3 DEF SamplersInv, Opened

(* A new thread is the only one, since a display opens on none. *)
LEMMA StartsOne ==
    ASSUME SamplersInv, NEW dir \in Dirs, NEW m \in BOOLEAN, StartDisplay(dir, m)
    PROVE  SamplersInv'
<1> USE DEF SamplersInv, Opened
<1>0. /\ pc = "start" /\ pc' = "key" /\ UNCHANGED calls
      /\ overdue \/ Live = {}
  BY DEF StartDisplay
<1>1. CASE ~m
  <2>1. UNCHANGED monitorVars
    BY <1>1 DEF StartDisplay
  <2> QED
    BY <1>0, <2>1 DEF monitorVars, Live, OneSampler
<1>2. CASE m
  <2> DEFINE keep == current # 0 /\ monitors[current].dir = dir
             kept == [i \in DOMAIN monitors |->
                         IF i = current /\ ~keep THEN Asked(monitors[i]) ELSE monitors[i]]
             now == IF keep THEN kept ELSE Append(kept, Fresh(dir))
             n == IF keep THEN current ELSE Len(now)
  <2>1. start_monitoring(dir)
    BY <1>2 DEF StartDisplay
  <2>2. /\ kept \in Seq(MonitorType) /\ Len(kept) = Len(monitors)
        /\ \A i \in DOMAIN kept : ~kept[i].running /\ kept[i].thread = 0
    <3>1. ASSUME NEW i \in DOMAIN monitors
          PROVE  kept[i] \in MonitorType /\ ~kept[i].running /\ kept[i].thread = 0
      BY <1>0, Lists DEF Asked, MonitorType
    <3>2. kept = [i \in 1 .. Len(monitors) |-> kept[i]]
      BY Lists
    <3> HIDE DEF kept
    <3>3. kept \in [1 .. Len(monitors) -> MonitorType]
      BY <3>1, <3>2, Lists
    <3>4. kept \in Seq(MonitorType) /\ Len(kept) = Len(monitors)
      BY <3>3, Lists, Listed
    <3> QED
      BY <3>1, <3>3, <3>4, Lists
  <2>3. Fresh(dir) \in MonitorType /\ ~Fresh(dir).running /\ Fresh(dir).thread = 0
    BY DEF Fresh, MonitorType
  <2> HIDE DEF kept
  <2>4. /\ now \in Seq(MonitorType) /\ Len(now) \in {Len(monitors), Len(monitors) + 1}
        /\ n \in DOMAIN now
        /\ \A i \in DOMAIN now : ~now[i].running /\ now[i].thread = 0
    <3>1. CASE keep
      BY <2>2, <3>1
    <3>2. CASE ~keep
      <4>1. now = Append(kept, Fresh(dir))
        BY <3>2
      <4>2. /\ now \in Seq(MonitorType) /\ Len(now) = Len(monitors) + 1
            /\ \A i \in 1 .. Len(monitors) : now[i] = kept[i]
            /\ now[Len(monitors) + 1] = Fresh(dir)
        BY <2>2, <2>3, <4>1, AppendProperties, Lists
      <4>3. \A i \in DOMAIN now : ~now[i].running /\ now[i].thread = 0
        BY <2>2, <2>3, <4>2, Lists, LenProperties
      <4> QED
        BY <3>2, <4>2, <4>3
    <3> QED
      BY <3>1, <3>2
  <2>5. /\ current' = n /\ UNCHANGED overdue
        /\ monitors' = [now EXCEPT ![n] = Started(@, Len(loops) + 1)]
        /\ loops' = Append(loops, [monitor |-> n, pc |-> "check"])
    <3>1. ~now[n].running
      BY <2>4
    <3> QED
      BY <2>1, <3>1 DEF start_monitoring, kept
  <2> HIDE DEF now, n
  <2>6. Started(now[n], Len(loops) + 1) \in MonitorType
        /\ Started(now[n], Len(loops) + 1).thread = Len(loops) + 1
    <3>1. now[n] \in MonitorType
      BY <2>4, ElementOfSeq, LenProperties
    <3>2. Len(loops) + 1 \in Nat
      BY Lists
    <3> QED
      BY <3>1, <3>2, OneStarts
  <2>7. /\ monitors' \in Seq(MonitorType) /\ Len(monitors') = Len(now)
        /\ current' \in DOMAIN monitors' /\ monitors'[current'].thread = Len(loops) + 1
        /\ \A i \in DOMAIN monitors' : i # current' =>
               ~monitors'[i].running /\ monitors'[i].thread = 0
    BY <2>4, <2>5, <2>6, ExceptSeq, LenProperties
  <2>8. /\ loops' \in Seq(LoopType) /\ Len(loops') = Len(loops) + 1
        /\ \A t \in DOMAIN loops : loops'[t] = loops[t]
        /\ loops'[Len(loops) + 1] = [monitor |-> n, pc |-> "check"]
    <3>1. [monitor |-> n, pc |-> "check"] \in LoopType
      BY <2>4, LenProperties DEF LoopType
    <3> QED
      BY <2>5, <3>1, AppendProperties, Lists
  <2>9. ~overdue' => Live' = {Len(loops) + 1}
    BY <1>0, <2>5, <2>8, Lists, LenProperties DEF Live
  <2>10. OneSampler'
    BY <2>5, <2>7, <2>8, <2>9 DEF OneSampler
  <2>11. /\ Len(now) \in Nat /\ DOMAIN now = 1 .. Len(now)
         /\ DOMAIN monitors' = 1 .. Len(monitors')
    BY <2>4, <2>7, LenProperties
  <2>12. current' \in 0 .. Len(monitors') /\ overdue' \in BOOLEAN
    BY <2>5, <2>7, <2>11
  <2>13. Len(monitors') <= calls' /\ Len(loops') <= calls'
    BY <1>0, <2>4, <2>7, <2>8, Lists
  <2>14. calls' \in 0 .. MaxCalls /\ pc' \in Opened /\ pc' \notin {"input", "start", "joinMonitor"}
    BY <1>0
  <2> QED
    BY <2>7, <2>8, <2>10, <2>12, <2>13, <2>14
<1> QED
  BY <1>1, <1>2

(* The thread of the object is the only one that may be left at its join. *)
LEMMA JoinsIt ==
    ASSUME SamplersInv, JoinMonitor
    PROVE  SamplersInv'
<1> USE DEF SamplersInv, Opened
<1>1. /\ pc = "joinMonitor" /\ pc' = "join" /\ UNCHANGED <<calls, current, loops>>
  BY DEF JoinMonitor, JoinThread
<1>2. Live' = Live
  BY <1>1 DEF Live
<1>3. /\ monitors' \in Seq(MonitorType) /\ Len(monitors') = Len(monitors)
      /\ \A i \in DOMAIN monitors' : ~monitors'[i].running /\ monitors'[i].thread = 0
  <2>1. monitors' = [i \in DOMAIN monitors |->
                        IF i = current THEN [monitors[i] EXCEPT !.thread = 0]
                        ELSE monitors[i]]
    BY DEF JoinMonitor, JoinThread
  <2>2. ASSUME NEW i \in DOMAIN monitors
        PROVE  monitors'[i] \in MonitorType /\ ~monitors'[i].running /\ monitors'[i].thread = 0
    BY <1>1, <2>1, Lists DEF MonitorType
  <2>3. monitors' \in [1 .. Len(monitors) -> MonitorType]
    BY <2>1, <2>2, Lists
  <2> QED
    BY <2>2, <2>3, Lists, Listed
<1>4. overdue' \in BOOLEAN /\ (~overdue' => ~overdue /\ Live = {})
  <2>1. ASSUME ~overdue, NEW t \in Live PROVE overdue'
    <3>1. current # 0 /\ monitors[current].thread = t
      BY <2>1, Lists DEF OneSampler, Live, LoopType
    <3> QED
      BY <2>1, <3>1 DEF JoinMonitor, JoinThread
  <2>2. overdue' \in BOOLEAN /\ (overdue => overdue')
    BY DEF JoinMonitor, JoinThread
  <2> QED
    BY <2>1, <2>2
<1> QED
  BY <1>1, <1>2, <1>3, <1>4 DEF OneSampler

LEMMA SamplersStep == SamplersInv /\ [Next]_vars => SamplersInv'
<1> SUFFICES ASSUME SamplersInv, [Next]_vars PROVE SamplersInv'
  OBVIOUS
<1> USE DEF SamplersInv, Opened
<1>1. ASSUME UNCHANGED <<monitorVars, calls>>,
             \/ pc' = pc
             \/ pc \in {"input"} /\ pc' \in {"start", "join", "returned"}
             \/ pc \in Opened /\ pc' \in {"key", "check", "stop"}
             \/ pc = "start" /\ pc' = "stop"
             \/ pc = "join" /\ pc' = "returned"
      PROVE  SamplersInv'
  BY <1>1 DEF monitorVars, Live, OneSampler
<1>2. CASE UNCHANGED vars
  BY <1>1, <1>2 DEF vars
<1>3. CASE Work
  BY <1>1, <1>3 DEF Work, FirstSnapshot, LastSnapshot, WorkerEnds, WorkerRaises
<1>4. ASSUME NEW again \in BOOLEAN, Call(again)
      PROVE  SamplersInv'
  BY <1>4, RunControlAssumption DEF Call, monitorVars, Live, OneSampler
<1>5. CASE BadInput \/ Returns \/ Quit \/ StopInterrupted
  BY <1>1, <1>5 DEF BadInput, Returns, Quit, StopInterrupted
<1>6. ASSUME NEW m \in Modes, NEW s \in Lingers, NEW f \in Lingers, NEW k \in BOOLEAN,
             Begin(m, s, f, k)
      PROVE  SamplersInv'
  BY <1>1, <1>6 DEF Begin
<1>7. CASE Interrupted
  <2>1. /\ pc = "join" /\ pc' = "dead" /\ UNCHANGED <<calls, monitors, current, overdue>>
        /\ loops' = [t \in DOMAIN loops |-> [loops[t] EXCEPT !.pc = "gone"]]
    BY <1>7 DEF Interrupted
  <2>2. \A t \in DOMAIN loops : loops'[t] \in LoopType /\ loops'[t].pc = "gone"
    BY <2>1, Lists DEF LoopType
  <2>3. loops' \in [1 .. Len(loops) -> LoopType]
    BY <2>1, <2>2, Lists
  <2>4. loops' \in Seq(LoopType) /\ Len(loops') = Len(loops) /\ Live' = {}
    BY <2>2, <2>3, Lists, Listed DEF Live
  <2> QED
    BY <2>1, <2>4 DEF OneSampler
<1>8. ASSUME NEW dir \in Dirs, NEW m \in BOOLEAN, StartDisplay(dir, m)
      PROVE  SamplersInv'
  BY <1>8, StartsOne
<1>9. ASSUME NEW key \in {"none", "d", "l"}, Refresh(key)
      PROVE  SamplersInv'
  BY <1>1, <1>9 DEF Refresh
<1>10. CASE Check
  <2>1. UNCHANGED <<monitorVars, calls>> /\ pc \in Opened
    BY <1>10 DEF Check
  <2>2. pc' \in {"key", "stop"}
    BY <1>10 DEF Check, Linger
  <2> QED
    BY <1>1, <2>1, <2>2
<1>11. CASE Stop
  <2>1. /\ pc = "stop" /\ pc' = "joinMonitor" /\ UNCHANGED <<calls, current, loops, overdue>>
        /\ monitors' = [i \in DOMAIN monitors |->
                           IF i = current THEN Asked(monitors[i]) ELSE monitors[i]]
    BY <1>11 DEF Stop, stop_monitoring
  <2>2. ASSUME NEW i \in DOMAIN monitors
        PROVE  /\ monitors'[i] \in MonitorType /\ ~monitors'[i].running
               /\ monitors'[i].thread = monitors[i].thread
    BY <2>1, Lists DEF MonitorType, Asked
  <2>3. monitors' \in [1 .. Len(monitors) -> MonitorType]
    BY <2>1, <2>2, Lists
  <2>4. monitors' \in Seq(MonitorType) /\ Len(monitors') = Len(monitors) /\ Live' = Live
    BY <2>1, <2>3, Lists, Listed DEF Live
  <2>5. ~overdue => \A t \in Live : current \in DOMAIN monitors
    BY Lists DEF OneSampler, Live, LoopType
  <2>6. OneSampler'
    BY <2>1, <2>2, <2>4, <2>5 DEF OneSampler
  <2> QED
    BY <2>1, <2>2, <2>4, <2>6
<1>12. CASE JoinMonitor
  BY <1>12, JoinsIt
<1>13. ASSUME NEW cause \in {"error", "interrupt"}, DisplayBreaks(cause)
       PROVE  SamplersInv'
  BY <1>1, <1>13 DEF DisplayBreaks
<1>14. ASSUME NEW t \in DOMAIN loops, Sample(t)
       PROVE  SamplersInv'
  <2>1. UNCHANGED <<pc, calls, monitors, current, overdue>>
    BY <1>14 DEF Sample, LoopStep, LoopTests, LoopSamples, LoopWaits, Moves
  <2>2. PICK to \in {"check", "busy", "wait", "gone"} : loops' = [loops EXCEPT ![t].pc = to]
    BY <1>14 DEF Sample, LoopStep, LoopTests, LoopSamples, LoopWaits, Moves
  <2>3. loops[t].pc # "gone"
    BY <1>14 DEF Sample, LoopStep, LoopTests, LoopSamples, LoopWaits, Moves
  <2>4. loops' \in Seq(LoopType) /\ Len(loops') = Len(loops)
        /\ \A u \in DOMAIN loops : loops'[u].monitor = loops[u].monitor
        /\ \A v \in DOMAIN loops : v # t => loops'[v] = loops[v]
    <3>1. [loops[t] EXCEPT !.pc = to] \in LoopType
      BY Lists DEF LoopType
    <3>2. loops' = [loops EXCEPT ![t] = [loops[t] EXCEPT !.pc = to]]
      BY <2>2
    <3> QED
      BY <3>1, <3>2, Lists, ExceptSeq
  <2>5. Live' \subseteq Live
    BY <2>3, <2>4, Lists, LenProperties DEF Live
  <2>6. OneSampler'
    BY <2>1, <2>4, <2>5 DEF OneSampler, Live
  <2> QED
    BY <2>1, <2>4, <2>5, <2>6
<1> QED
  BY <1>2, <1>3, <1>4, <1>5, <1>6, <1>7, <1>8, <1>9, <1>10, <1>11, <1>12, <1>13, <1>14
  DEF Next, Show

(* As long as no join gave up, system_monitor.json has one writer at most.   *)
THEOREM Samplers == Spec => []OneSampler
<1>1. SamplersInv => OneSampler
  BY DEF SamplersInv
<1> QED
  BY SamplersStart, SamplersStep, <1>1, PTL DEF Spec

----------------------------------------------------------------------------
(* Types *)

ShownStatus == {"none", "running"} \cup Outcomes

TypesInv ==
    /\ pc \in {"idle", "input", "join", "returned", "dead"} \cup Displaying
    /\ linger \in [success : Lingers \cup {None}, failure : Lingers \cup {None}]
    /\ worker \in {"none", "ended", "raised", "lost"} \cup Working
    /\ outcome \in {"none"} \cup Outcomes
    /\ shown \in ShownStatus
    /\ view \in {"status", "logs"}
    /\ drawn \in {"logs"} \cup ShownStatus
    /\ leftBy \in {"none", "key", "auto", "error", "interrupt"}
    /\ exit \in {"none", "0", "1", "2", "traceback", "interrupted"}

LEMMA TypesStart == Init => TypesInv
  BY DEF Init, TypesInv, NoLinger, Working, ShownStatus

LEMMA TypesStep == TypesInv /\ [Next]_vars => TypesInv'
<1> SUFFICES ASSUME TypesInv, [Next]_vars PROVE TypesInv'
  OBVIOUS
<1> USE DEF TypesInv, ShownStatus, Displaying, Working, display, run
<1>1. CASE UNCHANGED vars
  BY <1>1 DEF vars
<1>2. CASE Work
  BY <1>2 DEF Work, FirstSnapshot, LastSnapshot, WorkerEnds, WorkerRaises
<1>3. ASSUME NEW again \in BOOLEAN, Call(again)
      PROVE  TypesInv'
  BY <1>3 DEF Call
<1>4. CASE BadInput \/ Returns \/ Interrupted
  BY <1>4 DEF BadInput, Returns, payload_exit_code, Interrupted
<1>5. CASE Quit \/ StopInterrupted \/ Stop
  BY <1>5 DEF Quit, StopInterrupted, Stop
<1>6. ASSUME NEW m \in Modes, NEW s \in Lingers, NEW f \in Lingers, NEW k \in BOOLEAN,
             Begin(m, s, f, k)
      PROVE  TypesInv'
  <2>1. linger' \in [success : Lingers \cup {None}, failure : Lingers \cup {None}]
    BY <1>6 DEF Begin, NoLinger
  <2> QED
    BY <1>6, <2>1 DEF Begin
<1>7. ASSUME NEW dir \in Dirs, NEW m \in BOOLEAN, StartDisplay(dir, m)
      PROVE  TypesInv'
  BY <1>7 DEF StartDisplay
<1>8. ASSUME NEW key \in {"none", "d", "l"}, Refresh(key)
      PROVE  TypesInv'
  BY <1>8 DEF Refresh
<1>9. CASE Check
  <2>1. UNCHANGED <<linger, exit, view, drawn, run>>
    BY <1>9 DEF Check
  <2>2. pc' \in {"key", "stop"} /\ leftBy' \in {leftBy, "auto"}
    BY <1>9 DEF Check, Linger
  <2> QED
    BY <2>1, <2>2
<1>10. CASE JoinMonitor
  BY <1>10 DEF JoinMonitor, NoLinger
<1>11. ASSUME NEW cause \in {"error", "interrupt"}, DisplayBreaks(cause)
       PROVE  TypesInv'
  BY <1>11 DEF DisplayBreaks
<1>12. ASSUME NEW t \in DOMAIN loops, Sample(t)
       PROVE  TypesInv'
  BY <1>12 DEF Sample
<1> QED
  BY <1>1, <1>2, <1>3, <1>4, <1>5, <1>6, <1>7, <1>8, <1>9, <1>10, <1>11, <1>12
  DEF Next, Show

(* Every variable keeps its type; between displays no object is in use.      *)
THEOREM RunControlTyping == Spec => []RunControlTypeOK
<1>1. TypesInv /\ SamplersInv => RunControlTypeOK
  BY DEF TypesInv, SamplersInv, Opened, RunControlTypeOK, ShownStatus
<1> QED
  BY TypesStart, TypesStep, SamplersStart, SamplersStep, <1>1, PTL DEF Spec

----------------------------------------------------------------------------
(* The automatic exit *)

(* The end of a run with a snapshot of its own is in the snapshot once the   *)
(* root task has a status; a display has completed only after it read it.    *)
EndInv ==
    /\ TypesInv
    /\ completed \in [ticks : Nat \cup {None}, status : ShownStatus \cup {None}]
    /\ outcome # "none" => worker \notin {"none", "planning", "running"}
    /\ pc = "input" => worker = "none"
    /\ ~reused => shown \in IF outcome = "none" THEN {"none", "running"} ELSE {outcome}
    /\ pc \notin Opened => completed.ticks = None
    /\ pc \notin {"stop", "joinMonitor"} => leftBy = "none"
    /\ ~reused /\ completed.ticks # None =>
           /\ outcome # "none" /\ completed.status = outcome
           /\ pc = "check" => drawn \in {"logs", outcome}
    /\ AutoExitShowsTheEnd

LEMMA EndStart == Init => EndInv
  BY TypesStart
  DEF Init, EndInv, NotCompleted, AutoExitShowsTheEnd, Opened, ShownStatus

LEMMA EndStep == EndInv /\ [Next]_vars => EndInv'
<1> SUFFICES ASSUME EndInv, [Next]_vars PROVE EndInv'
  OBVIOUS
<1>0. TypesInv'
  BY TypesStep DEF EndInv
<1>n. "none" \notin Outcomes /\ "running" \notin Outcomes /\ "none" \notin Final /\ "running" \notin Final
  BY RunControlAssumption DEF ResultStatus, Final
<1> USE <1>0, <1>n DEF EndInv, AutoExitShowsTheEnd, Opened, Working, run, display
<1>1. CASE UNCHANGED vars
  BY <1>1 DEF vars, ShownStatus
<1>2. CASE Work
  <2>1. UNCHANGED <<pc, reused, completed, drawn, leftBy>> /\ worker # "none"
    BY <1>2 DEF Work, FirstSnapshot, LastSnapshot, WorkerEnds, WorkerRaises
  <2>2. \/ outcome = "none" /\ outcome' = "none" /\ shown' = "running"
        \/ outcome = "none" /\ outcome' \in Outcomes /\ shown' = outcome' /\ worker' = "reporting"
        \/ UNCHANGED <<outcome, shown>> /\ worker' \in {"ended", "raised"}
    BY <1>2 DEF Work, FirstSnapshot, LastSnapshot, WorkerEnds, WorkerRaises
  <2> QED
    BY <2>1, <2>2
<1>3. ASSUME NEW again \in BOOLEAN, Call(again)
      PROVE  EndInv'
  BY <1>3 DEF Call
<1>4. CASE BadInput \/ Returns
  BY <1>4 DEF BadInput, Returns
<1>5. CASE Interrupted
  BY <1>5 DEF Interrupted
<1>6. CASE Quit \/ StopInterrupted \/ Stop
  BY <1>6 DEF Quit, StopInterrupted, Stop
<1>7. ASSUME NEW m \in Modes, NEW s \in Lingers, NEW f \in Lingers, NEW k \in BOOLEAN,
             Begin(m, s, f, k)
      PROVE  EndInv'
  <2>1. /\ pc = "input" /\ pc' \in {"start", "join"} /\ outcome = "none"
        /\ UNCHANGED <<reused, view, drawn, completed, leftBy, outcome, shown>>
    BY <1>7 DEF Begin
  <2> QED
    BY <2>1
<1>8. ASSUME NEW dir \in Dirs, NEW m \in BOOLEAN, StartDisplay(dir, m)
      PROVE  EndInv'
  BY <1>8 DEF StartDisplay
<1>9. ASSUME NEW key \in {"none", "d", "l"}, Refresh(key)
      PROVE  EndInv'
  <2>1. drawn' \in {"logs", shown}
    BY <1>9 DEF Refresh
  <2>2. pc = "key" /\ pc' = "check" /\ UNCHANGED <<reused, completed, leftBy, run>>
    BY <1>9 DEF Refresh
  <2> QED
    BY <2>1, <2>2
<1>10. CASE Check
  <2>1. pc = "check" /\ UNCHANGED <<reused, drawn, run>>
    BY <1>10 DEF Check
  <2>2. \/ pc' = "key" /\ completed' = completed /\ leftBy' = leftBy
        \/ /\ pc' = "key" /\ leftBy' = leftBy
           /\ completed' \in [ticks : {None}, status : ShownStatus \cup {None}]
        \/ shown \in Final /\ Linger(shown)
    BY <1>10 DEF Check, NotCompleted, TypesInv
  <2>3. CASE shown \in Final /\ Linger(shown)
    <3>1. ~reused => shown = outcome /\ outcome # "none"
      BY <2>3
    <3>2. CASE completed' = [ticks |-> 0, status |-> shown] /\ pc' = "key" /\ leftBy' = leftBy
      BY <2>1, <3>1, <3>2 DEF TypesInv
    <3>3. CASE completed.ticks # None /\ pc' = "stop" /\ leftBy' = "auto" /\ completed' = completed
      BY <2>1, <3>1, <3>3
    <3>4. CASE /\ completed.ticks # None /\ pc' = "key" /\ leftBy' = leftBy
               /\ completed' = [completed EXCEPT !.ticks = @ + 1]
      <4>1. completed' \in [ticks : Nat \cup {None}, status : ShownStatus \cup {None}]
            /\ completed'.status = completed.status
        BY <3>4
      <4> QED
        BY <2>1, <3>1, <3>4, <4>1
    <3> QED
      BY <2>3, <3>2, <3>3, <3>4 DEF Linger
  <2> QED
    BY <2>1, <2>2, <2>3
<1>11. CASE JoinMonitor
  BY <1>11 DEF JoinMonitor, NotCompleted
<1>12. ASSUME NEW cause \in {"error", "interrupt"}, DisplayBreaks(cause)
       PROVE  EndInv'
  BY <1>12 DEF DisplayBreaks
<1>13. ASSUME NEW t \in DOMAIN loops, Sample(t)
       PROVE  EndInv'
  BY <1>13 DEF Sample
<1> QED
  BY <1>1, <1>2, <1>3, <1>4, <1>5, <1>6, <1>7, <1>8, <1>9, <1>10, <1>11, <1>12, <1>13
  DEF Next, Show

(* The display leaves by itself only after it has drawn the end of the run;  *)
(* see AutoExitShowsTheEnd.                                                  *)
THEOREM AutoExits == Spec => []AutoExitShowsTheEnd
<1>1. EndInv => AutoExitShowsTheEnd
  BY DEF EndInv
<1> QED
  BY EndStart, EndStep, <1>1, PTL DEF Spec
====
