---- MODULE ConfigPlanProofs ----
(***************************************************************************)
(* Whatever files and options say, nulls included: an option reaches every *)
(* task, a level takes from the one above it what it leaves open, a plan   *)
(* can be walked and its functions retried, users of one interface share a *)
(* lock, and rules never turn a failure into a pass.                       *)
(***************************************************************************)
EXTENDS ConfigPlan, PoliciesProofs

----------------------------------------------------------------------------
(* Precedence chains *)

(* The value at n is chosen if none after it is set. *)
LEMMA Chosen ==
    ASSUME NEW chain, DOMAIN chain \subseteq Nat,
           NEW n \in DOMAIN chain, chain[n] # None,
           \A j \in DOMAIN chain : n < j => chain[j] = None
    PROVE  _choose_value(chain) = chain[n]
<1> DEFINE set == {i \in DOMAIN chain : chain[i] # None}
<1>1. n \in set /\ \A j \in set : j <= n
  OBVIOUS
<1>2. \A i \in set : (\A j \in set : j <= i) => i = n
  BY <1>1
<1>3. Last(set) = n
  BY <1>1, <1>2 DEF Last
<1> QED
  BY <1>1, <1>3 DEF _choose_value

LEMMA NoneChosen ==
    ASSUME NEW chain, \A j \in DOMAIN chain : chain[j] = None
    PROVE  _choose_value(chain) = None
  BY DEF _choose_value

(* Chains of three, four and five sources. *)
LEMMA Chain3 ==
    ASSUME NEW a, NEW b, NEW c
    PROVE  _choose_value(<<a, b, c>>) =
             IF c # None THEN c ELSE IF b # None THEN b ELSE a
<1> DEFINE chain == <<a, b, c>>
<1>0. DOMAIN chain = {1, 2, 3} /\ chain[1] = a /\ chain[2] = b /\ chain[3] = c
  OBVIOUS
<1> SUFFICES _choose_value(chain) = IF c # None THEN c ELSE IF b # None THEN b ELSE a
  OBVIOUS
<1> HIDE DEF chain
<1>1. CASE c # None
  <2>1. \A j \in DOMAIN chain : 3 < j => chain[j] = None
    BY <1>0
  <2> QED
    BY <1>0, <1>1, <2>1, Chosen
<1>2. CASE c = None /\ b # None
  <2>1. \A j \in DOMAIN chain : 2 < j => chain[j] = None
    BY <1>0, <1>2
  <2> QED
    BY <1>0, <1>2, <2>1, Chosen
<1>3. CASE c = None /\ b = None /\ a # None
  <2>1. \A j \in DOMAIN chain : 1 < j => chain[j] = None
    BY <1>0, <1>3
  <2> QED
    BY <1>0, <1>3, <2>1, Chosen
<1>4. CASE c = None /\ b = None /\ a = None
  <2>1. \A j \in DOMAIN chain : chain[j] = None
    BY <1>0, <1>4
  <2> QED
    BY <1>4, <2>1, NoneChosen
<1> QED
  BY <1>1, <1>2, <1>3, <1>4

LEMMA Chain4 ==
    ASSUME NEW a, NEW b, NEW c, NEW d
    PROVE  _choose_value(<<a, b, c, d>>) =
             IF d # None THEN d ELSE IF c # None THEN c ELSE IF b # None THEN b ELSE a
<1> DEFINE chain == <<a, b, c, d>>
<1>0. DOMAIN chain = {1, 2, 3, 4} /\ chain[1] = a /\ chain[2] = b /\ chain[3] = c /\ chain[4] = d
  OBVIOUS
<1> SUFFICES _choose_value(chain) =
               IF d # None THEN d ELSE IF c # None THEN c ELSE IF b # None THEN b ELSE a
  OBVIOUS
<1> HIDE DEF chain
<1>1. CASE d # None
  <2>1. \A j \in DOMAIN chain : 4 < j => chain[j] = None
    BY <1>0
  <2> QED
    BY <1>0, <1>1, <2>1, Chosen
<1>2. CASE d = None /\ c # None
  <2>1. \A j \in DOMAIN chain : 3 < j => chain[j] = None
    BY <1>0, <1>2
  <2> QED
    BY <1>0, <1>2, <2>1, Chosen
<1>3. CASE d = None /\ c = None /\ b # None
  <2>1. \A j \in DOMAIN chain : 2 < j => chain[j] = None
    BY <1>0, <1>3
  <2> QED
    BY <1>0, <1>3, <2>1, Chosen
<1>4. CASE d = None /\ c = None /\ b = None /\ a # None
  <2>1. \A j \in DOMAIN chain : 1 < j => chain[j] = None
    BY <1>0, <1>4
  <2> QED
    BY <1>0, <1>4, <2>1, Chosen
<1>5. CASE d = None /\ c = None /\ b = None /\ a = None
  <2>1. \A j \in DOMAIN chain : chain[j] = None
    BY <1>0, <1>5
  <2> QED
    BY <1>5, <2>1, NoneChosen
<1> QED
  BY <1>1, <1>2, <1>3, <1>4, <1>5

LEMMA Chain5 ==
    ASSUME NEW a, NEW b, NEW c, NEW d, NEW e
    PROVE  _choose_value(<<a, b, c, d, e>>) =
             IF e # None THEN e ELSE IF d # None THEN d ELSE IF c # None THEN c ELSE IF b # None THEN b ELSE a
<1> DEFINE chain == <<a, b, c, d, e>>
<1>0. /\ DOMAIN chain = {1, 2, 3, 4, 5}
      /\ chain[1] = a /\ chain[2] = b /\ chain[3] = c /\ chain[4] = d /\ chain[5] = e
  OBVIOUS
<1> SUFFICES _choose_value(chain) =
               IF e # None THEN e ELSE IF d # None THEN d ELSE IF c # None THEN c ELSE IF b # None THEN b ELSE a
  OBVIOUS
<1> HIDE DEF chain
<1>1. CASE e # None
  <2>1. \A j \in DOMAIN chain : 5 < j => chain[j] = None
    BY <1>0, <1>1
  <2> QED
    BY <1>0, <1>1, <2>1, Chosen
<1>2. CASE e = None /\ d # None
  <2>1. \A j \in DOMAIN chain : 4 < j => chain[j] = None
    BY <1>0, <1>2
  <2> QED
    BY <1>0, <1>2, <2>1, Chosen
<1>3. CASE e = None /\ d = None /\ c # None
  <2>1. \A j \in DOMAIN chain : 3 < j => chain[j] = None
    BY <1>0, <1>3
  <2> QED
    BY <1>0, <1>3, <2>1, Chosen
<1>4. CASE e = None /\ d = None /\ c = None /\ b # None
  <2>1. \A j \in DOMAIN chain : 2 < j => chain[j] = None
    BY <1>0, <1>4
  <2> QED
    BY <1>0, <1>4, <2>1, Chosen
<1>5. CASE e = None /\ d = None /\ c = None /\ b = None /\ a # None
  <2>1. \A j \in DOMAIN chain : 1 < j => chain[j] = None
    BY <1>0, <1>5
  <2> QED
    BY <1>0, <1>5, <2>1, Chosen
<1>6. CASE e = None /\ d = None /\ c = None /\ b = None /\ a = None
  <2>1. \A j \in DOMAIN chain : chain[j] = None
    BY <1>0, <1>6
  <2> QED
    BY <1>6, <2>1, NoneChosen
<1> QED
  BY <1>1, <1>2, <1>3, <1>4, <1>5, <1>6

(* The chains of stop_on_failure start with False. *)
LEMMA StopChain3 ==
    ASSUME NEW b, NEW c
    PROVE  _choose_value(<<FALSE, b, c>>) = IF c # None THEN c ELSE IF b # None THEN b ELSE FALSE
  BY ONLY Chain3, Zenon

LEMMA StopChain4 ==
    ASSUME NEW b, NEW c, NEW d
    PROVE  _choose_value(<<FALSE, b, c, d>>) =
             IF d # None THEN d ELSE IF c # None THEN c ELSE IF b # None THEN b ELSE FALSE
  BY ONLY Chain4, Zenon

(* The layers of settings, one setting at a time. *)
LEMMA Numbers3 ==
    ASSUME NEW a, NEW b, NEW c, NEW k \in Numeric
    PROVE  Numbers(<<a, b, c>>)[k] =
             IF c[k] # None THEN c[k] ELSE IF b[k] # None THEN b[k] ELSE a[k]
<1> DEFINE layers == <<a, b, c>>
<1>1. Numbers(layers)[k] = _choose_value([i \in DOMAIN layers |-> layers[i][k]])
  BY DEF Numbers
<1>2. [i \in DOMAIN layers |-> layers[i][k]] = <<a[k], b[k], c[k]>>
  OBVIOUS
<1> QED
  BY <1>1, <1>2, Chain3

LEMMA Numbers4 ==
    ASSUME NEW a, NEW b, NEW c, NEW d, NEW k \in Numeric
    PROVE  Numbers(<<a, b, c, d>>)[k] =
             IF d[k] # None THEN d[k] ELSE IF c[k] # None THEN c[k]
             ELSE IF b[k] # None THEN b[k] ELSE a[k]
<1> DEFINE layers == <<a, b, c, d>>
<1>1. Numbers(layers)[k] = _choose_value([i \in DOMAIN layers |-> layers[i][k]])
  BY DEF Numbers
<1>2. [i \in DOMAIN layers |-> layers[i][k]] = <<a[k], b[k], c[k], d[k]>>
  OBVIOUS
<1> QED
  BY <1>1, <1>2, Chain4

LEMMA Numbers5 ==
    ASSUME NEW a, NEW b, NEW c, NEW d, NEW e, NEW k \in Numeric
    PROVE  Numbers(<<a, b, c, d, e>>)[k] =
             IF e[k] # None THEN e[k] ELSE IF d[k] # None THEN d[k]
             ELSE IF c[k] # None THEN c[k] ELSE IF b[k] # None THEN b[k] ELSE a[k]
<1> DEFINE layers == <<a, b, c, d, e>>
<1>1. Numbers(layers)[k] = _choose_value([i \in DOMAIN layers |-> layers[i][k]])
  BY DEF Numbers
<1>2. [i \in DOMAIN layers |-> layers[i][k]] = <<a[k], b[k], c[k], d[k], e[k]>>
  OBVIOUS
<1> QED
  BY <1>1, <1>2, Chain5

----------------------------------------------------------------------------
(* The plan of a request *)

PlanOf(r) == build_plan(r, Resolved(r))

(* What OrZero makes of one setting. *)
Filled(k, v) == IF k \in {"retry", "retry_interval"} /\ v = None THEN 0 ELSE v

LEMMA OrZeroFills ==
    ASSUME NEW set, NEW k \in Numeric
    PROVE  OrZero(set)[k] = Filled(k, set[k])
  BY DEF OrZero, Filled

(* What the chain of case i, and that of function j of it, give.             *)
CaseChain(r, i, k) ==
    IF r.cli.set[k] # None THEN r.cli.set[k]
    ELSE IF r.cases[i].set[k] # None THEN r.cases[i].set[k]
    ELSE IF r.fixture.set[k] # None THEN r.fixture.set[k]
    ELSE r.global.set[k]

FunctionChain(r, i, j, k) ==
    IF r.cli.set[k] # None THEN r.cli.set[k]
    ELSE IF r.cases[i].functions[j].set[k] # None THEN r.cases[i].functions[j].set[k]
    ELSE CaseChain(r, i, k)

(* A case, and a function of it, carry what the chains of their level give.  *)
LEMMA CaseCarries ==
    ASSUME NEW r, r.kind # "function", NEW i \in DOMAIN r.cases
    PROVE  /\ \A k \in Numeric : PlanOf(r).cases[i].set[k] = Filled(k, CaseChain(r, i, k))
           /\ PlanOf(r).cases[i].mode =
                 IF r.cli.execution # None THEN r.cli.execution
                 ELSE IF r.cases[i].execution # None THEN r.cases[i].execution
                 ELSE IF r.fixture.execution # None THEN r.fixture.execution
                 ELSE "sequential"
           /\ PlanOf(r).cases[i].stop =
                 IF r.cli.stop # None THEN r.cli.stop
                 ELSE IF r.cases[i].stop # None THEN r.cases[i].stop
                 ELSE IF r.fixture.stop # None THEN r.fixture.stop
                 ELSE FALSE
<1> DEFINE c == r.cases[i]
           t == PlanOf(r).cases[i]
<1>1. Resolved(r).cases = [n \in DOMAIN r.cases |-> ResolvedCase(r, r.cases[n])]
  BY DEF Resolved
<1>2. t = CaseTask(Resolved(r), i)
  BY <1>1 DEF PlanOf, build_plan
<1>3. Resolved(r).cases[i] = ResolvedCase(r, c)
  BY <1>1
<1> DEFINE layers == <<r.global.set, r.fixture.set, c.set, r.cli.set>>
<1>4. /\ t.set = OrZero(Numbers(layers))
      /\ t.mode = _choose_value(<<"sequential", r.fixture.execution, c.execution, r.cli.execution>>)
      /\ t.stop = _choose_value(<<FALSE, r.fixture.stop, c.stop, r.cli.stop>>)
  BY <1>2, <1>3 DEF CaseTask, ResolvedCase
<1> HIDE DEF t
<1>5. ASSUME NEW k \in Numeric
      PROVE  t.set[k] = Filled(k, CaseChain(r, i, k))
  <2>1. t.set[k] = Filled(k, Numbers(layers)[k])
    BY <1>4, OrZeroFills
  <2>2. Numbers(layers)[k] = CaseChain(r, i, k)
    BY Numbers4 DEF CaseChain
  <2> QED
    BY <2>1, <2>2
<1>6. t.mode = IF r.cli.execution # None THEN r.cli.execution
               ELSE IF c.execution # None THEN c.execution
               ELSE IF r.fixture.execution # None THEN r.fixture.execution
               ELSE "sequential"
  BY <1>4, Chain4
<1>7. t.stop = IF r.cli.stop # None THEN r.cli.stop
               ELSE IF c.stop # None THEN c.stop
               ELSE IF r.fixture.stop # None THEN r.fixture.stop
               ELSE FALSE
  <2> DEFINE x == r.fixture.stop
             y == c.stop
             z == r.cli.stop
  <2>1. t.stop = _choose_value(<<FALSE, x, y, z>>)
    BY <1>4
  <2> HIDE DEF x, y, z
  <2>2. _choose_value(<<FALSE, x, y, z>>) =
          IF z # None THEN z ELSE IF y # None THEN y ELSE IF x # None THEN x ELSE FALSE
    BY StopChain4
  <2>3. t.stop = IF z # None THEN z ELSE IF y # None THEN y ELSE IF x # None THEN x ELSE FALSE
    BY <2>1, <2>2
  <2> QED
    BY <2>3 DEF x, y, z
<1> QED
  BY <1>5, <1>6, <1>7 DEF t

LEMMA FunctionCarries ==
    ASSUME NEW r, r.kind # "function", NEW i \in DOMAIN r.cases, NEW j \in DOMAIN PlanOf(r).functions[i]
    PROVE  /\ j \in DOMAIN r.cases[i].functions
           /\ \A k \in Numeric :
                  PlanOf(r).functions[i][j].set[k] = Filled(k, FunctionChain(r, i, j, k))
           /\ PlanOf(r).functions[i][j].resources =
                 _resolve_function_resources(r, r.cases[i], r.cases[i].functions[j])
<1> DEFINE c == r.cases[i]
           f == c.functions[j]
           fs == Resolved(r).cases[i].functions
           t == PlanOf(r).functions[i][j]
<1>1. Resolved(r).cases = [n \in DOMAIN r.cases |-> ResolvedCase(r, r.cases[n])]
  BY DEF Resolved
<1>2. fs = [n \in DOMAIN c.functions |-> ResolvedFunction(r, c, c.functions[n])]
  BY <1>1 DEF ResolvedCase
<1>3. PlanOf(r).functions[i] =
        [n \in Enabled(Resolved(r).cases[i]) |->
            _build_function_task(Resolved(r).cases[i], CaseId(Resolved(r).cases, i), n)]
  BY <1>1 DEF PlanOf, build_plan
<1>4. j \in DOMAIN fs
  BY <1>3 DEF Enabled
<1>5. fs[j] = ResolvedFunction(r, c, f) /\ j \in DOMAIN c.functions
  BY <1>2, <1>4
<1> DEFINE layers == <<r.global.set, r.fixture.set, c.set, f.set, r.cli.set>>
<1>6. t.set = OrZero(fs[j].set) /\ t.resources = fs[j].resources
  BY <1>3 DEF _build_function_task
<1>7. /\ t.set = OrZero(Numbers(layers))
      /\ t.resources = _resolve_function_resources(r, c, f)
  BY <1>5, <1>6 DEF ResolvedFunction
<1> HIDE DEF t, fs
<1>8. ASSUME NEW k \in Numeric
      PROVE  t.set[k] = Filled(k, FunctionChain(r, i, j, k))
  <2>1. t.set[k] = Filled(k, Numbers(layers)[k])
    BY <1>7, OrZeroFills
  <2>2. Numbers(layers)[k] = FunctionChain(r, i, j, k)
    BY Numbers5 DEF FunctionChain, CaseChain
  <2> QED
    BY <2>1, <2>2
<1> QED
  BY <1>5, <1>7, <1>8 DEF t

LEMMA PlanCases ==
    ASSUME NEW r
    PROVE  DOMAIN PlanOf(r).cases = IF r.kind = "function" THEN {} ELSE DOMAIN r.cases
<1>1. CASE r.kind = "function"
  BY <1>1 DEF PlanOf, build_plan, Resolved
<1>2. CASE r.kind # "function"
  BY <1>2 DEF PlanOf, build_plan, Resolved
<1> QED
  BY <1>1, <1>2

(* The root task carries those of its command: s is the fixture or the case. *)
LEMMA RootCarries ==
    ASSUME NEW r, IsRequest(r), NEW s,
           \/ r.kind = "fixture" /\ s = r.fixture
           \/ r.kind = "case" /\ s = r.cases[1]
    PROVE  /\ \A k \in Numeric : PlanOf(r).root.set[k] =
                 IF r.cli.set[k] # None THEN r.cli.set[k]
                 ELSE IF s.set[k] # None THEN s.set[k]
                 ELSE r.global.set[k]
           /\ PlanOf(r).root.mode =
                 IF r.cli.execution # None THEN r.cli.execution
                 ELSE IF s.execution # None THEN s.execution ELSE "sequential"
           /\ PlanOf(r).root.stop =
                 IF r.cli.stop # None THEN r.cli.stop
                 ELSE IF s.stop # None THEN s.stop ELSE FALSE
<1> DEFINE t == PlanOf(r).root
           stop == _choose_value(<<FALSE, s.stop, r.cli.stop>>)
<1>1. /\ t.set = Resolved(r).runtime.set
      /\ t.mode = Resolved(r).runtime.execution
      /\ t.stop = (r.kind # "function" /\ Resolved(r).runtime.stop)
  BY DEF PlanOf, build_plan, RootTask
<1>2. Resolved(r).runtime = IF r.kind = "fixture" THEN FixtureRuntime(r) ELSE CaseOnlyRuntime(r)
  BY DEF Resolved
<1>3. /\ Resolved(r).runtime.set = Numbers(<<r.global.set, s.set, r.cli.set>>)
      /\ Resolved(r).runtime.execution = _choose_value(<<"sequential", s.execution, r.cli.execution>>)
      /\ Resolved(r).runtime.stop = stop
  <2>1. CASE r.kind = "fixture" /\ s = r.fixture
    BY <1>2, <2>1 DEF FixtureRuntime
  <2>2. CASE r.kind = "case" /\ s = r.cases[1]
    BY <1>2, <2>2 DEF CaseOnlyRuntime
  <2> QED
    BY <2>1, <2>2
<1>4. stop = IF r.cli.stop # None THEN r.cli.stop ELSE IF s.stop # None THEN s.stop ELSE FALSE
  BY StopChain3
<1>5. r.cli.stop \in {None, TRUE} /\ s.stop \in BOOLEAN \cup {None}
  <2>1. r.cli.stop \in {None, TRUE}
    BY DEF IsRequest
  <2>2. CASE r.kind = "fixture"
    BY <2>1, <2>2 DEF IsRequest, IsFixtureSpec, Optional
  <2>3. CASE r.kind = "case"
    <3>1. 1 \in DOMAIN r.cases
      BY <2>3 DEF IsRequest
    <3> QED
      BY <2>1, <2>3, <3>1 DEF IsRequest, IsCaseSpec, Optional
  <2> QED
    BY <2>2, <2>3
<1> HIDE DEF t, stop
<1>6. stop \in BOOLEAN
  BY <1>4, <1>5
<1>7. t.stop = stop
  BY <1>1, <1>3, <1>6
<1>8. ASSUME NEW k \in Numeric
      PROVE  t.set[k] = IF r.cli.set[k] # None THEN r.cli.set[k]
                        ELSE IF s.set[k] # None THEN s.set[k]
                        ELSE r.global.set[k]
  BY <1>1, <1>3, Numbers3
<1>9. t.mode = IF r.cli.execution # None THEN r.cli.execution
               ELSE IF s.execution # None THEN s.execution ELSE "sequential"
  BY <1>1, <1>3, Chain3
<1> QED
  BY <1>4, <1>7, <1>8, <1>9 DEF t

LEMMA LoneFunctionCarries ==
    ASSUME NEW r, r.kind = "function", NEW k \in Numeric
    PROVE  PlanOf(r).root.set[k] = IF r.cli.set[k] # None THEN r.cli.set[k] ELSE r.global.set[k]
  BY DEF PlanOf, build_plan, RootTask, Resolved, FunctionRuntime

----------------------------------------------------------------------------
(* What a run of main keeps *)

PlanInv ==
    /\ request \in Requests
    /\ phase = "resolved" => resolved = Resolved(request)
    /\ phase = "planned" => plan = PlanOf(request)
    /\ attempt # Nothing => attempt.result = Judged(attempt.answer, attempt.expect)

LEMMA PlanStart == Init => PlanInv
  BY DEF Init, PlanInv

LEMMA PlanStep == PlanInv /\ [Next]_vars => PlanInv'
<1> SUFFICES ASSUME PlanInv, [Next]_vars PROVE PlanInv'
  OBVIOUS
<1> USE DEF PlanInv
<1>1. CASE UNCHANGED vars
  BY <1>1 DEF vars
<1>2. CASE Refuse
  BY <1>2 DEF Refuse
<1>3. CASE Resolve
  BY <1>3 DEF Resolve
<1>4. CASE BuildPlan
  BY <1>4 DEF BuildPlan, PlanOf
<1>5. CASE TryAny
  <2>1. PICK i \in DOMAIN plan.cases : \E j \in DOMAIN plan.functions[i] : Try(i, j)
    BY <1>5 DEF TryAny
  <2> QED
    BY <2>1 DEF Try
<1> QED
  BY <1>1, <1>2, <1>3, <1>4, <1>5 DEF Next

LEMMA Requested == PlanInv => IsRequest(request)
  BY ConfigAssumption DEF PlanInv

(* An option of the command line reaches every task of the plan; see         *)
(* OverrideReachesEveryTask.                                                 *)
LEMMA OverridesReach == PlanInv => OverrideReachesEveryTask
<1> SUFFICES ASSUME PlanInv, Planned PROVE OverrideReachesEveryTask
  BY DEF OverrideReachesEveryTask
<1> DEFINE r == request
<1>0. plan = PlanOf(r) /\ IsRequest(r)
  BY Requested DEF Planned, PlanInv
<1>1. r.kind \in {"fixture", "case", "function"} /\ (r.cli.stop # None => r.cli.stop = TRUE)
  BY <1>0 DEF IsRequest
<1> HIDE DEF r
<1>2. ASSUME NEW k \in Numeric, r.cli.set[k] # None
      PROVE  /\ \A t \in Containers : t.set[k] = r.cli.set[k]
             /\ \A p \in Pairs : TaskAt(p).set[k] = r.cli.set[k]
  <2>1. plan.root.set[k] = r.cli.set[k]
    <3>1. CASE r.kind = "fixture"
      BY <1>0, <1>2, <3>1, RootCarries
    <3>2. CASE r.kind = "case"
      BY <1>0, <1>2, <3>2, RootCarries
    <3>3. CASE r.kind = "function"
      BY <1>0, <1>2, <3>3, LoneFunctionCarries
    <3> QED
      BY <1>1, <3>1, <3>2, <3>3
  <2>2. ASSUME NEW i \in DOMAIN plan.cases
        PROVE  plan.cases[i].set[k] = r.cli.set[k]
    <3>1. r.kind # "function" /\ i \in DOMAIN r.cases
      BY <1>0, PlanCases
    <3> QED
      BY <1>0, <1>2, <3>1, CaseCarries DEF Filled, CaseChain
  <2>3. ASSUME NEW p \in Pairs
        PROVE  TaskAt(p).set[k] = r.cli.set[k]
    <3>1. p[1] \in DOMAIN plan.cases /\ p[2] \in DOMAIN plan.functions[p[1]]
      BY DEF Pairs
    <3>2. r.kind # "function" /\ p[1] \in DOMAIN r.cases
      BY <1>0, <3>1, PlanCases
    <3>3. PlanOf(r).functions[p[1]][p[2]].set[k] = r.cli.set[k]
      BY <1>0, <1>2, <3>1, <3>2, FunctionCarries DEF Filled, FunctionChain
    <3> QED
      BY <1>0, <3>3 DEF TaskAt
  <2> QED
    BY <2>1, <2>2, <2>3 DEF Containers
<1>3. ASSUME r.kind # "function"
      PROVE  \A t \in Containers :
                 /\ r.cli.execution # None => t.mode = r.cli.execution
                 /\ r.cli.stop # None => t.stop
  <2>1. /\ r.cli.execution # None => plan.root.mode = r.cli.execution
        /\ r.cli.stop # None => plan.root.stop = TRUE
    BY <1>0, <1>3, <1>1, RootCarries
  <2>2. ASSUME NEW i \in DOMAIN plan.cases
        PROVE  /\ r.cli.execution # None => plan.cases[i].mode = r.cli.execution
               /\ r.cli.stop # None => plan.cases[i].stop = TRUE
    BY <1>0, <1>3, <1>1, CaseCarries, PlanCases
  <2> QED
    BY <2>1, <2>2 DEF Containers
<1> QED
  BY <1>2, <1>3 DEF OverrideReachesEveryTask, r

(* The last of the functions before one is one of them. *)
LEMMA LastBefore ==
    ASSUME NEW n \in Nat, NEW S \in SUBSET (1 .. n), NEW j, Before(S, j) # {}
    PROVE  /\ Last(Before(S, j)) \in Before(S, j)
           /\ \A l \in Before(S, j) : l <= Last(Before(S, j))
<1>1. Before(S, j) \in SUBSET Int /\ IsFiniteSet(Before(S, j))
  <2>1. Before(S, j) \subseteq 1 .. n
    BY DEF Before
  <2> QED
    BY <2>1, FS_Interval, FS_Subset
<1>2. \E i \in Before(S, j) : \A l \in Before(S, j) : l <= i
  BY <1>1, LargestExists
<1> QED
  BY <1>2 DEF Last

(* In a sequential case each enabled function but the first depends on the   *)
(* one before it, and on no other; in a parallel one none does.               *)
LEMMA Dependencies ==
    ASSUME NEW c, NEW n \in Nat, DOMAIN c.functions = 1 .. n, NEW j \in Enabled(c)
    PROVE  /\ \A d \in FunctionDependencies(c, j) :
                \E l \in Enabled(c) : l < j /\ d = FunctionId(c, l)
           /\ \A l \in Enabled(c) \ {j} :
                /\ FunctionId(c, l) # FunctionId(c, j)
                /\ FunctionDependencies(c, l) \cap FunctionDependencies(c, j) = {}
                /\ c.execution = "sequential" =>
                      FunctionDependencies(c, l) # {} \/ FunctionDependencies(c, j) # {}
<1> DEFINE E == Enabled(c)
<1>0. E \in SUBSET (1 .. n)
  BY DEF Enabled
<1>1. \A k, l \in E : FunctionId(c, k) = FunctionId(c, l) => k = l
  BY DEF FunctionId
<1>2. ASSUME NEW k \in E, NEW d \in FunctionDependencies(c, k)
      PROVE  /\ Before(E, k) # {} /\ d = FunctionId(c, Last(Before(E, k)))
             /\ Last(Before(E, k)) \in E /\ Last(Before(E, k)) < k
  <2>1. Before(E, k) # {} /\ d = FunctionId(c, Last(Before(E, k)))
    BY <1>2 DEF FunctionDependencies
  <2>2. Last(Before(E, k)) \in Before(E, k)
    BY <1>0, <2>1, LastBefore
  <2> QED
    BY <2>1, <2>2 DEF Before
<1>3. ASSUME NEW k \in E, NEW l \in E, l < k
      PROVE  /\ FunctionDependencies(c, l) \cap FunctionDependencies(c, k) = {}
             /\ c.execution = "sequential" => FunctionDependencies(c, k) # {}
  <2>1. l \in Before(E, k)
    BY <1>3 DEF Before
  <2>2. c.execution = "sequential" => FunctionDependencies(c, k) # {}
    BY <2>1 DEF FunctionDependencies
  <2>3. ASSUME NEW d, d \in FunctionDependencies(c, l), d \in FunctionDependencies(c, k)
        PROVE  FALSE
    <3>1. Last(Before(E, l)) = Last(Before(E, k)) /\ Last(Before(E, l)) < l
      BY <1>1, <1>2, <2>3
    <3>2. l <= Last(Before(E, k))
      BY <1>0, <2>1, LastBefore
    <3>3. l \in Int /\ Last(Before(E, k)) \in Int
      BY <1>0, <1>2, <2>3
    <3> QED
      BY <3>1, <3>2, <3>3
  <2> QED
    BY <2>2, <2>3
<1>4. ASSUME NEW l \in E, l # j PROVE l < j \/ j < l
  BY <1>0, <1>4
<1>5. \A l \in E \ {j} :
        /\ FunctionDependencies(c, l) \cap FunctionDependencies(c, j) = {}
        /\ c.execution = "sequential" =>
              FunctionDependencies(c, l) # {} \/ FunctionDependencies(c, j) # {}
  <2> SUFFICES ASSUME NEW l \in E, l # j
               PROVE  /\ FunctionDependencies(c, l) \cap FunctionDependencies(c, j) = {}
                      /\ c.execution = "sequential" =>
                            FunctionDependencies(c, l) # {} \/ FunctionDependencies(c, j) # {}
    OBVIOUS
  <2>3. j \in E
    OBVIOUS
  <2> HIDE DEF E
  <2>1. CASE l < j
    BY <1>3, <2>1, <2>3
  <2>2. CASE j < l
    BY <1>3, <2>2, <2>3
  <2> QED
    BY <1>4, <2>1, <2>2
<1> QED
  BY <1>1, <1>2, <1>5

(* What the scheduler asks of a plan; see PlanIsRunnable. *)
LEMMA PlansRun == PlanInv => PlanIsRunnable
<1> SUFFICES ASSUME PlanInv, Planned PROVE PlanIsRunnable
  BY DEF PlanIsRunnable
<1> DEFINE r == request
<1>0. plan = PlanOf(r) /\ IsRequest(r)
  BY Requested DEF Planned, PlanInv
<1>1. /\ r.kind \in {"fixture", "case", "function"}
      /\ r.cli.execution \in Modes \cup {None} /\ "sequential" \in Modes
      /\ r.cli.set \in Settings /\ r.global.set \in Settings
      /\ \A i \in DOMAIN r.cases : IsCaseSpec(r.cases[i])
  BY <1>0 DEF IsRequest, Optional, Modes
<1>8. r.fixture.execution \in Modes \cup {None} /\ r.fixture.set \in Settings
  <2>1. NoSettings \in Settings
    BY DEF NoSettings, Settings, Optional
  <2>2. CASE r.kind = "fixture"
    BY <1>0, <2>2 DEF IsRequest, IsFixtureSpec, Optional
  <2>3. CASE r.kind # "fixture"
    BY <1>0, <2>1, <2>3 DEF IsRequest, NoFixture
  <2> QED
    BY <2>2, <2>3
<1>2. plan.root.mode \in Modes
  <2>1. CASE r.kind = "function"
    <3>1. plan.root.mode = "sequential"
      BY <1>0, <2>1 DEF PlanOf, build_plan, RootTask, Resolved, FunctionRuntime
    <3> QED
      BY <1>1, <3>1
  <2>2. ASSUME NEW s, s.execution \in Modes \cup {None},
               \/ r.kind = "fixture" /\ s = r.fixture
               \/ r.kind = "case" /\ s = r.cases[1]
        PROVE  plan.root.mode \in Modes
    <3>1. plan.root.mode = IF r.cli.execution # None THEN r.cli.execution
                           ELSE IF s.execution # None THEN s.execution ELSE "sequential"
      BY <1>0, <2>2, RootCarries
    <3> QED
      BY <1>1, <2>2, <3>1
  <2>4. CASE r.kind = "fixture"
    BY <1>8, <2>2, <2>4
  <2>3. CASE r.kind = "case"
    <3>1. 1 \in DOMAIN r.cases
      BY <1>0, <2>3 DEF IsRequest
    <3>2. r.cases[1].execution \in Modes \cup {None}
      BY <1>1, <3>1 DEF IsCaseSpec, Optional
    <3> QED
      BY <2>2, <2>3, <3>2
  <2> QED
    BY <1>1, <2>1, <2>3, <2>4
<1>3. ASSUME NEW i \in DOMAIN plan.cases
      PROVE  r.kind # "function" /\ i \in DOMAIN r.cases /\ IsCaseSpec(r.cases[i])
  BY <1>0, <1>1, <1>3, PlanCases
<1>4. ASSUME NEW i \in DOMAIN plan.cases
      PROVE  plan.cases[i].mode \in Modes
  <2>1. r.cases[i].execution \in Modes \cup {None}
    BY <1>3, <1>4 DEF IsCaseSpec, Optional
  <2>3. plan.cases[i].mode = IF r.cli.execution # None THEN r.cli.execution
                             ELSE IF r.cases[i].execution # None THEN r.cases[i].execution
                             ELSE IF r.fixture.execution # None THEN r.fixture.execution
                             ELSE "sequential"
    BY <1>0, <1>3, <1>4, CaseCarries
  <2> QED
    BY <1>1, <1>8, <2>1, <2>3
<1>7. ASSUME NEW p \in Pairs
      PROVE  Retried(TaskAt(p))
  <2> DEFINE i == p[1]
             j == p[2]
  <2>1. i \in DOMAIN plan.cases /\ j \in DOMAIN plan.functions[i]
    BY DEF Pairs
  <2>2. r.kind # "function" /\ i \in DOMAIN r.cases /\ IsCaseSpec(r.cases[i])
    BY <1>3, <2>1
  <2>3. /\ j \in DOMAIN r.cases[i].functions
        /\ \A k \in Numeric : TaskAt(p).set[k] = Filled(k, FunctionChain(r, i, j, k))
    BY <1>0, <2>1, <2>2, FunctionCarries DEF TaskAt
  <2>4. r.cases[i].set \in Settings /\ r.cases[i].functions[j].set \in Settings
    BY <2>2, <2>3 DEF IsCaseSpec, IsFunctionSpec
  <2> HIDE DEF i, j
  <2>5. ASSUME NEW k \in {"retry", "retry_interval"}
        PROVE  TaskAt(p).set[k] \in Int
    <3>1. k \in Numeric
      BY <2>5 DEF Numeric
    <3>2. /\ r.cli.set[k] \in Optional(Int) /\ r.global.set[k] \in Optional(Int)
          /\ r.fixture.set[k] \in Optional(Int) /\ r.cases[i].set[k] \in Optional(Int)
          /\ r.cases[i].functions[j].set[k] \in Optional(Int)
      BY <1>1, <1>8, <2>4, <3>1 DEF Settings
    <3>3. FunctionChain(r, i, j, k) \in Optional(Int)
      BY <3>2 DEF FunctionChain, CaseChain
    <3>4. Filled(k, FunctionChain(r, i, j, k)) \in Int
      BY <2>5, <3>3 DEF Filled, Optional
    <3> QED
      BY <2>3, <3>1, <3>4
  <2> QED
    BY <2>5 DEF Retried
<1>9. ASSUME r.kind = "function", Retried(r.global)
      PROVE  Retried(plan.root)
  <2>1. ASSUME NEW k \in {"retry", "retry_interval"}
        PROVE  plan.root.set[k] \in Int
    <3>1. k \in Numeric
      BY <2>1 DEF Numeric
    <3>2. r.cli.set[k] \in Optional(Int) /\ r.global.set[k] \in Int
      BY <1>1, <1>9, <2>1, <3>1 DEF Settings, Retried
    <3>3. plan.root.set[k] = IF r.cli.set[k] # None THEN r.cli.set[k] ELSE r.global.set[k]
      BY <1>0, <1>9, <3>1, LoneFunctionCarries
    <3> QED
      BY <3>2, <3>3 DEF Optional
  <2> QED
    BY <2>1 DEF Retried
<1>5. ASSUME NEW i \in DOMAIN plan.cases
      PROVE  LET fs == plan.functions[i]
             IN  \A j \in DOMAIN fs :
                    /\ fs[j].parent = plan.cases[i].id
                    /\ \A d \in fs[j].dependencies :
                         \E l \in DOMAIN fs : l < j /\ fs[l].id = d
                    /\ \A l \in DOMAIN fs \ {j} :
                         /\ fs[l].id # fs[j].id
                         /\ fs[l].dependencies \cap fs[j].dependencies = {}
                         /\ plan.cases[i].mode = "sequential" =>
                                fs[l].dependencies # {} \/ fs[j].dependencies # {}
  <2> DEFINE c == Resolved(r).cases[i]
  <2>1. Resolved(r).cases = [m \in DOMAIN r.cases |-> ResolvedCase(r, r.cases[m])]
    BY <1>3, <1>5 DEF Resolved
  <2>2. PICK n \in Nat : DOMAIN c.functions = 1 .. n
    <3>1. DOMAIN c.functions = DOMAIN r.cases[i].functions
      BY <1>3, <1>5, <2>1 DEF ResolvedCase
    <3> QED
      BY <1>3, <1>5, <3>1 DEF IsCaseSpec
  <2>3. /\ plan.functions[i] = [j \in Enabled(c) |->
                                  _build_function_task(c, CaseId(Resolved(r).cases, i), j)]
        /\ plan.cases[i] = CaseTask(Resolved(r), i)
    BY <1>0, <1>3, <1>5, <2>1 DEF PlanOf, build_plan
  <2>4. plan.cases[i].id = CaseId(Resolved(r).cases, i) /\ plan.cases[i].mode = c.execution
    BY <2>3 DEF CaseTask
  <2> HIDE DEF c
  <2>5. \A j \in Enabled(c) : /\ plan.functions[i][j].parent = plan.cases[i].id
                              /\ plan.functions[i][j].id = FunctionId(c, j)
                              /\ plan.functions[i][j].dependencies = FunctionDependencies(c, j)
    BY <2>3, <2>4 DEF _build_function_task
  <2>6. DOMAIN plan.functions[i] = Enabled(c)
    BY <2>3
  <2> QED
    BY <2>2, <2>4, <2>5, <2>6, Dependencies
<1>6. ASSUME NEW i \in DOMAIN plan.cases, NEW l \in DOMAIN plan.cases \ {i}
      PROVE  plan.cases[l].id # plan.cases[i].id
  <2>1. \A k \in DOMAIN plan.cases : plan.cases[k].id = CaseId(Resolved(r).cases, k)
    BY <1>0 DEF PlanOf, build_plan, CaseTask
  <2> QED
    BY <1>6, <2>1 DEF CaseId
<1> QED
  BY <1>2, <1>4, <1>5, <1>6, <1>7, <1>9 DEF PlanIsRunnable, Containers

(* A level takes what it leaves open from the one above; see                 *)
(* SettingsAreInherited.                                                     *)
LEMMA LevelsInherit == PlanInv => SettingsAreInherited
<1> SUFFICES ASSUME PlanInv, Planned, NEW i \in DOMAIN plan.cases
             PROVE  LET c == request.cases[i]
                    IN /\ \A k \in Numeric :
                            /\ c.set[k] = None => plan.cases[i].set[k] = OrZero(plan.root.set)[k]
                            /\ \A j \in DOMAIN plan.functions[i] :
                                   c.functions[j].set[k] = None =>
                                       plan.functions[i][j].set[k] = plan.cases[i].set[k]
                       /\ c.stop = None => plan.cases[i].stop = plan.root.stop
                       /\ c.execution = None => plan.cases[i].mode = plan.root.mode
  BY DEF SettingsAreInherited
<1> DEFINE r == request
           c == r.cases[i]
<1>0. plan = PlanOf(r) /\ IsRequest(r)
  BY Requested DEF Planned, PlanInv
<1>1. r.kind \in {"fixture", "case"} /\ i \in DOMAIN r.cases
  BY <1>0, PlanCases DEF IsRequest
<1>2. r.kind = "case" => r.fixture = NoFixture /\ i = 1
  BY <1>0, <1>1 DEF IsRequest
<1>3. ASSUME NEW k \in Numeric, c.set[k] = None
      PROVE  plan.cases[i].set[k] = OrZero(plan.root.set)[k]
  <2> DEFINE v == IF r.cli.set[k] # None THEN r.cli.set[k]
                  ELSE IF r.fixture.set[k] # None THEN r.fixture.set[k]
                  ELSE r.global.set[k]
  <2>1. plan.cases[i].set[k] = Filled(k, v)
    BY <1>0, <1>1, <1>3, CaseCarries DEF CaseChain
  <2>2. CASE r.kind = "fixture"
    <3>1. plan.root.set[k] = v
      BY <1>0, <2>2, RootCarries
    <3> QED
      BY <2>1, <3>1, OrZeroFills
  <2>3. CASE r.kind = "case"
    <3>1. r.fixture.set[k] = None /\ r.cases[1].set[k] = None
      BY <1>2, <1>3, <2>3 DEF NoFixture, NoSettings
    <3>2. plan.root.set[k] = v
      BY <1>0, <2>3, <3>1, RootCarries
    <3> QED
      BY <2>1, <3>2, OrZeroFills
  <2> QED
    BY <1>1, <2>2, <2>3
<1>4. ASSUME NEW k \in Numeric, NEW j \in DOMAIN plan.functions[i], c.functions[j].set[k] = None
      PROVE  plan.functions[i][j].set[k] = plan.cases[i].set[k]
  <2>1. r.kind # "function" /\ j \in DOMAIN PlanOf(r).functions[i]
    BY <1>0, <1>1
  <2>2. PlanOf(r).functions[i][j].set[k] = Filled(k, FunctionChain(r, i, j, k))
    BY <1>1, <2>1, FunctionCarries
  <2>3. PlanOf(r).cases[i].set[k] = Filled(k, CaseChain(r, i, k))
    BY <1>1, <2>1, CaseCarries
  <2>4. FunctionChain(r, i, j, k) = CaseChain(r, i, k)
    BY <1>4 DEF FunctionChain, CaseChain
  <2> QED
    BY <1>0, <2>2, <2>3, <2>4
<1>5. ASSUME c.stop = None
      PROVE  plan.cases[i].stop = plan.root.stop
  <2>1. plan.cases[i].stop = IF r.cli.stop # None THEN r.cli.stop
                             ELSE IF r.fixture.stop # None THEN r.fixture.stop ELSE FALSE
    BY <1>0, <1>1, <1>5, CaseCarries
  <2>2. CASE r.kind = "fixture"
    BY <1>0, <2>1, <2>2, RootCarries
  <2>3. CASE r.kind = "case"
    <3>1. r.fixture.stop = None /\ r.cases[1].stop = None
      BY <1>2, <1>5, <2>3 DEF NoFixture
    <3> QED
      BY <1>0, <2>1, <2>3, <3>1, RootCarries
  <2> QED
    BY <1>1, <2>2, <2>3
<1>6. ASSUME c.execution = None
      PROVE  plan.cases[i].mode = plan.root.mode
  <2>1. plan.cases[i].mode = IF r.cli.execution # None THEN r.cli.execution
                             ELSE IF r.fixture.execution # None THEN r.fixture.execution
                             ELSE "sequential"
    BY <1>0, <1>1, <1>6, CaseCarries
  <2>2. CASE r.kind = "fixture"
    BY <1>0, <2>1, <2>2, RootCarries
  <2>3. CASE r.kind = "case"
    <3>1. r.fixture.execution = None /\ r.cases[1].execution = None
      BY <1>2, <1>6, <2>3 DEF NoFixture
    <3> QED
      BY <1>0, <2>1, <2>3, <3>1, RootCarries
  <2> QED
    BY <1>1, <2>2, <2>3
<1> QED
  BY <1>3, <1>4, <1>5, <1>6

(* A user of a bound interface locks it, whichever way it says so. *)
LEMMA UserLocks ==
    ASSUME NEW r, NEW c, NEW f, NEW i \in DOMAIN Bound(r), Bound(r)[i] # None,
           IF f.resources # {} THEN [kind |-> "template", name |-> i] \in f.resources
           ELSE IF c.resources # {} THEN [kind |-> "template", name |-> i] \in c.resources
           ELSE i \in c.interfaces
    PROVE  <<"interface", i, Bound(r)[i]>> \in _resolve_function_resources(r, c, f)
<1> DEFINE t == [kind |-> "template", name |-> i]
           lock == <<"interface", i, Bound(r)[i]>>
<1>1. Rendered(r, t) = lock
  BY DEF Rendered
<1>2. CASE f.resources # {}
  BY <1>1, <1>2 DEF _resolve_function_resources
<1>3. CASE f.resources = {} /\ c.resources # {}
  BY <1>1, <1>3 DEF _resolve_function_resources
<1>4. CASE f.resources = {} /\ c.resources = {}
  <2>1. lock \in _derive_resources(r, c, f)
    BY <1>4 DEF _derive_resources
  <2> QED
    BY <1>4, <2>1 DEF _resolve_function_resources
<1> QED
  BY <1>2, <1>3, <1>4

(* Two users of one bound interface share its lock; see                      *)
(* SharedInterfaceIsLocked.                                                  *)
LEMMA UsersShare == PlanInv => SharedInterfaceIsLocked
<1> DEFINE r == request
           Uses(x, i) ==
               IF SpecAt(x).resources # {} THEN [kind |-> "template", name |-> i] \in SpecAt(x).resources
               ELSE IF r.cases[x[1]].resources # {}
               THEN [kind |-> "template", name |-> i] \in r.cases[x[1]].resources
               ELSE i \in r.cases[x[1]].interfaces
<1> SUFFICES ASSUME PlanInv, Planned, NEW p \in Pairs, NEW q \in Pairs,
                    NEW i \in DOMAIN Bound(r), Bound(r)[i] # None, Uses(p, i), Uses(q, i)
             PROVE  TaskAt(p).resources \cap TaskAt(q).resources # {}
  BY DEF SharedInterfaceIsLocked
<1>1. plan = PlanOf(r)
  BY DEF Planned, PlanInv
<1>2. ASSUME NEW x \in Pairs, Uses(x, i)
      PROVE  <<"interface", i, Bound(r)[i]>> \in TaskAt(x).resources
  <2>1. x[1] \in DOMAIN plan.cases /\ x[2] \in DOMAIN plan.functions[x[1]]
    BY DEF Pairs
  <2>2. r.kind # "function" /\ x[1] \in DOMAIN r.cases
    BY <1>1, <2>1, PlanCases
  <2>3. PlanOf(r).functions[x[1]][x[2]].resources = _resolve_function_resources(r, r.cases[x[1]], SpecAt(x))
    BY <1>1, <2>1, <2>2, FunctionCarries DEF SpecAt
  <2>4. <<"interface", i, Bound(r)[i]>> \in _resolve_function_resources(r, r.cases[x[1]], SpecAt(x))
    BY <1>2, UserLocks
  <2> QED
    BY <1>1, <2>3, <2>4 DEF TaskAt
<1> QED
  BY <1>2

----------------------------------------------------------------------------
(* Verdicts *)

(* A rule that holds of a missing value asks for a difference, or names None. *)
LEMMA HoldsOfNone ==
    ASSUME NEW operator \in Operators, NEW value, Holds(operator, None, value)
    PROVE  \/ operator = "ne"
           \/ operator = "eq" /\ value = None
           \/ operator = "in" /\ Contains(value, None)
  BY DEF Holds, Operators, Orderings, Less, Contains

(* What _apply_expectations does to a result. *)
LEMMA Applied ==
    ASSUME NEW expect, NEW r
    PROVE  LET result == _apply_expectations(expect, r)
           IN /\ result.status \in {r.status, "failed"}
              /\ result.status # r.status => result.code \notin {None, Num(0)}
              /\ (result.status = "passed" /\ expect.pass_policy = "all") =>
                     \A rule \in expect.rules : Satisfied(rule, r)
<1>0. Num(-1) \notin {None, Num(0)}
  BY ExpectationsAssumption DEF Num, Half
<1> DEFINE met == IF expect.pass_policy = "any"
                  THEN \E rule \in expect.rules : Satisfied(rule, r)
                  ELSE \A rule \in expect.rules : Satisfied(rule, r)
<1>1. CASE expect.rules = {} \/ met
  BY <1>1 DEF _apply_expectations
<1>2. CASE ~(expect.rules = {} \/ met)
  BY <1>0, <1>2 DEF _apply_expectations
<1> QED
  BY <1>1, <1>2

(* Rules only take a verdict away; see VerdictOnlyWorsens.                    *)
LEMMA VerdictsWorsen == PlanInv => VerdictOnlyWorsens
<1> SUFFICES ASSUME PlanInv, attempt # Nothing PROVE VerdictOnlyWorsens
  BY DEF VerdictOnlyWorsens
<1> DEFINE raw == attempt.answer
           expect == attempt.expect
           given == _normalize_result(raw)
           result == attempt.result
<1>1. result = Judged(raw, expect)
  BY DEF PlanInv
<1>2. CASE raw.kind = "raised" \/ NormalizeRaises(raw)
  BY <1>1, <1>2 DEF VerdictOnlyWorsens, Judged
<1>3. CASE ~(raw.kind = "raised" \/ NormalizeRaises(raw))
  <2> DEFINE raises == \E rule \in expect.rules : RuleRaises(rule, given)
  <2>1. CASE raises
    <3>1. result = Raised
      BY <1>1, <1>3, <2>1 DEF Judged
    <3>2. Raised.code \notin {None, Num(0)} /\ Raised.status = "failed"
      BY ExpectationsAssumption DEF Raised, Num, Half
    <3> QED
      BY <1>3, <3>1, <3>2 DEF VerdictOnlyWorsens
  <2>2. CASE ~raises
    <3>1. result = _apply_expectations(expect, given)
      BY <1>1, <1>3, <2>2 DEF Judged
    <3>2. \A rule \in expect.rules : rule.operator \in Operators
      BY <2>2 DEF RuleRaises
    <3>3. /\ result.status \in {given.status, "failed"}
          /\ result.status # given.status => result.code \notin {None, Num(0)}
      BY <3>1, Applied
    <3>4. ASSUME result.status = "passed", expect.pass_policy = "all",
                 NEW rule \in expect.rules, _resolve_expectation_field(rule.field, given) = None
          PROVE  \/ rule.operator = "ne"
                 \/ rule.operator = "eq" /\ rule.value = None
                 \/ rule.operator = "in" /\ Contains(rule.value, None)
      <4>1. Satisfied(rule, given)
        BY <3>1, <3>4, Applied
      <4> QED
        BY <3>2, <3>4, <4>1, HoldsOfNone DEF Satisfied
    <3> QED
      BY <1>3, <3>3, <3>4 DEF VerdictOnlyWorsens
  <2> QED
    BY <2>1, <2>2
<1> QED
  BY <1>2, <1>3

----------------------------------------------------------------------------
(* An option of the command line reaches every task of the plan. *)
THEOREM Overrides == Spec => []OverrideReachesEveryTask
  BY PlanStart, PlanStep, OverridesReach, PTL DEF Spec

(* A level takes what it leaves open from the level above it. *)
THEOREM Inheritance == Spec => []SettingsAreInherited
  BY PlanStart, PlanStep, LevelsInherit, PTL DEF Spec

(* The scheduler can walk a plan: the modes of its containers are known, its  *)
(* functions have numbers to be retried by although nulls are accepted, and   *)
(* their dependencies are among the tasks of their own case, each on an       *)
(* earlier one that no other depends on.                                      *)
THEOREM Runnable == Spec => []PlanIsRunnable
  BY PlanStart, PlanStep, PlansRun, PTL DEF Spec

(* Functions that use one bound interface share the name of a lock. *)
THEOREM SharedLocks == Spec => []SharedInterfaceIsLocked
  BY PlanStart, PlanStep, UsersShare, PTL DEF Spec

(* The rules about an answer only take a verdict away: what was not passed    *)
(* stays so, and one that a rule fails has neither no code nor the number 0.  *)
THEOREM Verdicts == Spec => []VerdictOnlyWorsens
  BY PlanStart, PlanStep, VerdictsWorsen, PTL DEF Spec
====
