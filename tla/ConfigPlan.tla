---- MODULE ConfigPlan ----
(***************************************************************************)
(* From the configuration files and the command line to a plan and to the  *)
(* verdict on a function's answer: resolve_fixture and resolve_case of     *)
(* src/framework/config/resolver.py, build_function_resolved_config and    *)
(* build_function_plan of cli/common.py, FixtureRunner and CaseRunner of   *)
(* execution/, and, for the answer, the module Expectations.               *)
(*                                                                         *)
(* A request holds what the files and the options say.  Settings that no   *)
(* task of a plan carries (loops, serial numbers, reports) are left out,   *)
(* as are parameters, tags and descriptions.  A template is modelled where *)
(* it matters: in the name of a resource.                                  *)
(***************************************************************************)
EXTENDS Expectations, FiniteSets

CONSTANTS
    Requests,   \* what a user may ask for
    Boards,     \* the board profiles, by name
    Interfaces, \* names of interfaces
    Devices     \* what a board binds them to

VARIABLES
    request,    \* the files and options of this run
    phase,      \* how far main is
    resolved,   \* ResolvedExecutionConfig
    plan,       \* ExecutionPlan
    attempt     \* the last function task tried, its answer and the verdict

vars == <<request, phase, resolved, plan, attempt>>

----------------------------------------------------------------------------
(* The models, as the validator and from_dict leave them *)

\* the settings with one chain of sources
Numeric == {"timeout", "retry", "retry_interval", "resource_lock_quarantine_seconds"}
Optional(S) == S \cup {None}
Settings == [Numeric -> Optional(Int)]
NoSettings == [k \in Numeric |-> None]
Modes == {"sequential", "parallel"}

(* A declared resource is a name or interface:<i>:${resolved.interfaces.<i>.bound}. *)
Resource == [kind : {"name"}, name : STRING] \cup [kind : {"template"}, name : Interfaces]

(* The validator accepts a null in the place of any optional value and any sign  *)
(* of a number, and from_dict keeps both.  A value that a file does not give is  *)
(* None also, except an execution, which is "sequential", a fixture's stop,      *)
(* which is False, and enabled, which is True; a null there is as good as False. *)
(* Of rules see Comparable and Contains.                                         *)
IsFunctionSpec(f) ==
    /\ DOMAIN f = {"name", "enabled", "set", "capabilities", "resources", "expect"}
    /\ f.enabled \in BOOLEAN /\ f.set \in Settings /\ f.resources \subseteq Resource
    /\ f.expect.pass_policy \in {"all", "any"}
    /\ \A rule \in f.expect.rules :
           rule.operator \in Orderings => rule.value = None \/ rule.value[1] # "many"

IsCaseSpec(c) ==
    /\ DOMAIN c = {"name", "board", "execution", "set", "stop", "interfaces", "resources", "functions"}
    /\ c.execution \in Optional(Modes) /\ c.set \in Settings /\ c.stop \in Optional(BOOLEAN)
    /\ c.interfaces \subseteq Interfaces /\ c.resources \subseteq Resource
    /\ Len(c.functions) \in Nat \ {0} /\ DOMAIN c.functions = 1 .. Len(c.functions)
    /\ \A i \in DOMAIN c.functions : IsFunctionSpec(c.functions[i])

IsFixtureSpec(f) ==
    /\ DOMAIN f = {"name", "board", "execution", "set", "stop"}
    /\ f.execution \in Optional(Modes) /\ f.set \in Settings /\ f.stop \in Optional(BOOLEAN)

(* resolve_case has no fixture, and its chains None in that place. *)
NoFixture ==
    [name |-> "adhoc_case", board |-> None, execution |-> None, set |-> NoSettings, stop |-> None]

(* --stop-on-failure can only be given, not taken back.  A global setting that  *)
(* the file lacks has the number of RuntimeDefaults; a null there stays.        *)
IsRequest(r) ==
    /\ r.kind \in {"fixture", "case", "function"}
    /\ IF r.kind = "fixture" THEN IsFixtureSpec(r.fixture) ELSE r.fixture = NoFixture
    /\ Len(r.cases) \in Nat \ {0} /\ DOMAIN r.cases = 1 .. Len(r.cases)
    /\ r.kind # "fixture" => Len(r.cases) = 1
    /\ \A i \in DOMAIN r.cases : IsCaseSpec(r.cases[i])
    /\ r.global.set \in Settings
    /\ r.cli.set \in Settings
    /\ r.cli.execution \in Optional(Modes) /\ r.cli.stop \in {None, TRUE}

ASSUME ConfigAssumption ==
    /\ None \notin Int
    /\ \A r \in Requests : IsRequest(r)
    /\ \A b \in DOMAIN Boards :
           Boards[b].interfaces \in UNION {[S -> Optional(Devices)] : S \in SUBSET Interfaces}

----------------------------------------------------------------------------
(* ConfigResolver *)

Last(S) == CHOOSE i \in S : \A j \in S : j <= i

(* Mutant: the first source that is set wins. *)
ChooseFirst(chain) ==
    LET set == {i \in DOMAIN chain : chain[i] # None}
    IN IF set = {} THEN None
       ELSE chain[CHOOSE i \in set : \A j \in set : i <= j]

_choose_value(chain) ==
    LET set == {i \in DOMAIN chain : chain[i] # None}
    IN IF set = {} THEN None ELSE chain[Last(set)]

Numbers(layers) ==
    [k \in Numeric |-> _choose_value([i \in DOMAIN layers |-> layers[i][k]])]

(* The `or` chain of resolve_fixture and resolve_case: the first that is set. *)
BoardName(r) ==
    IF r.board # None THEN r.board
    ELSE IF r.fixture.board # None THEN r.fixture.board
    ELSE IF r.kind = "case" /\ r.cases[1].board # None THEN r.cases[1].board
    ELSE r.global.board

(* _build_resolved_interfaces binds each interface to the first item it      *)
(* declares, None when it declares none; Boards holds the result.             *)
Bound(r) == Boards[BoardName(r)].interfaces

_assert_case_board_compatible(r, c) ==
    /\ (r.fixture.board # None /\ c.board # None) => r.fixture.board = c.board
    /\ c.board # None => c.board = BoardName(r)

_assert_case_supported(r, c) ==
    Boards[BoardName(r)].supported = {} \/ c.name \in Boards[BoardName(r)].supported

(* _lookup_context raises for an interface that the board does not have. *)
TemplatesResolve(r, resources) ==
    \A t \in resources : t.kind = "template" => t.name \in DOMAIN Bound(r)

(* What resolve_fixture and resolve_case do not raise about. *)
Accepted(r) ==
    /\ BoardName(r) \in DOMAIN Boards
    /\ r.kind # "function" => \A i \in DOMAIN r.cases :
          /\ _assert_case_board_compatible(r, r.cases[i])
          /\ _assert_case_supported(r, r.cases[i])
          /\ TemplatesResolve(r, r.cases[i].resources)
          /\ \A j \in DOMAIN r.cases[i].functions :
                 TemplatesResolve(r, r.cases[i].functions[j].resources)

(* _resolve_templates: None becomes the text None. *)
Rendered(r, t) ==
    IF t.kind = "name" THEN <<t.name>>
    ELSE <<"interface", t.name, IF Bound(r)[t.name] = None THEN "None" ELSE Bound(r)[t.name]>>

(* Mutant: the name of a derived resource lacks the device. *)
DeriveWithoutDevice(r, c, f) ==
    {<<"interface", i>> : i \in c.interfaces} \cup {<<"capability", k>> : k \in f.capabilities}

_derive_resources(r, c, f) ==
    {IF i \in DOMAIN Bound(r) /\ Bound(r)[i] # None
     THEN <<"interface", i, Bound(r)[i]>> ELSE <<"interface", i>> : i \in c.interfaces}
    \cup {<<"capability", k>> : k \in f.capabilities}

_resolve_function_resources(r, c, f) ==
    IF f.resources # {} THEN {Rendered(r, t) : t \in f.resources}
    ELSE IF c.resources # {} THEN {Rendered(r, t) : t \in c.resources}
    ELSE _derive_resources(r, c, f)

(* Mutant: the chain of a function does not ask the fixture. *)
ResolvedPastFixture(r, c, f) ==
    [name |-> f.name,
     enabled |-> f.enabled,
     set |-> Numbers(<<r.global.set, c.set, f.set, r.cli.set>>),
     resources |-> _resolve_function_resources(r, c, f),
     expect |-> f.expect]

ResolvedFunction(r, c, f) ==
    [name |-> f.name,
     enabled |-> f.enabled,
     set |-> Numbers(<<r.global.set, r.fixture.set, c.set, f.set, r.cli.set>>),
     resources |-> _resolve_function_resources(r, c, f),
     expect |-> f.expect]

(* _resolve_cases *)
ResolvedCase(r, c) ==
    [name |-> c.name,
     set |-> Numbers(<<r.global.set, r.fixture.set, c.set, r.cli.set>>),
     execution |-> _choose_value(<<"sequential", r.fixture.execution, c.execution, r.cli.execution>>),
     stop |-> _choose_value(<<FALSE, r.fixture.stop, c.stop, r.cli.stop>>),
     functions |-> [i \in DOMAIN c.functions |-> ResolvedFunction(r, c, c.functions[i])]]

(* _resolve_fixture_runtime *)
FixtureRuntime(r) ==
    [set |-> Numbers(<<r.global.set, r.fixture.set, r.cli.set>>),
     execution |-> _choose_value(<<"sequential", r.fixture.execution, r.cli.execution>>),
     stop |-> _choose_value(<<FALSE, r.fixture.stop, r.cli.stop>>)]

(* _resolve_case_only_runtime *)
CaseOnlyRuntime(r) ==
    LET c == r.cases[1]
    IN [set |-> Numbers(<<r.global.set, c.set, r.cli.set>>),
        execution |-> _choose_value(<<"sequential", c.execution, r.cli.execution>>),
        stop |-> _choose_value(<<FALSE, c.stop, r.cli.stop>>)]

(* build_function_resolved_config reads only the options and global settings. *)
FunctionRuntime(r) ==
    [set |-> [k \in Numeric |-> IF r.cli.set[k] # None THEN r.cli.set[k] ELSE r.global.set[k]],
     execution |-> "sequential",
     stop |-> TRUE]

Resolved(r) ==
    [runtime |-> IF r.kind = "fixture" THEN FixtureRuntime(r)
                 ELSE IF r.kind = "case" THEN CaseOnlyRuntime(r)
                 ELSE FunctionRuntime(r),
     cases |-> IF r.kind = "function" THEN <<>>
               ELSE [i \in DOMAIN r.cases |-> ResolvedCase(r, r.cases[i])]]

----------------------------------------------------------------------------
(* The plan: the root task and, by their place in the configuration, the     *)
(* tasks of the cases and of their enabled functions.                         *)

CaseId(cases, i) == <<"case", i, cases[i].name>>
FunctionId(c, j) == <<"function", c.name, j, c.functions[j].name>>
Enabled(c) == {j \in DOMAIN c.functions : c.functions[j].enabled}
Before(S, i) == {j \in S : j < i}

(* Mutant: a null stays, as it does in the root task. *)
NullStays(set) == set

(* `or 0`, for the numbers of a case and of its functions. *)
OrZero(set) ==
    [k \in Numeric |-> IF k \in {"retry", "retry_interval"} /\ set[k] = None THEN 0 ELSE set[k]]

(* FixtureRunner.build_plan, and for a single function build_function_plan.  *)
(* Their get("retry", 0) finds the key, so that a null stays.                *)
RootTask(r, res) ==
    [id |-> IF r.kind = "function" THEN <<"function", r.cases[1].functions[1].name>>
            ELSE <<"fixture", r.fixture.name>>,
     mode |-> res.runtime.execution,
     set |-> res.runtime.set,
     stop |-> r.kind # "function" /\ res.runtime.stop]

(* Mutant: the dependency is on the function listed before. *)
DependsOnListed(c, j) == IF j = 1 THEN {} ELSE {FunctionId(c, j - 1)}

(* build_case_task keeps the last enabled function, whatever the mode. *)
FunctionDependencies(c, j) ==
    IF c.execution # "sequential" \/ Before(Enabled(c), j) = {} THEN {}
    ELSE {FunctionId(c, Last(Before(Enabled(c), j)))}

CaseTask(res, i) ==
    [id |-> CaseId(res.cases, i),
     mode |-> res.cases[i].execution,
     set |-> OrZero(res.cases[i].set),
     stop |-> res.cases[i].stop,
     dependencies |-> IF res.runtime.execution = "sequential" /\ i > 1
                      THEN {CaseId(res.cases, i - 1)} ELSE {}]

_build_function_task(c, parent, j) ==
    [id |-> FunctionId(c, j),
     parent |-> parent,
     set |-> OrZero(c.functions[j].set),
     dependencies |-> FunctionDependencies(c, j),
     resources |-> c.functions[j].resources,
     expect |-> c.functions[j].expect]

build_plan(r, res) ==
    [root |-> RootTask(r, res),
     cases |-> [i \in DOMAIN res.cases |-> CaseTask(res, i)],
     functions |-> [i \in DOMAIN res.cases |->
        [j \in Enabled(res.cases[i]) |->
            _build_function_task(res.cases[i], CaseId(res.cases, i), j)]]]

----------------------------------------------------------------------------
Nothing == [kind |-> "nothing"]

Init ==
    /\ request \in Requests
    /\ phase = "requested"
    /\ resolved = Nothing /\ plan = Nothing /\ attempt = Nothing

Refuse ==
    /\ phase = "requested" /\ ~Accepted(request)
    /\ phase' = "refused"
    /\ UNCHANGED <<request, resolved, plan, attempt>>

Resolve ==
    /\ phase = "requested" /\ Accepted(request)
    /\ resolved' = Resolved(request)
    /\ phase' = "resolved"
    /\ UNCHANGED <<request, plan, attempt>>

BuildPlan ==
    /\ phase = "resolved"
    /\ plan' = build_plan(request, resolved)
    /\ phase' = "planned"
    /\ UNCHANGED <<request, resolved, attempt>>

(* A function answers, or raises, and the executor judges.  One attempt is    *)
(* enough: nothing that it reads changes.                                     *)
Try(i, j) ==
    /\ phase = "planned" /\ attempt = Nothing
    /\ \E raw \in request.answers :
           attempt' = [answer |-> raw,
                       expect |-> plan.functions[i][j].expect,
                       result |-> Judged(raw, plan.functions[i][j].expect)]
    /\ UNCHANGED <<request, phase, resolved, plan>>

TryAny == phase = "planned" /\ \E i \in DOMAIN plan.cases : \E j \in DOMAIN plan.functions[i] : Try(i, j)

Next == Refuse \/ Resolve \/ BuildPlan \/ TryAny

Spec == Init /\ [][Next]_vars

----------------------------------------------------------------------------
(* What the properties look at *)

Planned == phase = "planned"
Pairs == {p \in (DOMAIN plan.cases) \X UNION {DOMAIN plan.functions[i] : i \in DOMAIN plan.cases} :
              p[2] \in DOMAIN plan.functions[p[1]]}
TaskAt(p) == plan.functions[p[1]][p[2]]
SpecAt(p) == request.cases[p[1]].functions[p[2]]
Containers == {plan.root} \cup {plan.cases[i] : i \in DOMAIN plan.cases}

(* A value given on the command line reaches every task of the plan: the     *)
(* chains of fixture, case and function are written out one by one in        *)
(* _resolve_fixture_runtime, _resolve_case_only_runtime and _resolve_cases.  *)
OverrideReachesEveryTask ==
    Planned =>
        /\ \A k \in Numeric : request.cli.set[k] # None =>
               /\ \A t \in Containers : t.set[k] = request.cli.set[k]
               /\ \A p \in Pairs : TaskAt(p).set[k] = request.cli.set[k]
        /\ request.kind # "function" => \A t \in Containers :
               /\ request.cli.execution # None => t.mode = request.cli.execution
               /\ request.cli.stop # None => t.stop

(* What a level does not say it takes from the level above: a function from  *)
(* its case and a case from the root task, in a fixture and run alone, although *)
(* each level computes its chain from the files and not from its parent.  A  *)
(* case leaves its mode open only with a null: see IsFunctionSpec.           *)
SettingsAreInherited ==
    Planned => \A i \in DOMAIN plan.cases :
        LET c == request.cases[i]
        IN /\ \A k \in Numeric :
                /\ c.set[k] = None => plan.cases[i].set[k] = OrZero(plan.root.set)[k]
                /\ \A j \in DOMAIN plan.functions[i] :
                       c.functions[j].set[k] = None =>
                           plan.functions[i][j].set[k] = plan.cases[i].set[k]
           /\ c.stop = None => plan.cases[i].stop = plan.root.stop
           /\ c.execution = None => plan.cases[i].mode = plan.root.mode

(* The settings that the retry loop counts and sleeps by. *)
Retried(t) == t.set["retry"] \in Int /\ t.set["retry_interval"] \in Int

(* A plan is one that the scheduler can walk.  The retry loop of each        *)
(* function of a case has numbers to work with, though null is accepted on   *)
(* every level; the one function of run_function has them if the global      *)
(* settings have (range(None + 1) raises otherwise, scheduler.py:207).       *)
(* Tasks depend only on siblings that the plan holds, that stand before them *)
(* and that nothing else depends on; in a sequential container only the      *)
(* first depends on nothing.  A dependency on a disabled function would      *)
(* abort what depends on it.                                                 *)
PlanIsRunnable ==
    Planned =>
        /\ \A t \in Containers : t.mode \in Modes
        /\ \A p \in Pairs : Retried(TaskAt(p))
        /\ request.kind = "function" /\ Retried(request.global) => Retried(plan.root)
        /\ \A i \in DOMAIN plan.cases :
            LET fs == plan.functions[i]
            IN /\ \A j \in DOMAIN fs :
                    /\ fs[j].parent = plan.cases[i].id
                    /\ \A d \in fs[j].dependencies :
                         \E l \in DOMAIN fs : l < j /\ fs[l].id = d
                    /\ \A l \in DOMAIN fs \ {j} :
                         /\ fs[l].id # fs[j].id
                         /\ fs[l].dependencies \cap fs[j].dependencies = {}
                         /\ plan.cases[i].mode = "sequential" =>
                                fs[l].dependencies # {} \/ fs[j].dependencies # {}
               /\ \A l \in DOMAIN plan.cases \ {i} : plan.cases[l].id # plan.cases[i].id

(* Two functions that use the same interface share the name of a lock,       *)
(* wherever the name comes from: derived from the interfaces of their cases, *)
(* or declared for the function or the case by the template of that          *)
(* interface.  The interface has to be bound; two interfaces bound to one    *)
(* device have two names.                                                    *)
SharedInterfaceIsLocked ==
    Planned => \A p, q \in Pairs :
        \A i \in {n \in DOMAIN Bound(request) : Bound(request)[n] # None} :
            LET Uses(x) == LET c == request.cases[x[1]] IN
                    IF SpecAt(x).resources # {} THEN [kind |-> "template", name |-> i] \in SpecAt(x).resources
                    ELSE IF c.resources # {} THEN [kind |-> "template", name |-> i] \in c.resources
                    ELSE i \in c.interfaces
            IN Uses(p) /\ Uses(q) => TaskAt(p).resources \cap TaskAt(q).resources # {}

(* Rules only take a verdict away.  An answer that the function itself gave  *)
(* as not passed is never passed afterwards; one that a rule fails keeps no  *)
(* missing code and none equal to 0 (but a text "0" or a fraction, which     *)
(* int() takes for a success at line 303, stays at line 416); and when all   *)
(* rules must hold, none that asks for more than a difference is satisfied   *)
(* by a field that is not there.  What cannot be normalised has failed.      *)
VerdictOnlyWorsens ==
    attempt # Nothing =>
        LET given == _normalize_result(attempt.answer)
            result == attempt.result
        IN IF attempt.answer.kind = "raised" \/ NormalizeRaises(attempt.answer)
           THEN result = Raised
           ELSE /\ result.status \in {given.status, "failed"}
                /\ result.status # given.status => result.code \notin {None, Num(0)}
                /\ (result.status = "passed" /\ attempt.expect.pass_policy = "all") =>
                       \A rule \in attempt.expect.rules :
                           _resolve_expectation_field(rule.field, given) = None =>
                               \/ rule.operator = "ne"
                               \/ rule.operator = "eq" /\ rule.value = None
                               \/ rule.operator = "in" /\ Contains(rule.value, None)
====
