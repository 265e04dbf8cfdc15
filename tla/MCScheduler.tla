---- MODULE MCScheduler ----
EXTENDS Scheduler, TLC

(* Two cases: one with three functions, one with one. *)
MCCases == {"A", "B"}
MCFunctions == {"a1", "a2", "a3", "b1"}
MCCaseOf == [f \in MCFunctions |-> IF f = "b1" THEN "B" ELSE "A"]
MCPosition ==
    "A" :> 0 @@ "B" :> 1
    @@ "a1" :> 1 @@ "a2" :> 2 @@ "a3" :> 10 @@ "b1" :> 0

NoDependencies == [t \in MCCases \cup MCFunctions |-> {}]

(* No dependency, a chain inside a case, one across cases, and a cycle. *)
MCDependencies ==
    {NoDependencies,
     [NoDependencies EXCEPT !["a3"] = {"a1"}],
     [NoDependencies EXCEPT !["a3"] = {"b1"}],
     [NoDependencies EXCEPT !["A"] = {"B"}, !["B"] = {"A"}]}

AllPlans ==
    [mode : {"R" :> r @@ "A" :> a @@ "B" :> "sequential" : r, a \in Modes},
     stop : SUBSET {"R", "A"},
     unready : {{}, {"B"}},
     unregistered : {{}, {"a1"}},
     dependencies : MCDependencies]

(* Left out: plans that differ only in dependencies that a sequential       *)
(* container does not look at.                                               *)
MCPlans ==
    {p \in AllPlans :
        /\ p.mode["R"] = "sequential" => p.dependencies["A"] = {}
        /\ p.mode["A"] = "sequential" => p.dependencies["a3"] = {}}
====
