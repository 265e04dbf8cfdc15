---- MODULE MCObserver ----
EXTENDS Observer

(* Two cases of one function each, one of which may be retried once; the      *)
(* fixture stops on failure, so that the other case may be aborted.           *)
MCCases == {"A", "B"}
MCFunctions == {"a", "b"}
MCCaseOf == [f \in MCFunctions |-> IF f = "a" THEN "A" ELSE "B"]
MCMaxRetries == [f \in MCFunctions |-> IF f = "a" THEN 1 ELSE 0]
Plan(u, f) == [stop |-> {Root}, unready |-> u, unregistered |-> f]
MCPlans == {Plan({}, {}), Plan({"B"}, {}), Plan({}, {"b"})}
====
