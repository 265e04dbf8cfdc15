---- MODULE MCFunctionTask ----
EXTENDS FunctionTask, TLC

CONSTANTS t1, t2

(* Two tasks over one resource, each under an id of its own. *)
MCTaskOf == [t \in Threads |-> t]
MCNeeds == [t \in Threads |-> {1}]

(* t1 has a timeout and one retry; t2 has neither. *)
MCMaxRetries == t1 :> 1 @@ t2 :> 0
MCTimeoutOf == t1 :> 1 @@ t2 :> NoDeadline
MCIntervalOf == [t \in Threads |-> 0]
MCQuarantineOf == [t \in Threads |-> 1]

(* Two functions at the same place of two cases with the same name. *)
MCSameTask == [t \in Threads |-> t1]
====
