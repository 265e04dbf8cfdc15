---- MODULE MCResourceLocks ----
EXTENDS ResourceLocks

CONSTANTS t1, t2

(* Each thread calls under a task id of its own. *)
MCTaskOf == [t \in Threads |-> t]
====
