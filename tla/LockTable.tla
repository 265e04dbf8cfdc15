---- MODULE LockTable ----
(***************************************************************************)
(* What ResourceLockManager promises its callers: a caller gets all of the *)
(* resources it asked for or none, in one step; a resource has at most one *)
(* holder; and a resource that was given back with a quarantine is not     *)
(* given out before the quarantine is over.                                *)
(***************************************************************************)
EXTENDS Integers

CONSTANTS Callers, Resources, MaxQuarantine

VARIABLES
    held,  \* the resources each caller holds
    cool   \* ticks until each resource may be given out again

Init ==
    /\ held = [c \in Callers |-> {}]
    /\ cool = [r \in Resources |-> 0]

Available(r) == cool[r] = 0 /\ \A c \in Callers : r \notin held[c]

Grant(c, R) ==
    /\ held[c] = {}
    /\ \A r \in R : Available(r)
    /\ held' = [held EXCEPT ![c] = R]
    /\ UNCHANGED cool

GiveBack(c, seconds) ==
    /\ held[c] # {}
    /\ held' = [held EXCEPT ![c] = {}]
    /\ cool' = [r \in Resources |-> IF r \in held[c] THEN seconds ELSE cool[r]]

Elapse ==
    /\ cool' = [r \in Resources |-> IF cool[r] > 0 THEN cool[r] - 1 ELSE 0]
    /\ UNCHANGED held

Next ==
    \/ \E c \in Callers :
        \/ \E R \in (SUBSET Resources) \ {{}} : Grant(c, R)
        \/ \E seconds \in 0 .. MaxQuarantine : GiveBack(c, seconds)
    \/ Elapse

Spec == Init /\ [][Next]_<<held, cool>>
====
