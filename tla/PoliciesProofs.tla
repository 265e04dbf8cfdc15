---- MODULE PoliciesProofs ----
(***************************************************************************)
(* What aggregate_status computes, for every set of statuses.  A fact about *)
(* sets of numbers that the proofs of plans and of events need comes first. *)
(***************************************************************************)
EXTENDS Policies, FiniteSetTheorems, TLAPS

(* A finite set of numbers that is not empty has a largest one: among the   *)
(* sets of those that lie above one of them, one is minimal.                *)
LEMMA LargestExists ==
    ASSUME NEW S \in SUBSET Int, IsFiniteSet(S), S # {}
    PROVE  \E n \in S : \A m \in S : m <= n
<1> DEFINE Above(n) == {m \in S : m > n}
           T == {Above(n) : n \in S}
<1>1. T \subseteq FiniteSubsetsOf(S) /\ T # {}
  <2>1. \A n \in S : Above(n) \in SUBSET S /\ IsFiniteSet(Above(n))
    BY FS_Subset
  <2> QED
    BY <2>1 DEF FiniteSubsetsOf
<1>2. IsWellFoundedOn(StrictSubsetOrdering(S), FiniteSubsetsOf(S))
  BY FS_StrictSubsetOrderingWellFounded
<1>3. PICK A \in T : \A B \in T : <<B, A>> \notin StrictSubsetOrdering(S)
  <2> HIDE DEF T
  <2> QED
    BY <1>1, <1>2, WFMin
<1>4. PICK n \in S : A = Above(n)
  BY <1>3
<1>5. ASSUME NEW m \in S, m > n PROVE FALSE
  <2>1. /\ m \in Above(n) /\ m \notin Above(m) /\ Above(m) \subseteq Above(n)
        /\ Above(m) \in T
    <3>1. Above(m) \in T
      OBVIOUS
    <3>2. m \in Above(n) /\ m \notin Above(m)
      BY <1>5
    <3>3. ASSUME NEW q \in Above(m) PROVE q \in Above(n)
      <4>1. q \in S /\ q \in Int /\ m \in Int /\ n \in Int /\ q > m
        OBVIOUS
      <4> QED
        BY <1>5, <4>1
    <3> QED
      BY <3>1, <3>2, <3>3
  <2>2. Above(m) \in SUBSET S /\ Above(n) \in SUBSET S /\ Above(m) # Above(n)
    BY <2>1
  <2> HIDE DEF Above
  <2>3. <<Above(m), Above(n)>> \in StrictSubsetOrdering(S)
    BY <2>1, <2>2 DEF StrictSubsetOrdering
  <2> QED
    BY <1>3, <1>4, <2>1, <2>3
<1> QED
  BY <1>5

----------------------------------------------------------------------------

(* A status is what it computes, whatever it is given. *)
LEMMA AggregateType ==
    ASSUME NEW S
    PROVE  aggregate_status(S) \in ResultStatus
  BY DEF aggregate_status, ResultStatus

(* A container passes exactly when it has children and all of them passed.  *)
THEOREM PassedOnlyByAll ==
    ASSUME NEW S \in SUBSET ResultStatus
    PROVE  aggregate_status(S) = "passed" <=> S = {"passed"}
  BY DEF aggregate_status, ResultStatus

(* What a group's status says of the group. *)
LEMMA GroupStatus ==
    ASSUME NEW S \in (SUBSET ResultStatus) \ {{}}
    PROVE  /\ aggregate_status(S) = "running" <=> "running" \in S
           /\ aggregate_status(S) = "timeout"
                <=> "timeout" \in S /\ "running" \notin S
           /\ aggregate_status(S) = "aborted"
                <=> "aborted" \in S /\ "timeout" \notin S /\ "running" \notin S
           /\ aggregate_status(S) = "skipped" <=> S = {"skipped"}
           /\ aggregate_status(S) = "passed" <=> S = {"passed"}
  BY DEF aggregate_status, ResultStatus

(* Grouping does not matter: a fixture over cases that have results gets the *)
(* status that it would get over all their function results at once.         *)
THEOREM GroupingIsIrrelevant ==
    ASSUME NEW G \in SUBSET ((SUBSET ResultStatus) \ {{}})
    PROVE  aggregate_status({aggregate_status(S) : S \in G})
             = aggregate_status(UNION G)
<1> DEFINE A == {aggregate_status(S) : S \in G}
           U == UNION G
<1>1. CASE G = {}
  <2>1. A = {} /\ U = {}
    BY <1>1
  <2> QED
    BY <2>1
<1>2. CASE G # {}
  <2>1. A \in (SUBSET ResultStatus) \ {{}} /\ U \in (SUBSET ResultStatus) \ {{}}
    BY <1>2, AggregateType
  <2>2. "running" \in A <=> "running" \in U
    BY GroupStatus
  <2>3. "running" \notin U => ("timeout" \in A <=> "timeout" \in U)
    BY GroupStatus
  <2>4. "running" \notin U /\ "timeout" \notin U
        => ("aborted" \in A <=> "aborted" \in U)
    BY GroupStatus
  <2>5. A = {"skipped"} <=> U = {"skipped"}
    BY <1>2, GroupStatus
  <2>6. A = {"passed"} <=> U = {"passed"}
    BY <1>2, GroupStatus
  <2>7. /\ aggregate_status(A) \in ResultStatus
        /\ aggregate_status(U) \in ResultStatus
    BY <2>1, AggregateType
  <2> HIDE DEF A, U
  <2>8. aggregate_status(A) = aggregate_status(U)
    BY <2>1, <2>2, <2>3, <2>4, <2>5, <2>6, <2>7, GroupStatus DEF ResultStatus
  <2> QED
    BY <2>8 DEF A, U
<1> QED
  BY <1>1, <1>2
====
