---- MODULE Policies ----
(***************************************************************************)
(* The status policies of src/framework/execution/policies.py, as they     *)
(* apply to the statuses of ResultStatus.                                  *)
(***************************************************************************)

EXTENDS Integers

ResultStatus == {"passed", "failed", "timeout", "aborted", "skipped", "running"}

(* Mutant: one passed child makes the container passed. *)
AggregateAnyPassed(S) ==
    IF S = {} THEN "skipped"
    ELSE IF "passed" \in S THEN "passed"
    ELSE IF "timeout" \in S THEN "timeout"
    ELSE IF "aborted" \in S THEN "aborted"
    ELSE "failed"

(* aggregate_status asks of the children's statuses only which occur and    *)
(* whether all are equal to one, so their set is enough.                     *)
aggregate_status(S) ==
    IF S = {} THEN "skipped"
    ELSE IF S = {"passed"} THEN "passed"
    ELSE IF "running" \in S THEN "running"
    ELSE IF "timeout" \in S THEN "timeout"
    ELSE IF "aborted" \in S THEN "aborted"
    ELSE IF "failed" \in S THEN "failed"
    ELSE IF S = {"skipped"} THEN "skipped"
    ELSE "failed"

(* Mutant: one retry too many. *)
RetryOnceMore(status, attempt, max_retries) ==
    status \in {"failed", "timeout"} /\ attempt <= max_retries

should_retry(status, attempt, max_retries) ==
    status \in {"failed", "timeout"} /\ attempt < max_retries
====
