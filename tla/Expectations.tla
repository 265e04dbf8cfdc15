---- MODULE Expectations ----
(***************************************************************************)
(* What FunctionExecutor makes of a function's answer: the tail of execute *)
(* with _normalize_result, _apply_expectations and the rules, all of       *)
(* src/framework/execution/function_executor.py.                           *)
(*                                                                         *)
(* A value is tagged: <<"num", n>> for the number n/2, <<"str", s>>, or    *)
(* <<"many", S>> for a list or a dictionary, of which only the members or  *)
(* keys matter here.  Halves stand for all fractions.  True and False are  *)
(* the numbers 1 and 0, as they are in Python.  An answer that is a        *)
(* dictionary may lack its status or code; the message is wording, and so  *)
(* are the parts of a string.                                              *)
(***************************************************************************)
EXTENDS Policies, Sequences

CONSTANTS
    None,        \* Python's None
    Numerals,    \* the strings that int() reads, and the number it reads
    StringOrder  \* the pairs of strings <<s, t>> with s < t

Half(n) == <<"num", n>>
Num(n) == Half(2 * n)
Str(s) == <<"str", s>>
Many(S) == <<"many", S>>

ASSUME ExpectationsAssumption ==
    /\ None # Num(-1)
    /\ Numerals \in [DOMAIN Numerals -> Int]
    /\ \A p \in StringOrder : p[1] # p[2] /\ <<p[2], p[1]>> \notin StringOrder

Orderings == {"gt", "gte", "lt", "lte"}
Operators == {"eq", "ne", "contains", "in", "exists", "non_empty"} \cup Orderings

\* What execute makes of an answer when the function, int or a rule raises.
Raised == [status |-> "failed", code |-> Num(-1)]

----------------------------------------------------------------------------
Success(details) ==
    [status |-> "passed", code |-> Num(0), details |-> details, metrics |-> <<>>]

(* int(value), where it does not raise: it cuts fractions off towards zero. *)
ReadsAsInt(value) == value[1] = "num" \/ (value[1] = "str" /\ value[2] \in DOMAIN Numerals)

IntOf(value) ==
    IF value[1] = "str" THEN Numerals[value[2]]
    ELSE IF value[2] >= 0 THEN value[2] \div 2
    ELSE -((-value[2]) \div 2)

(* Details or metrics that are null raise, and so do a status that is none of *)
(* ResultStatus (str() of its members included) and, without a status, a code *)
(* that int() does not read.                                                  *)
NormalizeRaises(raw) ==
    /\ raw.kind = "dict"
    /\ \/ raw.details = None \/ raw.metrics = None
       \/ raw.status \notin ResultStatus \cup {None}
       \/ raw.status = None /\ raw.code # None /\ ~ReadsAsInt(raw.code)

_normalize_result(raw) ==
    CASE raw.kind = "none" -> Success(<<>>)
      [] raw.kind = "bool" ->
            [Success(<<>>) EXCEPT !.status = IF raw.value THEN "passed" ELSE "failed",
                                  !.code = IF raw.value THEN Num(0) ELSE Num(-1)]
      [] raw.kind = "dict" ->
            [status  |-> IF raw.status # None THEN raw.status
                         ELSE IF raw.code = None THEN "passed"
                         ELSE IF IntOf(raw.code) = 0 THEN "passed"
                         ELSE "failed",
             code    |-> raw.code,
             details |-> raw.details,
             metrics |-> raw.metrics]
      [] raw.kind = "other" -> Success([result |-> raw.value])

(* The dictionary that a dotted path starts from. *)
Envelope(r) ==
    [status  |-> Str(r.status),
     code    |-> r.code,
     details |-> Many(DOMAIN r.details),
     metrics |-> Many(DOMAIN r.metrics)]

Entry(name, dictionary) ==
    IF name \in DOMAIN dictionary THEN dictionary[name] ELSE None

(* A path is the sequence of its names; what is inside a value of details or *)
(* metrics is abstracted, so no path has more than two.                      *)
_resolve_expectation_field(path, r) ==
    IF path = <<>> THEN None
    ELSE IF Len(path) = 2
    THEN CASE path[1] = "details" -> Entry(path[2], r.details)
           [] path[1] = "metrics" -> Entry(path[2], r.metrics)
           [] path[1] \notin {"details", "metrics"} -> None
    ELSE IF path[1] \in DOMAIN Envelope(r) THEN Envelope(r)[path[1]]
    ELSE IF path[1] \in DOMAIN r.details THEN r.details[path[1]]
    ELSE Entry(path[1], r.metrics)

(* Numbers are ordered, and so are strings; what cannot be compared raises.   *)
(* No rule orders a list, which Python would compare with another, or asks    *)
(* for a proper part of a string (IsFunctionSpec).                            *)
Comparable(a, b) == a = None \/ b = None \/ (a[1] = b[1] /\ a[1] \in {"num", "str"})
Less(a, b) ==
    /\ a # None /\ b # None
    /\ IF a[1] = "str" THEN <<a[2], b[2]>> \in StringOrder ELSE a[2] < b[2]
Contains(many, v) ==
    /\ many # None
    /\ \/ many[1] = "many" /\ v \in many[2]
       \/ many[1] = "str" /\ v \in {many, Str("")}

(* Mutant: a rule about a missing value is taken as satisfied. *)
HoldsIfMissing(operator, actual, expected) ==
    \/ actual = None
    \/ operator = "eq" /\ actual = expected
    \/ operator = "exists"

Holds(operator, actual, expected) ==
    \/ operator = "eq" /\ actual = expected
    \/ operator = "ne" /\ actual # expected
    \/ operator = "gt" /\ Less(expected, actual)
    \/ operator = "gte" /\ (Less(expected, actual) \/ (actual # None /\ actual = expected))
    \/ operator = "lt" /\ Less(actual, expected)
    \/ operator = "lte" /\ (Less(actual, expected) \/ (actual # None /\ actual = expected))
    \/ operator = "contains" /\ Contains(actual, expected)
    \/ operator = "in" /\ Contains(expected, actual)
    \/ operator = "exists" /\ actual # None
    \/ operator = "non_empty" /\ actual \notin {None, Str(""), Many({})}

(* _evaluate_expectation raises for an operator it does not know. *)
RuleRaises(rule, r) ==
    \/ rule.operator \notin Operators
    \/ /\ rule.operator \in Orderings
       /\ ~Comparable(_resolve_expectation_field(rule.field, r), rule.value)

Satisfied(rule, r) ==
    Holds(rule.operator, _resolve_expectation_field(rule.field, r), rule.value)

(* Mutant: met rules make a result passed. *)
AppliedAsVerdict(expect, r) ==
    IF expect.rules = {} THEN [status |-> r.status, code |-> r.code]
    ELSE IF \A rule \in expect.rules : Satisfied(rule, r)
    THEN [status |-> "passed", code |-> r.code]
    ELSE [status |-> "failed", code |-> r.code]

(* _apply_expectations: rules that hold leave a result as it is. *)
_apply_expectations(expect, r) ==
    LET met == IF expect.pass_policy = "any"
               THEN \E rule \in expect.rules : Satisfied(rule, r)
               ELSE \A rule \in expect.rules : Satisfied(rule, r)
    IN IF expect.rules = {} \/ met
       THEN [status |-> r.status, code |-> r.code]
       ELSE [status |-> "failed",
             code |-> IF r.code \in {None, Num(0)} THEN Num(-1) ELSE r.code]

(* execute, for a function that ran: its answer, or an exception.             *)
Judged(raw, expect) ==
    IF raw.kind = "raised" \/ NormalizeRaises(raw) THEN Raised
    ELSE LET r == _normalize_result(raw)
         IN IF \E rule \in expect.rules : RuleRaises(rule, r) THEN Raised
            ELSE _apply_expectations(expect, r)
====
