---- MODULE MCConfigPlan ----
EXTENDS ConfigPlan

(* Two boards: on the second, which supports only the case c, the interface   *)
(* i2c is not bound to a device.                                              *)
MCInterfaces == {"eth", "i2c"}
MCDevices == {"end1", "i2c0"}
MCBoards ==
    [b1 |-> [supported |-> {}, interfaces |-> [eth |-> "end1", i2c |-> "i2c0"]],
     b2 |-> [supported |-> {"c"}, interfaces |-> [i2c |-> None]]]

MCNumerals == [s \in {"0", "7"} |-> IF s = "0" THEN 0 ELSE 7]
Alphabetical == <<"", "0", "failed", "passed", "skipped", "x">>
MCStringOrder == {<<Alphabetical[p[1]], Alphabetical[p[2]]>> :
                     p \in {q \in (1 .. 6) \X (1 .. 6) : q[1] < q[2]}}

Timeout(t) == [NoSettings EXCEPT !["timeout"] = t]
NoRules == [pass_policy |-> "all", rules |-> {}]
NoAnswer == [kind |-> "none"]
F == [name |-> "f", enabled |-> TRUE, set |-> NoSettings, capabilities |-> {},
      resources |-> {}, expect |-> NoRules]
C == [name |-> "c", board |-> None, execution |-> "sequential", set |-> NoSettings, stop |-> None,
      interfaces |-> {}, resources |-> {}, functions |-> <<F>>]
X == [name |-> "x", board |-> None, execution |-> "sequential", set |-> NoSettings, stop |-> FALSE]
R == [kind |-> "fixture", board |-> None, fixture |-> X, cases |-> <<C>>,
      global |-> [set |-> [k \in Numeric |-> 0], board |-> "b1"],
      cli |-> [set |-> NoSettings, execution |-> None, stop |-> None],
      answers |-> {NoAnswer}]
WithFunctions(fs) == [C EXCEPT !.functions = fs]

(* Who sets a timeout, a mode or a stop: every combination of the levels.     *)
Levels ==
    {[R EXCEPT !.kind = kind,
               !.fixture = IF kind # "fixture" THEN NoFixture
                           ELSE [X EXCEPT !.set = Timeout(t[1]), !.execution = e, !.stop = b],
               !.cases = <<[C EXCEPT !.set = Timeout(t[2]), !.stop = s,
                                     !.functions = <<[F EXCEPT !.set = Timeout(t[3])]>>]>>,
               !.cli = [set |-> Timeout(t[4]), execution |-> o, stop |-> p]] :
        kind \in {"fixture", "case", "function"}, e \in Modes, b \in BOOLEAN,
        t \in {<<v, w, x, y>> : v \in {None, 1}, w \in {None, 2}, x \in {None, 3}, y \in {None, 4}},
        s \in {None, FALSE}, o \in {None, "parallel"}, p \in {None, TRUE}}

(* Who writes null: the global settings, a fixture and its stop, a case.        *)
Nulls ==
    {[R EXCEPT !.kind = kind,
               !.fixture = IF kind # "fixture" THEN NoFixture ELSE [X EXCEPT !.execution = e, !.stop = b],
               !.cases = <<[C EXCEPT !.execution = m, !.set["retry"] = n]>>,
               !.global.set["retry"] = g, !.global.set["retry_interval"] = i,
               !.cli.execution = o, !.cli.set["retry"] = q] :
        kind \in {"fixture", "case", "function"}, e \in {None, "parallel"}, b \in {None, TRUE},
        m \in {None, "sequential"}, n \in {None, -1}, g \in {None, 1}, i \in {None, 0},
        o \in {None, "parallel"}, q \in {None, 2}}

(* Which functions are enabled, and which of them share a name, in two cases.  *)
Lists == {<<[F EXCEPT !.enabled = x], [F EXCEPT !.enabled = y, !.name = n], [F EXCEPT !.enabled = z]>> :
             x, y, z \in BOOLEAN, n \in {"f", "g"}}
Shapes ==
    {[R EXCEPT !.cases = <<[WithFunctions(fs) EXCEPT !.execution = e], WithFunctions(gs)>>,
               !.fixture.execution = m] :
        fs \in Lists, gs \in {<<F>>, <<F, F>>}, e \in Modes, m \in Modes}

(* Where the resources of two cases come from, on either board.                *)
Template(i) == [kind |-> "template", name |-> i]
Sources == {<<{}, {}>>, <<{Template("eth")}, {}>>, <<{}, {Template("i2c")}>>,
            <<{[kind |-> "name", name |-> "rig"]}, {}>>}
WithSource(s, is) ==
    [C EXCEPT !.interfaces = is, !.resources = s[1],
              !.functions = <<[F EXCEPT !.resources = s[2], !.capabilities = {"k"}]>>]
Locks ==
    {[R EXCEPT !.cases = <<[WithSource(s, is) EXCEPT !.board = b], WithSource(t, js)>>,
               !.fixture.board = x, !.board = y] :
        s, t \in Sources, is, js \in SUBSET MCInterfaces, b \in {None, "b1"},
        x \in {None, "b2"}, y \in {None, "b2", "b3"}}

(* What a function answers, and what is expected of it.                        *)
Dict(s, c, d) == [kind |-> "dict", status |-> s, code |-> c, details |-> d, metrics |-> [n |-> Num(2)]]
Answers ==
    {NoAnswer, [kind |-> "raised"], [kind |-> "bool", value |-> TRUE], [kind |-> "bool", value |-> FALSE],
     [kind |-> "other", value |-> Num(3)]}
    \cup {Dict(s, c, d) : s \in {None, "passed", "failed", "skipped", "odd"},
              c \in {None, Num(0), Num(7), Half(-1), Str("0"), Str("x")},
              d \in {None, <<>>, [ok |-> Num(1)], [ok |-> Many({}), status |-> Str("passed")]}}
Rule(f, o, v) == [field |-> f, operator |-> o, value |-> v]
Rules ==
    {q \in {Rule(f, o, v) : f \in {<<>>, <<"ok">>, <<"status">>, <<"n">>, <<"details", "ok">>, <<"metrics", "n">>, <<"code", "n">>},
                            o \in Operators \cup {"like"}, v \in {None, Num(1), Str("passed"), Many({Num(1), Num(2)})}} :
        q.operator \in Orderings => q.value # Many({Num(1), Num(2)})}
Judgements ==
    {[R EXCEPT !.cases = <<WithFunctions(<<[F EXCEPT !.expect = [pass_policy |-> p, rules |-> rs]]>>)>>,
               !.answers = Answers] :
        p \in {"all", "any"},
        rs \in {{q} : q \in Rules} \cup {{q, Rule(<<"code">>, "ne", Num(7))} : q \in Rules}}

MCRequests == Levels \cup Nulls \cup Shapes \cup Locks \cup Judgements
====
