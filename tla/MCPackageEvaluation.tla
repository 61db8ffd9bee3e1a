------------------------ MODULE MCPackageEvaluation ------------------------
(* Packages put together from a few policies, rule sets, workflows, rankings   *)
(* and optimizations for the decisions 1 and 2, asked for either, for both and  *)
(* for parts by their names; the same with any two faults; and pairs of schemas *)
(* against facts of every kind. Two effects of an application's own tie.        *)
EXTENDS PackageEvaluation

CONSTANTS hold, flag

Allow == Plain("allow")
Deny == Plain("deny")
FoldedAllow == [effect |-> "allow", spelling |-> "folded"]
PaddedAllow == [effect |-> "allow", spelling |-> "padded"]
PaddedReview == [effect |-> "require_review", spelling |-> "padded"]

PolicyRule(id, effectGiven, condition, score, stop) ==
    [id |-> id, effect |-> effectGiven, given |-> effectGiven # Empty, condition |-> condition,
     score |-> score, stop |-> stop, actions |-> IF stop THEN <<"notify">> ELSE <<>>]
Governs(name, wanted, default, rules) == [name |-> name, decision |-> wanted, default |-> default, rules |-> rules]
Ruling(id, condition, decided, score, stop) ==
    [id |-> id, condition |-> condition, active |-> TRUE, group |-> NoRules, decision |-> decided,
     score |-> score, stop |-> stop, next |-> 0, actions |-> IF decided = Deny THEN <<"log">> ELSE <<>>]
LeadingTo(n, r) == [r EXCEPT !.next = n]
Grouping(r, mode, conditions) ==
    [r EXCEPT !.group = [mode |-> mode, rules |-> [i \in DOMAIN conditions |-> Ruling(900 + i, conditions[i], Empty, 0, FALSE)]]]
Listed(name, namespace, mode, rules) == [name |-> name, namespace |-> namespace, mode |-> mode, rules |-> rules]
Score(id, weight, direction, condition) ==
    [id |-> id, metric |-> "points", weight |-> weight, direction |-> direction, condition |-> condition]
Ranked(name, wanted, dataset, rules, scores) ==
    [name |-> name, decision |-> wanted, dataset |-> dataset, selection |-> "", ruleSet |-> 0,
     rules |-> rules, scoreRules |-> scores, paths |-> FALSE]
Optimize(name, wanted, dataset, ranking, preferences) ==
    [name |-> name, decision |-> wanted, dataset |-> dataset, ranking |-> ranking, selection |-> "",
     constraints |-> <<>>, preferences |-> preferences]
Records == <<[id |-> 1, points |-> 2], [id |-> 2, points |-> 5], [id |-> 3, points |-> 5]>>
Data == <<[name |-> 51, records |-> Records], [name |-> 52, records |-> <<>>]>>

-----------------------------------------------------------------------------
PolicyLists ==
    LET lenient == Governs(11, 1, Empty, <<PolicyRule(1, Allow, "", 2, FALSE)>>)
        strict  == Governs(12, 1, Deny, <<PolicyRule(2, PaddedReview, "flag", 3, TRUE), PolicyRule(3, Plain(hold), "vip", 1, FALSE)>>)
        other   == Governs(13, 2, PaddedAllow, <<PolicyRule(4, Plain(flag), "flag", 4, FALSE), PolicyRule(5, Deny, "failing", 0, FALSE)>>)
        common  == Governs(14, 0, FoldedAllow, <<PolicyRule(6, Empty, "vip", 1, FALSE)>>)
    IN  {<<lenient>>, <<strict>>, <<lenient, strict>>, <<other, strict>>, <<common, lenient, other>>}

RuleSetLists ==
    LET first  == Listed(21, 1, "AllMatches", <<Ruling(101, "flag", Plain(hold), 2, FALSE), Ruling(102, "vip", FoldedAllow, 3, TRUE), Ruling(103, "", Deny, 1, FALSE)>>)
        highest == Listed(22, 1, "HighestPriority", <<[Ruling(111, "vip", Allow, 5, FALSE) EXCEPT !.active = FALSE],
                        Grouping(Ruling(112, "", PaddedAllow, 6, FALSE), "any", <<"flag", "vip">>), Ruling(113, "", Empty, 7, FALSE)>>)
        other  == Listed(23, 2, "FirstMatch", <<Grouping(Ruling(121, "", Plain(flag), 8, FALSE), "none", <<"flag", "failing">>)>>)
        loose  == Listed(24, 0, "AllMatches", <<Grouping(Ruling(131, "flag", Deny, 9, FALSE), "", <<"", "vip">>)>>)
        denied == Listed(25, 1, "DenyOverrides", <<Ruling(141, "flag", [Deny EXCEPT !.spelling = "folded"], 1, FALSE), Ruling(142, "", Plain(hold), 2, FALSE)>>)
        allowed1 == Listed(26, 0, "AllowOverrides", <<[Ruling(151, "vip", Plain(hold), 3, FALSE) EXCEPT !.actions = <<"allow">>],
                        Ruling(152, "", PaddedAllow, 4, FALSE), LeadingTo(1, Ruling(153, "", Empty, 5, FALSE)), Ruling(154, "", Deny, 6, FALSE)>>)
    IN  {<<>>, <<first>>, <<highest, other>>, <<other, denied>>, <<denied, allowed1, loose>>}

Staged(start, first, second) == <<[name |-> 61, start |-> start, stages |-> <<[name |-> 1, rules |-> first], [name |-> 2, rules |-> second]>>]>>
Flow(start, rules) == Staged(start, rules, <<>>)
\* The second stage may lead back to the first, or nowhere.
WorkflowLists ==
    {<<>>, Flow(3, <<>>),
     Staged(1, <<LeadingTo(2, Ruling(201, "vip", Deny, 3, FALSE))>>,
               <<Ruling(202, "", Plain(hold), 4, FALSE), LeadingTo(1, Ruling(203, "flag", Empty, 5, TRUE))>>)}

RankingParts ==
    LET best  == Ranked(31, 1, 51, <<Ruling(301, "flag", Deny, 2, FALSE)>>, <<Score(1, 0, "", "")>>)
        worst == Ranked(32, 2, 52, <<>>, <<Score(2, 2, "lower", ""), Score(3, 1, "higher", "vip")>>)
        fails == Ranked(33, 2, 51, <<>>, <<Score(4, 1, "", "failing")>>)
        goal  == Optimize(41, 1, 51, 32, <<>>)
        own   == Optimize(42, 2, 51, 0, <<Score(5, 3, "", "flag")>>)
    IN  {[rankings |-> <<>>, optimizations |-> <<>>], [rankings |-> <<worst, best>>, optimizations |-> <<goal>>],
         [rankings |-> <<best, fails>>, optimizations |-> <<own>>], [rankings |-> <<worst>>, optimizations |-> <<own, goal>>]}

Under(type, required, limits) == [type |-> type, required |-> required, enum |-> {}, limits |-> limits, properties |-> <<>>]
Schema(rules) == [NoSchema EXCEPT !.rules = rules]
A == <<"a">>
OnA(rule) == Schema([path \in {A} |-> rule])
\* Asks for a fact that no request below has, but of a decision that none is for.
Unasked == [d \in {3} |-> OnA(Under("", TRUE, <<>>))]

Plan(policies, ruleSets, workflows, ranked) ==
    [name |-> 91, encodes |-> TRUE, variables |-> [vip |-> Truth(TRUE)], schemas |-> Unasked, datasets |-> Data,
     ruleSets |-> ruleSets, policies |-> policies, rankings |-> ranked.rankings, optimizations |-> ranked.optimizations,
     workflows |-> workflows, tests |-> <<>>]

Unranked == [rankings |-> <<>>, optimizations |-> <<>>]
Packages == {Plan(p, r, w, k) : p \in PolicyLists, r \in RuleSetLists, w \in WorkflowLists, k \in RankingParts}

-----------------------------------------------------------------------------
FactMap(at) == [kind |-> "map", at |-> at]
Request0(wanted, facts, variableMap, candidates) ==
    [decision |-> wanted, facts |-> FactMap(facts), variableMap |-> variableMap, variables |-> <<>>, candidates |-> candidates]
Flagged == [flag |-> Truth(TRUE)]
Ordinary == [vip |-> Truth(FALSE)]
Own == <<[id |-> 7, points |-> -1], [id |-> 8, points |-> 1]>>

Requests ==
    {Request0(d, f, v, c) : d \in {1, 2}, f \in {<<>>, Flagged}, v \in {<<>>, Ordinary}, c \in {<<>>}}
    \cup {Request0(0, Flagged, Ordinary, Own), Request0(23, Flagged, <<>>, <<>>), Request0(31, Ordinary, Flagged, <<>>)}

\* What of a package does not serve a request is left out for the baseline, or for the candidate.
Reduced ==
    {[packages |-> IF first THEN <<p, Only(p, r.decision)>> ELSE <<Only(p, r.decision), p>>, cases |-> <<r>>] :
        p \in Packages, r \in Requests, first \in BOOLEAN}

\* Policies that show in nothing but the effect.
Unscored == {<<Governs(15, 1, FoldedAllow, <<>>)>>, <<Governs(15, 1, Empty, <<PolicyRule(7, Deny, "", 0, FALSE)>>)>>}

\* Two versions, for two cases after each other.
Versions ==
    {[packages |-> <<Plan(p, r, <<>>, Unranked), Plan(q, s, <<>>, Unranked)>>,
      cases |-> <<Request0(1, Flagged, Ordinary, <<>>), Request0(2, <<>>, <<>>, <<>>)>>] :
        p, q \in PolicyLists \cup Unscored, r, s \in RuleSetLists}
    \cup {[packages |-> <<Plan(<<>>, <<>>, <<>>, Unranked)>>, cases |-> <<>>]}

-----------------------------------------------------------------------------
\* Schemas of one fact, pairs of which the first asks more, and facts.
Schemas ==
    {OnA(Under(type, required, <<>>)) : type \in {"", "string", "bool", "number", "int", "array", "object", "date"}, required \in BOOLEAN}
    \cup {OnA(Under("", FALSE, limits)) :
            limits \in {[min |-> 2], [max |-> 2], [min |-> 1, max |-> 3], [minLength |-> 1], [maxLength |-> 1],
                        [minItems |-> 1], [maxItems |-> 0], [minLength |-> 1, maxLength |-> 1], [minItems |-> 1, max |-> 0]}}
    \cup {OnA([Under("", FALSE, <<>>) EXCEPT !.enum = values]) :
            values \in {{Float(2)}, {Float(2), [kind |-> "string", n |-> 1]}}}
    \cup {OnA([Under("", outer, <<>>) EXCEPT !.properties = [b |-> Under(type, inner, limits)]]) :
            outer, inner \in BOOLEAN, type \in {"", "int"}, limits \in {<<>>, [min |-> 3], [min |-> 3, max |-> 4]}}
    \cup {[Schema(<<>>) EXCEPT !.properties = [path \in {A} |-> rule]] :
            rule \in {Under("", TRUE, <<>>), Under("number", FALSE, [min |-> 2, max |-> 3]),
                      [Under("object", TRUE, <<>>) EXCEPT !.properties = [b |-> Under("int", TRUE, [max |-> 4])]]}}
    \cup {[Schema(<<>>) EXCEPT !.required = {A}], [Schema(<<>>) EXCEPT !.types = [path \in {A} |-> "number"]]}

Values == {Missing, Truth(FALSE), Whole(1), Float(3), [kind |-> "sized", n |-> 2], [kind |-> "string", n |-> 0],
           [kind |-> "string", n |-> 2], [kind |-> "numeral", text |-> 1, n |-> 4], List(<<>>), List(<<Whole(1)>>),
           FactMap([b |-> Whole(1)]), FactMap([b |-> Float(3)]), FactMap([b |-> Whole(2)])}

Bare == Plan(<<>>, <<>>, <<>>, Unranked)
Tightened ==
    {[packages |-> <<[Bare EXCEPT !.schemas = [d \in {1} |-> pair[1]]],
                     [Bare EXCEPT !.schemas = [d \in {DefaultSchema, 2} |-> IF d = 2 THEN OnA(Under("bool", TRUE, <<>>)) ELSE pair[2]]]>>,
      cases |-> <<Request0(1, facts, <<>>, <<>>)>>] :
        pair \in {x \in Schemas \X Schemas : Stricter(x[1], x[2])}, facts \in {<<>>} \cup {[a |-> v] : v \in Values}}

-----------------------------------------------------------------------------
\* A package with everything, and one or two faults in different fields of it.
Test(name, wanted, facts, expect) == [name |-> name, decision |-> wanted, context |-> FactMap(facts), variables |-> Ordinary, expect |-> expect]
Expects(key, want) == [key |-> key, want |-> want]

Sound ==
    [Plan(<<Governs(11, 1, Deny, <<PolicyRule(1, Allow, "flag", 2, FALSE)>>)>>,
          <<Listed(21, 1, "AllMatches", <<Grouping(Ruling(101, "flag", Empty, 3, FALSE), "all", <<"flag">>), Ruling(102, "vip", Empty, 1, FALSE)>>)>>,
          Flow(1, <<Ruling(201, "", Empty, 0, FALSE)>>),
          [rankings |-> <<Ranked(31, 1, 51, <<Ruling(301, "flag", Empty, 0, FALSE)>>, <<Score(1, 0, "", "")>>)>>,
           optimizations |-> <<Optimize(41, 1, 51, 31, <<>>)>>])
     EXCEPT !.tests = <<Test(71, 1, Flagged, {Expects("allowed", TRUE)})>>,
            !.schemas = [d \in {1} |-> OnA(Under("int", FALSE, [min |-> 1, max |-> 3]))]]

\* The same field of a package with something else in it.
Instead(field, values) == {[field |-> field, value |-> v] : v \in values}

FaultyRules(r) ==
    {<<[r EXCEPT !.id = 0]>>, <<[r EXCEPT !.condition = "broken"]>>, <<r, r>>, <<Grouping(r, "odd", <<"flag">>)>>,
     <<Grouping(r, "", <<"flag">>)>>, <<Grouping(r, "any", <<"broken">>)>>,
     <<[r EXCEPT !.group = [mode |-> "none", rules |-> <<[r EXCEPT !.id = 0]>>]]>>}

Faults ==
    LET rs   == Sound.ruleSets[1]
        pol  == Sound.policies[1]
        rank == Sound.rankings[1]
        opt  == Sound.optimizations[1]
        wf   == Sound.workflows[1]
        some == Ruling(401, "flag", Empty, 1, FALSE)
    IN  Instead("name", {0}) \cup Instead("encodes", {FALSE})
        \cup Instead("ruleSets", {<<[rs EXCEPT !.rules = rules]>> : rules \in FaultyRules(some)}
                                 \cup {<<[rs EXCEPT !.name = 0]>>, <<rs, rs>>, <<>>})
        \cup Instead("policies", {<<[pol EXCEPT !.name = 0]>>, <<pol, pol>>, <<[pol EXCEPT !.rules[1].id = 0]>>,
                                  <<[pol EXCEPT !.rules = <<PolicyRule(1, Empty, "", 1, FALSE)>>]>>,
                                  <<[pol EXCEPT !.rules[1].condition = "broken"]>>,
                                  <<[pol EXCEPT !.rules[1].condition = "failing"]>>})
        \cup Instead("datasets", {<<>>, <<[name |-> 0, records |-> <<>>]>>, <<[name |-> 51, records |-> <<[id |-> 0, points |-> 1]>>]>>, Data \o Data})
        \cup Instead("rankings", {<<[rank EXCEPT !.rules = rules]>> : rules \in FaultyRules(some) \ {<<Grouping(some, "", <<"flag">>)>>}}
                                 \cup {<<[rank EXCEPT !.name = 0, !.ruleSet = 31]>>, <<[rank EXCEPT !.name = 0]>>, <<rank, rank>>,
                                       <<[rank EXCEPT !.rules = <<>>, !.scoreRules = <<>>]>>,
                                       <<[rank EXCEPT !.selection = "weighted"]>>, <<[rank EXCEPT !.selection = "odd"]>>,
                                       <<[rank EXCEPT !.dataset = 59]>>, <<[rank EXCEPT !.scoreRules[1].id = 0]>>,
                                       <<[rank EXCEPT !.scoreRules[1].metric = ""]>>, <<[rank EXCEPT !.scoreRules[1].direction = "odd"]>>,
                                       <<[rank EXCEPT !.scoreRules[1].condition = "broken"]>>, <<>>})
        \cup Instead("optimizations", {<<[opt EXCEPT !.name = 0]>>, <<[opt EXCEPT !.selection = "odd"]>>, <<[opt EXCEPT !.dataset = 59]>>,
                                       <<[opt EXCEPT !.ranking = 39]>>, <<[opt EXCEPT !.ranking = 0, !.preferences = <<Score(0, 1, "", "")>>]>>,
                                       <<[opt EXCEPT !.ranking = 0, !.constraints = <<Ruling(1, "broken", Empty, 0, FALSE)>>]>>})
        \cup Instead("workflows", {<<[wf EXCEPT !.name = 0]>>, Flow(0, <<>>), Flow(3, <<>>), <<[wf EXCEPT !.stages[2].name = 0]>>}
                                  \cup {Flow(1, rules) : rules \in FaultyRules(some)})
        \cup Instead("schemas", {[d \in {1} |-> s] : s \in {OnA(Under("", TRUE, [min |-> 3, max |-> 1])),
                                    OnA([Under("", TRUE, <<>>) EXCEPT !.properties = [b |-> Under("", TRUE, [minItems |-> 2, maxItems |-> 1])]]),
                                    Schema([path \in {<<>>} |-> Under("int", TRUE, <<>>)]), [Schema(<<>>) EXCEPT !.types = [path \in {A} |-> ""]],
                                    OnA(Under("int", TRUE, <<>>))}})
        \cup Instead("tests", {<<>>, <<Test(0, 1, <<>>, {Expects("allowed", TRUE)})>>, Sound.tests \o Sound.tests, <<Test(71, 1, <<>>, {})>>})

\* Every expectation, of an answer, of another one and of none.
Expectations ==
    {Expects("decision", Allow), Expects("effect", Deny), Expects("effect", PaddedAllow), Expects("allowed", FALSE), 
     Expects("score", Float(10)), Expects("score", [kind |-> "sized", n |-> 10]), Expects("score_gte", Whole(2)), Expects("score_lte", Whole(3)),
     Expects("rank", 2), Expects("actions", {"notify"}), Expects("matched_rule_ids", {101, 201}), Expects("spelt", TRUE)}

Tests ==
    LET facts == {Flagged, <<>>, [a |-> Truth(TRUE)]}
    IN  {<<Test(71, 1, f, {e}), Test(72, d, g, {e, o})>> : f, g \in facts, d \in {1, 2}, e, o \in Expectations}

Run0(pkg) == [package |-> pkg, candidates |-> <<>>]
FaultyRuns == {Run0([Sound EXCEPT ![d.field] = d.value, ![e.field] = e.value]) : d, e \in Faults}
TestedRuns == {Run0([Sound EXCEPT !.tests = tests]) : tests \in Tests}
OneFault == {[packages |-> <<[Sound EXCEPT ![d.field] = d.value]>>, cases |-> <<Request0(1, Flagged, <<>>, <<>>)>>] : d \in Faults}

\* The same set: TLC sorts what it filters, and then finds elements quickly.
Sorted(S) == {x \in S : TRUE}
MCTestRuns == Sorted(FaultyRuns) \cup (Sorted(TestedRuns) \cup {[package |-> Sound, candidates |-> Own]})
MCSimulations == Sorted(Reduced) \cup (Sorted(Tightened) \cup (Sorted(Versions) \cup OneFault))
=============================================================================
