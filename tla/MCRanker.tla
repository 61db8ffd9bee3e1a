------------------------------ MODULE MCRanker ------------------------------
(* Rankers on the native and on the generic way, and requests of up to five    *)
(* candidates that tie in every tie-breaker.                                   *)
EXTENDS Ranker

MCFields == {"status", "quality", "priority", "specificity", "fallback", "cost", "weight"}
MCPaths == [p \in {"priority", "specificity", "fallback", "cost", "weight"} |-> p]

NaN == [kind |-> "float", n |-> NotANumber]

None == [op |-> "none"]
StatusIs1 == [op |-> "==", field |-> "status", lit |-> Whole(1)]
Good == [op |-> ">=", field |-> "quality", lit |-> Whole(1)]
Either == [op |-> "||", left |-> StatusIs1, right |-> Good]
Called == [op |-> "!=", field |-> "status", lit |-> Whole(2)]
MCConditions == {None, StatusIs1, Good, Either, Called}
MCInterpreted == {Called}

Unknown == [f \in Fields |-> Missing]
Knows(over) == [f \in Fields |-> IF f \in DOMAIN over THEN Whole(over[f]) ELSE Missing]
Known(id, over) ==
    [id |-> id, hasRoot |-> TRUE, root |-> Knows(over), flat |-> Unknown,
     metadata |-> Unknown, bare |-> Unknown]

A == Known(1, [status |-> 1, quality |-> 1, priority |-> 2, cost |-> 1, fallback |-> 2])
B == Known(2, [status |-> 1, quality |-> 1, priority |-> 2, cost |-> 2, fallback |-> 1, weight |-> 3])
C == Known(3, [status |-> 2, quality |-> 2, priority |-> 3, specificity |-> 1])
D == Known(4, [status |-> 1, quality |-> 2, priority |-> 2, specificity |-> 1, cost |-> 1, weight |-> 2])
E == [Known(5, [status |-> 1, priority |-> 2, specificity |-> 1])
        EXCEPT !.hasRoot = FALSE, !.root = Unknown, !.flat = Knows([status |-> 1, cost |-> 2]),
               !.metadata = Knows([status |-> 2, quality |-> 1])]
F == Known(6, [status |-> 2, cost |-> 1])
G == [Known(7, [status |-> 1, quality |-> 1]) EXCEPT !.root["priority"] = NaN]
G2 == [Known(9, [status |-> 1, quality |-> 2]) EXCEPT !.root["cost"] = NaN]
H == Known(8, [status |-> 1, quality |-> 1, priority |-> 2, cost |-> 1])
J == Known(10, [status |-> 3, cost |-> 1])
K == Known(11, [quality |-> 1])

\* Requests that have facts of the names that a candidate lacks.
Knowing(q) == [n \in DOMAIN q |-> [q[n] EXCEPT !.bare = Knows([status |-> 1, quality |-> 1])]]

MCRequests ==
    {<<>>, <<A>>, <<C>>, <<F>>, <<A, B>>, <<B, A>>, <<A, C>>, <<A, K>>, <<D, E>>, <<J, E>>, <<E, F>>, <<G, A>>, <<H, A>>,
     <<A, B, C>>, <<A, D, F>>, <<G, B, D>>, Knowing(<<J, D>>), Knowing(<<F, A>>),
     <<A, B, D, E>>, <<D, H, B, A>>, <<F, C, A, G>>, <<G, G2, A, D>>,
     <<A, B, C, D, E>>, <<E, D, C, B, A>>, <<H, F, D, B, A>>, <<A, G, D, H, B>>}

NoGroup == [mode |-> "absent", rules |-> <<>>]
Rule(id, condition, decision, actions) ==
    [id |-> id, enabled |-> TRUE, condition |-> condition, group |-> NoGroup, decision |-> decision,
     actions |-> actions, score |-> 1, reason |-> "not matched"]
Score(condition, metric, weight, reason) ==
    [condition |-> condition, metric |-> metric, weight |-> weight, reason |-> reason,
     lower |-> FALSE, min |-> 0, max |-> 0]

IsActive == Rule(1, StatusIs1, "route", <<"queue">>)
IsCalled == Rule(2, Called, "call", <<>>)
OffRule == [Rule(3, Good, "off", <<"stop", "warn">>) EXCEPT !.enabled = FALSE]
Grouped(mode, first, second) ==
    [Rule(4, None, "", <<"check">>)
       EXCEPT !.group = [mode |-> mode, rules |-> <<[Rule(5, first, "first", <<"one">>) EXCEPT !.reason = "no first"],
                                                    Rule(6, second, "", <<"two">>)>>]]
ByQuality == [Score(None, "quality", 2, "quality") EXCEPT !.max = 4]
ByCost == [Score(Good, "cost", 1, "cost") EXCEPT !.lower = TRUE]

Compiled(strict, explain, rules, scores) ==
    [strict |-> strict, explain |-> explain, rules |-> rules, scores |-> scores]

MCRankers ==
    {Compiled(FALSE, TRUE, <<>>, <<ByQuality, ByCost>>),
     Compiled(FALSE, TRUE, <<IsActive, Grouped("any", Good, Either)>>, <<ByQuality>>),
     Compiled(TRUE, TRUE, <<IsActive>>, <<ByCost, ByQuality>>),
     Compiled(FALSE, TRUE, <<IsCalled, OffRule, Grouped("any", StatusIs1, Good)>>, <<ByCost>>),
     Compiled(TRUE, FALSE, <<Grouped("all", StatusIs1, Called)>>, <<ByQuality>>),
     Compiled(FALSE, FALSE, <<OffRule, Grouped("none", Good, Called)>>, <<>>)}
=============================================================================
