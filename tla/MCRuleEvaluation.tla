-------------------------- MODULE MCRuleEvaluation --------------------------
(* Conditions of every form over two fields, rules that use them, and the rule *)
(* sets of up to three of those rules or of one or two workflows.              *)
EXTENDS RuleEvaluation, SequencesExt

OneAndAHalf == [kind |-> "float", n |-> 3]

MCFields == {"a", "b"}
MCFacts ==
    {[a |-> v, b |-> w] : v \in {Whole(1), Missing}, w \in {Whole(1), Missing}}
    \cup {[a |-> Whole(2), b |-> Whole(1)], [a |-> OneAndAHalf, b |-> Whole(1)]}

None == [op |-> "none"]
True == [op |-> "lit", value |-> TRUE]
A1 == [op |-> "==", field |-> "a", lit |-> Whole(1)]
B1 == [op |-> "==", field |-> "b", lit |-> Whole(1)]
AGt == [op |-> ">", field |-> "a", lit |-> Whole(1)]
AFloat == [op |-> ">=", field |-> "a", lit |-> OneAndAHalf]
AIn == [op |-> "in", field |-> "a", lits |-> {Whole(1), Whole(2)}]
BNot == [op |-> "!=", field |-> "b", lit |-> Whole(2)]
Both == [op |-> "&&", left |-> A1, right |-> B1]
Either == [op |-> "||", left |-> A1, right |-> B1]
NotA == [op |-> "!", arg |-> A1]
Wide == [op |-> "||", left |-> AGt, right |-> NotA]
Mixed == [op |-> "&&", left |-> Wide, right |-> AIn]
MCConditions == {None, True, A1, B1, AGt, AFloat, AIn, BNot, Both, Either, NotA, Wide, Mixed}

NoGroup == [mode |-> "absent", rules |-> <<>>]
Action(type) == [type |-> type, payload |-> <<>>]
Rule(id, priority, condition, decision, types) ==
    [id |-> id, priority |-> priority, salience |-> 0, enabled |-> TRUE, valid |-> TRUE,
     condition |-> condition, group |-> NoGroup, decision |-> decision,
     actions |-> [k \in DOMAIN types |-> Action(types[k])], stop |-> FALSE, next |-> ""]

AnyOf(c, d) == [mode |-> "any", rules |-> <<Rule(21, 1, c, "", <<"hook">>), Rule(22, 2, d, "", <<>>)>>]

Pool ==
    <<Rule(1, 3, A1, "allow", <<>>),
      Rule(2, 2, Both, "deny", <<>>),
      [Rule(3, 2, B1, "", <<"notify", "deny">>) EXCEPT !.salience = 1],
      Rule(4, 1, Mixed, "", <<"allow">>),
      Rule(5, 4, Either, "allow", <<>>),
      [Rule(6, 0, None, "review", <<"hook">>) EXCEPT !.actions[1].payload = <<"channel">>],
      Rule(7, 1, AFloat, "deny", <<>>),
      Rule(8, 5, BNot, "allow", <<"deny">>),
      [Rule(9, 4, True, "deny", <<>>) EXCEPT !.group = AnyOf(A1, B1)],
      [Rule(10, 3, Wide, "allow", <<"hook">>) EXCEPT !.stop = TRUE],
      [Rule(11, 6, None, "deny", <<>>) EXCEPT !.enabled = FALSE],
      [Rule(12, 6, None, "deny", <<>>) EXCEPT !.valid = FALSE]>>

\* Rules that may come in threes.
Mixture == {2, 3, 4, 5, 10}
Picks == {S \in SUBSET (DOMAIN Pool) : Cardinality(S) <= 2 \/ (Cardinality(S) = 3 /\ S \subseteq Mixture)}
\* The list of the rules of S.
Listed(S) == [k \in DOMAIN SetToSeq(S) |-> Pool[SetToSeq(S)[k]]]
NoWorkflows == <<>>
PlainSets ==
    {[mode |-> m, rules |-> Listed(S), workflows |-> NoWorkflows] : m \in Modes \ {"ScoreBased"}, S \in Picks}

StageRules ==
    {<<>>,
     <<[Rule(31, 1, A1, "deny", <<>>) EXCEPT !.next = "second"]>>,
     <<Rule(32, 1, True, "", <<"allow">>)>>,
     <<Rule(33, 1, True, "deny", <<>>), [Rule(34, 1, B1, "allow", <<>>) EXCEPT !.next = "second"]>>,
     <<Rule(35, 1, B1, "allow", <<>>), [Rule(36, 2, True, "", <<"hook">>) EXCEPT !.next = "first", !.stop = TRUE]>>,
     <<[Rule(37, 1, A1, "", <<"deny">>) EXCEPT !.next = "third"]>>}
Stage(stageRules) == [assign |-> stageRules = <<>>, rules |-> stageRules]
Workflow(first, second) ==
    [start |-> "first",
     stages |-> [s \in {"first", "second"} |-> IF s = "first" THEN Stage(first) ELSE Stage(second)]]
Flows == {Workflow(f, s) : f, s \in StageRules}
FlowSets ==
    {[mode |-> m, rules |-> <<>>, workflows |-> [w \in {"one"} |-> f]] :
        m \in {"AllMatches", "DenyOverrides", "AllowOverrides"}, f \in Flows}
    \cup {[mode |-> "AllMatches", rules |-> Listed({2}),
           workflows |-> [w \in {"one", "two"} |->
                            IF w = "one" THEN f ELSE Workflow(<<Pool[4]>>, <<>>)]] : f \in Flows}

MCRuleSets == PlainSets \cup FlowSets \cup {NoRuleSet}
MCReplacements == {NoRuleSet}
=============================================================================
