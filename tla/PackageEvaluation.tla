------------------------- MODULE PackageEvaluation -------------------------
(* Whole decision packages through DecisionOrchestrator.Simulate and           *)
(* RunDecisionPackageTests: compiled, and with every case evaluated, policy    *)
(* after policy, rule set after rule set, workflow, rankings, optimizations.    *)
(* The effect, the decision and Allowed go as in DecisionPipeline, whose        *)
(* choices the package makes here; score, matched rules, actions, winner and    *)
(* explanation are added.                                                      *)
(*                                                                             *)
(* Scores and the points of a candidate count halves. A rule of a ranking is    *)
(* active and has no group, and no optimization selects by weight.              *)
EXTENDS DecisionPipeline, DecisionPackages, FiniteSets

CONSTANTS
    Simulations, \* [packages: the candidate, then the baseline if any; cases: requests]
    TestRuns     \* [package; candidates: of every test]

\* Every list of rules of a package.
RuleLists(pkg) ==
    {pkg.ruleSets[i].rules : i \in DOMAIN pkg.ruleSets} \cup {pkg.rankings[i].rules : i \in DOMAIN pkg.rankings}
    \cup UNION {{pkg.workflows[i].stages[j].rules : j \in DOMAIN pkg.workflows[i].stages} : i \in DOMAIN pkg.workflows}

\* Every rule of a schema, one level down too, with its path.
RulesOf(schema) ==
    LET top == {[path |-> p, rule |-> schema.rules[p]] : p \in DOMAIN schema.rules}
               \cup {[path |-> p, rule |-> schema.properties[p]] : p \in DOMAIN schema.properties}
    IN  top \cup UNION {{[path |-> Append(t.path, c), rule |-> t.rule.properties[c]] :
                            c \in DOMAIN t.rule.properties} : t \in top}

Ordered(s) == s \in Seq({s[i] : i \in DOMAIN s})

\* What can be measured of a value is a whole number.
MeasuredWhole(v) ==
    /\ Numeric(v) => v.n \in Int
    /\ Textual(v) => TextOf(v) \in Int
    /\ v.kind = "list" => Ordered(v.items)

\* "odd" stands for every mode and direction that the code does not know.
PackageAssumed(pkg) ==
    /\ Ordered(pkg.tests)
    /\ \A rules \in RuleLists(pkg) : \A i \in DOMAIN rules :
          rules[i].group.mode \in {"absent", "", "all", "any", "none", "odd"}
    /\ \A i \in DOMAIN pkg.rankings : \A j \in DOMAIN pkg.rankings[i].scoreRules :
          pkg.rankings[i].scoreRules[j].direction \in {"", "higher", "lower", "odd"}
    /\ \A name \in DOMAIN pkg.schemas : \A r \in RulesOf(pkg.schemas[name]) :
          /\ DOMAIN r.rule.limits \subseteq {"min", "max", "minLength", "maxLength", "minItems", "maxItems"}
          /\ \A limit \in DOMAIN r.rule.limits : r.rule.limits[limit] \in Int

FactsAssumed(pkg, req) ==
    \A name \in DOMAIN pkg.schemas : \A r \in RulesOf(pkg.schemas[name]) :
        MeasuredWhole(lookupPath(req.facts, r.path))

ASSUME JobsAssumption ==
    /\ \A s \in Simulations :
          /\ Ordered(s.packages) /\ s.packages # <<>> /\ Ordered(s.cases)
          /\ \A i \in DOMAIN s.packages :
                PackageAssumed(s.packages[i]) /\ \A c \in DOMAIN s.cases : FactsAssumed(s.packages[i], s.cases[c])
    /\ \A t \in TestRuns : PackageAssumed(t.package)

VARIABLES
    phase,    \* "idle", "between", "evaluating", "invalid", "refused", "failed", "done"
    job,      \* what runs: its kind, packages and cases
    case,     \* the number of the case
    place,    \* where Evaluate is in the parts of the package
    answer,   \* the fields of the response that DecisionPipeline has not
    answers,  \* the responses to the case so far
    results,  \* what was found of each case
    tally     \* Passed and Failed of a test run

callVars == <<phase, job, case, place, answer, answers, results, tally>>
packageVars == <<callVars, vars>>

NoAnswer == [score |-> 0, ids |-> <<>>, actions |-> <<>>, deltas |-> <<>>, rank |-> <<>>, reasons |-> <<>>]
Start == [policy |-> 0, rule |-> 1, ruleSet |-> 1, ranking |-> 1, optimization |-> 1]
NoTally == [passed |-> TRUE, failed |-> 0]
NoJob == [kind |-> "none"]

-----------------------------------------------------------------------------
\* The package and the request under evaluation.

Package == job.packages[Len(answers) + 1]
Request == job.cases[case]

\* Policies, rankings and explanations see variables, which hide facts; the engine does not.
Variables == requestVars(Package, Request) \o <<Request.facts.at>>
FactsOnly == <<Request.facts.at>>

\* The parts of a package that a decision asks for.
Asked(parts, wanted, Names(_)) == SelectSeq(parts, LAMBDA p : decisionMatches(wanted, Names(p)))
NameAndDecision(p) == {p.name, p.decision}
NameAndNamespace(rs) == {rs.name, rs.namespace}

\* In the order of the names, each as compiled.
InOrder(compiled) ==
    LET names == Seqs!SetToSortSeq(DOMAIN compiled, LAMBDA a, b : a < b)
    IN  [i \in DOMAIN names |-> compiled[names[i]]]

PoliciesFor(pkg, wanted) == Asked(pkg.policies, wanted, NameAndDecision)
RuleSetsFor(pkg, wanted) == Asked(pkg.ruleSets, wanted, NameAndNamespace)
RankingsFor(pkg, wanted) == Asked(InOrder(CompiledRankings(pkg)), wanted, LAMBDA r : {RankingName(r), r.decision})
OptimizationsFor(pkg, wanted) == Asked(InOrder(CompiledOptimizations(pkg)), wanted, NameAndDecision)

Policies == PoliciesFor(Package, Request.decision)
RuleSets == RuleSetsFor(Package, Request.decision)
Rankings == RankingsFor(Package, Request.decision)
Optimizations == OptimizationsFor(Package, Request.decision)

-----------------------------------------------------------------------------
\* The engine, on one list of rules.

groupVerdict(group, maps) ==
    LET verdicts == [i \in DOMAIN group.rules |->
                        IF group.rules[i].active THEN Verdict(group.rules[i].condition, maps) ELSE "no"]
        said == {verdicts[i] : i \in DOMAIN verdicts}
        end == Seqs!SelectInSeq(verdicts, LAMBDA v : v # "yes")
    IN  CASE group.mode = "absent" -> "yes"
          [] group.mode \in {"", "all"} -> IF end = 0 THEN "yes" ELSE verdicts[end]
          [] "error" \in said -> "error"
          [] OTHER -> Said(("yes" \in said) = (group.mode = "any"))

\* The group is looked at whatever the condition says, unless that fails.
evalRule(r, maps) ==
    LET own == Verdict(r.condition, maps)
        group == groupVerdict(r.group, maps)
    IN  CASE ~r.active -> "no"
          [] own = "error" -> "error"
          [] OTHER -> IF group = "yes" THEN own ELSE group

NoResult == [list |-> "open", next |-> 0, ids |-> <<>>, score |-> 0, decision |-> Empty, actions |-> <<>>]

Members(ids) == {ids[i] : i \in DOMAIN ids}

\* A rule decides it, in letters of any case, or has an action of that type.
ruleSays(r, said) ==
    \/ r.decision # Empty /\ r.decision.effect = said /\ r.decision.spelling \in {"plain", "folded"}
    \/ said \in Members(r.actions)

\* FirstMatch does not stop: AddRuleSet turns it into AllMatches.
shouldStopForMode(mode, r) ==
    \/ mode = "HighestPriority"
    \/ mode = "DenyOverrides" /\ ruleSays(r, "deny")
    \/ mode = "AllowOverrides" /\ ruleSays(r, "allow")

applyMatchedRule(res, r, mode) ==
    [list     |-> IF r.stop \/ r.next # 0 \/ shouldStopForMode(mode, r) THEN "closed" ELSE "open",
     next     |-> r.next,
     ids      |-> Append(res.ids, r.id),
     score    |-> res.score + r.score,
     decision |-> IF r.decision = Empty THEN res.decision ELSE r.decision,
     actions  |-> res.actions \o r.actions]

evalRules(rules, mode, maps) ==
    LET step(res, r) ==
            CASE res.list # "open" -> res
              [] evalRule(r, maps) = "no" -> res
              [] evalRule(r, maps) = "error" -> [res EXCEPT !.list = "failed"]
              [] OTHER -> applyMatchedRule(res, r, mode)
    IN  Seqs!FoldLeft(step, NoResult, rules)

mergeResults(a, b) ==
    [list     |-> b.list,
     next     |-> b.next,
     ids      |-> a.ids \o b.ids,
     score    |-> a.score + b.score,
     decision |-> IF b.decision = Empty THEN a.decision ELSE b.decision,
     actions  |-> a.actions \o b.actions]

\* One more stage of a workflow: an error if there is no such stage, or it comes again.
EnterStage(walk, stages, maps) ==
    IF walk.stage = 0 \/ walk.result.list = "failed" THEN walk
    ELSE IF walk.stage \in walk.seen \/ walk.stage \notin DOMAIN stages
    THEN [stage |-> 0, seen |-> walk.seen, result |-> [walk.result EXCEPT !.list = "failed"]]
    ELSE LET res == evalRules(stages[walk.stage].rules, "AllMatches", maps)
         IN  [stage |-> res.next, seen |-> walk.seen \cup {walk.stage}, result |-> mergeResults(walk.result, res)]

evalWorkflow(wf, maps) ==
    LET stages == ByName(wf.stages, NameOf)
        ends == Len(wf.stages) + 1
        walk[n \in 0..ends] ==
            IF n = 0 THEN [stage |-> wf.start, seen |-> {}, result |-> NoResult]
                     ELSE EnterStage(walk[n - 1], stages, maps)
    IN  walk[ends].result

Delta(part, r) == IF r.score = 0 THEN <<>> ELSE <<[part |-> part, rule |-> r.id, delta |-> r.score]>>

\* A slip: a rule is explained by its condition alone.
explainRuleSet_ByCondition(rs, res, maps) ==
    LET explained(r) == r.condition # "" /\ Verdict(r.condition, maps) = "yes"
    IN  Seqs!FlattenSeq([i \in DOMAIN rs.rules |-> IF explained(rs.rules[i]) THEN Delta("ruleset", rs.rules[i]) ELSE <<>>])

\* Explained are the rules that matched, and those whose condition holds of facts and variables.
explainRuleSet(rs, res, maps) ==
    LET matched == {res.ids[i] : i \in DOMAIN res.ids}
        explained(r) == r.id \in matched \/ (r.condition # "" /\ Verdict(r.condition, maps) = "yes")
    IN  Seqs!FlattenSeq([i \in DOMAIN rs.rules |-> IF explained(rs.rules[i]) THEN Delta("ruleset", rs.rules[i]) ELSE <<>>])

AddResult(res, deltas) ==
    [answer EXCEPT !.score = @ + res.score, !.ids = @ \o res.ids, !.actions = @ \o res.actions, !.deltas = @ \o deltas]

-----------------------------------------------------------------------------
\* The ranker, of which Ranker says more.

Better(a, b) == a.score > b.score \/ (a.score = b.score /\ a.id < b.id)

Rank(rules, scoreRules, candidates, maps) ==
    LET unmet == Seqs!SelectInSeq(rules, LAMBDA r : Verdict(r.condition, maps) # "yes")
        applying == SelectSeq(scoreRules, LAMBDA s : Verdict(s.condition, maps) = "yes" /\ s.metric = "points")
        share(s, c) == (IF s.weight = 0 THEN 1 ELSE s.weight) * (IF s.direction = "lower" THEN -c.points ELSE c.points)
        total(c) == SumOf([i \in DOMAIN rules |-> rules[i].score]) + SumOf([i \in DOMAIN applying |-> share(applying[i], c)])
        scored == {[id |-> candidates[i].id, score |-> total(candidates[i])] : i \in DOMAIN candidates}
    IN  CASE unmet # 0 -> [error |-> Verdict(rules[unmet].condition, maps) = "error", winner |-> <<>>]
          [] \E i \in DOMAIN scoreRules : Verdict(scoreRules[i].condition, maps) = "error" -> [error |-> TRUE, winner |-> <<>>]
          [] OTHER -> [error |-> FALSE, winner |-> <<CHOOSE w \in scored : \A o \in scored \ {w} : Better(w, o)>>]

Candidates == resolveRequestCandidates(Package, Request)
RankingResult(r) == Rank(r.rules, r.scoreRules, Candidates, Variables)

\* The ranker of the ranking it names, if that is there, or its own.
OptimizationResult(opt) ==
    LET rankings == CompiledRankings(Package)
    IN  IF opt.ranking \in DOMAIN rankings \ {0} THEN RankingResult(rankings[opt.ranking])
        ELSE Rank(opt.constraints, opt.preferences, Candidates, Variables)

Reason(part, name, winner) == [part |-> part, name |-> name, winner |-> winner[1].id, score |-> winner[1].score]

-----------------------------------------------------------------------------
\* Both begin by compiling what they are given; only the tests are validated first.

ResetPipeline ==
    /\ stage' = "policies" /\ matchedAny' = FALSE
    /\ policyEffect' = "abstain" /\ effect' = "abstain" /\ decision' = Plain("abstain")
    /\ allowed' = FALSE /\ merged' = {} /\ count' = 0

PackageInit ==
    /\ Init
    /\ phase = "idle" /\ job = NoJob /\ case = 1 /\ tally = NoTally
    /\ place = Start /\ answer = NoAnswer /\ answers = <<>> /\ results = <<>>

Begin(newJob, newPhase) ==
    /\ job' = newJob /\ phase' = newPhase
    /\ UNCHANGED <<case, place, answer, answers, results, tally, vars>>

Simulate(s) ==
    Begin([kind |-> "simulate", packages |-> s.packages, cases |-> s.cases],
          IF \A i \in DOMAIN s.packages : Compiles(s.packages[i]) THEN "between" ELSE "refused")

TestRequest(t, candidates) ==
    [decision |-> t.decision, facts |-> t.context, variableMap |-> t.variables,
     variables |-> <<>>, candidates |-> candidates]

RunDecisionPackageTests(t) ==
    LET tests == t.package.tests
    IN  Begin([kind |-> "tests", packages |-> <<t.package>>,
               cases |-> [i \in DOMAIN tests |-> TestRequest(tests[i], t.candidates)]],
              IF ~Validates(t.package) THEN "invalid"
              ELSE IF Compiles(t.package) THEN "between" ELSE "refused")

-----------------------------------------------------------------------------
\* The parts of Evaluate. A slip, and how a run of tests counts.

Evaluating == phase = "evaluating"
At(changed) == place' = [place EXCEPT ![changed] = @ + 1]
Keeping == UNCHANGED <<phase, job, case, answers, results, tally>>

BeginPolicy ==
    /\ Evaluating /\ place.policy < Len(Policies)
    /\ StartPolicy
    /\ place' = [place EXCEPT !.policy = @ + 1, !.rule = 1]
    /\ UNCHANGED answer /\ Keeping

Rules == Policies[place.policy].rules
RuleSays(verdict) ==
    /\ Evaluating /\ stage = "rules" /\ place.rule <= Len(Rules)
    /\ Verdict(Rules[place.rule].condition, Variables) = verdict

PassRule == RuleSays("no") /\ At("rule") /\ UNCHANGED <<answer, vars>> /\ Keeping

TakeRule ==
    /\ RuleSays("yes")
    /\ LET r == Rules[place.rule]
       IN  /\ MatchRule(r.effect, r.stop)
           /\ answer' = [answer EXCEPT !.score = @ + r.score, !.actions = @ \o r.actions,
                                       !.deltas = @ \o Delta("policy", r)]
    /\ At("rule") /\ Keeping

LeavePolicy ==
    /\ Evaluating /\ stage = "rules" /\ place.rule > Len(Rules)
    /\ EndPolicy(Policies[place.policy].default)
    /\ UNCHANGED <<answer, place>> /\ Keeping

LeavePolicies ==
    /\ Evaluating /\ place.policy = Len(Policies)
    /\ EndPolicies
    /\ UNCHANGED <<answer, place>> /\ Keeping

\* The engine knows rule sets by name. One that decides nothing changes no effect.
RuleSet == RuleSets[place.ruleSet]
RuleSetResult == LET rs == ByName(Package.ruleSets, NameOf)[RuleSet.name] IN evalRules(rs.rules, rs.mode, FactsOnly)
AtRuleSet == Evaluating /\ stage = "rulesets" /\ place.ruleSet <= Len(RuleSets)

TakeRuleSet ==
    /\ AtRuleSet
    /\ \E res \in {RuleSetResult} :
          /\ res.list # "failed"
          /\ IF res.decision = Empty THEN UNCHANGED vars ELSE RuleSetDecides(res.decision)
          /\ answer' = AddResult(res, explainRuleSet(RuleSet, res, Variables))
    /\ At("ruleSet") /\ Keeping

AtWorkflow == Evaluating /\ stage = "rulesets" /\ place.ruleSet > Len(RuleSets)
Workflow == Package.workflows[1]
WorkflowResult ==
    IF Package.workflows = <<>> THEN NoResult ELSE evalWorkflow(Workflow, FactsOnly)

TakeWorkflow ==
    /\ AtWorkflow
    /\ \E res \in {WorkflowResult} :
          /\ res.list # "failed"
          /\ IF res.decision = Empty THEN NoWorkflow ELSE WorkflowDecides(res.decision)
          /\ answer' = AddResult(res, <<>>)
    /\ UNCHANGED place /\ Keeping

\* All rankings are given the same candidates; without any none is made.
AtRanking == Evaluating /\ stage = "rankings" /\ Candidates # <<>> /\ place.ranking <= Len(Rankings)

TakeRanking ==
    /\ AtRanking
    /\ LET r == Rankings[place.ranking] IN \E res \in {RankingResult(r)} :
          /\ ~res.error
          /\ answer' = IF res.winner = <<>> THEN answer ELSE
                [answer EXCEPT !.rank = res.winner, !.score = @ + res.winner[1].score,
                               !.actions = @ \o Seqs!FlattenSeq([i \in DOMAIN r.rules |-> r.rules[i].actions]),
                               !.reasons = Append(@, Reason("ranking", RankingName(r), res.winner))]
    /\ At("ranking") /\ UNCHANGED vars /\ Keeping

AtOptimization ==
    /\ Evaluating /\ stage = "rankings" /\ Candidates # <<>>
    /\ place.ranking > Len(Rankings) /\ place.optimization <= Len(Optimizations)

TakeOptimization ==
    /\ AtOptimization
    /\ LET opt == Optimizations[place.optimization] IN \E res \in {OptimizationResult(opt)} :
          /\ ~res.error
          /\ answer' = IF res.winner = <<>> THEN answer ELSE
                [answer EXCEPT !.reasons = Append(@, Reason("optimization", opt.name, res.winner))]
    /\ At("optimization") /\ UNCHANGED vars /\ Keeping

Conclude ==
    /\ Evaluating /\ stage = "rankings"
    /\ Candidates = <<>> \/ (place.ranking > Len(Rankings) /\ place.optimization > Len(Optimizations))
    /\ Finish
    /\ UNCHANGED <<answer, place>> /\ Keeping

PartFails ==
    /\ \/ RuleSays("error")
       \/ AtRuleSet /\ RuleSetResult.list = "failed"
       \/ AtWorkflow /\ WorkflowResult.list = "failed"
       \/ AtRanking /\ RankingResult(Rankings[place.ranking]).error
       \/ AtOptimization /\ OptimizationResult(Optimizations[place.optimization]).error
    /\ Fail
    /\ UNCHANGED <<answer, place>> /\ Keeping

-----------------------------------------------------------------------------
\* What becomes of a response.

Reply == [effect |-> effect, decision |-> decision, allowed |-> allowed, rank |-> answer.rank,
          score |-> answer.score, ids |-> answer.ids, actions |-> answer.actions,
          deltas |-> answer.deltas, reasons |-> answer.reasons]

WinnerOf(res) == IF res.rank = <<>> THEN NoWinner ELSE res.rank[1].id

\* A slip: the effect is taken for changed when the decision is.
diffDecision_ByDecision(a, b) ==
    [decision |-> a.decision # b.decision, effect |-> a.decision # b.decision,
     score |-> a.score # b.score, actions |-> a.actions # b.actions, rank |-> WinnerOf(a) # WinnerOf(b),
     ids |-> Members(a.ids) # Members(b.ids)]

diffDecision(a, b) ==
    [decision |-> a.decision # b.decision, effect |-> a.effect # b.effect,
     score |-> a.score # b.score, actions |-> a.actions # b.actions, rank |-> WinnerOf(a) # WinnerOf(b),
     ids |-> Members(a.ids) # Members(b.ids)]

\* Whole numbers are compared as float64; other number types are never equal to the score.
compareNumber(want, Holds(_)) == want.kind \in {"int", "float"} /\ Holds(want.n)

\* What is not listed here is not compared; of actions and rules some have to be there.
decisionResponseMatches(expect, res) ==
    \A e \in expect :
        CASE e.key = "decision"  -> e.want = res.decision
          [] e.key = "effect"    -> e.want = Plain(res.effect)
          [] e.key = "allowed"   -> e.want = res.allowed
          [] e.key = "score"     -> compareNumber(e.want, LAMBDA n : res.score = n)
          [] e.key = "score_gte" -> compareNumber(e.want, LAMBDA n : res.score >= n)
          [] e.key = "score_lte" -> compareNumber(e.want, LAMBDA n : res.score <= n)
          [] e.key = "rank"      -> res.rank # <<>> /\ e.want = WinnerOf(res)
          [] e.key = "actions"   -> e.want \subseteq Members(res.actions)
          [] e.key = "matched_rule_ids" -> e.want \subseteq Members(res.ids)
          [] OTHER -> TRUE

\* A slip: the last test tells.
Tally_Last(ok) == [passed |-> ok, failed |-> tally.failed + (IF ok THEN 0 ELSE 1)]

Tally(ok) == IF ok THEN tally ELSE [passed |-> FALSE, failed |-> tally.failed + 1]

\* The case has come to its end with these responses.
EndCase(replies) ==
    /\ results' = Append(results, replies)
    /\ case' = case + 1 /\ answers' = <<>> /\ phase' = "between"
    /\ UNCHANGED job

\* The candidate has answered, and the baseline after it.
Answered ==
    /\ Evaluating /\ stage = "answered"
    /\ LET replies == Append(answers, Reply)
       IN  IF job.kind = "tests"
           THEN EndCase(replies) /\ tally' = Tally(decisionResponseMatches(Package.tests[case].expect, Reply))
           ELSE /\ UNCHANGED tally
                /\ IF Len(replies) = Len(job.packages) THEN EndCase(replies)
                   ELSE answers' = replies /\ phase' = "between" /\ UNCHANGED <<job, case, results>>
    /\ UNCHANGED <<place, answer, vars>>

\* An error ends a simulation; to a run of tests it is one that has not passed.
Errs ==
    IF job.kind = "tests" THEN EndCase(<<>>) /\ tally' = Tally(FALSE)
    ELSE phase' = "failed" /\ UNCHANGED <<job, case, answers, results, tally>>

EvaluationFails ==
    /\ Evaluating /\ stage = "failed"
    /\ Errs
    /\ UNCHANGED <<place, answer, vars>>

BeginEvaluation ==
    /\ phase = "between" /\ case <= Len(job.cases)
    /\ ResetPipeline
    /\ place' = Start /\ answer' = NoAnswer
    /\ IF validate(Package, Request) THEN phase' = "evaluating" /\ UNCHANGED <<job, case, answers, results, tally>>
                                     ELSE Errs

Done ==
    /\ phase = "between" /\ case > Len(job.cases)
    /\ phase' = "done"
    /\ UNCHANGED <<job, case, place, answer, answers, results, tally, vars>>

Ended == {"invalid", "refused", "failed", "done"}

\* The caller has what was returned, and asks for something else.
Return ==
    /\ phase \in Ended
    /\ phase' = "idle" /\ job' = NoJob /\ case' = 1 /\ tally' = NoTally
    /\ place' = Start /\ answer' = NoAnswer /\ answers' = <<>> /\ results' = <<>>
    /\ ResetPipeline

Call ==
    /\ phase = "idle"
    /\ \/ \E s \in Simulations : Simulate(s)
       \/ \E t \in TestRuns : RunDecisionPackageTests(t)

PackageNext ==
    \/ Call
    \/ BeginEvaluation
    \/ BeginPolicy \/ PassRule \/ TakeRule \/ LeavePolicy \/ LeavePolicies
    \/ TakeRuleSet \/ TakeWorkflow \/ TakeRanking \/ TakeOptimization
    \/ PartFails \/ Conclude \/ Answered \/ EvaluationFails
    \/ Done \/ Return

PackageSpec == PackageInit /\ [][PackageNext]_packageVars

-----------------------------------------------------------------------------
\* What ValidateDecisionPackage does not look at although compiling does.
Overlooked(pkg) ==
    LET ranking(opt) == opt.ranking \in DOMAIN CompiledRankings(pkg) \ {0}
    IN  \/ ~pkg.encodes
        \/ \E rules \in RuleLists(pkg) : \E i \in DOMAIN rules : rules[i].group.mode = "odd"
        \/ \E i \in DOMAIN pkg.workflows : \E j \in DOMAIN pkg.workflows[i].stages : pkg.workflows[i].stages[j].name = 0
        \/ \E i \in DOMAIN pkg.rankings : \E j \in DOMAIN pkg.rankings[i].scoreRules : pkg.rankings[i].scoreRules[j].direction = "odd"
        \/ \E i \in DOMAIN pkg.optimizations :
              LET opt == pkg.optimizations[i] IN ~ranking(opt) /\ ~NewRanker(opt.constraints, opt.preferences)

\* A package without validation errors compiles: RunDecisionPackageTests, and a
\* server that validates before it publishes, are not refused a package that
\* passed, but for what ValidateDecisionPackage leaves out (decision_validation.go:52).
ValidatedCompiles == phase = "refused" /\ job.kind = "tests" => Overlooked(job.packages[1])

\* What the deltas of policies and of these rules come to, and the scores of the winners.
Counts(d, ids) == d.part = "policy" \/ d.rule \in ids
Worths(deltas, ids) == [i \in DOMAIN deltas |-> IF Counts(deltas[i], ids) THEN deltas[i].delta ELSE 0]
Counted(deltas, ids) == SumOf(Worths(deltas, ids))
Wins(reasons) == [i \in DOMAIN reasons |-> IF reasons[i].part = "ranking" THEN reasons[i].score ELSE 0]

\* The score of a response is what its explanation accounts for: the deltas of
\* policies and of the rules that were applied, and the scores of the winners.
\* Only the rules of a workflow count without a trace, and rules that did not match
\* may be explained as if they had (explainRuleSet, decision_platform.go:753).
ScoreExplained ==
    phase = "evaluating" /\ stage = "answered" =>
        answer.score = Counted(answer.deltas, Members(answer.ids)) + SumOf(Wins(answer.reasons)) + WorkflowResult.score

\* A simulation that reports no change of a case has found no change of Allowed
\* either, which it does not compare (diffDecision, decision_platform.go:1405).
QuietDiffIsSame ==
    \A i \in DOMAIN results :
        Len(results[i]) = 2 =>
            LET diff == diffDecision(results[i][2], results[i][1])
            IN  (\A f \in DOMAIN diff : ~diff[f]) => results[i][1].allowed = results[i][2].allowed

\* A package with the parts that a decision asks for, what they use, and its schema.
Only(pkg, wanted) ==
    LET asked(p) == wanted \in {0, p.name, p.decision}
        opts == SelectSeq(pkg.optimizations, asked)
    IN  [pkg EXCEPT !.policies = SelectSeq(@, asked), !.optimizations = opts,
                    !.ruleSets = SelectSeq(@, LAMBDA rs : wanted \in {0, rs.name, rs.namespace}),
                    !.rankings = SelectSeq(@, LAMBDA r : asked(r) \/ \E i \in DOMAIN opts : opts[i].ranking = r.name),
                    !.schemas = [d \in DOMAIN @ \cap {wanted, DefaultSchema} |-> @[d]]]

\* What a request is answered does not depend on parts for other decisions: taking
\* them out of a valid package changes no answer and, as the package is simulated
\* against the rest of it and the rest against the package, makes none fail that
\* succeeds and none succeed that fails (decisionMatches, resolveRequestCandidates).
\* Of two optimizations with one name, which validation allows, only one counts.
OthersDoNotMatter ==
    \A i \in {1, 2} :
        /\ phase \in {"done", "failed"} /\ job.kind = "simulate"
        /\ Len(job.packages) = 2 /\ Len(job.cases) = 1
        /\ job.packages[3 - i] = Only(job.packages[i], job.cases[1].decision)
        /\ Validates(job.packages[i]) /\ Distinct(job.packages[i].optimizations, NameOf)
        => /\ phase = "failed" => answers = <<>>
           /\ phase = "done" => results[1][1] = results[1][2]

\* Of two rules, schemas, the first asks all that the second asks, or more.
AsksAlso(a, b) ==
    /\ b.required => a.required
    /\ b.type \in {"", a.type} \/ (b.type = "number" /\ a.type = "int")
    /\ b.enum # {} => a.enum # {} /\ a.enum \subseteq b.enum
    /\ \A limit \in DOMAIN b.limits :
          /\ limit \in DOMAIN a.limits
          /\ IF limit \in {"min", "minLength", "minItems"} THEN a.limits[limit] >= b.limits[limit]
                                                           ELSE a.limits[limit] <= b.limits[limit]

AsksAlsoOfParts(a, b) ==
    /\ AsksAlso(a, b)
    /\ \A child \in DOMAIN b.properties :
          child \in DOMAIN a.properties /\ AsksAlso(a.properties[child], b.properties[child])

RulesAt(schema, path) ==
    {schema.rules[p] : p \in DOMAIN schema.rules \cap {path}}
    \cup {schema.properties[p] : p \in DOMAIN schema.properties \cap {path}}

Stricter(a, b) ==
    /\ \A path \in b.required : path \in a.required \/ \E r \in RulesAt(a, path) : r.required
    /\ \A path \in DOMAIN b.types :
          \/ path \in DOMAIN a.types /\ a.types[path] = b.types[path]
          \/ \E r \in RulesAt(a, path) : r.type = b.types[path] /\ r.type # ""
    /\ \A path \in DOMAIN b.rules : \E r \in RulesAt(a, path) : AsksAlsoOfParts(r, b.rules[path])
    /\ \A path \in DOMAIN b.properties : \E r \in RulesAt(a, path) : AsksAlsoOfParts(r, b.properties[path])

\* A version whose schema asks more refuses all that one that asks less refuses: when
\* the candidate of a simulation has answered, a baseline with a schema that the
\* candidate's covers is not stopped by its own. No bound, type, enum or required fact
\* is passed over because of what stands beside it, or of where in the schema it
\* stands (CompiledDecisionPackage.validate, validateSchemaRule).
StricterRefusesMore ==
    [][phase = "between" /\ Len(answers) = 1 /\ phase' = "failed"
       => ~ Stricter(SchemaFor(job.packages[1].schemas, Request.decision),
                     SchemaFor(job.packages[2].schemas, Request.decision))]_packageVars

\* A run of tests that is reported as passed has an answer to every test, of which
\* every expectation that is known holds, and the failures are counted: an error in
\* one test, or one before the last, is never lost (RunDecisionPackageTests).
TestsTellTheTruth ==
    phase = "done" /\ job.kind = "tests" =>
        LET tests == job.packages[1].tests
            told == {i \in DOMAIN tests : results[i] # <<>> /\ decisionResponseMatches(tests[i].expect, results[i][1])}
        IN  /\ tally.passed <=> told = DOMAIN tests
            /\ tally.failed = Len(tests) - Cardinality(told)
=============================================================================
