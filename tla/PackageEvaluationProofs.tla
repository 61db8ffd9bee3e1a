----------------------- MODULE PackageEvaluationProofs -----------------------
(* Proofs about PackageEvaluation: the effect of an answer and its Allowed, and *)
(* what simulations, runs of tests, validation and schemas promise, for any     *)
(* packages and requests. Nothing is assumed of what policies, rule sets and    *)
(* workflows say: effects and decisions may be anything. That scores are        *)
(* explained is proved of packages whose rules are told apart by their ids.     *)
EXTENDS TLAPS, WellFoundedInduction, FiniteSetTheorems, SequenceTheorems, PackageEvaluation

-----------------------------------------------------------------------------
\* Effects and their ranks, whatever they are.

LEMMA RanksOfAll ==
  ASSUME NEW e
  PROVE  /\ effectRank(e) \in {0, 100, 200, 300, 400, 500}
         /\ e = "allow" => effectRank(e) = 200
         /\ effectRank(e) >= 200 <=> e \in {"deny", "require_review", "escalate", "allow"}
  BY DEF effectRank

LEMMA ResolveStronger ==
  ASSUME NEW a, NEW b
  PROVE  /\ resolveEffect(a, b) \in {a, b}
         /\ effectRank(resolveEffect(a, b)) >= effectRank(a)
         /\ effectRank(resolveEffect(a, b)) >= effectRank(b)
<1>1. effectRank(a) \in Int /\ effectRank(b) \in Int
  BY RanksOfAll
<1> QED
  BY <1>1 DEF resolveEffect

\* The strongest of everything that was merged so far.
StrongestOfMerged(e) ==
  /\ e \in merged \cup {"abstain"}
  /\ \A m \in merged : effectRank(e) >= effectRank(m)

\* What Evaluate keeps in order while it goes through the parts of a package.
EffectsInOrder ==
  /\ stage \in {"policies", "rules"} => StrongestOfMerged(policyEffect)
  /\ stage \in {"rulesets", "rankings"} =>
        /\ StrongestOfMerged(effect)
        /\ policyEffect \in merged \cup {"abstain"}
        /\ effectRank(effect) >= effectRank(policyEffect)
        /\ allowed \in BOOLEAN
        /\ allowed => policyEffect = "allow"
        /\ EqualFoldAllow(decision) => effectRank(effect) >= 200
  /\ stage = "answered" => StrongestOfMerged(effect) /\ allowed = (effect = "allow")

\* Merging one effect more.
LEMMA MergeOne ==
  ASSUME NEW e, NEW next, NEW new, StrongestOfMerged(e), merged' = merged \cup {new},
         next = resolveEffect(e, new)
  PROVE  /\ next \in merged' \cup {"abstain"}
         /\ \A m \in merged' : effectRank(next) >= effectRank(m)
<1>1. \A x : effectRank(x) \in Int
  BY RanksOfAll
<1>2. next \in {e, new} /\ effectRank(next) >= effectRank(e) /\ effectRank(next) >= effectRank(new)
  BY ResolveStronger
<1>3. e \in merged \cup {"abstain"} /\ \A m \in merged : effectRank(e) >= effectRank(m)
  BY DEF StrongestOfMerged
<1>4. next \in merged' \cup {"abstain"}
  BY <1>2, <1>3
<1>5. ASSUME NEW m \in merged'
      PROVE  effectRank(next) >= effectRank(m)
  BY <1>1, <1>2, <1>3
<1> QED
  BY <1>4, <1>5

\* The steps of DecisionPipeline, with anything for what the parts of the package say.
PipelineStep ==
  \/ StartPolicy \/ EndPolicies \/ NoWorkflow \/ Finish \/ Fail
  \/ \E s, b : MatchRule(s, b)
  \/ \E s : EndPolicy(s) \/ RuleSetDecides(s) \/ WorkflowDecides(s)

LEMMA FinishKeepsOrder ==
  ASSUME EffectsInOrder, Finish
  PROVE  EffectsInOrder'
<1> DEFINE final == resolveEffect(effect, policyEffect)
<1>1. /\ StrongestOfMerged(effect) /\ policyEffect \in merged \cup {"abstain"}
      /\ effectRank(effect) >= effectRank(policyEffect)
      /\ allowed \in BOOLEAN /\ (allowed => policyEffect = "allow")
      /\ EqualFoldAllow(decision) => effectRank(effect) >= 200
  BY DEF Finish, EffectsInOrder
<1>2. /\ stage' = "answered" /\ effect' = final /\ merged' = merged
      /\ allowed' = AllowedBy(final, decision, allowed)
  BY DEF Finish
<1>3. final \in {effect, policyEffect} /\ effectRank(final) >= effectRank(effect)
      /\ effectRank(final) >= effectRank(policyEffect)
  BY ResolveStronger
<1>4. \A x : effectRank(x) \in Int
  BY RanksOfAll
<1> HIDE DEF final
<1>5. final \in merged \cup {"abstain"} /\ \A m \in merged : effectRank(final) >= effectRank(m)
  BY <1>1, <1>3, <1>4 DEF StrongestOfMerged
<1>6. allowed \/ EqualFoldAllow(decision) => effectRank(final) >= 200
  BY <1>1, <1>3, <1>4, RanksOfAll
<1>7. effectRank(final) >= 200 => final \in {"deny", "require_review", "escalate", "allow"}
  BY RanksOfAll
<1>8. EqualFoldAllow(decision) \in BOOLEAN
  BY DEF EqualFoldAllow
<1>9. AllowedBy(final, decision, allowed) = (final = "allow")
  BY <1>1, <1>6, <1>7, <1>8 DEF AllowedBy
<1> QED
  BY <1>2, <1>5, <1>9 DEF EffectsInOrder, StrongestOfMerged

LEMMA DecideKeepsOrder ==
  ASSUME EffectsInOrder, NEW s, stage = "rulesets", s # Empty, Decide(s),
         stage' \in {"rulesets", "rankings"}
  PROVE  EffectsInOrder'
<1> DEFINE e == normalizeEffect(s)
<1>1. /\ StrongestOfMerged(effect) /\ policyEffect \in merged \cup {"abstain"}
      /\ effectRank(effect) >= effectRank(policyEffect)
      /\ allowed \in BOOLEAN /\ (allowed => policyEffect = "allow")
  BY DEF EffectsInOrder
<1>2. /\ merged' = merged \cup {e} /\ decision' = s /\ effect' = resolveEffect(effect, e)
      /\ policyEffect' = policyEffect /\ allowed' = allowed
  BY DEF Decide, Contribute
<1>3. effect' \in merged' \cup {"abstain"} /\ \A m \in merged' : effectRank(effect') >= effectRank(m)
  BY <1>1, <1>2, MergeOne
<1>4. \A x : effectRank(x) \in Int
  BY RanksOfAll
<1>5. effectRank(effect') >= effectRank(effect) /\ effectRank(effect') >= effectRank(e)
  BY <1>2, ResolveStronger
<1>6. EqualFoldAllow(s) => e = "allow"
  BY DEF EqualFoldAllow, normalizeEffect
<1>7. EqualFoldAllow(decision') => effectRank(effect') >= 200
  BY <1>2, <1>4, <1>5, <1>6, RanksOfAll
<1>8. effectRank(effect') >= effectRank(policyEffect')
  BY <1>1, <1>2, <1>4, <1>5
<1> QED
  BY <1>1, <1>2, <1>3, <1>7, <1>8 DEF EffectsInOrder, StrongestOfMerged

LEMMA PolicyKeepsOrder ==
  ASSUME EffectsInOrder, NEW e, stage \in {"policies", "rules"}, stage' \in {"policies", "rules"},
         merged' = merged \cup {e}, policyEffect' = resolveEffect(policyEffect, e)
  PROVE  EffectsInOrder'
<1>1. StrongestOfMerged(policyEffect)
  BY DEF EffectsInOrder
<1>2. /\ policyEffect' \in merged' \cup {"abstain"}
      /\ \A m \in merged' : effectRank(policyEffect') >= effectRank(m)
  BY <1>1, MergeOne
<1> QED
  BY <1>2 DEF EffectsInOrder, StrongestOfMerged

\* Each step of the pipeline keeps them in order.
LEMMA PipelineKeepsOrder ==
  ASSUME EffectsInOrder, PipelineStep \/ UNCHANGED vars
  PROVE  EffectsInOrder'
<1>1. CASE UNCHANGED vars \/ StartPolicy \/ NoWorkflow \/ Fail
  <2>1. UNCHANGED <<policyEffect, effect, decision, allowed, merged>>
    BY <1>1 DEF vars, StartPolicy, NoWorkflow, Fail, response
  <2>2. \/ stage' = stage \/ stage' = "failed"
        \/ stage = "policies" /\ stage' = "rules"
        \/ stage = "rulesets" /\ stage' = "rankings"
    BY <1>1 DEF vars, StartPolicy, NoWorkflow, Fail
  <2> QED
    BY <2>1, <2>2 DEF EffectsInOrder, StrongestOfMerged
<1>2. ASSUME NEW s, NEW b, MatchRule(s, b)
      PROVE  EffectsInOrder'
  BY <1>2, PolicyKeepsOrder DEF MatchRule, Contribute
<1>3. ASSUME NEW s, EndPolicy(s)
      PROVE  EffectsInOrder'
  <2>1. stage = "rules" /\ stage' = "policies"
    BY <1>3 DEF EndPolicy
  <2>2. CASE UNCHANGED <<policyEffect, merged, count>>
    BY <2>1, <2>2 DEF EffectsInOrder, StrongestOfMerged
  <2>3. CASE Contribute(normalizeEffect(s))
             /\ policyEffect' = resolveEffect(policyEffect, normalizeEffect(s))
    BY <2>1, <2>3, PolicyKeepsOrder DEF Contribute
  <2> QED
    BY <1>3, <2>2, <2>3 DEF EndPolicy
<1>4. CASE EndPolicies
  <2>1. /\ StrongestOfMerged(policyEffect) /\ stage' = "rulesets" /\ effect' = policyEffect
        /\ decision' = Plain(policyEffect) /\ allowed' = (policyEffect = "allow")
        /\ policyEffect' = policyEffect /\ merged' = merged
    BY <1>4 DEF EndPolicies, EffectsInOrder
  <2>2. EqualFoldAllow(decision') => policyEffect = "allow"
    BY <2>1 DEF EqualFoldAllow, Plain
  <2>3. effectRank(effect') >= effectRank(policyEffect')
    BY <2>1, RanksOfAll
  <2>4. EqualFoldAllow(decision') => effectRank(effect') >= 200
    BY <2>1, <2>2, RanksOfAll
  <2> QED
    BY <2>1, <2>3, <2>4 DEF EffectsInOrder, StrongestOfMerged
<1>5. CASE Finish
  BY <1>5, FinishKeepsOrder
<1>6. ASSUME NEW s, RuleSetDecides(s) \/ WorkflowDecides(s)
      PROVE  EffectsInOrder'
  BY <1>6, DecideKeepsOrder DEF RuleSetDecides, WorkflowDecides
<1> QED
  BY <1>1, <1>2, <1>3, <1>4, <1>5, <1>6 DEF PipelineStep

-----------------------------------------------------------------------------
\* The inductive invariant.

SimulationJob(s) == [kind |-> "simulate", packages |-> s.packages, cases |-> s.cases]

TestJob(t) ==
  [kind |-> "tests", packages |-> <<t.package>>,
   cases |-> [i \in DOMAIN t.package.tests |-> TestRequest(t.package.tests[i], t.candidates)]]

\* What runs is what was asked for.
JobAsGiven ==
  /\ phase = "idle" => case = 1 /\ tally = NoTally /\ answers = <<>> /\ results = <<>>
  /\ phase # "idle" => \/ \E s \in Simulations : job = SimulationJob(s)
                       \/ \E t \in TestRuns : job = TestJob(t)

\* Some package has not answered to the case yet.
AnswersInOrder ==
  /\ Ordered(answers) /\ Ordered(results) /\ case \in Nat \ {0}
  /\ \A i \in DOMAIN results : Ordered(results[i])
  /\ phase \in {"between", "evaluating"} => Len(answers) < Len(job.packages)

Says(reply) == reply.allowed = (reply.effect = "allow")

\* Every response that is kept says of Allowed what its effect says.
RepliesSay ==
  /\ \A n \in DOMAIN answers : Says(answers[n])
  /\ \A i \in DOMAIN results : \A n \in DOMAIN results[i] : Says(results[i][n])

\* Only a request that the schema accepts is evaluated, by the package under way and
\* by those that have answered, and only a package that was validated is refused by a
\* run of tests.
Admitted ==
  /\ phase = "evaluating" => validate(Package, Request)
  /\ \A n \in DOMAIN answers : validate(job.packages[n], Request)
  /\ phase = "refused" /\ job.kind = "tests" =>
        Validates(job.packages[1]) /\ ~Compiles(job.packages[1])

\* The tests so far that have an answer as they expect.
Told ==
  {i \in DOMAIN results : /\ results[i] # <<>>
                          /\ decisionResponseMatches(job.packages[1].tests[i].expect, results[i][1])}

\* The tally is that of the tests so far, each of which has its place in the results.
Tallied ==
  job.kind = "tests" /\ phase \in {"between", "evaluating", "done"} =>
    /\ case = Len(results) + 1 /\ Len(results) <= Len(job.cases)
    /\ phase = "evaluating" => Len(results) < Len(job.cases)
    /\ phase = "done" => Len(results) = Len(job.cases)
    /\ tally.passed = (Told = DOMAIN results)
    /\ tally.failed = Len(results) - Cardinality(Told)

PackageInv ==
  EffectsInOrder /\ JobAsGiven /\ AnswersInOrder /\ RepliesSay /\ Admitted /\ Tallied

-----------------------------------------------------------------------------
\* Sequences of anything.

LEMMA OrderedFacts ==
  ASSUME NEW s, Ordered(s)
  PROVE  Len(s) \in Nat /\ DOMAIN s = 1..Len(s)
  BY LenProperties, Zenon DEF Ordered

LEMMA OneMore ==
  ASSUME NEW s, Ordered(s), NEW e
  PROVE  /\ Ordered(Append(s, e)) /\ Append(s, e) # <<>> /\ Len(Append(s, e)) = Len(s) + 1
         /\ DOMAIN Append(s, e) = 1..(Len(s) + 1)
         /\ \A i \in DOMAIN s : Append(s, e)[i] = s[i]
         /\ Append(s, e)[Len(s) + 1] = e
<1> DEFINE S == {s[i] : i \in DOMAIN s} \cup {e}
           t == Append(s, e)
<1>1. Len(s) \in Nat /\ DOMAIN s = 1..Len(s)
  BY OrderedFacts
<1>2. s \in Seq(S) /\ e \in S
  <2>1. s \in Seq({s[i] : i \in DOMAIN s})
    BY DEF Ordered
  <2>2. s \in [1..Len(s) -> S]
    BY <1>1, <2>1
  <2> QED
    BY <1>1, <2>2
<1>3. /\ t \in Seq(S) /\ t # <<>> /\ Len(t) = Len(s) + 1
      /\ \A i \in 1..Len(s) : t[i] = s[i]
      /\ t[Len(s) + 1] = e
  <2> HIDE DEF S
  <2> QED BY <1>2, AppendProperties
<1>4. DOMAIN t = 1..(Len(s) + 1)
  BY <1>1, <1>3
<1>5. Ordered(t)
  <2> HIDE DEF t
  <2>1. t \in [1..(Len(s) + 1) -> {t[i] : i \in DOMAIN t}]
    BY <1>3, <1>4
  <2> QED
    BY <1>1, <2>1 DEF Ordered
<1> QED
  BY <1>1, <1>3, <1>4, <1>5

LEMMA NoneYet == Ordered(<<>>) /\ Len(<<>>) = 0 /\ DOMAIN <<>> = {}
<1>1. \A S : <<>> \in Seq(S)
  BY EmptySeq, Zenon
<1>2. Len(<<>>) = 0
  BY EmptySeq, Zenon
<1>3. DOMAIN <<>> = {}
  BY <1>1, <1>2, LenProperties
<1>4. Ordered(<<>>)
  <2> DEFINE S == {<<>>[i] : i \in DOMAIN <<>>}
  <2>1. <<>> \in Seq(S)
    <3> HIDE DEF S
    <3> QED BY <1>1
  <2> QED
    BY <2>1 DEF Ordered
<1> QED
  BY <1>2, <1>3, <1>4

-----------------------------------------------------------------------------
\* Jobs.

LEMMA SimulationFacts ==
  ASSUME NEW s \in Simulations
  PROVE  Len(s.packages) \in Nat \ {0} /\ DOMAIN s.packages = 1..Len(s.packages)
<1>1. Ordered(s.packages) /\ s.packages # <<>>
  BY JobsAssumption
<1>2. Len(s.packages) \in Nat /\ DOMAIN s.packages = 1..Len(s.packages)
  BY <1>1, OrderedFacts
<1>3. s.packages \in Seq({s.packages[i] : i \in DOMAIN s.packages})
  BY <1>1 DEF Ordered
<1>4. Len(s.packages) # 0
  BY <1>1, <1>3, EmptySeq, Zenon
<1> QED
  BY <1>2, <1>4

LEMMA TestJobFacts ==
  ASSUME NEW t \in TestRuns
  PROVE  /\ Len(TestJob(t).packages) = 1 /\ TestJob(t).packages[1] = t.package
         /\ Len(t.package.tests) \in Nat /\ DOMAIN t.package.tests = 1..Len(t.package.tests)
         /\ Len(TestJob(t).cases) = Len(t.package.tests)
         /\ TestJob(t).kind = "tests"
<1>1. Ordered(t.package.tests)
  BY JobsAssumption DEF PackageAssumed
<1>2. Len(t.package.tests) \in Nat /\ DOMAIN t.package.tests = 1..Len(t.package.tests)
  BY <1>1, OrderedFacts
<1> QED
  BY <1>2 DEF TestJob

-----------------------------------------------------------------------------
\* The steps of an evaluation, and the others.

\* A part of the package is looked at: nothing else happens to the call.
PartStep == Evaluating /\ Keeping /\ (PipelineStep \/ UNCHANGED vars)

LEMMA PartsArePipelineSteps ==
  ASSUME \/ BeginPolicy \/ PassRule \/ TakeRule \/ LeavePolicy \/ LeavePolicies
         \/ TakeRuleSet \/ TakeWorkflow \/ TakeRanking \/ TakeOptimization
         \/ PartFails \/ Conclude
  PROVE  PartStep
<1>1. CASE BeginPolicy
  BY <1>1 DEF BeginPolicy, PartStep, PipelineStep
<1>2. CASE PassRule
  BY <1>2 DEF PassRule, RuleSays, PartStep
<1>3. CASE TakeRule
  BY <1>3 DEF TakeRule, RuleSays, PartStep, PipelineStep
<1>4. CASE LeavePolicy
  BY <1>4 DEF LeavePolicy, PartStep, PipelineStep
<1>5. CASE LeavePolicies
  BY <1>5 DEF LeavePolicies, PartStep, PipelineStep
<1>6. CASE TakeRuleSet
  BY <1>6 DEF TakeRuleSet, AtRuleSet, PartStep, PipelineStep
<1>7. CASE TakeWorkflow
  BY <1>7 DEF TakeWorkflow, AtWorkflow, PartStep, PipelineStep
<1>8. CASE TakeRanking
  BY <1>8 DEF TakeRanking, AtRanking, PartStep
<1>9. CASE TakeOptimization
  BY <1>9 DEF TakeOptimization, AtOptimization, PartStep
<1>10. CASE PartFails
  BY <1>10 DEF PartFails, RuleSays, AtRuleSet, AtWorkflow, AtRanking, AtOptimization,
               PartStep, PipelineStep
<1>11. CASE Conclude
  BY <1>11 DEF Conclude, PartStep, PipelineStep
<1> QED
  BY <1>1, <1>2, <1>3, <1>4, <1>5, <1>6, <1>7, <1>8, <1>9, <1>10, <1>11

\* A part leaves the call as it is.
LEMMA PartKeeps ==
  ASSUME PackageInv, PartStep \/ UNCHANGED packageVars
  PROVE  PackageInv'
<1>1. UNCHANGED <<phase, job, case, answers, results, tally>>
  BY DEF PartStep, Keeping, packageVars, callVars
<1>2. EffectsInOrder'
  BY PipelineKeepsOrder DEF PackageInv, PartStep, packageVars
<1>3. JobAsGiven' /\ AnswersInOrder'
  BY <1>1 DEF PackageInv, JobAsGiven, AnswersInOrder
<1>4. RepliesSay'
  BY <1>1 DEF PackageInv, RepliesSay, Says
<1>5. Admitted'
  BY <1>1 DEF PackageInv, Admitted, Package, Request
<1>6. Told' = Told
  BY <1>1 DEF Told
<1>7. Tallied'
  BY <1>1, <1>6 DEF PackageInv, Tallied
<1> QED
  BY <1>2, <1>3, <1>4, <1>5, <1>7 DEF PackageInv

\* A new evaluation begins as the pipeline does.
LEMMA ResetInOrder ==
  ASSUME ResetPipeline
  PROVE  EffectsInOrder'
  BY DEF ResetPipeline, EffectsInOrder, StrongestOfMerged

-----------------------------------------------------------------------------
\* The invariant is kept.

LEMMA InitPackageInv == PackageInit => PackageInv
<1> SUFFICES ASSUME PackageInit
             PROVE  PackageInv
  OBVIOUS
<1>1. /\ phase = "idle" /\ job = NoJob /\ case = 1 /\ tally = NoTally
      /\ answers = <<>> /\ results = <<>>
  BY DEF PackageInit
<1>2. EffectsInOrder
  BY DEF PackageInit, Init, EffectsInOrder, StrongestOfMerged
<1>3. JobAsGiven /\ Admitted /\ Tallied
  BY <1>1, NoneYet DEF JobAsGiven, Admitted, Tallied
<1>4. AnswersInOrder
  BY <1>1, NoneYet DEF AnswersInOrder
<1>5. RepliesSay
  BY <1>1, NoneYet DEF RepliesSay
<1> QED
  BY <1>2, <1>3, <1>4, <1>5 DEF PackageInv

\* A call finds nothing of the one before.
LEMMA CallKeeps ==
  ASSUME PackageInv, Call
  PROVE  PackageInv'
<1>1. phase = "idle"
  BY DEF Call
<1>2. UNCHANGED <<case, answers, results, tally, vars>>
  BY DEF Call, Simulate, RunDecisionPackageTests, Begin
<1>3. case = 1 /\ tally = NoTally /\ answers = <<>> /\ results = <<>>
  BY <1>1 DEF PackageInv, JobAsGiven
<1>4. EffectsInOrder'
  BY <1>2, PipelineKeepsOrder DEF PackageInv
<1>5. RepliesSay'
  BY <1>2, <1>3, NoneYet DEF RepliesSay
<1>6. ASSUME NEW s \in Simulations, Simulate(s)
      PROVE  JobAsGiven' /\ AnswersInOrder' /\ Admitted' /\ Tallied'
  <2>1. job' = SimulationJob(s) /\ phase' \in {"between", "refused"}
    BY <1>6 DEF Simulate, Begin, SimulationJob
  <2>2. job'.kind = "simulate" /\ Len(job'.packages) \in Nat \ {0}
    BY <2>1, SimulationFacts DEF SimulationJob
  <2>3. AnswersInOrder'
    BY <1>2, <1>3, <2>2, NoneYet DEF AnswersInOrder
  <2> QED
    BY <1>2, <1>3, <2>1, <2>2, <2>3, NoneYet DEF JobAsGiven, Admitted, Tallied
<1>7. ASSUME NEW t \in TestRuns, RunDecisionPackageTests(t)
      PROVE  JobAsGiven' /\ AnswersInOrder' /\ Admitted' /\ Tallied'
  <2>1. /\ job' = TestJob(t) /\ phase' \in {"invalid", "between", "refused"}
        /\ phase' = "refused" => Validates(t.package) /\ ~Compiles(t.package)
    BY <1>7 DEF RunDecisionPackageTests, Begin, TestJob
  <2>2. /\ Len(job'.packages) = 1 /\ job'.packages[1] = t.package
        /\ Len(job'.cases) \in Nat
    BY <2>1, TestJobFacts
  <2>3. AnswersInOrder'
    BY <1>2, <1>3, <2>2, NoneYet DEF AnswersInOrder
  <2>4. results' = <<>> /\ Len(results') = 0 /\ DOMAIN results' = {}
    BY <1>2, <1>3, NoneYet
  <2>5. Told' = {} /\ Cardinality({}) = 0
    BY <2>4, FS_EmptySet DEF Told
  <2>6. tally'.passed = TRUE /\ tally'.failed = 0 /\ case' = 1
    BY <1>2, <1>3 DEF NoTally
  <2>7. /\ case' = Len(results') + 1 /\ Len(results') <= Len(job'.cases)
        /\ phase' \notin {"evaluating", "done"}
        /\ tally'.passed = (Told' = DOMAIN results')
        /\ tally'.failed = Len(results') - Cardinality(Told')
    <3>1. Told' = DOMAIN results' /\ Cardinality(Told') = 0
      BY <2>4, <2>5
    <3>2. tally'.passed = (Told' = DOMAIN results')
      BY <2>6, <3>1
    <3>3. phase' \notin {"evaluating", "done"}
      BY <2>1
    <3>4. tally'.failed = Len(results') - Cardinality(Told')
      BY <2>4, <2>6, <3>1
    <3> QED
      BY <2>2, <2>4, <2>6, <3>2, <3>3, <3>4
  <2>8. Tallied'
    BY <2>7 DEF Tallied
  <2> QED
    BY <1>2, <1>3, <2>1, <2>2, <2>3, <2>8, NoneYet DEF JobAsGiven, Admitted
<1> QED
  BY <1>4, <1>5, <1>6, <1>7 DEF PackageInv, Call

LEMMA JobFacts ==
  ASSUME PackageInv, phase # "idle"
  PROVE  /\ Len(job.packages) \in Nat \ {0}
         /\ job.kind = "tests" =>
              \E t \in TestRuns : job = TestJob(t) /\ Len(job.packages) = 1 /\ job.packages[1] = t.package
                                 /\ Len(job.cases) = Len(t.package.tests) /\ Len(job.cases) \in Nat
<1>1. CASE \E s \in Simulations : job = SimulationJob(s)
  BY <1>1, SimulationFacts DEF SimulationJob
<1>2. CASE \E t \in TestRuns : job = TestJob(t)
  BY <1>2, TestJobFacts
<1> QED
  BY <1>1, <1>2 DEF PackageInv, JobAsGiven

\* In a run of tests the package is the only one.
LEMMA TestPackage ==
  ASSUME PackageInv, phase \in {"between", "evaluating"}, job.kind = "tests"
  PROVE  Len(answers) = 0 /\ Package = job.packages[1]
<1>1. Len(job.packages) = 1
  BY JobFacts
<1>2. Len(answers) \in Nat /\ Len(answers) < 1
  BY <1>1, OrderedFacts DEF PackageInv, AnswersInOrder
<1> QED
  BY <1>2 DEF Package

\* A test that ends is counted.
LEMMA TallyOne ==
  ASSUME PackageInv, phase \in {"between", "evaluating"}, job.kind = "tests",
         Len(results) < Len(job.cases), NEW replies, EndCase(replies), NEW ok \in BOOLEAN, tally' = Tally(ok),
         ok = (/\ replies # <<>>
               /\ decisionResponseMatches(job.packages[1].tests[Len(results) + 1].expect, replies[1]))
  PROVE  Tallied'
<1> DEFINE n == Len(results)
           Good(i, r) == r # <<>> /\ decisionResponseMatches(job.packages[1].tests[i].expect, r[1])
<1>1. n \in Nat /\ DOMAIN results = 1..n /\ Ordered(results)
  BY OrderedFacts DEF PackageInv, AnswersInOrder
<1>2. /\ results' = Append(results, replies) /\ job' = job /\ case' = case + 1 /\ phase' = "between"
  BY DEF EndCase
<1>3. /\ Len(results') = n + 1 /\ DOMAIN results' = 1..(n + 1)
      /\ \A i \in 1..n : results'[i] = results[i]
      /\ results'[n + 1] = replies
  BY <1>1, <1>2, OneMore
<1>4. Told = {i \in 1..n : Good(i, results[i])}
  BY <1>1 DEF Told
<1>5. Told' = {i \in 1..(n + 1) : Good(i, results'[i])}
  BY <1>2, <1>3 DEF Told
<1>6. ok = Good(n + 1, replies)
  OBVIOUS
<1> HIDE DEF n, Good
<1>7. Told' = IF ok THEN Told \cup {n + 1} ELSE Told
  <2>1. n + 1 \notin 1..n /\ 1..(n + 1) = 1..n \cup {n + 1}
    BY <1>1
  <2>2. ASSUME NEW i \in 1..n
        PROVE  i \in Told' <=> i \in Told
    BY <1>3, <1>4, <1>5, <2>1, <2>2
  <2>3. n + 1 \in Told' <=> ok
    BY <1>3, <1>5, <1>6, <2>1
  <2>4. Told' \subseteq 1..n \cup {n + 1} /\ Told \subseteq 1..n
    BY <1>4, <1>5, <2>1
  <2>5. \A i : i \in Told' <=> i \in Told \/ (ok /\ i = n + 1)
    BY <2>1, <2>2, <2>3, <2>4
  <2>6. CASE ok
    <3>1. \A i : i \in Told' <=> i \in Told \cup {n + 1}
      BY <2>5, <2>6
    <3> QED
      BY <2>6, <3>1, Zenon
  <2>7. CASE ~ok
    BY <2>5, <2>7
  <2> QED
    BY <2>6, <2>7
<1>8. IsFiniteSet(Told) /\ Cardinality(Told) \in Nat
  <2>1. Told \subseteq 1..n
    BY <1>4
  <2>2. IsFiniteSet(1..n)
    BY <1>1, FS_Interval
  <2>3. IsFiniteSet(Told)
    BY <2>1, <2>2, FS_Subset
  <2> QED
    BY <2>3, FS_CardinalityType
<1>9. n + 1 \notin Told /\ Cardinality(Told \cup {n + 1}) = Cardinality(Told) + 1
  <2>1. n + 1 \notin Told
    BY <1>1, <1>4
  <2> QED
    BY <1>8, <2>1, FS_AddElement
<1>10. /\ case = n + 1 /\ tally.passed = (Told = DOMAIN results)
       /\ tally.failed = n - Cardinality(Told)
  BY DEF PackageInv, Tallied, n
<1>11. Len(job.cases) \in Nat /\ n + 1 <= Len(job.cases)
  BY <1>1, JobFacts DEF n
<1>12. CASE ok
  <2>1. tally' = tally /\ Told' = Told \cup {n + 1}
    BY <1>7, <1>12 DEF Tally
  <2>2. (Told' = DOMAIN results') <=> (Told = DOMAIN results)
    BY <1>1, <1>3, <1>4, <1>9, <2>1
  <2>3. tally'.passed = (Told' = DOMAIN results')
    BY <1>10, <2>1, <2>2
  <2>4. tally'.failed = Len(results') - Cardinality(Told')
    <3>1. tally'.failed = n - Cardinality(Told)
      BY <1>10, <2>1
    <3>2. Len(results') = n + 1 /\ Cardinality(Told') = Cardinality(Told) + 1
      BY <1>3, <1>9, <2>1
    <3>3. PICK c \in Nat : c = Cardinality(Told)
      BY <1>8
    <3>4. tally'.failed = n - c /\ Cardinality(Told') = c + 1
      BY <3>1, <3>2, <3>3
    <3>5. Len(results') - Cardinality(Told') = (n + 1) - (c + 1)
      BY <3>2, <3>4
    <3>6. \A a, b \in Nat : (a + 1) - (b + 1) = a - b
      OBVIOUS
    <3>7. (n + 1) - (c + 1) = n - c
      BY <1>1, <3>3, <3>6
    <3> QED
      BY <3>4, <3>5, <3>7, Zenon
  <2>5. case' = Len(results') + 1 /\ Len(results') <= Len(job'.cases)
    BY <1>1, <1>2, <1>3, <1>10, <1>11
  <2> QED
    BY <1>2, <2>3, <2>4, <2>5 DEF Tallied
<1>13. CASE ~ok
  <2>1. Told' = Told /\ tally'.passed = FALSE /\ tally'.failed = tally.failed + 1
    BY <1>7, <1>13 DEF Tally
  <2>2. Told' # DOMAIN results'
    BY <1>1, <1>3, <1>9, <2>1
  <2>3. tally'.passed = (Told' = DOMAIN results')
    BY <2>1, <2>2
  <2>4. tally'.failed = Len(results') - Cardinality(Told')
    <3>1. tally'.failed = (n - Cardinality(Told)) + 1
      BY <1>10, <2>1
    <3>2. Len(results') = n + 1 /\ Cardinality(Told') = Cardinality(Told)
      BY <1>3, <2>1
    <3>3. PICK c \in Nat : c = Cardinality(Told)
      BY <1>8
    <3>4. tally'.failed = (n - c) + 1 /\ Cardinality(Told') = c
      BY <3>1, <3>2, <3>3
    <3>5. Len(results') - Cardinality(Told') = (n + 1) - c
      BY <3>2, <3>4
    <3>6. \A a, b \in Nat : (a + 1) - b = (a - b) + 1
      OBVIOUS
    <3>7. (n + 1) - c = (n - c) + 1
      BY <1>1, <3>3, <3>6
    <3> QED
      BY <3>4, <3>5, <3>7, Zenon
  <2>5. case' = Len(results') + 1 /\ Len(results') <= Len(job'.cases)
    BY <1>1, <1>2, <1>3, <1>10, <1>11
  <2> QED
    BY <1>2, <2>3, <2>4, <2>5 DEF Tallied
<1> QED
  BY <1>12, <1>13

\* What else the end of a case does.
LEMMA EndCaseKeeps ==
  ASSUME PackageInv, phase \in {"between", "evaluating"}, NEW replies, EndCase(replies),
         Ordered(replies), \A n \in DOMAIN replies : Says(replies[n])
  PROVE  JobAsGiven' /\ AnswersInOrder' /\ RepliesSay' /\ Admitted'
<1>1. /\ results' = Append(results, replies) /\ job' = job /\ answers' = <<>> /\ phase' = "between"
      /\ case' = case + 1
  BY DEF EndCase
<1>2. JobAsGiven' /\ Admitted'
  BY <1>1, NoneYet DEF PackageInv, JobAsGiven, Admitted
<1>3. /\ DOMAIN results' = 1..(Len(results) + 1) /\ DOMAIN results = 1..Len(results) /\ Len(results) \in Nat
      /\ \A i \in DOMAIN results : results'[i] = results[i]
      /\ results'[Len(results) + 1] = replies /\ Ordered(results')
  BY <1>1, OneMore, OrderedFacts DEF PackageInv, AnswersInOrder
<1>4. ASSUME NEW i \in DOMAIN results'
      PROVE  i \in DOMAIN results \/ i = Len(results) + 1
  BY <1>3
<1>5. AnswersInOrder'
  <2>1. Ordered(answers') /\ Len(answers') = 0
    BY <1>1, NoneYet
  <2>2. \A i \in DOMAIN results' : Ordered(results'[i])
    BY <1>3, <1>4 DEF PackageInv, AnswersInOrder
  <2>3. Len(answers') < Len(job'.packages)
    BY <1>1, <2>1, JobFacts
  <2>4. case' \in Nat \ {0}
    BY <1>1 DEF PackageInv, AnswersInOrder
  <2>5. Ordered(results')
    BY <1>3
  <2> QED
    BY <2>1, <2>2, <2>3, <2>4, <2>5 DEF AnswersInOrder, Ordered
<1>6. RepliesSay'
  <2>1. \A i \in DOMAIN results' : \A n \in DOMAIN results'[i] : Says(results'[i][n])
    BY <1>3, <1>4 DEF PackageInv, RepliesSay
  <2> QED
    BY <1>1, <2>1, NoneYet DEF RepliesSay, Says
<1> QED
  BY <1>2, <1>5, <1>6

\* Every response says of Allowed what its effect says.
LEMMA ReplySays ==
  ASSUME EffectsInOrder, stage = "answered"
  PROVE  Says(Reply)
  BY DEF EffectsInOrder, Says, Reply

LEMMA AnsweredKeeps ==
  ASSUME PackageInv, Answered
  PROVE  PackageInv'
<1> DEFINE replies == Append(answers, Reply)
<1>1. phase = "evaluating" /\ stage = "answered" /\ UNCHANGED vars
  BY DEF Answered, Evaluating
<1>2. EffectsInOrder'
  BY <1>1, PipelineKeepsOrder DEF PackageInv
<1>3. /\ Ordered(answers) /\ Len(answers) \in Nat /\ DOMAIN answers = 1..Len(answers)
      /\ Len(answers) < Len(job.packages)
  BY <1>1, OrderedFacts DEF PackageInv, AnswersInOrder
<1>4. /\ Ordered(replies) /\ replies # <<>> /\ Len(replies) = Len(answers) + 1
      /\ DOMAIN replies = 1..(Len(answers) + 1)
      /\ \A i \in DOMAIN answers : replies[i] = answers[i]
      /\ replies[Len(answers) + 1] = Reply
  BY <1>3, OneMore
<1> HIDE DEF replies
<1>5. \A n \in DOMAIN replies : Says(replies[n])
  <2>1. ASSUME NEW n \in DOMAIN replies
        PROVE  n \in DOMAIN answers \/ n = Len(answers) + 1
    BY <1>3, <1>4
  <2> QED
    BY <1>1, <1>4, <2>1, ReplySays DEF PackageInv, RepliesSay
<1>6. CASE job.kind = "tests"
  <2> DEFINE ok == decisionResponseMatches(Package.tests[case].expect, Reply)
  <2>1. EndCase(replies) /\ tally' = Tally(ok)
    BY <1>6 DEF Answered, replies
  <2>2. Len(answers) = 0 /\ Package = job.packages[1]
    BY <1>1, <1>6, TestPackage
  <2>3. case = Len(results) + 1 /\ Len(results) < Len(job.cases)
    BY <1>1, <1>6 DEF PackageInv, Tallied
  <2>4. replies[1] = Reply
    BY <1>4, <2>2
  <2>5. ok = decisionResponseMatches(job.packages[1].tests[Len(results) + 1].expect, replies[1])
    BY <2>2, <2>3, <2>4
  <2>6. ok \in BOOLEAN
    BY DEF decisionResponseMatches
  <2> HIDE DEF ok
  <2>7. ok = (/\ replies # <<>>
              /\ decisionResponseMatches(job.packages[1].tests[Len(results) + 1].expect, replies[1]))
    BY <1>4, <2>5, <2>6
  <2>8. Tallied'
    BY <1>1, <1>6, <2>1, <2>3, <2>6, <2>7, TallyOne
  <2>9. JobAsGiven' /\ AnswersInOrder' /\ RepliesSay' /\ Admitted'
    BY <1>1, <1>4, <1>5, <2>1, EndCaseKeeps
  <2> QED
    BY <1>2, <2>8, <2>9 DEF PackageInv
<1>7. CASE job.kind # "tests" /\ EndCase(replies)
  <2>1. JobAsGiven' /\ AnswersInOrder' /\ RepliesSay' /\ Admitted'
    BY <1>1, <1>4, <1>5, <1>7, EndCaseKeeps
  <2>2. Tallied'
    BY <1>7 DEF EndCase, Tallied
  <2> QED
    BY <1>2, <2>1, <2>2 DEF PackageInv
<1>8. CASE /\ job.kind # "tests" /\ Len(replies) # Len(job.packages)
           /\ answers' = replies /\ phase' = "between" /\ UNCHANGED <<job, case, results>>
  <2>1. JobAsGiven' /\ Tallied'
    BY <1>1, <1>8 DEF PackageInv, JobAsGiven, Tallied
  <2>4. Admitted'
    <3>1. ASSUME NEW n \in DOMAIN replies
          PROVE  validate(job.packages[n], Request)
      <4>1. n \in DOMAIN answers \/ n = Len(answers) + 1
        BY <1>3, <1>4
      <4> QED
        BY <1>1, <4>1 DEF PackageInv, Admitted, Package
    <3> QED
      BY <1>8, <3>1 DEF Admitted, Request
  <2>2. AnswersInOrder'
    <3>1. Len(replies) < Len(job.packages)
      BY <1>1, <1>3, <1>4, <1>8, JobFacts
    <3> QED
      BY <1>4, <1>8, <3>1 DEF PackageInv, AnswersInOrder
  <2>3. RepliesSay'
    BY <1>5, <1>8 DEF PackageInv, RepliesSay, Says
  <2> QED
    BY <1>2, <2>1, <2>2, <2>3, <2>4 DEF PackageInv
<1> QED
  BY <1>6, <1>7, <1>8 DEF Answered, replies

\* A case that ends in an error has no answer.
LEMMA ErrsKeeps ==
  ASSUME PackageInv, EffectsInOrder', phase \in {"between", "evaluating"}, Errs,
         phase = "between" => case <= Len(job.cases)
  PROVE  PackageInv'
<1>1. CASE job.kind = "tests"
  <2>1. EndCase(<<>>) /\ tally' = Tally(FALSE)
    BY <1>1 DEF Errs
  <2>2. case = Len(results) + 1 /\ (phase = "evaluating" => Len(results) < Len(job.cases))
    BY <1>1 DEF PackageInv, Tallied
  <2>3. Len(results) \in Nat
    BY OrderedFacts DEF PackageInv, AnswersInOrder
  <2>4. Len(job.cases) \in Nat
    BY <1>1, JobFacts
  <2>5. Len(results) < Len(job.cases)
    BY <2>2, <2>3, <2>4
  <2>6. Tallied'
    BY <1>1, <2>1, <2>5, TallyOne, Zenon
  <2>7. JobAsGiven' /\ AnswersInOrder' /\ RepliesSay' /\ Admitted'
    BY <2>1, NoneYet, EndCaseKeeps
  <2> QED
    BY <2>6, <2>7 DEF PackageInv
<1>2. CASE job.kind # "tests"
  <2>1. phase' = "failed" /\ UNCHANGED <<job, case, answers, results, tally>>
    BY <1>2 DEF Errs
  <2>2. JobAsGiven' /\ AnswersInOrder' /\ Admitted' /\ Tallied'
    BY <2>1, <1>2 DEF PackageInv, JobAsGiven, AnswersInOrder, Admitted, Tallied, Request
  <2>3. RepliesSay'
    BY <2>1 DEF PackageInv, RepliesSay, Says
  <2> QED
    BY <2>2, <2>3 DEF PackageInv
<1> QED
  BY <1>1, <1>2

LEMMA EvaluationFailsKeeps ==
  ASSUME PackageInv, EvaluationFails
  PROVE  PackageInv'
<1>1. phase = "evaluating" /\ Errs /\ UNCHANGED vars
  BY DEF EvaluationFails, Evaluating
<1>2. EffectsInOrder'
  BY <1>1, PipelineKeepsOrder DEF PackageInv
<1> QED
  BY <1>1, <1>2, ErrsKeeps

LEMMA BeginEvaluationKeeps ==
  ASSUME PackageInv, BeginEvaluation
  PROVE  PackageInv'
<1>1. phase = "between" /\ case <= Len(job.cases) /\ ResetPipeline
  BY DEF BeginEvaluation
<1>2. EffectsInOrder'
  BY <1>1, ResetInOrder
<1>3. CASE /\ validate(Package, Request) /\ phase' = "evaluating"
           /\ UNCHANGED <<job, case, answers, results, tally>>
  <2>1. JobAsGiven' /\ AnswersInOrder'
    BY <1>1, <1>3 DEF PackageInv, JobAsGiven, AnswersInOrder
  <2>2. RepliesSay'
    BY <1>3 DEF PackageInv, RepliesSay, Says
  <2>3. Admitted'
    BY <1>3 DEF PackageInv, Admitted, Package, Request
  <2>4. Told' = Told
    BY <1>3 DEF Told
  <2>5. job.kind = "tests" => Len(results) < Len(job.cases)
    <3>1. Len(results) \in Nat
      BY OrderedFacts DEF PackageInv, AnswersInOrder
    <3> QED
      BY <1>1, <3>1, JobFacts DEF PackageInv, Tallied
  <2>6. Tallied'
    BY <1>1, <1>3, <2>4, <2>5 DEF PackageInv, Tallied
  <2> QED
    BY <1>2, <2>1, <2>2, <2>3, <2>6 DEF PackageInv
<1>4. CASE Errs
  BY <1>1, <1>2, <1>4, ErrsKeeps
<1> QED
  BY <1>3, <1>4 DEF BeginEvaluation

LEMMA DoneKeeps ==
  ASSUME PackageInv, Done
  PROVE  PackageInv'
<1>1. /\ phase = "between" /\ case > Len(job.cases) /\ phase' = "done"
      /\ UNCHANGED <<job, case, answers, results, tally, vars>>
  BY DEF Done
<1>2. EffectsInOrder'
  BY <1>1, PipelineKeepsOrder DEF PackageInv
<1>3. JobAsGiven' /\ AnswersInOrder' /\ Admitted'
  BY <1>1 DEF PackageInv, JobAsGiven, AnswersInOrder, Admitted, Request
<1>4. RepliesSay'
  BY <1>1 DEF PackageInv, RepliesSay, Says
<1>5. Told' = Told
  BY <1>1 DEF Told
<1>6. job.kind = "tests" => Len(results) = Len(job.cases)
  <2>1. Len(results) \in Nat
    BY OrderedFacts DEF PackageInv, AnswersInOrder
  <2> QED
    BY <1>1, <2>1, JobFacts DEF PackageInv, Tallied
<1>7. Tallied'
  BY <1>1, <1>5, <1>6 DEF PackageInv, Tallied
<1> QED
  BY <1>2, <1>3, <1>4, <1>7 DEF PackageInv

LEMMA ReturnKeeps ==
  ASSUME PackageInv, Return
  PROVE  PackageInv'
<1>1. /\ phase' = "idle" /\ case' = 1 /\ tally' = NoTally /\ answers' = <<>> /\ results' = <<>>
      /\ ResetPipeline
  BY DEF Return
<1>2. EffectsInOrder'
  BY <1>1, ResetInOrder
<1>3. JobAsGiven' /\ Admitted' /\ Tallied'
  BY <1>1, NoneYet DEF JobAsGiven, Admitted, Tallied, NoTally
<1>4. AnswersInOrder' /\ RepliesSay'
  BY <1>1, NoneYet DEF AnswersInOrder, RepliesSay
<1> QED
  BY <1>2, <1>3, <1>4 DEF PackageInv

LEMMA NextKeeps == PackageInv /\ [PackageNext]_packageVars => PackageInv'
<1> SUFFICES ASSUME PackageInv, [PackageNext]_packageVars
             PROVE  PackageInv'
  OBVIOUS
<1>1. CASE \/ BeginPolicy \/ PassRule \/ TakeRule \/ LeavePolicy \/ LeavePolicies
           \/ TakeRuleSet \/ TakeWorkflow \/ TakeRanking \/ TakeOptimization
           \/ PartFails \/ Conclude \/ UNCHANGED packageVars
  BY <1>1, PartsArePipelineSteps, PartKeeps
<1> QED
  BY <1>1, CallKeeps, BeginEvaluationKeeps, AnsweredKeeps, EvaluationFailsKeeps,
     DoneKeeps, ReturnKeeps DEF PackageNext

\* The invariant of whole packages, whatever they say.
THEOREM PackageInvariance == PackageSpec => []PackageInv
  BY InitPackageInv, NextKeeps, PTL DEF PackageSpec

-----------------------------------------------------------------------------
\* What the invariant says of what is returned.

\* The effect of an answer is the strongest that a policy, rule set or workflow of the
\* package contributed: in a whole package no part overrides a deny.
THEOREM StrongestEffectOfPackage == PackageSpec => []StrongestEffectWins
<1>1. PackageInv => StrongestEffectWins
  BY DEF PackageInv, EffectsInOrder, StrongestOfMerged, StrongestEffectWins
<1> QED
  BY PackageInvariance, <1>1, PTL

\* Allowed of an answer to a whole package is set if and only if its effect is allow.
THEOREM AllowedOfPackage == PackageSpec => []AllowedMeansAllow
<1>1. PackageInv => AllowedMeansAllow
  BY DEF PackageInv, EffectsInOrder, AllowedMeansAllow
<1> QED
  BY PackageInvariance, <1>1, PTL

\* A simulation that reports no change of a case has found no change of Allowed, which
\* diffDecision does not compare: Allowed is a function of the effect, which it does.
THEOREM QuietDiffIsAlwaysSame == PackageSpec => []QuietDiffIsSame
<1>1. ASSUME PackageInv, NEW i \in DOMAIN results, Len(results[i]) = 2,
             \A f \in DOMAIN diffDecision(results[i][2], results[i][1]) :
                ~diffDecision(results[i][2], results[i][1])[f]
      PROVE  results[i][1].allowed = results[i][2].allowed
  <2>1. DOMAIN results[i] = 1..2
    BY <1>1, OrderedFacts DEF PackageInv, AnswersInOrder
  <2>2. Says(results[i][1]) /\ Says(results[i][2])
    BY <1>1, <2>1 DEF PackageInv, RepliesSay
  <2>3. results[i][1].effect = results[i][2].effect
    BY <1>1 DEF diffDecision
  <2> QED
    BY <2>2, <2>3 DEF Says
<1>2. PackageInv => QuietDiffIsSame
  BY <1>1 DEF QuietDiffIsSame
<1> QED
  BY PackageInvariance, <1>2, PTL

\* A run of tests is reported as passed only if every test has an answer that its
\* expectations hold of, and as many failures are counted as there are others.
THEOREM TestsAlwaysTellTheTruth == PackageSpec => []TestsTellTheTruth
<1>1. ASSUME PackageInv, phase = "done", job.kind = "tests"
      PROVE  LET tests == job.packages[1].tests
                 told == {i \in DOMAIN tests : /\ results[i] # <<>>
                                               /\ decisionResponseMatches(tests[i].expect, results[i][1])}
             IN  /\ tally.passed <=> told = DOMAIN tests
                 /\ tally.failed = Len(tests) - Cardinality(told)
  <2>1. PICK t \in TestRuns : /\ job.packages[1] = t.package /\ Len(job.cases) = Len(t.package.tests)
    BY <1>1, JobFacts
  <2>2. DOMAIN t.package.tests = 1..Len(t.package.tests)
    BY TestJobFacts
  <2>3. /\ Len(results) = Len(job.cases) /\ DOMAIN results = 1..Len(results)
        /\ tally.passed = (Told = DOMAIN results) /\ tally.failed = Len(results) - Cardinality(Told)
    BY <1>1, OrderedFacts DEF PackageInv, Tallied, AnswersInOrder
  <2>4. DOMAIN job.packages[1].tests = DOMAIN results /\ Len(job.packages[1].tests) = Len(results)
    BY <2>1, <2>2, <2>3
  <2> QED
    BY <2>3, <2>4 DEF Told
<1>2. PackageInv => TestsTellTheTruth
  BY <1>1 DEF TestsTellTheTruth
<1> QED
  BY PackageInvariance, <1>2, PTL

-----------------------------------------------------------------------------
\* Validation and compilation, for every package.

LEMMA ValidRulesCompile ==
  ASSUME NEW rules, validateRules(rules),
         \A i \in DOMAIN rules : rules[i].group.mode \in {"absent", "", "all", "any", "none"}
  PROVE  compileRules(rules)
  BY DEF validateRules, RulesListed, compileRules

LEMMA ValidPackagesCompile ==
  ASSUME NEW pkg, PackageAssumed(pkg), Validates(pkg), ~Overlooked(pkg)
  PROVE  Compiles(pkg)
<1>1. pkg.name # 0 /\ pkg.encodes
  BY DEF Validates, Overlooked
<1>2. \A rules \in RuleLists(pkg) : \A i \in DOMAIN rules :
        rules[i].group.mode \in {"absent", "", "all", "any", "none"}
  BY DEF PackageAssumed, Overlooked
<1>3. ASSUME NEW i \in DOMAIN pkg.ruleSets
      PROVE  AddRuleSet(pkg.ruleSets[i])
  <2>1. pkg.ruleSets[i].name # 0 /\ validateRules(pkg.ruleSets[i].rules)
    BY DEF Validates, NamedApart
  <2>2. pkg.ruleSets[i].rules \in RuleLists(pkg)
    BY DEF RuleLists
  <2> QED
    BY <1>2, <2>1, <2>2, ValidRulesCompile DEF AddRuleSet
<1>4. ASSUME NEW i \in DOMAIN pkg.workflows
      PROVE  AddWorkflow(pkg.workflows[i])
  <2> DEFINE wf == pkg.workflows[i]
             lists(k) == {pkg.workflows[k].stages[j].rules : j \in DOMAIN pkg.workflows[k].stages}
  <2>1. validWorkflow(wf)
    BY DEF Validates
  <2>2. ASSUME NEW j \in DOMAIN wf.stages
        PROVE  wf.stages[j].name # 0 /\ compileRules(wf.stages[j].rules)
    <3>1. wf.stages[j].name # 0
      BY DEF Overlooked
    <3>2. wf.stages[j].rules \in lists(i)
      OBVIOUS
    <3>3. wf.stages[j].rules \in UNION {lists(k) : k \in DOMAIN pkg.workflows}
      <4> HIDE DEF lists, wf
      <4> QED BY <3>2
    <3>4. wf.stages[j].rules \in RuleLists(pkg)
      BY <3>3 DEF RuleLists
    <3>5. validateRules(wf.stages[j].rules)
      BY <2>1 DEF validWorkflow
    <3> QED
      BY <1>2, <3>1, <3>4, <3>5, ValidRulesCompile
  <2> QED
    BY <2>1, <2>2 DEF AddWorkflow, validWorkflow
<1>5. ASSUME NEW i \in DOMAIN pkg.policies
      PROVE  compilePolicy(pkg.policies[i])
  BY DEF Validates, NamedApart, validPolicy, compilePolicy
<1>6. ASSUME NEW i \in DOMAIN pkg.rankings
      PROVE  /\ RankingName(pkg.rankings[i]) # 0
             /\ NewRanker(pkg.rankings[i].rules, pkg.rankings[i].scoreRules)
  <2> DEFINE ranking == pkg.rankings[i]
  <2>1. ranking.name # 0 /\ validRanking(ranking, pkg.datasets)
    BY DEF Validates, NamedApart
  <2>2. ranking.rules \in RuleLists(pkg)
    BY DEF RuleLists
  <2>3. \A j \in DOMAIN ranking.scoreRules : ranking.scoreRules[j].direction \in {"", "higher", "lower"}
    BY DEF PackageAssumed, Overlooked
  <2> HIDE DEF ranking
  <2>4. compileRules(ranking.rules)
    BY <1>2, <2>1, <2>2, ValidRulesCompile DEF validRanking
  <2>5. RankingName(ranking) # 0 /\ NewRanker(ranking.rules, ranking.scoreRules)
    BY <2>1, <2>3, <2>4 DEF validRanking, RankingName, NewRanker
  <2> QED
    BY <2>5 DEF ranking
<1>7. ASSUME NEW i \in DOMAIN pkg.optimizations
      PROVE  compileOptimization(pkg.optimizations[i], CompiledRankings(pkg))
  <2>1. pkg.optimizations[i].name # 0
    BY DEF Validates, validOptimization
  <2>2. \/ pkg.optimizations[i].ranking \in DOMAIN CompiledRankings(pkg) \ {0}
        \/ NewRanker(pkg.optimizations[i].constraints, pkg.optimizations[i].preferences)
    BY DEF Overlooked
  <2> QED
    BY <2>1, <2>2 DEF compileOptimization
<1> QED
  BY <1>1, <1>3, <1>4, <1>5, <1>6, <1>7 DEF Compiles

\* A package that passed validation is refused by the compiler only for what
\* ValidateDecisionPackage leaves out.
THEOREM ValidatedAlwaysCompiles == PackageSpec => []ValidatedCompiles
<1>1. ASSUME PackageInv, phase = "refused", job.kind = "tests"
      PROVE  Overlooked(job.packages[1])
  <2>1. PICK t \in TestRuns : job.packages[1] = t.package
    BY <1>1, JobFacts
  <2>2. PackageAssumed(t.package)
    BY JobsAssumption
  <2>3. Validates(t.package) /\ ~Compiles(t.package)
    BY <1>1, <2>1 DEF PackageInv, Admitted
  <2> QED
    BY <2>1, <2>2, <2>3, ValidPackagesCompile
<1>2. PackageInv => ValidatedCompiles
  BY <1>1 DEF ValidatedCompiles
<1> QED
  BY PackageInvariance, <1>2, PTL

-----------------------------------------------------------------------------
\* Of some numbers one is the least: the sets of the numbers up to each of them are
\* finite, and have a smallest among them.
LEMMA LeastOne ==
  ASSUME NEW B \in SUBSET Nat, B # {}
  PROVE  \E k \in B : \A j \in B : k <= j
<1> DEFINE T == {0..m : m \in B}
<1>1. T # {}
  <2>1. PICK m \in B : TRUE
    OBVIOUS
  <2>2. 0..m \in T
    OBVIOUS
  <2> QED
    BY <2>2
<1>2. T \subseteq FiniteSubsetsOf(Nat)
  <2>1. ASSUME NEW m \in B
        PROVE  0..m \in FiniteSubsetsOf(Nat)
    <3>1. m \in Int /\ 0 \in Int /\ 0..m \subseteq Nat
      OBVIOUS
    <3>2. IsFiniteSet(0..m)
      BY <3>1, FS_Interval, Zenon
    <3> QED
      BY <3>1, <3>2 DEF FiniteSubsetsOf
  <2> QED
    BY <2>1
<1>3. IsWellFoundedOn(StrictSubsetOrdering(Nat), FiniteSubsetsOf(Nat))
  BY FS_StrictSubsetOrderingWellFounded, Zenon
<1>4. \E x \in T : \A y \in T : <<y, x>> \notin StrictSubsetOrdering(Nat)
  <2> HIDE DEF T
  <2> QED
    BY <1>1, <1>2, <1>3, WFMin, Zenon
<1>5. PICK k \in B : \A y \in T : <<y, 0..k>> \notin StrictSubsetOrdering(Nat)
  BY <1>4
<1>6. ASSUME NEW j \in B, ~(k <= j)
      PROVE  FALSE
  <2>1. 0..j \subseteq 0..k /\ k \in 0..k /\ k \notin 0..j /\ 0..j \in SUBSET Nat /\ 0..k \in SUBSET Nat
    BY <1>6
  <2>2. <<0..j, 0..k>> \in StrictSubsetOrdering(Nat)
    BY <2>1 DEF StrictSubsetOrdering
  <2> QED
    BY <1>5, <2>2
<1> QED
  BY <1>6

-----------------------------------------------------------------------------
\* Schemas: what asks less is met by what meets more, for every schema and facts.

LEMMA WithinLooser ==
  ASSUME NEW la, NEW lb, NEW low, NEW high, NEW measured \in BOOLEAN, NEW n, measured => n \in Int,
         \A l \in DOMAIN la : la[l] \in Int, \A l \in DOMAIN lb : lb[l] \in Int,
         low \in DOMAIN lb => low \in DOMAIN la /\ la[low] >= lb[low],
         high \in DOMAIN lb => high \in DOMAIN la /\ la[high] <= lb[high],
         Within(la, low, high, measured, n)
  PROVE  Within(lb, low, high, measured, n)
<1> SUFFICES ASSUME {low, high} \cap DOMAIN lb # {}
             PROVE  /\ measured
                    /\ low \in DOMAIN lb => n >= lb[low]
                    /\ high \in DOMAIN lb => n <= lb[high]
  BY DEF Within
<1>1. {low, high} \cap DOMAIN la # {}
  OBVIOUS
<1>2. /\ measured /\ n \in Int
      /\ low \in DOMAIN la => n >= la[low]
      /\ high \in DOMAIN la => n <= la[high]
  BY <1>1 DEF Within
<1>3. ASSUME low \in DOMAIN lb
      PROVE  n >= lb[low]
  <2>1. la[low] \in Int /\ lb[low] \in Int /\ n >= la[low] /\ la[low] >= lb[low]
    BY <1>2, <1>3
  <2> QED
    BY <1>2, <2>1
<1>4. ASSUME high \in DOMAIN lb
      PROVE  n <= lb[high]
  <2>1. la[high] \in Int /\ lb[high] \in Int /\ n <= la[high] /\ la[high] <= lb[high]
    BY <1>2, <1>4
  <2> QED
    BY <1>2, <2>1
<1> QED
  BY <1>2, <1>3, <1>4

LimitsWhole(rule) == \A limit \in DOMAIN rule.limits : rule.limits[limit] \in Int

LEMMA RuleAlsoHolds ==
  ASSUME NEW path, NEW facts, NEW a, NEW b, AsksAlso(a, b), LimitsWhole(a), LimitsWhole(b),
         MeasuredWhole(lookupPath(facts, path)), SchemaRuleHolds(path, a, facts)
  PROVE  SchemaRuleHolds(path, b, facts)
<1> DEFINE v == lookupPath(facts, path)
<1>1. CASE v = Absent
  BY <1>1 DEF SchemaRuleHolds, AsksAlso
<1>2. CASE v # Absent
  <2>1. /\ a.type # "" => schemaTypeMatches(v, a.type)
        /\ a.enum # {} => schemaEnumContains(a.enum, v)
        /\ Within(a.limits, "min", "max", Numeric(v), v.n)
        /\ Within(a.limits, "minLength", "maxLength", Textual(v), TextOf(v))
        /\ Within(a.limits, "minItems", "maxItems", v.kind = "list", Len(v.items))
    BY <1>2 DEF SchemaRuleHolds
  <2>2. ASSUME b.type # ""
        PROVE  schemaTypeMatches(v, b.type)
    <3>1. CASE b.type = a.type
      BY <2>1, <2>2, <3>1
    <3>2. CASE b.type = "number" /\ a.type = "int"
      <4>1. v # Missing /\ v.kind \in SchemaKinds("int")
        BY <2>1, <3>2 DEF schemaTypeMatches
      <4>2. v.kind \in SchemaKinds("number")
        BY <4>1 DEF SchemaKinds
      <4> QED
        BY <3>2, <4>1, <4>2 DEF schemaTypeMatches
    <3> QED
      BY <2>2, <3>1, <3>2 DEF AsksAlso
  <2>3. ASSUME b.enum # {}
        PROVE  schemaEnumContains(b.enum, v)
    <3>1. a.enum # {} /\ a.enum \subseteq b.enum
      BY <2>3 DEF AsksAlso
    <3> HIDE DEF v
    <3> QED
      BY <2>1, <3>1 DEF schemaEnumContains
  <2>4. \A limit \in DOMAIN b.limits :
           /\ limit \in DOMAIN a.limits
           /\ IF limit \in {"min", "minLength", "minItems"} THEN a.limits[limit] >= b.limits[limit]
                                                            ELSE a.limits[limit] <= b.limits[limit]
    BY DEF AsksAlso
  <2>5. /\ \A l \in DOMAIN a.limits : a.limits[l] \in Int
        /\ \A l \in DOMAIN b.limits : b.limits[l] \in Int
    BY DEF LimitsWhole
  <2>6. /\ Numeric(v) \in BOOLEAN /\ Textual(v) \in BOOLEAN
        /\ Numeric(v) => v.n \in Int
        /\ Textual(v) => TextOf(v) \in Int
        /\ v.kind = "list" => Len(v.items) \in Int
    BY OrderedFacts DEF MeasuredWhole, Numeric, Textual
  <2> HIDE DEF v
  <2>7. Within(b.limits, "min", "max", Numeric(v), v.n)
    BY <2>1, <2>4, <2>5, <2>6, WithinLooser
  <2>8. Within(b.limits, "minLength", "maxLength", Textual(v), TextOf(v))
    BY <2>1, <2>4, <2>5, <2>6, WithinLooser
  <2>9. Within(b.limits, "minItems", "maxItems", v.kind = "list", Len(v.items))
    BY <2>1, <2>4, <2>5, <2>6, WithinLooser
  <2> QED
    BY <1>2, <2>2, <2>3, <2>7, <2>8, <2>9 DEF SchemaRuleHolds, v
<1> QED
  BY <1>1, <1>2

\* Limits and what is measured against them are numbers, one level down too.
Sound(path, rule, facts) ==
  /\ LimitsWhole(rule) /\ MeasuredWhole(lookupPath(facts, path))
  /\ \A child \in DOMAIN rule.properties :
        LimitsWhole(rule.properties[child]) /\ MeasuredWhole(lookupPath(facts, Append(path, child)))

LEMMA PartsAlsoHold ==
  ASSUME NEW path, NEW facts, NEW a, NEW b, AsksAlsoOfParts(a, b), Sound(path, a, facts), Sound(path, b, facts),
         validateSchemaRule(path, a, facts)
  PROVE  validateSchemaRule(path, b, facts)
<1>1. SchemaRuleHolds(path, b, facts)
  BY RuleAlsoHolds DEF AsksAlsoOfParts, Sound, validateSchemaRule
<1>2. ASSUME lookupPath(facts, path) # Absent, NEW child \in DOMAIN b.properties
      PROVE  SchemaRuleHolds(Append(path, child), b.properties[child], facts)
  <2>1. child \in DOMAIN a.properties /\ AsksAlso(a.properties[child], b.properties[child])
    BY <1>2 DEF AsksAlsoOfParts
  <2>2. SchemaRuleHolds(Append(path, child), a.properties[child], facts)
    BY <1>2, <2>1 DEF validateSchemaRule
  <2>3. /\ LimitsWhole(a.properties[child]) /\ LimitsWhole(b.properties[child])
        /\ MeasuredWhole(lookupPath(facts, Append(path, child)))
    BY <1>2, <2>1 DEF Sound
  <2> QED
    BY <2>1, <2>2, <2>3, RuleAlsoHolds
<1> QED
  BY <1>1, <1>2 DEF validateSchemaRule

\* What validate asks, of one schema.
Passes(schema, facts) ==
  /\ \A path \in schema.required : lookupPath(facts, path) # Absent
  /\ \A path \in DOMAIN schema.types :
        lookupPath(facts, path) = Absent \/ schemaTypeMatches(lookupPath(facts, path), schema.types[path])
  /\ \A path \in DOMAIN schema.rules : validateSchemaRule(path, schema.rules[path], facts)
  /\ \A path \in DOMAIN schema.properties : validateSchemaRule(path, schema.properties[path], facts)

LEMMA ValidatePasses ==
  ASSUME NEW pkg, NEW req
  PROVE  validate(pkg, req) <=> Passes(SchemaFor(pkg.schemas, req.decision), req.facts)
  BY DEF validate, Passes

AllSound(schema, facts) ==
  /\ \A path \in DOMAIN schema.rules : Sound(path, schema.rules[path], facts)
  /\ \A path \in DOMAIN schema.properties : Sound(path, schema.properties[path], facts)

LEMMA StricterPasses ==
  ASSUME NEW facts, NEW a, NEW b, Stricter(a, b), AllSound(a, facts), AllSound(b, facts), Passes(a, facts)
  PROVE  Passes(b, facts)
<1>1. ASSUME NEW path, NEW r \in RulesAt(a, path)
      PROVE  validateSchemaRule(path, r, facts) /\ Sound(path, r, facts)
  BY <1>1 DEF RulesAt, Passes, AllSound
<1>2. ASSUME NEW path \in b.required
      PROVE  lookupPath(facts, path) # Absent
  <2>1. CASE path \in a.required
    BY <2>1 DEF Passes
  <2>2. CASE \E r \in RulesAt(a, path) : r.required
    BY <1>1, <2>2 DEF validateSchemaRule, SchemaRuleHolds
  <2> QED
    BY <2>1, <2>2 DEF Stricter
<1>3. ASSUME NEW path \in DOMAIN b.types
      PROVE  lookupPath(facts, path) = Absent \/ schemaTypeMatches(lookupPath(facts, path), b.types[path])
  <2>1. CASE path \in DOMAIN a.types /\ a.types[path] = b.types[path]
    BY <2>1 DEF Passes
  <2>2. ASSUME NEW r \in RulesAt(a, path), r.type = b.types[path], b.types[path] # ""
        PROVE  lookupPath(facts, path) = Absent \/ schemaTypeMatches(lookupPath(facts, path), b.types[path])
    BY <1>1, <2>2 DEF validateSchemaRule, SchemaRuleHolds
  <2> QED
    BY <2>1, <2>2 DEF Stricter
<1>4. ASSUME NEW path \in DOMAIN b.rules
      PROVE  validateSchemaRule(path, b.rules[path], facts)
  <2>1. PICK r \in RulesAt(a, path) : AsksAlsoOfParts(r, b.rules[path])
    BY DEF Stricter
  <2>2. Sound(path, b.rules[path], facts)
    BY DEF AllSound
  <2> QED
    BY <1>1, <2>1, <2>2, PartsAlsoHold
<1>5. ASSUME NEW path \in DOMAIN b.properties
      PROVE  validateSchemaRule(path, b.properties[path], facts)
  <2>1. PICK r \in RulesAt(a, path) : AsksAlsoOfParts(r, b.properties[path])
    BY DEF Stricter
  <2>2. Sound(path, b.properties[path], facts)
    BY DEF AllSound
  <2> QED
    BY <1>1, <2>1, <2>2, PartsAlsoHold
<1> QED
  BY <1>2, <1>3, <1>4, <1>5 DEF Passes

\* Each rule of a schema, and of what a value is made of, is one of RulesOf.
LEMMA RulesOfAll ==
  ASSUME NEW schema
  PROVE  /\ \A p \in DOMAIN schema.rules :
              /\ [path |-> p, rule |-> schema.rules[p]] \in RulesOf(schema)
              /\ \A c \in DOMAIN schema.rules[p].properties :
                   [path |-> Append(p, c), rule |-> schema.rules[p].properties[c]] \in RulesOf(schema)
         /\ \A p \in DOMAIN schema.properties :
              /\ [path |-> p, rule |-> schema.properties[p]] \in RulesOf(schema)
              /\ \A c \in DOMAIN schema.properties[p].properties :
                   [path |-> Append(p, c), rule |-> schema.properties[p].properties[c]] \in RulesOf(schema)
<1> DEFINE Top == {[path |-> p, rule |-> schema.rules[p]] : p \in DOMAIN schema.rules}
                  \cup {[path |-> p, rule |-> schema.properties[p]] : p \in DOMAIN schema.properties}
           Below(t) == {[path |-> Append(t.path, c), rule |-> t.rule.properties[c]] : c \in DOMAIN t.rule.properties}
<1>1. RulesOf(schema) = Top \cup UNION {Below(t) : t \in Top}
  BY DEF RulesOf
<1>2. ASSUME NEW p, NEW rule, [path |-> p, rule |-> rule] \in Top
      PROVE  /\ [path |-> p, rule |-> rule] \in RulesOf(schema)
             /\ \A c \in DOMAIN rule.properties : [path |-> Append(p, c), rule |-> rule.properties[c]] \in RulesOf(schema)
  <2> DEFINE t == [path |-> p, rule |-> rule]
  <2>1. ASSUME NEW c \in DOMAIN rule.properties
        PROVE  [path |-> Append(p, c), rule |-> rule.properties[c]] \in Below(t)
    OBVIOUS
  <2>2. t \in Top
    BY <1>2
  <2> HIDE DEF Top, Below, t
  <2>3. \A x \in Below(t) : x \in RulesOf(schema)
    BY <1>1, <2>2
  <2> QED
    BY <1>1, <2>1, <2>2, <2>3 DEF t
<1>3. \A p \in DOMAIN schema.rules : [path |-> p, rule |-> schema.rules[p]] \in Top
  OBVIOUS
<1>4. \A p \in DOMAIN schema.properties : [path |-> p, rule |-> schema.properties[p]] \in Top
  OBVIOUS
<1> HIDE DEF Top, Below
<1>5. ASSUME NEW p \in DOMAIN schema.rules
      PROVE  /\ [path |-> p, rule |-> schema.rules[p]] \in RulesOf(schema)
             /\ \A c \in DOMAIN schema.rules[p].properties :
                   [path |-> Append(p, c), rule |-> schema.rules[p].properties[c]] \in RulesOf(schema)
  <2>1. [path |-> p, rule |-> schema.rules[p]] \in Top
    BY <1>3
  <2> QED
    BY <1>2, <2>1
<1>6. ASSUME NEW p \in DOMAIN schema.properties
      PROVE  /\ [path |-> p, rule |-> schema.properties[p]] \in RulesOf(schema)
             /\ \A c \in DOMAIN schema.properties[p].properties :
                   [path |-> Append(p, c), rule |-> schema.properties[p].properties[c]] \in RulesOf(schema)
  <2>1. [path |-> p, rule |-> schema.properties[p]] \in Top
    BY <1>4
  <2> QED
    BY <1>2, <2>1
<1> QED
  BY <1>5, <1>6

LEMMA SchemaSound ==
  ASSUME NEW pkg, NEW req, PackageAssumed(pkg), FactsAssumed(pkg, req)
  PROVE  AllSound(SchemaFor(pkg.schemas, req.decision), req.facts)
<1>1. ASSUME NEW name \in DOMAIN pkg.schemas
      PROVE  AllSound(pkg.schemas[name], req.facts)
  <2> DEFINE schema == pkg.schemas[name]
  <2>1. ASSUME NEW r \in RulesOf(schema)
        PROVE  LimitsWhole(r.rule) /\ MeasuredWhole(lookupPath(req.facts, r.path))
    BY <2>1 DEF PackageAssumed, FactsAssumed, LimitsWhole
  <2>2. ASSUME NEW p, NEW rule, [path |-> p, rule |-> rule] \in RulesOf(schema),
               \A c \in DOMAIN rule.properties : [path |-> Append(p, c), rule |-> rule.properties[c]] \in RulesOf(schema)
        PROVE  Sound(p, rule, req.facts)
    <3>1. LimitsWhole(rule) /\ MeasuredWhole(lookupPath(req.facts, p))
      <4> DEFINE r == [path |-> p, rule |-> rule]
      <4>1. r.rule = rule /\ r.path = p /\ r \in RulesOf(schema)
        BY <2>2
      <4> HIDE DEF r, schema
      <4> QED
        BY <2>1, <4>1
    <3>2. ASSUME NEW c \in DOMAIN rule.properties
          PROVE  LimitsWhole(rule.properties[c]) /\ MeasuredWhole(lookupPath(req.facts, Append(p, c)))
      <4> DEFINE r == [path |-> Append(p, c), rule |-> rule.properties[c]]
      <4>1. r.rule = rule.properties[c] /\ r.path = Append(p, c) /\ r \in RulesOf(schema)
        BY <2>2
      <4> HIDE DEF r, schema
      <4> QED
        BY <2>1, <4>1
    <3> QED
      BY <3>1, <3>2 DEF Sound
  <2> HIDE DEF schema
  <2>3. ASSUME NEW p \in DOMAIN schema.rules
        PROVE  Sound(p, schema.rules[p], req.facts)
    BY <2>2, RulesOfAll
  <2>4. ASSUME NEW p \in DOMAIN schema.properties
        PROVE  Sound(p, schema.properties[p], req.facts)
    BY <2>2, RulesOfAll
  <2>5. AllSound(schema, req.facts)
    BY <2>3, <2>4 DEF AllSound
  <2> QED
    BY <2>5 DEF schema
<1>2. AllSound(NoSchema, req.facts)
  BY NoneYet DEF AllSound, NoSchema
<1> QED
  BY <1>1, <1>2 DEF SchemaFor

\* A version whose schema asks more refuses all that one that asks less refuses, for any
\* two versions and any facts: what a schema asks is never passed over because of what
\* else stands in it.
THEOREM StricterAlwaysRefusesMore == PackageSpec => StricterRefusesMore
<1> DEFINE asked(n) == SchemaFor(job.packages[n].schemas, Request.decision)
<1>1. ASSUME PackageInv, [PackageNext]_packageVars, phase = "between", Len(answers) = 1,
             Stricter(asked(1), asked(2)), phase' = "failed"
      PROVE  FALSE
  <2>1. case <= Len(job.cases) /\ ~validate(Package, Request)
    <3>1. BeginEvaluation
      <4>1. ~(\/ Call \/ BeginPolicy \/ PassRule \/ TakeRule \/ LeavePolicy \/ LeavePolicies
              \/ TakeRuleSet \/ TakeWorkflow \/ TakeRanking \/ TakeOptimization
              \/ PartFails \/ Conclude \/ UNCHANGED packageVars)
        BY <1>1, PartsArePipelineSteps DEF Call, PartStep, Evaluating, packageVars, callVars
      <4>2. ~(Answered \/ EvaluationFails \/ Done \/ Return)
        BY <1>1 DEF Answered, EvaluationFails, Evaluating, Done, Return, Ended
      <4> QED
        BY <1>1, <4>1, <4>2 DEF PackageNext
    <3> QED
      BY <1>1, <3>1 DEF BeginEvaluation
  <2>2. DOMAIN answers = 1..1 /\ Len(job.packages) > 1 /\ case \in Nat \ {0} /\ Len(job.packages) \in Nat
    BY <1>1, OrderedFacts, JobFacts DEF PackageInv, AnswersInOrder
  <2>3. validate(job.packages[1], Request) /\ Package = job.packages[2]
    <3>1. 1 \in DOMAIN answers /\ Len(answers) + 1 = 2
      BY <1>1, <2>2
    <3> QED
      BY <1>1, <3>1 DEF PackageInv, Admitted, Package
  <2>4. PICK s \in Simulations : job = SimulationJob(s)
    <3>1. ASSUME NEW t \in TestRuns, job = TestJob(t)
          PROVE  FALSE
      <4>1. Len(TestJob(t).packages) = 1
        BY TestJobFacts
      <4> QED
        BY <2>2, <3>1, <4>1
    <3> QED
      BY <1>1, <3>1 DEF PackageInv, JobAsGiven
  <2>5. job.packages = s.packages /\ job.cases = s.cases
    BY <2>4 DEF SimulationJob
  <2>6. case \in DOMAIN s.cases /\ Request = s.cases[case]
    <3>1. Ordered(s.cases)
      BY JobsAssumption
    <3> QED
      BY <2>1, <2>2, <2>5, <3>1, OrderedFacts DEF Request
  <2>7. 1 \in DOMAIN s.packages /\ 2 \in DOMAIN s.packages
    BY <2>2, <2>5, SimulationFacts
  <2>8. ASSUME NEW n \in DOMAIN s.packages
        PROVE  AllSound(asked(n), Request.facts)
    <3>1. PackageAssumed(s.packages[n]) /\ FactsAssumed(s.packages[n], s.cases[case])
      BY <2>6, JobsAssumption
    <3> QED
      BY <2>5, <2>6, <3>1, SchemaSound
  <2>9. Passes(asked(1), Request.facts) /\ ~Passes(asked(2), Request.facts)
    BY <2>1, <2>3, ValidatePasses
  <2> HIDE DEF asked
  <2> QED
    BY <1>1, <2>7, <2>8, <2>9, StricterPasses
<1>2. PackageInv /\ [PackageNext]_packageVars
        => [phase = "between" /\ Len(answers) = 1 /\ phase' = "failed" => ~ Stricter(asked(1), asked(2))]_packageVars
  BY <1>1
<1> QED
  BY PackageInvariance, <1>2, PTL DEF PackageSpec, StricterRefusesMore

-----------------------------------------------------------------------------
(***************************************************************************)
(* The pipeline alone, for texts and effects of any kind.  The invariant says  *)
(* of each stage that the effect so far is the strongest of what has been      *)
(* merged, and why Allowed and the decision cannot outlive it: Allowed was set  *)
(* from a policy effect that is still accounted for, and a decision's effect    *)
(* has itself been merged.                                                    *)
(***************************************************************************)

Strongest(e) ==
  /\ e \in merged \cup {"abstain"}
  /\ \A m \in merged : effectRank(e) >= effectRank(m)

PolicyStage ==
  stage \in {"policies", "rules"} =>
    policyEffect \in Effects /\ Strongest(policyEffect)

MergeStage ==
  stage \in {"rulesets", "rankings"} =>
    /\ policyEffect \in merged \cup {"abstain"}
    /\ effectRank(effect) >= effectRank(policyEffect)
    /\ Strongest(effect)
    /\ allowed => policyEffect = "allow"
    /\ EqualFoldAllow(decision) => "allow" \in merged

IInv ==
  /\ TypeOK /\ PolicyStage /\ MergeStage
  /\ StrongestEffectWins /\ AllowedMeansAllow

(* The ranks, and that the abstaining effect is the weakest.                   *)
LEMMA Ranks ==
  /\ effectRank("deny") = 500 /\ effectRank("require_review") = 400
  /\ effectRank("escalate") = 300 /\ effectRank("allow") = 200
  /\ effectRank("abstain") = 0
  /\ \A c \in Custom : effectRank(c) = 100
<1>1. \A c \in Custom : c \notin Named
  BY CustomAssumption
<1> QED BY <1>1 DEF effectRank, Named

LEMMA RankIsNat == ASSUME NEW e \in Effects PROVE effectRank(e) \in Nat
BY Ranks DEF Effects, Named

(* normalizeEffect gives an effect.                                           *)
LEMMA NormalizeType == ASSUME NEW s \in Strings PROVE normalizeEffect(s) \in Effects
BY EmptyAssumption DEF normalizeEffect, Strings, Effects, Named

LEMMA PlainType == ASSUME NEW e \in Effects PROVE Plain(e) \in Strings \ {Empty}
BY EmptyAssumption DEF Plain, Strings

(* resolveEffect returns one of its arguments, and the stronger.               *)
LEMMA Resolve ==
  ASSUME NEW a \in Effects, NEW b \in Effects
  PROVE  /\ resolveEffect(a, b) \in {a, b}
         /\ effectRank(resolveEffect(a, b)) >= effectRank(a)
         /\ effectRank(resolveEffect(a, b)) >= effectRank(b)
BY RankIsNat DEF resolveEffect

(* Merging an effect into the strongest so far gives the strongest of all.      *)
LEMMA MergeStrongest ==
  ASSUME NEW M \in SUBSET Effects, NEW a \in Effects, NEW b \in Effects,
         a \in M \cup {"abstain"},
         \A m \in M : effectRank(a) >= effectRank(m)
  PROVE  /\ resolveEffect(a, b) \in M \cup {b} \cup {"abstain"}
         /\ \A m \in M \cup {b} : effectRank(resolveEffect(a, b)) >= effectRank(m)
<1>1. resolveEffect(a, b) \in Effects
  BY Resolve
<1>2. ASSUME NEW m \in M PROVE effectRank(resolveEffect(a, b)) >= effectRank(m)
  BY <1>1, Resolve, RankIsNat
<1> QED BY <1>2, Resolve

LEMMA InitInvariant == Init => IInv
<1> SUFFICES ASSUME Init PROVE IInv
  OBVIOUS
<1>1. "abstain" \in Effects
  BY DEF Effects, Named
<1>2. decision \in Strings \ {Empty}
  BY <1>1, PlainType DEF Init
<1>3. count \in 0..MaxEffects
  BY MaxAssumption DEF Init
<1>4. TypeOK
  BY <1>1, <1>2, <1>3 DEF Init, TypeOK
<1> QED BY <1>1, <1>4 DEF Init, IInv, PolicyStage, MergeStage, Strongest,
          StrongestEffectWins, AllowedMeansAllow

(* A rule or a default of a policy is merged into the policy effect.           *)
LEMMA PolicyMerge ==
  ASSUME IInv, stage = "rules", NEW s \in Strings, Contribute(normalizeEffect(s)),
         policyEffect' = resolveEffect(policyEffect, normalizeEffect(s)),
         stage' \in {"policies", "rules"}, matchedAny' \in BOOLEAN,
         UNCHANGED response
  PROVE  IInv'
<1> DEFINE e == normalizeEffect(s)
<1>1. e \in Effects
  BY NormalizeType
<1>2. policyEffect \in Effects /\ Strongest(policyEffect) /\ merged \subseteq Effects
  BY DEF IInv, PolicyStage, TypeOK
<1>3. merged' = merged \cup {e} /\ merged' \subseteq Effects
  BY <1>1, <1>2 DEF Contribute
<1>4. policyEffect' \in Effects
  BY <1>1, <1>2, Resolve
<1>5. Strongest(policyEffect)'
  BY <1>1, <1>2, <1>3, MergeStrongest DEF Strongest, effectRank
<1>6. count' \in 0..MaxEffects
  BY MaxAssumption DEF IInv, TypeOK, Contribute
<1>7. TypeOK'
  BY <1>3, <1>4, <1>6 DEF IInv, TypeOK, response
<1>8. stage' \notin {"rulesets", "rankings", "answered"}
  OBVIOUS
<1> QED BY <1>4, <1>5, <1>7, <1>8 DEF IInv, PolicyStage, MergeStage,
          StrongestEffectWins, AllowedMeansAllow

LEMMA MatchRuleInvariant ==
  ASSUME IInv, NEW s \in Strings, NEW stopOnMatch \in BOOLEAN,
         MatchRule(s, stopOnMatch)
  PROVE  IInv'
<1>1. stage' \in {"policies", "rules"} /\ matchedAny' \in BOOLEAN
  BY DEF MatchRule
<1> QED BY <1>1, PolicyMerge DEF MatchRule

LEMMA EndPolicyInvariant ==
  ASSUME IInv, NEW s \in Strings, EndPolicy(s)
  PROVE  IInv'
<1>1. stage' = "policies" /\ matchedAny' \in BOOLEAN /\ stage = "rules"
  BY DEF EndPolicy, IInv, TypeOK
<1>2. CASE ~matchedAny /\ s # Empty
  BY <1>1, <1>2, PolicyMerge DEF EndPolicy
<1>3. CASE ~(~matchedAny /\ s # Empty)
  <2>1. UNCHANGED <<policyEffect, merged, count, response>>
    BY <1>3 DEF EndPolicy
  <2> QED BY <1>1, <2>1 DEF IInv, TypeOK, PolicyStage, MergeStage, Strongest,
            StrongestEffectWins, AllowedMeansAllow, response
<1> QED BY <1>2, <1>3

(* A rule set or a workflow that decides.                                     *)
LEMMA DecideInvariant ==
  ASSUME IInv, stage = "rulesets", NEW s \in Strings, s # Empty, Decide(s),
         stage' \in {"rulesets", "rankings"}
  PROVE  IInv'
<1> DEFINE e == normalizeEffect(s)
<1>1. e \in Effects
  BY NormalizeType
<1>2. /\ effect \in Effects /\ policyEffect \in Effects /\ merged \subseteq Effects
      /\ Strongest(effect) /\ effectRank(effect) >= effectRank(policyEffect)
      /\ policyEffect \in merged \cup {"abstain"}
      /\ allowed => policyEffect = "allow"
  BY DEF IInv, MergeStage, TypeOK
<1>3. /\ merged' = merged \cup {e} /\ effect' = resolveEffect(effect, e)
      /\ decision' = s /\ UNCHANGED <<matchedAny, policyEffect, allowed>>
  BY DEF Decide, Contribute
<1>4. effect' \in Effects /\ effectRank(effect') >= effectRank(effect)
  BY <1>1, <1>2, <1>3, Resolve
<1>5. effectRank(effect') >= effectRank(policyEffect)
  BY <1>2, <1>4, RankIsNat
<1>6. Strongest(effect)'
  BY <1>1, <1>2, <1>3, MergeStrongest DEF Strongest, effectRank
<1>7. EqualFoldAllow(decision') => "allow" \in merged'
  BY <1>3 DEF EqualFoldAllow, normalizeEffect
<1>8. count' \in 0..MaxEffects
  BY MaxAssumption DEF IInv, TypeOK, Decide, Contribute
<1>9. TypeOK'
  BY <1>1, <1>2, <1>3, <1>4, <1>8 DEF IInv, TypeOK
<1>10. MergeStage'
  BY <1>2, <1>3, <1>5, <1>6, <1>7 DEF MergeStage, effectRank, EqualFoldAllow
<1> QED BY <1>9, <1>10 DEF IInv, PolicyStage, StrongestEffectWins,
          AllowedMeansAllow

(* The policies hand over: response.Effect, Decision and Allowed are set.       *)
LEMMA EndPoliciesInvariant == IInv /\ EndPolicies => IInv'
<1> SUFFICES ASSUME IInv, EndPolicies PROVE IInv'
  OBVIOUS
<1>1. policyEffect \in Effects /\ Strongest(policyEffect)
  BY DEF IInv, PolicyStage, EndPolicies
<1>2. /\ stage' = "rulesets" /\ effect' = policyEffect
      /\ decision' = Plain(policyEffect) /\ allowed' = (policyEffect = "allow")
      /\ UNCHANGED <<matchedAny, policyEffect, merged, count>>
  BY DEF EndPolicies
<1>3. TypeOK'
  BY <1>1, <1>2, PlainType DEF IInv, TypeOK
<1>4. EqualFoldAllow(decision') => "allow" \in merged'
  BY <1>1, <1>2 DEF EqualFoldAllow, Plain, Strongest
<1>5. effectRank(effect') >= effectRank(policyEffect')
  BY <1>1, <1>2, RankIsNat
<1>6. Strongest(effect)'
  BY <1>1, <1>2 DEF Strongest, effectRank
<1>7. MergeStage'
  BY <1>1, <1>2, <1>4, <1>5, <1>6 DEF MergeStage, Strongest, effectRank,
     EqualFoldAllow
<1> QED BY <1>2, <1>3, <1>7 DEF IInv, PolicyStage, StrongestEffectWins,
          AllowedMeansAllow

(* The end of Evaluate: the policy effect is merged again, applyEffect.         *)
LEMMA FinishInvariant == IInv /\ Finish => IInv'
<1> SUFFICES ASSUME IInv, Finish PROVE IInv'
  OBVIOUS
<1> DEFINE final == resolveEffect(effect, policyEffect)
<1>1. /\ effect \in Effects /\ policyEffect \in Effects /\ merged \subseteq Effects
      /\ Strongest(effect) /\ policyEffect \in merged \cup {"abstain"}
      /\ allowed => policyEffect = "allow"
      /\ EqualFoldAllow(decision) => "allow" \in merged
      /\ allowed \in BOOLEAN /\ decision \in Strings \ {Empty}
  BY DEF IInv, MergeStage, TypeOK, Finish
<1>2. /\ stage' = "answered" /\ effect' = final
      /\ allowed' = AllowedBy(final, decision, allowed)
      /\ decision' = IF decision = Plain("abstain") THEN Plain(final) ELSE decision
      /\ UNCHANGED <<matchedAny, policyEffect, merged, count>>
  BY DEF Finish
<1>3. final \in Effects /\ final \in merged \cup {"abstain"}
  BY <1>1, Resolve DEF Strongest
<1>4. \A m \in merged : effectRank(final) >= effectRank(m)
  BY <1>1, <1>3, Resolve, RankIsNat DEF Strongest
<1>5. effectRank(final) >= effectRank(policyEffect)
  BY <1>1, Resolve
<1>6. ASSUME final \notin {"allow", "deny", "require_review", "escalate"}
      PROVE  ~allowed /\ ~EqualFoldAllow(decision)
  <2>1. effectRank(final) \in {0, 100}
    BY <1>3, <1>6, Ranks DEF Effects, Named
  <2> HIDE DEF final
  <2>2. policyEffect # "allow"
    BY <2>1, <1>5, Ranks
  <2>3. "allow" \notin merged
    BY <2>1, <1>4, Ranks
  <2> QED BY <1>1, <2>2, <2>3
<1>7. allowed' = (final = "allow")
  <2>1. CASE final \in {"allow", "deny", "require_review", "escalate"}
    BY <1>2, <2>1 DEF AllowedBy
  <2>2. CASE final \notin {"allow", "deny", "require_review", "escalate"}
    BY <1>2, <1>6, <2>2 DEF AllowedBy
  <2> QED BY <2>1, <2>2
<1>8. Plain(final) \in Strings \ {Empty}
  BY <1>3, PlainType
<1>9. TypeOK'
  BY <1>1, <1>2, <1>3, <1>7, <1>8 DEF IInv, TypeOK
<1>10. StrongestEffectWins'
  BY <1>2, <1>3, <1>4 DEF StrongestEffectWins, effectRank
<1>11. AllowedMeansAllow'
  BY <1>2, <1>7 DEF AllowedMeansAllow
<1> QED BY <1>2, <1>9, <1>10, <1>11 DEF IInv, PolicyStage, MergeStage

(* Steps that change nothing but the stage.                                    *)
LEMMA StageInvariant ==
  IInv /\ (StartPolicy \/ NoWorkflow \/ Fail \/ UNCHANGED vars) => IInv'
<1> SUFFICES ASSUME IInv, StartPolicy \/ NoWorkflow \/ Fail \/ UNCHANGED vars
             PROVE  IInv'
  OBVIOUS
<1>1. UNCHANGED <<policyEffect, effect, decision, allowed, merged, count>>
  BY DEF StartPolicy, NoWorkflow, Fail, vars, response
<1>2. /\ Strongest(policyEffect)' <=> Strongest(policyEffect)
      /\ Strongest(effect)' <=> Strongest(effect)
      /\ EqualFoldAllow(decision)' <=> EqualFoldAllow(decision)
      /\ StrongestEffectWins' <=> (stage' = "answered" => Strongest(effect))
  BY <1>1 DEF Strongest, EqualFoldAllow, StrongestEffectWins, effectRank
<1>3. CASE StartPolicy
  <2>1. stage' = "rules" /\ stage = "policies" /\ matchedAny' = FALSE
    BY <1>3 DEF StartPolicy
  <2> QED BY <1>1, <1>2, <2>1 DEF IInv, TypeOK, PolicyStage, MergeStage, AllowedMeansAllow
<1>4. CASE NoWorkflow
  <2>1. stage' = "rankings" /\ stage = "rulesets" /\ matchedAny' = matchedAny
    BY <1>4 DEF NoWorkflow
  <2>2. effectRank(effect') >= effectRank(policyEffect')
    BY <1>1, <2>1 DEF IInv, MergeStage, effectRank
  <2> QED BY <1>1, <1>2, <2>1, <2>2 DEF IInv, TypeOK, PolicyStage, MergeStage, AllowedMeansAllow
<1>5. CASE Fail
  <2>1. stage' = "failed" /\ matchedAny' = matchedAny
    BY <1>5 DEF Fail
  <2> QED BY <1>1, <1>2, <2>1 DEF IInv, TypeOK, PolicyStage, MergeStage, AllowedMeansAllow
<1>6. CASE UNCHANGED vars
  BY <1>6 DEF IInv, TypeOK, PolicyStage, MergeStage, Strongest, StrongestEffectWins,
     AllowedMeansAllow, EqualFoldAllow, effectRank, vars, response
<1> QED BY <1>3, <1>4, <1>5, <1>6

(* The invariant holds of every evaluation.                                   *)
THEOREM Invariance == Spec => []IInv
<1>1. IInv /\ [Next]_vars => IInv'
  <2> SUFFICES ASSUME IInv, [Next]_vars PROVE IInv'
    OBVIOUS
  <2>1. CASE \E s \in Strings : RuleSetDecides(s) \/ WorkflowDecides(s)
    BY <2>1, DecideInvariant DEF RuleSetDecides, WorkflowDecides
  <2> QED BY <2>1, MatchRuleInvariant, EndPolicyInvariant, EndPoliciesInvariant,
            FinishInvariant, StageInvariant DEF Next
<1> QED BY InitInvariant, <1>1, PTL DEF Spec

(* The fields of a response keep their types.                                 *)
THEOREM TypeCorrect == Spec => []TypeOK
<1>1. IInv => TypeOK
  BY DEF IInv
<1> QED BY Invariance, <1>1, PTL

(* A deny, a review or an escalation is never overridden.                      *)
THEOREM StrongestEffectAlwaysWins == Spec => []StrongestEffectWins
<1>1. IInv => StrongestEffectWins
  BY DEF IInv
<1> QED BY Invariance, <1>1, PTL

(* Allowed never says more than the effect.                                   *)
THEOREM AllowedAlwaysMeansAllow == Spec => []AllowedMeansAllow
<1>1. IInv => AllowedMeansAllow
  BY DEF IInv
<1> QED BY Invariance, <1>1, PTL

-----------------------------------------------------------------------------
\* Sums.

\* The greatest of the first positions.
LEMMA GreatestOf ==
  ASSUME NEW n \in Nat, NEW S \in SUBSET (1..n), S # {}
  PROVE  /\ Seqs!Max(S) \in S /\ \A x \in S : x <= Seqs!Max(S)
         /\ n \in S => Seqs!Max(S) = n
<1> DEFINE B == {n - x : x \in S}
<1>1. PICK m \in B : \A d \in B : m <= d
  <2>1. PICK x \in S : TRUE
    OBVIOUS
  <2>2. n - x \in B
    OBVIOUS
  <2>3. \A z \in S : n - z \in Nat
    OBVIOUS
  <2>4. B \in SUBSET Nat /\ B # {}
    BY <2>2, <2>3
  <2> HIDE DEF B
  <2> QED
    BY <2>4, LeastOne
<1>2. PICK y \in S : m = n - y
  OBVIOUS
<1>3. \A x \in S : y >= x
  <2>1. ASSUME NEW x \in S
        PROVE  y >= x
    <3>1. n - x \in B
      OBVIOUS
    <3> HIDE DEF B
    <3> QED
      BY <1>1, <1>2, <3>1
  <2> QED
    BY <2>1
<1>4. Seqs!Max(S) \in S /\ \A x \in S : Seqs!Max(S) >= x
  BY <1>3 DEF Seqs!Max
<1>5. Seqs!Max(S) \in 1..n
  BY <1>4
<1>6. \A x \in S : x <= Seqs!Max(S)
  BY <1>4, <1>5
<1>7. n \in S => Seqs!Max(S) = n
  BY <1>5, <1>6
<1> QED
  BY <1>4, <1>6, <1>7

\* The first m positions, and those without the last.
LEMMA FirstPositions ==
  ASSUME NEW n \in Nat, NEW m \in 1..n
  PROVE  /\ 1..m \in SUBSET (1..n) /\ 1..m # {} /\ (1..m) \ {m} = 1..(m-1)
         /\ Seqs!Max(1..m) = m
<1>1. m \in Nat /\ 1..m \in SUBSET (1..m) /\ m \in 1..m
  OBVIOUS
<1>2. Seqs!Max(1..m) = m
  BY <1>1, GreatestOf
<1> QED
  BY <1>2

Adds(it, numbers, n) ==
  it = [S \in SUBSET (1..n) |-> IF S = {} THEN 0 ELSE it[S \ {Seqs!Max(S)}] + numbers[Seqs!Max(S)]]

\* There is a function on sets of positions that a sum can be defined by.
LEMMA SumExists ==
  ASSUME NEW numbers, NEW n \in Nat
  PROVE  \E it : Adds(it, numbers, n)
<1> DEFINE B == {m \in Nat : ~ \E it : Adds(it, numbers, m)}
<1> SUFFICES ASSUME B # {}
             PROVE  FALSE
  OBVIOUS
<1>1. PICK m \in B : \A d \in B : m <= d
  <2>1. B \in SUBSET Nat
    OBVIOUS
  <2> HIDE DEF B
  <2> QED
    BY <2>1, LeastOne
<1>2. m # 0
  <2>1. \A S \in SUBSET (1..0) : S = {}
    OBVIOUS
  <2> DEFINE it == [S \in SUBSET (1..0) |-> 0]
  <2>2. it = [S \in SUBSET (1..0) |-> IF S = {} THEN 0 ELSE it[S \ {Seqs!Max(S)}] + numbers[Seqs!Max(S)]]
    BY <2>1
  <2> HIDE DEF it
  <2>3. Adds(it, numbers, 0)
    BY <2>2 DEF Adds
  <2> QED
    BY <2>3
<1>3. m - 1 \in Nat /\ m - 1 \notin B /\ m \in Nat
  BY <1>1, <1>2
<1>4. PICK it : Adds(it, numbers, m - 1)
  BY <1>3
<1> DEFINE more == [S \in SUBSET (1..m) |-> IF m \in S THEN it[S \ {m}] + numbers[m] ELSE it[S]]
<1>5. ASSUME NEW S \in SUBSET (1..m)
      PROVE  more[S] = IF S = {} THEN 0 ELSE more[S \ {Seqs!Max(S)}] + numbers[Seqs!Max(S)]
  <2>1. CASE m \in S
    <3>1. Seqs!Max(S) = m /\ S # {} /\ S \ {m} \in SUBSET (1..m) /\ m \notin S \ {m}
      BY <1>3, <2>1, GreatestOf
    <3>2. more[S] = it[S \ {m}] + numbers[m] /\ more[S \ {m}] = it[S \ {m}]
      BY <2>1, <3>1
    <3> HIDE DEF more
    <3> QED
      BY <3>1, <3>2
  <2>2. CASE m \notin S
    <3>1. S \in SUBSET (1..(m-1))
      BY <1>3, <2>2
    <3>2. more[S] = it[S]
      BY <2>2
    <3>3. it[S] = IF S = {} THEN 0 ELSE it[S \ {Seqs!Max(S)}] + numbers[Seqs!Max(S)]
      BY <1>4, <3>1 DEF Adds
    <3>4. S \ {Seqs!Max(S)} \in SUBSET (1..m) /\ m \notin S \ {Seqs!Max(S)}
      BY <2>2
    <3>5. more[S \ {Seqs!Max(S)}] = it[S \ {Seqs!Max(S)}]
      BY <3>4
    <3> HIDE DEF more
    <3> QED
      BY <3>2, <3>3, <3>5
  <2> QED
    BY <2>1, <2>2
<1>6. more = [S \in SUBSET (1..m) |-> more[S]]
  OBVIOUS
<1> HIDE DEF more
<1>7. Adds(more, numbers, m)
  BY <1>5, <1>6 DEF Adds
<1> QED
  BY <1>1, <1>7

\* The sums of the first numbers.
Partial(g, numbers, n) == g[0] = 0 /\ \A m \in 1..n : g[m] = g[m-1] + numbers[m]

LEMMA SumRuns ==
  ASSUME NEW n \in Nat, NEW numbers, DOMAIN numbers = 1..n
  PROVE  \E g : g = [m \in 0..n |-> g[m]] /\ Partial(g, numbers, n) /\ SumOf(numbers) = g[n]
<1> DEFINE it == CHOOSE u : Adds(u, numbers, n)
           g == [m \in 0..n |-> it[1..m]]
<1>1. SumOf(numbers) = it[1..n]
  <2>1. SumOf(numbers) = (CHOOSE u : u = [S \in SUBSET DOMAIN numbers |-> IF S = {} THEN 0 ELSE (u[S \ {Seqs!Max(S)}] + numbers[Seqs!Max(S)])])[DOMAIN numbers]
    BY DEF SumOf, Seqs!FoldLeft, Seqs!MapThenFoldSet
  <2> QED
    BY <2>1 DEF Adds
<1>2. Adds(it, numbers, n)
  BY SumExists
<1> HIDE DEF it
<1>3. 1..0 = {}
  OBVIOUS
<1>4. g[0] = 0
  BY <1>2, <1>3 DEF Adds
<1>5. ASSUME NEW m \in 1..n
      PROVE  g[m] = g[m-1] + numbers[m]
  <2>1. 1..m \in SUBSET (1..n) /\ 1..m # {} /\ (1..m) \ {m} = 1..(m-1) /\ Seqs!Max(1..m) = m
    BY FirstPositions
  <2>2. it[1..m] = it[1..(m-1)] + numbers[m]
    BY <1>2, <2>1 DEF Adds
  <2>3. m \in 0..n /\ m - 1 \in 0..n
    OBVIOUS
  <2> QED
    BY <2>2, <2>3
<1>6. g = [m \in 0..n |-> g[m]] /\ SumOf(numbers) = g[n]
  BY <1>1
<1> HIDE DEF g
<1>7. Partial(g, numbers, n)
  BY <1>4, <1>5 DEF Partial
<1> QED
  BY <1>6, <1>7

\* Sums of as many numbers that are the same, up to some position.
LEMMA PartialSame ==
  ASSUME NEW n \in Nat, NEW a, NEW b, NEW g, NEW h, Partial(g, a, n), Partial(h, b, n),
         \A m \in 1..n : a[m] = b[m]
  PROVE  \A m \in 0..n : g[m] = h[m]
<1> DEFINE B == {m \in 0..n : g[m] # h[m]}
<1> SUFFICES ASSUME B # {}
             PROVE  FALSE
  OBVIOUS
<1>1. PICK m \in B : \A d \in B : m <= d
  <2>1. B \in SUBSET Nat
    OBVIOUS
  <2> HIDE DEF B
  <2> QED
    BY <2>1, LeastOne
<1>2. m # 0
  BY DEF Partial
<1>3. m \in 1..n /\ m - 1 \in 0..n /\ m - 1 \notin B
  BY <1>1, <1>2
<1>4. g[m-1] = h[m-1] /\ a[m] = b[m] /\ g[m] = g[m-1] + a[m] /\ h[m] = h[m-1] + b[m]
  BY <1>3 DEF Partial
<1> QED
  BY <1>1, <1>4

\* Sums of numbers are numbers.
LEMMA PartialType ==
  ASSUME NEW n \in Nat, NEW a, NEW g, Partial(g, a, n), \A m \in 1..n : a[m] \in Int
  PROVE  \A m \in 0..n : g[m] \in Int
<1> DEFINE B == {m \in 0..n : g[m] \notin Int}
<1> SUFFICES ASSUME B # {}
             PROVE  FALSE
  OBVIOUS
<1>1. PICK m \in B : \A d \in B : m <= d
  <2>1. B \in SUBSET Nat
    OBVIOUS
  <2> HIDE DEF B
  <2> QED
    BY <2>1, LeastOne
<1>2. m # 0
  BY DEF Partial
<1>3. m \in 1..n /\ m - 1 \in 0..n /\ m - 1 \notin B
  BY <1>1, <1>2
<1>4. g[m-1] \in Int /\ a[m] \in Int /\ g[m] = g[m-1] + a[m]
  BY <1>3 DEF Partial
<1> QED
  BY <1>1, <1>4

\* The numbers at the first n positions.
Numbers(a, n) == DOMAIN a = 1..n /\ \A m \in 1..n : a[m] \in Int

\* The sum of no numbers, of some, and of those and others.
LEMMA SumOfNone ==
  ASSUME NEW a, DOMAIN a = 1..0
  PROVE  SumOf(a) = 0
<1>1. PICK g : Partial(g, a, 0) /\ SumOf(a) = g[0]
  BY SumRuns
<1> QED
  BY <1>1 DEF Partial

LEMMA SumType ==
  ASSUME NEW n \in Nat, NEW a, Numbers(a, n)
  PROVE  SumOf(a) \in Int
<1>1. DOMAIN a = 1..n /\ \A m \in 1..n : a[m] \in Int
  BY DEF Numbers
<1>2. PICK g : Partial(g, a, n) /\ SumOf(a) = g[n]
  BY <1>1, SumRuns
<1>3. \A m \in 0..n : g[m] \in Int
  BY <1>1, <1>2, PartialType
<1> QED
  BY <1>2, <1>3

LEMMA SumOfBoth ==
  ASSUME NEW n \in Nat, NEW k \in Nat, NEW a, NEW b, NEW c,
         Numbers(a, n), Numbers(b, k), DOMAIN c = 1..(n + k),
         \A m \in 1..n : c[m] = a[m], \A m \in 1..k : c[n + m] = b[m]
  PROVE  SumOf(c) = SumOf(a) + SumOf(b)
<1>1. DOMAIN a = 1..n /\ DOMAIN b = 1..k
  BY DEF Numbers
<1>2. PICK g : Partial(g, a, n) /\ SumOf(a) = g[n]
  BY <1>1, SumRuns
<1>3. PICK h : Partial(h, b, k) /\ SumOf(b) = h[k]
  BY <1>1, SumRuns
<1>4. PICK f : Partial(f, c, n + k) /\ SumOf(c) = f[n + k]
  <2>1. n + k \in Nat
    OBVIOUS
  <2> QED
    BY <2>1, SumRuns
<1>5. Partial(f, c, n)
  BY <1>4 DEF Partial
<1>6. f[n] = g[n]
  <2>1. \A m \in 0..n : f[m] = g[m]
    BY <1>2, <1>5, PartialSame
  <2> QED
    BY <2>1
<1>7. g[n] \in Int /\ \A m \in 0..k : h[m] \in Int
  <2>1. \A m \in 0..n : g[m] \in Int
    BY <1>2, PartialType DEF Numbers
  <2>2. \A m \in 0..k : h[m] \in Int
    BY <1>3, PartialType DEF Numbers
  <2> QED
    BY <2>1, <2>2
<1>8. \A m \in 0..k : f[n + m] = g[n] + h[m]
  <2> DEFINE B == {m \in 0..k : f[n + m] # g[n] + h[m]}
  <2> SUFFICES ASSUME B # {}
               PROVE  FALSE
    OBVIOUS
  <2>1. PICK m \in B : \A d \in B : m <= d
    <3>1. B \in SUBSET Nat
      OBVIOUS
    <3> HIDE DEF B
    <3> QED
      BY <3>1, LeastOne
  <2>2. m # 0
    <3>1. h[0] = 0
      BY <1>3 DEF Partial
    <3>2. f[n + 0] = g[n] + h[0]
      BY <1>6, <1>7, <3>1
    <3> QED
      BY <2>1, <3>2
  <2>3. m \in 1..k /\ m - 1 \in 0..k /\ m - 1 \notin B /\ n + m \in 1..(n + k) /\ (n + m) - 1 = n + (m - 1)
    BY <2>1, <2>2
  <2>4. f[n + (m - 1)] = g[n] + h[m-1]
    BY <2>3
  <2>5. f[n + m] = f[n + (m - 1)] + c[n + m]
    BY <1>4, <2>3 DEF Partial
  <2>6. h[m] = h[m-1] + b[m] /\ b[m] \in Int /\ c[n + m] = b[m] /\ h[m-1] \in Int
    BY <1>3, <1>7, <2>3 DEF Partial, Numbers
  <2>7. f[n + m] = g[n] + h[m]
    BY <1>7, <2>4, <2>5, <2>6
  <2> QED
    BY <2>1, <2>7
<1>9. k \in 0..k
  OBVIOUS
<1> QED
  BY <1>2, <1>3, <1>4, <1>8, <1>9

\* Sums of the same numbers.
LEMMA SumSame ==
  ASSUME NEW n \in Nat, NEW a, NEW b, DOMAIN a = 1..n, DOMAIN b = 1..n, \A m \in 1..n : a[m] = b[m]
  PROVE  SumOf(a) = SumOf(b)
<1>1. PICK g : Partial(g, a, n) /\ SumOf(a) = g[n]
  BY SumRuns
<1>2. PICK h : Partial(h, b, n) /\ SumOf(b) = h[n]
  BY SumRuns
<1>3. \A m \in 0..n : g[m] = h[m]
  BY <1>1, <1>2, PartialSame
<1> QED
  BY <1>1, <1>2, <1>3

\* One number more.
LEMMA SumOneMore ==
  ASSUME NEW n \in Nat, NEW a, NEW c, Numbers(a, n), DOMAIN c = 1..(n + 1),
         \A m \in 1..n : c[m] = a[m], c[n + 1] \in Int
  PROVE  SumOf(c) = SumOf(a) + c[n + 1]
<1> DEFINE b == [m \in 1..1 |-> c[n + 1]]
<1>1. DOMAIN b = 1..1 /\ \A m \in 1..1 : b[m] = c[n + 1] /\ c[n + m] = b[m]
  OBVIOUS
<1> HIDE DEF b
<1>2. Numbers(b, 1)
  BY <1>1 DEF Numbers
<1>3. SumOf(c) = SumOf(a) + SumOf(b)
  BY <1>1, <1>2, SumOfBoth
<1>4. SumOf(b) = c[n + 1]
  <2>1. PICK h : Partial(h, b, 1) /\ SumOf(b) = h[1]
    <3>1. 1 \in Nat /\ DOMAIN b = 1..1
      BY <1>1
    <3> QED
      BY <3>1, SumRuns
  <2>2. 1 \in 1..1 /\ 1 - 1 = 0
    OBVIOUS
  <2>3. h[0] = 0 /\ h[1] = h[1-1] + b[1] /\ b[1] = c[n + 1]
    BY <1>1, <2>1, <2>2 DEF Partial
  <2>4. h[1] = 0 + c[n + 1]
    BY <2>2, <2>3
  <2> QED
    BY <2>1, <2>4
<1> QED
  BY <1>3, <1>4

-----------------------------------------------------------------------------
\* A list of rules, one after the other.

Took(res, r, mode, maps) ==
  CASE res.list # "open" -> res
    [] evalRule(r, maps) = "no" -> res
    [] evalRule(r, maps) = "error" -> [res EXCEPT !.list = "failed"]
    [] OTHER -> applyMatchedRule(res, r, mode)

Takes(it, rules, mode, maps, n) ==
  it = [S \in SUBSET (1..n) |-> IF S = {} THEN NoResult
                                ELSE Took(it[S \ {Seqs!Max(S)}], rules[Seqs!Max(S)], mode, maps)]

\* There is a function on sets of positions that evalRules can be defined by.
LEMMA TakesExists ==
  ASSUME NEW rules, NEW mode, NEW maps, NEW n \in Nat
  PROVE  \E it : Takes(it, rules, mode, maps, n)
<1> DEFINE B == {m \in Nat : ~ \E it : Takes(it, rules, mode, maps, m)}
<1> SUFFICES ASSUME B # {}
             PROVE  FALSE
  OBVIOUS
<1>1. PICK m \in B : \A d \in B : m <= d
  <2>1. B \in SUBSET Nat
    OBVIOUS
  <2> HIDE DEF B
  <2> QED
    BY <2>1, LeastOne
<1>2. m # 0
  <2>1. \A S \in SUBSET (1..0) : S = {}
    OBVIOUS
  <2> DEFINE it == [S \in SUBSET (1..0) |-> NoResult]
  <2>2. it = [S \in SUBSET (1..0) |-> IF S = {} THEN NoResult
                                      ELSE Took(it[S \ {Seqs!Max(S)}], rules[Seqs!Max(S)], mode, maps)]
    BY <2>1
  <2> HIDE DEF it
  <2>3. Takes(it, rules, mode, maps, 0)
    BY <2>2 DEF Takes
  <2> QED
    BY <2>3
<1>3. m - 1 \in Nat /\ m - 1 \notin B /\ m \in Nat
  BY <1>1, <1>2
<1>4. PICK it : Takes(it, rules, mode, maps, m - 1)
  BY <1>3
<1> DEFINE more == [S \in SUBSET (1..m) |-> IF m \in S THEN Took(it[S \ {m}], rules[m], mode, maps) ELSE it[S]]
<1>5. ASSUME NEW S \in SUBSET (1..m)
      PROVE  more[S] = IF S = {} THEN NoResult
                       ELSE Took(more[S \ {Seqs!Max(S)}], rules[Seqs!Max(S)], mode, maps)
  <2>1. CASE m \in S
    <3>1. Seqs!Max(S) = m /\ S # {} /\ S \ {m} \in SUBSET (1..m) /\ m \notin S \ {m}
      BY <1>3, <2>1, GreatestOf
    <3>2. more[S] = Took(it[S \ {m}], rules[m], mode, maps) /\ more[S \ {m}] = it[S \ {m}]
      BY <2>1, <3>1
    <3> HIDE DEF more
    <3> QED
      BY <3>1, <3>2
  <2>2. CASE m \notin S
    <3>1. S \in SUBSET (1..(m-1))
      BY <1>3, <2>2
    <3>2. more[S] = it[S]
      BY <2>2
    <3>3. it[S] = IF S = {} THEN NoResult
                  ELSE Took(it[S \ {Seqs!Max(S)}], rules[Seqs!Max(S)], mode, maps)
      BY <1>4, <3>1 DEF Takes
    <3>4. S \ {Seqs!Max(S)} \in SUBSET (1..m) /\ m \notin S \ {Seqs!Max(S)}
      BY <2>2
    <3>5. more[S \ {Seqs!Max(S)}] = it[S \ {Seqs!Max(S)}]
      BY <3>4
    <3> HIDE DEF more
    <3> QED
      BY <3>2, <3>3, <3>5
  <2> QED
    BY <2>1, <2>2
<1>6. more = [S \in SUBSET (1..m) |-> more[S]]
  OBVIOUS
<1> HIDE DEF more
<1>7. Takes(more, rules, mode, maps, m)
  BY <1>5, <1>6 DEF Takes
<1> QED
  BY <1>1, <1>7

\* What the evaluation has after each rule.
Running(g, rules, mode, maps, n) ==
  /\ g[0] = NoResult
  /\ \A m \in 1..n : g[m] = Took(g[m-1], rules[m], mode, maps)
  /\ evalRules(rules, mode, maps) = g[n]

LEMMA RulesRun ==
  ASSUME NEW rules, NEW mode, NEW maps, NEW n \in Nat, DOMAIN rules = 1..n
  PROVE  \E g : Running(g, rules, mode, maps, n)
<1> DEFINE it == CHOOSE u : Takes(u, rules, mode, maps, n)
           g == [m \in 0..n |-> it[1..m]]
<1>1. evalRules(rules, mode, maps) = it[1..n]
  <2>1. evalRules(rules, mode, maps) =
          (CHOOSE u : u = [S \in SUBSET DOMAIN rules |-> IF S = {} THEN NoResult
                             ELSE Took(u[S \ {Seqs!Max(S)}], rules[Seqs!Max(S)], mode, maps)])[DOMAIN rules]
    BY DEF evalRules, Took, Seqs!FoldLeft, Seqs!MapThenFoldSet
  <2> QED
    BY <2>1 DEF Takes
<1>2. Takes(it, rules, mode, maps, n)
  BY TakesExists
<1> HIDE DEF it
<1>3. 1..0 = {}
  OBVIOUS
<1>4. g[0] = NoResult
  BY <1>2, <1>3 DEF Takes
<1>5. ASSUME NEW m \in 1..n
      PROVE  g[m] = Took(g[m-1], rules[m], mode, maps)
  <2>1. 1..m \in SUBSET (1..n) /\ 1..m # {} /\ (1..m) \ {m} = 1..(m-1) /\ Seqs!Max(1..m) = m
    BY FirstPositions
  <2>2. it[1..m] = Took(it[1..(m-1)], rules[m], mode, maps)
    BY <1>2, <2>1 DEF Takes
  <2>3. m \in 0..n /\ m - 1 \in 0..n
    OBVIOUS
  <2> QED
    BY <2>2, <2>3
<1>6. evalRules(rules, mode, maps) = g[n]
  BY <1>1
<1> HIDE DEF g
<1>7. Running(g, rules, mode, maps, n)
  BY <1>4, <1>5, <1>6 DEF Running
<1> QED
  BY <1>7

-----------------------------------------------------------------------------
\* What a list of rules adds up.

\* Rules whose scores are numbers, no two with one id.
Tellable(rules, n) ==
  /\ DOMAIN rules = 1..n
  /\ \A i \in 1..n : rules[i].score \in Int
  /\ \A i, j \in 1..n : rules[i].id = rules[j].id => i = j

\* The score of each of the first m rules that has its id among some.
Shares(rules, ids, m) == [i \in 1..m |-> IF rules[i].id \in ids THEN rules[i].score ELSE 0]

\* The result of the first m rules is what these add up to.
Accounted(res, rules, m) ==
  /\ {"ids", "score"} \subseteq DOMAIN res
  /\ Ordered(res.ids)
  /\ Members(res.ids) \subseteq {rules[i].id : i \in 1..m}
  /\ res.score = SumOf(Shares(rules, Members(res.ids), m))

\* The members of a list with one more.
LEMMA MembersOneMore ==
  ASSUME NEW ids, Ordered(ids), NEW id
  PROVE  Members(Append(ids, id)) = Members(ids) \cup {id} /\ Ordered(Append(ids, id))
<1>1. /\ DOMAIN Append(ids, id) = 1..(Len(ids) + 1) /\ Append(ids, id)[Len(ids) + 1] = id
      /\ \A i \in DOMAIN ids : Append(ids, id)[i] = ids[i]
      /\ DOMAIN ids = 1..Len(ids) /\ Len(ids) \in Nat /\ Ordered(Append(ids, id))
  BY OneMore, OrderedFacts
<1>2. ASSUME NEW i \in 1..(Len(ids) + 1)
      PROVE  i \in DOMAIN ids \/ i = Len(ids) + 1
  BY <1>1
<1>3. DOMAIN ids \subseteq DOMAIN Append(ids, id) /\ Len(ids) + 1 \in DOMAIN Append(ids, id)
  BY <1>1
<1>4. Members(Append(ids, id)) \subseteq Members(ids) \cup {id}
  BY <1>1, <1>2 DEF Members
<1>5. Members(ids) \cup {id} \subseteq Members(Append(ids, id))
  BY <1>1, <1>3 DEF Members
<1> QED
  BY <1>1, <1>4, <1>5

LEMMA SharesNumbers ==
  ASSUME NEW rules, NEW n \in Nat, Tellable(rules, n), NEW ids, NEW m \in 0..n
  PROVE  Numbers(Shares(rules, ids, m), m)
  BY DEF Tellable, Shares, Numbers

LEMMA AccountedOneMore ==
  ASSUME NEW rules, NEW mode, NEW maps, NEW n \in Nat, Tellable(rules, n), NEW m \in 1..n,
         NEW res, Accounted(res, rules, m - 1)
  PROVE  Accounted(Took(res, rules[m], mode, maps), rules, m)
<1> DEFINE new == Took(res, rules[m], mode, maps)
           before == Shares(rules, Members(res.ids), m - 1)
<1>1. m - 1 \in Nat /\ m - 1 \in 0..n /\ m \in 0..n /\ (m - 1) + 1 = m /\ m \in Nat
  OBVIOUS
<1>2. Numbers(before, m - 1) /\ SumOf(before) \in Int
  <2>1. Numbers(before, m - 1)
    BY <1>1, SharesNumbers
  <2> HIDE DEF before
  <2> QED
    BY <1>1, <2>1, SumType
<1>3. rules[m].id \notin Members(res.ids)
  BY <1>1 DEF Accounted, Tellable
<1>4. \A ids : /\ DOMAIN Shares(rules, ids, m) = 1..m
               /\ \A i \in 1..(m-1) : Shares(rules, ids, m)[i] = IF rules[i].id \in ids THEN rules[i].score ELSE 0
               /\ Shares(rules, ids, m)[m] = IF rules[m].id \in ids THEN rules[m].score ELSE 0
  BY DEF Shares
<1>5. \A i \in 1..(m-1) : before[i] = IF rules[i].id \in Members(res.ids) THEN rules[i].score ELSE 0
  BY DEF Shares
<1>6. {rules[i].id : i \in 1..(m-1)} \subseteq {rules[i].id : i \in 1..m} /\ rules[m].id \in {rules[i].id : i \in 1..m}
  BY <1>1
<1>7. rules[m].score \in Int
  BY DEF Tellable
<1>8. {"ids", "score"} \subseteq DOMAIN new
  BY DEF Accounted, Took, applyMatchedRule
<1>9. CASE new.ids = res.ids /\ new.score = res.score
  <2> DEFINE after == Shares(rules, Members(res.ids), m)
  <2>1. DOMAIN after = 1..m /\ after[m] = 0 /\ \A i \in 1..(m-1) : after[i] = before[i]
    BY <1>3, <1>4, <1>5
  <2> HIDE DEF after, before
  <2>2. SumOf(after) = SumOf(before) + after[m]
    BY <1>1, <1>2, <2>1, SumOneMore
  <2>3. SumOf(after) = SumOf(before)
    BY <1>2, <2>1, <2>2
  <2>4. res.score = SumOf(before)
    BY DEF Accounted, before
  <2>5. Members(new.ids) \subseteq {rules[i].id : i \in 1..m} /\ Ordered(new.ids)
    BY <1>6, <1>9 DEF Accounted
  <2>6. new.score = SumOf(Shares(rules, Members(new.ids), m))
    BY <1>9, <2>3, <2>4 DEF after
  <2> QED
    BY <1>8, <2>5, <2>6 DEF Accounted
<1>10. CASE new.ids = Append(res.ids, rules[m].id) /\ new.score = res.score + rules[m].score
  <2> DEFINE after == Shares(rules, Members(res.ids) \cup {rules[m].id}, m)
  <2>1. DOMAIN after = 1..m /\ after[m] = rules[m].score
    BY <1>4
  <2>2. \A i \in 1..(m-1) : after[i] = before[i]
    <3>1. \A i \in 1..(m-1) : rules[i].id # rules[m].id
      BY <1>1 DEF Tellable
    <3> QED
      BY <1>4, <1>5, <3>1
  <2> HIDE DEF after, before
  <2>3. SumOf(after) = SumOf(before) + after[m]
    BY <1>1, <1>2, <1>7, <2>1, <2>2, SumOneMore
  <2>4. res.score = SumOf(before)
    BY DEF Accounted, before
  <2>5. Members(new.ids) = Members(res.ids) \cup {rules[m].id} /\ Ordered(new.ids)
    BY <1>10, MembersOneMore DEF Accounted
  <2>6. Members(res.ids) \subseteq {rules[i].id : i \in 1..(m-1)}
    BY DEF Accounted
  <2>7. Members(new.ids) \subseteq {rules[i].id : i \in 1..m}
    BY <1>6, <2>5, <2>6
  <2>8. new.score = SumOf(after)
    BY <1>10, <2>1, <2>3, <2>4
  <2>9. new.score = SumOf(Shares(rules, Members(new.ids), m))
    BY <2>5, <2>8 DEF after
  <2> QED
    BY <1>8, <2>5, <2>7, <2>9 DEF Accounted
<1>11. \/ new.ids = res.ids /\ new.score = res.score
       \/ new.ids = Append(res.ids, rules[m].id) /\ new.score = res.score + rules[m].score
  <2>1. CASE res.list # "open" \/ evalRule(rules[m], maps) = "no"
    BY <2>1 DEF Took
  <2>2. CASE res.list = "open" /\ evalRule(rules[m], maps) = "error"
    <3>1. new = [res EXCEPT !.list = "failed"]
      BY <2>2 DEF Took
    <3>2. "ids" \in DOMAIN res /\ "score" \in DOMAIN res
      BY DEF Accounted
    <3> HIDE DEF new
    <3> QED
      BY <3>1, <3>2
  <2>3. CASE res.list = "open" /\ evalRule(rules[m], maps) \notin {"no", "error"}
    BY <2>3 DEF Took, applyMatchedRule
  <2> QED
    BY <2>1, <2>2, <2>3
<1> QED
  BY <1>9, <1>10, <1>11

\* A list of rules gives the scores of the rules that it tells.
LEMMA RulesAccounted ==
  ASSUME NEW rules, NEW mode, NEW maps, NEW n \in Nat, Tellable(rules, n)
  PROVE  Accounted(evalRules(rules, mode, maps), rules, n)
<1>1. PICK g : Running(g, rules, mode, maps, n)
  <2>1. DOMAIN rules = 1..n
    BY DEF Tellable
  <2> QED
    BY <2>1, RulesRun
<1> DEFINE B == {m \in 0..n : ~Accounted(g[m], rules, m)}
<1>2. B = {}
  <2> SUFFICES ASSUME B # {}
               PROVE  FALSE
    OBVIOUS
  <2>1. PICK m \in B : \A d \in B : m <= d
    <3>1. B \in SUBSET Nat
      OBVIOUS
    <3> HIDE DEF B
    <3> QED
      BY <3>1, LeastOne
  <2>2. Accounted(NoResult, rules, 0)
    <3>1. Ordered(<<>>) /\ Members(<<>>) = {}
      BY NoneYet DEF Members
    <3>2. DOMAIN Shares(rules, {}, 0) = 1..0
      BY DEF Shares
    <3>3. SumOf(Shares(rules, {}, 0)) = 0
      BY <3>2, SumOfNone
    <3> QED
      BY <3>1, <3>3 DEF Accounted, NoResult
  <2>3. m # 0
    BY <1>1, <2>2 DEF Running
  <2>4. m \in 1..n /\ m - 1 \in 0..n /\ m - 1 \notin B
    BY <2>1, <2>3
  <2>5. Accounted(g[m-1], rules, m - 1)
    BY <2>4
  <2>6. Accounted(g[m], rules, m)
    BY <1>1, <2>4, <2>5, AccountedOneMore DEF Running
  <2> QED
    BY <2>1, <2>6
<1>3. n \in 0..n
  OBVIOUS
<1> QED
  BY <1>1, <1>2, <1>3 DEF Running

-----------------------------------------------------------------------------
\* Lists one behind the other.

LEMMA BothOrdered ==
  ASSUME NEW s, NEW t, Ordered(s), Ordered(t)
  PROVE  /\ Ordered(s \o t) /\ Len(s) \in Nat /\ Len(t) \in Nat
         /\ DOMAIN s = 1..Len(s) /\ DOMAIN t = 1..Len(t)
         /\ DOMAIN (s \o t) = 1..(Len(s) + Len(t))
         /\ \A i \in 1..Len(s) : (s \o t)[i] = s[i]
         /\ \A i \in 1..Len(t) : (s \o t)[Len(s) + i] = t[i]
<1> DEFINE S == {s[i] : i \in DOMAIN s} \cup {t[i] : i \in DOMAIN t}
           u == s \o t
<1>1. Len(s) \in Nat /\ DOMAIN s = 1..Len(s) /\ Len(t) \in Nat /\ DOMAIN t = 1..Len(t)
  BY OrderedFacts
<1>2. s \in Seq(S) /\ t \in Seq(S)
  <2>1. s \in Seq({s[i] : i \in DOMAIN s}) /\ t \in Seq({t[i] : i \in DOMAIN t})
    BY DEF Ordered
  <2>2. s \in [1..Len(s) -> S] /\ t \in [1..Len(t) -> S]
    BY <1>1, <2>1
  <2> QED
    BY <1>1, <2>2
<1>3. /\ u \in Seq(S) /\ Len(u) = Len(s) + Len(t)
      /\ \A i \in 1..(Len(s) + Len(t)) : u[i] = IF i <= Len(s) THEN s[i] ELSE t[i - Len(s)]
  <2> HIDE DEF S
  <2> QED
    BY <1>2, ConcatProperties
<1>4. DOMAIN u = 1..(Len(s) + Len(t))
  BY <1>3
<1>5. Ordered(u)
  <2> HIDE DEF u
  <2>1. u \in [1..(Len(s) + Len(t)) -> {u[i] : i \in DOMAIN u}]
    BY <1>3, <1>4
  <2>2. Len(s) + Len(t) \in Nat
    BY <1>1
  <2>3. \A T : \A k \in Nat : \A f \in [1..k -> T] : f \in Seq(T)
    OBVIOUS
  <2>4. u \in Seq({u[i] : i \in DOMAIN u})
    BY <2>1, <2>2, <2>3, Zenon
  <2> QED
    BY <2>4, Zenon DEF Ordered
<1>6. \A i \in 1..Len(s) : u[i] = s[i]
  BY <1>1, <1>3
<1>7. ASSUME NEW i \in 1..Len(t)
      PROVE  u[Len(s) + i] = t[i]
  <2>1. Len(s) + i \in 1..(Len(s) + Len(t)) /\ ~(Len(s) + i <= Len(s)) /\ (Len(s) + i) - Len(s) = i
    BY <1>1
  <2> QED
    BY <1>3, <2>1
<1> QED
  BY <1>1, <1>4, <1>5, <1>6, <1>7

\* Nothing before a list.
LEMMA NoneBefore ==
  ASSUME NEW t, Ordered(t)
  PROVE  <<>> \o t = t
  BY DEF Ordered

Joins(g, seqs, n) == g = [m \in 0..n |-> IF m = 0 THEN <<>> ELSE g[m-1] \o seqs[m]]

LEMMA JoinsExist ==
  ASSUME NEW seqs, NEW n \in Nat
  PROVE  \E g : Joins(g, seqs, n)
<1> DEFINE B == {m \in Nat : ~ \E g : Joins(g, seqs, m)}
<1> SUFFICES ASSUME B # {}
             PROVE  FALSE
  OBVIOUS
<1>1. PICK m \in B : \A d \in B : m <= d
  <2>1. B \in SUBSET Nat
    OBVIOUS
  <2> HIDE DEF B
  <2> QED
    BY <2>1, LeastOne
<1>2. m # 0
  <2> DEFINE f == [i \in 0..0 |-> <<>>]
  <2>1. f = [i \in 0..0 |-> IF i = 0 THEN <<>> ELSE f[i-1] \o seqs[i]]
    OBVIOUS
  <2>2. Joins(f, seqs, 0)
    BY <2>1 DEF Joins
  <2> QED
    BY <2>2
<1>3. m - 1 \in Nat /\ m - 1 \notin B /\ m \in Nat
  BY <1>1, <1>2
<1>4. PICK g : Joins(g, seqs, m - 1)
  BY <1>3
<1> DEFINE f == [i \in 0..m |-> IF i = m THEN g[m-1] \o seqs[m] ELSE g[i]]
<1>5. ASSUME NEW i \in 0..m
      PROVE  f[i] = IF i = 0 THEN <<>> ELSE f[i-1] \o seqs[i]
  <2>1. CASE i = m
    <3>1. m - 1 \in 0..m /\ m - 1 # m /\ m # 0
      BY <1>2, <1>3
    <3> QED
      BY <2>1, <3>1
  <2>2. CASE i # m
    <3>1. i \in 0..(m-1) /\ f[i] = g[i] /\ (i # 0 => i - 1 \in 0..m /\ i - 1 # m /\ f[i-1] = g[i-1])
      BY <1>3, <2>2
    <3>2. g[i] = IF i = 0 THEN <<>> ELSE g[i-1] \o seqs[i]
      BY <1>4, <3>1 DEF Joins
    <3> QED
      BY <3>1, <3>2
  <2> QED
    BY <2>1, <2>2
<1>6. f = [i \in 0..m |-> f[i]]
  OBVIOUS
<1> HIDE DEF f
<1>7. Joins(f, seqs, m)
  BY <1>5, <1>6 DEF Joins
<1> QED
  BY <1>1, <1>7

\* All of some lists, after each of them.
LEMMA FlattenRuns ==
  ASSUME NEW seqs, NEW n \in Nat, Len(seqs) = n, n = 0 => seqs = <<>>, \A m \in 1..n : Ordered(seqs[m])
  PROVE  \E g : /\ g[0] = <<>> /\ \A m \in 1..n : g[m] = g[m-1] \o seqs[m]
                /\ Seqs!FlattenSeq(seqs) = g[n]
<1>1. PICK g : Joins(g, seqs, n)
  BY JoinsExist
<1>2. g[0] = <<>> /\ \A m \in 1..n : g[m] = g[m-1] \o seqs[m]
  <2>1. \A m \in 0..n : g[m] = IF m = 0 THEN <<>> ELSE g[m-1] \o seqs[m]
    BY <1>1 DEF Joins
  <2>2. 0 \in 0..n /\ \A m \in 1..n : m \in 0..n /\ m # 0
    OBVIOUS
  <2> QED
    BY <2>1, <2>2
<1>3. CASE n = 0
  BY <1>2, <1>3 DEF Seqs!FlattenSeq
<1>4. CASE n # 0
  <2> DEFINE Flat(it) == it = [m \in 1..n |-> IF m = 1 THEN seqs[m] ELSE it[m-1] \o seqs[m]]
             flat == CHOOSE it : Flat(it)
             h == [m \in 1..n |-> g[m]]
  <2>1. Seqs!FlattenSeq(seqs) = flat[n]
    BY <1>4 DEF Seqs!FlattenSeq
  <2>2. ASSUME NEW m \in 1..n
        PROVE  h[m] = IF m = 1 THEN seqs[m] ELSE h[m-1] \o seqs[m]
    <3>1. CASE m = 1
      <4>1. g[m] = g[m-1] \o seqs[m]
        BY <1>2, Zenon
      <4>2. g[m-1] = <<>> /\ Ordered(seqs[m])
        <5>1. m - 1 = 0
          BY <3>1
        <5> QED
          BY <1>2, <5>1
      <4> QED
        BY <3>1, <4>1, <4>2, NoneBefore
    <3>2. CASE m # 1
      <4>1. m - 1 \in 1..n
        BY <3>2
      <4> QED
        BY <1>2, <3>2, <4>1
    <3> QED
      BY <3>1, <3>2
  <2>3. h = [m \in 1..n |-> h[m]]
    OBVIOUS
  <2>4. \A m \in 1..n : h[m] = g[m]
    OBVIOUS
  <2> HIDE DEF h
  <2>5. Flat(h)
    BY <2>2, <2>3
  <2>6. Flat(flat)
    <3> HIDE DEF Flat
    <3> QED
      BY <2>5
  <2>7. \A m \in 1..n : flat[m] = IF m = 1 THEN seqs[m] ELSE flat[m-1] \o seqs[m]
    <3> HIDE DEF flat
    <3> QED
      BY <2>6
  <2> HIDE DEF flat
  <2> DEFINE B == {m \in 1..n : flat[m] # h[m]}
  <2>8. B = {}
    <3> SUFFICES ASSUME B # {}
                 PROVE  FALSE
      OBVIOUS
    <3>1. PICK m \in B : \A d \in B : m <= d
      <4>1. B \in SUBSET Nat
        OBVIOUS
      <4> HIDE DEF B
      <4> QED
        BY <4>1, LeastOne
    <3>2. m # 1
      BY <2>2, <2>7, <3>1
    <3>3. m \in 1..n /\ m - 1 \in 1..n /\ m - 1 \notin B
      BY <3>1, <3>2
    <3>4. flat[m-1] = h[m-1]
      BY <3>3
    <3> QED
      BY <2>2, <2>7, <3>1, <3>2, <3>3, <3>4
  <2>9. n \in 1..n
    BY <1>4
  <2> QED
    BY <1>2, <2>1, <2>4, <2>8, <2>9
<1> QED
  BY <1>3, <1>4

-----------------------------------------------------------------------------
\* What deltas add up.

InNumbers(deltas) == Ordered(deltas) /\ \A i \in DOMAIN deltas : deltas[i].delta \in Int

LEMMA WorthsNumbers ==
  ASSUME NEW deltas, InNumbers(deltas), NEW ids
  PROVE  Numbers(Worths(deltas, ids), Len(deltas)) /\ Len(deltas) \in Nat /\ Counted(deltas, ids) \in Int
<1>1. Len(deltas) \in Nat /\ DOMAIN deltas = 1..Len(deltas)
  BY OrderedFacts DEF InNumbers
<1>2. Numbers(Worths(deltas, ids), Len(deltas))
  BY <1>1 DEF Numbers, Worths, InNumbers
<1> QED
  BY <1>1, <1>2, SumType DEF Counted

LEMMA CountedBoth ==
  ASSUME NEW one, NEW two, InNumbers(one), InNumbers(two), NEW ids
  PROVE  InNumbers(one \o two) /\ Counted(one \o two, ids) = Counted(one, ids) + Counted(two, ids)
<1> DEFINE both == one \o two
<1>1. /\ Ordered(both) /\ Len(one) \in Nat /\ Len(two) \in Nat
      /\ DOMAIN one = 1..Len(one) /\ DOMAIN two = 1..Len(two)
      /\ DOMAIN both = 1..(Len(one) + Len(two))
      /\ \A i \in 1..Len(one) : both[i] = one[i]
      /\ \A i \in 1..Len(two) : both[Len(one) + i] = two[i]
  BY BothOrdered DEF InNumbers
<1> HIDE DEF both
<1>2. ASSUME NEW i \in 1..(Len(one) + Len(two))
      PROVE  i \in 1..Len(one) \/ \E j \in 1..Len(two) : i = Len(one) + j
  <2>1. CASE i > Len(one)
    <3>1. i - Len(one) \in 1..Len(two) /\ i = Len(one) + (i - Len(one))
      BY <1>1, <2>1
    <3> QED
      BY <3>1
  <2>2. CASE ~(i > Len(one))
    BY <1>1, <2>2
  <2> QED
    BY <2>1, <2>2
<1>3. InNumbers(both)
  <2>1. ASSUME NEW i \in DOMAIN both
        PROVE  both[i].delta \in Int
    BY <1>1, <1>2 DEF InNumbers
  <2> QED
    BY <1>1, <2>1 DEF InNumbers
<1>4. Numbers(Worths(one, ids), Len(one)) /\ Numbers(Worths(two, ids), Len(two))
  BY WorthsNumbers
<1>5. DOMAIN Worths(both, ids) = 1..(Len(one) + Len(two))
  BY <1>1 DEF Worths
<1>6. \A i \in 1..Len(one) : Worths(both, ids)[i] = Worths(one, ids)[i]
  <2>1. \A i \in 1..Len(one) : i \in 1..(Len(one) + Len(two))
    BY <1>1
  <2> QED
    BY <1>1, <2>1 DEF Worths
<1>7. \A i \in 1..Len(two) : Worths(both, ids)[Len(one) + i] = Worths(two, ids)[i]
  <2>1. \A i \in 1..Len(two) : Len(one) + i \in 1..(Len(one) + Len(two))
    BY <1>1
  <2> QED
    BY <1>1, <2>1 DEF Worths
<1> DEFINE a == Worths(one, ids)
           b == Worths(two, ids)
           c == Worths(both, ids)
<1>8. SumOf(c) = SumOf(a) + SumOf(b)
  <2>1. /\ Len(one) \in Nat /\ Len(two) \in Nat /\ Numbers(a, Len(one)) /\ Numbers(b, Len(two))
        /\ DOMAIN c = 1..(Len(one) + Len(two))
        /\ \A i \in 1..Len(one) : c[i] = a[i]
        /\ \A i \in 1..Len(two) : c[Len(one) + i] = b[i]
    BY <1>1, <1>4, <1>5, <1>6, <1>7
  <2> HIDE DEF a, b, c
  <2> DEFINE n == Len(one)
             k == Len(two)
  <2>2. /\ n \in Nat /\ k \in Nat /\ Numbers(a, n) /\ Numbers(b, k) /\ DOMAIN c = 1..(n + k)
        /\ \A i \in 1..n : c[i] = a[i]
        /\ \A i \in 1..k : c[n + i] = b[i]
    BY <2>1
  <2> HIDE DEF n, k
  <2> QED
    BY <2>2, SumOfBoth
<1> QED
  BY <1>3, <1>8 DEF Counted, both

\* Nothing explained is nothing.
LEMMA CountedNone ==
  ASSUME NEW ids
  PROVE  InNumbers(<<>>) /\ Counted(<<>>, ids) = 0
<1>1. DOMAIN <<>> = {} /\ Ordered(<<>>)
  BY NoneYet
<1>2. DOMAIN Worths(<<>>, ids) = 1..0
  BY <1>1 DEF Worths
<1> QED
  BY <1>1, <1>2, SumOfNone DEF Counted, InNumbers

\* Rules that none of the deltas are about do not matter.
LEMMA CountedSame ==
  ASSUME NEW deltas, InNumbers(deltas), NEW ids, NEW others,
         \A i \in DOMAIN deltas : Counts(deltas[i], ids) = Counts(deltas[i], others)
  PROVE  Counted(deltas, ids) = Counted(deltas, others)
<1>1. Len(deltas) \in Nat /\ DOMAIN deltas = 1..Len(deltas)
  BY OrderedFacts DEF InNumbers
<1>2. DOMAIN Worths(deltas, ids) = 1..Len(deltas) /\ DOMAIN Worths(deltas, others) = 1..Len(deltas)
  BY <1>1 DEF Worths
<1>3. \A i \in 1..Len(deltas) : Worths(deltas, ids)[i] = Worths(deltas, others)[i]
  BY <1>1 DEF Worths
<1> QED
  BY <1>1, <1>2, <1>3, SumSame DEF Counted

\* One rule explained.
LEMMA DeltaCounted ==
  ASSUME NEW part, NEW r, r.score \in Int, NEW ids
  PROVE  /\ InNumbers(Delta(part, r))
         /\ \A i \in DOMAIN Delta(part, r) : Delta(part, r)[i].part = part /\ Delta(part, r)[i].rule = r.id
         /\ Counted(Delta(part, r), ids) = IF part = "policy" \/ r.id \in ids THEN r.score ELSE 0
<1>1. CASE r.score = 0
  <2>1. Delta(part, r) = <<>> /\ DOMAIN <<>> = {}
    BY <1>1, NoneYet DEF Delta
  <2> QED
    BY <1>1, <2>1, CountedNone
<1>2. CASE r.score # 0
  <2> DEFINE d == [part |-> part, rule |-> r.id, delta |-> r.score]
             w == Worths(<<>>, ids)
             v == Worths(<<d>>, ids)
  <2>1. Delta(part, r) = <<d>>
    BY <1>2 DEF Delta
  <2>2. <<d>> = Append(<<>>, d) /\ Ordered(<<>>) /\ Len(<<>>) = 0
    BY NoneYet
  <2>3. Ordered(<<d>>) /\ DOMAIN <<d>> = 1..1 /\ <<d>>[1] = d
    <3> HIDE DEF d
    <3>1. Ordered(Append(<<>>, d)) /\ DOMAIN Append(<<>>, d) = 1..(Len(<<>>) + 1) /\ Append(<<>>, d)[Len(<<>>) + 1] = d
      BY <2>2, OneMore
    <3> QED
      BY <2>2, <3>1
  <2>4. InNumbers(<<d>>)
    BY <2>3 DEF InNumbers
  <2>5. Numbers(w, 0)
    BY <2>2, CountedNone, WorthsNumbers
  <2>6. DOMAIN v = 1..(0 + 1) /\ v[0 + 1] = IF part = "policy" \/ r.id \in ids THEN r.score ELSE 0
    BY <2>3 DEF Worths, Counts
  <2>7. SumOf(w) = 0
    BY CountedNone DEF Counted
  <2> HIDE DEF w, v
  <2>8. SumOf(v) = SumOf(w) + v[0 + 1]
    <3>1. v[0 + 1] \in Int /\ \A m \in 1..0 : v[m] = w[m]
      BY <2>6
    <3> QED
      BY <2>5, <2>6, <3>1, SumOneMore
  <2>9. SumOf(v) = IF part = "policy" \/ r.id \in ids THEN r.score ELSE 0
    BY <2>6, <2>7, <2>8
  <2> QED
    BY <2>1, <2>3, <2>4, <2>9 DEF Counted, v
<1> QED
  BY <1>1, <1>2

\* What is in one of two lists.
LEMMA EitherOne ==
  ASSUME NEW s, NEW t, Ordered(s), Ordered(t), NEW i \in DOMAIN (s \o t)
  PROVE  \E d : (d \in DOMAIN s /\ (s \o t)[i] = s[d]) \/ (d \in DOMAIN t /\ (s \o t)[i] = t[d])
<1> DEFINE u == s \o t
<1>1. /\ Len(s) \in Nat /\ Len(t) \in Nat /\ DOMAIN s = 1..Len(s) /\ DOMAIN t = 1..Len(t)
      /\ DOMAIN u = 1..(Len(s) + Len(t))
      /\ \A j \in 1..Len(s) : u[j] = s[j]
      /\ \A j \in 1..Len(t) : u[Len(s) + j] = t[j]
  BY BothOrdered
<1>2. i \in DOMAIN u
  OBVIOUS
<1> HIDE DEF u
<1> DEFINE Is(v) == \E d : (d \in DOMAIN s /\ v = s[d]) \/ (d \in DOMAIN t /\ v = t[d])
<1>3. Is(u[i])
  <2>1. CASE i \in 1..Len(s)
    BY <1>1, <2>1
  <2>2. CASE i \notin 1..Len(s)
    <3>1. i - Len(s) \in 1..Len(t) /\ i = Len(s) + (i - Len(s))
      BY <1>1, <1>2, <2>2
    <3>2. u[i] = t[i - Len(s)]
      BY <1>1, <3>1
    <3> QED
      BY <1>1, <3>1, <3>2
  <2> QED
    BY <2>1, <2>2
<1>4. Is((s \o t)[i])
  <2> HIDE DEF Is
  <2> QED
    BY <1>3, Zenon DEF u
<1> QED
  BY <1>4, Zenon

\* The members of two lists.
LEMMA MembersOfBoth ==
  ASSUME NEW s, NEW t, Ordered(s), Ordered(t)
  PROVE  Ordered(s \o t) /\ Members(s \o t) = Members(s) \cup Members(t)
<1> DEFINE u == s \o t
<1>1. /\ Ordered(u) /\ Len(s) \in Nat /\ Len(t) \in Nat /\ DOMAIN s = 1..Len(s) /\ DOMAIN t = 1..Len(t)
      /\ DOMAIN u = 1..(Len(s) + Len(t))
      /\ \A j \in 1..Len(s) : u[j] = s[j]
      /\ \A j \in 1..Len(t) : u[Len(s) + j] = t[j]
  BY BothOrdered
<1>2. ASSUME NEW i \in DOMAIN u
      PROVE  \E d : (d \in DOMAIN s /\ u[i] = s[d]) \/ (d \in DOMAIN t /\ u[i] = t[d])
  BY EitherOne
<1> HIDE DEF u
<1>3. ASSUME NEW x \in Members(u) PROVE x \in Members(s) \cup Members(t)
  <2>1. PICK i \in DOMAIN u : x = u[i]
    BY DEF Members
  <2>2. PICK d : (d \in DOMAIN s /\ u[i] = s[d]) \/ (d \in DOMAIN t /\ u[i] = t[d])
    BY <1>2
  <2> QED
    BY <2>1, <2>2 DEF Members
<1>4. ASSUME NEW x \in Members(s) PROVE x \in Members(u)
  <2>1. PICK j \in DOMAIN s : x = s[j]
    BY DEF Members
  <2>2. j \in DOMAIN u /\ u[j] = x
    BY <1>1, <2>1
  <2> QED
    BY <2>2 DEF Members
<1>5. ASSUME NEW x \in Members(t) PROVE x \in Members(u)
  <2>1. PICK j \in DOMAIN t : x = t[j]
    BY DEF Members
  <2>2. Len(s) + j \in DOMAIN u /\ u[Len(s) + j] = x
    BY <1>1, <2>1
  <2> QED
    BY <2>2 DEF Members
<1>6. Members(u) = Members(s) \cup Members(t)
  BY <1>3, <1>4, <1>5
<1> QED
  BY <1>1, <1>6 DEF u

-----------------------------------------------------------------------------
\* The explanation of a rule set.

AboutRules(deltas, rules, n) ==
  \A i \in DOMAIN deltas : deltas[i].part = "ruleset" /\ deltas[i].rule \in {rules[j].id : j \in 1..n}

\* What is said of each rule.
Saying(r, res, maps) ==
  IF r.id \in Members(res.ids) \/ (r.condition # "" /\ Verdict(r.condition, maps) = "yes")
  THEN Delta("ruleset", r) ELSE <<>>

\* Deltas that are about one rule, with its score if its id is among some.
SaysOf(deltas, r, ids) ==
  /\ InNumbers(deltas)
  /\ \A i \in DOMAIN deltas : deltas[i].part = "ruleset" /\ deltas[i].rule = r.id
  /\ Counted(deltas, ids) = IF r.id \in ids THEN r.score ELSE 0

\* What is said of a rule is about it, and counts what it scores.
LEMMA SayingCounted ==
  ASSUME NEW r, r.score \in Int, NEW res, NEW maps, NEW ids, r.id \in ids => r.id \in Members(res.ids)
  PROVE  SaysOf(Saying(r, res, maps), r, ids)
<1>1. CASE Saying(r, res, maps) = Delta("ruleset", r)
  <2>1. /\ InNumbers(Delta("ruleset", r))
        /\ \A i \in DOMAIN Delta("ruleset", r) :
              Delta("ruleset", r)[i].part = "ruleset" /\ Delta("ruleset", r)[i].rule = r.id
        /\ Counted(Delta("ruleset", r), ids) = IF r.id \in ids THEN r.score ELSE 0
    BY DeltaCounted
  <2> QED
    BY <1>1, <2>1 DEF SaysOf
<1>2. CASE Saying(r, res, maps) # Delta("ruleset", r)
  <2>1. Saying(r, res, maps) = <<>> /\ r.id \notin ids
    BY <1>2 DEF Saying
  <2>2. DOMAIN <<>> = {} /\ InNumbers(<<>>) /\ Counted(<<>>, ids) = 0
    BY NoneYet, CountedNone
  <2> QED
    BY <2>1, <2>2 DEF SaysOf
<1> QED
  BY <1>1, <1>2

\* Deltas about some of the first rules, and those of one more.
LEMMA AboutBoth ==
  ASSUME NEW rules, NEW m \in Nat \ {0}, NEW one, Ordered(one), AboutRules(one, rules, m - 1), NEW two, Ordered(two),
         \A i \in DOMAIN two : two[i].part = "ruleset" /\ two[i].rule = rules[m].id
  PROVE  AboutRules(one \o two, rules, m)
<1>1. /\ DOMAIN one = 1..Len(one) /\ DOMAIN two = 1..Len(two) /\ Len(one) \in Nat /\ Len(two) \in Nat
      /\ DOMAIN (one \o two) = 1..(Len(one) + Len(two))
      /\ \A i \in 1..Len(one) : (one \o two)[i] = one[i]
      /\ \A i \in 1..Len(two) : (one \o two)[Len(one) + i] = two[i]
  BY BothOrdered
<1> DEFINE both == one \o two
<1> HIDE DEF both
<1>2. {rules[j].id : j \in 1..(m-1)} \subseteq {rules[j].id : j \in 1..m} /\ rules[m].id \in {rules[j].id : j \in 1..m}
  <2>1. m \in 1..m /\ 1..(m-1) \subseteq 1..m
    OBVIOUS
  <2> QED
    BY <2>1
<1>3. ASSUME NEW i \in DOMAIN both
      PROVE  both[i].part = "ruleset" /\ both[i].rule \in {rules[j].id : j \in 1..m}
  <2>1. i \in 1..(Len(one) + Len(two))
    BY <1>1 DEF both
  <2>2. CASE i > Len(one)
    <3>1. i - Len(one) \in DOMAIN two /\ i = Len(one) + (i - Len(one))
      BY <1>1, <2>1, <2>2
    <3>2. both[i] = two[i - Len(one)]
      BY <1>1, <3>1 DEF both
    <3> QED
      BY <1>2, <3>1, <3>2
  <2>3. CASE ~(i > Len(one))
    <3>1. i \in DOMAIN one /\ both[i] = one[i]
      BY <1>1, <2>1, <2>3 DEF both
    <3> QED
      BY <1>2, <3>1 DEF AboutRules
  <2> QED
    BY <2>2, <2>3
<1> QED
  BY <1>3 DEF AboutRules, both

\* The deltas of the rules that are told add up to the score of the result.
LEMMA ExplainedRuleSet ==
  ASSUME NEW rs, NEW n \in Nat, Tellable(rs.rules, n), NEW res, Accounted(res, rs.rules, n), NEW maps, NEW ids,
         \A i \in 1..n : rs.rules[i].id \in ids <=> rs.rules[i].id \in Members(res.ids)
  PROVE  /\ InNumbers(explainRuleSet(rs, res, maps))
         /\ AboutRules(explainRuleSet(rs, res, maps), rs.rules, n)
         /\ Counted(explainRuleSet(rs, res, maps), ids) = res.score
<1> DEFINE seqs == [i \in DOMAIN rs.rules |-> Saying(rs.rules[i], res, maps)]
           shares == Shares(rs.rules, ids, n)
<1>1. explainRuleSet(rs, res, maps) = Seqs!FlattenSeq(seqs)
  BY DEF explainRuleSet, Saying, Members
<1>2. DOMAIN rs.rules = 1..n /\ \A i \in 1..n : rs.rules[i].score \in Int
  BY DEF Tellable
<1>3. ASSUME NEW m \in 1..n
      PROVE  /\ InNumbers(seqs[m])
             /\ \A i \in DOMAIN seqs[m] : seqs[m][i].part = "ruleset" /\ seqs[m][i].rule = rs.rules[m].id
             /\ Counted(seqs[m], ids) = shares[m]
  <2>1. seqs[m] = Saying(rs.rules[m], res, maps)
    BY <1>2
  <2>2. shares[m] = IF rs.rules[m].id \in ids THEN rs.rules[m].score ELSE 0
    BY DEF Shares
  <2>3. rs.rules[m].score \in Int /\ (rs.rules[m].id \in ids => rs.rules[m].id \in Members(res.ids))
    BY <1>2
  <2>4. SaysOf(Saying(rs.rules[m], res, maps), rs.rules[m], ids)
    BY <2>3, SayingCounted
  <2> HIDE DEF seqs, shares
  <2>5. SaysOf(seqs[m], rs.rules[m], ids)
    BY <2>1, <2>4
  <2> QED
    BY <2>2, <2>5 DEF SaysOf
<1>4. Len(seqs) = n /\ (n = 0 => seqs = <<>>)
  BY <1>2
<1>5. DOMAIN shares = 1..n /\ \A m \in 1..n : shares[m] \in Int
  BY <1>2 DEF Shares
<1> HIDE DEF seqs, shares
<1>6. PICK h : h[0] = <<>> /\ (\A m \in 1..n : h[m] = h[m-1] \o seqs[m]) /\ Seqs!FlattenSeq(seqs) = h[n]
  <2>1. \A m \in 1..n : Ordered(seqs[m])
    BY <1>3 DEF InNumbers
  <2> QED
    BY <1>4, <2>1, FlattenRuns
<1>7. PICK g : Partial(g, shares, n) /\ SumOf(shares) = g[n]
  BY <1>5, SumRuns
<1> DEFINE Good(m) == InNumbers(h[m]) /\ AboutRules(h[m], rs.rules, m) /\ Counted(h[m], ids) = g[m]
           B == {m \in 0..n : ~Good(m)}
<1>8. B = {}
  <2> SUFFICES ASSUME B # {}
               PROVE  FALSE
    OBVIOUS
  <2>1. PICK m \in B : \A d \in B : m <= d
    <3>1. B \in SUBSET Nat
      OBVIOUS
    <3> HIDE DEF B
    <3> QED
      BY <3>1, LeastOne
  <2>2. Good(0)
    <3>1. h[0] = <<>> /\ g[0] = 0 /\ DOMAIN <<>> = {}
      BY <1>6, <1>7, NoneYet DEF Partial
    <3>2. InNumbers(<<>>) /\ Counted(<<>>, ids) = 0 /\ AboutRules(<<>>, rs.rules, 0)
      BY <3>1, CountedNone DEF AboutRules
    <3> QED
      BY <3>1, <3>2
  <2>3. m # 0
    <3> HIDE DEF Good
    <3> QED
      BY <2>1, <2>2
  <2>4. m \in 1..n /\ m - 1 \in 0..n /\ m - 1 \notin B /\ m \in Nat \ {0}
    <3> HIDE DEF Good
    <3> QED
      BY <2>1, <2>3
  <2>5. Good(m - 1)
    <3> HIDE DEF Good
    <3> QED
      BY <2>4
  <2>6. h[m] = h[m-1] \o seqs[m] /\ g[m] = g[m-1] + shares[m]
    BY <1>6, <1>7, <2>4 DEF Partial
  <2>7. InNumbers(h[m-1] \o seqs[m]) /\ Counted(h[m-1] \o seqs[m], ids) = Counted(h[m-1], ids) + Counted(seqs[m], ids)
    BY <1>3, <2>4, <2>5, CountedBoth
  <2>8. AboutRules(h[m-1] \o seqs[m], rs.rules, m)
    <3>1. Ordered(h[m-1]) /\ Ordered(seqs[m]) /\ AboutRules(h[m-1], rs.rules, m - 1)
      BY <1>3, <2>4, <2>5 DEF InNumbers
    <3>2. \A i \in DOMAIN seqs[m] : seqs[m][i].part = "ruleset" /\ seqs[m][i].rule = rs.rules[m].id
      BY <1>3, <2>4
    <3> QED
      BY <2>4, <3>1, <3>2, AboutBoth
  <2>9. Good(m)
    BY <1>3, <2>4, <2>5, <2>6, <2>7, <2>8
  <2> HIDE DEF Good
  <2> QED
    BY <2>1, <2>9
<1>9. Good(n)
  <2>1. n \in 0..n
    OBVIOUS
  <2> HIDE DEF Good
  <2> QED
    BY <1>8, <2>1
<1>10. SumOf(shares) = res.score
  <2>1. \A i \in 1..n : shares[i] = Shares(rs.rules, Members(res.ids), n)[i]
    BY DEF shares, Shares
  <2>2. DOMAIN Shares(rs.rules, Members(res.ids), n) = 1..n
    BY DEF Shares
  <2>3. SumOf(shares) = SumOf(Shares(rs.rules, Members(res.ids), n))
    BY <1>5, <2>1, <2>2, SumSame
  <2> QED
    BY <2>3 DEF Accounted
<1> QED
  BY <1>1, <1>6, <1>7, <1>9, <1>10

-----------------------------------------------------------------------------
\* The score of a response.

IdsOf(rules) == {rules[i].id : i \in DOMAIN rules}

\* The score of an answer is what its explanation comes to, about policies and the
\* rules that were seen, and some rest.
Explained(a, seen, rest) ==
  /\ {"score", "ids", "actions", "deltas", "rank", "reasons"} \subseteq DOMAIN a
  /\ Ordered(a.ids) /\ InNumbers(a.deltas) /\ Ordered(a.reasons)
  /\ Numbers(Wins(a.reasons), Len(a.reasons))
  /\ \A i \in DOMAIN a.deltas : a.deltas[i].part = "policy" \/ a.deltas[i].rule \in seen
  /\ a.score = Counted(a.deltas, Members(a.ids)) + SumOf(Wins(a.reasons)) + rest

\* What is added up are numbers.
LEMMA ExplainedNumbers ==
  ASSUME NEW a, NEW seen, NEW rest \in Int, Explained(a, seen, rest), NEW ids
  PROVE  Counted(a.deltas, ids) \in Int /\ SumOf(Wins(a.reasons)) \in Int
<1>1. Len(a.reasons) \in Nat
  BY OrderedFacts DEF Explained
<1>2. InNumbers(a.deltas) /\ Numbers(Wins(a.reasons), Len(a.reasons))
  BY DEF Explained
<1> QED
  BY <1>1, <1>2, SumType, WorthsNumbers

\* A rule of a policy adds its score and is explained.
LEMMA PolicyExplained ==
  ASSUME NEW a, NEW seen, NEW rest \in Int, Explained(a, seen, rest), NEW r, r.score \in Int, NEW actions
  PROVE  Explained([a EXCEPT !.score = @ + r.score, !.actions = @ \o actions, !.deltas = @ \o Delta("policy", r)], seen, rest)
<1> DEFINE more == Delta("policy", r)
           ids == Members(a.ids)
           b == [a EXCEPT !.score = @ + r.score, !.actions = @ \o actions, !.deltas = @ \o more]
<1>1. /\ b.score = a.score + r.score /\ b.ids = a.ids /\ b.deltas = a.deltas \o more /\ b.reasons = a.reasons
      /\ DOMAIN b = DOMAIN a
  BY DEF Explained
<1>2. /\ InNumbers(more) /\ Counted(more, ids) = r.score
      /\ \A i \in DOMAIN more : more[i].part = "policy"
  BY DeltaCounted
<1> HIDE DEF more, b
<1>3. /\ InNumbers(a.deltas) /\ InNumbers(a.deltas \o more)
      /\ Counted(a.deltas \o more, ids) = Counted(a.deltas, ids) + r.score
  BY <1>2, CountedBoth DEF Explained
<1>4. ASSUME NEW i \in DOMAIN (a.deltas \o more)
      PROVE  (a.deltas \o more)[i].part = "policy" \/ (a.deltas \o more)[i].rule \in seen
  <2>1. PICK d : \/ d \in DOMAIN a.deltas /\ (a.deltas \o more)[i] = a.deltas[d]
                 \/ d \in DOMAIN more /\ (a.deltas \o more)[i] = more[d]
    BY <1>2, <1>3, EitherOne DEF InNumbers
  <2> QED
    BY <1>2, <2>1 DEF Explained
<1>5. Counted(a.deltas, ids) \in Int /\ SumOf(Wins(a.reasons)) \in Int
  BY ExplainedNumbers
<1>6. b.score = Counted(b.deltas, Members(b.ids)) + SumOf(Wins(b.reasons)) + rest
  <2>1. a.score = Counted(a.deltas, ids) + SumOf(Wins(a.reasons)) + rest
    BY DEF Explained
  <2>2. b.score = Counted(b.deltas, ids) + SumOf(Wins(a.reasons)) + rest
    BY <1>1, <1>3, <1>5, <2>1
  <2> QED
    BY <1>1, <2>2
<1>7. Explained(b, seen, rest)
  BY <1>1, <1>3, <1>4, <1>6 DEF Explained
<1> QED
  BY <1>7 DEF b, more

\* What AddResult makes of an answer.
Added(a, res, deltas) ==
  [a EXCEPT !.score = @ + res.score, !.ids = @ \o res.ids, !.actions = @ \o res.actions, !.deltas = @ \o deltas]

\* A rule set adds what its rules score, and explains it.
LEMMA RuleSetExplained ==
  ASSUME NEW a, NEW seen, Explained(a, seen, 0), Members(a.ids) \subseteq seen,
         NEW rs, NEW n \in Nat, Tellable(rs.rules, n), NEW res, Accounted(res, rs.rules, n), NEW maps,
         seen \cap IdsOf(rs.rules) = {}
  PROVE  /\ Explained(Added(a, res, explainRuleSet(rs, res, maps)), seen \cup IdsOf(rs.rules), 0)
         /\ Members(Added(a, res, explainRuleSet(rs, res, maps)).ids) \subseteq seen \cup IdsOf(rs.rules)
<1> DEFINE more == explainRuleSet(rs, res, maps)
           b == Added(a, res, more)
           own == IdsOf(rs.rules)
           before == Members(a.ids)
           after == Members(a.ids \o res.ids)
<1>0. own = {rs.rules[i].id : i \in 1..n} /\ seen \cap own = {}
  BY DEF IdsOf, Tellable
<1>1. /\ b.score = a.score + res.score /\ b.ids = a.ids \o res.ids /\ b.deltas = a.deltas \o more
      /\ b.reasons = a.reasons /\ DOMAIN b = DOMAIN a
  BY DEF Explained, Added
<1>2. after = before \cup Members(res.ids) /\ Ordered(a.ids \o res.ids) /\ Members(res.ids) \subseteq own
  BY <1>0, MembersOfBoth DEF Explained, Accounted
<1>3. \A i \in 1..n : rs.rules[i].id \in after <=> rs.rules[i].id \in Members(res.ids)
  <2> HIDE DEF after
  <2>1. \A i \in 1..n : rs.rules[i].id \in own
    BY <1>0
  <2>2. own \cap before = {}
    OBVIOUS
  <2> QED
    BY <1>2, <2>1, <2>2
<1> HIDE DEF after, more, own, b
<1>4. InNumbers(more) /\ AboutRules(more, rs.rules, n) /\ Counted(more, after) = res.score
  BY <1>3, ExplainedRuleSet DEF more
<1>5. InNumbers(a.deltas) /\ \A i \in DOMAIN a.deltas : Counts(a.deltas[i], after) = Counts(a.deltas[i], before)
  <2>1. ASSUME NEW i \in DOMAIN a.deltas
        PROVE  Counts(a.deltas[i], after) = Counts(a.deltas[i], before)
    <3>1. a.deltas[i].part = "policy" \/ a.deltas[i].rule \in seen
      BY DEF Explained
    <3>2. a.deltas[i].rule \in seen => (a.deltas[i].rule \in after <=> a.deltas[i].rule \in before)
      <4> HIDE DEF before
      <4> QED
        BY <1>0, <1>2
    <3> QED
      BY <3>1, <3>2 DEF Counts
  <2> QED
    BY <2>1 DEF Explained
<1>6. Counted(a.deltas, after) = Counted(a.deltas, before)
  BY <1>5, CountedSame
<1>7. InNumbers(a.deltas \o more) /\ Counted(a.deltas \o more, after) = Counted(a.deltas, after) + Counted(more, after)
  BY <1>4, <1>5, CountedBoth
<1>8. ASSUME NEW i \in DOMAIN (a.deltas \o more)
      PROVE  (a.deltas \o more)[i].part = "policy" \/ (a.deltas \o more)[i].rule \in seen \cup own
  <2>1. PICK d : \/ d \in DOMAIN a.deltas /\ (a.deltas \o more)[i] = a.deltas[d]
                 \/ d \in DOMAIN more /\ (a.deltas \o more)[i] = more[d]
    BY <1>4, <1>5, EitherOne DEF InNumbers
  <2>2. d \in DOMAIN a.deltas => a.deltas[d].part = "policy" \/ a.deltas[d].rule \in seen
    BY DEF Explained
  <2>3. d \in DOMAIN more => more[d].rule \in own
    BY <1>0, <1>4 DEF AboutRules
  <2> QED
    BY <2>1, <2>2, <2>3
<1>9. b.score = Counted(b.deltas, Members(b.ids)) + SumOf(Wins(b.reasons)) + 0
  <2>1. a.score = Counted(a.deltas, before) + SumOf(Wins(a.reasons)) + 0
    BY DEF Explained
  <2>2. Counted(a.deltas, before) \in Int /\ SumOf(Wins(a.reasons)) \in Int
    BY ExplainedNumbers
  <2>3. Counted(more, after) \in Int
    BY <1>4, WorthsNumbers
  <2>4. b.score = Counted(a.deltas \o more, after) + SumOf(Wins(a.reasons)) + 0
    BY <1>1, <1>4, <1>6, <1>7, <2>1, <2>2, <2>3
  <2> QED
    BY <1>1, <2>4 DEF after
<1>10. Explained(b, seen \cup own, 0)
  <2>1. {"score", "ids", "actions", "deltas", "rank", "reasons"} \subseteq DOMAIN b
    BY <1>1 DEF Explained
  <2>2. Ordered(b.reasons) /\ Numbers(Wins(b.reasons), Len(b.reasons))
    BY <1>1 DEF Explained
  <2>3. Ordered(b.ids) /\ InNumbers(b.deltas) /\ \A i \in DOMAIN b.deltas : b.deltas[i].part = "policy" \/ b.deltas[i].rule \in seen \cup own
    BY <1>1, <1>2, <1>7, <1>8
  <2> QED
    BY <1>9, <2>1, <2>2, <2>3 DEF Explained
<1>11. Members(b.ids) \subseteq seen \cup own
  <2>1. Members(b.ids) = before \cup Members(res.ids)
    BY <1>1, <1>2 DEF after
  <2> QED
    BY <1>2, <2>1
<1> QED
  BY <1>10, <1>11 DEF own, b, more

\* A workflow adds what its rules score, of which no delta is told.
LEMMA WorkflowExplained ==
  ASSUME NEW a, NEW seen, Explained(a, seen, 0), NEW res, res.score \in Int, Ordered(res.ids),
         Members(res.ids) \cap seen = {}
  PROVE  Explained(Added(a, res, <<>>), seen, res.score)
<1> DEFINE before == Members(a.ids)
           after == Members(a.ids \o res.ids)
           b == Added(a, res, <<>>)
<1>1. /\ b.score = a.score + res.score /\ b.ids = a.ids \o res.ids /\ b.deltas = a.deltas \o <<>>
      /\ b.reasons = a.reasons /\ DOMAIN b = DOMAIN a
  BY DEF Explained, Added
<1>2. after = before \cup Members(res.ids) /\ Ordered(a.ids \o res.ids)
  BY MembersOfBoth DEF Explained
<1> HIDE DEF after, b
<1>3. InNumbers(<<>>) /\ Counted(<<>>, after) = 0 /\ DOMAIN <<>> = {}
  BY CountedNone, NoneYet
<1>4. InNumbers(a.deltas) /\ \A i \in DOMAIN a.deltas : Counts(a.deltas[i], after) = Counts(a.deltas[i], before)
  <2>1. ASSUME NEW i \in DOMAIN a.deltas
        PROVE  Counts(a.deltas[i], after) = Counts(a.deltas[i], before)
    <3>1. a.deltas[i].part = "policy" \/ a.deltas[i].rule \in seen
      BY DEF Explained
    <3>2. a.deltas[i].rule \in seen => (a.deltas[i].rule \in after <=> a.deltas[i].rule \in before)
      <4> HIDE DEF before
      <4> QED
        BY <1>2
    <3> QED
      BY <3>1, <3>2 DEF Counts
  <2> QED
    BY <2>1 DEF Explained
<1>5. Counted(a.deltas, after) = Counted(a.deltas, before)
  BY <1>4, CountedSame
<1>6. InNumbers(a.deltas \o <<>>) /\ Counted(a.deltas \o <<>>, after) = Counted(a.deltas, after) + Counted(<<>>, after)
  BY <1>3, <1>4, CountedBoth
<1>7. ASSUME NEW i \in DOMAIN (a.deltas \o <<>>)
      PROVE  (a.deltas \o <<>>)[i].part = "policy" \/ (a.deltas \o <<>>)[i].rule \in seen
  <2> DEFINE none == <<>>
  <2>1. Ordered(a.deltas) /\ Ordered(none) /\ i \in DOMAIN (a.deltas \o none) /\ DOMAIN none = {}
    BY <1>3, <1>4 DEF InNumbers
  <2> HIDE DEF none
  <2>2. PICK d : \/ d \in DOMAIN a.deltas /\ (a.deltas \o none)[i] = a.deltas[d]
                 \/ d \in DOMAIN none /\ (a.deltas \o none)[i] = none[d]
    BY <2>1, EitherOne
  <2>3. (a.deltas \o none)[i].part = "policy" \/ (a.deltas \o none)[i].rule \in seen
    BY <2>1, <2>2 DEF Explained
  <2> QED
    BY <2>3 DEF none
<1>8. b.score = Counted(b.deltas, Members(b.ids)) + SumOf(Wins(b.reasons)) + res.score
  <2>1. a.score = Counted(a.deltas, before) + SumOf(Wins(a.reasons)) + 0
    BY DEF Explained
  <2>2. Counted(a.deltas, before) \in Int /\ SumOf(Wins(a.reasons)) \in Int
    BY ExplainedNumbers
  <2>3. Counted(a.deltas \o <<>>, after) = Counted(a.deltas, before)
    BY <1>3, <1>5, <1>6, <2>2
  <2>4. b.score = Counted(b.deltas, after) + SumOf(Wins(b.reasons)) + res.score
    BY <1>1, <2>1, <2>2, <2>3
  <2> QED
    BY <1>1, <2>4 DEF after
<1>9. Explained(b, seen, res.score)
  <2>1. {"score", "ids", "actions", "deltas", "rank", "reasons"} \subseteq DOMAIN b
    BY <1>1 DEF Explained
  <2>2. Ordered(b.reasons) /\ Numbers(Wins(b.reasons), Len(b.reasons))
    BY <1>1 DEF Explained
  <2>3. Ordered(b.ids) /\ InNumbers(b.deltas) /\ \A i \in DOMAIN b.deltas : b.deltas[i].part = "policy" \/ b.deltas[i].rule \in seen
    BY <1>1, <1>2, <1>6, <1>7
  <2> QED
    BY <1>8, <2>1, <2>2, <2>3 DEF Explained
<1> QED
  BY <1>9 DEF b

\* One winner more: of a ranking it adds its score, of an optimization nothing.
LEMMA WinsOneMore ==
  ASSUME NEW reasons, Ordered(reasons), Numbers(Wins(reasons), Len(reasons)), NEW part, NEW name, NEW winner,
         part = "ranking" => winner[1].score \in Int
  PROVE  LET more == Append(reasons, Reason(part, name, winner))
         IN  /\ Ordered(more) /\ Numbers(Wins(more), Len(more))
             /\ SumOf(Wins(more)) = SumOf(Wins(reasons)) + (IF part = "ranking" THEN winner[1].score ELSE 0)
<1> DEFINE last == Reason(part, name, winner)
           more == Append(reasons, last)
           n == Len(reasons)
           a == Wins(reasons)
           c == Wins(more)
           worth == IF part = "ranking" THEN winner[1].score ELSE 0
<1>1. last.part = part /\ last.score = winner[1].score /\ worth \in Int
  BY DEF Reason
<1> HIDE DEF last
<1>2. /\ Ordered(more) /\ Len(more) = n + 1 /\ DOMAIN more = 1..(n + 1) /\ more[n + 1] = last
      /\ \A i \in DOMAIN reasons : more[i] = reasons[i]
      /\ n \in Nat /\ DOMAIN reasons = 1..n
  BY OneMore, OrderedFacts
<1> HIDE DEF more
<1>3. DOMAIN c = 1..(n + 1) /\ \A m \in 1..n : c[m] = a[m]
  BY <1>2 DEF Wins
<1>4. c[n + 1] = worth
  <2>1. n + 1 \in DOMAIN more
    BY <1>2
  <2> QED
    BY <1>1, <1>2, <2>1 DEF Wins
<1>5. Numbers(a, n) /\ n \in Nat
  BY <1>2
<1> HIDE DEF a, c, n, worth
<1>6. SumOf(c) = SumOf(a) + c[n + 1]
  BY <1>1, <1>3, <1>4, <1>5, SumOneMore
<1>7. Numbers(c, n + 1)
  <2>1. \A m \in 1..(n + 1) : c[m] \in Int
    BY <1>1, <1>3, <1>4, <1>5 DEF Numbers
  <2> QED
    BY <1>3, <2>1 DEF Numbers
<1>8. Numbers(c, Len(more)) /\ SumOf(c) = SumOf(a) + worth
  BY <1>2, <1>4, <1>6, <1>7
<1> QED
  BY <1>2, <1>8 DEF more, last, a, c, worth

LEMMA WinnerExplained ==
  ASSUME NEW a, NEW seen, NEW rest \in Int, Explained(a, seen, rest), NEW name, NEW winner, winner[1].score \in Int, NEW actions
  PROVE  Explained([a EXCEPT !.rank = winner, !.score = @ + winner[1].score, !.actions = @ \o actions,
                             !.reasons = Append(@, Reason("ranking", name, winner))], seen, rest)
<1> DEFINE more == Append(a.reasons, Reason("ranking", name, winner))
           b == [a EXCEPT !.rank = winner, !.score = @ + winner[1].score, !.actions = @ \o actions, !.reasons = Append(@, Reason("ranking", name, winner))]
<1>1. /\ b.score = a.score + winner[1].score /\ b.ids = a.ids /\ b.deltas = a.deltas
      /\ b.reasons = more /\ DOMAIN b = DOMAIN a
  BY DEF Explained
<1>2. /\ Ordered(more) /\ Numbers(Wins(more), Len(more))
      /\ SumOf(Wins(more)) = SumOf(Wins(a.reasons)) + winner[1].score
  BY WinsOneMore DEF Explained
<1> HIDE DEF more, b
<1>3. Counted(a.deltas, Members(a.ids)) \in Int /\ SumOf(Wins(a.reasons)) \in Int
  BY ExplainedNumbers
<1>4. b.score = Counted(b.deltas, Members(b.ids)) + SumOf(Wins(b.reasons)) + rest
  <2>1. a.score = Counted(a.deltas, Members(a.ids)) + SumOf(Wins(a.reasons)) + rest
    BY DEF Explained
  <2>2. b.score = Counted(a.deltas, Members(a.ids)) + SumOf(Wins(more)) + rest
    BY <1>1, <1>2, <1>3, <2>1
  <2> QED
    BY <1>1, <2>2
<1>5. Explained(b, seen, rest)
  BY <1>1, <1>2, <1>4 DEF Explained
<1> QED
  BY <1>5 DEF b

LEMMA OptimizationExplained ==
  ASSUME NEW a, NEW seen, NEW rest \in Int, Explained(a, seen, rest), NEW name, NEW winner
  PROVE  Explained([a EXCEPT !.reasons = Append(@, Reason("optimization", name, winner))], seen, rest)
<1> DEFINE more == Append(a.reasons, Reason("optimization", name, winner))
           b == [a EXCEPT !.reasons = Append(@, Reason("optimization", name, winner))]
<1>1. /\ b.score = a.score /\ b.ids = a.ids /\ b.deltas = a.deltas
      /\ b.reasons = more /\ DOMAIN b = DOMAIN a
  BY DEF Explained
<1>2. /\ Ordered(more) /\ Numbers(Wins(more), Len(more))
      /\ SumOf(Wins(more)) = SumOf(Wins(a.reasons)) + 0
  BY WinsOneMore DEF Explained
<1> HIDE DEF more, b
<1>3. SumOf(Wins(a.reasons)) \in Int
  BY ExplainedNumbers
<1>4. Explained(b, seen, rest)
  BY <1>1, <1>2, <1>3 DEF Explained
<1> QED
  BY <1>4 DEF b

\* Nothing has been answered yet.
LEMMA NothingExplained ==
  ASSUME NEW seen
  PROVE  Explained(NoAnswer, seen, 0) /\ Members(NoAnswer.ids) = {}
<1> DEFINE a == NoAnswer
           none == <<>>
<1>1. /\ a.score = 0 /\ a.ids = none /\ a.deltas = none /\ a.reasons = none
      /\ {"score", "ids", "actions", "deltas", "rank", "reasons"} \subseteq DOMAIN a
  BY DEF NoAnswer
<1>2. Ordered(none) /\ Len(none) = 0 /\ DOMAIN none = {}
  BY NoneYet
<1>3. InNumbers(none) /\ \A ids : Counted(none, ids) = 0
  BY CountedNone
<1> HIDE DEF none, a
<1>4. Members(none) = {}
  BY <1>2 DEF Members
<1>5. DOMAIN Wins(none) = 1..0 /\ Numbers(Wins(none), 0)
  <2>1. DOMAIN Wins(none) = {}
    BY <1>2 DEF Wins
  <2> QED
    BY <2>1 DEF Numbers
<1>6. SumOf(Wins(none)) = 0
  BY <1>5, SumOfNone
<1>7. Explained(a, seen, 0) /\ Members(a.ids) = {}
  BY <1>1, <1>2, <1>3, <1>4, <1>5, <1>6 DEF Explained
<1> QED
  BY <1>7 DEF a

-----------------------------------------------------------------------------
\* The score, after each part of Evaluate.

FlowStages == ByName(Workflow.stages, NameOf)
FlowIds == UNION {IdsOf(FlowStages[name].rules) : name \in DOMAIN FlowStages}

Scored(rules) == Ordered(rules) /\ \A i \in DOMAIN rules : rules[i].score \in Int
ScoredApart(rules) == Scored(rules) /\ Distinct(rules, IdOf)

\* Scores are numbers, a rule set has its name for itself, and no two of the rules
\* that are asked for, in rule sets or a stage, have one id.
Traceable ==
  /\ Ordered(Policies) /\ Ordered(RuleSets) /\ Ordered(Rankings)
  /\ \A i \in DOMAIN Policies : Scored(Policies[i].rules)
  /\ \A k \in DOMAIN RuleSets :
        /\ ByName(Package.ruleSets, NameOf)[RuleSets[k].name] = RuleSets[k]
        /\ ScoredApart(RuleSets[k].rules)
        /\ \A l \in DOMAIN RuleSets : k # l => IdsOf(RuleSets[k].rules) \cap IdsOf(RuleSets[l].rules) = {}
  /\ Package.workflows # <<>> =>
        /\ Ordered(Workflow.stages)
        /\ \A name \in DOMAIN FlowStages : ScoredApart(FlowStages[name].rules)
        /\ \A k \in DOMAIN RuleSets : IdsOf(RuleSets[k].rules) \cap FlowIds = {}
  /\ Candidates # <<>> => \A i \in DOMAIN Rankings :
        RankingResult(Rankings[i]).winner # <<>> => RankingResult(Rankings[i]).winner[1].score \in Int

\* The rules of the rule sets before the k-th.
Before(k) == UNION {IdsOf(RuleSets[l].rules) : l \in 1..(k-1)}

\* Where Evaluate is, and what its score comes to there.
Traced ==
  /\ DOMAIN place = {"policy", "rule", "ruleSet", "ranking", "optimization"}
  /\ place.policy \in 0..Len(Policies) /\ (stage = "rules" => place.policy # 0)
  /\ place.rule \in Nat \ {0} /\ place.ruleSet \in 1..(Len(RuleSets) + 1) /\ place.ranking \in Nat \ {0}
  /\ stage \in {"policies", "rules", "rulesets"} =>
        Explained(answer, Before(place.ruleSet), 0) /\ Members(answer.ids) \subseteq Before(place.ruleSet)
  /\ stage \in {"rankings", "answered"} => Explained(answer, Before(place.ruleSet), WorkflowResult.score)

ScoreInv == phase = "evaluating" /\ Traceable => Traced

\* While one request is evaluated, it and its package stay what they are.
LEMMA SameAsked ==
  ASSUME Keeping
  PROVE  /\ Policies' = Policies /\ RuleSets' = RuleSets /\ Rankings' = Rankings
         /\ WorkflowResult' = WorkflowResult /\ (Traceable' <=> Traceable)
         /\ \A k : Before(k)' = Before(k)
<1>1. Package' = Package /\ Request' = Request
  BY DEF Keeping, Package, Request
<1>2. Policies' = Policies /\ RuleSets' = RuleSets /\ Rankings' = Rankings
  BY <1>1 DEF Policies, RuleSets, Rankings
<1>3. WorkflowResult' = WorkflowResult /\ Workflow' = Workflow /\ FlowStages' = FlowStages /\ FlowIds' = FlowIds
  BY <1>1 DEF WorkflowResult, Workflow, FactsOnly, FlowStages, FlowIds
<1>4. Candidates' = Candidates /\ \A r : RankingResult(r)' = RankingResult(r)
  BY <1>1 DEF RankingResult, Variables, Candidates
<1>5. Traceable' <=> Traceable
  BY <1>1, <1>2, <1>3, <1>4 DEF Traceable
<1>6. \A k : Before(k)' = Before(k)
  BY <1>2 DEF Before
<1> QED
  BY <1>2, <1>3, <1>5, <1>6

LEMMA ScoredApartTells ==
  ASSUME NEW rules, ScoredApart(rules)
  PROVE  \E n \in Nat : Tellable(rules, n)
<1>1. Len(rules) \in Nat /\ DOMAIN rules = 1..Len(rules)
  BY OrderedFacts DEF ScoredApart, Scored
<1>2. Tellable(rules, Len(rules))
  BY <1>1 DEF ScoredApart, Scored, Distinct, IdOf, Tellable
<1> QED
  BY <1>1, <1>2

\* A workflow, stage after stage: what it adds up is a number, and told of its rules.
Walks(f, start, stages, maps, n) ==
  f = [m \in 0..n |-> IF m = 0 THEN [stage |-> start, seen |-> {}, result |-> NoResult]
                               ELSE EnterStage(f[m - 1], stages, maps)]

LEMMA OneStageMore ==
  ASSUME NEW start, NEW stages, NEW maps, NEW n \in Nat, NEW f, Walks(f, start, stages, maps, n)
  PROVE  \E g : Walks(g, start, stages, maps, n + 1)
<1> DEFINE first == [stage |-> start, seen |-> {}, result |-> NoResult]
           after(w) == EnterStage(w, stages, maps)
           g == [m \in 0..(n + 1) |-> IF m = n + 1 THEN after(f[n]) ELSE f[m]]
<1> HIDE DEF first, after
<1>1. ASSUME NEW m \in 0..(n + 1)
      PROVE  g[m] = IF m = 0 THEN first ELSE after(g[m - 1])
  <2>1. CASE m = n + 1
    BY <2>1
  <2>2. CASE m # n + 1
    <3>1. m \in 0..n /\ g[m] = f[m] /\ (m # 0 => m - 1 \in 0..n /\ g[m - 1] = f[m - 1])
      BY <2>2
    <3>2. f[m] = IF m = 0 THEN first ELSE after(f[m - 1])
      BY <3>1 DEF Walks, first, after
    <3> QED
      BY <3>1, <3>2
  <2> QED
    BY <2>1, <2>2
<1>2. g = [m \in 0..(n + 1) |-> g[m]]
  OBVIOUS
<1> HIDE DEF g
<1>3. Walks(g, start, stages, maps, n + 1)
  BY <1>1, <1>2 DEF Walks, first, after
<1> QED
  BY <1>3

LEMMA WalksExist ==
  ASSUME NEW start, NEW stages, NEW maps, NEW n \in Nat
  PROVE  \E f : Walks(f, start, stages, maps, n)
<1> DEFINE B == {m \in Nat : ~ \E f : Walks(f, start, stages, maps, m)}
<1> SUFFICES ASSUME B # {}
             PROVE  FALSE
  OBVIOUS
<1>1. PICK k \in B : \A j \in B : k <= j
  <2>1. B \in SUBSET Nat
    OBVIOUS
  <2> HIDE DEF B
  <2> QED
    BY <2>1, LeastOne
<1>2. k # 0
  <2> DEFINE first == [stage |-> start, seen |-> {}, result |-> NoResult]
             f == [m \in 0..0 |-> first]
  <2> HIDE DEF first
  <2>1. f = [m \in 0..0 |-> IF m = 0 THEN first ELSE EnterStage(f[m - 1], stages, maps)]
    OBVIOUS
  <2>2. Walks(f, start, stages, maps, 0)
    BY <2>1 DEF Walks, first
  <2> QED
    BY <2>2
<1>3. k - 1 \in Nat /\ k - 1 \notin B /\ (k - 1) + 1 = k
  BY <1>1, <1>2
<1>4. PICK f : Walks(f, start, stages, maps, k - 1)
  BY <1>3
<1>5. \E g : Walks(g, start, stages, maps, k)
  BY <1>3, <1>4, OneStageMore
<1> QED
  BY <1>5

LEMMA WorkflowWalked ==
  ASSUME NEW wf, NEW maps, NEW n \in Nat, n = Len(wf.stages) + 1
  PROVE  \E f : Walks(f, wf.start, ByName(wf.stages, NameOf), maps, n) /\ evalWorkflow(wf, maps) = f[n].result
<1> DEFINE stages == ByName(wf.stages, NameOf)
           f == CHOOSE g : Walks(g, wf.start, stages, maps, n)
<1>1. Walks(f, wf.start, stages, maps, n)
  BY WalksExist
<1>2. evalWorkflow(wf, maps) = f[n].result
  BY DEF evalWorkflow, Walks
<1> QED
  BY <1>1, <1>2

WalkCounted(w, ids) ==
  /\ {"ids", "score"} \subseteq DOMAIN w.result
  /\ w.result.score \in Int /\ Ordered(w.result.ids) /\ Members(w.result.ids) \subseteq ids

LEMMA RulesCounted ==
  ASSUME NEW rules, ScoredApart(rules), NEW mode, NEW maps
  PROVE  LET res == evalRules(rules, mode, maps)
         IN  res.score \in Int /\ Ordered(res.ids) /\ Members(res.ids) \subseteq IdsOf(rules)
<1> DEFINE res == evalRules(rules, mode, maps)
<1>1. PICK n \in Nat : Tellable(rules, n)
  BY ScoredApartTells
<1>2. Accounted(res, rules, n)
  BY <1>1, RulesAccounted
<1> HIDE DEF res
<1>3. Members(res.ids) \subseteq IdsOf(rules)
  BY <1>1, <1>2 DEF Accounted, Tellable, IdsOf
<1>4. res.score \in Int
  <2>1. n \in 0..n /\ res.score = SumOf(Shares(rules, Members(res.ids), n))
    BY <1>2 DEF Accounted
  <2> QED
    BY <1>1, <2>1, SharesNumbers, SumType
<1>5. Ordered(res.ids)
  BY <1>2 DEF Accounted
<1> QED
  BY <1>3, <1>4, <1>5 DEF res

LEMMA MergedOf ==
  ASSUME NEW a, NEW b
  PROVE  /\ {"ids", "score"} \subseteq DOMAIN mergeResults(a, b)
         /\ mergeResults(a, b).ids = a.ids \o b.ids
         /\ mergeResults(a, b).score = a.score + b.score
  BY DEF mergeResults

LEMMA EnterCounted ==
  ASSUME NEW w, NEW stages, NEW maps, NEW ids, WalkCounted(w, ids),
         \A name \in DOMAIN stages : ScoredApart(stages[name].rules) /\ IdsOf(stages[name].rules) \subseteq ids
  PROVE  WalkCounted(EnterStage(w, stages, maps), ids)
<1> DEFINE new == EnterStage(w, stages, maps)
<1>1. CASE w.stage = 0 \/ w.result.list = "failed"
  <2>1. new = w
    BY <1>1 DEF EnterStage
  <2> QED
    BY <2>1
<1>2. CASE ~(w.stage = 0 \/ w.result.list = "failed") /\ (w.stage \in w.seen \/ w.stage \notin DOMAIN stages)
  <2> DEFINE old == w.result
             res == [old EXCEPT !.list = "failed"]
  <2>1. new.result = res
    BY <1>2 DEF EnterStage
  <2>2. {"ids", "score"} \subseteq DOMAIN old
    BY DEF WalkCounted
  <2> HIDE DEF old
  <2>3. DOMAIN res = DOMAIN old /\ res.ids = old.ids /\ res.score = old.score
    BY <2>2
  <2> HIDE DEF res, new
  <2>4. /\ {"ids", "score"} \subseteq DOMAIN new.result
        /\ new.result.ids = w.result.ids /\ new.result.score = w.result.score
    BY <2>1, <2>2, <2>3 DEF old
  <2>5. WalkCounted(new, ids)
    BY <2>4 DEF WalkCounted
  <2> QED
    BY <2>5 DEF new
<1>3. CASE ~(w.stage = 0 \/ w.result.list = "failed") /\ ~(w.stage \in w.seen \/ w.stage \notin DOMAIN stages)
  <2> DEFINE res == evalRules(stages[w.stage].rules, "AllMatches", maps)
  <2>1. new.result = mergeResults(w.result, res)
    BY <1>3 DEF EnterStage
  <2>2. res.score \in Int /\ Ordered(res.ids) /\ Members(res.ids) \subseteq ids
    BY <1>3, RulesCounted
  <2> HIDE DEF res, new
  <2>3. /\ {"ids", "score"} \subseteq DOMAIN new.result
        /\ new.result.ids = w.result.ids \o res.ids /\ new.result.score = w.result.score + res.score
    BY <2>1, MergedOf
  <2>4. Ordered(w.result.ids \o res.ids) /\ Members(w.result.ids \o res.ids) \subseteq ids
    BY <2>2, MembersOfBoth DEF WalkCounted
  <2>5. w.result.score + res.score \in Int
    BY <2>2 DEF WalkCounted
  <2>6. WalkCounted(new, ids)
    BY <2>3, <2>4, <2>5 DEF WalkCounted
  <2> QED
    BY <2>6 DEF new
<1> QED
  BY <1>1, <1>2, <1>3

LEMMA WorkflowCounted ==
  ASSUME NEW wf, NEW maps, Ordered(wf.stages), NEW ids,
         \A name \in DOMAIN ByName(wf.stages, NameOf) :
            LET rules == ByName(wf.stages, NameOf)[name].rules IN ScoredApart(rules) /\ IdsOf(rules) \subseteq ids
  PROVE  LET res == evalWorkflow(wf, maps)
         IN  res.score \in Int /\ Ordered(res.ids) /\ Members(res.ids) \subseteq ids
<1> DEFINE n == Len(wf.stages) + 1
           stages == ByName(wf.stages, NameOf)
<1>1. n \in Nat
  BY OrderedFacts
<1>2. PICK f : Walks(f, wf.start, stages, maps, n) /\ evalWorkflow(wf, maps) = f[n].result
  BY <1>1, WorkflowWalked
<1>3. \A name \in DOMAIN stages : ScoredApart(stages[name].rules) /\ IdsOf(stages[name].rules) \subseteq ids
  OBVIOUS
<1> HIDE DEF n, stages
<1> DEFINE B == {m \in 0..n : ~WalkCounted(f[m], ids)}
<1>4. B = {}
  <2> SUFFICES ASSUME B # {}
               PROVE  FALSE
    OBVIOUS
  <2>1. PICK m \in B : \A j \in B : m <= j
    <3>1. B \in SUBSET Nat
      BY <1>1
    <3> HIDE DEF B
    <3> QED
      BY <3>1, LeastOne
  <2>2. m \in 0..n /\ ~WalkCounted(f[m], ids)
    OBVIOUS
  <2>3. CASE m = 0
    <3>1. f[0].result = NoResult
      BY <1>1, <1>2 DEF Walks
    <3>2. WalkCounted(f[0], ids)
      BY <3>1, NoneYet DEF WalkCounted, NoResult, Members
    <3> QED
      BY <2>2, <2>3, <3>2
  <2>4. CASE m # 0
    <3>1. m - 1 \in 0..n /\ m - 1 \notin B
      BY <1>1, <2>1, <2>2, <2>4
    <3>2. WalkCounted(f[m - 1], ids)
      BY <3>1
    <3>3. f[m] = EnterStage(f[m - 1], stages, maps)
      BY <1>2, <2>2, <2>4 DEF Walks
    <3> QED
      BY <1>3, <2>2, <3>2, <3>3, EnterCounted
  <2> QED
    BY <2>3, <2>4
<1>5. WalkCounted(f[n], ids)
  BY <1>1, <1>4
<1> QED
  BY <1>2, <1>5 DEF WalkCounted

\* What a workflow comes to.
LEMMA FlowFacts ==
  ASSUME Traceable
  PROVE  /\ WorkflowResult.score \in Int /\ Ordered(WorkflowResult.ids)
         /\ \A k \in 1..(Len(RuleSets) + 1) : Members(WorkflowResult.ids) \cap Before(k) = {}
<1>1. Len(RuleSets) \in Nat /\ DOMAIN RuleSets = 1..Len(RuleSets)
  BY OrderedFacts DEF Traceable
<1>2. CASE Package.workflows # <<>>
  <2> DEFINE wf == Workflow
             maps == FactsOnly
             ids == FlowIds
             res == WorkflowResult
  <2>1. res = evalWorkflow(wf, maps)
    BY <1>2 DEF WorkflowResult
  <2>2. Ordered(wf.stages) /\ \A name \in DOMAIN ByName(wf.stages, NameOf) :
            LET rules == ByName(wf.stages, NameOf)[name].rules IN ScoredApart(rules) /\ IdsOf(rules) \subseteq ids
    BY <1>2 DEF Traceable, FlowIds, FlowStages
  <2>3. \A k \in DOMAIN RuleSets : IdsOf(RuleSets[k].rules) \cap ids = {}
    BY <1>2 DEF Traceable
  <2> HIDE DEF wf, maps, ids, res
  <2>4. res.score \in Int /\ Ordered(res.ids) /\ Members(res.ids) \subseteq ids
    BY <2>1, <2>2, WorkflowCounted
  <2>5. ASSUME NEW k \in 1..(Len(RuleSets) + 1)
        PROVE  Members(res.ids) \cap Before(k) = {}
    <3>1. \A l \in 1..(k-1) : l \in DOMAIN RuleSets
      BY <1>1
    <3>2. \A x \in Before(k) : x \notin ids
      BY <2>3, <3>1 DEF Before
    <3> QED
      BY <2>4, <3>2
  <2> QED
    BY <2>4, <2>5 DEF res
<1>3. CASE Package.workflows = <<>>
  <2>1. WorkflowResult.score = 0 /\ WorkflowResult.ids = <<>>
    BY <1>3 DEF WorkflowResult, NoResult
  <2>2. Ordered(<<>>) /\ DOMAIN <<>> = {} /\ Members(<<>>) = {}
    BY NoneYet DEF Members
  <2> QED
    BY <2>1, <2>2
<1> QED
  BY <1>2, <1>3

\* One rule set more.
LEMMA BeforeOneMore ==
  ASSUME Traceable, NEW k \in 1..Len(RuleSets)
  PROVE  Before(k + 1) = Before(k) \cup IdsOf(RuleSets[k].rules) /\ Before(k) \cap IdsOf(RuleSets[k].rules) = {}
<1>1. Len(RuleSets) \in Nat /\ DOMAIN RuleSets = 1..Len(RuleSets)
  BY OrderedFacts DEF Traceable
<1>2. 1..((k + 1) - 1) = (1..(k-1)) \cup {k} /\ \A l \in 1..(k-1) : l \in DOMAIN RuleSets /\ l # k
  BY <1>1
<1>3. Before(k + 1) = Before(k) \cup IdsOf(RuleSets[k].rules)
  BY <1>2 DEF Before
<1>4. \A l \in 1..(k-1) : IdsOf(RuleSets[l].rules) \cap IdsOf(RuleSets[k].rules) = {}
  BY <1>1, <1>2 DEF Traceable
<1>5. Before(k) \cap IdsOf(RuleSets[k].rules) = {}
  BY <1>4 DEF Before
<1> QED
  BY <1>3, <1>5

\* What a part of Evaluate starts from, and what it has to leave.
LEMMA TracedAfter ==
  ASSUME ScoreInv, Evaluating, Keeping, Traceable'
  PROVE  /\ Traceable /\ Traced
         /\ /\ DOMAIN place' = {"policy", "rule", "ruleSet", "ranking", "optimization"}
            /\ place'.policy \in 0..Len(Policies) /\ (stage' = "rules" => place'.policy # 0)
            /\ place'.rule \in Nat \ {0} /\ place'.ruleSet \in 1..(Len(RuleSets) + 1) /\ place'.ranking \in Nat \ {0}
            /\ stage' \in {"policies", "rules", "rulesets"} =>
                  Explained(answer', Before(place'.ruleSet), 0) /\ Members(answer'.ids) \subseteq Before(place'.ruleSet)
            /\ stage' \in {"rankings", "answered"} => Explained(answer', Before(place'.ruleSet), WorkflowResult.score)
            => Traced'
<1>1. Traceable /\ Policies' = Policies /\ RuleSets' = RuleSets /\ WorkflowResult' = WorkflowResult
  BY SameAsked
<1>2. Traced
  BY <1>1 DEF ScoreInv, Evaluating
<1>3. Before(place.ruleSet)' = Before(place'.ruleSet)
  BY <1>1 DEF Before
<1> QED
  BY <1>1, <1>2, <1>3 DEF Traced

LEMMA PolicyPartsTrace ==
  ASSUME ScoreInv, Traceable', BeginPolicy \/ PassRule \/ LeavePolicy \/ LeavePolicies
  PROVE  Traced'
<1>1. Evaluating /\ Keeping /\ answer' = answer /\ place'.ruleSet = place.ruleSet /\ stage \in {"policies", "rules"}
  <2>1. Evaluating /\ Keeping
    BY DEF BeginPolicy, PassRule, RuleSays, LeavePolicy, LeavePolicies
  <2>2. Traced
    BY <2>1, TracedAfter
  <2> QED
    BY <2>1, <2>2 DEF BeginPolicy, StartPolicy, PassRule, RuleSays, At, LeavePolicy, EndPolicy, LeavePolicies, EndPolicies, Traced
<1>2. Traceable /\ Traced /\ Len(Policies) \in Nat
  BY <1>1, TracedAfter, OrderedFacts DEF Traceable
<1>3. /\ DOMAIN place' = {"policy", "rule", "ruleSet", "ranking", "optimization"}
      /\ place'.policy \in 0..Len(Policies) /\ (stage' = "rules" => place'.policy # 0)
      /\ place'.rule \in Nat \ {0} /\ place'.ranking \in Nat \ {0}
      /\ stage' \in {"policies", "rules", "rulesets"}
  <2>1. CASE BeginPolicy
    BY <1>2, <2>1 DEF BeginPolicy, StartPolicy, Traced
  <2>2. CASE PassRule
    BY <1>1, <1>2, <2>2 DEF PassRule, RuleSays, At, vars, Traced
  <2>3. CASE LeavePolicy
    BY <1>1, <1>2, <2>3 DEF LeavePolicy, EndPolicy, Traced
  <2>4. CASE LeavePolicies
    BY <1>1, <1>2, <2>4 DEF LeavePolicies, EndPolicies, Traced
  <2> QED
    BY <2>1, <2>2, <2>3, <2>4
<1>4. /\ Explained(answer, Before(place.ruleSet), 0) /\ Members(answer.ids) \subseteq Before(place.ruleSet)
      /\ place.ruleSet \in 1..(Len(RuleSets) + 1)
  BY <1>1, <1>2 DEF Traced
<1> QED
  BY <1>1, <1>3, <1>4, TracedAfter

LEMMA TakeRuleTraces ==
  ASSUME ScoreInv, Traceable', TakeRule
  PROVE  Traced'
<1>1. Evaluating /\ Keeping /\ stage = "rules" /\ place.rule <= Len(Rules)
  BY DEF TakeRule, RuleSays
<1>2. Traceable /\ Traced
  BY <1>1, TracedAfter
<1> DEFINE r == Rules[place.rule]
<1>3. r.score \in Int
  <2>1. place.policy \in DOMAIN Policies
    BY <1>1, <1>2, OrderedFacts DEF Traceable, Traced
  <2>2. place.rule \in DOMAIN Rules
    BY <1>1, <1>2, <2>1, OrderedFacts DEF Traceable, Traced, Rules, Scored
  <2> QED
    BY <1>2, <2>1, <2>2 DEF Traceable, Rules, Scored
<1>4. /\ answer' = [answer EXCEPT !.score = @ + r.score, !.actions = @ \o r.actions, !.deltas = @ \o Delta("policy", r)]
      /\ place' = [place EXCEPT !.rule = @ + 1] /\ stage' \in {"policies", "rules"}
  BY DEF TakeRule, MatchRule, At
<1>5. /\ Explained(answer, Before(place.ruleSet), 0) /\ Members(answer.ids) \subseteq Before(place.ruleSet)
  BY <1>1, <1>2 DEF Traced
<1>6. Explained(answer', Before(place.ruleSet), 0) /\ answer'.ids = answer.ids
  <2>1. answer'.ids = answer.ids
    BY <1>4, <1>5 DEF Explained
  <2> DEFINE a == answer
             seen == Before(place.ruleSet)
             actions == r.actions
             b == [a EXCEPT !.score = @ + r.score, !.actions = @ \o actions, !.deltas = @ \o Delta("policy", r)]
  <2>2. answer' = b
    BY <1>4
  <2>3. Explained(b, seen, 0)
    <3>1. Explained(a, seen, 0) /\ r.score \in Int /\ 0 \in Int
      BY <1>3, <1>5
    <3> HIDE DEF a, seen, actions, r
    <3> QED
      BY <3>1, PolicyExplained
  <2> QED
    BY <2>1, <2>2, <2>3
<1>7. /\ DOMAIN place' = DOMAIN place /\ place'.rule = place.rule + 1 /\ place'.ruleSet = place.ruleSet
      /\ place'.policy = place.policy /\ place'.ranking = place.ranking
  BY <1>2, <1>4 DEF Traced
<1>8. place'.rule \in Nat \ {0} /\ stage' \notin {"rankings", "answered"}
  BY <1>2, <1>4, <1>7 DEF Traced
<1> QED
  BY <1>1, <1>2, <1>5, <1>6, <1>7, <1>8, TracedAfter DEF Traced

LEMMA TakeRuleSetTraces ==
  ASSUME ScoreInv, Traceable', TakeRuleSet
  PROVE  Traced'
<1> DEFINE k == place.ruleSet
           res == RuleSetResult
           seen == Before(k)
<1>1. /\ Evaluating /\ Keeping /\ stage = "rulesets" /\ stage' = "rulesets" /\ k <= Len(RuleSets)
      /\ answer' = AddResult(res, explainRuleSet(RuleSet, res, Variables))
      /\ place' = [place EXCEPT !.ruleSet = @ + 1]
  BY DEF TakeRuleSet, AtRuleSet, At, RuleSetDecides, vars
<1>2. Traceable /\ Traced /\ Len(RuleSets) \in Nat /\ DOMAIN RuleSets = 1..Len(RuleSets)
  BY <1>1, TracedAfter, OrderedFacts DEF Traceable
<1>3. k \in 1..Len(RuleSets) /\ k \in DOMAIN RuleSets /\ Explained(answer, seen, 0) /\ Members(answer.ids) \subseteq seen
  BY <1>1, <1>2 DEF Traced
<1>4. /\ DOMAIN place' = DOMAIN place /\ place'.ruleSet = k + 1 /\ place'.rule = place.rule
      /\ place'.policy = place.policy /\ place'.ranking = place.ranking
  BY <1>1, <1>2 DEF Traced
<1>5. PICK n \in Nat : Tellable(RuleSet.rules, n)
  BY <1>2, <1>3, ScoredApartTells DEF Traceable, RuleSet
<1>6. Accounted(res, RuleSet.rules, n)
  <2>1. ByName(Package.ruleSets, NameOf)[RuleSet.name] = RuleSet
    BY <1>2, <1>3 DEF Traceable, RuleSet
  <2>2. res = evalRules(RuleSet.rules, RuleSet.mode, FactsOnly)
    BY <2>1 DEF RuleSetResult
  <2> QED
    BY <1>5, <2>2, RulesAccounted
<1>7. Before(k + 1) = seen \cup IdsOf(RuleSet.rules) /\ seen \cap IdsOf(RuleSet.rules) = {}
  BY <1>2, <1>3, BeforeOneMore DEF RuleSet
<1>8. Explained(answer', Before(k + 1), 0) /\ Members(answer'.ids) \subseteq Before(k + 1)
  <2> DEFINE rs == RuleSet
             maps == Variables
             a == answer
             b == answer'
  <2>1. b = Added(a, res, explainRuleSet(rs, res, maps))
    BY <1>1 DEF AddResult, Added
  <2>2. /\ Tellable(rs.rules, n) /\ Accounted(res, rs.rules, n) /\ Explained(a, seen, 0) /\ Members(a.ids) \subseteq seen
        /\ seen \cap IdsOf(rs.rules) = {}
    BY <1>3, <1>5, <1>6, <1>7
  <2>3. Explained(b, seen \cup IdsOf(rs.rules), 0) /\ Members(b.ids) \subseteq seen \cup IdsOf(rs.rules)
    <3> HIDE DEF rs, maps, res, seen, a, b
    <3> QED
      BY <2>1, <2>2, RuleSetExplained
  <2> QED
    BY <1>7, <2>3
<1> QED
  BY <1>1, <1>2, <1>3, <1>4, <1>8, TracedAfter DEF Traced

LEMMA TakeWorkflowTraces ==
  ASSUME ScoreInv, Traceable', TakeWorkflow
  PROVE  Traced'
<1> DEFINE res == WorkflowResult
           seen == Before(place.ruleSet)
<1>1. /\ Evaluating /\ Keeping /\ stage = "rulesets" /\ stage' = "rankings" /\ place' = place
      /\ answer' = AddResult(res, <<>>)
  BY DEF TakeWorkflow, AtWorkflow, NoWorkflow, WorkflowDecides
<1>2. Traceable /\ Traced
  BY <1>1, TracedAfter
<1>3. Explained(answer, seen, 0) /\ place.ruleSet \in 1..(Len(RuleSets) + 1)
  BY <1>1, <1>2 DEF Traced
<1>4. res.score \in Int /\ Ordered(res.ids) /\ Members(res.ids) \cap seen = {}
  BY <1>2, <1>3, FlowFacts
<1>5. Explained(answer', seen, res.score)
  <2>1. answer' = Added(answer, res, <<>>)
    BY <1>1 DEF AddResult, Added
  <2> HIDE DEF res, seen
  <2> QED
    BY <1>3, <1>4, <2>1, WorkflowExplained
<1> QED
  BY <1>1, <1>2, <1>5, TracedAfter DEF Traced

LEMMA TakeRankingTraces ==
  ASSUME ScoreInv, Traceable', TakeRanking
  PROVE  Traced'
<1> DEFINE r == Rankings[place.ranking]
           res == RankingResult(r)
           rest == WorkflowResult.score
           seen == Before(place.ruleSet)
<1>1. /\ Evaluating /\ Keeping /\ stage = "rankings" /\ stage' = "rankings" /\ place.ranking <= Len(Rankings)
      /\ Candidates # <<>>
      /\ place' = [place EXCEPT !.ranking = @ + 1]
  BY DEF TakeRanking, AtRanking, At, vars
<1>2. Traceable /\ Traced /\ rest \in Int
  BY <1>1, TracedAfter, FlowFacts
<1>3. Explained(answer, seen, rest)
  BY <1>1, <1>2 DEF Traced
<1>4. res.winner # <<>> => res.winner[1].score \in Int
  BY <1>1, <1>2, OrderedFacts DEF Traceable, Traced
<1>5. Explained(answer', seen, rest)
  <2>1. CASE res.winner = <<>>
    <3>1. answer' = answer
      BY <2>1 DEF TakeRanking
    <3> QED
      BY <1>3, <3>1
  <2>2. CASE res.winner # <<>>
    <3> DEFINE actions == Seqs!FlattenSeq([i \in DOMAIN r.rules |-> r.rules[i].actions])
               winner == res.winner
               name == RankingName(r)
    <3>1. answer' = [answer EXCEPT !.rank = winner, !.score = @ + winner[1].score, !.actions = @ \o actions,
                                   !.reasons = Append(@, Reason("ranking", name, winner))]
      BY <2>2 DEF TakeRanking
    <3>2. winner[1].score \in Int
      BY <1>4, <2>2
    <3> HIDE DEF rest, seen, winner, name, actions
    <3> QED
      BY <1>2, <1>3, <3>1, <3>2, WinnerExplained
  <2> QED
    BY <2>1, <2>2
<1>6. /\ DOMAIN place' = DOMAIN place /\ place'.ranking = place.ranking + 1 /\ place'.ruleSet = place.ruleSet
      /\ place'.policy = place.policy /\ place'.rule = place.rule
  BY <1>1, <1>2 DEF Traced
<1>7. place'.ranking \in Nat \ {0}
  BY <1>2, <1>6 DEF Traced
<1> QED
  BY <1>1, <1>2, <1>5, <1>6, <1>7, TracedAfter DEF Traced

LEMMA TakeOptimizationTraces ==
  ASSUME ScoreInv, Traceable', TakeOptimization
  PROVE  Traced'
<1> DEFINE opt == Optimizations[place.optimization]
           res == OptimizationResult(opt)
           rest == WorkflowResult.score
           seen == Before(place.ruleSet)
<1>1. /\ Evaluating /\ Keeping /\ stage = "rankings" /\ stage' = "rankings"
      /\ place' = [place EXCEPT !.optimization = @ + 1]
  BY DEF TakeOptimization, AtOptimization, At, vars
<1>2. Traceable /\ Traced /\ rest \in Int
  BY <1>1, TracedAfter, FlowFacts
<1>3. Explained(answer, seen, rest)
  BY <1>1, <1>2 DEF Traced
<1>4. Explained(answer', seen, rest)
  <2> DEFINE winner == res.winner
             name == opt.name
  <2>1. \/ answer' = answer
        \/ answer' = [answer EXCEPT !.reasons = Append(@, Reason("optimization", name, winner))]
    BY DEF TakeOptimization
  <2> HIDE DEF rest, seen, winner, name
  <2> QED
    BY <1>2, <1>3, <2>1, OptimizationExplained
<1>5. /\ DOMAIN place' = DOMAIN place /\ place'.ranking = place.ranking /\ place'.ruleSet = place.ruleSet
      /\ place'.policy = place.policy /\ place'.rule = place.rule
  BY <1>1, <1>2 DEF Traced
<1> QED
  BY <1>1, <1>2, <1>4, <1>5, TracedAfter DEF Traced

LEMMA LastPartsTrace ==
  ASSUME ScoreInv, Traceable', Conclude \/ PartFails
  PROVE  Traced'
<1>1. /\ Evaluating /\ Keeping /\ answer' = answer /\ place' = place
      /\ (stage = "rankings" /\ stage' = "answered") \/ stage' = "failed"
  <2>1. PartFails => Evaluating
    BY DEF PartFails, RuleSays, AtRuleSet, AtWorkflow, AtRanking, AtOptimization
  <2> QED
    BY <2>1 DEF Conclude, Finish, PartFails, Fail
<1>2. Traceable /\ Traced
  BY <1>1, TracedAfter
<1> QED
  BY <1>1, <1>2, TracedAfter DEF Traced

LEMMA BeginTraces ==
  ASSUME Traceable', BeginEvaluation, phase' = "evaluating"
  PROVE  Traced'
<1>1. Len(Policies)' \in Nat /\ Len(RuleSets)' \in Nat
  <2>1. Ordered(Policies') /\ Ordered(RuleSets')
    BY DEF Traceable
  <2> QED
    BY <2>1, OrderedFacts
<1>2. place' = Start /\ answer' = NoAnswer /\ stage' = "policies"
  BY DEF BeginEvaluation, ResetPipeline
<1>3. Explained(NoAnswer, Before(place.ruleSet)', 0) /\ Members(NoAnswer.ids) = {}
  BY NothingExplained
<1> QED
  BY <1>1, <1>2, <1>3 DEF Traced, Start

\* Nothing is under evaluation after what is not a part of one.
LEMMA OthersEnd ==
  ASSUME Call \/ Answered \/ EvaluationFails \/ Done \/ Return
  PROVE  phase' # "evaluating"
<1>1. CASE Call
  BY <1>1 DEF Call, Simulate, RunDecisionPackageTests, Begin
<1>2. CASE Answered
  BY <1>2 DEF Answered, EndCase
<1>3. CASE EvaluationFails
  BY <1>3 DEF EvaluationFails, Errs, EndCase
<1>4. CASE Done \/ Return
  BY <1>4 DEF Done, Return
<1> QED
  BY <1>1, <1>2, <1>3, <1>4

LEMMA ScoreKept == ScoreInv /\ [PackageNext]_packageVars => ScoreInv'
<1> SUFFICES ASSUME ScoreInv, [PackageNext]_packageVars, phase' = "evaluating", Traceable'
             PROVE  Traced'
  BY DEF ScoreInv
<1>1. CASE Call \/ Answered \/ EvaluationFails \/ Done \/ Return
  BY <1>1, OthersEnd
<1>2. CASE BeginEvaluation
  BY <1>2, BeginTraces
<1>3. CASE BeginPolicy \/ PassRule \/ LeavePolicy \/ LeavePolicies
  BY <1>3, PolicyPartsTrace
<1>4. CASE TakeRule
  BY <1>4, TakeRuleTraces
<1>5. CASE TakeRuleSet
  BY <1>5, TakeRuleSetTraces
<1>6. CASE TakeWorkflow
  BY <1>6, TakeWorkflowTraces
<1>7. CASE TakeRanking
  BY <1>7, TakeRankingTraces
<1>8. CASE TakeOptimization
  BY <1>8, TakeOptimizationTraces
<1>9. CASE Conclude \/ PartFails
  BY <1>9, LastPartsTrace
<1>10. CASE UNCHANGED packageVars
  <2>1. Evaluating /\ Keeping /\ place' = place /\ answer' = answer /\ stage' = stage
    BY <1>10 DEF packageVars, callVars, vars, Evaluating, Keeping
  <2>2. Traceable /\ Traced
    BY <2>1, TracedAfter
  <2> QED
    BY <2>1, <2>2, TracedAfter DEF Traced
<1> QED
  BY <1>1, <1>2, <1>3, <1>4, <1>5, <1>6, <1>7, <1>8, <1>9, <1>10 DEF PackageNext

\* The score of a response is what its explanation accounts for, in every package
\* whose rules are told apart by their ids: no part of Evaluate adds to the score
\* what it does not explain, and none explains twice (decision_platform.go:502-528).
THEOREM ScoreAlwaysExplained == PackageSpec => [](Traceable => ScoreExplained)
<1>1. PackageInit => ScoreInv
  BY DEF PackageInit, ScoreInv
<1>2. ScoreInv => (Traceable => ScoreExplained)
  BY DEF ScoreInv, Traced, Explained, ScoreExplained
<1> QED
  BY <1>1, <1>2, ScoreKept, PTL DEF PackageSpec
=============================================================================
