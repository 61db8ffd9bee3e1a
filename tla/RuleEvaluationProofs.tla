------------------------ MODULE RuleEvaluationProofs ------------------------
(* Proofs about RuleEvaluation, for any rule sets and facts: the engine         *)
(* evaluates every list of rules as RuleChoice says, a declared override holds, *)
(* the stack machine ends with the values of the trees, and the engine and the *)
(* runtime give the same answers.                                              *)
EXTENDS TLAPS, WellFoundedInduction, FiniteSetTheorems, SequenceTheorems, RuleEvaluation

-----------------------------------------------------------------------------
\* The engine's definitions are those of RuleSets.

\* Rules match, precede and end lists in the engine as RuleSets says.
LEMMA SameRules ==
  ASSUME NEW r, NEW s, NEW f, NEW m
  PROVE  /\ Engine!RuleMatches(r, f) = RuleMatches(r, f)
         /\ Engine!Precedes(r, s) = Precedes(r, s)
         /\ Engine!EndsList(m, r) = EndsList(m, r)
         /\ Engine!Active(r) = Active(r)
  BY DEF Engine!RuleMatches, RuleMatches, Engine!ConditionHolds, ConditionHolds,
         Engine!evalGroup, evalGroup, Engine!Active, Active, Engine!Native, Native,
         Engine!OperandHolds, OperandHolds, Engine!In, In, Engine!NativeCompare, NativeCompare,
         Engine!Equal, Equal,
         Engine!Relation, Relation, Engine!Numeric, Numeric, Engine!Comparisons, Comparisons,
         Engine!Precedes, Precedes, Engine!EndsList, EndsList,
         Engine!shouldStopForMode, shouldStopForMode, Engine!ruleDenies, ruleDenies,
         Engine!ruleAllows, ruleAllows, Engine!ActionTypes, ActionTypes

-----------------------------------------------------------------------------
\* A list has a foremost rule.

\* The rule at i comes before the one at j.
Before(s, i, j) == Precedes(s[i], s[j]) \/ (~Precedes(s[j], s[i]) /\ i < j)

\* What the list of a rule set is, plainly.
LEMMA RuleListFacts ==
  ASSUME NEW s, IsRuleList(s)
  PROVE  /\ Len(s) \in Nat /\ DOMAIN s = 1..Len(s)
         /\ \A i \in DOMAIN s :
               /\ i \in Int /\ s[i].priority \in Int /\ s[i].salience \in Int
               /\ Len(s[i].actions) \in Nat /\ DOMAIN s[i].actions = 1..Len(s[i].actions)
<1>1. \A S, q : q \in Seq(S) => Len(q) \in Nat /\ DOMAIN q = 1..Len(q)
  BY LenProperties, Zenon
<1>2. Len(s) \in Nat /\ DOMAIN s = 1..Len(s)
  BY <1>1, Zenon DEF IsRuleList
<1>3. \A i \in DOMAIN s :
         Len(s[i].actions) \in Nat /\ DOMAIN s[i].actions = 1..Len(s[i].actions)
  BY <1>1, Zenon DEF IsRuleList
<1>4. \A i \in DOMAIN s : s[i].priority \in Int /\ s[i].salience \in Int
  BY Zenon DEF IsRuleList
<1>5. \A i \in DOMAIN s : i \in Int
  BY <1>2
<1> QED
  BY <1>2, <1>3, <1>4, <1>5, Zenon

\* The rules of a list are in a strict total order.
LEMMA BeforeIsTotal ==
  ASSUME NEW s, IsRuleList(s)
  PROVE  /\ \A i \in DOMAIN s : ~Before(s, i, i)
         /\ \A i, j \in DOMAIN s : i # j => Before(s, i, j) \/ Before(s, j, i)
         /\ \A i, j, k \in DOMAIN s : Before(s, i, j) /\ Before(s, j, k) => Before(s, i, k)
<1>1. \A i \in DOMAIN s : i \in Int /\ s[i].priority \in Int /\ s[i].salience \in Int
  BY RuleListFacts, Zenon
<1> QED
  BY <1>1 DEF Before, Precedes

\* A finite set has a first element in a strict total order.
LEMMA FirstOfOrder ==
  ASSUME NEW L, IsFiniteSet(L), L # {}, NEW R,
         \A i \in L : <<i, i>> \notin R,
         \A i, j \in L : i # j => <<i, j>> \in R \/ <<j, i>> \in R,
         \A i, j, k \in L : <<i, j>> \in R /\ <<j, k>> \in R => <<i, k>> \in R
  PROVE  \E i \in L : \A j \in L \ {i} : <<i, j>> \in R
<1> DEFINE Earlier(i) == {j \in L : <<j, i>> \in R}
           T == {Earlier(i) : i \in L}
<1>1. T \subseteq SUBSET L /\ T # {}
  <2>1. \A i \in L : Earlier(i) \in SUBSET L
    OBVIOUS
  <2> HIDE DEF Earlier
  <2> QED
    BY <2>1
<1>2. T \subseteq FiniteSubsetsOf(L)
  <2>1. FiniteSubsetsOf(L) = SUBSET L
    BY FS_FiniteSubsetsOfFinite, Zenon
  <2> QED
    BY <1>1, <2>1
<1>3. IsWellFoundedOn(StrictSubsetOrdering(L), FiniteSubsetsOf(L))
  BY FS_StrictSubsetOrderingWellFounded, Zenon
<1>4. \E x \in T : \A y \in T : <<y, x>> \notin StrictSubsetOrdering(L)
  <2> HIDE DEF T
  <2> QED
    BY <1>1, <1>2, <1>3, WFMin, Zenon
<1>5. PICK i \in L : \A y \in T : <<y, Earlier(i)>> \notin StrictSubsetOrdering(L)
  BY <1>4
<1>6. Earlier(i) = {}
  <2> SUFFICES ASSUME NEW j \in L, <<j, i>> \in R
               PROVE  FALSE
    OBVIOUS
  <2>1. Earlier(j) \subseteq Earlier(i)
    OBVIOUS
  <2>2. j \in Earlier(i) /\ j \notin Earlier(j)
    OBVIOUS
  <2>3. <<Earlier(j), Earlier(i)>> \in StrictSubsetOrdering(L)
    BY <2>1, <2>2 DEF StrictSubsetOrdering
  <2> QED
    BY <2>3, <1>5
<1> QED
  BY <1>6

\* One of the rules that are left comes before all the others.
LEMMA OneIsFirst ==
  ASSUME NEW s, IsRuleList(s), NEW L \in SUBSET DOMAIN s, L # {}
  PROVE  \E i \in L : \A j \in L \ {i} : Before(s, i, j)
<1> DEFINE R == {p \in L \X L : Before(s, p[1], p[2])}
<1>1. IsFiniteSet(L)
  <2>1. PICK n \in Nat : DOMAIN s = 1..n
    BY RuleListFacts, Zenon
  <2>2. 1 \in Int /\ n \in Int
    OBVIOUS
  <2>3. IsFiniteSet(1..n)
    BY <2>2, FS_Interval, Zenon
  <2>4. L \in SUBSET (1..n)
    BY <2>1
  <2> QED
    BY <2>3, <2>4, FS_Subset, Zenon
<1>2. \A i, j \in L : <<i, j>> \in R <=> Before(s, i, j)
  OBVIOUS
<1>3. /\ \A i \in L : ~Before(s, i, i)
      /\ \A i, j \in L : i # j => Before(s, i, j) \/ Before(s, j, i)
      /\ \A i, j, k \in L : Before(s, i, j) /\ Before(s, j, k) => Before(s, i, k)
  BY BeforeIsTotal
<1>4. \E i \in L : \A j \in L \ {i} : <<i, j>> \in R
  <2> HIDE DEF R
  <2> QED
    BY <1>1, <1>2, <1>3, FirstOfOrder
<1> QED
  BY <1>2, <1>4

\* The rule whose turn it is comes before all that are left.
LEMMA TurnIsFirst ==
  ASSUME IsRuleList(rules), left \subseteq DOMAIN rules, left # {}
  PROVE  /\ Engine!Turn \in left
         /\ \A j \in left : ~Precedes(rules[j], rules[Engine!Turn])
<1> DEFINE IsTurn(i) == \A j \in left \ {i} : Before(rules, i, j)
<1>1. Engine!Turn = CHOOSE i \in left : IsTurn(i)
  BY SameRules, Zenon DEF Engine!Turn, Before, Engine!Precedes, Precedes
<1>2. \E i \in left : IsTurn(i)
  BY OneIsFirst
<1>3. Engine!Turn \in left /\ IsTurn(Engine!Turn)
  BY <1>1, <1>2, Zenon
<1>4. \A i \in DOMAIN rules : rules[i].priority \in Int /\ rules[i].salience \in Int
  BY RuleListFacts, Zenon
<1>5. \A i, j \in DOMAIN rules :
         i = j \/ Before(rules, i, j) => ~Precedes(rules[j], rules[i])
  BY <1>4 DEF Before, Precedes
<1>6. \A j \in left : ~Precedes(rules[j], rules[Engine!Turn])
  <2> SUFFICES ASSUME NEW j \in left
               PROVE  j = Engine!Turn \/ Before(rules, Engine!Turn, j)
    BY <1>3, <1>5, Zenon
  <2> QED
    BY <1>3, Zenon
<1> QED
  BY <1>3, <1>6, Zenon

-----------------------------------------------------------------------------
\* The inductive invariant.

\* A list is open only while the rules or a stage are evaluated, and before the first
\* question there is no list at all.
OpenWhereEvaluated ==
  /\ list = "open" => at \in {"top", "inStage"}
  /\ at = "idle" => rules = <<>> /\ list = "closed"

\* Everything that is evaluated comes from a rule set that was loaded.
FromRuleSets ==
  /\ ruleSets \subseteq RuleSets
  /\ rs \in RuleSets \cup {NoRuleSet}
  /\ waiting \subseteq DOMAIN rs.workflows
  /\ at \in {"stage", "inStage"} => \E w \in DOMAIN rs.workflows : wf = rs.workflows[w]
  /\ IsRuleList(rules)

\* Each rule of the list is left, or applied, or neither because it does not match.
RulesAccountedFor ==
  /\ left \subseteq DOMAIN rules
  /\ applied \in Seq(DOMAIN rules)
  /\ \A k \in DOMAIN applied : applied[k] \notin left
  /\ list = "open" =>
        \A i \in Matching(rules, facts) : i \in left \/ \E k \in DOMAIN applied : applied[k] = i

\* Whether the list ends with the rule at i, which had the last word.
EndedBy(i) ==
  /\ EndsList(Engine!Mode, rules[i])
  /\ \E before \in BOOLEAN : res.allowed = Engine!LastWord(Engine!Words(rules[i]), before)

\* An open list has met no rule that ends lists; a closed one has none among the rules
\* that match, or the last rule that was applied ended it.
EndedByLast ==
  /\ res.allowed \in BOOLEAN
  /\ list = "open" =>
        \A k \in DOMAIN applied : ~EndsList(Engine!Mode, rules[applied[k]])
  /\ list = "closed" =>
        \/ \A i \in Matching(rules, facts) : ~EndsList(Engine!Mode, rules[i])
        \/ \E i \in Matching(rules, facts) : EndedBy(i)

IInv == OpenWhereEvaluated /\ FromRuleSets /\ RulesAccountedFor /\ EndedByLast

-----------------------------------------------------------------------------
\* The last word of a rule.

\* Something in front of a list.
LEMMA OneInFront ==
  ASSUME NEW x, NEW n \in Nat, NEW q, q = [k \in 1..n |-> q[k]], NEW t, t = <<x>> \o q
  PROVE  /\ DOMAIN t = 1..(n + 1) /\ Len(t) = n + 1
         /\ t[1] = x
         /\ \A i \in 1..n : t[i + 1] = q[i]
<1> DEFINE S == {x} \cup {q[k] : k \in 1..n}
<1>1. <<x>> \in Seq(S) /\ Len(<<x>>) = 1 /\ <<x>>[1] = x
  OBVIOUS
<1>2. q \in Seq(S) /\ Len(q) = n
  <2>1. \A k \in 1..n : q[k] \in S
    OBVIOUS
  <2> HIDE DEF S
  <2>2. q \in [1..n -> S]
    BY <2>1
  <2> QED
    BY <2>2
<1> HIDE DEF S
<1>3. /\ t \in Seq(S)
      /\ Len(t) = Len(<<x>>) + Len(q)
      /\ \A i \in 1 .. Len(<<x>>) + Len(q) :
            t[i] = IF i <= Len(<<x>>) THEN <<x>>[i] ELSE q[i - Len(<<x>>)]
  BY <1>1, <1>2, ConcatProperties
<1>4. /\ DOMAIN t = 1..(n + 1) /\ Len(t) = n + 1
      /\ \A i \in 1..(n + 1) : t[i] = IF i <= 1 THEN x ELSE q[i - 1]
  BY <1>1, <1>2, <1>3
<1>5. ASSUME NEW i \in 1..n
      PROVE  t[i + 1] = q[i]
  <2>1. i + 1 \in 1..(n + 1) /\ ~(i + 1 <= 1) /\ (i + 1) - 1 = i
    OBVIOUS
  <2> QED
    BY <1>4, <2>1
<1> QED
  BY <1>4, <1>5

\* What is known of the words of a rule with n actions.
LEMMA WordsInOrder ==
  ASSUME NEW r, NEW n \in Nat, DOMAIN r.actions = 1..n
  PROVE  /\ DOMAIN Engine!Words(r) = 1..(n + 1)
         /\ Engine!Words(r)[1] = r.decision
         /\ \A i \in 1..n : Engine!Words(r)[i + 1] = r.actions[i].type
<1>1. PICK q : q = [i \in 1..n |-> r.actions[i].type]
  OBVIOUS
<1>2. q = [k \in 1..n |-> q[k]] /\ \A k \in 1..n : q[k] = r.actions[k].type
  BY <1>1
<1>3. Engine!Words(r) = <<r.decision>> \o q
  BY <1>1 DEF Engine!Words
<1> QED
  BY <1>2, <1>3, OneInFront

\* The words of a rule are its decision and the types of its actions.
LEMMA WordsOfRule ==
  ASSUME NEW r, NEW n \in Nat, DOMAIN r.actions = 1..n, NEW w
  PROVE  (r.decision = w \/ w \in ActionTypes(r))
            <=> \E k \in DOMAIN Engine!Words(r) : Engine!Words(r)[k] = w
<1>1. PICK words : words = Engine!Words(r)
  OBVIOUS
<1>2. /\ DOMAIN words = 1..(n + 1) /\ words[1] = r.decision
      /\ \A i \in 1..n : words[i + 1] = r.actions[i].type
  BY <1>1, WordsInOrder
<1>3. ASSUME NEW k \in DOMAIN words, words[k] = w
      PROVE  r.decision = w \/ w \in ActionTypes(r)
  <2>1. CASE k = 1
    BY <1>2, <1>3, <2>1
  <2>2. CASE k # 1
    <3>1. k - 1 \in 1..n /\ (k - 1) + 1 = k
      BY <1>2, <2>2
    <3> QED
      BY <1>2, <1>3, <3>1 DEF ActionTypes
  <2> QED
    BY <2>1, <2>2
<1>4. r.decision = w => \E k \in DOMAIN words : words[k] = w
  BY <1>2
<1>5. ASSUME w \in ActionTypes(r)
      PROVE  \E k \in DOMAIN words : words[k] = w
  <2>1. PICK i \in 1..n : r.actions[i].type = w
    BY <1>5 DEF ActionTypes
  <2>2. i + 1 \in DOMAIN words
    BY <1>2
  <2> QED
    BY <1>2, <2>1, <2>2
<1> QED
  BY <1>1, <1>3, <1>4, <1>5

\* A rule that says one of the words and not the other has that word as its last.
LEMMA LastWordOfRule ==
  ASSUME NEW r, NEW n \in Nat, DOMAIN r.actions = 1..n, NEW before \in BOOLEAN
  PROVE  /\ ruleDenies(r) /\ ~ruleAllows(r) => ~Engine!LastWord(Engine!Words(r), before)
         /\ ruleAllows(r) /\ ~ruleDenies(r) => Engine!LastWord(Engine!Words(r), before)
<1>1. ruleAllows(r) <=> \E k \in DOMAIN Engine!Words(r) : Engine!Words(r)[k] = "allow"
  BY WordsOfRule DEF ruleAllows
<1>2. ruleDenies(r) <=> \E k \in DOMAIN Engine!Words(r) : Engine!Words(r)[k] = "deny"
  BY WordsOfRule DEF ruleDenies
<1> QED
  BY <1>1, <1>2 DEF Engine!LastWord

\* A declared override follows from how lists end.
LEMMA OverridesFollow == IInv => OverridesHold
<1> SUFFICES ASSUME IInv, list = "closed",
                    NEW m, m = Engine!Mode,
                    \A i \in Matching(rules, facts) :
                       /\ ~rules[i].stop /\ rules[i].next = ""
                       /\ ~(ruleAllows(rules[i]) /\ ruleDenies(rules[i]))
             PROVE  /\ /\ m = "DenyOverrides"
                       /\ \E i \in Matching(rules, facts) : ruleDenies(rules[i])
                       => ~res.allowed
                    /\ /\ m = "AllowOverrides"
                       /\ \E i \in Matching(rules, facts) : ruleAllows(rules[i])
                       => res.allowed
  BY DEF OverridesHold
<1>1. \A i \in Matching(rules, facts) :
         EndsList(m, rules[i]) <=>
            \/ m \in {"FirstMatch", "HighestPriority"}
            \/ m = "DenyOverrides" /\ ruleDenies(rules[i])
            \/ m = "AllowOverrides" /\ ruleAllows(rules[i])
  BY DEF EndsList, shouldStopForMode
<1>2. CASE \A i \in Matching(rules, facts) : ~EndsList(m, rules[i])
  BY <1>1, <1>2
<1>3. CASE \E i \in Matching(rules, facts) : EndedBy(i)
  <2>1. PICK i \in Matching(rules, facts), before \in BOOLEAN :
           /\ EndsList(m, rules[i])
           /\ res.allowed = Engine!LastWord(Engine!Words(rules[i]), before)
    BY <1>3 DEF EndedBy
  <2>2. i \in DOMAIN rules
    BY DEF Matching
  <2>3. PICK n \in Nat : DOMAIN rules[i].actions = 1..n
    BY <2>2, RuleListFacts, Zenon DEF IInv, FromRuleSets
  <2>4. /\ ruleDenies(rules[i]) /\ ~ruleAllows(rules[i]) => ~res.allowed
        /\ ruleAllows(rules[i]) /\ ~ruleDenies(rules[i]) => res.allowed
    BY <2>1, <2>3, LastWordOfRule, Zenon
  <2> QED
    BY <1>1, <2>1, <2>4
<1> QED
  BY <1>2, <1>3, Zenon DEF IInv, EndedByLast

-----------------------------------------------------------------------------
\* What a step may do to the list.

Kept == UNCHANGED <<rs, facts, rules, left, applied, list, res>>

\* Before there is a rule set, a question is only remembered.
AskedInVain ==
  /\ rules = <<>> /\ list = "closed"
  /\ UNCHANGED <<rs, rules, left, applied, list, res>>

Begun ==
  /\ list # "open" /\ list' = "open"
  /\ applied' = <<>> /\ left' = DOMAIN rules'
  /\ res' = Engine!NoResult /\ res'.allowed = FALSE

PassedOver(t) ==
  /\ ~RuleMatches(rules[t], facts)
  /\ left' = left \ {t}
  /\ UNCHANGED <<list, applied, res>>

Applied(t) ==
  /\ RuleMatches(rules[t], facts)
  /\ left' = left \ {t} /\ applied' = Append(applied, t)
  /\ res' = Engine!applyMatchedRule(res, rules[t])
  /\ res'.allowed = Engine!LastWord(Engine!Words(rules[t]), res.allowed)
  /\ list' = IF EndsList(Engine!Mode, rules[t]) THEN "closed" ELSE "open"

FailedAt(t) ==
  /\ RuleMatches(rules[t], facts)
  /\ left' = left \ {t} /\ applied' = Append(applied, t)
  /\ res'.allowed \in BOOLEAN
  /\ list' = "failed"

Ended == left = {} /\ list' = "closed" /\ UNCHANGED <<left, applied, res>>

Failed == list' = "failed" /\ UNCHANGED <<left, applied, res>>

\* No rule that is left precedes the one at t.
FirstLeft(t) == t \in left /\ \A j \in left : ~Precedes(rules[j], rules[t])

Proceeded ==
  /\ list = "open" /\ UNCHANGED <<rs, facts, rules>>
  /\ \/ Ended \/ Failed
     \/ \E t \in left : FirstLeft(t) /\ (PassedOver(t) \/ Applied(t) \/ FailedAt(t))

\* What happens to a rule is what happens to the one whose turn it is.
LEMMA EvalRulesProceeds ==
  ASSUME IInv, Engine!EvalRules
  PROVE  Proceeded
<1>1. UNCHANGED <<rs, facts>>
  BY DEF Engine!EvalRules, Engine!callVars
<1>2. left # {} => FirstLeft(Engine!Turn)
  BY TurnIsFirst, Zenon DEF IInv, FromRuleSets, RulesAccountedFor, FirstLeft
<1>3. /\ Engine!RuleMatches(rules[Engine!Turn], facts) = RuleMatches(rules[Engine!Turn], facts)
      /\ Engine!EndsList(Engine!Mode, rules[Engine!Turn])
            = EndsList(Engine!Mode, rules[Engine!Turn])
  BY SameRules, Zenon
<1>4. CASE Engine!Skip
  <2>1. list = "open" /\ left # {} /\ UNCHANGED rules
    BY <1>4 DEF Engine!Skip
  <2>2. PassedOver(Engine!Turn)
    BY <1>3, <1>4 DEF Engine!Skip, PassedOver
  <2> QED
    BY <1>1, <1>2, <2>1, <2>2 DEF Proceeded, FirstLeft
<1>5. CASE Engine!Apply
  <2>1. list = "open" /\ left # {} /\ UNCHANGED rules
    BY <1>5 DEF Engine!Apply
  <2>2. res' = Engine!applyMatchedRule(res, rules[Engine!Turn])
    BY <1>5 DEF Engine!Apply
  <2>3. res'.allowed = Engine!LastWord(Engine!Words(rules[Engine!Turn]), res.allowed)
    BY <2>2 DEF Engine!applyMatchedRule
  <2>4. Applied(Engine!Turn)
    BY <1>3, <1>5, <2>3 DEF Engine!Apply, Applied
  <2> QED
    BY <1>1, <1>2, <2>1, <2>4 DEF Proceeded, FirstLeft
<1>6. CASE Engine!EndOfList
  BY <1>1, <1>6 DEF Engine!EndOfList, Proceeded, Ended
<1>7. CASE Engine!ConditionFails
  BY <1>1, <1>7 DEF Engine!ConditionFails, Proceeded, Failed
<1>8. CASE Engine!GroupHandlerFails
  BY <1>1, <1>8 DEF Engine!GroupHandlerFails, Proceeded, Failed
<1>9. CASE Engine!HandlerFails
  <2>1. list = "open" /\ left # {} /\ UNCHANGED rules
    BY <1>9 DEF Engine!HandlerFails
  <2>2. PICK k : res' = [Engine!applyMatchedRule(res, rules[Engine!Turn]) EXCEPT
                            !.allowed = Engine!LastWord(
                                SubSeq(Engine!Words(rules[Engine!Turn]), 1, k + 1), res.allowed)]
    BY <1>9 DEF Engine!HandlerFails
  <2>3. res'.allowed \in BOOLEAN
    <3>1. res'.allowed = Engine!LastWord(
                             SubSeq(Engine!Words(rules[Engine!Turn]), 1, k + 1), res.allowed)
      BY <2>2 DEF Engine!applyMatchedRule
    <3> QED
      BY <3>1 DEF Engine!LastWord
  <2>4. FailedAt(Engine!Turn)
    BY <1>3, <1>9, <2>3 DEF Engine!HandlerFails, FailedAt
  <2> QED
    BY <1>1, <1>2, <2>1, <2>4 DEF Proceeded, FirstLeft
<1> QED
  BY <1>4, <1>5, <1>6, <1>7, <1>8, <1>9 DEF Engine!EvalRules

\* The other steps of the engine leave the list alone, or begin another one.
LEMMA EngineStepKinds ==
  ASSUME IInv, Engine!Proceed
  PROVE  Kept \/ Begun \/ Proceeded
<1>1. CASE Engine!EvalRules
  BY <1>1, EvalRulesProceeds
<1>2. CASE Engine!RulesReturn \/ Engine!Return
  BY <1>2 DEF Engine!RulesReturn, Engine!Return, Engine!callVars, Engine!listVars, Kept
<1>3. CASE Engine!EnterStage
  <2>1. at = "stage" /\ Engine!BeginList(wf.stages[stage].rules)
    BY <1>3 DEF Engine!EnterStage
  <2>2. list # "open"
    BY <2>1 DEF IInv, OpenWhereEvaluated
  <2> QED
    BY <2>1, <2>2 DEF Engine!BeginList, Engine!NoResult, Begun
<1>4. CASE Engine!EvalWorkflow /\ ~Engine!EnterStage
  BY <1>4 DEF Engine!EvalWorkflow, Engine!StartWorkflow, Engine!LeaveStage, Engine!StageFails,
              Engine!NoSuchStage, Engine!EndWorkflow, Engine!callVars, Engine!listVars, Kept
<1> QED
  BY <1>1, <1>2, <1>3, <1>4 DEF Engine!Proceed

\* What a step of the composition may do to the list.
LEMMA StepKinds ==
  ASSUME IInv, [Next]_vars
  PROVE  Kept \/ AskedInVain \/ Begun \/ Proceeded
<1>1. CASE UNCHANGED engineVars
  BY <1>1 DEF engineVars, Kept
<1>2. CASE Load \/ ContextEnds \/ AddAnother
  BY <1>2 DEF Load, ContextEnds, AddAnother, Engine!AddRuleSet, Engine!Cancel,
              Engine!callVars, Engine!listVars, Kept
<1>3. CASE AskEngine
  <2>1. PICK f \in Facts : Engine!Evaluate(f)
    BY <1>3 DEF AskEngine
  <2>2. rules = <<>> /\ list = "closed"
    BY <1>3 DEF AskEngine, IInv, OpenWhereEvaluated
  <2>3. CASE UNCHANGED <<rs, rules, left, applied, list, res>>
    BY <2>2, <2>3 DEF AskedInVain
  <2>4. CASE \E found \in ruleSets : Engine!BeginList(found.rules)
    <3>1. PICK found \in ruleSets : Engine!BeginList(found.rules)
      BY <2>4
    <3>2. /\ rules' = found.rules /\ left' = DOMAIN found.rules
          /\ applied' = <<>> /\ list' = "open" /\ res' = Engine!NoResult
      BY <3>1 DEF Engine!BeginList
    <3>3. res'.allowed = FALSE
      BY <3>2 DEF Engine!NoResult
    <3> QED
      BY <2>2, <3>2, <3>3 DEF Begun
  <2> QED
    BY <2>1, <2>3, <2>4 DEF Engine!Evaluate, Engine!listVars
<1>4. CASE EngineProceeds
  BY <1>4, EngineStepKinds DEF EngineProceeds
<1>5. CASE AskRuntime \/ RuntimeProceeds \/ ReloadAnother
  BY <1>1, <1>5 DEF AskRuntime, RuntimeProceeds, ReloadAnother
<1> QED
  BY <1>1, <1>2, <1>3, <1>4, <1>5 DEF Next, vars

-----------------------------------------------------------------------------
\* The invariant is kept.

\* It holds before the first question.
LEMMA InitIInv == Init => IInv
<1> SUFFICES ASSUME Init
             PROVE  IInv
  OBVIOUS
<1>1. /\ ruleSets = {} /\ rs = NoRuleSet /\ waiting = {} /\ at = "idle"
      /\ rules = <<>> /\ left = {} /\ applied = <<>> /\ list = "closed"
      /\ res.allowed = FALSE
  BY DEF Init, Engine!Init, Engine!NoRuleSet, NoRuleSet, Engine!NoResult
<1>2. IsRuleList(rules)
  BY <1>1 DEF IsRuleList
<1>3. Matching(rules, facts) = {}
  BY <1>1 DEF Matching
<1>4. OpenWhereEvaluated
  BY <1>1 DEF OpenWhereEvaluated
<1>5. FromRuleSets
  BY <1>1, <1>2 DEF FromRuleSets
<1>6. RulesAccountedFor
  BY <1>1 DEF RulesAccountedFor
<1>7. EndedByLast
  <2>1. res.allowed \in BOOLEAN
    BY <1>1
  <2> QED
    BY <1>1, <1>3, <2>1 DEF EndedByLast
<1> QED
  BY <1>4, <1>5, <1>6, <1>7 DEF IInv

\* The list that a rule was applied to, one longer.
LEMMA AppliedOneMore ==
  ASSUME IInv, NEW t \in left, applied' = Append(applied, t)
  PROVE  /\ applied' \in Seq(DOMAIN rules)
         /\ \A k \in DOMAIN applied' :
               applied'[k] = t \/ \E n \in DOMAIN applied : applied'[k] = applied[n]
         /\ \E k \in DOMAIN applied' : applied'[k] = t
         /\ \A n \in DOMAIN applied : \E k \in DOMAIN applied' : applied'[k] = applied[n]
<1>1. applied \in Seq(DOMAIN rules) /\ t \in DOMAIN rules
  BY DEF IInv, RulesAccountedFor
<1>2. /\ applied' \in Seq(DOMAIN rules)
      /\ Len(applied') = Len(applied) + 1
      /\ \A k \in 1..Len(applied) : applied'[k] = applied[k]
      /\ applied'[Len(applied) + 1] = t
  BY <1>1, AppendProperties
<1>3. DOMAIN applied = 1..Len(applied) /\ DOMAIN applied' = 1..(Len(applied) + 1)
      /\ Len(applied) \in Nat
  BY <1>1, <1>2
<1> QED
  BY <1>2, <1>3

\* Rules are accounted for whatever happens to the list.
LEMMA AccountsStay ==
  ASSUME IInv, Kept \/ AskedInVain \/ Begun \/ Proceeded
  PROVE  RulesAccountedFor'
<1> USE DEF RulesAccountedFor
<1>1. CASE Kept
  BY <1>1 DEF Kept, IInv
<1>2. CASE AskedInVain
  BY <1>2 DEF AskedInVain, IInv
<1>3. CASE Begun
  <2>1. \A i \in Matching(rules, facts)' : i \in DOMAIN rules'
    BY DEF Matching
  <2> QED
    BY <1>3, <2>1 DEF Begun
<1>4. CASE Proceeded
  <2> USE <1>4 DEF Proceeded
  <2>1. Matching(rules, facts)' = Matching(rules, facts)
    OBVIOUS
  <2>2. CASE Ended \/ Failed
    BY <2>2 DEF Ended, Failed, IInv
  <2>3. ASSUME NEW t \in left, PassedOver(t)
        PROVE  RulesAccountedFor'
    <3>1. t \notin Matching(rules, facts)
      BY <2>3 DEF PassedOver, Matching
    <3> QED
      BY <2>1, <2>3, <3>1 DEF PassedOver, IInv
  <2>4. ASSUME NEW t \in left, left' = left \ {t}, applied' = Append(applied, t)
        PROVE  RulesAccountedFor'
    <3>1. /\ applied' \in Seq(DOMAIN rules)
          /\ \A k \in DOMAIN applied' :
                applied'[k] = t \/ \E n \in DOMAIN applied : applied'[k] = applied[n]
          /\ \E k \in DOMAIN applied' : applied'[k] = t
          /\ \A n \in DOMAIN applied : \E k \in DOMAIN applied' : applied'[k] = applied[n]
      BY <2>4, AppliedOneMore, Zenon
    <3>2. \A k \in DOMAIN applied' : applied'[k] \notin left'
      BY <2>4, <3>1 DEF IInv
    <3>3. \A i \in Matching(rules, facts) :
             i \in left' \/ \E k \in DOMAIN applied' : applied'[k] = i
      BY <2>4, <3>1 DEF IInv
    <3>4. left' \subseteq DOMAIN rules'
      BY <2>4 DEF IInv
    <3> QED
      BY <2>1, <3>1, <3>2, <3>3, <3>4
  <2> QED
    BY <2>2, <2>3, <2>4 DEF Applied, FailedAt
<1> QED
  BY <1>1, <1>2, <1>3, <1>4

\* And it is known why the list ended.
LEMMA EndsStay ==
  ASSUME IInv, Kept \/ AskedInVain \/ Begun \/ Proceeded
  PROVE  EndedByLast'
<1> USE DEF EndedByLast
<1>1. CASE Kept
  <2>1. Engine!Mode' = Engine!Mode
    BY <1>1 DEF Kept, Engine!Mode, Engine!ruleSetMode
  <2> QED
    BY <1>1, <2>1 DEF Kept, IInv, EndedBy
<1>2. CASE AskedInVain
  <2>1. Matching(rules, facts)' = {}
    BY <1>2 DEF AskedInVain, Matching
  <2> QED
    BY <1>2, <2>1 DEF AskedInVain, IInv
<1>3. CASE Begun
  <2>1. res'.allowed \in BOOLEAN
    BY <1>3 DEF Begun
  <2>2. list' = "open" /\ DOMAIN applied' = {}
    BY <1>3 DEF Begun
  <2> QED
    BY <2>1, <2>2
<1>4. CASE Proceeded
  <2> USE <1>4 DEF Proceeded
  <2>1. Matching(rules, facts)' = Matching(rules, facts) /\ rules' = rules
    OBVIOUS
  <2>2. Engine!Mode' = Engine!Mode
    BY DEF Engine!Mode, Engine!ruleSetMode
  <2>3. PICK m : m = Engine!Mode
    OBVIOUS
  <2>4. \A k \in DOMAIN applied : ~EndsList(m, rules[applied[k]])
    BY <2>3 DEF IInv
  <2>5. CASE Ended
    <3>1. \A i \in Matching(rules, facts) : \E k \in DOMAIN applied : applied[k] = i
      BY <2>5 DEF Ended, IInv, RulesAccountedFor
    <3>2. \A i \in Matching(rules, facts) : ~EndsList(m, rules[i])
      BY <2>4, <3>1
    <3> QED
      BY <2>1, <2>2, <2>3, <2>5, <3>2 DEF Ended, IInv
  <2>6. CASE Failed
    BY <2>6 DEF Failed, IInv
  <2>7. ASSUME NEW t \in left, PassedOver(t)
        PROVE  EndedByLast'
    BY <2>1, <2>2, <2>3, <2>4, <2>7 DEF PassedOver, IInv
  <2>8. ASSUME NEW t \in left, Applied(t), EndsList(m, rules[t])
        PROVE  EndedByLast'
    <3>1. t \in Matching(rules, facts)
      BY <2>8 DEF Applied, Matching, IInv, RulesAccountedFor
    <3>2. res.allowed \in BOOLEAN
      BY DEF IInv
    <3>3. EndedBy(t)'
      BY <2>1, <2>2, <2>3, <2>8, <3>2 DEF Applied, EndedBy
    <3>4. res'.allowed \in BOOLEAN
      BY <2>8 DEF Applied, Engine!LastWord
    <3> QED
      BY <2>1, <2>3, <2>8, <3>1, <3>3, <3>4 DEF Applied
  <2>9. ASSUME NEW t \in left, Applied(t), ~EndsList(m, rules[t])
        PROVE  EndedByLast'
    <3>1. \A k \in DOMAIN applied' :
             applied'[k] = t \/ \E n \in DOMAIN applied : applied'[k] = applied[n]
      BY <2>9, AppliedOneMore, Zenon DEF Applied
    <3>2. \A k \in DOMAIN applied' : ~EndsList(m, rules[applied'[k]])
      BY <2>4, <2>9, <3>1
    <3>3. res'.allowed \in BOOLEAN
      BY <2>9 DEF Applied, Engine!LastWord
    <3> QED
      BY <2>1, <2>2, <2>3, <2>9, <3>2, <3>3 DEF Applied
  <2>10. ASSUME NEW t \in left, FailedAt(t)
         PROVE  EndedByLast'
    BY <2>10 DEF FailedAt
  <2> QED
    BY <2>3, <2>5, <2>6, <2>7, <2>8, <2>9, <2>10
<1> QED
  BY <1>1, <1>2, <1>3, <1>4

\* The lists of a rule set that was loaded are lists of rules.
LEMMA ListsOfRuleSets ==
  ASSUME NEW set \in RuleSets \cup {NoRuleSet}
  PROVE  /\ IsRuleList(set.rules)
         /\ \A w \in DOMAIN set.workflows : \A n \in DOMAIN set.workflows[w].stages :
               IsRuleList(set.workflows[w].stages[n].rules)
<1>1. CASE set \in RuleSets
  <2>1. \A s \in Lists(set) : IsRuleList(s)
    BY <1>1, RuleSetsAssumption
  <2>2. set.rules \in Lists(set)
    BY DEF Lists
  <2>3. ASSUME NEW w \in DOMAIN set.workflows, NEW n \in DOMAIN set.workflows[w].stages
        PROVE  set.workflows[w].stages[n].rules \in Lists(set)
    <3> DEFINE OfWorkflow(v) ==
                 {set.workflows[v].stages[m].rules : m \in DOMAIN set.workflows[v].stages}
    <3>1. set.workflows[w].stages[n].rules \in OfWorkflow(w)
      OBVIOUS
    <3>2. OfWorkflow(w) \in {OfWorkflow(v) : v \in DOMAIN set.workflows}
      OBVIOUS
    <3>3. OfWorkflow(w) \subseteq UNION {OfWorkflow(v) : v \in DOMAIN set.workflows}
      BY <3>2, Zenon
    <3> QED
      BY <3>1, <3>3, Zenon DEF Lists
  <2> QED
    BY <2>1, <2>2, <2>3, Zenon
<1>2. CASE set = NoRuleSet
  <2>1. set.rules = <<>> /\ DOMAIN set.workflows = {}
    BY <1>2 DEF NoRuleSet
  <2>2. IsRuleList(<<>>)
    BY DEF IsRuleList
  <2> QED
    BY <2>1, <2>2
<1> QED
  BY <1>1, <1>2

\* The evaluation stays within the rule sets that were loaded.
LEMMA FlowStays ==
  ASSUME IInv, [Next]_vars
  PROVE  OpenWhereEvaluated' /\ FromRuleSets'
<1> USE DEF OpenWhereEvaluated, FromRuleSets
<1>1. OpenWhereEvaluated /\ FromRuleSets
  BY DEF IInv
<1>2. CASE UNCHANGED engineVars
  BY <1>1, <1>2 DEF engineVars
<1>3. CASE Load \/ ContextEnds \/ AddAnother
  <2>1. ruleSets' = ruleSets \/ \E new \in RuleSets : ruleSets' = {new}
    BY <1>3, ReplacementsAssumption
       DEF Load, ContextEnds, AddAnother, Engine!AddRuleSet, Engine!Cancel
  <2>2. UNCHANGED <<rs, waiting, at, wf, rules, list>>
    BY <1>3 DEF Load, ContextEnds, AddAnother, Engine!AddRuleSet, Engine!Cancel,
                Engine!callVars, Engine!listVars, Engine!flowVars
  <2> QED
    BY <1>1, <2>1, <2>2
<1>4. CASE AskEngine
  <2>1. PICK f \in Facts : Engine!Evaluate(f)
    BY <1>4 DEF AskEngine
  <2>2. UNCHANGED <<ruleSets, wf>> /\ rules = <<>> /\ list = "closed"
    BY <1>1, <1>4, <2>1 DEF AskEngine, Engine!Evaluate, Engine!flowVars
  <2>3. CASE at' = "returned" /\ UNCHANGED <<rs, waiting, rules, list>>
    BY <1>1, <2>2, <2>3
  <2>4. ASSUME NEW found \in ruleSets, rs' = found, waiting' = DOMAIN found.workflows,
               at' = "top", rules' = found.rules, list' = "open"
        PROVE  OpenWhereEvaluated' /\ FromRuleSets'
    <3>1. found \in RuleSets
      BY <1>1
    <3>2. IsRuleList(rules')
      BY <2>4, <3>1, ListsOfRuleSets
    <3> QED
      BY <1>1, <2>2, <2>4, <3>1, <3>2
  <2> QED
    BY <2>1, <2>3, <2>4 DEF Engine!Evaluate, Engine!listVars, Engine!BeginList
<1>5. CASE Engine!EvalRules
  <2>1. list = "open" /\ UNCHANGED rules
    BY <1>5, EvalRulesProceeds DEF Proceeded
  <2>2. UNCHANGED <<ruleSets, rs, waiting, at, wf>> /\ at # "idle"
    BY <1>5 DEF Engine!EvalRules, Engine!callVars, Engine!flowVars
  <2>3. at \in {"top", "inStage"}
    BY <1>1, <2>1
  <2> QED
    BY <1>1, <2>1, <2>2, <2>3
<1>6. CASE Engine!RulesReturn \/ Engine!Return
  <2>1. UNCHANGED <<ruleSets, rs, waiting, wf, rules, list>> /\ at' \in {"returned", "between"}
    BY <1>6 DEF Engine!RulesReturn, Engine!Return, Engine!callVars, Engine!listVars, Engine!flowVars
  <2>2. list # "open"
    BY <1>1, <1>6 DEF Engine!RulesReturn, Engine!Return
  <2> QED
    BY <1>1, <2>1, <2>2
<1>7. CASE Engine!StartWorkflow
  <2>1. PICK w \in waiting : waiting' = waiting \ {w} /\ wf' = rs.workflows[w]
    BY <1>7 DEF Engine!StartWorkflow
  <2>2. UNCHANGED <<ruleSets, rs, rules, list>> /\ at' = "stage" /\ at = "between"
    BY <1>7 DEF Engine!StartWorkflow, Engine!listVars
  <2>3. w \in DOMAIN rs'.workflows /\ wf' = rs'.workflows[w]
    BY <1>1, <2>1, <2>2
  <2> QED
    BY <1>1, <2>1, <2>2, <2>3
<1>8. CASE Engine!EnterStage
  <2>1. UNCHANGED <<ruleSets, rs, waiting, wf>> /\ at = "stage" /\ at' = "inStage"
    BY <1>8 DEF Engine!EnterStage, Engine!callVars
  <2>2. stage \in DOMAIN wf.stages /\ rules' = wf.stages[stage].rules
    BY <1>8 DEF Engine!EnterStage, Engine!BeginList
  <2>3. PICK w \in DOMAIN rs.workflows : wf = rs.workflows[w]
    BY <1>1, <2>1
  <2>4. IsRuleList(rules')
    BY <1>1, <2>2, <2>3, ListsOfRuleSets
  <2> QED
    BY <1>1, <2>1, <2>3, <2>4
<1>9. CASE Engine!LeaveStage \/ Engine!StageFails \/ Engine!NoSuchStage \/ Engine!EndWorkflow
  <2>1. /\ UNCHANGED <<ruleSets, rs, waiting, wf, rules, list>>
        /\ at \in {"stage", "inStage"} /\ at' \in {"stage", "between", "returned"}
    BY <1>9 DEF Engine!LeaveStage, Engine!StageFails, Engine!NoSuchStage, Engine!EndWorkflow,
                Engine!callVars, Engine!listVars, Engine!flowVars
  <2>2. list # "open"
    BY <1>1, <1>9
       DEF Engine!LeaveStage, Engine!StageFails, Engine!NoSuchStage, Engine!EndWorkflow
  <2> QED
    BY <1>1, <2>1, <2>2
<1>10. CASE EngineProceeds
  BY <1>5, <1>6, <1>7, <1>8, <1>9, <1>10
     DEF EngineProceeds, Engine!Proceed, Engine!EvalWorkflow
<1>11. CASE AskRuntime \/ RuntimeProceeds \/ ReloadAnother
  BY <1>2, <1>11 DEF AskRuntime, RuntimeProceeds, ReloadAnother
<1> QED
  BY <1>2, <1>3, <1>4, <1>10, <1>11 DEF Next, vars

\* The inductive invariant holds for any rule sets and facts.
THEOREM Invariance == Spec => []IInv
<1>1. IInv /\ [Next]_vars => IInv'
  BY StepKinds, FlowStays, AccountsStay, EndsStay DEF IInv
<1> QED
  BY InitIInv, <1>1, PTL DEF Spec

\* A declared override holds whatever the order of the rules of a list, for any rule
\* sets, facts and interleaving with the loading of others (shouldStopForMode).
THEOREM OverridesAlwaysHold == Spec => []OverridesHold
  BY Invariance, OverridesFollow, PTL

-----------------------------------------------------------------------------
\* Every list is evaluated as RuleChoice says.

\* The rules that are to be applied are among those that are left.
LEMMA LeftToApply ==
  ASSUME IInv, list = "open"
  PROVE  Choice!Left = Matching(rules, facts) \cap left
  BY DEF Choice!Left, IInv, RulesAccountedFor

\* The first rule that is left is, if it matches, one that may be applied now.
LEMMA FirstIsForemost ==
  ASSUME IInv, list = "open", NEW t \in left, FirstLeft(t), RuleMatches(rules[t], facts)
  PROVE  t \in Choice!Foremost
<1>1. t \in Matching(rules, facts)
  BY DEF Matching, IInv, RulesAccountedFor
<1> QED
  BY <1>1, LeftToApply DEF Choice!Foremost, FirstLeft

\* Each step begins a list, applies, closes or fails as promised, or is none there.
LEMMA StepIsChoice ==
  ASSUME IInv, [Next]_vars
  PROVE  [Choice!Next]_Choice!vars
<1>1. CASE Kept
  <2>1. UNCHANGED <<rules, Matching(rules, facts), Engine!Mode, applied, list>>
    BY <1>1 DEF Kept, Engine!Mode, Engine!ruleSetMode
  <2> QED
    BY <2>1 DEF Choice!vars
<1>2. CASE AskedInVain
  <2>1. Matching(rules, facts) = {} /\ Matching(rules, facts)' = {}
    BY <1>2 DEF AskedInVain, Matching
  <2>2. UNCHANGED <<rules, Engine!Mode, applied, list>>
    BY <1>2 DEF AskedInVain, Engine!Mode, Engine!ruleSetMode
  <2> QED
    BY <2>1, <2>2 DEF Choice!vars
<1>3. CASE Begun
  <2>1. Matching(rules, facts)' \subseteq DOMAIN rules'
    BY DEF Matching
  <2> QED
    BY <1>3, <2>1 DEF Begun, Choice!Next, Choice!Begin
<1>4. CASE Proceeded
  <2>1. list = "open" /\ UNCHANGED <<rules, Matching(rules, facts), Engine!Mode>>
    BY <1>4 DEF Proceeded, Engine!Mode, Engine!ruleSetMode
  <2>2. CASE Ended
    <3>1. Choice!Left = {}
      BY <2>1, <2>2, LeftToApply DEF Ended
    <3> QED
      BY <2>1, <2>2, <3>1 DEF Ended, Choice!Next, Choice!Close
  <2>3. CASE Failed
    BY <2>1, <2>3 DEF Failed, Choice!Next, Choice!Fail
  <2>4. ASSUME NEW t \in left, PassedOver(t)
        PROVE  UNCHANGED Choice!vars
    BY <2>1, <2>4 DEF PassedOver, Choice!vars
  <2>5. ASSUME NEW t \in left, FirstLeft(t), Applied(t)
        PROVE  Choice!Apply
    <3>1. t \in Choice!Foremost
      BY <2>1, <2>5, FirstIsForemost DEF Applied
    <3> QED
      BY <2>1, <2>5, <3>1 DEF Applied, Choice!Apply
  <2>6. ASSUME NEW t \in left, FirstLeft(t), FailedAt(t)
        PROVE  Choice!Fail
    <3>1. t \in Choice!Foremost
      BY <2>1, <2>6, FirstIsForemost DEF FailedAt
    <3> QED
      BY <2>1, <2>6, <3>1 DEF FailedAt, Choice!Fail
  <2> QED
    BY <1>4, <2>2, <2>3, <2>4, <2>5, <2>6 DEF Proceeded, Choice!Next
<1> QED
  BY <1>1, <1>2, <1>3, <1>4, StepKinds

\* Every list of rules is evaluated as promised, for any rule sets and facts, also
\* when another rule set is loaded meanwhile (evalRulesWithNext).
THEOREM ListsAlwaysFollowChoice == Spec => ListsFollowChoice
<1>1. Init => Choice!Init
  BY DEF Init, Engine!Init, Choice!Init
<1>2. IInv /\ [Next]_vars => [Choice!Next]_Choice!vars
  BY StepIsChoice
<1> QED
  BY <1>1, <1>2, Invariance, PTL DEF Spec, ListsFollowChoice, Choice!Spec

-----------------------------------------------------------------------------
\* What a recursive definition over conditions computes.

\* Of some numbers one is the least: the sets of the numbers up to each of them are
\* finite, and have a smallest among them.
LEMMA LeastOne ==
  ASSUME NEW B \in SUBSET Nat, B # {}
  PROVE  \E k \in B : \A j \in B : k <= j
<1> DEFINE T == {0..m : m \in B}
<1>1. T # {}
  <2>1. PICK m \in B : TRUE
    OBVIOUS
  <2>2. 0..m \in T
    OBVIOUS
  <2> QED
    BY <2>2
<1>2. T \subseteq FiniteSubsetsOf(Nat)
  <2>1. ASSUME NEW m \in B
        PROVE  0..m \in FiniteSubsetsOf(Nat)
    <3>1. m \in Int /\ 0 \in Int /\ 0..m \subseteq Nat
      OBVIOUS
    <3>2. IsFiniteSet(0..m)
      BY <3>1, FS_Interval, Zenon
    <3> QED
      BY <3>1, <3>2 DEF FiniteSubsetsOf
  <2> QED
    BY <2>1
<1>3. IsWellFoundedOn(StrictSubsetOrdering(Nat), FiniteSubsetsOf(Nat))
  BY FS_StrictSubsetOrderingWellFounded, Zenon
<1>4. \E x \in T : \A y \in T : <<y, x>> \notin StrictSubsetOrdering(Nat)
  <2> HIDE DEF T
  <2> QED
    BY <1>1, <1>2, <1>3, WFMin, Zenon
<1>5. PICK k \in B : \A y \in T : <<y, 0..k>> \notin StrictSubsetOrdering(Nat)
  BY <1>4
<1>6. ASSUME NEW j \in B, ~(k <= j)
      PROVE  FALSE
  <2>1. 0..j \in T
    OBVIOUS
  <2>2. 0..j \subseteq 0..k /\ k \in 0..k /\ k \notin 0..j
    BY <1>6
  <2>3. <<0..j, 0..k>> \in StrictSubsetOrdering(Nat)
    BY <2>2 DEF StrictSubsetOrdering
  <2> QED
    BY <1>5, <2>1, <2>3
<1> QED
  BY <1>6

\* A condition that is parted into smaller ones.
Smaller(d, c) == d \in Conditions /\ Size[d] < Size[c]

\* The parts of a condition are smaller than it is.
LEMMA PartsAreSmaller ==
  ASSUME NEW c \in Conditions
  PROVE  /\ c.op = "!" => Smaller(c.arg, c)
         /\ c.op \in {"&&", "||"} => Smaller(c.left, c) /\ Smaller(c.right, c)
  BY ConditionsAssumption, SizeAssumption DEF Smaller

\* Of some conditions one is the smallest.
LEMMA SmallestOne ==
  ASSUME NEW B \in SUBSET Conditions, B # {}
  PROVE  \E c \in B : \A d \in Conditions : Smaller(d, c) => d \notin B
<1> DEFINE N == {Size[c] : c \in B}
<1>1. \A c \in B : Size[c] \in Nat
  BY SizeAssumption
<1>2. N \in SUBSET Nat /\ N # {}
  BY <1>1
<1>3. PICK k \in N : \A j \in N : k <= j
  <2> HIDE DEF N
  <2> QED
    BY <1>2, LeastOne
<1>4. PICK c \in B : k = Size[c]
  OBVIOUS
<1>5. \A d \in B : ~(Size[d] < Size[c])
  <2> SUFFICES ASSUME NEW d \in B
               PROVE  ~(Size[d] < Size[c])
    OBVIOUS
  <2>1. Size[d] \in N
    OBVIOUS
  <2> QED
    BY <1>1, <1>3, <1>4, <2>1
<1> QED
  BY <1>5 DEF Smaller

\* What F makes of g depends, at each condition, on what g is at smaller ones only.
LooksDown(F, R) ==
  /\ F \in [[Conditions -> R] -> [Conditions -> R]]
  /\ \A g, h \in [Conditions -> R] : \A c \in Conditions :
        (\A d \in Conditions : Smaller(d, c) => g[d] = h[d]) => F[g][c] = F[h][c]

\* A definition that looks down defines something. Up to each size there is a function
\* that is right; these agree, and so are the parts of one that is right everywhere.
LEMMA RightUpTo ==
  ASSUME NEW R, NEW F, LooksDown(F, R), NEW g0 \in [Conditions -> R], NEW n \in Nat
  PROVE  \E g \in [Conditions -> R] : \A c \in Conditions : Size[c] < n => F[g][c] = g[c]
<1> DEFINE Right(g, m) == \A c \in Conditions : Size[c] < m => F[g][c] = g[c]
           B == {m \in Nat : ~ \E g \in [Conditions -> R] : Right(g, m)}
<1> SUFFICES ASSUME B # {}
             PROVE  FALSE
  OBVIOUS
<1>0. \A c \in Conditions : Size[c] \in Nat
  BY SizeAssumption
<1>1. PICK m \in B : \A j \in B : m <= j
  <2>1. B \in SUBSET Nat
    OBVIOUS
  <2> HIDE DEF B
  <2> QED
    BY <2>1, LeastOne
<1>2. m # 0
  <2>1. Right(g0, 0)
    BY <1>0
  <2> QED
    BY <2>1
<1>3. m - 1 \in Nat /\ m - 1 \notin B
  BY <1>1, <1>2
<1>4. PICK g \in [Conditions -> R] : Right(g, m - 1)
  BY <1>3
<1>5. F[g] \in [Conditions -> R]
  BY DEF LooksDown
<1>6. Right(F[g], m)
  <2> SUFFICES ASSUME NEW c \in Conditions, Size[c] < m
               PROVE  F[F[g]][c] = F[g][c]
    OBVIOUS
  <2>1. \A d \in Conditions : Smaller(d, c) => F[g][d] = g[d]
    BY <1>0, <1>4 DEF Smaller
  <2> QED
    BY <1>5, <2>1 DEF LooksDown
<1> QED
  BY <1>5, <1>6

\* Functions that are right up to some sizes agree where both are.
LEMMA RightOnesAgree ==
  ASSUME NEW R, NEW F, LooksDown(F, R), NEW n \in Nat, NEW m \in Nat,
         NEW g \in [Conditions -> R], \A c \in Conditions : Size[c] < n => F[g][c] = g[c],
         NEW h \in [Conditions -> R], \A c \in Conditions : Size[c] < m => F[h][c] = h[c]
  PROVE  \A c \in Conditions : Size[c] < n /\ Size[c] < m => g[c] = h[c]
<1> DEFINE B == {c \in Conditions : Size[c] < n /\ Size[c] < m /\ g[c] # h[c]}
<1> SUFFICES ASSUME B # {}
             PROVE  FALSE
  OBVIOUS
<1>0. \A c \in Conditions : Size[c] \in Nat
  BY SizeAssumption
<1>1. PICK c \in B : \A d \in Conditions : Smaller(d, c) => d \notin B
  <2>1. B \in SUBSET Conditions
    OBVIOUS
  <2> HIDE DEF B
  <2> QED
    BY <2>1, SmallestOne
<1>2. \A d \in Conditions : Smaller(d, c) => g[d] = h[d]
  BY <1>0, <1>1 DEF Smaller
<1>3. F[g][c] = F[h][c]
  BY <1>2 DEF LooksDown
<1> QED
  BY <1>3

\* So there is a function that is right everywhere.
LEMMA DefinesOne ==
  ASSUME NEW R, NEW F, LooksDown(F, R), NEW g0 \in [Conditions -> R]
  PROVE  \E g \in [Conditions -> R] : g = F[g]
<1> DEFINE Right(g, n) == \A c \in Conditions : Size[c] < n => F[g][c] = g[c]
           upTo(n) == CHOOSE g \in [Conditions -> R] : Right(g, n)
           whole == [c \in Conditions |-> upTo(Size[c] + 1)[c]]
<1>0. \A c \in Conditions : Size[c] \in Nat /\ Size[c] + 1 \in Nat
  BY SizeAssumption
<1>1. \A n \in Nat : upTo(n) \in [Conditions -> R] /\ Right(upTo(n), n)
  BY RightUpTo
<1> HIDE DEF upTo
<1>2. whole \in [Conditions -> R]
  BY <1>0, <1>1
<1>3. ASSUME NEW c \in Conditions
      PROVE  F[whole][c] = whole[c]
  <2> DEFINE n == Size[c] + 1
  <2>1. n \in Nat /\ upTo(n) \in [Conditions -> R] /\ Right(upTo(n), n) /\ Size[c] < n
    BY <1>0, <1>1
  <2>2. ASSUME NEW d \in Conditions, Smaller(d, c)
        PROVE  whole[d] = upTo(n)[d]
    <3> DEFINE m == Size[d] + 1
    <3>1. m \in Nat /\ upTo(m) \in [Conditions -> R] /\ Right(upTo(m), m)
      BY <1>0, <1>1
    <3>2. Size[d] < m /\ Size[d] < n
      BY <1>0, <2>2 DEF Smaller
    <3>3. whole[d] = upTo(m)[d]
      OBVIOUS
    <3> HIDE DEF m, n, whole
    <3> QED
      BY <2>1, <3>1, <3>2, <3>3, RightOnesAgree
  <2>3. F[whole][c] = F[upTo(n)][c]
    <3> HIDE DEF whole, n
    <3> QED
      BY <1>2, <2>1, <2>2 DEF LooksDown
  <2>4. F[upTo(n)][c] = upTo(n)[c]
    BY <2>1
  <2>5. whole[c] = upTo(n)[c]
    OBVIOUS
  <2> QED
    BY <2>3, <2>4, <2>5
<1>4. whole = F[whole]
  <2> HIDE DEF whole
  <2>1. F[whole] \in [Conditions -> R]
    BY <1>2 DEF LooksDown
  <2> QED
    BY <1>2, <1>3, <2>1
<1> QED
  BY <1>2, <1>4

\* What the tree says.
LEMMA NativeComputes ==
  ASSUME NEW f
  PROVE  \A c \in Conditions :
            Native(f)[c] = CASE c.op = "!"  -> ~Native(f)[c.arg]
                             [] c.op = "&&" -> Native(f)[c.left] /\ Native(f)[c.right]
                             [] c.op = "||" -> Native(f)[c.left] \/ Native(f)[c.right]
                             [] OTHER       -> OperandHolds(c, f)
<1> DEFINE Body(g, c) == CASE c.op = "!"  -> ~g[c.arg]
                           [] c.op = "&&" -> g[c.left] /\ g[c.right]
                           [] c.op = "||" -> g[c.left] \/ g[c.right]
                           [] OTHER       -> OperandHolds(c, f)
           R == BOOLEAN \cup {OperandHolds(c, f) : c \in Conditions}
           F == [g \in [Conditions -> R] |-> [c \in Conditions |-> Body(g, c)]]
<1>1. LooksDown(F, R)
  <2>1. ASSUME NEW g \in [Conditions -> R], NEW c \in Conditions
        PROVE  Body(g, c) \in R
    OBVIOUS
  <2>2. ASSUME NEW g \in [Conditions -> R], NEW h \in [Conditions -> R],
               NEW c \in Conditions, \A d \in Conditions : Smaller(d, c) => g[d] = h[d]
        PROVE  Body(g, c) = Body(h, c)
    BY <2>2, PartsAreSmaller DEF Smaller
  <2> HIDE DEF R, Body
  <2> QED
    BY <2>1, <2>2 DEF LooksDown
<1>2. [c \in Conditions |-> TRUE] \in [Conditions -> R]
  OBVIOUS
<1>3. \E g : g = [c \in Conditions |-> Body(g, c)]
  <2>1. PICK g \in [Conditions -> R] : g = F[g]
    <3> HIDE DEF F, R
    <3> QED
      BY <1>1, <1>2, DefinesOne
  <2>2. F[g] = [c \in Conditions |-> Body(g, c)]
    <3> HIDE DEF Body, R
    <3> QED
      OBVIOUS
  <2> QED
    BY <2>1, <2>2
<1>4. Native(f) = CHOOSE g : g = [c \in Conditions |-> Body(g, c)]
  BY DEF Native
<1> HIDE DEF Body
<1>5. Native(f) = [c \in Conditions |-> Body(Native(f), c)]
  BY <1>3, <1>4
<1>6. \A c \in Conditions : Native(f)[c] = Body(Native(f), c)
  BY <1>5
<1> USE DEF Body
<1> QED
  BY <1>6

\* Where both evaluators can be expected to agree.
LEMMA PortableComputes ==
  ASSUME NEW f
  PROVE  \A c \in Conditions :
            Portable(f)[c] =
              CASE c.op = "!"            -> Portable(f)[c.arg]
                [] c.op \in {"&&", "||"} -> Portable(f)[c.left] /\ Portable(f)[c.right]
                [] OTHER                 -> AlikeTyped(c, f)
<1> DEFINE Body(g, c) ==
             CASE c.op = "!"            -> g[c.arg]
               [] c.op \in {"&&", "||"} -> g[c.left] /\ g[c.right]
               [] OTHER                 -> AlikeTyped(c, f)
           R == BOOLEAN \cup {AlikeTyped(c, f) : c \in Conditions}
           F == [g \in [Conditions -> R] |-> [c \in Conditions |-> Body(g, c)]]
<1>1. LooksDown(F, R)
  <2>1. ASSUME NEW g \in [Conditions -> R], NEW c \in Conditions
        PROVE  Body(g, c) \in R
    BY PartsAreSmaller DEF Smaller
  <2>2. ASSUME NEW g \in [Conditions -> R], NEW h \in [Conditions -> R],
               NEW c \in Conditions, \A d \in Conditions : Smaller(d, c) => g[d] = h[d]
        PROVE  Body(g, c) = Body(h, c)
    BY <2>2, PartsAreSmaller DEF Smaller
  <2> HIDE DEF R, Body
  <2> QED
    BY <2>1, <2>2 DEF LooksDown
<1>2. [c \in Conditions |-> TRUE] \in [Conditions -> R]
  OBVIOUS
<1>3. \E g : g = [c \in Conditions |-> Body(g, c)]
  <2>1. PICK g \in [Conditions -> R] : g = F[g]
    <3> HIDE DEF F, R
    <3> QED
      BY <1>1, <1>2, DefinesOne
  <2>2. F[g] = [c \in Conditions |-> Body(g, c)]
    <3> HIDE DEF Body, R
    <3> QED
      OBVIOUS
  <2> QED
    BY <2>1, <2>2
<1>4. Portable(f) = CHOOSE g : g = [c \in Conditions |-> Body(g, c)]
  BY DEF Portable
<1> HIDE DEF Body
<1>5. Portable(f) = [c \in Conditions |-> Body(Portable(f), c)]
  BY <1>3, <1>4
<1>6. \A c \in Conditions : Portable(f)[c] = Body(Portable(f), c)
  BY <1>5
<1> USE DEF Body
<1> QED
  BY <1>6

\* What code is made of.
Instructions ==
  Conditions \cup {[op |-> o] : o \in {"exists", "not exists", "not", "and", "or"}}

\* An operand is compiled to one instruction.
LEMMA OperandsAreInstructions ==
  ASSUME NEW c \in Conditions
  PROVE  \E i \in Instructions : Runtime!compileOperand(c) = <<i>>
<1>1. /\ c \in Instructions /\ [op |-> "exists"] \in Instructions
      /\ [op |-> "not exists"] \in Instructions
  BY DEF Instructions
<1>2. CASE c.op = "none"
  BY <1>1, <1>2 DEF Runtime!compileOperand, Runtime!Instruction
<1>3. CASE c.op = "lit"
  BY <1>1, <1>3 DEF Runtime!compileOperand, Runtime!Instruction
<1>4. CASE c.op \notin {"none", "lit"}
  BY <1>1, <1>4 DEF Runtime!compileOperand
<1> QED
  BY <1>2, <1>3, <1>4

\* What a condition is compiled to.
LEMMA CodeComputes ==
  \A c \in Conditions :
            Runtime!compileBytecodeExpr[c] =
              CASE c.op = "!"  -> Runtime!compileBytecodeExpr[c.arg] \o Runtime!Instruction("not")
                [] c.op = "&&" -> Runtime!compileBytecodeExpr[c.left]
                                  \o Runtime!compileBytecodeExpr[c.right]
                                  \o Runtime!Instruction("and")
                [] c.op = "||" -> Runtime!compileBytecodeExpr[c.left]
                                  \o Runtime!compileBytecodeExpr[c.right]
                                  \o Runtime!Instruction("or")
                [] OTHER       -> Runtime!compileOperand(c)
<1> DEFINE Body(g, c) ==
             CASE c.op = "!"  -> g[c.arg] \o Runtime!Instruction("not")
               [] c.op = "&&" -> g[c.left] \o g[c.right] \o Runtime!Instruction("and")
               [] c.op = "||" -> g[c.left] \o g[c.right] \o Runtime!Instruction("or")
               [] OTHER       -> Runtime!compileOperand(c)
           R == Seq(Instructions)
           F == [g \in [Conditions -> R] |-> [c \in Conditions |-> Body(g, c)]]
<1>1. LooksDown(F, R)
  <2>1. ASSUME NEW g \in [Conditions -> R], NEW c \in Conditions
        PROVE  Body(g, c) \in R
    <3>2. Runtime!compileOperand(c) \in Seq(Instructions)
      <4>1. \A i \in Instructions : <<i>> \in Seq(Instructions)
        OBVIOUS
      <4> QED
        BY <4>1, OperandsAreInstructions
    <3>3. ASSUME NEW o \in {"not", "and", "or"}
          PROVE  Runtime!Instruction(o) \in Seq(Instructions)
      <4>1. [op |-> o] \in Instructions
        BY DEF Instructions
      <4> QED
        BY <4>1 DEF Runtime!Instruction
    <3>4. \A p, q \in Seq(Instructions) : p \o q \in Seq(Instructions)
      BY ConcatProperties
    <3>5. \A d \in Conditions : g[d] \in Seq(Instructions)
      OBVIOUS
    <3> HIDE DEF R
    <3> QED
      BY <3>2, <3>3, <3>4, <3>5, PartsAreSmaller DEF Smaller, R
  <2>2. ASSUME NEW g \in [Conditions -> R], NEW h \in [Conditions -> R],
               NEW c \in Conditions, \A d \in Conditions : Smaller(d, c) => g[d] = h[d]
        PROVE  Body(g, c) = Body(h, c)
    BY <2>2, PartsAreSmaller DEF Smaller
  <2> HIDE DEF R, Body
  <2> QED
    BY <2>1, <2>2 DEF LooksDown
<1>2. [c \in Conditions |-> <<>>] \in [Conditions -> R]
  OBVIOUS
<1>3. \E g : g = [c \in Conditions |-> Body(g, c)]
  <2>1. PICK g \in [Conditions -> R] : g = F[g]
    <3> HIDE DEF F, R
    <3> QED
      BY <1>1, <1>2, DefinesOne
  <2>2. F[g] = [c \in Conditions |-> Body(g, c)]
    <3> HIDE DEF Body, R
    <3> QED
      OBVIOUS
  <2> QED
    BY <2>1, <2>2
<1>4. Runtime!compileBytecodeExpr = CHOOSE g : g = [c \in Conditions |-> Body(g, c)]
  BY DEF Runtime!compileBytecodeExpr
<1> HIDE DEF Body
<1>5. Runtime!compileBytecodeExpr = [c \in Conditions |-> Body(Runtime!compileBytecodeExpr, c)]
  BY <1>3, <1>4
<1>6. \A c \in Conditions : Runtime!compileBytecodeExpr[c] = Body(Runtime!compileBytecodeExpr, c)
  BY <1>5
<1> USE DEF Body
<1> QED
  BY <1>6

\* How many comparisons a condition makes.
LEMMA SpecificityComputes ==
  \A c \in Conditions :
            Runtime!countSpecificity[c] =
              CASE c.op = "!"            -> Runtime!countSpecificity[c.arg]
                [] c.op \in {"&&", "||"} -> Runtime!countSpecificity[c.left]
                                            + Runtime!countSpecificity[c.right]
                [] OTHER                 -> IF c.op \in {"none", "lit"} THEN 0 ELSE 1
<1> DEFINE Body(g, c) ==
             CASE c.op = "!"            -> g[c.arg]
               [] c.op \in {"&&", "||"} -> g[c.left] + g[c.right]
               [] OTHER                 -> IF c.op \in {"none", "lit"} THEN 0 ELSE 1
           R == Int
           F == [g \in [Conditions -> R] |-> [c \in Conditions |-> Body(g, c)]]
<1>1. LooksDown(F, R)
  <2>1. ASSUME NEW g \in [Conditions -> R], NEW c \in Conditions
        PROVE  Body(g, c) \in R
    BY PartsAreSmaller DEF Smaller
  <2>2. ASSUME NEW g \in [Conditions -> R], NEW h \in [Conditions -> R],
               NEW c \in Conditions, \A d \in Conditions : Smaller(d, c) => g[d] = h[d]
        PROVE  Body(g, c) = Body(h, c)
    BY <2>2, PartsAreSmaller DEF Smaller
  <2> HIDE DEF R, Body
  <2> QED
    BY <2>1, <2>2 DEF LooksDown
<1>2. [c \in Conditions |-> 0] \in [Conditions -> R]
  OBVIOUS
<1>3. \E g : g = [c \in Conditions |-> Body(g, c)]
  <2>1. PICK g \in [Conditions -> R] : g = F[g]
    <3> HIDE DEF F, R
    <3> QED
      BY <1>1, <1>2, DefinesOne
  <2>2. F[g] = [c \in Conditions |-> Body(g, c)]
    <3> HIDE DEF Body, R
    <3> QED
      OBVIOUS
  <2> QED
    BY <2>1, <2>2
<1>4. Runtime!countSpecificity = CHOOSE g : g = [c \in Conditions |-> Body(g, c)]
  BY DEF Runtime!countSpecificity
<1> HIDE DEF Body
<1>5. Runtime!countSpecificity = [c \in Conditions |-> Body(Runtime!countSpecificity, c)]
  BY <1>3, <1>4
<1>6. \A c \in Conditions : Runtime!countSpecificity[c] = Body(Runtime!countSpecificity, c)
  BY <1>5
<1> USE DEF Body
<1> QED
  BY <1>6

-----------------------------------------------------------------------------
\* Stacks.

\* What is on top of a stack, and what is below.
LEMMA TopOfStack ==
  ASSUME NEW S, NEW s \in Seq(S), NEW x \in S
  PROVE  /\ s \o <<x>> \in Seq(S)
         /\ Len(s \o <<x>>) = Len(s) + 1
         /\ (s \o <<x>>)[Len(s) + 1] = x
         /\ SubSeq(s \o <<x>>, 1, Len(s)) = s
         /\ Append(s, x) = s \o <<x>>
<1> DEFINE t == s \o <<x>>
<1>1. <<x>> \in Seq(S) /\ Len(<<x>>) = 1 /\ <<x>>[1] = x /\ Len(s) \in Nat
  BY LenProperties
<1>2. Append(s, x) = t
  BY AppendIsConcat, Zenon
<1> HIDE DEF t
<1>3. /\ Append(s, x) \in Seq(S) /\ Len(Append(s, x)) = Len(s) + 1
      /\ \A i \in 1..Len(s) : Append(s, x)[i] = s[i]
      /\ Append(s, x)[Len(s) + 1] = x
  BY AppendProperties
<1>4. /\ t \in Seq(S) /\ Len(t) = Len(s) + 1 /\ t[Len(s) + 1] = x
      /\ \A i \in 1..Len(s) : t[i] = s[i]
  BY <1>2, <1>3
<1>5. SubSeq(t, 1, Len(s)) = s
  <2> DEFINE q == SubSeq(t, 1, Len(s))
  <2>1. \A i \in 1..Len(s) : t[i] \in S
    BY <1>4, ElementOfSeq
  <2>2. /\ q \in Seq(S) /\ Len(q) = IF 1 <= Len(s) THEN Len(s) - 1 + 1 ELSE 0
        /\ \A i \in 1..(Len(s) - 1 + 1) : q[i] = t[1 + i - 1]
    <3>1. 1 \in Int /\ Len(s) \in Int
      BY <1>1
    <3> QED
      BY <2>1, <3>1, SubSeqProperties
  <2> HIDE DEF q
  <2>3. Len(q) = Len(s)
    BY <1>1, <2>2
  <2>4. \A i \in 1..Len(q) : q[i] = s[i]
    BY <1>1, <1>4, <2>2, <2>3
  <2>5. q = s
    BY <2>2, <2>3, <2>4, SeqEqual
  <2> QED
    BY <2>5 DEF q
<1> QED
  BY <1>2, <1>4, <1>5 DEF t

\* The same for two values on top of one another.
LEMMA TwoOnStack ==
  ASSUME NEW S, NEW s \in Seq(S), NEW x \in S, NEW y \in S,
         NEW p, p = s \o <<x>>, NEW t, t = p \o <<y>>
  PROVE  /\ t \in Seq(S)
         /\ Len(t) = Len(s) + 2
         /\ t[Len(s) + 1] = x
         /\ t[Len(s) + 2] = y
         /\ SubSeq(t, 1, Len(s)) = s
<1>1. <<y>> \in Seq(S) /\ Len(<<y>>) = 1 /\ Len(s) \in Nat
  BY LenProperties
<1>2. /\ p \in Seq(S) /\ Len(p) = Len(s) + 1 /\ p[Len(s) + 1] = x
      /\ SubSeq(p, 1, Len(s)) = s
  BY TopOfStack
<1>3. /\ t \in Seq(S) /\ Len(t) = Len(p) + 1 /\ t[Len(p) + 1] = y
  BY <1>2, TopOfStack
<1>4. t[Len(s) + 1] = x
  <2>1. \A i \in 1..Len(p) + Len(<<y>>) :
           t[i] = IF i <= Len(p) THEN p[i] ELSE <<y>>[i - Len(p)]
    BY <1>1, <1>2, ConcatProperties
  <2> QED
    BY <1>1, <1>2, <2>1
<1>5. SubSeq(t, 1, Len(s)) = s
  <2>1. CASE Len(s) = 0
    <3>1. SubSeq(t, 1, Len(s)) = <<>>
      <4>1. 1 \in Int /\ Len(s) \in Int /\ Len(s) < 1
        BY <1>1, <2>1
      <4> QED
        BY <4>1, SubSeqEmpty
    <3>2. s = <<>>
      BY <2>1, EmptySeq
    <3> QED
      BY <3>1, <3>2
  <2>2. CASE Len(s) # 0
    <3>1. 1 \in 1..Len(p) /\ Len(s) \in 1..Len(p)
      BY <1>1, <1>2, <2>2
    <3>2. SubSeq(t, 1, Len(s)) = SubSeq(p, 1, Len(s))
      BY <1>1, <1>2, <3>1, SubSeqOfConcat1
    <3> QED
      BY <1>2, <3>2
  <2> QED
    BY <2>1, <2>2
<1>6. Len(t) = Len(s) + 2 /\ t[Len(s) + 2] = y
  BY <1>1, <1>2, <1>3
<1> QED
  BY <1>3, <1>4, <1>5, <1>6

-----------------------------------------------------------------------------
\* One instruction.

Leaf(c) == c.op \notin {"!", "&&", "||"}

\* What an instruction pushes, about the facts f.
Pushed(ins, f) ==
  CASE ins.op = "exists"     -> TRUE
    [] ins.op = "not exists" -> FALSE
    [] ins.op = "in"         -> Runtime!evalIn(f[ins.field], ins.lits)
    [] ins.op = "not in"     -> ~Runtime!evalIn(f[ins.field], ins.lits)
    [] OTHER                 -> Runtime!evalCompare(ins.op, f[ins.field], ins.lit)

OutcomeOn(s, ins, f) ==
  CASE ins.op = "and" -> s[Len(s) - 1] /\ s[Len(s)]
    [] ins.op = "or"  -> s[Len(s) - 1] \/ s[Len(s)]
    [] ins.op = "not" -> ~s[Len(s)]
    [] OTHER          -> Pushed(ins, f)

\* The instruction finds its operands on s and leaves t.
Takes(s, ins, f, t) ==
  /\ Len(s) >= Runtime!Operands(ins)
  /\ t = Append(SubSeq(s, 1, Len(s) - Runtime!Operands(ins)), OutcomeOn(s, ins, f))

\* An operand is compiled to one instruction, which has no operands; where types are
\* alike it pushes what the operand says.
LEMMA OperandsAgree ==
  ASSUME NEW f \in Facts, NEW c \in Conditions, Leaf(c)
  PROVE  \E ins : /\ Runtime!compileOperand(c) = <<ins>>
                  /\ ins.op \notin {"and", "or", "not"}
                  /\ Pushed(ins, f) \in BOOLEAN
                  /\ AlikeTyped(c, f) => Pushed(ins, f) = OperandHolds(c, f)
<1>1. CASE c.op = "none"
  <2>1. Runtime!compileOperand(c) = <<[op |-> "exists"]>>
    BY <1>1 DEF Runtime!compileOperand, Runtime!Instruction
  <2>2. OperandHolds(c, f) = TRUE
    BY <1>1 DEF OperandHolds
  <2>3. Pushed([op |-> "exists"], f) = TRUE
    BY DEF Pushed
  <2> QED
    BY <2>1, <2>2, <2>3
<1>2. CASE c.op = "lit"
  <2>1. c.value \in BOOLEAN /\ OperandHolds(c, f) = c.value
    BY <1>2, ConditionsAssumption DEF OperandHolds
  <2>2. CASE c.value
    <3>1. Runtime!compileOperand(c) = <<[op |-> "exists"]>>
      BY <1>2, <2>2 DEF Runtime!compileOperand, Runtime!Instruction
    <3>2. Pushed([op |-> "exists"], f) = TRUE
      BY DEF Pushed
    <3> QED
      BY <2>1, <2>2, <3>1, <3>2
  <2>3. CASE ~c.value
    <3>1. Runtime!compileOperand(c) = <<[op |-> "not exists"]>>
      BY <1>2, <2>3 DEF Runtime!compileOperand, Runtime!Instruction
    <3>2. Pushed([op |-> "not exists"], f) = FALSE
      BY DEF Pushed
    <3> QED
      BY <2>1, <2>3, <3>1, <3>2
  <2> QED
    BY <2>2, <2>3
<1>3. CASE c.op \in {"in", "not in"}
  <2>1. Runtime!compileOperand(c) = <<c>>
    BY <1>3 DEF Runtime!compileOperand
  <2>2. PICK v \in Scalars : v = f[c.field]
    BY <1>3, ConditionsAssumption, FactsAssumption
  <2>3. c.lits \subseteq Scalars
    BY <1>3, ConditionsAssumption
  <2>4. ASSUME AlikeTyped(c, f)
        PROVE  Runtime!evalIn(v, c.lits) = In(v, c.lits)
    <3>1. \A lit \in c.lits : lit.kind # "missing" /\ v.kind \in {lit.kind, "missing"}
      BY <1>3, <2>2, <2>4 DEF AlikeTyped, Comparisons
    <3>2. ASSUME NEW lit \in c.lits
          PROVE  Equal(v, lit) <=> v = lit
      <4>1. lit \in Scalars /\ (v.kind = lit.kind \/ v.kind = "missing") /\ lit.kind # "missing"
        BY <2>3, <3>1
      <4>2. v = lit <=> v.kind = lit.kind /\ v.n = lit.n
        BY <4>1 DEF Scalars
      <4> QED
        BY <4>1, <4>2 DEF Equal, Numeric
    <3>3. v.kind = "missing" => v \notin c.lits
      BY <3>1
    <3>4. Runtime!evalIn(v, c.lits) <=> \E lit \in c.lits : v = lit
      BY <3>3 DEF Runtime!evalIn
    <3>5. In(v, c.lits) <=> \E lit \in c.lits : v = lit
      BY <3>2 DEF In
    <3>6. Runtime!evalIn(v, c.lits) \in BOOLEAN /\ In(v, c.lits) \in BOOLEAN
      BY DEF Runtime!evalIn, In
    <3> QED
      BY <3>4, <3>5, <3>6
  <2>5. /\ Runtime!evalIn(v, c.lits) \in BOOLEAN
        /\ c.op = "in" => Pushed(c, f) = Runtime!evalIn(v, c.lits)
        /\ c.op = "not in" => Pushed(c, f) = ~Runtime!evalIn(v, c.lits)
        /\ c.op = "in" => OperandHolds(c, f) = In(v, c.lits)
        /\ c.op = "not in" => OperandHolds(c, f) = ~In(v, c.lits)
    BY <2>2 DEF Pushed, OperandHolds, Runtime!evalIn
  <2> QED
    BY <1>3, <2>1, <2>4, <2>5
<1>4. CASE c.op \in Comparisons
  <2>1. Runtime!compileOperand(c) = <<c>>
    BY <1>4 DEF Runtime!compileOperand, Comparisons
  <2>2. PICK v \in Scalars, w \in Scalars : v = f[c.field] /\ w = c.lit
    BY <1>4, ConditionsAssumption, FactsAssumption
  <2>3. PICK op \in Comparisons : op = c.op
    BY <1>4
  <2>4. /\ op \notin {"==", "!="} => w.kind # "string"
        /\ v.kind \in Kinds /\ v.n \in Int /\ w.kind \in Kinds /\ w.n \in Int
        /\ v = w <=> v.kind = w.kind /\ v.n = w.n
    <3>1. op \notin {"==", "!="} => w.kind # "string"
      BY <2>2, <2>3, ConditionsAssumption
    <3>2. v.kind \in Kinds /\ v.n \in Int /\ w.kind \in Kinds /\ w.n \in Int
      BY DEF Scalars
    <3>3. v = w <=> v.kind = w.kind /\ v.n = w.n
      BY DEF Scalars
    <3> QED
      BY <3>1, <3>2, <3>3
  <2>5. \A a, b : Runtime!Relation(op, a, b) = Relation(op, a, b)
    BY DEF Relation, Runtime!Relation
  <2>6. ASSUME AlikeTyped(c, f)
        PROVE  Runtime!evalCompare(op, v, w) <=> NativeCompare(op, v, w)
    <3>1. /\ w.kind # "missing"
          /\ v.kind \in {w.kind, "missing"} \/ (v.kind = "float" /\ w.kind = "int")
          /\ v.kind = "missing" => op # "!="
          /\ v.kind = "bool" => op \in {"==", "!="}
      BY <1>4, <2>2, <2>3, <2>6 DEF AlikeTyped, Comparisons
    <3>2. CASE v.kind = "missing"
      <4>1. ~Runtime!evalCompare(op, v, w)
        BY <3>1, <3>2 DEF Runtime!evalCompare
      <4>2. ~Numeric(v) /\ v # w
        BY <3>1, <3>2 DEF Numeric
      <4>3. ~NativeCompare(op, v, w)
        BY <3>1, <3>2, <4>2 DEF NativeCompare, Equal
      <4> QED
        BY <4>1, <4>3
    <3>3. CASE v.kind # "missing"
      <4>1. v.kind = w.kind \/ (v.kind = "float" /\ w.kind = "int")
        BY <3>1, <3>3
      <4>2. Runtime!LiteralFor(v, w) = w.n
        BY <4>1 DEF Runtime!LiteralFor
      <4>3. Runtime!evalCompare(op, v, w) <=> Relation(op, v.n, w.n)
        <5>1. v.kind = w.kind \/ (Runtime!Numeric(v) /\ Runtime!Numeric(w))
          BY <4>1 DEF Runtime!Numeric
        <5> QED
          BY <2>5, <3>3, <4>2, <5>1 DEF Runtime!evalCompare
      <4>4. CASE Numeric(v) /\ Numeric(w)
        <5>1. NativeCompare(op, v, w) <=> Relation(op, v.n, w.n)
          BY <4>4 DEF NativeCompare, Equal, Relation
        <5> QED
          BY <4>3, <5>1
      <4>5. CASE ~(Numeric(v) /\ Numeric(w))
        <5>1. v.kind = w.kind /\ op \in {"==", "!="}
          BY <2>4, <3>1, <4>1, <4>5 DEF Numeric, Kinds
        <5>2. v = w <=> v.n = w.n
          BY <2>4, <5>1
        <5>3. NativeCompare(op, v, w) <=> Relation(op, v.n, w.n)
          BY <4>5, <5>1, <5>2 DEF NativeCompare, Equal, Relation
        <5> QED
          BY <4>3, <5>3
      <4> QED
        BY <4>4, <4>5
    <3> QED
      BY <3>2, <3>3
  <2>7. /\ Runtime!evalCompare(op, v, w) \in BOOLEAN
        /\ NativeCompare(op, v, w) \in BOOLEAN
    <3>1. Runtime!evalCompare(op, v, w) \in BOOLEAN
      BY DEF Runtime!evalCompare
    <3>2. NativeCompare(op, v, w) \in BOOLEAN
      BY DEF NativeCompare, Equal
    <3> QED
      BY <3>1, <3>2
  <2>8. Pushed(c, f) = Runtime!evalCompare(op, v, w)
    BY <2>2, <2>3 DEF Pushed, Comparisons
  <2>9. OperandHolds(c, f) = NativeCompare(op, v, w)
    BY <2>2, <2>3 DEF OperandHolds, Comparisons
  <2>10. c.op \notin {"and", "or", "not"}
    BY <1>4 DEF Comparisons
  <2> QED
    BY <2>1, <2>6, <2>7, <2>8, <2>9, <2>10
<1> QED
  BY <1>1, <1>2, <1>3, <1>4, ConditionsAssumption DEF Leaf

-----------------------------------------------------------------------------
\* Some instructions in turn.

Stacks == Seq(BOOLEAN)

\* A stack on another is a stack, whichever of three is put on the next first.
LEMMA StacksJoin ==
  ASSUME NEW p \in Stacks, NEW q \in Stacks, NEW r \in Stacks
  PROVE  p \o q \in Stacks /\ (p \o q) \o r = p \o (q \o r)
<1>1. p \in Seq(BOOLEAN) /\ q \in Seq(BOOLEAN) /\ r \in Seq(BOOLEAN)
  BY DEF Stacks
<1>2. p \o q \in Seq(BOOLEAN)
  BY <1>1, ConcatProperties, Zenon
<1>3. (p \o q) \o r = p \o (q \o r)
  BY <1>1, ConcatAssociative
<1> QED
  BY <1>2, <1>3, Zenon DEF Stacks

\* T is what the stack is after each of some instructions, from s to t; what lies below
\* does not matter.
Turns(T, code, f, s, t) ==
  /\ code \in Seq(Instructions)
  /\ T \in [0..Len(code) -> Stacks]
  /\ T[0] = s /\ T[Len(code)] = t
  /\ \A base \in Stacks : \A k \in 1..Len(code) :
        Takes(base \o T[k - 1], code[k], f, base \o T[k])

Leads(code, f, s, t) == \E T : Turns(T, code, f, s, t)

\* One instruction leads from what it takes to what it leaves.
LEMMA OneLeads ==
  ASSUME NEW ins \in Instructions, NEW f, NEW s \in Stacks, NEW t \in Stacks,
         \A base \in Stacks : Takes(base \o s, ins, f, base \o t)
  PROVE  Leads(<<ins>>, f, s, t)
<1> DEFINE T == [k \in 0..1 |-> IF k = 0 THEN s ELSE t]
<1>1. PICK code : code = <<ins>>
  OBVIOUS
<1>2. code \in Seq(Instructions) /\ Len(code) = 1 /\ code[1] = ins
  BY <1>1
<1>3. T \in [0..1 -> Stacks] /\ T[0] = s /\ T[1] = t
  OBVIOUS
<1> HIDE DEF T
<1>4. ASSUME NEW base \in Stacks, NEW k \in 1..Len(code)
      PROVE  Takes(base \o T[k - 1], code[k], f, base \o T[k])
  <2>1. k = 1 /\ k - 1 = 0
    BY <1>2
  <2> QED
    BY <1>2, <1>3, <2>1
<1>5. Turns(T, code, f, s, t)
  BY <1>2, <1>3, <1>4 DEF Turns
<1> QED
  BY <1>1, <1>5 DEF Leads

\* What two pieces of code lead to, one leads to that is both in a row.
LEMMA LeadsOn ==
  ASSUME NEW a, NEW b, NEW f, NEW s, NEW t, NEW u, Leads(a, f, s, t), Leads(b, f, t, u)
  PROVE  Leads(a \o b, f, s, u)
<1>1. PICK A : Turns(A, a, f, s, t)
  BY DEF Leads
<1>2. PICK B : Turns(B, b, f, t, u)
  BY DEF Leads
<1>3. PICK m \in Nat, n \in Nat : m = Len(a) /\ n = Len(b)
  BY <1>1, <1>2, LenProperties DEF Turns
<1>4. PICK code : code = a \o b
  OBVIOUS
<1>5. /\ code \in Seq(Instructions) /\ Len(code) = m + n
      /\ \A i \in 1..(m + n) : code[i] = IF i <= m THEN a[i] ELSE b[i - m]
  BY <1>1, <1>2, <1>3, <1>4, ConcatProperties DEF Turns
<1> DEFINE T == [k \in 0..(m + n) |-> IF k <= m THEN A[k] ELSE B[k - m]]
<1>6. /\ A \in [0..m -> Stacks] /\ A[0] = s /\ A[m] = t
      /\ \A base \in Stacks : \A k \in 1..m : Takes(base \o A[k - 1], a[k], f, base \o A[k])
  BY <1>1, <1>3 DEF Turns
<1>7. /\ B \in [0..n -> Stacks] /\ B[0] = t /\ B[n] = u
      /\ \A base \in Stacks : \A k \in 1..n : Takes(base \o B[k - 1], b[k], f, base \o B[k])
  BY <1>2, <1>3 DEF Turns
<1>8. /\ T \in [0..(m + n) -> Stacks]
      /\ \A k \in 0..m : T[k] = A[k]
      /\ \A k \in m..(m + n) : T[k] = B[k - m]
  <2>1. ASSUME NEW k \in m..(m + n)
        PROVE  T[k] = B[k - m]
    <3>1. CASE k = m
      BY <1>6, <1>7, <3>1
    <3>2. CASE k # m
      BY <3>2
    <3> QED
      BY <3>1, <3>2
  <2>2. ASSUME NEW k \in 0..(m + n)
        PROVE  T[k] \in Stacks
    BY <1>6, <1>7
  <2>3. \A k \in 0..m : T[k] = A[k]
    OBVIOUS
  <2>4. T \in [0..(m + n) -> Stacks]
    BY <2>2
  <2> QED
    BY <2>1, <2>3, <2>4
<1>9. T[0] = s /\ T[m + n] = u
  <2>1. 0 \in 0..m /\ m + n \in m..(m + n) /\ (m + n) - m = n
    OBVIOUS
  <2> HIDE DEF T
  <2> QED
    BY <1>6, <1>7, <1>8, <2>1
<1> HIDE DEF T
<1>10. ASSUME NEW base \in Stacks, NEW k \in 1..(m + n)
       PROVE  Takes(base \o T[k - 1], code[k], f, base \o T[k])
  <2>1. CASE k <= m
    <3>1. k \in 1..m /\ k - 1 \in 0..m /\ k \in 0..m
      BY <2>1
    <3> QED
      BY <1>5, <1>6, <1>8, <2>1, <3>1
  <2>2. CASE ~(k <= m)
    <3>1. /\ k - m \in 1..n /\ k - 1 \in m..(m + n) /\ k \in m..(m + n)
          /\ (k - 1) - m = (k - m) - 1
      BY <2>2
    <3> QED
      BY <1>5, <1>7, <1>8, <2>2, <3>1
  <2> QED
    BY <2>1, <2>2
<1>11. Turns(T, code, f, s, u)
  BY <1>5, <1>8, <1>9, <1>10 DEF Turns
<1> QED
  BY <1>4, <1>11 DEF Leads

\* The same instructions on top of something.
LEMMA LeadsAbove ==
  ASSUME NEW b, NEW f, NEW s, NEW t, Leads(b, f, s, t), NEW below \in Stacks
  PROVE  Leads(b, f, below \o s, below \o t)
<1>1. PICK B : Turns(B, b, f, s, t)
  BY DEF Leads
<1>2. PICK n \in Nat : n = Len(b)
  BY <1>1, LenProperties DEF Turns
<1>3. /\ B \in [0..n -> Stacks] /\ B[0] = s /\ B[n] = t
      /\ \A base \in Stacks : \A k \in 1..n : Takes(base \o B[k - 1], b[k], f, base \o B[k])
  BY <1>1, <1>2 DEF Turns
<1>4. \A p, q \in Stacks : p \o q \in Stacks
  BY StacksJoin, Zenon
<1> DEFINE T == [k \in 0..n |-> below \o B[k]]
<1>5. T \in [0..n -> Stacks] /\ T[0] = below \o s /\ T[n] = below \o t
  BY <1>3, <1>4
<1>6. ASSUME NEW base \in Stacks, NEW k \in 1..n
      PROVE  Takes(base \o T[k - 1], b[k], f, base \o T[k])
  <2>1. k \in 0..n /\ k - 1 \in 0..n
    OBVIOUS
  <2>2. ASSUME NEW i \in 0..n
        PROVE  base \o T[i] = (base \o below) \o B[i]
    <3>1. PICK u \in Stacks : u = B[i]
      BY <1>3
    <3>2. T[i] = below \o u
      BY <3>1
    <3> HIDE DEF T
    <3>3. (base \o below) \o u = base \o (below \o u)
      BY StacksJoin
    <3> QED
      BY <3>1, <3>2, <3>3
  <2> HIDE DEF T
  <2> QED
    BY <1>3, <1>4, <2>1, <2>2
<1> HIDE DEF T
<1>7. Turns(T, b, f, below \o s, below \o t)
  BY <1>1, <1>2, <1>5, <1>6 DEF Turns
<1> QED
  BY <1>7 DEF Leads

\* An operand pushes one value.
LEMMA PushLeads ==
  ASSUME NEW ins \in Instructions, NEW f, ins.op \notin {"and", "or", "not"},
         Pushed(ins, f) \in BOOLEAN
  PROVE  Leads(<<ins>>, f, <<>>, <<Pushed(ins, f)>>)
<1>1. PICK v \in BOOLEAN : v = Pushed(ins, f)
  OBVIOUS
<1>2. <<>> \in Stacks /\ <<v>> \in Stacks
  BY DEF Stacks
<1>3. ASSUME NEW base \in Stacks
      PROVE  Takes(base \o <<>>, ins, f, base \o <<v>>)
  <2>1. base \o <<>> = base
    BY ConcatEmptySeq DEF Stacks
  <2>2. Len(base) \in Nat /\ Runtime!Operands(ins) = 0
    BY LenProperties DEF Stacks, Runtime!Operands
  <2>3. SubSeq(base, 1, Len(base)) = base /\ Append(base, v) = base \o <<v>>
    BY SubSeqFull, AppendIsConcat DEF Stacks
  <2>4. OutcomeOn(base, ins, f) = v
    BY <1>1 DEF OutcomeOn
  <2>5. Len(base) - 0 = Len(base) /\ Len(base) >= 0
    BY <2>2
  <2> QED
    BY <2>1, <2>2, <2>3, <2>4, <2>5 DEF Takes
<1> QED
  BY <1>1, <1>2, <1>3, OneLeads

\* "not" turns the value on top.
LEMMA NotLeads ==
  ASSUME NEW f, NEW x \in BOOLEAN
  PROVE  Leads(<<[op |-> "not"]>>, f, <<x>>, <<~x>>)
<1>0. PICK ins : ins = [op |-> "not"]
  OBVIOUS
<1>1. PICK v \in BOOLEAN : v = ~x
  OBVIOUS
<1>2. <<x>> \in Stacks /\ <<v>> \in Stacks /\ ins \in Instructions
  BY <1>0 DEF Stacks, Instructions
<1>3. ASSUME NEW base \in Stacks
      PROVE  Takes(base \o <<x>>, ins, f, base \o <<v>>)
  <2>1. PICK s : s = base \o <<x>>
    OBVIOUS
  <2>2. Len(base) \in Nat /\ Runtime!Operands(ins) = 1 /\ ins.op = "not"
    BY <1>0, LenProperties DEF Stacks, Runtime!Operands
  <2>3. Len(s) = Len(base) + 1 /\ s[Len(base) + 1] = x /\ SubSeq(s, 1, Len(base)) = base
    BY <2>1, TopOfStack DEF Stacks
  <2>4. Append(base, v) = base \o <<v>>
    BY AppendIsConcat DEF Stacks
  <2>5. OutcomeOn(s, ins, f) = v
    <3>1. OutcomeOn(s, ins, f) = ~s[Len(s)]
      BY <2>2 DEF OutcomeOn
    <3> QED
      BY <1>1, <2>3, <3>1
  <2>6. Len(s) - 1 = Len(base) /\ Len(s) >= 1
    BY <2>2, <2>3
  <2> QED
    BY <2>1, <2>2, <2>3, <2>4, <2>5, <2>6 DEF Takes
<1>4. Leads(<<ins>>, f, <<x>>, <<v>>)
  BY <1>2, <1>3, OneLeads
<1> QED
  BY <1>0, <1>1, <1>4

\* "and" and "or" make one value of two.
LEMMA BothLead ==
  ASSUME NEW o \in {"and", "or"}, NEW f, NEW x \in BOOLEAN, NEW y \in BOOLEAN, NEW z \in BOOLEAN,
         o = "and" => z = (x /\ y), o = "or" => z = (x \/ y)
  PROVE  Leads(<<[op |-> o]>>, f, <<x>> \o <<y>>, <<z>>)
<1>0. PICK ins : ins = [op |-> o]
  OBVIOUS
<1>1. ins \in Instructions
  <2>1. CASE o = "and"
    BY <1>0, <2>1 DEF Instructions
  <2>2. CASE o = "or"
    BY <1>0, <2>2 DEF Instructions
  <2> QED
    BY <2>1, <2>2
<1>2. <<x>> \in Stacks /\ <<y>> \in Stacks /\ <<z>> \in Stacks
  BY DEF Stacks
<1>3. \A p, q \in Stacks : p \o q \in Stacks
  BY StacksJoin, Zenon
<1>4. ASSUME NEW base \in Stacks
      PROVE  Takes(base \o (<<x>> \o <<y>>), ins, f, base \o <<z>>)
  <2>1. PICK p, s : p = base \o <<x>> /\ s = p \o <<y>>
    OBVIOUS
  <2>2. s = base \o (<<x>> \o <<y>>)
    <3>1. (base \o <<x>>) \o <<y>> = base \o (<<x>> \o <<y>>)
      BY <1>2, StacksJoin
    <3> QED
      BY <2>1, <3>1
  <2>3. Len(base) \in Nat /\ Runtime!Operands(ins) = 2 /\ ins.op = o
    BY <1>0, LenProperties DEF Stacks, Runtime!Operands
  <2>4. /\ Len(s) = Len(base) + 2
        /\ s[Len(base) + 1] = x /\ s[Len(base) + 2] = y
        /\ SubSeq(s, 1, Len(base)) = base
    BY <2>1, TwoOnStack DEF Stacks
  <2>5. Append(base, z) = base \o <<z>>
    BY AppendIsConcat DEF Stacks
  <2>6. Len(s) - 2 = Len(base) /\ Len(s) >= 2 /\ Len(s) - 1 = Len(base) + 1
    BY <2>3, <2>4
  <2>7. s[Len(s)] = y /\ s[Len(s) - 1] = x
    BY <2>4, <2>6
  <2>8. OutcomeOn(s, ins, f) = z
    <3>1. CASE o = "and"
      <4>1. OutcomeOn(s, ins, f) = (s[Len(s) - 1] /\ s[Len(s)])
        BY <2>3, <3>1 DEF OutcomeOn
      <4> QED
        BY <2>7, <3>1, <4>1
    <3>2. CASE o = "or"
      <4>1. OutcomeOn(s, ins, f) = (s[Len(s) - 1] \/ s[Len(s)])
        BY <2>3, <3>2 DEF OutcomeOn
      <4> QED
        BY <2>7, <3>2, <4>1
    <3> QED
      BY <3>1, <3>2
  <2> QED
    BY <2>2, <2>3, <2>4, <2>5, <2>6, <2>8 DEF Takes
<1>5. Leads(<<ins>>, f, <<x>> \o <<y>>, <<z>>)
  BY <1>1, <1>2, <1>3, <1>4, OneLeads
<1> QED
  BY <1>0, <1>5

\* The code of a condition leads from an empty stack to one with a single value, the one
\* that the tree has where the condition is portable.
Code(c) == Runtime!compileBytecodeExpr[c]

Agrees(c, f) ==
  \E v \in BOOLEAN : /\ Leads(Code(c), f, <<>>, <<v>>)
                     /\ Portable(f)[c] => v = Native(f)[c]

\* A condition inherits the agreement from its parts.
LEMMA CodeAgrees ==
  ASSUME NEW f \in Facts, NEW c \in Conditions, 
         \A d \in Conditions : Smaller(d, c) => Agrees(d, f)
  PROVE  Agrees(c, f)
<1>1. CASE Leaf(c)
  <2>1. PICK ins : /\ Runtime!compileOperand(c) = <<ins>>
                   /\ ins.op \notin {"and", "or", "not"}
                   /\ Pushed(ins, f) \in BOOLEAN
                   /\ AlikeTyped(c, f) => Pushed(ins, f) = OperandHolds(c, f)
    BY <1>1, OperandsAgree
  <2>2. ins \in Instructions
    BY <2>1, OperandsAreInstructions
  <2>3. Leads(<<ins>>, f, <<>>, <<Pushed(ins, f)>>)
    BY <2>1, <2>2, PushLeads
  <2>4. Code(c) = <<ins>>
    BY <1>1, <2>1, CodeComputes DEF Leaf, Code
  <2>5. Portable(f)[c] = AlikeTyped(c, f)
    BY <1>1, PortableComputes DEF Leaf
  <2>6. Native(f)[c] = OperandHolds(c, f)
    BY <1>1, NativeComputes DEF Leaf
  <2> QED
    BY <2>1, <2>3, <2>4, <2>5, <2>6 DEF Agrees
<1>2. CASE c.op = "!"
  <2>0. c.arg \in Conditions /\ Agrees(c.arg, f)
    BY <1>2, PartsAreSmaller DEF Smaller
  <2>1. PICK x \in BOOLEAN : /\ Leads(Code(c.arg), f, <<>>, <<x>>)
                             /\ Portable(f)[c.arg] => x = Native(f)[c.arg]
    BY <2>0 DEF Agrees
  <2>2. Leads(Code(c.arg) \o <<[op |-> "not"]>>, f, <<>>, <<~x>>)
    BY <2>1, NotLeads, LeadsOn
  <2>3. Code(c) = Code(c.arg) \o <<[op |-> "not"]>>
    BY <1>2, CodeComputes DEF Code, Runtime!Instruction
  <2>4. Portable(f)[c] = Portable(f)[c.arg]
    BY <1>2, PortableComputes
  <2>5. Native(f)[c] = ~Native(f)[c.arg]
    BY <1>2, NativeComputes
  <2> QED
    BY <2>1, <2>2, <2>3, <2>4, <2>5 DEF Agrees
<1>3. ASSUME NEW o \in {"and", "or"}, c.op = IF o = "and" THEN "&&" ELSE "||"
      PROVE  Agrees(c, f)
  <2>0. /\ c.left \in Conditions /\ Agrees(c.left, f)
        /\ c.right \in Conditions /\ Agrees(c.right, f)
    BY <1>3, PartsAreSmaller DEF Smaller
  <2>1. PICK x \in BOOLEAN : /\ Leads(Code(c.left), f, <<>>, <<x>>)
                             /\ Portable(f)[c.left] => x = Native(f)[c.left]
    BY <2>0 DEF Agrees
  <2>2. PICK y \in BOOLEAN : /\ Leads(Code(c.right), f, <<>>, <<y>>)
                             /\ Portable(f)[c.right] => y = Native(f)[c.right]
    BY <2>0 DEF Agrees
  <2>3. PICK z \in BOOLEAN : z = IF o = "and" THEN x /\ y ELSE x \/ y
    OBVIOUS
  <2>4. Leads(Code(c.right), f, <<x>>, <<x>> \o <<y>>)
    <3>1. <<x>> \in Stacks /\ <<x>> \o <<>> = <<x>>
      BY ConcatEmptySeq DEF Stacks
    <3>2. Leads(Code(c.right), f, <<x>> \o <<>>, <<x>> \o <<y>>)
      BY <2>2, <3>1, LeadsAbove
    <3> QED
      BY <3>1, <3>2
  <2>5. Leads(<<[op |-> o]>>, f, <<x>> \o <<y>>, <<z>>)
    BY <2>3, BothLead
  <2>6. Leads((Code(c.left) \o Code(c.right)) \o <<[op |-> o]>>, f, <<>>, <<z>>)
    BY <2>1, <2>4, <2>5, LeadsOn
  <2>7. Code(c) = (Code(c.left) \o Code(c.right)) \o <<[op |-> o]>>
    <3>1. CASE o = "and"
      BY <1>3, <3>1, CodeComputes DEF Code, Runtime!Instruction
    <3>2. CASE o = "or"
      BY <1>3, <3>2, CodeComputes DEF Code, Runtime!Instruction
    <3> QED
      BY <3>1, <3>2
  <2>8. Portable(f)[c] => Portable(f)[c.left] /\ Portable(f)[c.right]
    BY <1>3, PortableComputes
  <2>9. Native(f)[c] = IF o = "and" THEN Native(f)[c.left] /\ Native(f)[c.right]
                                    ELSE Native(f)[c.left] \/ Native(f)[c.right]
    BY <1>3, NativeComputes
  <2>10. Portable(f)[c] => z = Native(f)[c]
    BY <2>1, <2>2, <2>3, <2>8, <2>9
  <2> QED
    BY <2>6, <2>7, <2>10 DEF Agrees
<1> QED
  BY <1>1, <1>2, <1>3 DEF Leaf

\* So all conditions have it.
LEMMA CodeAlwaysAgrees ==
  ASSUME NEW f \in Facts, NEW c \in Conditions
  PROVE  Agrees(c, f)
<1> DEFINE B == {d \in Conditions : ~Agrees(d, f)}
<1> SUFFICES ASSUME B # {}
             PROVE  FALSE
  OBVIOUS
<1>1. PICK d \in B : \A e \in Conditions : Smaller(e, d) => e \notin B
  <2>1. B \in SUBSET Conditions
    OBVIOUS
  <2> HIDE DEF B
  <2> QED
    BY <2>1, SmallestOne
<1> QED
  BY <1>1, CodeAgrees

-----------------------------------------------------------------------------
\* Candidates have an order, too.

\* How specific a rule is, is a number.
LEMMA SpecificityIsANumber == \A c \in Conditions : Runtime!countSpecificity[c] \in Int
<1> DEFINE B == {c \in Conditions : Runtime!countSpecificity[c] \notin Int}
<1> SUFFICES ASSUME B # {}
             PROVE  FALSE
  OBVIOUS
<1>1. PICK c \in B : \A d \in Conditions : Smaller(d, c) => d \notin B
  <2>1. B \in SUBSET Conditions
    OBVIOUS
  <2> HIDE DEF B
  <2> QED
    BY <2>1, SmallestOne
<1>2. CASE c.op = "!"
  <2>1. c.arg \in Conditions /\ Runtime!countSpecificity[c.arg] \in Int
    BY <1>1, <1>2, PartsAreSmaller DEF Smaller
  <2> QED
    BY <1>2, <2>1, SpecificityComputes
<1>3. CASE c.op \in {"&&", "||"}
  <2>1. /\ Runtime!countSpecificity[c.left] \in Int
        /\ Runtime!countSpecificity[c.right] \in Int
    BY <1>1, <1>3, PartsAreSmaller DEF Smaller
  <2> QED
    BY <1>3, <2>1, SpecificityComputes
<1>4. CASE Leaf(c)
  BY <1>4, SpecificityComputes DEF Leaf
<1> QED
  BY <1>2, <1>3, <1>4 DEF Leaf

\* What CompileRuleSet makes of the conditions and the order of the rules.
Compiled(p) ==
  /\ \E n \in Nat : DOMAIN p.rules \subseteq 1..n
  /\ \A i \in DOMAIN p.rules :
        /\ p.source.rules[i].condition \in Conditions
        /\ p.rules[i].instructions = Code(p.source.rules[i].condition)
        /\ p.rules[i].priority \in Int /\ p.rules[i].salience \in Int
        /\ p.rules[i].specificity \in Int /\ p.rules[i].id \in Int

\* Any rule set is compiled in this way.
LEMMA RuleSetsCompile ==
  ASSUME NEW names, NEW set \in RuleSets, NEW option
  PROVE  Compiled(Runtime!CompileRuleSet(names, set, option))
<1>1. IsRuleList(set.rules)
  BY ListsOfRuleSets
<1>2. PICK n \in Nat : DOMAIN set.rules = 1..n
  BY <1>1, RuleListFacts
<1>3. PICK p : p = Runtime!CompileRuleSet(names, set, option)
  OBVIOUS
<1>4. p.source = set /\ DOMAIN p.rules \subseteq DOMAIN set.rules
  BY <1>3 DEF Runtime!CompileRuleSet
<1>5. ASSUME NEW i \in DOMAIN p.rules
      PROVE  p.rules[i] = Runtime!compileBytecodeRule(names, set.rules[i])
  BY <1>3, <1>5 DEF Runtime!CompileRuleSet
<1>6. ASSUME NEW i \in DOMAIN p.rules
      PROVE  /\ set.rules[i].condition \in Conditions
             /\ p.rules[i].instructions = Code(set.rules[i].condition)
             /\ p.rules[i].priority \in Int /\ p.rules[i].salience \in Int
             /\ p.rules[i].specificity \in Int /\ p.rules[i].id \in Int
  <2>1. /\ set.rules[i].priority \in Int /\ set.rules[i].salience \in Int
        /\ set.rules[i].id \in Int /\ set.rules[i].condition \in Conditions
    BY <1>1, <1>4 DEF IsRuleList
  <2>2. PICK r : r = set.rules[i]
    OBVIOUS
  <2>3. p.rules[i] = Runtime!compileBytecodeRule(names, r)
    BY <1>5, <2>2
  <2>4. /\ p.rules[i].instructions = Code(r.condition)
        /\ p.rules[i].priority = r.priority /\ p.rules[i].salience = r.salience
        /\ p.rules[i].specificity = Runtime!countSpecificity[r.condition]
        /\ p.rules[i].id = r.id
    BY <2>3 DEF Runtime!compileBytecodeRule, Code
  <2> QED
    BY <2>1, <2>2, <2>4, SpecificityIsANumber
<1> QED
  BY <1>2, <1>3, <1>4, <1>6 DEF Compiled

\* The candidate whose turn it is, is one, and none precedes it.
LEMMA TurnIsCandidate ==
  ASSUME Compiled(program), candidates \subseteq DOMAIN program.rules, candidates # {}
  PROVE  /\ Runtime!Turn \in candidates
         /\ \A j \in candidates :
               ~Runtime!Precedes(program.rules[j], program.rules[Runtime!Turn])
<1> DEFINE s == program.rules
           CodeBefore(i, j) == \/ Runtime!CompiledPrecedes(s[i], s[j])
                               \/ ~Runtime!CompiledPrecedes(s[j], s[i]) /\ i < j
           R == {p \in candidates \X candidates : CodeBefore(p[1], p[2])}
<1>1. \A i \in candidates :
         /\ i \in Int /\ s[i].priority \in Int /\ s[i].salience \in Int
         /\ s[i].specificity \in Int /\ s[i].id \in Int
  BY DEF Compiled
<1>2. IsFiniteSet(candidates)
  <2>1. PICK n \in Nat : candidates \in SUBSET (1..n)
    BY DEF Compiled
  <2>2. 1 \in Int /\ n \in Int
    OBVIOUS
  <2>3. IsFiniteSet(1..n)
    BY <2>2, FS_Interval, Zenon
  <2> QED
    BY <2>1, <2>3, FS_Subset, Zenon
<1>3. /\ \A i \in candidates : ~CodeBefore(i, i)
      /\ \A i, j \in candidates : i # j => CodeBefore(i, j) \/ CodeBefore(j, i)
      /\ \A i, j, k \in candidates : CodeBefore(i, j) /\ CodeBefore(j, k) => CodeBefore(i, k)
  <2> HIDE DEF s
  <2> QED
    BY <1>1 DEF Runtime!CompiledPrecedes, Runtime!Precedes
<1>4. \A i, j \in candidates : <<i, j>> \in R <=> CodeBefore(i, j)
  <2> HIDE DEF CodeBefore
  <2> QED
    OBVIOUS
<1>5. \E i \in candidates : \A j \in candidates \ {i} : CodeBefore(i, j)
  <2> HIDE DEF CodeBefore, R
  <2>1. \E i \in candidates : \A j \in candidates \ {i} : <<i, j>> \in R
    BY <1>2, <1>3, <1>4, FirstOfOrder
  <2> QED
    BY <1>4, <2>1
<1>6. Runtime!Turn = CHOOSE i \in candidates : \A j \in candidates \ {i} : CodeBefore(i, j)
  BY Zenon DEF Runtime!Turn
<1>7. /\ Runtime!Turn \in candidates
      /\ \A j \in candidates \ {Runtime!Turn} : CodeBefore(Runtime!Turn, j)
  BY <1>5, <1>6, Zenon
<1>8. \A i, j \in candidates : i = j \/ CodeBefore(i, j) => ~Runtime!Precedes(s[j], s[i])
  <2> HIDE DEF s
  <2> QED
    BY <1>1 DEF Runtime!CompiledPrecedes, Runtime!Precedes
<1>9. ASSUME NEW j \in candidates
      PROVE  ~Runtime!Precedes(s[j], s[Runtime!Turn])
  <2> HIDE DEF s, CodeBefore
  <2> QED
    BY <1>7, <1>8
<1> QED
  BY <1>7, <1>9

-----------------------------------------------------------------------------
\* The inductive invariant of the runtime.

\* Both evaluators are asked about facts of the callers, the runtime after the engine.
AskedAboutFacts ==
  /\ at # "idle" => facts \in Facts
  /\ run # "idle" => typedFacts \in Facts

\* Programs are what rule sets are compiled to, and candidates are rules of theirs.
ProgramsCompiled ==
  /\ \A p \in engine \cup {program} : Compiled(p)
  /\ candidates \subseteq DOMAIN program.rules

CurrentCondition == program.source.rules[current].condition

\* The stack is where the code has led to so far, on its way from an empty stack to the
\* value of the condition.
StackIsOnItsWay ==
  run = "execute" =>
    /\ current \in DOMAIN program.rules
    /\ pc \in 1..(Len(Code(CurrentCondition)) + 1)
    /\ \E v \in BOOLEAN : \E T :
          /\ Turns(T, Code(CurrentCondition), typedFacts, <<>>, <<v>>)
          /\ Portable(typedFacts)[CurrentCondition] => v = Native(typedFacts)[CurrentCondition]
          /\ stack = T[pc - 1]

MachineInv ==
  AskedAboutFacts /\ ProgramsCompiled /\ StackIsOnItsWay /\ run # "panic"

\* It holds before the first question.
LEMMA InitMachineInv == Init => MachineInv
<1> SUFFICES ASSUME Init
             PROVE  MachineInv
  OBVIOUS
<1>1. /\ at = "idle" /\ run = "idle" /\ engine = {} /\ candidates = {}
      /\ program = Runtime!NoProgram
  BY DEF Init, Engine!Init, Runtime!Init
<1>2. program.rules = <<>>
  BY <1>1 DEF Runtime!NoProgram
<1>3. DOMAIN program.rules = {}
  BY <1>2
<1>4. Compiled(program)
  <2>1. 0 \in Nat /\ DOMAIN program.rules \subseteq 1..0
    BY <1>3
  <2> QED
    BY <1>3, <2>1 DEF Compiled
<1> QED
  BY <1>1, <1>3, <1>4 DEF MachineInv, AskedAboutFacts, ProgramsCompiled, StackIsOnItsWay

\* The engine keeps the facts it was asked about, which are those of a caller.
LEMMA FactsStay ==
  ASSUME MachineInv, [Next]_vars
  PROVE  AskedAboutFacts'
<1>1. AskedAboutFacts
  BY DEF MachineInv
<1>2. at' # "idle" => facts' \in Facts
  <2>1. CASE UNCHANGED engineVars
    BY <1>1, <2>1 DEF engineVars, AskedAboutFacts
  <2>2. CASE Load \/ ContextEnds \/ AddAnother
    <3>1. UNCHANGED <<at, facts>>
      BY <2>2 DEF Load, ContextEnds, AddAnother, Engine!AddRuleSet, Engine!Cancel,
                  Engine!callVars
    <3> QED
      BY <1>1, <3>1 DEF AskedAboutFacts
  <2>3. CASE AskEngine
    BY <2>3 DEF AskEngine, Engine!Evaluate
  <2>4. CASE EngineProceeds
    <3>1. at # "idle" /\ UNCHANGED facts
      <4>1. CASE Engine!EvalRules
        BY <4>1 DEF Engine!EvalRules, Engine!callVars
      <4>2. CASE Engine!RulesReturn \/ Engine!Return
        BY <4>2 DEF Engine!RulesReturn, Engine!Return, Engine!callVars
      <4>3. CASE Engine!EvalWorkflow
        BY <4>3 DEF Engine!EvalWorkflow, Engine!StartWorkflow, Engine!EnterStage,
                    Engine!LeaveStage, Engine!StageFails, Engine!NoSuchStage,
                    Engine!EndWorkflow, Engine!callVars
      <4> QED
        BY <2>4, <4>1, <4>2, <4>3 DEF EngineProceeds, Engine!Proceed
    <3> QED
      BY <1>1, <3>1 DEF AskedAboutFacts
  <2>5. CASE AskRuntime \/ RuntimeProceeds \/ ReloadAnother
    BY <2>1, <2>5 DEF AskRuntime, RuntimeProceeds, ReloadAnother
  <2> QED
    BY <2>1, <2>2, <2>3, <2>4, <2>5 DEF Next, vars
<1>3. run' # "idle" => typedFacts' \in Facts
  <2>1. CASE UNCHANGED runtimeVars
    BY <1>1, <2>1 DEF runtimeVars, AskedAboutFacts
  <2>2. CASE Load \/ ReloadAnother
    <3>1. UNCHANGED <<run, typedFacts>>
      BY <2>2 DEF Load, ReloadAnother, Runtime!Reload
    <3> QED
      BY <1>1, <3>1 DEF AskedAboutFacts
  <2>3. CASE AskRuntime
    <3>1. typedFacts' = facts /\ at = "returned"
      BY <2>3 DEF AskRuntime, Runtime!Evaluate
    <3> QED
      BY <1>1, <3>1 DEF AskedAboutFacts
  <2>4. CASE RuntimeProceeds
    <3>1. run # "idle" /\ UNCHANGED typedFacts
      BY <2>4 DEF RuntimeProceeds, Runtime!Proceed, Runtime!NextRule, Runtime!Execute,
                  Runtime!Reject, Runtime!ApplyRule, Runtime!Return, Runtime!Executed
    <3> QED
      BY <1>1, <3>1 DEF AskedAboutFacts
  <2>5. CASE AskEngine \/ EngineProceeds \/ ContextEnds \/ AddAnother
    BY <2>1, <2>5 DEF AskEngine, EngineProceeds, ContextEnds, AddAnother
  <2> QED
    BY <2>1, <2>2, <2>3, <2>4, <2>5 DEF Next, vars
<1> QED
  BY <1>2, <1>3 DEF AskedAboutFacts

\* A program stays what its rule set was compiled to, whatever is loaded next.
LEMMA ProgramsStay ==
  ASSUME MachineInv, [Next]_vars
  PROVE  ProgramsCompiled'
<1>1. ProgramsCompiled
  BY DEF MachineInv
<1> USE DEF ProgramsCompiled
<1>2. CASE UNCHANGED runtimeVars
  BY <1>1, <1>2 DEF runtimeVars, Compiled
<1>3. CASE Load \/ ReloadAnother
  <2>1. PICK set \in RuleSets : \E option : Runtime!Reload(set, option)
    BY <1>3, ReplacementsAssumption DEF Load, ReloadAnother
  <2>2. PICK option : Runtime!Reload(set, option)
    BY <2>1
  <2>3. /\ engine' = {Runtime!CompileRuleSet(actionVals', set, option)}
        /\ UNCHANGED <<program, candidates>>
    BY <2>2 DEF Runtime!Reload
  <2>4. Compiled(Runtime!CompileRuleSet(actionVals', set, option))
    BY RuleSetsCompile
  <2>5. \A p \in engine' \cup {program'} : Compiled(p)
    BY <1>1, <2>3, <2>4
  <2> QED
    BY <1>1, <2>3, <2>5
<1>4. CASE AskRuntime
  <2>1. Runtime!Evaluate(facts) /\ UNCHANGED engine
    BY <1>4 DEF AskRuntime, Runtime!Evaluate
  <2>2. CASE UNCHANGED <<program, candidates>>
    BY <1>1, <2>1, <2>2
  <2>3. ASSUME NEW p \in engine, program' = p, candidates' = Runtime!Candidates(p, facts)
        PROVE  ProgramsCompiled'
    <3>1. candidates' \subseteq DOMAIN program'.rules
      BY <2>3 DEF Runtime!Candidates
    <3>2. \A q \in engine' \cup {program'} : Compiled(q)
      BY <1>1, <2>1, <2>3
    <3> QED
      BY <3>1, <3>2
  <2> QED
    BY <2>1, <2>2, <2>3 DEF Runtime!Evaluate
<1>5. CASE RuntimeProceeds
  <2>1. UNCHANGED <<engine, program>> /\ candidates' \subseteq candidates
    BY <1>5 DEF RuntimeProceeds, Runtime!Proceed, Runtime!NextRule, Runtime!Execute,
                Runtime!Reject, Runtime!ApplyRule, Runtime!Return
  <2> QED
    BY <1>1, <2>1
<1>6. CASE AskEngine \/ EngineProceeds \/ ContextEnds \/ AddAnother
  BY <1>2, <1>6 DEF AskEngine, EngineProceeds, ContextEnds, AddAnother
<1> QED
  BY <1>2, <1>3, <1>4, <1>5, <1>6 DEF Next, vars

\* An execution starts with an empty stack.
LEMMA StartsOnItsWay ==
  ASSUME MachineInv, RuntimeProceeds, Runtime!NextRule
  PROVE  StackIsOnItsWay' /\ run' # "panic"
<1>1. Runtime!Turn \in DOMAIN program.rules /\ typedFacts \in Facts /\ run = "scan"
  BY TurnIsCandidate DEF MachineInv, ProgramsCompiled, AskedAboutFacts, Runtime!NextRule
<1>2. UNCHANGED <<program, typedFacts>>
  BY DEF Runtime!NextRule
<1>3. CASE run' = run
  BY <1>1, <1>3 DEF StackIsOnItsWay
<1>4. CASE run' = "execute" /\ current' = Runtime!Turn /\ pc' = 1 /\ stack' = <<>>
  <2>1. PICK c : c = CurrentCondition'
    OBVIOUS
  <2>2. c \in Conditions
    BY <1>1, <1>2, <1>4, <2>1 DEF MachineInv, ProgramsCompiled, Compiled, CurrentCondition
  <2>3. PICK v \in BOOLEAN : /\ Leads(Code(c), typedFacts, <<>>, <<v>>)
                             /\ Portable(typedFacts)[c] => v = Native(typedFacts)[c]
    BY <1>1, <2>2, CodeAlwaysAgrees DEF Agrees
  <2>4. PICK T : Turns(T, Code(c), typedFacts, <<>>, <<v>>)
    BY <2>3 DEF Leads
  <2>5. pc' \in 1..(Len(Code(c)) + 1) /\ pc' - 1 = 0 /\ T[0] = <<>>
    BY <1>4, <2>4, LenProperties DEF Turns
  <2> QED
    BY <1>1, <1>2, <1>4, <2>1, <2>3, <2>4, <2>5 DEF StackIsOnItsWay
<1> QED
  BY <1>3, <1>4 DEF Runtime!NextRule

\* Each instruction finds its operands and goes on.
LEMMA StaysOnItsWay ==
  ASSUME MachineInv, RuntimeProceeds, Runtime!Execute
  PROVE  StackIsOnItsWay' /\ run' # "panic"
<1>1. /\ run = "execute" /\ pc <= Len(Runtime!Instructions)
      /\ UNCHANGED <<program, typedFacts>>
  BY DEF Runtime!Execute
<1>2. PICK c : c = CurrentCondition
  OBVIOUS
<1>3. PICK f : f = typedFacts
  OBVIOUS
<1>4. PICK v \in BOOLEAN : \E T :
         /\ Turns(T, Code(c), f, <<>>, <<v>>)
         /\ Portable(f)[c] => v = Native(f)[c]
         /\ stack = T[pc - 1]
  BY <1>1, <1>2, <1>3 DEF MachineInv, StackIsOnItsWay
<1>5. PICK T :
         /\ Turns(T, Code(c), f, <<>>, <<v>>)
         /\ Portable(f)[c] => v = Native(f)[c]
         /\ stack = T[pc - 1]
  BY <1>4
<1>6. current \in DOMAIN program.rules /\ pc \in 1..(Len(Code(c)) + 1)
  BY <1>1, <1>2 DEF MachineInv, StackIsOnItsWay
<1>7. Runtime!Instructions = Code(c)
  BY <1>2, <1>6
     DEF MachineInv, ProgramsCompiled, Compiled, CurrentCondition, Runtime!Instructions
<1>8. PICK n \in Nat : n = Len(Code(c))
  BY <1>5, LenProperties DEF Turns
<1>9. pc \in 1..n /\ pc - 1 \in 0..n /\ pc \in 0..n /\ pc + 1 \in 1..(n + 1) /\ (pc + 1) - 1 = pc
  BY <1>1, <1>6, <1>7, <1>8
<1>10. PICK ins : ins = Code(c)[pc]
  OBVIOUS
<1>11. T[pc - 1] \in Stacks /\ T[pc] \in Stacks
  BY <1>5, <1>8, <1>9 DEF Turns
<1>12. Takes(T[pc - 1], ins, f, T[pc])
  <2>1. <<>> \in Stacks
    BY DEF Stacks
  <2>2. Takes(<<>> \o T[pc - 1], ins, f, <<>> \o T[pc])
    BY <1>5, <1>8, <1>9, <1>10, <2>1 DEF Turns
  <2>3. <<>> \o T[pc - 1] = T[pc - 1] /\ <<>> \o T[pc] = T[pc]
    BY <1>11, ConcatEmptySeq DEF Stacks
  <2> QED
    BY <2>2, <2>3
<1>13. Runtime!Outcome(ins) = OutcomeOn(stack, ins, f)
  <2>1. Len(stack) - 0 = Len(stack)
    BY <1>5, <1>11, LenProperties DEF Stacks
  <2>2. Runtime!Pushes(ins) = Pushed(ins, f)
    BY <1>3 DEF Runtime!Pushes, Pushed
  <2> QED
    BY <2>1, <2>2 DEF Runtime!Outcome, Runtime!Top, OutcomeOn
<1>14. /\ ~(Len(stack) < Runtime!Operands(ins))
       /\ T[pc] = Append(SubSeq(stack, 1, Len(stack) - Runtime!Operands(ins)), Runtime!Outcome(ins))
  <2>1. Len(stack) \in Nat /\ Runtime!Operands(ins) \in Nat
    BY <1>5, <1>11, LenProperties DEF Stacks, Runtime!Operands
  <2> QED
    BY <1>5, <1>12, <1>13, <2>1 DEF Takes
<1>15. stack' = T[pc] /\ pc' = pc + 1 /\ run' = "execute" /\ current' = current
  BY <1>1, <1>7, <1>10, <1>14 DEF Runtime!Execute
<1>16. CurrentCondition' = c
  BY <1>1, <1>2, <1>15 DEF CurrentCondition
<1>17. pc' \in 1..(Len(Code(c)) + 1) /\ stack' = T[pc' - 1]
  BY <1>8, <1>9, <1>15
<1> QED
  BY <1>1, <1>3, <1>5, <1>6, <1>15, <1>16, <1>17 DEF StackIsOnItsWay

\* The stack stays on its way.
LEMMA WayStays ==
  ASSUME MachineInv, [Next]_vars
  PROVE  StackIsOnItsWay' /\ run' # "panic"
<1>1. StackIsOnItsWay /\ run # "panic"
  BY DEF MachineInv
<1>2. CASE UNCHANGED <<program, typedFacts, run, current, pc, stack>>
  BY <1>1, <1>2 DEF StackIsOnItsWay, CurrentCondition
<1>3. CASE Load \/ ReloadAnother
  <2>1. UNCHANGED <<program, typedFacts, run, current, pc, stack>>
    BY <1>3 DEF Load, ReloadAnother, Runtime!Reload, Runtime!machineVars
  <2> QED
    BY <1>2, <2>1
<1>4. CASE AskRuntime
  <2>1. run' \in {"returned", "scan"}
    BY <1>4 DEF AskRuntime, Runtime!Evaluate
  <2> QED
    BY <2>1 DEF StackIsOnItsWay
<1>5. CASE RuntimeProceeds
  <2>1. CASE Runtime!NextRule
    BY <1>5, <2>1, StartsOnItsWay
  <2>2. CASE Runtime!Execute
    BY <1>5, <2>2, StaysOnItsWay
  <2>3. CASE Runtime!Reject \/ Runtime!ApplyRule \/ Runtime!Return
    <3>1. run' \in {"returned", "scan"}
      BY <2>3 DEF Runtime!Reject, Runtime!ApplyRule, Runtime!Return
    <3> QED
      BY <3>1 DEF StackIsOnItsWay
  <2> QED
    BY <1>5, <2>1, <2>2, <2>3 DEF RuntimeProceeds, Runtime!Proceed
<1>6. CASE AskEngine \/ EngineProceeds \/ ContextEnds \/ AddAnother \/ UNCHANGED vars
  BY <1>2, <1>6 DEF AskEngine, EngineProceeds, ContextEnds, AddAnother, vars, runtimeVars
<1> QED
  BY <1>3, <1>4, <1>5, <1>6 DEF Next

\* At the end of the code the stack is where it leads to.
LEMMA MachineMatchesWhereItLeads == MachineInv => MachineMatchesTree
<1> SUFFICES ASSUME MachineInv, Runtime!Executed,
                    NEW c, c = program.source.rules[current].condition,
                    Portable(typedFacts)[c]
             PROVE  stack = <<Native(typedFacts)[c]>>
  BY DEF MachineInv, MachineMatchesTree
<1>1. c = CurrentCondition /\ run = "execute"
  BY DEF CurrentCondition, Runtime!Executed
<1>2. PICK v : \E T :
         /\ Turns(T, Code(c), typedFacts, <<>>, <<v>>)
         /\ v = Native(typedFacts)[c]
         /\ stack = T[pc - 1]
  BY <1>1 DEF MachineInv, StackIsOnItsWay
<1>3. PICK T :
         /\ Turns(T, Code(c), typedFacts, <<>>, <<v>>)
         /\ v = Native(typedFacts)[c]
         /\ stack = T[pc - 1]
  BY <1>2
<1>4. current \in DOMAIN program.rules /\ pc \in 1..(Len(Code(c)) + 1)
  BY <1>1 DEF MachineInv, StackIsOnItsWay
<1>5. Runtime!Instructions = Code(c)
  BY <1>1, <1>4
     DEF MachineInv, ProgramsCompiled, Compiled, CurrentCondition, Runtime!Instructions
<1>6. pc - 1 = Len(Code(c))
  <2>1. Len(Code(c)) \in Nat
    BY <1>3, LenProperties DEF Turns
  <2>2. pc > Len(Code(c))
    BY <1>5 DEF Runtime!Executed
  <2> QED
    BY <1>4, <2>1, <2>2
<1> QED
  BY <1>3, <1>6 DEF Turns

\* For any conditions, rule sets and facts, the stack machine ends with the value that
\* the tree has on every portable condition, and never runs out of operands, whatever
\* is loaded meanwhile (evalInstructions).
THEOREM MachineAlwaysMatchesTree == Spec => []MachineMatchesTree
<1>1. MachineInv /\ [Next]_vars => MachineInv'
  BY FactsStay, ProgramsStay, WayStays DEF MachineInv
<1> QED
  BY InitMachineInv, <1>1, MachineMatchesWhereItLeads, PTL DEF Spec

-----------------------------------------------------------------------------
\* The index.

\* The key that a condition is indexed by.
LEMMA IndexComputes ==
  \A c \in Conditions :
            Runtime!firstEqualityIndex[c] =
              CASE c.op \in {"&&", "||"} -> IF Runtime!firstEqualityIndex[c.left] # {}
                                            THEN Runtime!firstEqualityIndex[c.left]
                                            ELSE Runtime!firstEqualityIndex[c.right]
                [] c.op = "==" /\ c.lit.kind # "missing" -> {[field |-> c.field, lit |-> c.lit]}
                [] OTHER -> {}
<1> DEFINE Body(g, c) ==
             CASE c.op \in {"&&", "||"} -> IF g[c.left] # {} THEN g[c.left] ELSE g[c.right]
               [] c.op = "==" /\ c.lit.kind # "missing" -> {[field |-> c.field, lit |-> c.lit]}
               [] OTHER -> {}
           R == SUBSET {[field |-> c.field, lit |-> c.lit] : c \in Conditions}
           F == [g \in [Conditions -> R] |-> [c \in Conditions |-> Body(g, c)]]
<1>1. LooksDown(F, R)
  <2>1. ASSUME NEW g \in [Conditions -> R], NEW c \in Conditions
        PROVE  Body(g, c) \in R
    <3>1. CASE c.op \in {"&&", "||"}
      <4>1. g[c.left] \in R /\ g[c.right] \in R
        BY <3>1, PartsAreSmaller DEF Smaller
      <4> HIDE DEF R
      <4> QED
        BY <3>1, <4>1
    <3>2. CASE c.op \notin {"&&", "||"}
      BY <3>2
    <3> QED
      BY <3>1, <3>2
  <2>2. ASSUME NEW g \in [Conditions -> R], NEW h \in [Conditions -> R],
               NEW c \in Conditions, \A d \in Conditions : Smaller(d, c) => g[d] = h[d]
        PROVE  Body(g, c) = Body(h, c)
    BY <2>2, PartsAreSmaller DEF Smaller
  <2> HIDE DEF R, Body
  <2> QED
    BY <2>1, <2>2 DEF LooksDown
<1>2. [c \in Conditions |-> {}] \in [Conditions -> R]
  OBVIOUS
<1>3. \E g : g = [c \in Conditions |-> Body(g, c)]
  <2>1. PICK g \in [Conditions -> R] : g = F[g]
    <3> HIDE DEF F, R
    <3> QED
      BY <1>1, <1>2, DefinesOne
  <2>2. F[g] = [c \in Conditions |-> Body(g, c)]
    <3> HIDE DEF Body, R
    <3> QED
      OBVIOUS
  <2> QED
    BY <2>1, <2>2
<1>4. Runtime!firstEqualityIndex = CHOOSE g : g = [c \in Conditions |-> Body(g, c)]
  BY DEF Runtime!firstEqualityIndex
<1> HIDE DEF Body
<1>5. Runtime!firstEqualityIndex = [c \in Conditions |-> Body(Runtime!firstEqualityIndex, c)]
  BY <1>3, <1>4
<1>6. \A c \in Conditions : Runtime!firstEqualityIndex[c] = Body(Runtime!firstEqualityIndex, c)
  BY <1>5
<1> USE DEF Body
<1> QED
  BY <1>6

\* Which conditions are not indexed by what they can do without.
LEMMA NecessityComputes ==
  \A c \in Conditions :
     IndexIsNecessary[c] =
       /\ c.op = "||" => Runtime!firstEqualityIndex[c] = {}
       /\ c.op = "&&" => IndexIsNecessary[c.left] /\ IndexIsNecessary[c.right]
<1> DEFINE Body(g, c) == /\ c.op = "||" => Runtime!firstEqualityIndex[c] = {}
                         /\ c.op = "&&" => g[c.left] /\ g[c.right]
           R == BOOLEAN
           F == [g \in [Conditions -> R] |-> [c \in Conditions |-> Body(g, c)]]
<1>1. LooksDown(F, R)
  <2>1. ASSUME NEW g \in [Conditions -> R], NEW c \in Conditions
        PROVE  Body(g, c) \in R
    OBVIOUS
  <2>2. ASSUME NEW g \in [Conditions -> R], NEW h \in [Conditions -> R],
               NEW c \in Conditions, \A d \in Conditions : Smaller(d, c) => g[d] = h[d]
        PROVE  Body(g, c) = Body(h, c)
    BY <2>2, PartsAreSmaller DEF Smaller
  <2> HIDE DEF R, Body
  <2> QED
    BY <2>1, <2>2 DEF LooksDown
<1>2. [c \in Conditions |-> TRUE] \in [Conditions -> R]
  OBVIOUS
<1>3. \E g : g = [c \in Conditions |-> Body(g, c)]
  <2>1. PICK g \in [Conditions -> R] : g = F[g]
    <3> HIDE DEF F, R
    <3> QED
      BY <1>1, <1>2, DefinesOne
  <2>2. F[g] = [c \in Conditions |-> Body(g, c)]
    <3> HIDE DEF Body, R
    <3> QED
      OBVIOUS
  <2> QED
    BY <2>1, <2>2
<1>4. IndexIsNecessary = CHOOSE g : g = [c \in Conditions |-> Body(g, c)]
  BY DEF IndexIsNecessary
<1> HIDE DEF Body
<1>5. IndexIsNecessary = [c \in Conditions |-> Body(IndexIsNecessary, c)]
  BY <1>3, <1>4
<1>6. \A c \in Conditions : IndexIsNecessary[c] = Body(IndexIsNecessary, c)
  BY <1>5
<1> USE DEF Body
<1> QED
  BY <1>6

\* Where a condition holds, the facts are found under its key.
FoundByKey(c, f) ==
  Portable(f)[c] /\ IndexIsNecessary[c] /\ Native(f)[c] =>
    \A key \in Runtime!firstEqualityIndex[c] : Runtime!typedFactEqualsKey(f, key)

\* A condition inherits from its parts that it is found by its key.
LEMMA PartsFound ==
  ASSUME NEW f \in Facts, NEW c \in Conditions,
         \A d \in Conditions : Smaller(d, c) => FoundByKey(d, f),
         Portable(f)[c], IndexIsNecessary[c], Native(f)[c],
         NEW key \in Runtime!firstEqualityIndex[c]
  PROVE  Runtime!typedFactEqualsKey(f, key)
<1>1. CASE c.op = "&&"
  <2>1. /\ c.left \in Conditions /\ c.right \in Conditions
        /\ FoundByKey(c.left, f) /\ FoundByKey(c.right, f)
    BY <1>1, PartsAreSmaller DEF Smaller
  <2>2. Portable(f)[c.left] /\ Portable(f)[c.right]
    BY <1>1, PortableComputes
  <2>3. IndexIsNecessary[c.left] /\ IndexIsNecessary[c.right]
    BY <1>1, NecessityComputes
  <2>4. Native(f)[c.left] /\ Native(f)[c.right]
    BY <1>1, NativeComputes
  <2>5. key \in Runtime!firstEqualityIndex[c.left] \cup Runtime!firstEqualityIndex[c.right]
    BY <1>1, IndexComputes
  <2> QED
    BY <2>1, <2>2, <2>3, <2>4, <2>5 DEF FoundByKey
<1>2. CASE c.op = "||"
  BY <1>2, NecessityComputes
<1>3. CASE c.op = "==" /\ c.lit.kind # "missing"
  <2>1. key = [field |-> c.field, lit |-> c.lit]
    BY <1>3, IndexComputes
  <2>2. Leaf(c) /\ Runtime!compileOperand(c) = <<c>>
    BY <1>3 DEF Leaf, Runtime!compileOperand
  <2>3. AlikeTyped(c, f) /\ OperandHolds(c, f)
    BY <1>3, PortableComputes, NativeComputes
  <2>4. Pushed(c, f)
    <3>1. PICK ins : /\ Runtime!compileOperand(c) = <<ins>>
                     /\ Pushed(ins, f) \in BOOLEAN
                     /\ AlikeTyped(c, f) => Pushed(ins, f) = OperandHolds(c, f)
      BY <2>2, OperandsAgree
    <3>2. ins = c
      BY <2>2, <3>1
    <3> QED
      BY <2>3, <3>1, <3>2
  <2>5. Runtime!evalCompare("==", f[c.field], c.lit)
    BY <1>3, <2>4 DEF Pushed
  <2>6. f[c.field].kind # "missing"
    BY <2>5 DEF Runtime!evalCompare
  <2> QED
    BY <2>1, <2>5, <2>6 DEF Runtime!typedFactEqualsKey
<1>4. CASE c.op \notin {"&&", "||"} /\ ~(c.op = "==" /\ c.lit.kind # "missing")
  BY <1>4, IndexComputes
<1> QED
  BY <1>1, <1>2, <1>3, <1>4

\* So every condition is.
LEMMA AlwaysFoundByKey ==
  ASSUME NEW f \in Facts, NEW c \in Conditions
  PROVE  FoundByKey(c, f)
<1> DEFINE B == {d \in Conditions : ~FoundByKey(d, f)}
<1> SUFFICES ASSUME B # {}
             PROVE  FALSE
  OBVIOUS
<1>1. PICK d \in B : \A e \in Conditions : Smaller(e, d) => e \notin B
  <2>1. B \in SUBSET Conditions
    OBVIOUS
  <2> HIDE DEF B
  <2> QED
    BY <2>1, SmallestOne
<1>2. FoundByKey(d, f)
  BY <1>1, PartsFound DEF FoundByKey
<1> QED
  BY <1>2

-----------------------------------------------------------------------------
\* The words of a rule, compiled.

\* Known types of actions have the numbers of their places.
Known(type) == \E n \in DOMAIN Runtime!KnownActions : Runtime!KnownActions[n] = type

\* "allow" and "deny" are told by their numbers.
LEMMA KnownTypes ==
  ASSUME NEW names, NEW type, Known(type)
  PROVE  /\ Runtime!actionType(names, type) = Runtime!ActionAllow <=> type = "allow"
         /\ Runtime!actionType(names, type) = Runtime!ActionDeny <=> type = "deny"
<1> DEFINE IsOf(n) == n \in DOMAIN Runtime!KnownActions /\ Runtime!KnownActions[n] = type
<1>1. Runtime!Contains(Runtime!KnownActions, type)
  BY DEF Known, Runtime!Contains, Runtime!KnownActions
<1>2. Runtime!actionType(names, type)
         = CHOOSE n \in DOMAIN Runtime!KnownActions : Runtime!KnownActions[n] = type
  BY <1>1 DEF Runtime!actionType
<1>3. PICK k : k = Runtime!actionType(names, type)
  OBVIOUS
<1>4. k \in DOMAIN Runtime!KnownActions /\ Runtime!KnownActions[k] = type
  BY <1>2, <1>3 DEF Known
<1>5. \A n \in DOMAIN Runtime!KnownActions :
         /\ Runtime!KnownActions[n] = "allow" <=> n = 1
         /\ Runtime!KnownActions[n] = "deny" <=> n = 2
  BY DEF Runtime!KnownActions
<1> QED
  BY <1>3, <1>4, <1>5 DEF Runtime!ActionAllow, Runtime!ActionDeny

\* Actions of known types only.
KnownWords(r) == \A k \in DOMAIN r.actions : Known(r.actions[k].type)

\* The words of the code say what the words of the rule say.
SaysTheSame(code, r) ==
  /\ \A a : Runtime!AllowedBy(code, a) <=> Engine!LastWord(Engine!Words(r), a)
  /\ (\E k \in DOMAIN code : code[k] = Runtime!ActionDeny) <=> ruleDenies(r)
  /\ (\E k \in DOMAIN code : code[k] = Runtime!ActionAllow) <=> ruleAllows(r)
  /\ DOMAIN code = 1..Len(code)

\* The compiled words of a rule say what its words say.
LEMMA WordsCompile ==
  ASSUME NEW names, NEW r, NEW n \in Nat, DOMAIN r.actions = 1..n, KnownWords(r),
         NEW code, code = Runtime!compileActions(names, r)
  PROVE  SaysTheSame(code, r)
<1> USE DEF KnownWords, SaysTheSame
<1>1. PICK w : w = Engine!Words(r)
  OBVIOUS
<1>2. /\ DOMAIN w = 1..(n + 1) /\ w[1] = r.decision
      /\ \A i \in 1..n : w[i + 1] = r.actions[i].type
  BY <1>1, WordsInOrder
<1>3. PICK q : q = [k \in 1..n |-> Runtime!actionType(names, r.actions[k].type)]
  OBVIOUS
<1>4. /\ q = [k \in 1..n |-> q[k]] /\ DOMAIN q = 1..n
      /\ \A k \in 1..n : /\ q[k] = Runtime!ActionAllow <=> w[k + 1] = "allow"
                         /\ q[k] = Runtime!ActionDeny <=> w[k + 1] = "deny"
  <2>1. q = [k \in 1..n |-> q[k]] /\ DOMAIN q = 1..n
    BY <1>3
  <2>2. ASSUME NEW k \in 1..n
        PROVE  /\ q[k] = Runtime!ActionAllow <=> w[k + 1] = "allow"
               /\ q[k] = Runtime!ActionDeny <=> w[k + 1] = "deny"
    <3>1. q[k] = Runtime!actionType(names, r.actions[k].type)
      BY <1>3
    <3> QED
      BY <1>2, <3>1, KnownTypes
  <2> QED
    BY <2>1, <2>2
<1>5. /\ ruleDenies(r) <=> \E k \in DOMAIN w : w[k] = "deny"
      /\ ruleAllows(r) <=> \E k \in DOMAIN w : w[k] = "allow"
  BY <1>1, WordsOfRule DEF ruleDenies, ruleAllows
<1>6. CASE r.decision \in {"allow", "deny"}
  <2>1. PICK x : x = IF r.decision = "allow" THEN Runtime!ActionAllow ELSE Runtime!ActionDeny
    OBVIOUS
  <2>2. code = <<x>> \o q
    BY <1>3, <1>6, <2>1 DEF Runtime!compileActions
  <2>3. /\ DOMAIN code = 1..(n + 1) /\ Len(code) = n + 1
        /\ code[1] = x /\ \A i \in 1..n : code[i + 1] = q[i]
    BY <1>4, <2>2, OneInFront
  <2>4. ASSUME NEW k \in 1..(n + 1)
        PROVE  /\ code[k] = Runtime!ActionAllow <=> w[k] = "allow"
               /\ code[k] = Runtime!ActionDeny <=> w[k] = "deny"
    <3>1. CASE k = 1
      BY <1>2, <1>6, <2>1, <2>3, <3>1 DEF Runtime!ActionAllow, Runtime!ActionDeny
    <3>2. CASE k # 1
      <4>1. k - 1 \in 1..n /\ (k - 1) + 1 = k
        BY <3>2
      <4> QED
        BY <1>4, <2>3, <4>1
    <3> QED
      BY <3>1, <3>2
  <2>5. DOMAIN code = 1..(n + 1) /\ DOMAIN code = 1..Len(code)
    BY <2>3
  <2> QED
    BY <1>1, <1>2, <1>5, <2>4, <2>5 DEF Runtime!AllowedBy, Engine!LastWord
<1>7. CASE r.decision \notin {"allow", "deny"}
  <2>1. code = q /\ DOMAIN code = 1..Len(code)
    <3>1. code = <<>> \o q
      BY <1>3, <1>7 DEF Runtime!compileActions
    <3>2. q \in Seq({q[k] : k \in 1..n})
      <4>1. q \in [1..n -> {q[k] : k \in 1..n}]
        BY <1>4
      <4> QED
        BY <4>1
    <3>3. DOMAIN q = 1..Len(q)
      BY <3>2, LenProperties
    <3> QED
      BY <3>1, <3>2, <3>3, ConcatEmptySeq
  <2>2. \A k \in 1..(n + 1) : k = 1 \/ (k - 1 \in 1..n /\ (k - 1) + 1 = k)
    OBVIOUS
  <2>3. \A k \in 1..n : k + 1 \in 1..(n + 1)
    OBVIOUS
  <2>4. \A i, j \in 1..n : j + 1 > i + 1 <=> j > i
    OBVIOUS
  <2>5. (\E k \in DOMAIN w : w[k] = "deny") <=> \E k \in 1..n : w[k + 1] = "deny"
    BY <1>2, <1>7, <2>2, <2>3
  <2>6. (\E k \in DOMAIN w : w[k] = "allow") <=> \E k \in 1..n : w[k + 1] = "allow"
    BY <1>2, <1>7, <2>2, <2>3
  <2>7. (\E k \in DOMAIN w : w[k] = "allow" /\ \A j \in DOMAIN w : j > k => w[j] # "deny")
          <=> \E k \in 1..n : /\ w[k + 1] = "allow"
                              /\ \A j \in 1..n : j > k => w[j + 1] # "deny"
    <3>1. ASSUME NEW k \in 1..n
          PROVE  (\A j \in DOMAIN w : j > k + 1 => w[j] # "deny")
                   <=> \A j \in 1..n : j > k => w[j + 1] # "deny"
      <4>1. ASSUME \A j \in DOMAIN w : j > k + 1 => w[j] # "deny", NEW j \in 1..n, j > k
            PROVE  w[j + 1] # "deny"
        BY <1>2, <2>3, <2>4, <4>1
      <4>2. ASSUME \A j \in 1..n : j > k => w[j + 1] # "deny",
                   NEW j \in DOMAIN w, j > k + 1
            PROVE  w[j] # "deny"
        <5>1. j - 1 \in 1..n /\ (j - 1) + 1 = j /\ j - 1 > k
          BY <1>2, <4>2
        <5> QED
          BY <4>2, <5>1
      <4> QED
        BY <4>1, <4>2
    <3>2. ASSUME NEW k \in DOMAIN w, w[k] = "allow", \A j \in DOMAIN w : j > k => w[j] # "deny"
          PROVE  \E i \in 1..n : /\ w[i + 1] = "allow"
                                 /\ \A j \in 1..n : j > i => w[j + 1] # "deny"
      <4>1. k - 1 \in 1..n /\ (k - 1) + 1 = k
        BY <1>2, <1>7, <2>2, <3>2
      <4>2. \A j \in 1..n : j > k - 1 => w[j + 1] # "deny"
        BY <3>1, <3>2, <4>1
      <4> QED
        BY <3>2, <4>1, <4>2
    <3>3. ASSUME NEW i \in 1..n, w[i + 1] = "allow",
                 \A j \in 1..n : j > i => w[j + 1] # "deny"
          PROVE  \E k \in DOMAIN w : /\ w[k] = "allow"
                                     /\ \A j \in DOMAIN w : j > k => w[j] # "deny"
      <4>1. i + 1 \in DOMAIN w
        BY <1>2, <2>3
      <4> QED
        BY <3>1, <3>3, <4>1
    <3> QED
      BY <3>2, <3>3
  <2>8. \A a : Runtime!AllowedBy(code, a) <=> Engine!LastWord(w, a)
    <3>1. /\ DOMAIN code = 1..n
          /\ \A k \in 1..n : /\ code[k] = Runtime!ActionAllow <=> w[k + 1] = "allow"
                             /\ code[k] = Runtime!ActionDeny <=> w[k + 1] = "deny"
      BY <1>4, <2>1
    <3>2. (\E k \in 1..n : /\ code[k] = Runtime!ActionAllow
                           /\ \A j \in 1..n : j > k => code[j] # Runtime!ActionDeny)
            <=> \E k \in 1..n : /\ w[k + 1] = "allow"
                                /\ \A j \in 1..n : j > k => w[j + 1] # "deny"
      BY <3>1
    <3>3. (\A k \in 1..n : code[k] # Runtime!ActionDeny) <=> \A k \in DOMAIN w : w[k] # "deny"
      BY <2>5, <3>1
    <3> QED
      BY <2>7, <3>1, <3>2, <3>3 DEF Runtime!AllowedBy, Engine!LastWord
  <2> QED
    BY <1>1, <1>4, <1>5, <2>1, <2>5, <2>6, <2>8
<1> QED
  BY <1>6, <1>7

-----------------------------------------------------------------------------
\* How the engine comes to its answer.

\* T is the result after each of the rules that were applied.
Told(T, s, a) ==
  /\ T[0] = Engine!NoResult
  /\ \A k \in 1..Len(a) : T[k] = Engine!applyMatchedRule(T[k - 1], s[a[k]])

\* r is the result once the rules of s at the places a have been applied.
ResultOf(s, a, r) == \E T : Told(T, s, a) /\ T[Len(a)] = r

\* The rules that were applied match and come in order, none that is left precedes one of
\* them, and the result is theirs.
AppliedInOrder ==
  list # "failed" =>
    /\ \A k \in 1..Len(applied) : applied[k] \in Matching(rules, facts)
    /\ \A j, k \in 1..Len(applied) : j < k =>
          applied[j] # applied[k] /\ ~Precedes(rules[applied[k]], rules[applied[j]])
    /\ \A k \in 1..Len(applied) : \A i \in left : ~Precedes(rules[i], rules[applied[k]])
    /\ ResultOf(rules, applied, res)

\* A list is closed by the last rule that was applied, or there is no rule left to apply.
ClosedByLast ==
  list = "closed" =>
    /\ \A k \in 1..Len(applied) :
          k # Len(applied) => ~EndsList(Engine!Mode, rules[applied[k]])
    /\ \A i \in Matching(rules, facts) :
          \/ \E k \in 1..Len(applied) : applied[k] = i
          \/ /\ i \in left /\ Len(applied) # 0
             /\ EndsList(Engine!Mode, rules[applied[Len(applied)]])

\* A rule set without workflows is answered with the result of its rules.
AnsweredByRules ==
  /\ at = "top" => rules = rs.rules
  /\ at \in {"between", "returned"} /\ ~err /\ rs.workflows = <<>> =>
        rules = rs.rules /\ list = "closed" /\ answer = res

OrderInv == list \in {"open", "closed", "failed"} /\ AppliedInOrder /\ ClosedByLast

\* What is applied is a sequence.
LEMMA AppliedIsList ==
  ASSUME IInv
  PROVE  /\ Len(applied) \in Nat /\ DOMAIN applied = 1..Len(applied)
         /\ \A k \in 1..Len(applied) : applied[k] \in DOMAIN rules
<1>1. applied \in Seq(DOMAIN rules)
  BY DEF IInv, RulesAccountedFor
<1>2. Len(applied) \in Nat /\ DOMAIN applied = 1..Len(applied)
  BY <1>1, LenProperties
<1> QED
  BY <1>1, <1>2, ElementOfSeq

\* One more rule.
LEMMA ToldOneMore ==
  ASSUME NEW S, NEW a \in Seq(S), NEW t \in S, NEW b, b = Append(a, t),
         NEW s, NEW r, ResultOf(s, a, r), NEW x, x = Engine!applyMatchedRule(r, s[t])
  PROVE  ResultOf(s, b, x)
<1>1. PICK T : Told(T, s, a) /\ T[Len(a)] = r
  BY DEF ResultOf
<1>2. PICK n \in Nat : n = Len(a)
  BY LenProperties
<1>3. Len(b) = n + 1 /\ b[n + 1] = t /\ \A k \in 1..n : b[k] = a[k]
  BY <1>2, AppendProperties
<1>4. PICK U : U = [k \in 0..(n + 1) |-> IF k = n + 1 THEN x ELSE T[k]]
  OBVIOUS
<1>5. U[n + 1] = x /\ \A k \in 0..n : U[k] = T[k]
  BY <1>4
<1>6. /\ T[0] = Engine!NoResult /\ T[n] = r
      /\ \A k \in 1..n : T[k] = Engine!applyMatchedRule(T[k - 1], s[a[k]])
  BY <1>1, <1>2 DEF Told
<1>7. ASSUME NEW k \in 1..(n + 1)
      PROVE  U[k] = Engine!applyMatchedRule(U[k - 1], s[b[k]])
  <2>1. CASE k = n + 1
    <3>1. n \in 0..n /\ k - 1 = n
      BY <2>1
    <3> QED
      BY <1>3, <1>5, <1>6, <2>1, <3>1
  <2>2. CASE k # n + 1
    <3>1. k \in 1..n /\ k \in 0..n /\ k - 1 \in 0..n
      BY <2>2
    <3> QED
      BY <1>3, <1>5, <1>6, <3>1
  <2> QED
    BY <2>1, <2>2
<1>8. U[0] = Engine!NoResult
  BY <1>5, <1>6
<1> QED
  BY <1>3, <1>5, <1>7, <1>8 DEF Told, ResultOf

\* Before there is a rule the result is the empty one.
LEMMA NothingTold ==
  ASSUME NEW s
  PROVE  ResultOf(s, <<>>, Engine!NoResult)
<1>1. PICK T : T = [k \in 0..0 |-> Engine!NoResult]
  OBVIOUS
<1>2. T[0] = Engine!NoResult /\ Len(<<>>) = 0
  BY <1>1
<1> QED
  BY <1>2 DEF Told, ResultOf

\* There is no list before the first question.
LEMMA InitOrderInv == Init => OrderInv /\ AnsweredByRules
<1> SUFFICES ASSUME Init
             PROVE  OrderInv /\ AnsweredByRules
  OBVIOUS
<1>1. /\ rules = <<>> /\ left = {} /\ applied = <<>> /\ list = "closed" /\ at = "idle"
      /\ res = Engine!NoResult
  BY DEF Init, Engine!Init
<1>2. Len(applied) = 0 /\ Matching(rules, facts) = {}
  BY <1>1 DEF Matching
<1>3. AppliedInOrder
  BY <1>1, <1>2, NothingTold DEF AppliedInOrder
<1>4. ClosedByLast
  BY <1>1, <1>2 DEF ClosedByLast
<1> QED
  BY <1>1, <1>3, <1>4 DEF OrderInv, AnsweredByRules

\* What there is to prove of a list that goes on, about the rule at t.
LEMMA AppliedKeepsOrder ==
  ASSUME IInv, OrderInv, list = "open", NEW t \in left, FirstLeft(t), Applied(t),
         UNCHANGED <<rs, facts, rules>>
  PROVE  AppliedInOrder' /\ ClosedByLast'
<1>1. PICK n \in Nat : n = Len(applied)
  BY AppliedIsList
<1>2. applied \in Seq(DOMAIN rules) /\ t \in DOMAIN rules /\ t \in Matching(rules, facts)
  BY DEF IInv, RulesAccountedFor, Applied, Matching
<1>3. /\ applied' = Append(applied, t)
      /\ Len(applied') = n + 1 /\ applied'[n + 1] = t
      /\ \A k \in 1..n : applied'[k] = applied[k]
  BY <1>1, <1>2, AppendProperties DEF Applied
<1>4. \A k \in 1..(n + 1) : k = n + 1 \/ k \in 1..n
  OBVIOUS
<1>5. Matching(rules, facts)' = Matching(rules, facts) /\ Engine!Mode' = Engine!Mode
  BY DEF Engine!Mode, Engine!ruleSetMode
<1>6. /\ \A k \in 1..n : applied[k] \in Matching(rules, facts) /\ applied[k] \notin left
      /\ \A j, k \in 1..n : j < k =>
            applied[j] # applied[k] /\ ~Precedes(rules[applied[k]], rules[applied[j]])
      /\ \A k \in 1..n : \A i \in left : ~Precedes(rules[i], rules[applied[k]])
  BY <1>1, AppliedIsList DEF OrderInv, AppliedInOrder, IInv, RulesAccountedFor
<1>7. \A k \in 1..(n + 1) : applied'[k] \in Matching(rules, facts)
  BY <1>2, <1>3, <1>4, <1>6
<1>8. ASSUME NEW j \in 1..(n + 1), NEW k \in 1..(n + 1), j < k
      PROVE  applied'[j] # applied'[k] /\ ~Precedes(rules[applied'[k]], rules[applied'[j]])
  <2>1. j \in 1..n
    BY <1>8
  <2>2. CASE k = n + 1
    BY <1>3, <1>6, <2>1, <2>2
  <2>3. CASE k \in 1..n
    BY <1>3, <1>6, <1>8, <2>1, <2>3
  <2> QED
    BY <1>4, <2>2, <2>3
<1>9. ASSUME NEW k \in 1..(n + 1), NEW i \in left'
      PROVE  ~Precedes(rules[i], rules[applied'[k]])
  <2>1. i \in left /\ ~Precedes(rules[i], rules[t])
    BY DEF Applied, FirstLeft
  <2> QED
    BY <1>3, <1>4, <1>6, <2>1
<1>10. ResultOf(rules, applied, res)'
  <2>1. ResultOf(rules, applied, res)
    BY DEF OrderInv, AppliedInOrder
  <2>2. applied' = Append(applied, t) /\ res' = Engine!applyMatchedRule(res, rules[t])
    BY DEF Applied
  <2>3. ResultOf(rules, applied', res')
    BY <1>2, <2>1, <2>2, ToldOneMore
  <2> QED
    BY <2>3
<1>11. AppliedInOrder'
  BY <1>3, <1>5, <1>7, <1>8, <1>9, <1>10 DEF AppliedInOrder
<1>12. ASSUME list' = "closed"
       PROVE  ClosedByLast'
  <2>1. EndsList(Engine!Mode, rules[t])
    BY <1>12 DEF Applied
  <2>2. \A k \in 1..n : ~EndsList(Engine!Mode, rules[applied[k]])
    BY <1>1, AppliedIsList DEF IInv, EndedByLast
  <2>3. \A k \in 1..(n + 1) : k # n + 1 => ~EndsList(Engine!Mode, rules[applied'[k]])
    BY <1>3, <1>4, <2>2
  <2>4. ASSUME NEW i \in Matching(rules, facts)
        PROVE  \/ \E k \in 1..(n + 1) : applied'[k] = i
               \/ i \in left' /\ n + 1 # 0 /\ EndsList(Engine!Mode, rules[applied'[n + 1]])
    <3>1. i \in left \/ \E k \in 1..n : applied[k] = i
      BY <1>1, AppliedIsList DEF IInv, RulesAccountedFor
    <3>2. CASE i \in left /\ i # t
      BY <1>3, <2>1, <3>2 DEF Applied
    <3>3. CASE i = t
      BY <1>3, <3>3
    <3>4. CASE \E k \in 1..n : applied[k] = i
      BY <1>3, <3>4
    <3> QED
      BY <3>1, <3>2, <3>3, <3>4
  <2> QED
    BY <1>3, <1>5, <2>3, <2>4 DEF ClosedByLast
<1> QED
  BY <1>11, <1>12 DEF ClosedByLast

\* Lists stay in order.
LEMMA OrderStays ==
  ASSUME IInv, OrderInv, Kept \/ AskedInVain \/ Begun \/ Proceeded
  PROVE  OrderInv'
<1>1. list \in {"open", "closed", "failed"} /\ AppliedInOrder /\ ClosedByLast
  BY DEF OrderInv
<1>2. CASE Kept
  <2>1. Engine!Mode' = Engine!Mode
    BY <1>2 DEF Kept, Engine!Mode, Engine!ruleSetMode
  <2> QED
    BY <1>1, <1>2, <2>1 DEF Kept, OrderInv, AppliedInOrder, ClosedByLast
<1>3. CASE AskedInVain
  <2>1. UNCHANGED <<rs, rules, left, applied, list, res>> /\ rules = <<>>
    BY <1>3 DEF AskedInVain
  <2>2. Matching(rules, facts)' = {} /\ 1..Len(applied) = {}
    <3>1. DOMAIN rules = {}
      BY <2>1
    <3> QED
      BY <2>1, <3>1, AppliedIsList DEF Matching
  <2> QED
    BY <1>1, <2>1, <2>2 DEF OrderInv, AppliedInOrder, ClosedByLast
<1>4. CASE Begun
  <2>1. list' = "open" /\ applied' = <<>> /\ res' = Engine!NoResult
    BY <1>4 DEF Begun
  <2>2. Len(applied') = 0
    BY <2>1
  <2>3. ResultOf(rules, applied, res)'
    BY <2>1, NothingTold
  <2> QED
    BY <2>1, <2>2, <2>3 DEF OrderInv, AppliedInOrder, ClosedByLast
<1>5. CASE Proceeded
  <2>1. list = "open" /\ UNCHANGED <<rs, facts, rules>>
    BY <1>5 DEF Proceeded
  <2>2. Matching(rules, facts)' = Matching(rules, facts) /\ Engine!Mode' = Engine!Mode
    BY <2>1 DEF Engine!Mode, Engine!ruleSetMode
  <2>3. CASE Ended
    <3>1. list' = "closed" /\ left = {} /\ UNCHANGED <<left, applied, res>>
      BY <2>3 DEF Ended
    <3>2. \A i \in Matching(rules, facts) : \E k \in 1..Len(applied) : applied[k] = i
      BY <2>1, <3>1, AppliedIsList DEF IInv, RulesAccountedFor
    <3>3. \A k \in 1..Len(applied) : ~EndsList(Engine!Mode, rules[applied[k]])
      BY <2>1, AppliedIsList DEF IInv, EndedByLast
    <3>4. AppliedInOrder'
      BY <1>1, <2>1, <2>2, <3>1 DEF AppliedInOrder
    <3>5. ClosedByLast'
      BY <2>1, <2>2, <3>1, <3>2, <3>3 DEF ClosedByLast
    <3> QED
      BY <3>1, <3>4, <3>5 DEF OrderInv
  <2>4. CASE list' = "failed"
    BY <2>4 DEF OrderInv, AppliedInOrder, ClosedByLast
  <2>5. ASSUME NEW t \in left, PassedOver(t)
        PROVE  OrderInv'
    <3>1. list' = "open" /\ UNCHANGED <<applied, res>> /\ left' \subseteq left
      BY <2>1, <2>5 DEF PassedOver
    <3>2. AppliedInOrder'
      BY <1>1, <2>1, <2>2, <3>1 DEF AppliedInOrder
    <3> QED
      BY <3>1, <3>2 DEF OrderInv, ClosedByLast
  <2>6. ASSUME NEW t \in left, FirstLeft(t), Applied(t)
        PROVE  OrderInv'
    <3>1. AppliedInOrder' /\ ClosedByLast'
      BY <2>1, <2>6, AppliedKeepsOrder
    <3>2. list' \in {"open", "closed"}
      BY <2>6 DEF Applied
    <3> QED
      BY <3>1, <3>2 DEF OrderInv
  <2> QED
    BY <1>5, <2>3, <2>4, <2>5, <2>6 DEF Proceeded, Failed, FailedAt
<1> QED
  BY <1>2, <1>3, <1>4, <1>5

\* The answer stays that of the rules.
LEMMA AnswerStays ==
  ASSUME IInv, OrderInv, AnsweredByRules, [Next]_vars
  PROVE  AnsweredByRules'
<1> USE DEF AnsweredByRules
<1>1. CASE UNCHANGED engineVars
  BY <1>1 DEF engineVars
<1>2. CASE Load \/ ContextEnds \/ AddAnother
  BY <1>2 DEF Load, ContextEnds, AddAnother, Engine!AddRuleSet, Engine!Cancel,
              Engine!callVars, Engine!listVars
<1>3. CASE AskEngine
  BY <1>3 DEF AskEngine, Engine!Evaluate, Engine!BeginList
<1>4. CASE Engine!EvalRules
  <2>1. at \in {"top", "inStage"} /\ UNCHANGED <<rs, at>>
    BY <1>4 DEF Engine!EvalRules, Engine!callVars
  <2>2. UNCHANGED rules
    BY <1>4, EvalRulesProceeds DEF Proceeded
  <2> QED
    BY <2>1, <2>2
<1>5. CASE Engine!RulesReturn
  <2>1. /\ at = "top" /\ list # "open" /\ answer' = res /\ err' = (list = "failed")
        /\ at' = IF list = "failed" THEN "returned" ELSE "between"
        /\ UNCHANGED <<rs, rules, list, res>>
    BY <1>5 DEF Engine!RulesReturn, Engine!callVars, Engine!listVars
  <2>2. CASE list = "failed"
    BY <2>1, <2>2
  <2>3. CASE list = "closed"
    BY <2>1, <2>3
  <2> QED
    BY <2>1, <2>2, <2>3 DEF OrderInv
<1>6. CASE Engine!Return
  BY <1>6 DEF Engine!Return, Engine!callVars, Engine!listVars
<1>7. CASE Engine!EvalWorkflow
  <2>1. at' \in {"stage", "inStage", "returned", "between"} /\ UNCHANGED rs
    BY <1>7 DEF Engine!EvalWorkflow, Engine!StartWorkflow, Engine!EnterStage,
                Engine!LeaveStage, Engine!StageFails, Engine!NoSuchStage,
                Engine!EndWorkflow, Engine!callVars
  <2>2. \E w : w \in DOMAIN rs.workflows
    <3>1. CASE Engine!StartWorkflow
      BY <3>1 DEF Engine!StartWorkflow, IInv, FromRuleSets
    <3>2. CASE at \in {"stage", "inStage"}
      BY <3>2 DEF IInv, FromRuleSets
    <3> QED
      BY <1>7, <3>1, <3>2 DEF Engine!EvalWorkflow, Engine!EnterStage, Engine!LeaveStage,
                Engine!StageFails, Engine!NoSuchStage, Engine!EndWorkflow
  <2>3. rs'.workflows # <<>>
    BY <2>1, <2>2
  <2> QED
    BY <2>1, <2>3
<1>8. CASE EngineProceeds
  BY <1>4, <1>5, <1>6, <1>7, <1>8 DEF EngineProceeds, Engine!Proceed
<1>9. CASE AskRuntime \/ RuntimeProceeds \/ ReloadAnother
  BY <1>1, <1>9 DEF AskRuntime, RuntimeProceeds, ReloadAnother
<1> QED
  BY <1>1, <1>2, <1>3, <1>8, <1>9 DEF Next, vars

-----------------------------------------------------------------------------
\* What the runtime does with the rules that the engine applied.

\* The enabled rules of a rule set, as CompileRuleSet writes them.
AsWritten(p) ==
  /\ p.source \in RuleSets \cup {NoRuleSet}
  /\ DOMAIN p.rules = {i \in DOMAIN p.source.rules : p.source.rules[i].enabled}
  /\ \E names : \A i \in DOMAIN p.rules :
        p.rules[i] = Runtime!compileBytecodeRule(names, p.source.rules[i])

ProgramsAsWritten == \A p \in engine \cup {program} : AsWritten(p)

\* Any rule set is written in this way.
LEMMA WrittenOnes ==
  ASSUME NEW names, NEW set \in RuleSets, NEW option
  PROVE  AsWritten(Runtime!CompileRuleSet(names, set, option))
<1>1. PICK p : p = Runtime!CompileRuleSet(names, set, option)
  OBVIOUS
<1>2. /\ p.source = set
      /\ DOMAIN p.rules = {i \in DOMAIN set.rules : set.rules[i].enabled}
      /\ \A i \in DOMAIN p.rules : p.rules[i] = Runtime!compileBytecodeRule(names, set.rules[i])
  BY <1>1 DEF Runtime!CompileRuleSet
<1>3. AsWritten(p)
  BY <1>2 DEF AsWritten
<1> QED
  BY <1>1, <1>3

\* There is no program before the first rule set.
LEMMA InitWritten == Init => ProgramsAsWritten
<1> SUFFICES ASSUME Init
             PROVE  ProgramsAsWritten
  OBVIOUS
<1>1. engine = {} /\ program.source = NoRuleSet /\ program.rules = <<>>
  BY DEF Init, Runtime!Init, Runtime!NoProgram, Runtime!NoRuleSet, NoRuleSet
<1>2. NoRuleSet.rules = <<>>
  BY DEF NoRuleSet
<1>3. AsWritten(program)
  BY <1>1, <1>2 DEF AsWritten
<1> QED
  BY <1>1, <1>3 DEF ProgramsAsWritten

\* A program stays as it was written, whatever is loaded next.
LEMMA WrittenStay ==
  ASSUME ProgramsAsWritten, [Next]_vars
  PROVE  ProgramsAsWritten'
<1> USE DEF ProgramsAsWritten
<1>1. CASE UNCHANGED <<engine, program>>
  BY <1>1 DEF AsWritten
<1>2. CASE Load \/ ReloadAnother
  <2>1. PICK set \in RuleSets : \E option : Runtime!Reload(set, option)
    BY <1>2, ReplacementsAssumption DEF Load, ReloadAnother
  <2>2. PICK option : Runtime!Reload(set, option)
    BY <2>1
  <2>3. engine' = {Runtime!CompileRuleSet(actionVals', set, option)} /\ UNCHANGED program
    BY <2>2 DEF Runtime!Reload
  <2>4. AsWritten(Runtime!CompileRuleSet(actionVals', set, option))
    BY WrittenOnes
  <2>5. \A p \in engine' \cup {program'} : AsWritten(p)
    BY <2>3, <2>4
  <2> QED
    BY <2>5
<1>3. CASE AskRuntime
  <2>1. UNCHANGED engine /\ program' \in engine \cup {program}
    BY <1>3 DEF AskRuntime, Runtime!Evaluate
  <2>2. \A p \in engine' \cup {program'} : AsWritten(p)
    BY <2>1
  <2> QED
    BY <2>2
<1>4. CASE RuntimeProceeds
  <2>1. UNCHANGED <<engine, program>>
    BY <1>4 DEF RuntimeProceeds, Runtime!Proceed, Runtime!NextRule, Runtime!Execute,
                Runtime!Reject, Runtime!ApplyRule, Runtime!Return
  <2> QED
    BY <1>1, <2>1
<1>5. CASE AskEngine \/ EngineProceeds \/ ContextEnds \/ AddAnother \/ UNCHANGED vars
  BY <1>1, <1>5
     DEF AskEngine, EngineProceeds, ContextEnds, AddAnother, runtimeVars, vars
<1> QED
  BY <1>2, <1>3, <1>4, <1>5 DEF Next

-----------------------------------------------------------------------------
\* A rule that is compiled, against the rule it was compiled from.

\* The runtime's order of rules is that of RuleSets, where it leaves no ties.
LEMMA RuntimeOrder ==
  \A r, s : Runtime!Precedes(r, s) <=> Precedes(r, s)
  BY DEF Runtime!Precedes, Precedes

\* The actions of a rule, compiled with some numbers for their names.
ActionsOf(e, r) == \E names : e.actions = Runtime!compileActions(names, r)

\* What a rule of the program at i is, when its rule set is the engine's.
LEMMA RuleOfProgram ==
  ASSUME ProgramsAsWritten, NEW i \in DOMAIN program.rules, NEW r, r = program.source.rules[i]
  PROVE  /\ i \in DOMAIN program.source.rules /\ r.enabled
         /\ program.rules[i].valid = r.valid
         /\ program.rules[i].keys = Runtime!firstEqualityIndex[r.condition]
         /\ program.rules[i].id = r.id /\ program.rules[i].decision = r.decision
         /\ program.rules[i].priority = r.priority /\ program.rules[i].salience = r.salience
         /\ ActionsOf(program.rules[i], r)
<1>1. AsWritten(program)
  BY DEF ProgramsAsWritten
<1>2. PICK names : program.rules[i] = Runtime!compileBytecodeRule(names, r)
  BY <1>1 DEF AsWritten
<1>3. i \in DOMAIN program.source.rules /\ r.enabled
  BY <1>1 DEF AsWritten
<1> QED
  BY <1>2, <1>3 DEF Runtime!compileBytecodeRule, ActionsOf

-----------------------------------------------------------------------------
\* What of a result of the engine the runtime reports too.
Reported(x) ==
  [matched |-> x.matched, ids |-> x.ids, allowed |-> x.allowed, decision |-> x.decision]

\* What the runtime makes of a result o with the compiled rule e.
WithRule(o, e) ==
  [matched  |-> TRUE,
   ids      |-> Append(o.ids, e.id),
   allowed  |-> Runtime!AllowedBy(e.actions, o.allowed),
   decision |-> IF e.decision = "" THEN o.decision ELSE e.decision]

\* A rule that was compiled, and says what it said.
IsCompiled(e, r) == e.id = r.id /\ e.decision = r.decision /\ ActionsOf(e, r)

\* What is compiled says what the rule says.
LEMMA CompiledWords ==
  ASSUME NEW r, Len(r.actions) \in Nat, DOMAIN r.actions = 1..Len(r.actions), KnownWords(r),
         NEW e, IsCompiled(e, r)
  PROVE  SaysTheSame(e.actions, r)
<1>1. PICK names : e.actions = Runtime!compileActions(names, r)
  BY DEF IsCompiled, ActionsOf
<1>2. PICK code : code = e.actions
  OBVIOUS
<1>3. SaysTheSame(code, r)
  BY <1>1, <1>2, WordsCompile
<1> QED
  BY <1>2, <1>3

\* It ends the list that the rule ends.
LEMMA EndsAlike ==
  ASSUME NEW r, ~r.stop, r.next = "", NEW e, SaysTheSame(e.actions, r), NEW m
  PROVE  Runtime!EndsScan(m, e) <=> EndsList(m, r)
<1>1. /\ Runtime!Contains(e.actions, Runtime!ActionDeny) <=> ruleDenies(r)
      /\ Runtime!Contains(e.actions, Runtime!ActionAllow) <=> ruleAllows(r)
  BY DEF SaysTheSame, Runtime!Contains
<1>2. EndsList(m, r) <=> shouldStopForMode(m, r)
  BY DEF EndsList
<1> QED
  BY <1>1, <1>2 DEF Runtime!EndsScan, shouldStopForMode

\* It adds to a result what the rule adds.
LEMMA AppliedAlike ==
  ASSUME NEW r, NEW e, IsCompiled(e, r), SaysTheSame(e.actions, r), NEW x
  PROVE  WithRule(Reported(x), e) = Reported(Engine!applyMatchedRule(x, r))
<1>1. PICK o : o = Reported(x)
  OBVIOUS
<1>2. o.ids = x.ids /\ o.allowed = x.allowed /\ o.decision = x.decision
  BY <1>1 DEF Reported
<1>3. Runtime!AllowedBy(e.actions, o.allowed) = Engine!LastWord(Engine!Words(r), x.allowed)
  <2>1. Runtime!AllowedBy(e.actions, o.allowed) \in BOOLEAN
    BY DEF Runtime!AllowedBy
  <2>2. Engine!LastWord(Engine!Words(r), x.allowed) \in BOOLEAN
    BY DEF Engine!LastWord
  <2>3. Runtime!AllowedBy(e.actions, o.allowed) <=> Engine!LastWord(Engine!Words(r), x.allowed)
    BY <1>2 DEF SaysTheSame
  <2> QED
    BY <2>1, <2>2, <2>3
<1>4. PICK y : y = Engine!applyMatchedRule(x, r)
  OBVIOUS
<1>5. /\ y.matched = TRUE /\ y.ids = Append(x.ids, r.id)
      /\ y.allowed = Engine!LastWord(Engine!Words(r), x.allowed)
      /\ y.decision = IF r.decision = "" THEN x.decision ELSE r.decision
  BY <1>4 DEF Engine!applyMatchedRule
<1>6. WithRule(o, e) = Reported(y)
  BY <1>2, <1>3, <1>5 DEF Reported, WithRule, IsCompiled
<1> QED
  BY <1>1, <1>4, <1>6

-----------------------------------------------------------------------------
\* The engine has answered, about a rule set that the runtime has too, in one mode, and
\* that both support, with conditions that are portable.
AskedAlike ==
  /\ ~err /\ program.source = rs /\ program.mode = Engine!Mode /\ Supported(rs)
  /\ \A i \in DOMAIN rs.rules : Portable(facts)[rs.rules[i].condition]

\* The rules that the runtime has not decided on yet.
Pending == candidates \cup {i \in {current} : run = "execute"}

\* The runtime has applied the first n of the rules that the engine applied, and has
\* the others before it.
Follows(T, n) ==
  /\ Told(T, rules, applied) /\ T[Len(applied)] = res
  /\ out = Reported(T[n])
  /\ \A k \in 1..Len(applied) : applied[k] \in Pending <=> k > n
  /\ n # 0 => ~EndsList(Engine!Mode, rules[applied[n]])

\* It is asked what the engine has answered, takes the foremost rule first, and follows
\* the engine until it returns.
RuntimeAsked == run # "idle" => at = "returned" /\ typedFacts = facts
CurrentIsForemost ==
  run = "execute" =>
    /\ current \in DOMAIN program.rules /\ program.rules[current].valid
    /\ current \notin candidates
    /\ \A j \in candidates : ~Precedes(program.rules[j], program.rules[current])
FollowsEngine ==
  run \in {"scan", "execute"} /\ AskedAlike => \E n \in 0..Len(applied) : \E T : Follows(T, n)
SameAnswer == run = "returned" /\ engine # {} /\ AskedAlike => out = Reported(res)

RuntimeInv == RuntimeAsked /\ CurrentIsForemost /\ FollowsEngine /\ SameAnswer

BothInv ==
  IInv /\ OrderInv /\ AnsweredByRules /\ MachineInv /\ ProgramsAsWritten /\ RuntimeInv

\* What the engine has answered, when the two can be compared.
LEMMA AnsweredAlike ==
  ASSUME AnsweredByRules, at = "returned", AskedAlike
  PROVE  rules = rs.rules /\ list = "closed" /\ answer = res
  BY DEF AnsweredByRules, AskedAlike, Supported

\* It holds before the first question.
LEMMA InitRuntimeInv == Init => RuntimeInv
  BY DEF Init, Runtime!Init, RuntimeInv, RuntimeAsked, CurrentIsForemost, FollowsEngine,
         SameAnswer

\* A rule that both have, when they can be compared.
LEMMA RuleOfBoth ==
  ASSUME IInv, AnsweredByRules, ProgramsAsWritten, at = "returned", AskedAlike,
         NEW i \in DOMAIN program.rules, NEW r, r = rules[i]
  PROVE  /\ i \in DOMAIN rules /\ r = program.source.rules[i] /\ r.condition \in Conditions
         /\ i \in Matching(rules, facts) <=>
               program.rules[i].valid /\ Native(facts)[r.condition]
         /\ Portable(facts)[r.condition]
         /\ ~r.stop /\ r.next = "" /\ KnownWords(r)
         /\ Len(r.actions) \in Nat /\ DOMAIN r.actions = 1..Len(r.actions)
<1>1. rules = rs.rules /\ program.source = rs /\ Supported(rs)
  BY AnsweredAlike DEF AskedAlike
<1>2. r = program.source.rules[i]
  BY <1>1
<1>3. i \in DOMAIN rules /\ r.enabled /\ program.rules[i].valid = r.valid
  BY <1>1, <1>2, RuleOfProgram
<1>4. /\ r.group.mode = "absent" /\ ~r.stop /\ r.next = ""
      /\ \A k \in DOMAIN r.actions :
            \E n \in DOMAIN Runtime!KnownActions : Runtime!KnownActions[n] = r.actions[k].type
  BY <1>1, <1>3 DEF Supported
<1>5. IsRuleList(rules)
  BY DEF IInv, FromRuleSets
<1>6. /\ r.condition \in Conditions
      /\ Len(r.actions) \in Nat /\ DOMAIN r.actions = 1..Len(r.actions)
  <2>1. r.condition \in Conditions
    BY <1>3, <1>5 DEF IsRuleList
  <2>2. Len(r.actions) \in Nat /\ DOMAIN r.actions = 1..Len(r.actions)
    BY <1>3, <1>5, RuleListFacts
  <2> QED
    BY <2>1, <2>2
<1>7. i \in Matching(rules, facts) <=> r.valid /\ Native(facts)[r.condition]
  <2>1. evalGroup(r.group, facts)
    BY <1>4 DEF evalGroup
  <2> QED
    BY <1>3, <2>1 DEF Matching, RuleMatches, ConditionHolds, Active
<1>8. Portable(facts)[r.condition]
  BY <1>1, <1>3 DEF AskedAlike
<1> QED
  BY <1>2, <1>3, <1>4, <1>6, <1>7, <1>8 DEF KnownWords, Known

\* Either of two rules precedes the other, when they can be compared.
LEMMA NoTies ==
  ASSUME AnsweredByRules, at = "returned", AskedAlike,
         NEW i \in DOMAIN rules, NEW j \in DOMAIN rules, i # j
  PROVE  Precedes(rules[i], rules[j]) \/ Precedes(rules[j], rules[i])
<1>1. rules = rs.rules /\ Supported(rs)
  BY AnsweredAlike DEF AskedAlike
<1> QED
  BY <1>1 DEF Supported

\* The index misses no rule that matches.
LEMMA NoneMissed ==
  ASSUME IInv, MachineInv, AnsweredByRules, at = "returned",
         NEW p \in engine, AsWritten(p), p.source = rs, ~err, Supported(rs),
         \A i \in DOMAIN rs.rules : Portable(facts)[rs.rules[i].condition],
         NEW i \in Matching(rules, facts)
  PROVE  i \in Runtime!Candidates(p, facts)
<1>1. rules = rs.rules
  BY DEF AnsweredByRules, Supported
<1>2. PICK r : r = rules[i]
  OBVIOUS
<1>3. i \in DOMAIN rules /\ r.enabled /\ Native(facts)[r.condition]
  BY <1>2 DEF Matching, RuleMatches, ConditionHolds, Active
<1>4. IndexIsNecessary[r.condition] /\ Portable(facts)[r.condition]
  BY <1>1, <1>2, <1>3 DEF Supported
<1>5. r.condition \in Conditions /\ facts \in Facts
  BY <1>2, <1>3 DEF IInv, FromRuleSets, IsRuleList, MachineInv, AskedAboutFacts
<1>6. i \in DOMAIN p.rules /\ p.rules[i].keys = Runtime!firstEqualityIndex[r.condition]
  <2>1. i \in DOMAIN p.rules
    BY <1>1, <1>2, <1>3 DEF AsWritten
  <2>2. PICK names : p.rules[i] = Runtime!compileBytecodeRule(names, r)
    BY <1>1, <1>2, <2>1 DEF AsWritten
  <2> QED
    BY <2>1, <2>2 DEF Runtime!compileBytecodeRule
<1>7. \A key \in p.rules[i].keys : Runtime!typedFactEqualsKey(facts, key)
  BY <1>3, <1>4, <1>5, <1>6, AlwaysFoundByKey DEF FoundByKey
<1> QED
  BY <1>6, <1>7 DEF Runtime!Candidates

-----------------------------------------------------------------------------
\* Each step of the runtime, while it follows the engine.

\* The engine's answer stands while the runtime works on the question.
LEMMA EngineStands ==
  ASSUME RuntimeAsked, run # "idle", [Next]_vars
  PROVE  UNCHANGED engineVars /\ UNCHANGED <<program, typedFacts>>
<1>1. at = "returned"
  BY DEF RuntimeAsked
<1>2. CASE Load \/ AskEngine \/ ContextEnds \/ AddAnother \/ AskRuntime
  BY <1>1, <1>2 DEF Load, AskEngine, ContextEnds, Engine!Cancel, AddAnother, AskRuntime
<1>3. CASE EngineProceeds
  BY <1>1, <1>3
     DEF EngineProceeds, Engine!Proceed, Engine!EvalRules, Engine!RulesReturn, Engine!Return,
         Engine!EvalWorkflow, Engine!StartWorkflow, Engine!EnterStage, Engine!LeaveStage,
         Engine!StageFails, Engine!NoSuchStage, Engine!EndWorkflow
<1>4. CASE RuntimeProceeds
  BY <1>4 DEF RuntimeProceeds, Runtime!Proceed, Runtime!NextRule, Runtime!Execute,
              Runtime!Reject, Runtime!ApplyRule, Runtime!Return
<1>5. CASE ReloadAnother
  BY <1>5 DEF ReloadAnother, Runtime!Reload
<1>6. CASE UNCHANGED vars
  BY <1>6 DEF vars, runtimeVars
<1> QED
  BY <1>2, <1>3, <1>4, <1>5, <1>6 DEF Next

\* What the engine did is what it did before.
LEMMA NothingElseMoves ==
  ASSUME UNCHANGED engineVars, UNCHANGED <<program, typedFacts>>
  PROVE  /\ UNCHANGED <<at, err, rs, facts, rules, applied, list, res>>
         /\ AskedAlike' <=> AskedAlike
         /\ Engine!Mode' = Engine!Mode
<1>1. UNCHANGED <<at, err, rs, facts, rules, applied, list, res>>
  BY DEF engineVars
<1>2. Engine!Mode' = Engine!Mode
  BY <1>1 DEF Engine!Mode, Engine!ruleSetMode
<1>3. AskedAlike' <=> AskedAlike
  BY <1>1, <1>2 DEF AskedAlike
<1> QED
  BY <1>1, <1>2, <1>3

\* With the same rules before it and the same result the runtime follows as it did.
LEMMA FollowsOn ==
  ASSUME UNCHANGED engineVars, UNCHANGED <<program, typedFacts>>, UNCHANGED out,
         NEW n \in 0..Len(applied), NEW T, Follows(T, n),
         \A k \in 1..Len(applied) : applied[k] \in Pending' <=> applied[k] \in Pending
  PROVE  FollowsEngine'
<1>1. /\ UNCHANGED <<rules, applied, res>> /\ Engine!Mode' = Engine!Mode
  BY NothingElseMoves
<1>2. Told(T, rules, applied)'
  BY <1>1 DEF Follows, Told
<1>3. Follows(T, n)'
  BY <1>1, <1>2 DEF Follows
<1> QED
  BY <1>1, <1>3 DEF FollowsEngine

\* At first nothing is applied, and everything the engine applied is a candidate.
LEMMA FollowsFromTheStart ==
  ASSUME BothInv, AskRuntime
  PROVE  RuntimeInv'
<1>1. /\ run = "idle" /\ at = "returned" /\ UNCHANGED <<engineVars, engine>>
      /\ Runtime!Evaluate(facts)
  BY DEF AskRuntime, Runtime!Evaluate
<1>2. UNCHANGED <<at, err, rs, facts, rules, applied, list, res>> /\ Engine!Mode' = Engine!Mode
  BY <1>1 DEF engineVars, Engine!Mode, Engine!ruleSetMode
<1>3. typedFacts' = facts /\ out' = Runtime!NoResult /\ run' \in {"returned", "scan"}
  BY <1>1 DEF Runtime!Evaluate
<1>4. RuntimeAsked' /\ CurrentIsForemost'
  BY <1>1, <1>2, <1>3 DEF RuntimeAsked, CurrentIsForemost
<1>5. CASE engine = {} /\ run' = "returned"
  BY <1>1, <1>4, <1>5 DEF RuntimeInv, FollowsEngine, SameAnswer
<1>6. ASSUME NEW p \in engine, program' = p, candidates' = Runtime!Candidates(p, facts),
             run' = "scan"
      PROVE  RuntimeInv'
  <2>1. ASSUME AskedAlike'
        PROVE  \E n \in 0..Len(applied) : \E T : Follows(T, n)'
    <3>1. /\ ~err /\ p.source = rs /\ Supported(rs)
          /\ \A i \in DOMAIN rs.rules : Portable(facts)[rs.rules[i].condition]
      BY <1>2, <1>6, <2>1 DEF AskedAlike
    <3>2. AsWritten(p)
      BY DEF BothInv, ProgramsAsWritten
    <3>3. \A i \in Matching(rules, facts) : i \in candidates'
      BY <1>1, <1>6, <3>1, <3>2, NoneMissed DEF BothInv
    <3>4. list = "closed"
      BY <1>1, <3>1 DEF BothInv, AnsweredByRules, Supported
    <3>5. /\ \A k \in 1..Len(applied) : applied[k] \in Matching(rules, facts)
          /\ ResultOf(rules, applied, res)
      BY <3>4 DEF BothInv, OrderInv, AppliedInOrder
    <3>6. PICK T : Told(T, rules, applied) /\ T[Len(applied)] = res
      BY <3>5 DEF ResultOf
    <3>7. out' = Reported(T[0])
      <4>1. Reported(Engine!NoResult) = Runtime!NoResult
        BY DEF Engine!NoResult, Runtime!NoResult, Reported
      <4>2. T[0] = Engine!NoResult
        BY <3>6 DEF Told
      <4> QED
        BY <1>3, <4>1, <4>2
    <3>8. \A k \in 1..Len(applied) : applied[k] \in Pending' /\ k > 0
      BY <3>3, <3>5 DEF Pending
    <3>9. Told(T, rules, applied)'
      BY <1>2, <3>6 DEF Told
    <3>10. Follows(T, 0)'
      BY <1>2, <3>6, <3>7, <3>8, <3>9 DEF Follows
    <3>11. 0 \in 0..Len(applied)
      BY AppliedIsList DEF BothInv
    <3> QED
      BY <3>10, <3>11
  <2> QED
    BY <1>2, <1>4, <1>6, <2>1 DEF RuntimeInv, FollowsEngine, SameAnswer
<1> QED
  BY <1>1, <1>5, <1>6 DEF Runtime!Evaluate

\* The next rule is one that may be executed, or has not matched.
LEMMA FollowsToNextRule ==
  ASSUME BothInv, RuntimeProceeds, Runtime!NextRule
  PROVE  RuntimeInv'
<1>1. /\ run = "scan" /\ candidates # {} /\ candidates' = candidates \ {Runtime!Turn}
      /\ UNCHANGED engineVars /\ UNCHANGED <<program, typedFacts>> /\ UNCHANGED out
  BY DEF RuntimeProceeds, Runtime!NextRule
<1>2. PICK t : t = Runtime!Turn
  OBVIOUS
<1>3. /\ t \in candidates /\ t \in DOMAIN program.rules
      /\ \A j \in candidates : ~Precedes(program.rules[j], program.rules[t])
  BY <1>1, <1>2, TurnIsCandidate, RuntimeOrder DEF BothInv, MachineInv, ProgramsCompiled
<1>4. UNCHANGED <<at, err, rs, facts, rules, applied, list, res>> /\ (AskedAlike' <=> AskedAlike)
  BY <1>1, NothingElseMoves
<1>5. at = "returned" /\ typedFacts = facts
  BY <1>1 DEF BothInv, RuntimeInv, RuntimeAsked
<1>6. CASE program.rules[t].valid /\ run' = "execute" /\ current' = t
  <2>1. CurrentIsForemost' /\ RuntimeAsked'
    BY <1>1, <1>2, <1>3, <1>4, <1>5, <1>6 DEF CurrentIsForemost, RuntimeAsked
  <2>2. ASSUME AskedAlike
        PROVE  FollowsEngine'
    <3>1. PICK n \in 0..Len(applied) : \E T : Follows(T, n)
      BY <1>1, <2>2 DEF BothInv, RuntimeInv, FollowsEngine
    <3>2. PICK T : Follows(T, n)
      BY <3>1
    <3>3. Pending' = Pending
      BY <1>1, <1>2, <1>3, <1>6 DEF Pending
    <3> QED
      BY <1>1, <3>2, <3>3, FollowsOn
  <2> QED
    BY <1>4, <1>6, <2>1, <2>2 DEF RuntimeInv, FollowsEngine, SameAnswer
<1>7. CASE ~program.rules[t].valid /\ UNCHANGED <<run, current>>
  <2>1. CurrentIsForemost' /\ RuntimeAsked'
    BY <1>1, <1>4, <1>5, <1>7 DEF CurrentIsForemost, RuntimeAsked
  <2>2. ASSUME AskedAlike
        PROVE  FollowsEngine'
    <3>1. PICK n \in 0..Len(applied) : \E T : Follows(T, n)
      BY <1>1, <2>2 DEF BothInv, RuntimeInv, FollowsEngine
    <3>2. PICK T : Follows(T, n)
      BY <3>1
    <3>3. t \notin Matching(rules, facts)
      BY <1>3, <1>5, <1>7, <2>2, RuleOfBoth DEF BothInv
    <3>4. \A k \in 1..Len(applied) : applied[k] \in Matching(rules, facts)
      BY <1>5, <2>2, AnsweredAlike DEF BothInv, OrderInv, AppliedInOrder
    <3>5. \A k \in 1..Len(applied) : applied[k] \in Pending' <=> applied[k] \in Pending
      BY <1>1, <1>2, <1>7, <3>3, <3>4 DEF Pending
    <3> QED
      BY <1>1, <3>2, <3>5, FollowsOn
  <2> QED
    BY <1>1, <1>4, <1>7, <2>1, <2>2 DEF RuntimeInv, FollowsEngine, SameAnswer
<1> QED
  BY <1>2, <1>6, <1>7 DEF Runtime!NextRule, Runtime!machineVars

\* The rule that is executed comes next in what the engine applied, if it matches.
LEMMA CurrentIsNext ==
  ASSUME BothInv, run = "execute", AskedAlike, current \in Matching(rules, facts),
         NEW n \in 0..Len(applied), NEW T, Follows(T, n)
  PROVE  n + 1 \in 1..Len(applied) /\ applied[n + 1] = current
<1>1. at = "returned"
  BY DEF BothInv, RuntimeInv, RuntimeAsked
<1>2. /\ current \in DOMAIN program.rules /\ current \notin candidates
      /\ \A j \in candidates : ~Precedes(program.rules[j], program.rules[current])
  BY DEF BothInv, RuntimeInv, CurrentIsForemost
<1>3. PICK m \in Nat : m = Len(applied)
  BY AppliedIsList DEF BothInv
<1>4. list = "closed" /\ rules = program.source.rules
  BY <1>1, AnsweredAlike DEF BothInv, AskedAlike
<1>5. \A k \in 1..m : applied[k] \in DOMAIN rules
  BY <1>3, AppliedIsList DEF BothInv
<1>6. /\ \A j, k \in 1..m : j < k =>
            applied[j] # applied[k] /\ ~Precedes(rules[applied[k]], rules[applied[j]])
      /\ \A k \in 1..m : \A i \in left : ~Precedes(rules[i], rules[applied[k]])
  BY <1>3, <1>4 DEF BothInv, OrderInv, AppliedInOrder
<1>7. \A i \in DOMAIN program.rules :
         /\ i \in DOMAIN rules
         /\ program.rules[i].priority = rules[i].priority
         /\ program.rules[i].salience = rules[i].salience
  BY <1>4, RuleOfProgram DEF BothInv
<1>8. \A j \in candidates : ~Precedes(rules[j], rules[current])
  <2>1. candidates \subseteq DOMAIN program.rules
    BY DEF BothInv, MachineInv, ProgramsCompiled
  <2> QED
    BY <1>2, <1>7, <2>1 DEF Precedes
<1>9. \A k \in 1..m : applied[k] \in Pending <=> k > n
  BY <1>3 DEF Follows
<1>10. ASSUME NEW k \in 1..m, k > n, applied[k] # current
       PROVE  Precedes(rules[current], rules[applied[k]])
  <2>1. applied[k] \in candidates /\ applied[k] \in DOMAIN rules /\ current \in DOMAIN rules
    BY <1>2, <1>5, <1>7, <1>9, <1>10 DEF Pending
  <2>2. ~Precedes(rules[applied[k]], rules[current])
    BY <1>8, <2>1
  <2> QED
    BY <1>1, <1>10, <2>1, <2>2, NoTies DEF BothInv
<1>11. \E k \in 1..m : applied[k] = current
  <2>1. SUFFICES ASSUME current \in left, m # 0, EndsList(Engine!Mode, rules[applied[m]])
                 PROVE  FALSE
    BY <1>3, <1>4 DEF BothInv, OrderInv, ClosedByLast
  <2>2. m \in 1..m
    BY <2>1
  <2>3. applied[m] # current /\ ~Precedes(rules[current], rules[applied[m]])
    BY <1>3, <1>6, <2>1, <2>2, AppliedIsList DEF BothInv, IInv, RulesAccountedFor
  <2>4. ~(m > n)
    BY <1>10, <2>2, <2>3
  <2>5. n = m
    BY <1>3, <2>4
  <2> QED
    BY <2>1, <2>5 DEF Follows
<1>12. PICK k \in 1..m : applied[k] = current
  BY <1>11
<1>13. k > n
  <2>1. current \in Pending
    BY DEF Pending
  <2> QED
    BY <1>9, <1>12, <2>1
<1>14. k = n + 1
  <2>1. SUFFICES ASSUME n + 1 < k
                 PROVE  FALSE
    BY <1>3, <1>13
  <2>2. n + 1 \in 1..m /\ n + 1 > n
    BY <1>3, <1>12, <2>1
  <2>3. applied[n + 1] # current /\ ~Precedes(rules[current], rules[applied[n + 1]])
    BY <1>6, <1>12, <2>1, <2>2
  <2> QED
    BY <1>10, <2>2, <2>3
<1> QED
  BY <1>3, <1>12, <1>14

\* The stack tells whether the rule that is executed matches.
LEMMA StackTellsMatch ==
  ASSUME BothInv, Runtime!Executed, AskedAlike
  PROVE  Runtime!Holds <=> current \in Matching(rules, facts)
<1>1. run = "execute" /\ at = "returned" /\ typedFacts = facts
  BY DEF Runtime!Executed, BothInv, RuntimeInv, RuntimeAsked
<1>2. current \in DOMAIN program.rules /\ program.rules[current].valid
  BY <1>1 DEF BothInv, RuntimeInv, CurrentIsForemost
<1>3. PICK c : c = program.source.rules[current].condition
  OBVIOUS
<1>4. /\ c \in Conditions /\ Portable(facts)[c]
      /\ current \in Matching(rules, facts) <=> Native(facts)[c]
  BY <1>1, <1>2, <1>3, RuleOfBoth DEF BothInv
<1>5. stack = <<Native(facts)[c]>>
  BY <1>1, <1>3, <1>4, MachineMatchesWhereItLeads DEF BothInv, MachineMatchesTree
<1>6. stack # <<>> /\ stack[Len(stack) - 0] = Native(facts)[c]
  BY <1>5
<1> QED
  BY <1>4, <1>6 DEF Runtime!Holds, Runtime!Top

\* A rule that is rejected is none that the engine applied.
LEMMA FollowsPastTheRejected ==
  ASSUME BothInv, RuntimeProceeds, Runtime!Reject
  PROVE  RuntimeInv'
<1>1. /\ run = "execute" /\ run' = "scan" /\ UNCHANGED <<candidates, out>>
      /\ UNCHANGED engineVars /\ UNCHANGED <<program, typedFacts>>
      /\ Runtime!Executed /\ ~Runtime!Holds
  BY DEF RuntimeProceeds, Runtime!Reject, Runtime!Executed
<1>2. UNCHANGED <<at, facts, applied>> /\ (AskedAlike' <=> AskedAlike)
  BY <1>1, NothingElseMoves
<1>3. RuntimeAsked' /\ CurrentIsForemost'
  BY <1>1, <1>2 DEF BothInv, RuntimeInv, RuntimeAsked, CurrentIsForemost
<1>4. ASSUME AskedAlike
      PROVE  FollowsEngine'
  <2>1. PICK n \in 0..Len(applied) : \E T : Follows(T, n)
    BY <1>1, <1>4 DEF BothInv, RuntimeInv, FollowsEngine
  <2>2. PICK T : Follows(T, n)
    BY <2>1
  <2>3. current \notin Matching(rules, facts)
    BY <1>1, <1>4, StackTellsMatch
  <2>4. \A k \in 1..Len(applied) : applied[k] \in Matching(rules, facts)
    BY <1>1, <1>4, AnsweredAlike
       DEF BothInv, RuntimeInv, RuntimeAsked, OrderInv, AppliedInOrder
  <2>5. \A k \in 1..Len(applied) : applied[k] \in Pending' <=> applied[k] \in Pending
    BY <1>1, <2>3, <2>4 DEF Pending
  <2> QED
    BY <1>1, <2>2, <2>5, FollowsOn
<1> QED
  BY <1>1, <1>2, <1>3, <1>4 DEF RuntimeInv, FollowsEngine, SameAnswer

-----------------------------------------------------------------------------
\* The rule that is applied is the engine's next, which it ends with when the engine did.
LEMMA FollowsWithTheApplied ==
  ASSUME BothInv, RuntimeProceeds, Runtime!ApplyRule
  PROVE  RuntimeInv'
<1>1. /\ run = "execute" /\ UNCHANGED candidates
      /\ UNCHANGED engineVars /\ UNCHANGED <<program, typedFacts, current>>
      /\ Runtime!Executed /\ Runtime!Holds
  BY DEF RuntimeProceeds, Runtime!ApplyRule, Runtime!Executed, Runtime!machineVars
<1>2. PICK e : e = program.rules[current]
  OBVIOUS
<1>3. /\ out' = WithRule(out, e)
      /\ run' = IF Runtime!EndsScan(program.mode, e) THEN "returned" ELSE "scan"
  BY <1>2 DEF Runtime!ApplyRule, WithRule
<1>4. /\ UNCHANGED <<at, err, rs, facts, rules, applied, list, res>>
      /\ (AskedAlike' <=> AskedAlike) /\ Engine!Mode' = Engine!Mode
  BY <1>1, NothingElseMoves
<1>5. at = "returned" /\ typedFacts = facts
  BY <1>1 DEF BothInv, RuntimeInv, RuntimeAsked
<1>6. RuntimeAsked' /\ CurrentIsForemost'
  BY <1>1, <1>3, <1>4, <1>5 DEF RuntimeAsked, CurrentIsForemost
<1>7. ASSUME AskedAlike
      PROVE  FollowsEngine' /\ SameAnswer'
  <2>1. PICK n \in 0..Len(applied) : \E T : Follows(T, n)
    BY <1>1, <1>7 DEF BothInv, RuntimeInv, FollowsEngine
  <2>2. PICK T : Follows(T, n)
    BY <2>1
  <2>3. PICK m \in Nat : m = Len(applied)
    BY AppliedIsList DEF BothInv
  <2>4. current \in Matching(rules, facts)
    BY <1>1, <1>7, StackTellsMatch
  <2>5. n + 1 \in 1..m /\ applied[n + 1] = current
    BY <1>1, <1>7, <2>2, <2>3, <2>4, CurrentIsNext
  <2>6. PICK r : r = rules[current]
    OBVIOUS
  <2>7. T[n + 1] = Engine!applyMatchedRule(T[n], r)
    <3>1. T[n + 1] = Engine!applyMatchedRule(T[(n + 1) - 1], rules[applied[n + 1]])
      BY <2>2, <2>3, <2>5 DEF Follows, Told
    <3>2. (n + 1) - 1 = n
      BY <2>1, <2>3
    <3> QED
      BY <2>5, <2>6, <3>1, <3>2
  <2>8. current \in DOMAIN program.rules
    BY <1>1 DEF BothInv, RuntimeInv, CurrentIsForemost
  <2>9. /\ r = program.source.rules[current]
        /\ ~r.stop /\ r.next = "" /\ KnownWords(r)
        /\ Len(r.actions) \in Nat /\ DOMAIN r.actions = 1..Len(r.actions)
    BY <1>5, <1>7, <2>6, <2>8, RuleOfBoth DEF BothInv
  <2>10. /\ e.id = r.id /\ e.decision = r.decision
         /\ ActionsOf(e, r)
    BY <1>2, <2>8, <2>9, RuleOfProgram DEF BothInv
  <2>13. out = Reported(T[n])
    BY <2>2 DEF Follows
  <2>14. /\ out' = Reported(T[n + 1])
         /\ Runtime!EndsScan(program.mode, e) <=> EndsList(program.mode, r)
    <3>1. IsCompiled(e, r)
      BY <2>10 DEF IsCompiled
    <3>2. SaysTheSame(e.actions, r)
      BY <2>9, <3>1, CompiledWords
    <3>3. Runtime!EndsScan(program.mode, e) <=> EndsList(program.mode, r)
      BY <2>9, <3>2, EndsAlike
    <3>4. WithRule(out, e) = Reported(Engine!applyMatchedRule(T[n], r))
      BY <2>13, <3>1, <3>2, AppliedAlike
    <3> QED
      BY <1>3, <2>7, <3>3, <3>4
  <2>15. program.mode = Engine!Mode
    BY <1>7 DEF AskedAlike
  <2>16. CASE EndsList(Engine!Mode, r)
    <3>1. run' = "returned"
      BY <1>3, <2>14, <2>15, <2>16
    <3>2. n + 1 = m
      <4>1. list = "closed"
        BY <1>5, <1>7, AnsweredAlike DEF BothInv
      <4> QED
        BY <2>3, <2>5, <2>6, <2>16, <4>1 DEF BothInv, OrderInv, ClosedByLast
    <3>3. T[n + 1] = res
      BY <2>2, <2>3, <3>2 DEF Follows
    <3> QED
      BY <1>4, <2>14, <3>1, <3>3 DEF FollowsEngine, SameAnswer
  <2>17. CASE ~EndsList(Engine!Mode, r)
    <3>1. run' = "scan"
      BY <1>3, <2>14, <2>15, <2>17
    <3>2. Pending = candidates \cup {current} /\ Pending' = candidates
      BY <1>1, <3>1 DEF Pending
    <3>3. current \notin candidates
      BY <1>1 DEF BothInv, RuntimeInv, CurrentIsForemost
    <3>4. ASSUME NEW k \in 1..m
          PROVE  applied[k] \in Pending' <=> k > n + 1
      <4>1. applied[k] \in Pending <=> k > n
        BY <2>2, <2>3 DEF Follows
      <4>2. k # n + 1 => applied[k] # current
        <5>1. \A i, j \in 1..m : i < j => applied[i] # applied[j]
          BY <1>5, <1>7, <2>3, AnsweredAlike DEF BothInv, OrderInv, AppliedInOrder
        <5>2. k < n + 1 \/ n + 1 < k \/ k = n + 1
          BY <2>5
        <5> QED
          BY <2>5, <5>1, <5>2
      <4>3. k > n + 1 <=> k > n /\ k # n + 1
        BY <2>1, <2>3
      <4> QED
        BY <2>5, <3>2, <3>3, <4>1, <4>2, <4>3
    <3>5. Told(T, rules, applied)'
      BY <1>4, <2>2 DEF Follows, Told
    <3>6. Follows(T, n + 1)'
      BY <1>4, <2>2, <2>3, <2>5, <2>6, <2>14, <2>17, <3>4, <3>5 DEF Follows
    <3>7. n + 1 \in 0..Len(applied)'
      BY <1>4, <2>3, <2>5
    <3> QED
      BY <3>1, <3>6, <3>7 DEF FollowsEngine, SameAnswer
  <2> QED
    BY <2>16, <2>17
<1>8. ASSUME ~AskedAlike
      PROVE  FollowsEngine' /\ SameAnswer'
  BY <1>4, <1>8 DEF FollowsEngine, SameAnswer
<1> QED
  BY <1>6, <1>7, <1>8 DEF RuntimeInv

\* When there is no rule left the engine has applied all it did.
LEMMA FollowsToTheEnd ==
  ASSUME BothInv, RuntimeProceeds, Runtime!Return
  PROVE  RuntimeInv'
<1>1. /\ run = "scan" /\ run' = "returned" /\ candidates = {} /\ UNCHANGED out
      /\ UNCHANGED engineVars /\ UNCHANGED <<program, typedFacts>>
  BY DEF RuntimeProceeds, Runtime!Return
<1>2. /\ UNCHANGED <<at, err, rs, facts, rules, applied, list, res>>
      /\ (AskedAlike' <=> AskedAlike)
  BY <1>1, NothingElseMoves
<1>3. RuntimeAsked' /\ CurrentIsForemost'
  BY <1>1, <1>2 DEF BothInv, RuntimeInv, RuntimeAsked, CurrentIsForemost
<1>4. ASSUME AskedAlike
      PROVE  out = Reported(res)
  <2>1. PICK n \in 0..Len(applied) : \E T : Follows(T, n)
    BY <1>1, <1>4 DEF BothInv, RuntimeInv, FollowsEngine
  <2>2. PICK T : Follows(T, n)
    BY <2>1
  <2>3. PICK m \in Nat : m = Len(applied)
    BY AppliedIsList DEF BothInv
  <2>4. Pending = {}
    BY <1>1 DEF Pending
  <2>5. \A k \in 1..m : ~(k > n)
    BY <2>2, <2>3, <2>4 DEF Follows
  <2>6. n = m
    BY <2>1, <2>3, <2>5
  <2> QED
    BY <2>2, <2>3, <2>6 DEF Follows
<1> QED
  BY <1>1, <1>2, <1>3, <1>4 DEF RuntimeInv, FollowsEngine, SameAnswer

\* The instructions of a rule change nothing else.
LEMMA FollowsWhileExecuting ==
  ASSUME BothInv, RuntimeProceeds, Runtime!Execute, run' # "panic"
  PROVE  RuntimeInv'
<1>1. /\ run = "execute" /\ run' = "execute"
      /\ UNCHANGED <<candidates, current>> /\ UNCHANGED out
      /\ UNCHANGED engineVars /\ UNCHANGED <<program, typedFacts>>
  BY DEF RuntimeProceeds, Runtime!Execute
<1>2. /\ UNCHANGED <<at, facts>> /\ (AskedAlike' <=> AskedAlike)
  BY <1>1, NothingElseMoves
<1>3. RuntimeAsked' /\ CurrentIsForemost'
  BY <1>1, <1>2 DEF BothInv, RuntimeInv, RuntimeAsked, CurrentIsForemost
<1>4. ASSUME AskedAlike
      PROVE  FollowsEngine'
  <2>1. PICK n \in 0..Len(applied) : \E T : Follows(T, n)
    BY <1>1, <1>4 DEF BothInv, RuntimeInv, FollowsEngine
  <2>2. PICK T : Follows(T, n)
    BY <2>1
  <2>3. Pending' = Pending
    BY <1>1 DEF Pending
  <2> QED
    BY <1>1, <2>2, <2>3, FollowsOn
<1> QED
  BY <1>1, <1>2, <1>3, <1>4 DEF RuntimeInv, FollowsEngine, SameAnswer

\* Nor do the loading of other rule sets and what the engine could do.
LEMMA FollowsIdly ==
  ASSUME BothInv, [Next]_vars, run # "idle", ~RuntimeProceeds
  PROVE  RuntimeInv'
<1>1. UNCHANGED engineVars /\ UNCHANGED <<program, typedFacts>>
  BY EngineStands DEF BothInv, RuntimeInv
<1>2. UNCHANGED <<run, candidates, current, out>> /\ (engine' = {} <=> engine = {})
  <2>1. CASE ReloadAnother
    <3>1. PICK set, option : Runtime!Reload(set, option)
      BY <2>1 DEF ReloadAnother
    <3>2. engine' = {Runtime!CompileRuleSet(actionVals', set, option)} /\ engine = {program}
      BY <2>1, <3>1 DEF ReloadAnother, Runtime!Reload
    <3> QED
      BY <3>1, <3>2 DEF Runtime!Reload, Runtime!machineVars
  <2>2. CASE Load \/ AskRuntime
    BY <2>2 DEF Load, AskRuntime, BothInv, RuntimeInv, RuntimeAsked
  <2>3. CASE AskEngine \/ EngineProceeds \/ ContextEnds \/ AddAnother \/ UNCHANGED vars
    BY <2>3
       DEF AskEngine, EngineProceeds, ContextEnds, AddAnother, runtimeVars, vars
  <2> QED
    BY <2>1, <2>2, <2>3 DEF Next
<1>3. /\ UNCHANGED <<at, facts, res>> /\ (AskedAlike' <=> AskedAlike)
  BY <1>1, NothingElseMoves
<1>4. RuntimeAsked' /\ CurrentIsForemost' /\ SameAnswer'
  BY <1>1, <1>2, <1>3
     DEF BothInv, RuntimeInv, RuntimeAsked, CurrentIsForemost, SameAnswer
<1>5. ASSUME AskedAlike, run \in {"scan", "execute"}
      PROVE  FollowsEngine'
  <2>1. PICK n \in 0..Len(applied) : \E T : Follows(T, n)
    BY <1>5 DEF BothInv, RuntimeInv, FollowsEngine
  <2>2. PICK T : Follows(T, n)
    BY <2>1
  <2>3. Pending' = Pending
    BY <1>2 DEF Pending
  <2> QED
    BY <1>1, <1>2, <2>2, <2>3, FollowsOn
<1> QED
  BY <1>2, <1>3, <1>4, <1>5 DEF RuntimeInv, FollowsEngine

\* Before it is asked there is nothing to say of the runtime.
LEMMA NothingAsked ==
  ASSUME run' = "idle"
  PROVE  RuntimeInv'
  BY DEF RuntimeInv, RuntimeAsked, CurrentIsForemost, FollowsEngine, SameAnswer

\* The runtime follows the engine.
LEMMA RuntimeStays ==
  ASSUME BothInv, [Next]_vars
  PROVE  RuntimeInv'
<1>1. CASE AskRuntime
  BY <1>1, FollowsFromTheStart
<1>2. CASE run = "idle" /\ ~AskRuntime
  <2>1. CASE Load \/ ReloadAnother
    BY <1>2, <2>1, NothingAsked DEF Load, ReloadAnother, Runtime!Reload
  <2>2. CASE RuntimeProceeds
    BY <1>2, <2>2
       DEF RuntimeProceeds, Runtime!Proceed, Runtime!NextRule, Runtime!Execute, Runtime!Reject,
           Runtime!ApplyRule, Runtime!Return, Runtime!Executed
  <2>3. CASE AskEngine \/ EngineProceeds \/ ContextEnds \/ AddAnother \/ UNCHANGED vars
    BY <1>2, <2>3, NothingAsked
       DEF AskEngine, EngineProceeds, ContextEnds, AddAnother, runtimeVars, vars
  <2> QED
    BY <1>2, <2>1, <2>2, <2>3 DEF Next
<1>3. CASE RuntimeProceeds
  <2>1. run' # "panic"
    BY WayStays DEF BothInv
  <2> QED
    BY <1>3, <2>1, FollowsToNextRule, FollowsWhileExecuting, FollowsPastTheRejected,
       FollowsWithTheApplied, FollowsToTheEnd DEF RuntimeProceeds, Runtime!Proceed
<1>4. CASE run # "idle" /\ ~RuntimeProceeds
  BY <1>4, FollowsIdly
<1> QED
  BY <1>1, <1>2, <1>3, <1>4

\* So the answers are the same.
LEMMA AgreeInTheEnd == BothInv => Parity
<1> SUFFICES ASSUME BothInv, at = "returned", run = "returned", engine # {}, AskedAlike
             PROVE  out = Reported(answer)
  BY DEF Parity, AskedAlike, Reported
<1>1. answer = res
  BY AnsweredAlike DEF BothInv
<1>2. out = Reported(res)
  BY DEF BothInv, RuntimeInv, SameAnswer
<1> QED
  BY <1>1, <1>2

\* For any rule sets, conditions and facts: about a rule set that both support in one
\* mode the engine and the runtime give the same answer, whatever is loaded meanwhile.
THEOREM EvaluatorsAlwaysAgree == Spec => []Parity
<1>1. Init => BothInv
  BY InitIInv, InitOrderInv, InitMachineInv, InitWritten, InitRuntimeInv DEF BothInv
<1>2. BothInv /\ [Next]_vars => BothInv'
  <2> SUFFICES ASSUME BothInv, [Next]_vars
               PROVE  BothInv'
    OBVIOUS
  <2> USE DEF BothInv
  <2>1. IInv'
    BY StepKinds, FlowStays, AccountsStay, EndsStay DEF IInv
  <2>2. OrderInv'
    BY StepKinds, OrderStays
  <2>3. AnsweredByRules'
    BY AnswerStays
  <2>4. MachineInv'
    BY FactsStay, ProgramsStay, WayStays DEF MachineInv
  <2>5. ProgramsAsWritten'
    BY WrittenStay
  <2>6. RuntimeInv'
    BY RuntimeStays
  <2> QED
    BY <2>1, <2>2, <2>3, <2>4, <2>5, <2>6
<1> QED
  BY <1>1, <1>2, AgreeInTheEnd, PTL DEF Spec
=============================================================================
