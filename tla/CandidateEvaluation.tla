------------------------ MODULE CandidateEvaluation ------------------------
(* What a ranker finds out of one candidate (ranker.go): whether it is        *)
(* eligible, its score and its explanation, on the "native" way, which takes   *)
(* compiled conditions where there are, and on the "generic" one, which has    *)
(* Expression evaluate them all.                                               *)
(*                                                                             *)
(* A field is a path below provider, quality, route or candidate; a candidate *)
(* has facts below that name (root), facts without it (flat) and metadata; the *)
(* facts of the request that have no such name (bare) are the same for all its *)
(* candidates, and the others are left out.                                    *)
(* Scores count quarters: a normalised range is one or two wide.               *)
EXTENDS RuleSets, SequencesExt

CONSTANTS
    Interpreted,  \* the conditions that cannot be compiled natively
    Paths,        \* the fields that tell priority, specificity, fallback, cost and weight
    Largest,      \* math.MaxFloat64
    NotANumber    \* what a NaN is written as

ASSUME RankingAssumption ==
    /\ Interpreted \subseteq Conditions
    /\ \A c \in Conditions :
          /\ c.op = "!" /\ c.arg \in Interpreted => c \in Interpreted
          /\ c.op \in {"&&", "||"} /\ {c.left, c.right} \cap Interpreted # {} => c \in Interpreted
    /\ Paths \in [{"priority", "specificity", "fallback", "cost", "weight"} -> Fields]
    /\ Largest \in Nat /\ NotANumber \in Int /\ Largest # NotANumber

One == 4

-----------------------------------------------------------------------------
\* The facts of a candidate.

\* A getter that was compiled for a path of two parts over maps looks in one place.
compileNativePathGetter(c, f) == IF c.hasRoot THEN c.root[f] ELSE c.flat[f]

First(values) ==
    LET at == SelectInSeq(values, LAMBDA v : v # Missing)
    IN  IF at = 0 THEN Missing ELSE values[at]

\* The interpreter is given what is found in any of them.
domainValue(c, f) ==
    First(<<IF c.hasRoot THEN c.root[f] ELSE Missing, c.flat[f], c.metadata[f]>>)

\* What a condition reads. Expression.eval compiles it too, but puts the facts of
\* the candidate behind others, so that the bare facts of the request are found.
Seen(c, condition, how) ==
    [f \in Fields |->
        IF condition \in Interpreted THEN domainValue(c, f)
        ELSE IF how = "generic" THEN First(<<compileNativePathGetter(c, f), c.bare[f]>>)
        ELSE compileNativePathGetter(c, f)]

nativeFloat(c, path, otherwise) ==
    LET v == compileNativePathGetter(c, Paths[path]) IN IF Numeric(v) THEN v.n ELSE otherwise

compareValues(c) ==
    [priority    |-> nativeFloat(c, "priority", 0),
     specificity |-> nativeFloat(c, "specificity", 0),
     fallback    |-> nativeFloat(c, "fallback", Largest),
     cost        |-> nativeFloat(c, "cost", 0)]

-----------------------------------------------------------------------------
\* Conditions: in strict mode a fact that is missing is an error.

Senseless(c, facts) ==
    \/ facts[c.field] = Missing
    \/ c.op \in Comparisons \ {"==", "!="} /\ ~Numeric(facts[c.field])

Judged(facts, strict) ==
    LET judged[c \in Conditions] ==
            CASE c.op = "!"  -> Opposite(judged[c.arg])
              [] c.op = "&&" -> IF judged[c.left] = "yes" THEN judged[c.right] ELSE judged[c.left]
              [] c.op = "||" -> IF judged[c.left] = "no" THEN judged[c.right] ELSE judged[c.left]
              [] c.op \notin {"none", "lit", "!", "&&", "||"} /\ strict /\ Senseless(c, facts) -> "error"
              [] OTHER -> Said(Native(facts)[c])
    IN  judged

Judge(condition, c, strict, how) == Judged(Seen(c, condition, how), strict)[condition]

-----------------------------------------------------------------------------
\* Rules: whether one makes a candidate eligible, and what it adds to its result.

\* Where the rules of a group stop to be looked at.
GroupEnd(mode, verdicts) ==
    SelectInSeq(verdicts, LAMBDA v : v # IF mode = "all" THEN "yes" ELSE "no")

evalEligibilityGroup(mode, verdicts) ==
    LET end == GroupEnd(mode, verdicts)
    IN  IF end = 0 THEN Said(mode # "any")
        ELSE IF mode = "none" THEN Opposite(verdicts[end]) ELSE verdicts[end]

\* A rule of a group; a disabled one says yes.
ChildVerdict(r, c, strict, how) ==
    IF r.enabled THEN Judge(r.condition, c, strict, how) ELSE "yes"

ChildVerdicts(r, c, strict, how) ==
    [i \in DOMAIN r.group.rules |-> ChildVerdict(r.group.rules[i], c, strict, how)]

\* The group is looked at whatever the condition says.
evalEligibility(r, c, strict, how) ==
    LET own   == Judge(r.condition, c, strict, how)
        group == IF r.group.mode = "absent" THEN "yes"
                 ELSE evalEligibilityGroup(r.group.mode, ChildVerdicts(r, c, strict, how))
    IN  CASE ~r.enabled -> "yes"
          [] own = "error" \/ group = "error" -> "error"
          [] OTHER -> Said(own = "yes" /\ group = "yes")

\* What enabled rules of a group say before it is decided, on the generic way.
GroupSays(r, c, strict) ==
    LET verdicts == ChildVerdicts(r, c, strict, "generic")
        end      == GroupEnd(r.group.mode, verdicts)
        said(so_far, n) == IF verdicts[n] = "yes" /\ r.group.rules[n].enabled
                           THEN Append(so_far, r.group.rules[n]) ELSE so_far
    IN  FoldLeft(said, <<>>, [n \in 1 .. (IF end = 0 THEN Len(r.group.rules) ELSE end) |-> n])

\* The rules whose decision and actions a rule adds. Natively a disabled rule
\* adds its own, and a group nothing.
Sayings(r, verdict, c, strict, how) ==
    LET groups == IF how = "generic" /\ r.enabled /\ r.group.mode # "absent"
                  THEN GroupSays(r, c, strict) ELSE <<>>
    IN  groups
        \o (IF verdict = "yes" /\ (how # "generic" \/ r.enabled) THEN <<r>> ELSE <<>>)

\* What one rule decides: what it says last, and on the generic way a rule that
\* matches overrules its group even when it says nothing.
Decides(said, verdict) ==
    IF said = <<>> THEN "" ELSE
    IF verdict = "yes" THEN Last(said).decision
    ELSE FoldLeft(LAMBDA d, r : IF r.decision = "" THEN d ELSE r.decision, "", said)

-----------------------------------------------------------------------------
\* Score rules.

AtLeast(n, m) == IF n < m THEN m ELSE n
AtMost(n, m) == IF n > m THEN m ELSE n

normalizeScore(n, s) ==
    IF s.max > s.min
    THEN LET part == ((n - s.min) * One) \div (s.max - s.min)
             clipped == AtMost(AtLeast(part, 0), One)
         IN  IF s.lower THEN One - clipped ELSE clipped
    ELSE LET raw == n * (One \div 2) IN IF s.lower THEN -raw ELSE raw

\* What a score rule comes to: it fails, rejects, does not apply, misses its
\* metric, or gives points.
ScoreOutcome(s, c, strict, how) ==
    LET applies == Judge(s.condition, c, strict, how)
        metric  == compileNativePathGetter(c, s.metric)
    IN  CASE applies = "error" -> "error"
          [] applies = "no" -> "off"
          [] ~Numeric(metric) -> IF strict THEN "rejects" ELSE "missing"
          [] OTHER -> "points"

Points(s, c) == normalizeScore(compileNativePathGetter(c, s.metric).n, s) * s.weight

-----------------------------------------------------------------------------
\* The result of a candidate: its reasons one by one, its actions rule by rule.

Total(numbers) == FoldLeft(LAMBDA a, b : a + b, 0, numbers)

Fresh == [ended |-> FALSE, error |-> FALSE, eligible |-> TRUE, score |-> 0, decision |-> "",
          reasons |-> <<>>, actions |-> <<>>]

Explained(rk, so_far, reason) ==
    IF rk.explain /\ reason # "" THEN Append(so_far, reason) ELSE so_far

\* A rule that does not match ends it.
AfterRule(res, r, verdict, said, rk) ==
    [ended    |-> verdict # "yes",
     error    |-> verdict = "error",
     eligible |-> verdict = "yes",
     score    |-> IF verdict = "yes" THEN res.score + One * r.score ELSE res.score,
     decision |-> IF Decides(said, verdict) = "" THEN res.decision ELSE Decides(said, verdict),
     reasons  |-> IF verdict = "no" THEN Explained(rk, res.reasons, r.reason) ELSE res.reasons,
     actions  |-> Append(res.actions, FlattenSeq([n \in DOMAIN said |-> said[n].actions]))]

AfterScore(res, s, outcome, c, rk) ==
    [res EXCEPT !.ended = outcome \in {"error", "rejects"},
                !.error = outcome = "error",
                !.eligible = outcome \notin {"error", "rejects"},
                !.score = IF outcome = "points" THEN @ + Points(s, c) ELSE @,
                !.reasons = Explained(rk, @, CASE outcome = "points" -> s.reason
                                               [] outcome \in {"missing", "rejects"} -> "missing metric"
                                               [] OTHER -> "")]

RankRule(res, r, c, rk, how) ==
    LET verdict == evalEligibility(r, c, rk.strict, how)
    IN  IF res.ended THEN res
        ELSE AfterRule(res, r, verdict, Sayings(r, verdict, c, rk.strict, how), rk)

RankScore(res, s, c, rk, how) ==
    IF res.ended THEN res ELSE AfterScore(res, s, ScoreOutcome(s, c, rk.strict, how), c, rk)

RankCandidate(rk, c, how) ==
    LET ruled == FoldLeft(LAMBDA res, r : RankRule(res, r, c, rk, how), Fresh, rk.rules)
    IN  FoldLeft(LAMBDA res, s : RankScore(res, s, c, rk, how), ruled, rk.scores)

canRankNative(rk) ==
    /\ \A i \in DOMAIN rk.rules :
          /\ rk.rules[i].condition \notin Interpreted
          /\ \A k \in DOMAIN rk.rules[i].group.rules : rk.rules[i].group.rules[k].condition \notin Interpreted
    /\ \A i \in DOMAIN rk.scores : rk.scores[i].condition \notin Interpreted
=============================================================================
