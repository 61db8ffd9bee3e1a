--------------------------- MODULE DecisionPipeline ---------------------------
(***************************************************************************)
(* CompiledDecisionPackage.Evaluate of decision_platform.go: how one request   *)
(* gets its effect, its decision and its Allowed.  Policies are evaluated rule *)
(* by rule, then rule sets, then workflows, then rankings; each contributes    *)
(* effects that resolveEffect merges.  The package is not fixed: what its next *)
(* rule says and whether it matches is chosen when it is evaluated, so the     *)
(* behaviours are those of every package on every request.  Which rules of a   *)
(* rule set or workflow match, and the decision that gives, is the engine's    *)
(* matter; here it is some string or none.                                    *)
(*                                                                          *)
(* A string that names an effect is the effect and how it is spelt: as in the  *)
(* constants, in other letters, or with spaces around it.                      *)
(***************************************************************************)
EXTENDS Naturals

CONSTANTS Custom,     (* effects that no constant names                      *)
          Empty,      (* the empty string                                    *)
          MaxEffects  (* bound: rules, defaults and decisions of one request  *)

Named == {"deny", "require_review", "escalate", "allow", "abstain"}
Effects == Named \cup Custom
Strings == [effect : Effects, spelling : {"plain", "folded", "padded"}] \cup {Empty}

ASSUME CustomAssumption == Custom \cap Named = {}
ASSUME EmptyAssumption ==
  Empty \notin [effect : Effects, spelling : {"plain", "folded", "padded"}]
ASSUME MaxAssumption == MaxEffects \in Nat

Plain(e) == [effect |-> e, spelling |-> "plain"]

VARIABLES
  stage,        (* where Evaluate is                                         *)
  matchedAny,   (* a rule of the policy under way has matched                 *)
  policyEffect, (* policyResult.effect                                       *)
  effect, decision, allowed,   (* fields of the response                     *)
  merged,       (* history: effects that rules, defaults and decisions gave   *)
  count         (* history: how many of them                                 *)

response == <<effect, decision, allowed>>
vars == <<stage, matchedAny, policyEffect, response, merged, count>>

-------------------------------------------------------------------------------
normalizeEffect(s) == IF s = Empty THEN "abstain" ELSE s.effect

effectRank(e) ==
  CASE e = "deny" -> 500
    [] e = "require_review" -> 400
    [] e = "escalate" -> 300
    [] e = "allow" -> 200
    [] e = "abstain" -> 0
    [] OTHER -> 100

(* A slip: the last effect counts.                                            *)
resolveEffect_Last(current, next) == IF next = "abstain" THEN current ELSE next

resolveEffect(current, next) ==
  IF effectRank(next) >= effectRank(current) THEN next ELSE current

EqualFoldAllow(s) ==
  s # Empty /\ s.effect = "allow" /\ s.spelling \in {"plain", "folded"}

(* applyEffect; and a slip, that never takes Allowed back.                     *)
AllowedBy_Sticky(e, d, before) == before \/ e = "allow" \/ EqualFoldAllow(d)

AllowedBy(e, d, before) ==
  IF e = "allow" THEN TRUE
  ELSE IF e \in {"deny", "require_review", "escalate"} THEN FALSE
  ELSE before \/ EqualFoldAllow(d)

-------------------------------------------------------------------------------
Init ==
  /\ stage = "policies"
  /\ matchedAny = FALSE
  /\ policyEffect = "abstain"
  /\ effect = "abstain" /\ decision = Plain("abstain") /\ allowed = FALSE
  /\ merged = {} /\ count = 0

Contribute(e) ==
  /\ count < MaxEffects
  /\ count' = count + 1
  /\ merged' = merged \cup {e}

(* evaluatePolicies: policies that do not match the requested decision are       *)
(* skipped, and a rule that does not match changes nothing.                   *)
StartPolicy ==
  /\ stage = "policies"
  /\ stage' = "rules" /\ matchedAny' = FALSE
  /\ UNCHANGED <<policyEffect, response, merged, count>>

MatchRule(s, stopOnMatch) ==
  /\ stage = "rules"
  /\ Contribute(normalizeEffect(s))
  /\ policyEffect' = resolveEffect(policyEffect, normalizeEffect(s))
  /\ matchedAny' = TRUE
  /\ stage' = IF stopOnMatch THEN "policies" ELSE "rules"
  /\ UNCHANGED response

EndPolicy(default) ==
  /\ stage = "rules"
  /\ IF ~matchedAny /\ default # Empty
     THEN /\ Contribute(normalizeEffect(default))
          /\ policyEffect' = resolveEffect(policyEffect, normalizeEffect(default))
     ELSE UNCHANGED <<policyEffect, merged, count>>
  /\ stage' = "policies"
  /\ UNCHANGED <<matchedAny, response>>

EndPolicies ==
  /\ stage = "policies"
  /\ effect' = policyEffect /\ decision' = Plain(policyEffect)
  /\ allowed' = (policyEffect = "allow")
  /\ stage' = "rulesets"
  /\ UNCHANGED <<matchedAny, policyEffect, merged, count>>

(* A rule set's or a workflow's decision, when it is not empty, becomes the      *)
(* decision; as an effect it is merged.                                       *)
Decide(s) ==
  /\ Contribute(normalizeEffect(s))
  /\ decision' = s
  /\ effect' = resolveEffect(effect, normalizeEffect(s))
  /\ UNCHANGED <<matchedAny, policyEffect, allowed>>

RuleSetDecides(s) ==
  /\ stage = "rulesets" /\ s # Empty
  /\ Decide(s)
  /\ UNCHANGED stage

WorkflowDecides(s) ==
  /\ stage = "rulesets" /\ s # Empty
  /\ Decide(s)
  /\ stage' = "rankings"

NoWorkflow ==
  /\ stage = "rulesets"
  /\ stage' = "rankings"
  /\ UNCHANGED <<matchedAny, policyEffect, response, merged, count>>

(* Rankings and optimizations add scores, actions and events only.             *)
Finish ==
  /\ stage = "rankings"
  /\ LET final == resolveEffect(effect, policyEffect) IN
       /\ effect' = final
       /\ allowed' = AllowedBy(final, decision, allowed)
       /\ decision' = IF decision = Plain("abstain") THEN Plain(final) ELSE decision
  /\ stage' = "answered"
  /\ UNCHANGED <<matchedAny, policyEffect, merged, count>>

(* An expression, a rule set, a workflow or a ranking fails: no decision.       *)
Fail ==
  /\ stage \in {"rules", "rulesets", "rankings"}
  /\ stage' = "failed"
  /\ UNCHANGED <<matchedAny, policyEffect, response, merged, count>>

Next ==
  \/ StartPolicy \/ EndPolicies \/ NoWorkflow \/ Finish \/ Fail
  \/ \E s \in Strings :
       \/ \E stopOnMatch \in BOOLEAN : MatchRule(s, stopOnMatch)
       \/ EndPolicy(s) \/ RuleSetDecides(s) \/ WorkflowDecides(s)

Spec == Init /\ [][Next]_vars

-------------------------------------------------------------------------------
TypeOK ==
  /\ stage \in {"policies", "rules", "rulesets", "rankings", "answered", "failed"}
  /\ matchedAny \in BOOLEAN /\ allowed \in BOOLEAN
  /\ policyEffect \in Effects /\ effect \in Effects
  /\ decision \in Strings \ {Empty}
  /\ merged \subseteq Effects
  /\ count \in 0..MaxEffects

(* The effect of an answer is the strongest of everything that matched, from      *)
(* policies, rule sets and workflows alike: a deny is never overridden, in       *)
(* whatever order the parts come and whatever is merged twice.                 *)
StrongestEffectWins ==
  stage = "answered" =>
    /\ effect \in merged \cup {"abstain"}
    /\ \A e \in merged : effectRank(effect) >= effectRank(e)

(* Allowed is set early, from the policies, and again at the end: it is what the  *)
(* effect says, so nothing that weakens the effect leaves it set.               *)
AllowedMeansAllow == stage = "answered" => (allowed <=> effect = "allow")
===============================================================================
