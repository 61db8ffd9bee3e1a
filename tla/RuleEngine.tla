----------------------------- MODULE RuleEngine -----------------------------
(* Engine.Evaluate of engine.go: the rules of a rule set in their order, then  *)
(* each of its workflows, stage after stage. An evaluation keeps the compiled  *)
(* rule set it found, whatever is added meanwhile; its context may end and a   *)
(* handler of an action may fail at any moment.                                *)
EXTENDS RuleSets

CONSTANTS
    Facts,    \* the facts that callers bring, by field
    Handled   \* the types of actions that have a handler

VARIABLES
    ruleSets,  \* the rule set of the name that is evaluated, once there is one
    rs,        \* the one that the evaluation holds
    facts,     \* what the evaluation is about
    ctx,       \* its context: "live" or "done"
    at,        \* "idle", "top", "between", "stage", "inStage", "returned"
    err,       \* whether it returned an error
    rules,     \* the list of rules under evaluation
    left,      \* the places in it that are still to come
    applied,   \* the places of the rules that were applied, in order
    list,      \* "open", "closed" or "failed"
    next,      \* the stage that the list leads to, "" for none
    res,       \* the result of the list
    all,       \* the result of the workflow so far
    answer,    \* the result of the evaluation so far
    waiting,   \* the workflows that are still to come
    wf,        \* the one under evaluation
    stage,     \* its stage, "" at its end
    seen       \* the stages it has been in

listVars == <<rules, left, applied, list, next, res>>
flowVars == <<all, wf, stage, seen>>
callVars == <<rs, facts, waiting>>
vars == <<ruleSets, callVars, ctx, at, err, listVars, flowVars, answer>>

-----------------------------------------------------------------------------
\* Results. Of the actions that are collected only their types matter here.

NoResult == [matched |-> FALSE, ids |-> <<>>, allowed |-> FALSE,
             decision |-> "", actions |-> {}]

\* The last of the words "allow" and "deny", if there is one, decides.
LastWord(words, allowed) ==
    \/ \E k \in DOMAIN words :
          words[k] = "allow" /\ \A j \in DOMAIN words : j > k => words[j] # "deny"
    \/ allowed /\ \A k \in DOMAIN words : words[k] # "deny"

Words(r) == <<r.decision>> \o [i \in DOMAIN r.actions |-> r.actions[i].type]

applyMatchedRule(result, r) ==
    [matched  |-> TRUE,
     ids      |-> Append(result.ids, r.id),
     allowed  |-> LastWord(Words(r), result.allowed),
     decision |-> IF r.decision = "" THEN result.decision ELSE r.decision,
     actions  |-> result.actions \cup ActionTypes(r)]

resultAllows(b) == b.decision = "allow" \/ b.allowed \/ "allow" \in b.actions
resultDenies(b) == b.decision = "deny" \/ "deny" \in b.actions

mergeResults(a, b) ==
    [matched  |-> a.matched \/ b.matched,
     ids      |-> a.ids \o b.ids,
     allowed  |-> ~resultDenies(b) /\ (a.allowed \/ resultAllows(b)),
     decision |-> IF b.decision = "" THEN a.decision ELSE b.decision,
     actions  |-> a.actions \cup b.actions]

ruleSetMode(mode) == IF mode = "FirstMatch" THEN "AllMatches" ELSE mode

Mode == ruleSetMode(rs.mode)

-----------------------------------------------------------------------------
\* Rule sets come and go while evaluations run.

GroupModes == {"absent", "all", "any", "none"}

\* What AddRuleSet refuses, beside conditions that do not compile.
Valid(new) ==
    /\ \A w \in DOMAIN new.workflows : new.workflows[w].start # ""
    /\ \A i \in DOMAIN new.rules : new.rules[i].group.mode \in GroupModes

AddRuleSet(new) ==
    /\ Valid(new)
    /\ ruleSets' = {new}
    /\ UNCHANGED <<callVars, ctx, at, err, listVars, flowVars, answer>>

Cancel ==
    /\ at \notin {"idle", "returned"}
    /\ ctx' = "done"
    /\ UNCHANGED <<ruleSets, callVars, at, err, listVars, flowVars, answer>>

-----------------------------------------------------------------------------
\* A list of rules.

BeginList(newRules) ==
    /\ rules' = newRules
    /\ left' = DOMAIN newRules
    /\ applied' = <<>>
    /\ list' = "open"
    /\ next' = ""
    /\ res' = NoResult

\* A slip: the salience of rules of equal priority is not looked at.
Turn_PriorityOnly ==
    CHOOSE i \in left :
        \A j \in left \ {i} :
            \/ rules[i].priority > rules[j].priority
            \/ rules[i].priority = rules[j].priority /\ i < j

\* The rule whose turn it is.
Turn == CHOOSE i \in left :
            \A j \in left \ {i} :
                Precedes(rules[i], rules[j])
                \/ (~Precedes(rules[j], rules[i]) /\ i < j)

Skip ==
    /\ list = "open" /\ left # {}
    /\ ~RuleMatches(rules[Turn], facts)
    /\ left' = left \ {Turn}
    /\ UNCHANGED <<rules, applied, list, next, res>>

Apply ==
    /\ list = "open" /\ left # {}
    /\ RuleMatches(rules[Turn], facts)
    /\ LET r == rules[Turn]
       IN  /\ res' = applyMatchedRule(res, r)
           /\ next' = r.next
           /\ list' = IF EndsList(Mode, r) THEN "closed" ELSE "open"
    /\ applied' = Append(applied, Turn)
    /\ left' = left \ {Turn}
    /\ UNCHANGED rules

EndOfList ==
    /\ list = "open" /\ left = {}
    /\ list' = "closed"
    /\ UNCHANGED <<rules, left, applied, next, res>>

\* The rules whose conditions the evaluation of r reads.
Parts(r) == {r} \cup {r.group.rules[i] : i \in DOMAIN r.group.rules}

\* A condition is not evaluated once the context has ended.
ConditionFails ==
    /\ list = "open" /\ left # {} /\ ctx = "done"
    /\ Active(rules[Turn])
    /\ \E r \in Parts(rules[Turn]) : Active(r) /\ r.condition.op # "none"
    /\ list' = "failed"
    /\ UNCHANGED <<rules, left, applied, next, res>>

\* The handlers of the rules of a group run when those match, unless the group
\* asks for all of them: then its rules are only looked at.
GroupHandlerFails ==
    /\ list = "open" /\ left # {} /\ Active(rules[Turn])
    /\ LET group == rules[Turn].group
       IN  /\ group.mode \in {"any", "none"}
           /\ \E i \in DOMAIN group.rules :
                 /\ ConditionHolds(group.rules[i], facts)
                 /\ ActionTypes(group.rules[i]) \cap Handled # {}
    /\ list' = "failed"
    /\ UNCHANGED <<rules, left, applied, next, res>>

\* What the rule did before its handler failed stays in the result: its decision, all
\* its actions, and the words up to the action that failed.
HandlerFails ==
    /\ list = "open" /\ left # {}
    /\ RuleMatches(rules[Turn], facts)
    /\ LET r == rules[Turn]
       IN  \E k \in DOMAIN r.actions :
              /\ r.actions[k].type \in Handled
              /\ res' = [applyMatchedRule(res, r) EXCEPT
                            !.allowed = LastWord(SubSeq(Words(r), 1, k + 1), res.allowed)]
    /\ applied' = Append(applied, Turn)
    /\ left' = left \ {Turn}
    /\ list' = "failed"
    /\ UNCHANGED <<rules, next>>

EvalRules ==
    /\ at \in {"top", "inStage"}
    /\ Skip \/ Apply \/ EndOfList \/ ConditionFails \/ GroupHandlerFails \/ HandlerFails
    /\ UNCHANGED <<ruleSets, callVars, ctx, at, err, flowVars, answer>>

-----------------------------------------------------------------------------
\* A call of Evaluate: the rules of the rule set, then its workflows.

Evaluate(f) ==
    /\ at \in {"idle", "returned"}
    /\ facts' = f
    /\ ctx' = "live"
    /\ answer' = NoResult
    /\ \/ /\ ruleSets = {}
          /\ at' = "returned" /\ err' = TRUE
          /\ UNCHANGED <<rs, waiting, listVars>>
       \/ \E found \in ruleSets :
             /\ rs' = found
             /\ waiting' = DOMAIN found.workflows
             /\ at' = "top" /\ err' = FALSE
             /\ BeginList(found.rules)
    /\ UNCHANGED <<ruleSets, flowVars>>

RulesReturn ==
    /\ at = "top" /\ list # "open"
    /\ answer' = res
    /\ err' = (list = "failed")
    /\ at' = IF list = "failed" THEN "returned" ELSE "between"
    /\ UNCHANGED <<ruleSets, callVars, ctx, listVars, flowVars>>

\* The workflows are a map: any of them may be next.
StartWorkflow ==
    /\ at = "between"
    /\ \E w \in waiting :
          /\ waiting' = waiting \ {w}
          /\ wf' = rs.workflows[w]
          /\ stage' = rs.workflows[w].start
    /\ all' = NoResult
    /\ seen' = {}
    /\ at' = "stage"
    /\ UNCHANGED <<ruleSets, rs, facts, ctx, err, listVars, answer>>

Return ==
    /\ at = "between" /\ waiting = {}
    /\ at' = "returned"
    /\ UNCHANGED <<ruleSets, callVars, ctx, err, listVars, flowVars, answer>>

-----------------------------------------------------------------------------
\* A workflow.

EnterStage ==
    /\ at = "stage" /\ stage # ""
    /\ stage \notin seen
    /\ stage \in DOMAIN wf.stages
    /\ seen' = seen \cup {stage}
    /\ all' = IF wf.stages[stage].assign
              THEN [all EXCEPT !.actions = @ \cup {"assign"}] ELSE all
    /\ BeginList(wf.stages[stage].rules)
    /\ at' = "inStage"
    /\ UNCHANGED <<ruleSets, callVars, ctx, err, wf, stage, answer>>

LeaveStage ==
    /\ at = "inStage" /\ list = "closed"
    /\ all' = mergeResults(all, res)
    /\ stage' = next
    /\ at' = "stage"
    /\ UNCHANGED <<ruleSets, callVars, ctx, err, listVars, wf, seen, answer>>

StageFails ==
    /\ at = "inStage" /\ list = "failed"
    /\ all' = mergeResults(all, res)
    /\ answer' = mergeResults(answer, all')
    /\ at' = "returned" /\ err' = TRUE
    /\ UNCHANGED <<ruleSets, callVars, ctx, listVars, wf, stage, seen>>

\* A slip: nothing tells that a stage comes for the second time.
NoSuchStage_MissingOnly ==
    /\ at = "stage" /\ stage # ""
    /\ stage \notin DOMAIN wf.stages
    /\ answer' = mergeResults(answer, all)
    /\ at' = "returned" /\ err' = TRUE
    /\ UNCHANGED <<ruleSets, callVars, ctx, listVars, flowVars>>

\* A stage for the second time, or one that there is not.
NoSuchStage ==
    /\ at = "stage" /\ stage # ""
    /\ stage \in seen \/ stage \notin DOMAIN wf.stages
    /\ answer' = mergeResults(answer, all)
    /\ at' = "returned" /\ err' = TRUE
    /\ UNCHANGED <<ruleSets, callVars, ctx, listVars, flowVars>>

EndWorkflow ==
    /\ at = "stage" /\ stage = ""
    /\ answer' = mergeResults(answer, all)
    /\ at' = "between"
    /\ UNCHANGED <<ruleSets, callVars, ctx, err, listVars, flowVars>>

EvalWorkflow ==
    StartWorkflow \/ EnterStage \/ LeaveStage \/ StageFails \/ NoSuchStage \/ EndWorkflow

-----------------------------------------------------------------------------
Init ==
    /\ ruleSets = {}
    /\ rs = NoRuleSet /\ facts = (CHOOSE f \in Facts : TRUE) /\ waiting = {}
    /\ ctx = "live" /\ at = "idle" /\ err = FALSE
    /\ rules = <<>> /\ left = {} /\ applied = <<>>
    /\ list = "closed" /\ next = "" /\ res = NoResult
    /\ all = NoResult /\ wf = <<>> /\ stage = "" /\ seen = {}
    /\ answer = NoResult

\* What the goroutine of an evaluation does on its own.
Proceed == EvalRules \/ RulesReturn \/ EvalWorkflow \/ Return

Next ==
    \/ \E new \in RuleSets : AddRuleSet(new)
    \/ \E f \in Facts : Evaluate(f)
    \/ Cancel
    \/ Proceed

Spec == Init /\ [][Next]_vars /\ WF_vars(Proceed)
=============================================================================
