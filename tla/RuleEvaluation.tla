--------------------------- MODULE RuleEvaluation ---------------------------
(* One rule set under both evaluators: an application loads it into an engine  *)
(* and, compiled, into a runtime, asks the engine and then the runtime about   *)
(* the same facts, and may load another rule set while either of them works.   *)
EXTENDS RuleSets

CONSTANTS Facts, Handled, Options,
          Replacements  \* the rule sets that are loaded while an evaluation runs

ASSUME ReplacementsAssumption == Replacements \subseteq RuleSets
ASSUME FactsAssumption == Facts \subseteq [Fields -> Scalars]

VARIABLES
    \* the engine
    ruleSets, rs, facts, ctx, at, err, rules, left, applied, list, next, res,
    all, answer, waiting, wf, stage, seen,
    \* the runtime
    actionVals, engine, program, typedFacts, run, candidates, current, pc, stack, out

Engine == INSTANCE RuleEngine
Runtime == INSTANCE BytecodeProgram WITH facts <- typedFacts

engineVars == <<ruleSets, rs, facts, ctx, at, err, rules, left, applied, list, next, res,
                all, answer, waiting, wf, stage, seen>>
runtimeVars == <<actionVals, engine, program, typedFacts, run, candidates, current, pc,
                 stack, out>>
vars == <<engineVars, runtimeVars>>

Init == Engine!Init /\ Runtime!Init

\* Both are given the rule set before the first question.
Load ==
    /\ at = "idle" /\ ruleSets = {}
    /\ \E new \in RuleSets, option \in Options :
          Engine!AddRuleSet(new) /\ Runtime!Reload(new, option)

AskEngine ==
    /\ at = "idle"
    /\ \E f \in Facts : Engine!Evaluate(f)
    /\ UNCHANGED runtimeVars

EngineProceeds == Engine!Proceed /\ UNCHANGED runtimeVars

ContextEnds == ctx = "live" /\ Engine!Cancel /\ UNCHANGED runtimeVars

\* While the engine works, once.
AddAnother ==
    /\ at \notin {"idle", "returned"} /\ ruleSets = {rs}
    /\ \E new \in Replacements : Engine!AddRuleSet(new)
    /\ UNCHANGED runtimeVars

\* The runtime knows nothing of the engine: it is asked what the engine has answered.
AskRuntime ==
    /\ at = "returned" /\ run = "idle"
    /\ ruleSets = {} \/ (~err /\ ctx = "live" /\ ruleSets = {rs})
    /\ Runtime!Evaluate(facts)
    /\ UNCHANGED engineVars

RuntimeProceeds == Runtime!Proceed /\ UNCHANGED engineVars

\* While the runtime works, once.
ReloadAnother ==
    /\ run \in {"scan", "execute"} /\ engine = {program}
    /\ \E new \in Replacements : Runtime!Reload(new, "AllMatches")
    /\ UNCHANGED engineVars

Next ==
    \/ Load \/ AskEngine \/ EngineProceeds \/ ContextEnds \/ AddAnother
    \/ AskRuntime \/ RuntimeProceeds \/ ReloadAnother

Spec ==
    /\ Init /\ [][Next]_vars
    /\ WF_vars(EngineProceeds) /\ WF_vars(RuntimeProceeds)

-----------------------------------------------------------------------------
\* Every list of rules, at the top and in each stage, is evaluated as RuleChoice
\* says: matching rules only, the foremost first, none skipped, until one ends the
\* list - also when another rule set is added meanwhile (evalRulesWithNext).
Choice ==
    INSTANCE RuleChoice WITH matching <- Matching(rules, facts), mode <- Engine!Mode
ListsFollowChoice == Choice!Spec

\* Where an override is declared it holds whatever the order of the rules: with
\* DenyOverrides no list that has a matching rule that denies ends up allowing, with
\* AllowOverrides none that has one that allows ends up denying. Exempt are lists
\* that a rule may leave before, and rules that say both (shouldStopForMode).
OverridesHold ==
    LET matching == Matching(rules, facts)
        plain == \A i \in matching :
                    /\ ~rules[i].stop /\ rules[i].next = ""
                    /\ ~(ruleAllows(rules[i]) /\ ruleDenies(rules[i]))
    IN  list = "closed" /\ plain =>
            /\ Engine!Mode = "DenyOverrides" /\ (\E i \in matching : ruleDenies(rules[i]))
                  => ~res.allowed
            /\ Engine!Mode = "AllowOverrides" /\ (\E i \in matching : ruleAllows(rules[i]))
                  => res.allowed

\* An evaluation returns, also when stages lead back to one another (evalWorkflow)
\* and whatever is loaded meanwhile.
EvaluationsEnd ==
    /\ (at = "top") ~> (at = "returned")
    /\ (run = "scan") ~> (run = "returned")

-----------------------------------------------------------------------------
\* Where the bytecode can be expected to say what the tree says.

\* A literal is of the kind of the fact it is compared with, or an integer literal is
\* compared with a float. An absent fact equals nothing and is in nothing; what "!="
\* and null say of one is not portable, nor is the order of Booleans.
AlikeTyped(c, f) ==
    c.op \in {"none", "lit"} \/
        LET v == f[c.field]
            lits == IF c.op \in {"in", "not in"} THEN c.lits ELSE {c.lit}
        IN  /\ \A lit \in lits :
                  /\ lit.kind # "missing"
                  /\ \/ v.kind \in {lit.kind, "missing"}
                     \/ v.kind = "float" /\ lit.kind = "int" /\ c.op \in Comparisons
            /\ v.kind = "missing" => c.op # "!="
            /\ v.kind = "bool" => c.op \in {"==", "!=", "in", "not in"}

Portable(f) ==
    LET portable[c \in Conditions] ==
            CASE c.op = "!"             -> portable[c.arg]
              [] c.op \in {"&&", "||"}  -> portable[c.left] /\ portable[c.right]
              [] OTHER                  -> AlikeTyped(c, f)
    IN  portable

\* No rule is indexed by an equality that it can do without.
IndexIsNecessary ==
    LET necessary[c \in Conditions] ==
            /\ c.op = "||" => Runtime!firstEqualityIndex[c] = {}
            /\ c.op = "&&" => necessary[c.left] /\ necessary[c.right]
    IN  necessary

\* The rule sets that both support: no groups, stops and workflows, actions of known
\* types, and an order that leaves no ties.
Supported(set) ==
    /\ set.workflows = <<>>
    /\ \A i \in DOMAIN set.rules :
          LET r == set.rules[i]
          IN  /\ r.group.mode = "absent" /\ ~r.stop /\ r.next = ""
              /\ IndexIsNecessary[r.condition]
              /\ \A k \in DOMAIN r.actions :
                    \E n \in DOMAIN Runtime!KnownActions : Runtime!KnownActions[n] = r.actions[k].type
              /\ \A j \in DOMAIN set.rules \ {i} :
                    Precedes(r, set.rules[j]) \/ Precedes(set.rules[j], r)

\* The stack machine and the tree agree on every portable condition: once its
\* instructions are executed the stack holds their value and nothing else, and no
\* instruction ever finds too few operands (evalInstructions).
MachineMatchesTree ==
    /\ run # "panic"
    /\ Runtime!Executed =>
          LET c == program.source.rules[current].condition
          IN  Portable(typedFacts)[c] => stack = <<Native(typedFacts)[c]>>

\* The engine and the runtime give the same answer to the same question about a rule
\* set that both support in one mode: no rule is missed by the index, none applied in
\* another order, none of the words of its actions lost in compilation.
Parity ==
    at = "returned" /\ ~err /\ run = "returned" /\ engine # {} /\ program.source = rs
      /\ program.mode = Engine!Mode /\ Supported(rs)
      /\ (\A i \in DOMAIN rs.rules : Portable(facts)[rs.rules[i].condition])
    => out = [matched |-> answer.matched, ids |-> answer.ids,
              allowed |-> answer.allowed, decision |-> answer.decision]
=============================================================================
