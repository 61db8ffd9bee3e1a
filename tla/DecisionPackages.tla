-------------------------- MODULE DecisionPackages --------------------------
(* Decision packages: what ValidateDecisionPackage has against one, whether   *)
(* CompileDecisionPackage takes it, which of its parts a request asks for, and *)
(* what its schemas ask of a request (decision_validation.go,                  *)
(* decision_platform.go).                                                      *)
(*                                                                             *)
(* Names and ids are numbers in their order as texts, 0 the empty one. A        *)
(* condition is "" for none, the name of a fact or variable that has to be      *)
(* true, "broken" when it does not parse, "failing" when it parses and always   *)
(* ends in an error. Rules are listed in the order that the engine sorts them   *)
(* into, next is the stage a rule leads to; a rule of a group has no group of   *)
(* its own. A package has one workflow at most. A fact of a sized type is a      *)
(* float32.                                                                     *)
EXTENDS FactValues

Seqs == INSTANCE SequencesExt

NoRules == [mode |-> "absent", rules |-> <<>>]
NoWinner == 0

SumOf(numbers) == Seqs!FoldLeft(LAMBDA sum, n : sum + n, 0, numbers)
Distinct(parts, Key(_)) == \A i, j \in DOMAIN parts : Key(parts[i]) = Key(parts[j]) => i = j
NameOf(part) == part.name
IdOf(rule) == rule.id

\* The parts a request for a decision asks for: any name that is not empty may be it.
decisionMatches(requested, names) == requested = 0 \/ requested \in names

-----------------------------------------------------------------------------
\* ValidateDecisionPackage: what leaves no diagnostic that is an error.

Parses(condition) == condition # "broken"

RulesListed(rules) ==
    /\ \A i \in DOMAIN rules : rules[i].id # 0 /\ Parses(rules[i].condition)
    /\ Distinct(rules, IdOf)

\* A slip: the rules of a group are not looked at.
validateRules_NoGroups(rules) == RulesListed(rules)

validateRules(rules) ==
    /\ RulesListed(rules)
    /\ \A i \in DOMAIN rules : RulesListed(rules[i].group.rules)

NamedApart(parts) == (\A i \in DOMAIN parts : parts[i].name # 0) /\ Distinct(parts, NameOf)
IsPart(name, parts) == \E i \in DOMAIN parts : parts[i].name = name

validPolicy(policy) ==
    \A i \in DOMAIN policy.rules :
        policy.rules[i].id # 0 /\ Parses(policy.rules[i].condition) /\ policy.rules[i].given

Selections == {"", "ranked", "best", "weighted"}

validRanking(ranking, datasets) ==
    /\ ranking.ruleSet # 0 \/ ranking.rules # <<>> \/ ranking.scoreRules # <<>>
    /\ ranking.selection \in Selections
    /\ ranking.selection = "weighted" => ranking.paths
    /\ ranking.dataset # 0 => IsPart(ranking.dataset, datasets)
    /\ validateRules(ranking.rules)
    /\ \A i \in DOMAIN ranking.scoreRules :
          LET s == ranking.scoreRules[i] IN s.id # 0 /\ s.metric # "" /\ Parses(s.condition)

validOptimization(opt, pkg) ==
    /\ opt.name # 0 /\ opt.selection \in Selections
    /\ opt.ranking # 0 => IsPart(opt.ranking, pkg.rankings)
    /\ opt.dataset # 0 => IsPart(opt.dataset, pkg.datasets)

validWorkflow(wf) ==
    /\ wf.name # 0 /\ wf.start # 0 /\ IsPart(wf.start, wf.stages)
    /\ \A i \in DOMAIN wf.stages : validateRules(wf.stages[i].rules)

\* Bounds that are not set are not in the domain of limits.
Crossed(rule, low, high) ==
    low \in DOMAIN rule.limits /\ high \in DOMAIN rule.limits /\ rule.limits[low] > rule.limits[high]
validateSchemaRuleDefinition(rule) ==
    LET sound(r) == ~Crossed(r, "min", "max") /\ ~Crossed(r, "minLength", "maxLength") /\ ~Crossed(r, "minItems", "maxItems")
    IN  sound(rule) /\ \A child \in DOMAIN rule.properties : sound(rule.properties[child])

validSchema(schema) ==
    /\ <<>> \notin schema.required \cup DOMAIN schema.types \cup DOMAIN schema.rules \cup DOMAIN schema.properties
    /\ \A path \in DOMAIN schema.types : schema.types[path] # ""
    /\ \A path \in DOMAIN schema.rules : validateSchemaRuleDefinition(schema.rules[path])
    /\ \A path \in DOMAIN schema.properties : validateSchemaRuleDefinition(schema.properties[path])

Validates(pkg) ==
    /\ pkg.name # 0
    /\ NamedApart(pkg.ruleSets) /\ NamedApart(pkg.policies) /\ NamedApart(pkg.datasets) /\ NamedApart(pkg.rankings) /\ NamedApart(pkg.tests)
    /\ \A i \in DOMAIN pkg.ruleSets : validateRules(pkg.ruleSets[i].rules)
    /\ \A i \in DOMAIN pkg.policies : validPolicy(pkg.policies[i])
    /\ \A i \in DOMAIN pkg.datasets : \A j \in DOMAIN pkg.datasets[i].records : pkg.datasets[i].records[j].id # 0
    /\ \A i \in DOMAIN pkg.rankings : validRanking(pkg.rankings[i], pkg.datasets)
    /\ \A i \in DOMAIN pkg.optimizations : validOptimization(pkg.optimizations[i], pkg)
    /\ \A i \in DOMAIN pkg.workflows : validWorkflow(pkg.workflows[i])
    /\ \A name \in DOMAIN pkg.schemas : validSchema(pkg.schemas[name])
    /\ \A i \in DOMAIN pkg.tests : pkg.tests[i].expect # {}

-----------------------------------------------------------------------------
\* CompileDecisionPackage.

compileRules(rules) ==
    \A i \in DOMAIN rules :
        /\ rules[i].id # 0 /\ Parses(rules[i].condition)
        /\ rules[i].group.mode \in {"absent", "", "all", "any", "none"}
        /\ \A j \in DOMAIN rules[i].group.rules :
              LET r == rules[i].group.rules[j] IN r.id # 0 /\ Parses(r.condition)

AddRuleSet(rs) == rs.name # 0 /\ compileRules(rs.rules)
AddWorkflow(wf) ==
    /\ wf.name # 0 /\ wf.start # 0
    /\ \A i \in DOMAIN wf.stages : wf.stages[i].name # 0 /\ compileRules(wf.stages[i].rules)

NewRanker(rules, scoreRules) ==
    /\ compileRules(rules)
    /\ \A i \in DOMAIN scoreRules :
          LET s == scoreRules[i]
          IN  s.id # 0 /\ s.metric # "" /\ Parses(s.condition) /\ s.direction \in {"", "higher", "lower"}

compilePolicy(policy) ==
    /\ policy.name # 0
    /\ \A i \in DOMAIN policy.rules : policy.rules[i].id # 0 /\ Parses(policy.rules[i].condition)

\* A ranking without a name has that of its rule set; of two with one name the last counts.
RankingName(ranking) == IF ranking.name # 0 THEN ranking.name ELSE ranking.ruleSet
LastOf(indices) == CHOOSE i \in indices : \A j \in indices : j <= i
ByName(parts, Name(_)) ==
    [name \in {Name(parts[i]) : i \in DOMAIN parts} |->
        parts[LastOf({i \in DOMAIN parts : Name(parts[i]) = name})]]

CompiledRankings(pkg) == ByName(pkg.rankings, RankingName)
CompiledOptimizations(pkg) == ByName(pkg.optimizations, NameOf)

\* An optimization that names a ranking there is uses its ranker, and none of its own.
compileOptimization(opt, rankings) ==
    opt.name # 0 /\ (opt.ranking \in DOMAIN rankings \ {0} \/ NewRanker(opt.constraints, opt.preferences))

Compiles(pkg) ==
    /\ pkg.name # 0 /\ pkg.encodes
    /\ \A i \in DOMAIN pkg.ruleSets : AddRuleSet(pkg.ruleSets[i])
    /\ \A i \in DOMAIN pkg.workflows : AddWorkflow(pkg.workflows[i])
    /\ \A i \in DOMAIN pkg.policies : compilePolicy(pkg.policies[i])
    /\ \A i \in DOMAIN pkg.rankings :
          RankingName(pkg.rankings[i]) # 0 /\ NewRanker(pkg.rankings[i].rules, pkg.rankings[i].scoreRules)
    /\ \A i \in DOMAIN pkg.optimizations : compileOptimization(pkg.optimizations[i], CompiledRankings(pkg))

compileDatasets(datasets) ==
    [name \in {datasets[i].name : i \in DOMAIN datasets} \ {0} |-> ByName(datasets, NameOf)[name].records]

-----------------------------------------------------------------------------
\* Requests: where a name is looked up, and which candidates are ranked.

\* requestVars: the variables of the request before those of the package.
requestVars(pkg, req) == <<req.variableMap, req.variables, pkg.variables>>

\* The first of several maps that has the name.
Lookup(maps, name) ==
    LET having == SelectSeq(maps, LAMBDA m : name \in DOMAIN m)
    IN  IF having = <<>> THEN Absent ELSE having[1][name]

\* "yes", "no" or "error": without strict mode what is not there is false.
Verdict(condition, maps) ==
    CASE condition = "" -> "yes"
      [] condition = "failing" -> "error"
      [] OTHER -> Said(Lookup(maps, condition) = Truth(TRUE))

\* Dataset of the first ranking, else optimization, that was asked for and has one with records.
Usable(parts, decision, datasets, Name(_)) ==
    SelectSeq(parts, LAMBDA p : /\ decisionMatches(decision, {Name(p), p.decision})
                                /\ p.dataset \in DOMAIN datasets
                                /\ datasets[p.dataset] # <<>>)

resolveRequestCandidates(pkg, req) ==
    LET datasets == compileDatasets(pkg.datasets)
        usable == Usable(pkg.rankings, req.decision, datasets, NameOf)
                    \o Usable(pkg.optimizations, req.decision, datasets, NameOf)
    IN  IF req.candidates # <<>> THEN req.candidates
        ELSE IF usable = <<>> THEN <<>> ELSE datasets[usable[1].dataset]

-----------------------------------------------------------------------------
\* Schemas.

SchemaKinds(type) ==
    CASE type = "string" -> {"string", "numeral", "stamp"}
      [] type = "bool"   -> {"bool"}
      [] type = "number" -> {"int", "float", "sized", "numeral"}
      [] type = "int"    -> {"int"}
      [] type = "array"  -> {"list"}
      [] type = "object" -> {"map"}

\* A type of another name is met by every value but nil.
schemaTypeMatches(value, type) ==
    /\ value # Missing
    /\ type \in {"string", "bool", "number", "int", "array", "object"} => value.kind \in SchemaKinds(type)

schemaEnumContains(values, got) == \E v \in values : v = got \/ (Numeric(v) /\ Numeric(got) /\ v.n = got.n)

\* A slip: what has a lower bound is not held against the upper one.
Within_LowerOnly(limits, low, high, measured, n) ==
    {low, high} \cap DOMAIN limits # {} =>
        measured /\ IF low \in DOMAIN limits THEN n >= limits[low] ELSE n <= limits[high]

\* One pair of bounds: measured says whether the value has the measure that is bounded.
Within(limits, low, high, measured, n) ==
    {low, high} \cap DOMAIN limits # {} =>
        /\ measured
        /\ low \in DOMAIN limits => n >= limits[low]
        /\ high \in DOMAIN limits => n <= limits[high]

\* The length of a text is the number that names it.
SchemaRuleHolds(path, rule, facts) ==
    LET v == lookupPath(facts, path)
    IN  IF v = Absent THEN ~rule.required
        ELSE /\ rule.type # "" => schemaTypeMatches(v, rule.type)
             /\ rule.enum # {} => schemaEnumContains(rule.enum, v)
             /\ Within(rule.limits, "min", "max", Numeric(v), v.n)
             /\ Within(rule.limits, "minLength", "maxLength", Textual(v), TextOf(v))
             /\ Within(rule.limits, "minItems", "maxItems", v.kind = "list", Len(v.items))

\* What a value is made of is only looked at when the value is there.
validateSchemaRule(path, rule, facts) ==
    /\ SchemaRuleHolds(path, rule, facts)
    /\ lookupPath(facts, path) # Absent =>
          \A child \in DOMAIN rule.properties :
              SchemaRuleHolds(Append(path, child), rule.properties[child], facts)

NoSchema == [required |-> {}, types |-> <<>>, rules |-> <<>>, properties |-> <<>>]
DefaultSchema == 0

\* A slip: a schema that stands alone is taken for every decision.
SchemaFor_LoneForAll(schemas, decision) ==
    IF decision \in DOMAIN schemas THEN schemas[decision]
    ELSE IF schemas # <<>> THEN schemas[CHOOSE d \in DOMAIN schemas : TRUE] ELSE NoSchema

SchemaFor(schemas, decision) ==
    IF decision # 0 /\ decision \in DOMAIN schemas THEN schemas[decision]
    ELSE IF DefaultSchema \in DOMAIN schemas THEN schemas[DefaultSchema] ELSE NoSchema

validate(pkg, req) ==
    LET schema == SchemaFor(pkg.schemas, req.decision)
    IN  /\ \A path \in schema.required : lookupPath(req.facts, path) # Absent
        /\ \A path \in DOMAIN schema.types :
              LET v == lookupPath(req.facts, path) IN v = Absent \/ schemaTypeMatches(v, schema.types[path])
        /\ \A path \in DOMAIN schema.rules : validateSchemaRule(path, schema.rules[path], req.facts)
        /\ \A path \in DOMAIN schema.properties : validateSchemaRule(path, schema.properties[path], req.facts)
=============================================================================
