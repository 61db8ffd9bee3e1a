------------------------------ MODULE RuleSets ------------------------------
(* Rule sets (engine.go), the conditions of their rules and what a condition  *)
(* says of facts when it is evaluated as the tree it was parsed to (types.go,  *)
(* rank_native.go). The engine and the compiler to bytecode both start here.   *)
(*                                                                             *)
(* Facts and literals are scalars (FactValues); texts that are numerals, which *)
(* the tree takes for numbers, are left out. A fact that is absent, and the    *)
(* literal null, have the kind "missing".                                      *)
EXTENDS FactValues, FiniteSets

CONSTANTS
    Fields,      \* the paths that conditions read
    Conditions,  \* the conditions, with all their parts
    RuleSets     \* the rule sets that programs load

Modes == {"FirstMatch", "AllMatches", "HighestPriority",
          "DenyOverrides", "AllowOverrides", "ScoreBased"}
Kinds == {"missing", "int", "float", "string", "bool"}

Comparisons == {"==", "!=", ">", ">=", "<", "<="}

Scalars == [kind : Kinds, n : Int]

\* Every part of a condition is a condition, and strings are only compared for equality.
ASSUME ConditionsAssumption ==
    \A c \in Conditions :
        /\ c.op \in {"none", "lit", "!", "&&", "||", "in", "not in"} \cup Comparisons
        /\ c.op = "lit" => c.value \in BOOLEAN
        /\ c.op = "!" => c.arg \in Conditions
        /\ c.op \in {"&&", "||"} => c.left \in Conditions /\ c.right \in Conditions
        /\ c.op \in Comparisons => c.field \in Fields /\ c.lit \in Scalars
        /\ c.op \in Comparisons \ {"==", "!="} => c.lit.kind # "string"
        /\ c.op \in {"in", "not in"} => c.field \in Fields /\ c.lits \subseteq Scalars

\* How many operators and operands a condition is made of.
Size ==
    LET size[c \in Conditions] ==
            CASE c.op = "!"              -> size[c.arg] + 1
              [] c.op \in {"&&", "||"}   -> size[c.left] + size[c.right] + 1
              [] OTHER                   -> 1
    IN  size

\* Conditions are finite trees: the parts of one are smaller than the whole.
ASSUME SizeAssumption ==
    \A c \in Conditions :
        /\ Size[c] \in Nat
        /\ c.op = "!" => Size[c.arg] < Size[c]
        /\ c.op \in {"&&", "||"} => Size[c.left] < Size[c] /\ Size[c.right] < Size[c]

\* Priorities and saliences are numbers, identifiers are in an order that numbers stand
\* for, and the actions of a rule come in an order.
IsRuleList(s) ==
    /\ s \in Seq({s[i] : i \in DOMAIN s})
    /\ \A i \in DOMAIN s :
          /\ s[i].priority \in Int /\ s[i].salience \in Int /\ s[i].id \in Int
          /\ s[i].condition \in Conditions
          /\ s[i].actions \in Seq({s[i].actions[k] : k \in DOMAIN s[i].actions})

\* The lists of rules of a rule set: its own, and those of the stages of its workflows.
Lists(set) ==
    {set.rules} \cup
        UNION {{set.workflows[w].stages[n].rules : n \in DOMAIN set.workflows[w].stages} :
                  w \in DOMAIN set.workflows}

ASSUME RuleSetsAssumption == \A set \in RuleSets : \A s \in Lists(set) : IsRuleList(s)

-----------------------------------------------------------------------------
\* Conditions.

\* Without strict mode a comparison that makes no sense is false.
NativeCompare(op, v, w) ==
    CASE op = "==" -> Equal(v, w)
      [] op = "!=" -> ~Equal(v, w)
      [] OTHER     -> Numeric(v) /\ Numeric(w) /\ Relation(op, v.n, w.n)

In(v, values) == \E w \in values : Equal(v, w)

\* An operand: a constant, a membership or a comparison.
OperandHolds(c, facts) ==
    CASE c.op = "none"   -> TRUE
      [] c.op = "lit"    -> c.value
      [] c.op = "in"     -> In(facts[c.field], c.lits)
      [] c.op = "not in" -> ~In(facts[c.field], c.lits)
      [] OTHER           -> NativeCompare(c.op, facts[c.field], c.lit)

\* What each condition says of some facts, when it is evaluated as a tree.
Native(facts) ==
    LET holds[c \in Conditions] ==
            CASE c.op = "!"  -> ~holds[c.arg]
              [] c.op = "&&" -> holds[c.left] /\ holds[c.right]
              [] c.op = "||" -> holds[c.left] \/ holds[c.right]
              [] OTHER       -> OperandHolds(c, facts)
    IN  holds

-----------------------------------------------------------------------------
\* Rules.

\* The types of a rule's actions, in order; "allow" and "deny" are its words too.
ActionTypes(r) == {r.actions[i].type : i \in DOMAIN r.actions}

ruleAllows(r) == r.decision = "allow" \/ "allow" \in ActionTypes(r)
ruleDenies(r) == r.decision = "deny" \/ "deny" \in ActionTypes(r)

\* The order in which rules are considered; equal rules keep their places.
Precedes(r, s) ==
    r.priority > s.priority \/ (r.priority = s.priority /\ r.salience > s.salience)

\* A slip: with AllowOverrides only the decision of a rule is looked at.
shouldStopForMode_DecisionOnly(mode, r) ==
    \/ mode \in {"FirstMatch", "HighestPriority"}
    \/ mode = "DenyOverrides" /\ ruleDenies(r)
    \/ mode = "AllowOverrides" /\ r.decision = "allow"

\* Whether a rule ends the list it is in, once it has matched.
shouldStopForMode(mode, r) ==
    \/ mode \in {"FirstMatch", "HighestPriority"}
    \/ mode = "DenyOverrides" /\ ruleDenies(r)
    \/ mode = "AllowOverrides" /\ ruleAllows(r)

EndsList(mode, r) == r.stop \/ r.next # "" \/ shouldStopForMode(mode, r)

\* A rule is looked at when it is enabled and within its window of validity.
Active(r) == r.enabled /\ r.valid

ConditionHolds(r, facts) == Active(r) /\ Native(facts)[r.condition]

\* Whether a rule matches: its condition and its group. The rules of a group
\* have no groups of their own here.
evalGroup(group, facts) ==
    LET matching == {i \in DOMAIN group.rules : ConditionHolds(group.rules[i], facts)}
    IN  CASE group.mode = "absent" -> TRUE
          [] group.mode = "all"    -> matching = DOMAIN group.rules
          [] group.mode = "any"    -> matching # {}
          [] group.mode = "none"   -> matching = {}

RuleMatches(r, facts) == ConditionHolds(r, facts) /\ evalGroup(r.group, facts)

\* What stands for a rule set before there is one.
NoRuleSet == [mode |-> "AllMatches", rules |-> <<>>, workflows |-> <<>>]

Matching(rules, facts) == {i \in DOMAIN rules : RuleMatches(rules[i], facts)}
=============================================================================
