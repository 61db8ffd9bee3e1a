--------------------------- MODULE BytecodeProgram ---------------------------
(* bytecode.go: CompileRuleSet, the runtime that holds a program, and a call   *)
(* of Program.Evaluate over typed facts: the candidates that the index finds,  *)
(* in order, the instructions of each on a stack of Booleans, what it applies. *)
(*                                                                             *)
(* All rules are of one namespace. Scores and time stamps are left out.        *)
EXTENDS RuleSets, SequencesExt

CONSTANTS
    Facts,   \* the typed facts that callers bring, by field
    Options  \* the modes that WithExecutionMode gives, "AllMatches" by default

VARIABLES
    actionVals,  \* the registry's names of actions and payloads, in order of their numbers
    engine,      \* the runtime's program, once there is one
    program,     \* the one that the call holds
    facts,       \* what the call is about
    run,         \* "idle", "scan", "execute", "panic", "returned"
    candidates,  \* the places of the rules that are still to come
    current,     \* the place of the rule that is executed
    pc,          \* its next instruction
    stack,       \* the stack of Booleans
    out          \* the result so far

machineVars == <<current, pc, stack>>
vars == <<actionVals, engine, program, facts, run, candidates, machineVars, out>>

-----------------------------------------------------------------------------
\* Compilation of conditions.

Instruction(op) == <<[op |-> op]>>

compileOperand(c) ==
    CASE c.op = "none" -> Instruction("exists")
      [] c.op = "lit"  -> Instruction(IF c.value THEN "exists" ELSE "not exists")
      [] OTHER         -> <<c>>

compileBytecodeExpr ==
    LET code[c \in Conditions] ==
            CASE c.op = "!"  -> code[c.arg] \o Instruction("not")
              [] c.op = "&&" -> code[c.left] \o code[c.right] \o Instruction("and")
              [] c.op = "||" -> code[c.left] \o code[c.right] \o Instruction("or")
              [] OTHER       -> compileOperand(c)
    IN  code

countSpecificity ==
    LET count[c \in Conditions] ==
            CASE c.op = "!"            -> count[c.arg]
              [] c.op \in {"&&", "||"} -> count[c.left] + count[c.right]
              [] OTHER                 -> IF c.op \in {"none", "lit"} THEN 0 ELSE 1
    IN  count

\* The key that a condition is indexed by: its first equality, also below a disjunction.
firstEqualityIndex ==
    LET first[c \in Conditions] ==
            CASE c.op \in {"&&", "||"} -> IF first[c.left] # {} THEN first[c.left] ELSE first[c.right]
              [] c.op = "==" /\ c.lit.kind # "missing" -> {[field |-> c.field, lit |-> c.lit]}
              [] OTHER -> {}
    IN  first

-----------------------------------------------------------------------------
\* Compilation of rule sets.

KnownActions == <<"allow", "deny", "score", "require_approval", "notify", "assign",
                  "route", "set_field", "escalate", "generate_document", "webhook">>
ActionAllow == 1
ActionDeny == 2

actionRef(names, name) == IF Contains(names, name) THEN names ELSE Append(names, name)

\* The number of an action: that of a known type, else the next of the registry's
\* references, which payloads take theirs from too.
actionType(names, type) ==
    IF Contains(KnownActions, type)
    THEN CHOOSE n \in DOMAIN KnownActions : KnownActions[n] = type
    ELSE CHOOSE n \in DOMAIN names : names[n] = type

ReferencesOf(action) ==
    (IF Contains(KnownActions, action.type) THEN <<>> ELSE <<action.type>>) \o action.payload

\* The registry once a rule set is compiled, the rules that are not enabled included.
Registered(names, rs) ==
    LET references[i \in 0 .. Len(rs.rules)] ==
            IF i = 0 THEN <<>>
            ELSE references[i - 1]
                 \o FlattenSeq([k \in DOMAIN rs.rules[i].actions |->
                                    ReferencesOf(rs.rules[i].actions[k])])
    IN  FoldLeft(actionRef, names, references[Len(rs.rules)])

compileActions(names, r) ==
    (CASE r.decision = "allow" -> <<ActionAllow>>
       [] r.decision = "deny"  -> <<ActionDeny>>
       [] OTHER                -> <<>>)
    \o [k \in DOMAIN r.actions |-> actionType(names, r.actions[k].type)]

compileBytecodeRule(names, r) ==
    [id           |-> r.id,
     priority     |-> r.priority,
     salience     |-> r.salience,
     specificity  |-> countSpecificity[r.condition],
     valid        |-> r.valid,
     instructions |-> compileBytecodeExpr[r.condition],
     actions      |-> compileActions(names, r),
     decision     |-> r.decision,
     keys         |-> firstEqualityIndex[r.condition]]

CompileRuleSet(names, rs, option) ==
    [source |-> rs,
     mode   |-> IF rs.mode = "FirstMatch" THEN option ELSE rs.mode,
     rules  |-> [i \in {k \in DOMAIN rs.rules : rs.rules[k].enabled} |->
                    compileBytecodeRule(names, rs.rules[i])]]

-----------------------------------------------------------------------------
\* Instructions.

\* A literal against an integer loses its fraction.
LiteralFor(v, lit) ==
    IF v.kind = "int" /\ lit.kind = "float" THEN 2 * Truncated(lit.n) ELSE lit.n

evalCompare(op, v, lit) ==
    IF v.kind = "missing" THEN op = "!=" /\ lit.kind = "missing"
    ELSE /\ v.kind = lit.kind \/ (Numeric(v) /\ Numeric(lit))
         /\ Relation(op, v.n, LiteralFor(v, lit))

\* A set keeps its members by kind, and a fact is looked up among its own.
evalIn(v, lits) == v.kind # "missing" /\ v \in lits

Pushes(ins) ==
    CASE ins.op = "exists"     -> TRUE
      [] ins.op = "not exists" -> FALSE
      [] ins.op = "in"         -> evalIn(facts[ins.field], ins.lits)
      [] ins.op = "not in"     -> ~evalIn(facts[ins.field], ins.lits)
      [] OTHER                 -> evalCompare(ins.op, facts[ins.field], ins.lit)

\* A slip: "not" leaves its operand on the stack.
Operands_NotKeepsIts(ins) == IF ins.op \in {"and", "or"} THEN 2 ELSE 0

Operands(ins) ==
    CASE ins.op \in {"and", "or"} -> 2
      [] ins.op = "not"           -> 1
      [] OTHER                    -> 0

Top(k) == stack[Len(stack) - k]

Outcome(ins) ==
    CASE ins.op = "and" -> Top(1) /\ Top(0)
      [] ins.op = "or"  -> Top(1) \/ Top(0)
      [] ins.op = "not" -> ~Top(0)
      [] OTHER          -> Pushes(ins)

-----------------------------------------------------------------------------
NoProgram == [source |-> NoRuleSet, mode |-> "AllMatches", rules |-> <<>>]

NoResult == [matched |-> FALSE, ids |-> <<>>, allowed |-> FALSE, decision |-> ""]

\* The application compiles a rule set and hands it to the runtime.
Reload(rs, option) ==
    /\ actionVals' = Registered(actionVals, rs)
    /\ engine' = {CompileRuleSet(actionVals', rs, option)}
    /\ UNCHANGED <<program, facts, run, candidates, machineVars, out>>

typedFactEqualsKey(f, key) ==
    f[key.field].kind # "missing" /\ evalCompare("==", f[key.field], key.lit)

Candidates(p, f) ==
    LET bucket == {i \in DOMAIN p.rules : \E key \in p.rules[i].keys : typedFactEqualsKey(f, key)}
        default == {i \in DOMAIN p.rules : p.rules[i].keys = {}}
    IN  bucket \cup default

Evaluate(f) ==
    /\ run \in {"idle", "returned"}
    /\ facts' = f
    /\ out' = NoResult
    /\ \/ engine = {} /\ run' = "returned" /\ UNCHANGED <<program, candidates>>
       \/ \E p \in engine :
             /\ program' = p
             /\ candidates' = Candidates(p, f)
             /\ run' = "scan"
    /\ UNCHANGED <<actionVals, engine, machineVars>>

\* A slip: specificity comes before salience.
CompiledPrecedes_SpecificityFirst(r, s) ==
    \/ r.priority > s.priority
    \/ /\ r.priority = s.priority
       /\ \/ r.specificity > s.specificity
          \/ r.specificity = s.specificity /\ (Precedes(r, s) \/ (~Precedes(s, r) /\ r.id < s.id))

CompiledPrecedes(r, s) ==
    \/ Precedes(r, s)
    \/ /\ ~Precedes(s, r)
       /\ r.specificity > s.specificity \/ (r.specificity = s.specificity /\ r.id < s.id)

\* The candidate whose turn it is.
Turn == CHOOSE i \in candidates :
            \A j \in candidates \ {i} :
                CompiledPrecedes(program.rules[i], program.rules[j])
                \/ (~CompiledPrecedes(program.rules[j], program.rules[i]) /\ i < j)

NextRule ==
    /\ run = "scan" /\ candidates # {}
    /\ candidates' = candidates \ {Turn}
    /\ IF program.rules[Turn].valid
       THEN run' = "execute" /\ current' = Turn /\ pc' = 1 /\ stack' = <<>>
       ELSE UNCHANGED <<run, machineVars>>
    /\ UNCHANGED <<actionVals, engine, program, facts, out>>

Instructions == program.rules[current].instructions

Execute ==
    /\ run = "execute" /\ pc <= Len(Instructions)
    /\ LET ins == Instructions[pc]
           n   == Operands(ins)
       IN  IF Len(stack) < n
           THEN run' = "panic" /\ UNCHANGED machineVars
           ELSE /\ stack' = Append(SubSeq(stack, 1, Len(stack) - n), Outcome(ins))
                /\ pc' = pc + 1
                /\ UNCHANGED <<run, current>>
    /\ UNCHANGED <<actionVals, engine, program, facts, candidates, out>>

Executed == run = "execute" /\ pc > Len(Instructions)

Holds == stack # <<>> /\ Top(0)

Reject ==
    /\ Executed /\ ~Holds
    /\ run' = "scan"
    /\ UNCHANGED <<actionVals, engine, program, facts, candidates, machineVars, out>>

\* The last action that allows or denies decides.
AllowedBy(actions, allowed) ==
    \/ \E k \in DOMAIN actions :
          actions[k] = ActionAllow /\ \A j \in DOMAIN actions : j > k => actions[j] # ActionDeny
    \/ allowed /\ \A k \in DOMAIN actions : actions[k] # ActionDeny

EndsScan(mode, r) ==
    \/ mode \in {"FirstMatch", "HighestPriority"}
    \/ mode = "DenyOverrides" /\ Contains(r.actions, ActionDeny)
    \/ mode = "AllowOverrides" /\ Contains(r.actions, ActionAllow)

ApplyRule ==
    /\ Executed /\ Holds
    /\ LET r == program.rules[current]
       IN  /\ out' = [matched  |-> TRUE,
                      ids      |-> Append(out.ids, r.id),
                      allowed  |-> AllowedBy(r.actions, out.allowed),
                      decision |-> IF r.decision = "" THEN out.decision ELSE r.decision]
           /\ run' = IF EndsScan(program.mode, r) THEN "returned" ELSE "scan"
    /\ UNCHANGED <<actionVals, engine, program, facts, candidates, machineVars>>

Return ==
    /\ run = "scan" /\ candidates = {}
    /\ run' = "returned"
    /\ UNCHANGED <<actionVals, engine, program, facts, candidates, machineVars, out>>

Init ==
    /\ actionVals = <<>> /\ engine = {} /\ program = NoProgram
    /\ facts = (CHOOSE f \in Facts : TRUE)
    /\ run = "idle" /\ candidates = {} /\ current = 0 /\ pc = 1 /\ stack = <<>>
    /\ out = NoResult

Proceed == NextRule \/ Execute \/ Reject \/ ApplyRule \/ Return

Next ==
    \/ \E rs \in RuleSets, option \in Options : Reload(rs, option)
    \/ \E f \in Facts : Evaluate(f)
    \/ Proceed

Spec == Init /\ [][Next]_vars /\ WF_vars(Proceed)
=============================================================================
