----------------------------- MODULE RuleChoice -----------------------------
(* What the evaluation of one list of rules promises, whoever performs it: of  *)
(* the rules that match it applies the foremost, then the next, and so on,     *)
(* until one of them ends the list or none is left. Rules of equal rank may    *)
(* come in any order. An evaluation may fail at any moment, and then says so.  *)
EXTENDS Integers, Sequences

CONSTANTS Precedes(_, _), EndsList(_, _)

VARIABLES
    rules,     \* the list
    matching,  \* the places of the rules that match
    mode,      \* the execution mode
    applied,   \* the places of the rules that were applied, in order
    list       \* "open", "closed" or "failed"

vars == <<rules, matching, mode, applied, list>>

Left == matching \ {applied[k] : k \in DOMAIN applied}
Foremost == {i \in Left : \A j \in Left : ~Precedes(rules[j], rules[i])}

Init == list = "closed" /\ applied = <<>>

Begin ==
    /\ list # "open"
    /\ list' = "open"
    /\ applied' = <<>>
    /\ matching' \subseteq DOMAIN rules'

Apply ==
    /\ list = "open"
    /\ \E i \in Foremost :
          /\ applied' = Append(applied, i)
          /\ list' = IF EndsList(mode, rules[i]) THEN "closed" ELSE "open"
    /\ UNCHANGED <<rules, matching, mode>>

Close ==
    /\ list = "open"
    /\ Left = {}
    /\ list' = "closed"
    /\ UNCHANGED <<rules, matching, mode, applied>>

\* The rule that was to be applied may be the one that failed.
Fail ==
    /\ list = "open"
    /\ list' = "failed"
    /\ applied' \in {applied} \cup {Append(applied, i) : i \in Foremost}
    /\ UNCHANGED <<rules, matching, mode>>

Next == Begin \/ Apply \/ Close \/ Fail

Spec == Init /\ [][Next]_vars
=============================================================================
