----------------------------- MODULE FactValues -----------------------------
(* The values that facts, literals and arguments have (value_helpers.go), how *)
(* a path is followed into one (facts.go), and what becomes of one on its way  *)
(* through the interpreter and back (types.go).                                *)
(*                                                                             *)
(* A value is a record with its kind. Numbers count halves, so that            *)
(* [kind |-> "float", n |-> 3] is 1.5; "sized" are the number types other than *)
(* int, int64 and float64. Texts are numbers that name them in their order, 0  *)
(* the empty one: a "string", a "numeral" that also reads as the number n, a   *)
(* "stamp" that also reads as the moment at. A "list" has items, and is of     *)
(* strings or of anything; a "map" has a value at each of some names.          *)
EXTENDS Integers, Sequences

Missing == [kind |-> "missing", n |-> 0]
\* What a path that leads nowhere finds.
Absent == [kind |-> "absent"]

Whole(n) == [kind |-> "int", n |-> 2 * n]
Float(n) == [kind |-> "float", n |-> n]
Truth(b) == [kind |-> "bool", n |-> IF b THEN 1 ELSE 0]
List(items) == [kind |-> "list", of |-> "any", items |-> items]

Numeric(v) == v.kind \in {"int", "float", "sized", "numeral"}
Textual(v) == v.kind \in {"string", "numeral", "stamp"}
TextOf(v) == IF v.kind = "string" THEN v.n ELSE v.text

-----------------------------------------------------------------------------
\* value_helpers.go

Equal(v, w) == IF Numeric(v) /\ Numeric(w) THEN v.n = w.n ELSE v = w

Relation(op, a, b) ==
    CASE op = "==" -> a = b
      [] op = "!=" -> a # b
      [] op = ">"  -> a > b
      [] op = ">=" -> a >= b
      [] op = "<"  -> a < b
      [] op = "<=" -> a <= b

\* Numbers are compared as numbers, two texts of which one is none as texts.
Comparable(v, w) == (Numeric(v) /\ Numeric(w)) \/ (Textual(v) /\ Textual(w))
Compare(op, v, w) ==
    IF Numeric(v) /\ Numeric(w) THEN Relation(op, v.n, w.n)
                                ELSE Relation(op, TextOf(v), TextOf(w))

\* Whatever is no number of a common type, no text and no collection counts as true.
truthy(v) ==
    CASE v.kind \in {"missing", "absent"}  -> FALSE
      [] v.kind \in {"bool", "int", "float"} -> v.n # 0
      [] Textual(v)       -> TextOf(v) # 0
      [] v.kind = "list"  -> v.items # <<>>
      [] v.kind = "map"   -> DOMAIN v.at # {}
      [] OTHER            -> TRUE

isEmpty(v) ==
    CASE v.kind \in {"missing", "absent"} -> TRUE
      [] v.kind \in {"bool", "int", "float", "sized"} -> v.n = 0
      [] Textual(v)       -> TextOf(v) = 0
      [] v.kind = "list"  -> v.items = <<>>
      [] v.kind = "map"   -> DOMAIN v.at = {}
      [] OTHER            -> FALSE

\* Verdicts are "yes", "no" or the name of an error.
Said(b) == IF b THEN "yes" ELSE "no"
Opposite(v) == CASE v = "yes" -> "no" [] v = "no" -> "yes" [] OTHER -> v

\* Texts and maps as containers are left out.
contains(container, item) ==
    CASE container.kind = "list" /\ container.of = "string" ->
            Said(Textual(item) /\ \E i \in DOMAIN container.items : TextOf(container.items[i]) = TextOf(item))
      [] container.kind = "list" ->
            Said(\E i \in DOMAIN container.items : Equal(container.items[i], item))
      [] container.kind = "missing" -> "no"
      [] OTHER -> "unsupported"

-----------------------------------------------------------------------------
\* dsl_helpers.go: what reads as a moment, in seconds.

\* int(n), which cuts the fraction off.
Truncated(n) == IF n >= 0 THEN n \div 2 ELSE -((-n) \div 2)

IsTime(v) == v.kind \in {"time", "stamp", "int", "float"} \/ (v.kind = "numeral" /\ v.n % 2 = 0)
Moment(v) == IF v.kind \in {"time", "stamp"} THEN v.at ELSE Truncated(v.n)

-----------------------------------------------------------------------------
\* facts.go

\* One part of a path: a name of a map.
Child(v, part) == IF v.kind = "map" /\ part \in DOMAIN v.at THEN v.at[part] ELSE Absent

lookupParts(v, parts) ==
    LET found[n \in 0 .. Len(parts)] == IF n = 0 THEN v ELSE Child(found[n - 1], parts[n])
    IN  found[Len(parts)]

\* The empty path is the value itself, but strings.Split makes one part of it.
lookupPath(v, path) == lookupParts(v, path)
Split(path) == IF path = <<>> THEN <<"">> ELSE path

-----------------------------------------------------------------------------
\* types.go

\* A value on its way into the interpreter and out of it: numbers become int64 or
\* float64, times texts, and slices []any, down to the lists and maps of an item.
BridgeScalar(v) ==
    CASE v.kind = "sized" -> [kind |-> IF v.n % 2 = 0 THEN "int" ELSE "float", n |-> v.n]
      [] v.kind = "time"  -> [kind |-> "stamp", text |-> v.text, at |-> v.at]
      [] OTHER            -> v

Through(Part(_), v) ==
    CASE v.kind = "list" -> List([i \in DOMAIN v.items |-> Part(v.items[i])])
      [] v.kind = "map"  -> [v EXCEPT !.at = [f \in DOMAIN @ |-> Part(@[f])]]
      [] OTHER           -> BridgeScalar(v)

BridgePart(v) == Through(BridgeScalar, v)
BridgeItem(v) == Through(BridgePart, v)
Bridge(v) == Through(BridgeItem, v)
=============================================================================
