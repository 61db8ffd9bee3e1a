------------------------- MODULE NativeAggregation -------------------------
(* The aggregate functions that an expression is compiled to (rank_native.go) *)
(* when it calls no other function. They walk over Go values as they are, and  *)
(* a filter is no list but a predicate that the walk of the outer function     *)
(* applies to each item.                                                       *)
EXTENDS Aggregation

\* Without a predicate these are compiled, and only these.
nativeAggregates == {"sum", "avg", "min", "max"}
PlainNatives == nativeAggregates \cup {"count", "top", "bottom", "percentile"}

\* Whether a call is compiled: the items of a group only with an operator, to be
\* counted or averaged.
Compilable(call) ==
    CASE call.group # NoGroup -> call.agg \in {"count", "avg"} /\ call.pred.form = "op"
      [] call.pred # NoPredicate -> call.agg \in Quantifiers \cup {"count"}
      [] OTHER -> call.agg \in PlainNatives

-----------------------------------------------------------------------------
\* Predicates.

\* Other operators are registered, but no function for them is passed on.
NativeOperators == {"==", "!=", "<", "<=", ">", ">=", "in", "not in", "contains"}
evalNativeOperator(op, v, w) ==
    IF op \in NativeOperators THEN evalOperator(op, v, w) ELSE "unknown operator"

\* Without strict mode what cannot be decided is false.
evalNativeOperatorStrict(op, v, w, strict) ==
    LET verdict == evalNativeOperator(op, v, w)
    IN  IF verdict \in {"yes", "no"} \/ strict THEN verdict ELSE "no"

nativeItemPredicate(item, p, strict) ==
    LET v == Found(lookupParts(item, Split(p.field)))
    IN  CASE p.form = "truthy" -> Said(truthy(v))
          [] p.form = "equal"  -> Said(Equal(v, p.lit))
          [] p.form = "op"     -> evalNativeOperatorStrict(p.op, v, p.lit, strict)

-----------------------------------------------------------------------------
\* One item.

NativeAggregated(call, item) ==
    IF call.field = NoField THEN item ELSE lookupParts(item, Split(call.field))

NativeNumber(call, acc, item) ==
    LET v == NativeAggregated(call, item)
    IN  CASE call.field # NoField /\ Found(v) = Missing -> acc
          [] ~(call.field # NoField /\ Found(v) = Missing) /\ ~Numeric(v) -> [acc EXCEPT !.error = "not numeric"]
          [] OTHER -> TakeNumber(call.agg, acc, item, v.n)

\* An item of a group is counted before its number is looked for.
NativeGroupItem(call, acc, item) ==
    LET counted == [acc EXCEPT !.count = @ + 1]
        v == NativeAggregated(call, item)
    IN  CASE call.agg = "count" \/ Found(v) = Missing -> counted
          [] call.agg # "count" /\ Found(v) # Missing /\ ~Numeric(v) -> [counted EXCEPT !.error = "not numeric"]
          [] OTHER -> [counted EXCEPT !.sum = @ + v.n]

\* none goes on after a match.
NativeSettled(call, acc) ==
    \/ call.agg = "any" /\ acc.matched
    \/ call.agg = "all" /\ acc.seen /\ ~acc.matched

\* A slip: none forgets a match when an item comes that does not.
Quantified_LastOnly(call, acc, verdict) ==
    [acc EXCEPT !.seen = TRUE, !.matched = (verdict = "yes")]

Quantified(call, acc, verdict) ==
    [acc EXCEPT !.seen = TRUE,
                !.matched = (verdict = "yes") \/ (call.agg = "none" /\ @)]

NativeItem(call, acc, item, strict) ==
    LET inGroup == call.group = NoGroup
                   \/ LET key == lookupParts(item, Split(call.group.field))
                      IN  key # Absent /\ Equal(key, call.group.value)
        verdict == IF call.pred = NoPredicate THEN "yes" ELSE nativeItemPredicate(item, call.pred, strict)
    IN  CASE ~inGroup \/ NativeSettled(call, acc) -> acc
          [] inGroup /\ ~NativeSettled(call, acc) /\ verdict \notin {"yes", "no"} -> [acc EXCEPT !.error = verdict]
          [] OTHER -> IF call.agg \in Quantifiers THEN Quantified(call, acc, verdict)
                      ELSE IF verdict = "no" THEN acc
                      ELSE IF call.group # NoGroup THEN NativeGroupItem(call, acc, item)
                      ELSE IF call.agg = "count" THEN [acc EXCEPT !.count = @ + 1]
                      ELSE NativeNumber(call, acc, item)

\* count(c) takes the length of c, and an error of a filter ends the counting only.
CountsLength(call) == call.agg = "count" /\ call.pred = NoPredicate /\ call.group = NoGroup

NativeVisit(call, acc, item, strict) ==
    LET verdict == IF call.filter = NoPredicate THEN "yes" ELSE nativeItemPredicate(item, call.filter, strict)
    IN  CASE verdict = "yes" -> NativeItem(call, acc, item, strict)
          [] verdict = "no"  -> acc
          [] OTHER -> IF CountsLength(call) THEN [acc EXCEPT !.seen = TRUE] ELSE [acc EXCEPT !.error = verdict]

-----------------------------------------------------------------------------
NativeResult(call, acc) ==
    CASE call.agg = "percentile" /\ ~Numeric(call.args[1]) -> Failure("not numeric")
      [] acc.error # "none" -> Failure(acc.error)
      [] OTHER -> Result(call, acc)
=============================================================================
