---------------------------- MODULE Aggregation ----------------------------
(* The aggregate functions as the interpreter calls them (aggregation.go).    *)
(* Each walks over a collection once and hands every item to a closure that    *)
(* keeps what it needs: Visit is what a closure does with one item, and Result *)
(* what the function makes of what was kept.                                   *)
(*                                                                             *)
(* A call names what it computes (agg) of which of the items: those of a       *)
(* group, those that a predicate accepts, or both, so that agg "avg" with both *)
(* is groupAvgWhere. A field is a path; NoField stands for an argument that is *)
(* not there, <<>> for the empty text.                                         *)
EXTENDS FactValues

LOCAL INSTANCE SequencesExt
LOCAL INSTANCE FiniteSets

CONSTANTS Beginnings  \* the pairs of texts of which the second begins the first

NoField == <<"none">>
NoPredicate == [form |-> "none"]
NoGroup == [field |-> NoField]

Failure(error) == [kind |-> "error", error |-> error]
Ratio(sum, count) == [kind |-> "ratio", n |-> sum, d |-> count]

Numbers == {"sum", "avg", "min", "max", "top", "bottom", "percentile"}
Quantifiers == {"any", "all", "none"}

-----------------------------------------------------------------------------
\* Predicates over an item.

evalOperator(op, v, w) ==
    CASE op = "=="         -> Said(Equal(v, w))
      [] op = "!="         -> Said(~Equal(v, w))
      [] op \in {"<", "<=", ">", ">="} -> IF Comparable(v, w) THEN Said(Compare(op, v, w)) ELSE "incomparable"
      [] op = "in"         -> contains(w, v)
      [] op = "not in"     -> Opposite(contains(w, v))
      [] op = "contains"   -> contains(v, w)
      [] op = "startswith" -> Said(Textual(v) /\ Textual(w) /\ <<TextOf(v), TextOf(w)>> \in Beginnings)
      [] OTHER             -> "unknown operator"

\* The value of an item that a predicate looks at: one that is not there is nil.
Found(v) == IF v = Absent THEN Missing ELSE v

matchAggregateItem(item, p) ==
    LET v == Found(lookupPath(item, p.field))
    IN  CASE p.form = "truthy" -> Said(truthy(v))
          [] p.form = "equal"  -> Said(Equal(v, p.lit))
          [] p.form = "op"     -> evalOperator(p.op, v, p.lit)

InGroup(item, group) ==
    LET key == lookupPath(item, group.field) IN key # Absent /\ Equal(key, group.value)

\* Whether a call is about an item: the group comes before the predicate.
Selected(call, item) ==
    CASE call.group # NoGroup /\ ~InGroup(item, call.group) -> "no"
      [] call.pred = NoPredicate -> "yes"
      [] OTHER -> matchAggregateItem(item, call.pred)

\* The value that is aggregated: the item itself without a field.
Aggregated(call, item) ==
    IF call.field \in {NoField, <<>>} THEN item ELSE lookupPath(item, call.field)

-----------------------------------------------------------------------------
\* What is kept between two items.
Fresh == [count |-> 0, sum |-> 0, best |-> 0, seen |-> FALSE, matched |-> FALSE,
          out |-> Missing, list |-> <<>>, keys |-> <<>>, error |-> "none"]

Better(agg, n, best) == IF agg \in {"max", "top"} THEN n > best ELSE n < best

\* One number more, of the item it comes from.
TakeNumber(agg, acc, item, n) ==
    LET counted == [acc EXCEPT !.count = @ + 1, !.sum = @ + n, !.list = Append(@, n)]
    IN  IF agg \in {"min", "max", "top", "bottom"} /\ (~acc.seen \/ Better(agg, n, acc.best))
        THEN [counted EXCEPT !.best = n, !.out = item, !.seen = TRUE] ELSE counted

\* distinct and distinctCount keep a value once: %T:%#v tells 1 from 1.0, fmt.Sprint does not.
distinctKey(v) == v
aggregateGroupKey(v) ==
    CASE Numeric(v) -> <<"number", v.n>>
      [] Textual(v) -> <<"text", TextOf(v)>>
      [] OTHER      -> <<v.kind, v>>

TakeOnce(acc, v, key) ==
    IF \E i \in DOMAIN acc.keys : acc.keys[i] = key THEN acc
    ELSE [acc EXCEPT !.list = Append(@, v), !.keys = Append(@, key)]

\* sum, avg, min and max take a field that is the empty text for none.
PassesOverMissing(call) ==
    \/ call.field \notin {NoField, <<>>}
    \/ call.agg \in {"top", "bottom", "percentile"} \/ call.group # NoGroup

\* What a function keeps of an item it is about.
Take(call, acc, item) ==
    LET v == Aggregated(call, item)
    IN  CASE call.agg \in Numbers ->
               IF PassesOverMissing(call) /\ Found(v) = Missing THEN acc
               ELSE IF ~Numeric(v) THEN [acc EXCEPT !.error = "not numeric"]
               ELSE TakeNumber(call.agg, acc, item, v.n)
          [] call.agg = "count" -> [acc EXCEPT !.count = @ + 1]
          [] call.agg = "first" -> IF acc.seen THEN acc ELSE [acc EXCEPT !.out = item, !.seen = TRUE]
          [] call.agg = "last"  -> [acc EXCEPT !.out = item]
          [] call.agg = "pluck" -> IF v = Absent THEN acc ELSE [acc EXCEPT !.list = Append(@, v)]
          [] call.agg = "distinct" -> IF v = Absent THEN acc ELSE TakeOnce(acc, v, distinctKey(v))
          [] call.agg = "distinctCount" ->
               IF Found(v) = Missing THEN acc ELSE TakeOnce(acc, v, aggregateGroupKey(v))
          [] call.agg = "groupBy" ->
               IF Found(v) = Missing THEN acc ELSE [acc EXCEPT !.keys = Append(@, aggregateGroupKey(v))]
          [] OTHER -> [acc EXCEPT !.list = Append(@, item)]

\* any and none look at no item after one that matches, all at none after one that does not.
Settled(call, acc) ==
    \/ call.agg \in {"any", "none"} /\ acc.matched
    \/ call.agg = "all" /\ acc.seen /\ ~acc.matched

Visit(call, acc, item) ==
    LET verdict == Selected(call, item)
    IN  CASE Settled(call, acc) -> acc
          [] verdict \notin {"yes", "no"} -> [acc EXCEPT !.error = verdict]
          [] call.agg \in Quantifiers -> [acc EXCEPT !.seen = TRUE, !.matched = (verdict = "yes")]
          [] verdict = "no" -> acc
          [] OTHER -> Take(call, acc, item)

-----------------------------------------------------------------------------
\* What the functions make of it.

\* sortFloat64s, one number after the other.
InsertNumber(sorted, n) ==
    SelectSeq(sorted, LAMBDA m : m <= n) \o <<n>> \o SelectSeq(sorted, LAMBDA m : m > n)
sortFloat64s(numbers) == FoldLeft(InsertNumber, <<>>, numbers)

\* The share p in two hundredths: above one it is a percentage.
Share(p) ==
    LET share == IF p > 2 THEN p ELSE 100 * p
    IN  IF share < 0 THEN 0 ELSE IF share > 200 THEN 200 ELSE share

\* The index that math.Round gives, from 0.
PercentileIndex(p, length) == (2 * Share(p) * (length - 1) + 200) \div 400

Percentile(numbers, p) ==
    IF numbers = <<>> THEN Missing
    ELSE IF ~Numeric(p) THEN Failure("not numeric")
    ELSE Float(sortFloat64s(numbers)[PercentileIndex(p.n, Len(numbers)) + 1])

\* int(n) cuts the fraction off; a negative index counts from the end.
collectionIndex(v, length) ==
    LET i == Truncated(v.n) IN IF i >= 0 THEN i ELSE IF length + i >= 0 THEN length + i ELSE 0

AtMost(n, length) == IF n > length THEN length ELSE n

SliceOf(items, args) ==
    LET start == AtMost(collectionIndex(args[1], Len(items)), Len(items))
        given == IF Len(args) = 2 THEN collectionIndex(args[2], Len(items)) ELSE Len(items)
        end   == AtMost(given, Len(items))
    IN  SubSeq(items, start + 1, end)

\* What neither numbers nor texts decide goes by moments, or by how it is printed:
\* a number before every text but the empty one.
compareSortValues(v, w) ==
    CASE Comparable(v, w) -> Compare("<", v, w)
      [] ~Comparable(v, w) /\ IsTime(v) /\ IsTime(w) -> Moment(v) < Moment(w)
      [] OTHER -> IF Numeric(v) THEN Textual(w) /\ TextOf(w) # 0
                                ELSE Textual(v) /\ TextOf(v) = 0 /\ Numeric(w)

\* A slip: an item without the field comes before the others when they descend.
SortLess_MissingFirst(call, x, y) ==
    LET v == lookupPath(x, call.field)  w == lookupPath(y, call.field)
    IN  CASE Found(v) = Missing -> call.descending /\ Found(w) # Missing
          [] Found(w) = Missing -> ~call.descending
          [] OTHER -> IF call.descending THEN compareSortValues(w, v) ELSE compareSortValues(v, w)

\* The comparison of sortBy: an item without the field comes after the others.
SortLess(call, x, y) ==
    LET v == lookupPath(x, call.field)  w == lookupPath(y, call.field)
    IN  CASE Found(v) = Missing -> FALSE
          [] Found(w) = Missing -> TRUE
          [] OTHER -> IF call.descending THEN compareSortValues(w, v) ELSE compareSortValues(v, w)

\* sort.SliceStable, which inserts while there are fewer than twenty items: an item
\* moves down past those it is less than.
SliceStable(call, items) ==
    LET insert(sorted, x) ==
            LET stop == {k \in 1 .. Len(sorted) : ~SortLess(call, x, sorted[k])}
                place == IF stop = {} THEN 0 ELSE CHOOSE k \in stop : \A j \in stop : j <= k
            IN  SubSeq(sorted, 1, place) \o <<x>> \o SubSeq(sorted, place + 1, Len(sorted))
    IN  FoldLeft(insert, <<>>, items)

Indexed(call, items) ==
    IF \E i \in DOMAIN call.args : ~Numeric(call.args[i]) THEN Failure("not numeric")
    ELSE CASE call.agg = "take" -> List(SubSeq(items, 1, AtMost(collectionIndex(call.args[1], Len(items)), Len(items))))
           [] call.agg = "skip" -> List(SubSeq(items, AtMost(collectionIndex(call.args[1], Len(items)), Len(items)) + 1, Len(items)))
           [] call.agg = "slice" -> List(SliceOf(items, call.args))

\* sum, avg, min and max of what was kept; min and max of nothing are nil.
NumberResult(agg, acc) ==
    CASE agg = "sum" -> Float(acc.sum)
      [] agg = "avg" -> IF acc.count = 0 THEN Float(0) ELSE Ratio(acc.sum, acc.count)
      [] agg \in {"min", "max"} -> IF acc.seen THEN Float(acc.best) ELSE Missing

Result(call, acc) ==
    CASE acc.error # "none" -> Failure(acc.error)
      [] call.agg = "count" -> Float(2 * acc.count)
      [] call.agg \in {"sum", "avg", "min", "max"} -> NumberResult(call.agg, acc)
      [] call.agg \in {"top", "bottom", "first", "last"} -> acc.out
      [] call.agg = "percentile" -> Percentile(acc.list, call.args[1])
      [] call.agg = "any"  -> Truth(acc.matched)
      [] call.agg = "none" -> Truth(~acc.matched)
      [] call.agg = "all"  -> Truth(acc.seen /\ acc.matched)
      [] call.agg = "distinctCount" -> Float(2 * Len(acc.keys))
      [] call.agg = "groupBy" ->
           [kind |-> "map", at |-> [key \in {acc.keys[i] : i \in DOMAIN acc.keys} |->
                Float(2 * Cardinality({i \in DOMAIN acc.keys : acc.keys[i] = key}))]]
      [] call.agg = "sortBy"  -> List(SliceStable(call, acc.list))
      [] call.agg = "reverse" -> List(Reverse(acc.list))
      [] call.agg \in {"take", "skip", "slice"} -> Indexed(call, acc.list)
      [] OTHER -> List(acc.list)
=============================================================================
