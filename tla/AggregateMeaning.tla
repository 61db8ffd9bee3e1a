-------------------------- MODULE AggregateMeaning --------------------------
(* What the aggregate functions are for: the answer to a call over a list of  *)
(* items, by the positions of the items it is about, without a walk and without *)
(* an algorithm that sorts or keeps anything.                                  *)
EXTENDS Aggregation

LOCAL INSTANCE SequencesExt
LOCAL INSTANCE FiniteSetsExt

Refused == [kind |-> "error"]

\* The items that a call is about, that it is not about, and that it cannot tell.
About(call, s) == {i \in DOMAIN s : Selected(call, s[i]) = "yes"}
NotAbout(call, s) == {i \in DOMAIN s : Selected(call, s[i]) = "no"}
Unclear(call, s) == DOMAIN s \ (About(call, s) \cup NotAbout(call, s))

FirstOf(S) == CHOOSE i \in S : \A j \in S : i <= j
LastOf(S) == CHOOSE i \in S : \A j \in S : i >= j
ItemsAt(s, S) == [k \in 1 .. Cardinality(S) |-> s[CHOOSE i \in S : Cardinality({j \in S : j < i}) = k - 1]]

\* The first item that decides does; one that cannot be told before it refuses.
QuantifierMeaning(call, s) ==
    LET deciding == IF call.agg = "all" THEN NotAbout(call, s) ELSE About(call, s)
        first == FirstOf(deciding \cup Unclear(call, s))
    IN  IF deciding \cup Unclear(call, s) # {} /\ first \in Unclear(call, s) THEN Refused
        ELSE Truth(CASE call.agg = "any"  -> deciding # {}
                     [] call.agg = "none" -> deciding = {}
                     [] call.agg = "all"  -> deciding = {} /\ s # <<>>)

\* The position that is as far as the share says, halves up, among n in their order.
RankOf(share, n) ==
    CHOOSE r \in 0 .. n - 1 : 200 * r - 100 <= share * (n - 1) /\ share * (n - 1) < 200 * r + 100

NumberMeaning(call, s, S) ==
    LET n == [i \in S |-> Aggregated(call, s[i]).n]
        sum == MapThenSumSet(LAMBDA i : n[i], S)
        best == {i \in S : \A j \in S : IF call.agg \in {"max", "top"} THEN n[i] >= n[j] ELSE n[i] <= n[j]}
        share == LET p == call.args[1].n IN IF p < 0 THEN 0 ELSE IF p <= 2 THEN 100 * p ELSE IF p > 200 THEN 200 ELSE p
    IN  CASE call.agg = "sum" -> Float(sum)
          [] call.agg = "avg" -> IF S = {} THEN Float(0) ELSE Ratio(sum, Cardinality(S))
          [] call.agg \notin {"sum", "avg"} /\ S = {} -> Missing
          [] call.agg \in {"min", "max"} /\ S # {} -> Float(n[FirstOf(best)])
          [] call.agg \in {"top", "bottom"} /\ S # {} -> s[FirstOf(best)]
          [] call.agg = "percentile" /\ S # {} ->
               LET r == RankOf(share, Cardinality(S))
                   i == CHOOSE i \in S : /\ Cardinality({j \in S : n[j] < n[i]}) <= r
                                         /\ Cardinality({j \in S : n[j] <= n[i]}) > r
               IN  Float(n[i])

\* sortBy puts an item after those that come before it: the smaller ones (the larger
\* ones when it descends), those without a value last, and equal ones as they were.
Orderly(call, s) ==
    LET values == {lookupPath(s[i], call.field) : i \in DOMAIN s} \ {Missing, Absent}
    IN  \A v, w \in values : Comparable(v, w)

SortMeaning(call, s) ==
    LET v(i) == lookupPath(s[i], call.field)
        empty(i) == Found(v(i)) = Missing
        smaller(i, j) == ~empty(i) /\ (empty(j) \/ Compare(IF call.descending THEN ">" ELSE "<", v(i), v(j)))
        before(i, j) == smaller(i, j) \/ (i < j /\ ~smaller(j, i))
    IN  List([k \in DOMAIN s |-> s[CHOOSE i \in DOMAIN s : Cardinality({j \in DOMAIN s : before(j, i)}) = k - 1]])

\* The positions that take, skip and slice mean: a negative one counts from the end.
Position(v, length) ==
    LET i == Truncated(v.n) IN IF i < -length THEN 0 ELSE IF i < 0 THEN length + i ELSE IF i > length THEN length ELSE i
Cut(call, s) ==
    LET from == IF call.agg = "take" THEN 0 ELSE Position(call.args[1], Len(s))
        to == CASE call.agg = "take" -> Position(call.args[1], Len(s))
                [] call.agg = "slice" /\ Len(call.args) = 2 -> Position(call.args[2], Len(s))
                [] OTHER -> Len(s)
    IN  ItemsAt(s, {i \in DOMAIN s : from < i /\ i <= to})

-----------------------------------------------------------------------------
\* The answer to a call over the items s; S are those it is about, T those of them
\* that have a value to aggregate.
Meaning(call, s) ==
    LET S == About(call, s)
        v == [i \in DOMAIN s |-> Aggregated(call, s[i])]
        there == {i \in S : v[i] # Absent}
        T == {i \in S : Found(v[i]) # Missing}
        key == [i \in T |-> aggregateGroupKey(v[i])]
    IN  CASE call.agg \in Quantifiers -> QuantifierMeaning(call, s)
          [] call.agg \notin Quantifiers /\ Unclear(call, s) # {} -> Refused
          [] \E i \in DOMAIN call.args : ~Numeric(call.args[i]) /\ ~(call.agg = "percentile" /\ T = {}) -> Refused
          [] OTHER ->
    CASE call.agg \in Numbers ->
           IF \E i \in T : ~Numeric(v[i]) THEN Refused ELSE NumberMeaning(call, s, T)
      [] call.agg = "count" -> Float(2 * Cardinality(S))
      [] call.agg = "first" -> IF S = {} THEN Missing ELSE s[FirstOf(S)]
      [] call.agg = "last"  -> IF S = {} THEN Missing ELSE s[LastOf(S)]
      [] call.agg = "pluck" -> List(ItemsAt(v, there))
      [] call.agg = "distinct" -> List(ItemsAt(v, {i \in there : \A j \in there : j < i => v[j] # v[i]}))
      [] call.agg = "distinctCount" -> Float(2 * Cardinality({key[i] : i \in T}))
      [] call.agg = "groupBy" ->
           [kind |-> "map", at |-> [k \in {key[i] : i \in T} |-> Float(2 * Cardinality({i \in T : key[i] = k}))]]
      [] call.agg = "reverse" -> List([i \in DOMAIN s |-> s[Len(s) - i + 1]])
      [] call.agg = "sortBy" -> SortMeaning(call, s)
      [] call.agg \in {"take", "skip", "slice"} -> List(Cut(call, s))
      [] OTHER -> List(ItemsAt(s, S))

\* A filter around a collection is asked about every item of it first.
FilterCall(call) == [call EXCEPT !.agg = "filter", !.pred = call.filter, !.group = NoGroup]
FilteredMeaning(call, s) ==
    IF call.filter = NoPredicate THEN Meaning(call, s)
    ELSE LET kept == Meaning(FilterCall(call), s)
         IN  IF kept = Refused THEN Refused ELSE Meaning(call, kept.items)
=============================================================================
