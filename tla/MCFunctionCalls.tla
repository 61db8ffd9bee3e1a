-------------------------- MODULE MCFunctionCalls --------------------------
(* Items of a group g with a number v, or none, or a text; lists of up to three *)
(* of them and maps of two; every function over all, over a group, with each    *)
(* form of predicate, and around a filter.                                     *)
EXTENDS FunctionCalls, TLC

Text(n) == [kind |-> "string", n |-> n]
Stamp(text, at) == [kind |-> "stamp", text |-> text, at |-> at]
Sized(n) == [kind |-> "sized", n |-> n]
MapOf(at) == [kind |-> "map", at |-> at]

MCBeginnings == {<<2, 1>>} \cup {<<t, 0>> : t \in 0 .. 4} \cup {<<t, t>> : t \in 0 .. 4}
MCActive == {3}
MCHashes == [t \in 0 .. 4 |-> 7 * t + 3]

One == MapOf("g" :> Whole(1) @@ "v" :> Whole(1))
Half == MapOf("g" :> Whole(1) @@ "v" :> Float(3))
Two == MapOf("g" :> Text(1) @@ "v" :> Whole(2))
Also == MapOf("g" :> Whole(1) @@ "v" :> Float(4))
Bare == MapOf("g" :> Whole(1))
Null == MapOf("g" :> Text(2) @@ "v" :> Missing)
Said1 == MapOf("g" :> Whole(1) @@ "v" :> Text(1))
Zero == MapOf("g" :> Whole(1) @@ "v" :> Sized(0))
Pool == {One, Half, Two, Also, Bare, Null, Said1, Zero}
Mixture == {One, Half, Two, Also, Bare}

MCCollections ==
    {Absent, Missing, Whole(1), List(<<>>), List(<<Whole(2), Whole(1)>>)}
    \cup {List(<<x>>) : x \in Pool} \cup {List(<<x, y>>) : x, y \in Pool}
    \cup {List(<<x, y, z>>) : x, y, z \in Mixture}
    \cup {MapOf("x" :> x @@ "y" :> y) : x, y \in {One, Half, Two, Also, Bare, Said1}}

V == <<"v">>
Op(field, op, lit) == [form |-> "op", field |-> field, op |-> op, lit |-> lit]
Likes(field, lit) == [form |-> "equal", field |-> field, lit |-> lit]
Has(field) == [form |-> "truthy", field |-> field]

Call(agg, field, pred) ==
    [agg |-> agg, field |-> field, pred |-> pred, group |-> NoGroup, filter |-> NoPredicate,
     args |-> <<>>, descending |-> FALSE]
Plain(agg, field) == Call(agg, field, NoPredicate)
With(agg, field, args) == [Plain(agg, field) EXCEPT !.args = args]

Predicates == {Has(V), Likes(V, Whole(2)), Op(V, "<", Whole(2)), Op(V, "startswith", Text(0)),
               Op(V, "not in", List(<<Whole(1), Text(1)>>)), Op(<<"g">>, "==", Whole(1))}
Groups == {[field |-> <<"g">>, value |-> Whole(1)]}

MCCalls ==
    {Plain(agg, V) : agg \in {"sum", "avg", "min", "max", "top", "bottom", "pluck", "distinct"}}
    \cup {Plain(agg, NoField) : agg \in {"count", "sum", "max", "reverse", "first", "last", "distinct"}}
    \cup {Plain("groupBy", <<"g">>), Plain("distinctCount", <<"g">>), Plain("sum", <<>>), Plain("top", <<>>)}
    \cup {Call(agg, NoField, p) : agg \in Quantifiers \cup {"count", "filter"}, p \in Predicates}
    \cup {Call("count", NoField, Has(<<>>))}
    \cup {[Call(agg, IF agg = "count" THEN NoField ELSE V, p) EXCEPT !.group = g] :
            agg \in {"count", "sum", "avg"}, p \in {NoPredicate, Op(V, ">", Whole(1)), Op(<<"g">>, "==", Whole(1))}, g \in Groups}
    \cup {With("percentile", V, <<p>>) : p \in {Float(1), Whole(1), Whole(50), Whole(-1), Whole(200), Text(1)}}
    \cup {[Plain("sortBy", V) EXCEPT !.descending = d] : d \in BOOLEAN}
    \cup {With(agg, NoField, <<n>>) : agg \in {"take", "skip"}, n \in {Whole(0), Float(3), Whole(4), Whole(-2), Text(1)}}
    \cup {With("slice", NoField, <<m, n>>) : m, n \in {Whole(0), Whole(1), Whole(-1), Whole(4)}}
    \cup {[Plain(agg, V) EXCEPT !.filter = p] : agg \in {"sum", "avg"}, p \in {Op(V, "<", Whole(2)), Op(<<"g">>, "==", Whole(1)), Op(<<"g">>, "startswith", Text(0))}}
    \cup {[Plain("count", NoField) EXCEPT !.filter = p] : p \in {Op(V, "<", Whole(2)), Op(<<"g">>, "==", Whole(1))}}
    \cup {[Call("any", NoField, Op(V, ">", Whole(1))) EXCEPT !.filter = Op(<<"g">>, "==", Whole(1))]}

Arguments == {Absent, Missing, Whole(1), Float(1), Whole(-1), Text(0), Text(3), Stamp(4, 10), Stamp(2, 20), Sized(0)}
MCHelperCalls ==
    {[fn |-> fn, args |-> <<v>>] : fn \in {"isNull", "isNotNull", "abs", "round", "floor", "ceil", "active"},
        v \in Arguments \cup {Float(3), Float(-1), Float(-3)}}
    \cup {[fn |-> fn, args |-> <<v, w>>] : fn \in {"default", "before", "after", "nullableMatch", "validNow", "coalesce",
              "specificity"}, v, w \in Arguments}
    \cup {[fn |-> "stableBucket", args |-> <<Text(t), m>>] : t \in 0 .. 4, m \in {Whole(3), Whole(1), Float(5), Float(1), Whole(0), Text(1)}}
    \cup {[fn |-> fn, args |-> <<v, w, x>>] : fn \in {"if", "clamp", "between", "betweenTime", "rangeMatch"}, v, w, x \in Arguments}
    \cup {[fn |-> fn, args |-> <<Whole(1)>>] : fn \in {"default", "if"}} \cup {[fn |-> "coalesce", args |-> <<>>]}
=============================================================================
