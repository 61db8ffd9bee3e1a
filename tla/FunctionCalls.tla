--------------------------- MODULE FunctionCalls ---------------------------
(* One call of an aggregate function or a helper, answered twice: by what a   *)
(* ranker compiled it to, if it could, and by the interpreter, which it falls  *)
(* back on. An argument is the value of a fact, or Absent; the collection is    *)
(* walked item by item, and a Go map in any order, for each answer anew.       *)
EXTENDS NativeAggregation, DSLHelpers, AggregateMeaning

LOCAL INSTANCE SequencesExt

CONSTANTS Calls,        \* calls of aggregate functions
          Collections,  \* what is given to them, Absent for a fact that is not there
          HelperCalls

VARIABLES
    call,
    source,       \* the collection of the call
    strict,       \* whether a missing fact is an error
    stage,        \* "idle", "native", "filter", "call" or "done"
    items,        \* the items that the walk has not reached
    acc,          \* what the closure of the walk has kept
    native,       \* the answer of the compiled call
    interpreted   \* the answer of the interpreter

vars == <<call, source, strict, stage, items, acc, native, interpreted>>

Idle == [agg |-> "idle"]
NotMade == [kind |-> "not made"]

Init ==
    /\ call = Idle /\ source = Absent /\ strict = FALSE /\ stage = "idle"
    /\ items = <<>> /\ acc = Fresh /\ native = NotMade /\ interpreted = NotMade

-----------------------------------------------------------------------------
\* A walk.

Walks(v) ==
    CASE v.kind = "list" -> {v.items}
      [] v.kind = "map"  -> {[i \in DOMAIN order |-> v.at[order[i]]] : order \in SetToSeqs(DOMAIN v.at)}
      [] OTHER           -> {<<>>}

\* What is kept before the first item: the length of what is no collection is 0.
Begun(c, v) ==
    CASE Failed(v) -> [Fresh EXCEPT !.error = v.error]
      [] v.kind \in {"list", "map", "missing"} \/ (CountsLength(c) /\ ~Failed(v)) -> Fresh
      [] OTHER -> [Fresh EXCEPT !.error = "no collection"]

Start(c, v, next) ==
    /\ stage' = next
    /\ items' \in Walks(v)
    /\ acc' = Begun(c, v)

StartInterpreter(c, v, s) ==
    IF c.filter = NoPredicate THEN Start(c, Injected(v, s), "call")
                              ELSE Start(FilterCall(c), Injected(v, s), "filter")

\* An error ends the walk, and ends the counting of a filter without an error.
Ended == items = <<>> \/ acc.error # "none" \/ (CountsLength(call) /\ acc.seen)

-----------------------------------------------------------------------------
Ask ==
    /\ stage = "idle"
    /\ \E c \in Calls, v \in Collections, s \in BOOLEAN :
          /\ call' = c /\ source' = v /\ strict' = s
          /\ IF Compilable(c) THEN Start(c, NativeArgument(v, s), "native") ELSE StartInterpreter(c, v, s)
    /\ UNCHANGED <<native, interpreted>>

VisitNatively ==
    /\ stage = "native" /\ ~Ended
    /\ acc' = NativeVisit(call, acc, Head(items), strict)
    /\ items' = Tail(items)
    /\ UNCHANGED <<call, source, strict, stage, native, interpreted>>

ReturnNatively ==
    /\ stage = "native" /\ Ended
    /\ native' = NativeResult(call, acc)
    /\ StartInterpreter(call, source, strict)
    /\ UNCHANGED <<call, source, strict, interpreted>>

VisitItem ==
    /\ stage \in {"filter", "call"} /\ ~Ended
    /\ acc' = Visit(IF stage = "filter" THEN FilterCall(call) ELSE call, acc, Head(items))
    /\ items' = Tail(items)
    /\ UNCHANGED <<call, source, strict, stage, native, interpreted>>

\* The list that a filter returns is the collection of the call.
ReturnFiltered ==
    /\ stage = "filter" /\ Ended
    /\ Start(call, Result(FilterCall(call), acc), "call")
    /\ UNCHANGED <<call, source, strict, native, interpreted>>

ReturnInterpreted ==
    /\ stage = "call" /\ Ended
    /\ interpreted' = Result(call, acc)
    /\ stage' = "done"
    /\ UNCHANGED <<call, source, strict, items, acc, native>>

\* A helper has no walk: it is one step to either answer.
AskHelper ==
    /\ stage = "idle"
    /\ \E h \in HelperCalls, s \in BOOLEAN :
          /\ call' = h /\ strict' = s /\ stage' = "done"
          /\ native' = IF CompilableHelper(h) THEN NativeHelper(h, s) ELSE NotMade
          /\ interpreted' = InterpretedHelper(h, s)
    /\ UNCHANGED <<source, items, acc>>

Return ==
    /\ stage = "done"
    /\ call' = Idle /\ source' = Absent /\ strict' = FALSE /\ stage' = "idle"
    /\ items' = <<>> /\ acc' = Fresh /\ native' = NotMade /\ interpreted' = NotMade

Next ==
    \/ Ask \/ AskHelper
    \/ VisitNatively \/ ReturnNatively
    \/ VisitItem \/ ReturnFiltered \/ ReturnInterpreted
    \/ Return

Spec == Init /\ [][Next]_vars

-----------------------------------------------------------------------------
\* Errors are told apart by nothing but that they are errors.
Answer(v) == IF Failed(v) THEN Refused ELSE Bridge(v)
AggregateDone == stage = "done" /\ "agg" \in DOMAIN call
HelperDone == stage = "done" /\ "fn" \in DOMAIN call
Given == Injected(source, strict)

\* A walk and what is kept on it come to what the call means, whatever the order of
\* the walk (aggregation.go). Items that cannot be brought into one order
\* by their values sortBy leaves in some order.
AnswersAreRight ==
    AggregateDone =>
        CASE Failed(Given) -> Failed(interpreted)
          [] Given.kind \in {"list", "map", "missing"} ->
               \E walk \in Walks(Given) :
                  \/ call.agg = "sortBy" /\ ~Orderly(call, walk)
                  \/ Answer(interpreted) = FilteredMeaning(call, walk)
          [] OTHER -> CountsLength(call) \/ Failed(interpreted)

\* The code has two ways to an answer, and a test that they agree on some expressions
\* (condition_test.go:383). They do not on these calls, which README.md lists:
\* a predicate with an operator that only the interpreter has a function for,
OperatorUnknown(p) == p.form = "op" /\ p.op \notin NativeOperators
\* or with one that some item cannot be asked, without strict mode, or where one way
\* looks at more items than the other,
CannotTell(p, s) == p # NoPredicate /\ \E i \in DOMAIN s : matchAggregateItem(s[i], p) \notin {"yes", "no"}
OneWayOverlooks(s) ==
    \/ CannotTell(call.pred, s) /\ (~strict \/ call.agg = "none" \/ source.kind = "map")
    \/ CannotTell(call.filter, s) /\ (~strict \/ CountsLength(call))
\* one that asks for the truth of a number that is neither int nor float,
OddNumbers(p, s) == p.form = "truthy" /\ \E i \in DOMAIN s : lookupPath(s[i], p.field).kind = "sized"
\* an average over the items of a group some of which have no value,
ValuelessInGroup(s) ==
    call.group # NoGroup /\ call.agg = "avg" /\ \E i \in About(call, s) : Found(Aggregated(call, s[i])) = Missing
\* a field that is the empty text,
EmptyField == <<>> \in {call.field, call.group.field} \/ (call.pred # NoPredicate /\ call.pred.field = <<>>)
\* a share that is no number when there is nothing to take it of, and the first of
\* several best items of a map.
ShareOfNothing == call.agg = "percentile" /\ ~Numeric(call.args[1])
BestOfMap == call.agg \in {"top", "bottom"} /\ source.kind = "map"
CountOfNone == CountsLength(call) /\ call.filter # NoPredicate /\ source.kind \notin {"list", "map", "missing", "absent"}

ItemsOf(v) ==
    CASE v.kind = "list" -> v.items
      [] v.kind = "map"  -> SetToSeq({v.at[f] : f \in DOMAIN v.at})
      [] OTHER -> <<>>
KnownToDiffer ==
    \/ OperatorUnknown(call.pred) \/ OperatorUnknown(call.filter) \/ OneWayOverlooks(ItemsOf(source))
    \/ OddNumbers(call.pred, ItemsOf(source)) \/ ValuelessInGroup(ItemsOf(source)) \/ EmptyField
    \/ ShareOfNothing \/ BestOfMap \/ CountOfNone

WaysAgree ==
    AggregateDone /\ native # NotMade /\ ~KnownToDiffer => Answer(native) = Answer(interpreted)

\* The same of the helpers. They differ on a fact that is not there, which natively is
\* nil, and evaluated only where it is needed; in the interpreter an empty map. Only
\* numbers are in a native range; what is no time is natively not now, and a number
\* that is neither int nor float no time.
Unordinary(v) == v # Missing /\ ~Numeric(v)
HelperKnownToDiffer(h) ==
    \/ \E i \in DOMAIN h.args : h.args[i] = Absent
    \/ h.fn = "rangeMatch" /\ (~Numeric(h.args[3]) \/ Unordinary(h.args[1]) \/ Unordinary(h.args[2]))
    \/ h.fn = "validNow" /\ \E i \in DOMAIN h.args : h.args[i] # Missing /\ ~IsTime(h.args[i])
    \/ h.fn \in {"before", "betweenTime"} /\ \E i \in DOMAIN h.args : h.args[i].kind = "sized"

HelpersAgree ==
    HelperDone /\ native # NotMade /\ ~HelperKnownToDiffer(call) => Answer(native) = Answer(interpreted)
=============================================================================
