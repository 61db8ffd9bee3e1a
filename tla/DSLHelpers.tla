----------------------------- MODULE DSLHelpers -----------------------------
(* The helpers of the condition language that are no walks over a collection: *)
(* as functions that the interpreter calls with evaluated arguments            *)
(* (dsl_helpers.go), and compiled natively (rank_native.go), where an argument *)
(* is evaluated when it is needed. Helpers over the characters of a text are   *)
(* left out.                                                                   *)
EXTENDS Aggregation

CONSTANTS
    Now,     \* the moment of an evaluation
    Active,  \* the texts that are "active" in any case of letters
    Hashes   \* the FNV hash of each text

\* A call names a helper and its arguments: a value, or Absent for a fact that is not there.
Arity(fn) ==
    CASE fn \in {"isNull", "isNotNull", "abs", "round", "floor", "ceil", "active"} -> {1}
      [] fn \in {"default", "before", "after", "nullableMatch", "validNow", "stableBucket"} -> {2}
      [] fn \in {"if", "clamp", "between", "betweenTime", "rangeMatch"} -> {3}
      [] OTHER -> 0 .. 4

Failed(v) == v.kind = "error"
FirstFailed(values) == SelectSeq(values, Failed)[1]
AnyFailed(values) == \E i \in DOMAIN values : Failed(values[i])

-----------------------------------------------------------------------------
\* Evaluated by the interpreter: all arguments come first, and without strict mode a
\* fact that is not there is an empty map.

EmptyMap == [kind |-> "map", at |-> <<>>]
Injected(v, strict) ==
    IF v # Absent THEN Bridge(v) ELSE IF strict THEN Failure("missing fact") ELSE EmptyMap

\* Halves to whole numbers; math.Round goes away from zero.
Floor(n) == 2 * (n \div 2)
Ceil(n) == -Floor(-n)
Round(n) == IF n >= 0 THEN Floor(n + 1) ELSE Ceil(n - 1)
AbsoluteOf(n) == IF n < 0 THEN -n ELSE n
Clamp(v, low, high) ==
    LET most == IF high < v THEN high ELSE v IN IF low > most THEN low ELSE most

AtLeast(v, w) == Comparable(v, w) /\ Compare(">=", v, w)

fnRangeMatch(low, high, v) ==
    /\ low # Missing => AtLeast(v, low)
    /\ high # Missing => AtLeast(high, v)

fnValidNow(from, to) ==
    CASE from # Missing /\ ~IsTime(from) -> Failure("no time")
      [] from # Missing /\ IsTime(from) /\ Now < Moment(from) -> Truth(FALSE)
      [] OTHER -> IF to = Missing THEN Truth(TRUE)
                  ELSE IF ~IsTime(to) THEN Failure("no time") ELSE Truth(~(Now > Moment(to)))

Times(args, holds) == IF \E i \in DOMAIN args : ~IsTime(args[i]) THEN Failure("no time") ELSE Truth(holds)
Before(args) == Times(args, Moment(args[1]) < Moment(args[2]))
BetweenTime(args) == Times(args, Moment(args[1]) >= Moment(args[2]) /\ Moment(args[1]) <= Moment(args[3]))

\* The modulus is positive, but uint64 of it may be zero, and the program panics.
fnStableBucket(key, modulus) ==
    IF ~Numeric(modulus) \/ modulus.n <= 0 THEN Failure("not positive")
    ELSE IF modulus.n \div 2 = 0 THEN [kind |-> "panic"]
    ELSE Float(2 * (Hashes[key.n] % (modulus.n \div 2)))

OneNumber(v, n) == IF Numeric(v) THEN Float(n) ELSE Failure("not numeric")

Function(fn, a) ==
    CASE fn = "if"       -> IF truthy(a[1]) THEN a[2] ELSE a[3]
      [] fn = "coalesce" -> LET full == SelectSeq(a, LAMBDA v : ~isEmpty(v)) IN IF full = <<>> THEN Missing ELSE full[1]
      [] fn = "default"  -> IF isEmpty(a[1]) THEN a[2] ELSE a[1]
      [] fn = "isNull"   -> Truth(a[1] = Missing)
      [] fn = "isNotNull" -> Truth(a[1] # Missing)
      [] fn = "abs"      -> OneNumber(a[1], AbsoluteOf(a[1].n))
      [] fn = "round"    -> OneNumber(a[1], Round(a[1].n))
      [] fn = "floor"    -> OneNumber(a[1], Floor(a[1].n))
      [] fn = "ceil"     -> OneNumber(a[1], Ceil(a[1].n))
      [] fn = "clamp"    -> IF \A i \in 1 .. 3 : Numeric(a[i]) THEN Float(Clamp(a[1].n, a[2].n, a[3].n)) ELSE Failure("not numeric")
      [] fn = "between"  -> Truth(AtLeast(a[1], a[2]) /\ AtLeast(a[3], a[1]))
      [] fn = "before"   -> Before(a)
      [] fn = "after"    -> Before(<<a[2], a[1]>>)
      [] fn = "betweenTime" -> BetweenTime(a)
      [] fn = "nullableMatch" -> Truth(a[1] = Missing \/ Equal(a[1], a[2]))
      [] fn = "rangeMatch" -> Truth(fnRangeMatch(a[1], a[2], a[3]))
      [] fn = "active"   -> Truth(Textual(a[1]) /\ TextOf(a[1]) \in Active)
      [] fn = "validNow" -> fnValidNow(a[1], a[2])
      [] fn = "specificity" -> Float(2 * Len(SelectSeq(a, LAMBDA v : v # Missing)))
      [] fn = "stableBucket" -> fnStableBucket(a[1], a[2])

InterpretedHelper(h, strict) ==
    LET args == [i \in DOMAIN h.args |-> Injected(h.args[i], strict)]
    IN  IF AnyFailed(args) THEN FirstFailed(args)
        ELSE IF Len(h.args) \notin Arity(h.fn) THEN Failure("arguments")
        ELSE Function(h.fn, args)

-----------------------------------------------------------------------------
\* Compiled natively, unless the number of arguments is wrong.

NativeHelpers == {"coalesce", "default", "nullableMatch", "rangeMatch", "active", "validNow", "before", "betweenTime"}
CompilableHelper(h) == h.fn \in NativeHelpers /\ Len(h.args) \in Arity(h.fn)

NativeArgument(v, strict) ==
    IF v # Absent THEN v ELSE IF strict THEN Failure("missing fact") ELSE Missing

\* A slip: the upper bound is not in the range.
NativeRange_OpenEnd(low, high, v) ==
    /\ Numeric(v)
    /\ low # Missing => Numeric(low) /\ v.n >= low.n
    /\ high # Missing => Numeric(high) /\ v.n < high.n

\* Only numbers are in a range, and a bound that is none keeps everything out.
NativeRange(low, high, v) ==
    /\ Numeric(v)
    /\ low # Missing => Numeric(low) /\ v.n >= low.n
    /\ high # Missing => Numeric(high) /\ v.n <= high.n

\* A time that cannot be read is as if it were not now.
NativeValidNow(from, to) ==
    /\ from # Missing => IsTime(from) /\ Now >= Moment(from)
    /\ to # Missing => IsTime(to) /\ Now <= Moment(to)

\* The arguments up to the one that decides, in the order they are evaluated in.
NativeNeeds(fn, a) ==
    CASE fn = "coalesce" -> LET full == {i \in DOMAIN a : ~Failed(a[i]) /\ ~isEmpty(a[i])}
                            IN  IF full = {} THEN DOMAIN a ELSE 1 .. (CHOOSE i \in full : \A j \in full : i <= j)
      [] fn = "default"  -> IF ~Failed(a[1]) /\ ~isEmpty(a[1]) THEN {1} ELSE {1, 2}
      [] fn = "nullableMatch" -> IF a[1] = Missing THEN {1} ELSE {1, 2}
      [] fn = "rangeMatch" ->
           IF ~Failed(a[3]) /\ ~Numeric(a[3]) THEN {3}
           ELSE IF ~Failed(a[3]) /\ ~Failed(a[1]) /\ ~NativeRange(a[1], Missing, a[3]) THEN {1, 3} ELSE {1, 2, 3}
      [] OTHER -> DOMAIN a

NativeHelper(h, strict) ==
    LET a == [i \in DOMAIN h.args |-> NativeArgument(h.args[i], strict)]
    IN  IF \E i \in NativeNeeds(h.fn, a) : Failed(a[i]) THEN Failure("missing fact")
        ELSE CASE h.fn = "nullableMatch" -> Truth(a[1] = Missing \/ Equal(a[1], a[2]))
               [] h.fn = "rangeMatch" -> Truth(NativeRange(a[1], a[2], a[3]))
               [] h.fn = "active"     -> Truth(Textual(a[1]) /\ TextOf(a[1]) \in Active)
               [] h.fn = "validNow"   -> Truth(NativeValidNow(a[1], a[2]))
               [] h.fn = "default"    -> IF isEmpty(a[1]) THEN a[2] ELSE a[1]
               [] OTHER -> Function(h.fn, a)
=============================================================================
