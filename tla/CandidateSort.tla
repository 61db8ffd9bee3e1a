---------------------------- MODULE CandidateSort ----------------------------
(* sortCandidateResults of ranker.go: an insertion sort of short slices and a  *)
(* quicksort of others, which recurses into the shorter part and goes round    *)
(* for the longer one. Better may be any relation: scores may be NaN.          *)
EXTENDS Integers, Sequences, SequencesExt

CONSTANTS
    Better(_, _),
    Threshold  \* 12 in the code: slices shorter than that are sorted by insertion

VARIABLES
    items,
    sorting,  \* "idle", "range", "up", "down", "split", "done"
    lo, hi,   \* the part that is sorted
    i, j,     \* where the scans from both ends are
    pivot,
    todo      \* the parts that are sorted when the current one is, the last one first

scan == <<i, j, pivot>>
sortVars == <<items, sorting, lo, hi, scan, todo>>

Init ==
    /\ items = <<>> /\ sorting = "idle"
    /\ lo = 1 /\ hi = 0 /\ i = 0 /\ j = 0 /\ pivot = {} /\ todo = <<>>

Swap(s, m, n) == [s EXCEPT ![m] = s[n], ![n] = s[m]]

\* The item at k moves down to the first one from above that it is not better than.
Insert(s, from, k) ==
    LET place == Max({from} \cup {n + 1 : n \in {m \in from .. k - 1 : ~Better(s[k], s[m])}})
    IN  [n \in DOMAIN s |-> IF n = place THEN s[k]
                            ELSE IF n \in place + 1 .. k THEN s[n - 1] ELSE s[n]]

insertionSort(s, from, to) ==
    FoldLeft(LAMBDA t, k : Insert(t, from, k), s, [k \in 1 .. to - from |-> from + k])

\* The better of both ends and the middle comes first, the worse last.
OrderThree(s, first, mid, last) ==
    FoldLeft(LAMBDA t, pair : IF Better(t[pair[1]], t[pair[2]]) THEN Swap(t, pair[1], pair[2]) ELSE t,
             s, << <<mid, first>>, <<last, first>>, <<last, mid>> >>)

-----------------------------------------------------------------------------
Start(s) ==
    /\ items' = s
    /\ lo' = 1 /\ hi' = Len(s) /\ todo' = <<>>
    /\ i' = 0 /\ j' = 0 /\ pivot' = {}
    /\ sorting' = "range"

\* The current part is sorted.
PartSorted(s) ==
    /\ items' = s
    /\ UNCHANGED scan
    /\ IF todo = <<>>
       THEN sorting' = "done" /\ UNCHANGED <<lo, hi, todo>>
       ELSE /\ sorting' = "range"
            /\ lo' = Last(todo).lo /\ hi' = Last(todo).hi
            /\ todo' = Front(todo)

ForInsertion == hi - lo < Threshold \/ Len(items) < Threshold

Insertion ==
    /\ sorting = "range" /\ ForInsertion
    /\ PartSorted(insertionSort(items, lo, hi))

Partition ==
    /\ sorting = "range" /\ ~ForInsertion
    /\ LET mid == lo + (hi - lo) \div 2
       IN  /\ items' = OrderThree(items, lo, mid, hi)
           /\ pivot' = {items'[mid]}
    /\ i' = lo /\ j' = hi
    /\ sorting' = "up"
    /\ UNCHANGED <<lo, hi, todo>>

Pivot == CHOOSE p \in pivot : TRUE

ScanUp ==
    /\ sorting = "up"
    /\ IF Better(items[i], Pivot) THEN i' = i + 1 /\ UNCHANGED sorting
                                  ELSE sorting' = "down" /\ UNCHANGED i
    /\ UNCHANGED <<items, lo, hi, j, pivot, todo>>

BelongsBelow(x) == Better(Pivot, x)

ScanDown ==
    /\ sorting = "down"
    /\ BelongsBelow(items[j])
    /\ j' = j - 1
    /\ UNCHANGED <<items, sorting, lo, hi, i, pivot, todo>>

Exchange ==
    /\ sorting = "down"
    /\ ~BelongsBelow(items[j])
    /\ IF i <= j
       THEN items' = Swap(items, i, j) /\ i' = i + 1 /\ j' = j - 1
       ELSE UNCHANGED <<items, i, j>>
    /\ sorting' = IF i' <= j' THEN "up" ELSE "split"
    /\ UNCHANGED <<lo, hi, pivot, todo>>

\* The longer part waits for the shorter, if there is anything to sort in that.
Split ==
    /\ sorting = "split"
    /\ LET left  == [lo |-> lo, hi |-> j]
           right == [lo |-> i, hi |-> hi]
           short == IF j - lo < hi - i THEN left ELSE right
           long  == IF j - lo < hi - i THEN right ELSE left
           now   == IF short.lo < short.hi THEN short ELSE long
       IN  /\ todo' = IF short.lo < short.hi THEN Append(todo, long) ELSE todo
           /\ lo' = now.lo /\ hi' = now.hi
    /\ sorting' = "range"
    /\ UNCHANGED <<items, scan>>

Finish ==
    /\ sorting' = "idle" /\ items' = <<>>
    /\ UNCHANGED <<lo, hi, scan, todo>>

Step == Insertion \/ Partition \/ ScanUp \/ ScanDown \/ Exchange \/ Split

-----------------------------------------------------------------------------
\* Every read of an item is inside the part that is sorted.
Inside ==
    /\ sorting = "up" => i \in lo .. hi
    /\ sorting = "down" => j \in lo .. hi
    /\ sorting \notin {"idle", "done"} => lo >= 1 /\ hi <= Len(items)
=============================================================================
