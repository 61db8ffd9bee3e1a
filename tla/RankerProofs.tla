---------------------------- MODULE RankerProofs ----------------------------
(* Proofs about Ranker, for any rule sets, requests, limits and memory that was *)
(* used before. They go from the folds the model is built from, over what is    *)
(* found of a candidate and the memory it is written to, to the sort and the    *)
(* selectors; RankerInv is what holds in every state.                           *)

EXTENDS TLAPS, WellFoundedInduction, FiniteSetTheorems, SequenceTheorems, Ranker

\* A set of natural numbers has a least one.
LEMMA LeastOne ==
  ASSUME NEW B \in SUBSET Nat, B # {}
  PROVE  \E m \in B : \A n \in B : m <= n
<1> DEFINE T == {0..m : m \in B}
<1>1. T # {}
  <2>1. PICK m \in B : TRUE
    OBVIOUS
  <2>2. 0..m \in T
    OBVIOUS
  <2> QED
    BY <2>2
<1>2. T \subseteq FiniteSubsetsOf(Nat)
  <2>1. ASSUME NEW m \in B
        PROVE  0..m \in FiniteSubsetsOf(Nat)
    <3>1. m \in Int /\ 0 \in Int /\ 0..m \subseteq Nat
      OBVIOUS
    <3>2. IsFiniteSet(0..m)
      BY <3>1, FS_Interval, Zenon
    <3> QED
      BY <3>1, <3>2 DEF FiniteSubsetsOf
  <2> QED
    BY <2>1
<1>3. IsWellFoundedOn(StrictSubsetOrdering(Nat), FiniteSubsetsOf(Nat))
  BY FS_StrictSubsetOrderingWellFounded, Zenon
<1>4. \E x \in T : \A y \in T : <<y, x>> \notin StrictSubsetOrdering(Nat)
  <2> HIDE DEF T
  <2> QED
    BY <1>1, <1>2, <1>3, WFMin, Zenon
<1>5. PICK m \in B : \A y \in T : <<y, 0..m>> \notin StrictSubsetOrdering(Nat)
  BY <1>4
<1>6. ASSUME NEW n \in B, ~(m <= n)
      PROVE  FALSE
  <2>1. 0..n \subseteq 0..m /\ m \in 0..m /\ m \notin 0..n /\ 0..n \in SUBSET Nat /\ 0..m \in SUBSET Nat
    BY <1>6
  <2>2. <<0..n, 0..m>> \in StrictSubsetOrdering(Nat)
    BY <2>1 DEF StrictSubsetOrdering
  <2> QED
    BY <1>5, <2>2
<1> QED
  BY <1>6

\* The greatest number of a set that has one among those up to n.
LEMMA MaxOf ==
  ASSUME NEW n \in Int, NEW S \in SUBSET Int, S # {}, \A x \in S : x <= n
  PROVE  Max(S) \in S /\ \A x \in S : x <= Max(S)
<1> DEFINE B == {n - x : x \in S}
<1>1. B \in SUBSET Nat /\ B # {}
  <2>1. PICK x \in S : TRUE
    OBVIOUS
  <2>2. n - x \in B
    OBVIOUS
  <2>3. \A x_1 \in S : n - x_1 \in Nat
    OBVIOUS
  <2> QED
    BY <2>2, <2>3
<1>2. PICK m \in B : \A d \in B : m <= d
  <2> HIDE DEF B
  <2> QED
    BY <1>1, LeastOne
<1>3. PICK y \in S : m = n - y
  OBVIOUS
<1>4. \A x \in S : y >= x
  <2>1. ASSUME NEW x \in S
        PROVE  y >= x
    <3>1. n - x \in B
      OBVIOUS
    <3> HIDE DEF B
    <3> QED
      BY <1>2, <1>3, <3>1
  <2> QED
    BY <2>1
<1>5. Max(S) \in S /\ \A x \in S : Max(S) >= x
  BY <1>4 DEF Max
<1> QED
  BY <1>5

\* The least number of a set of natural numbers.
LEMMA MinOf ==
  ASSUME NEW S \in SUBSET Nat, S # {}
  PROVE  Min(S) \in S /\ \A x \in S : Min(S) <= x
<1>1. PICK y \in S : \A x \in S : y <= x
  BY LeastOne
<1> QED
  BY <1>1 DEF Min

-----------------------------------------------------------------------------
\* Folds over n items, from base, with values in R: what one step makes of what there
\* was is a function of that and of the position, so that one induction does for all.
Steps(step, n, R) == step \in [R \X (1..n) -> R]

Defines(it, n, R, base, step) ==
  /\ it \in [SUBSET (1..n) -> R]
  /\ it[{}] = base
  /\ \A S \in SUBSET (1..n) : S # {} => it[S] = step[<<it[S \ {Max(S)}], Max(S)>>]

Follows(it, n, R, base, step) ==
  /\ it[{}] = base
  /\ \A m \in 1..n : it[1..(m-1)] \in R => it[1..m] = step[<<it[1..(m-1)], m>>]

Runs(g, n, R, base, step) ==
  /\ g \in [0..n -> R]
  /\ g[0] = base
  /\ \A m \in 1..n : g[m] = step[<<g[m-1], m>>]

\* There is a function on the sets of positions that a fold can be defined by.
LEMMA FoldExists ==
  ASSUME NEW n \in Nat, NEW R, NEW base \in R, NEW step, Steps(step, n, R)
  PROVE  \E it : Defines(it, n, R, base, step)
<1> USE DEF Steps, Defines
<1> DEFINE Right(it, m) ==
             /\ it \in [SUBSET (1..m) -> R]
             /\ it[{}] = base
             /\ \A S \in SUBSET (1..m) : S # {} => it[S] = step[<<it[S \ {Max(S)}], Max(S)>>]
           B == {m \in 0..n : ~ \E it : Right(it, m)}
<1> SUFFICES ASSUME B # {}
             PROVE  FALSE
  <2>1. n \in 0..n
    OBVIOUS
  <2>2. \A m \in 0..n : m \notin B => \E it : Right(it, m)
    <3> HIDE DEF Right
    <3> QED
      OBVIOUS
  <2>3. B = {} => \E it : Right(it, n)
    <3> HIDE DEF B, Right
    <3> QED
      BY <2>1, <2>2
  <2> HIDE DEF B
  <2> QED
    BY <2>3
<1>1. PICK m \in B : \A d \in B : m <= d
  <2>1. B \in SUBSET Nat
    <3> HIDE DEF Right
    <3> QED
      OBVIOUS
  <2> HIDE DEF B
  <2> QED
    BY <2>1, LeastOne
<1>2. m # 0
  <2>1. \A S \in SUBSET (1..0) : S = {}
    OBVIOUS
  <2>2. Right([S \in SUBSET (1..0) |-> base], 0)
    BY <2>1
  <2> HIDE DEF Right
  <2> QED
    BY <2>2
<1>3. m - 1 \in 0..n /\ m - 1 \notin B /\ m \in 1..n
  <2>1. m \in 0..n
    <3> HIDE DEF Right
    <3> QED
      OBVIOUS
  <2> HIDE DEF B
  <2> QED
    BY <2>1, <1>1, <1>2
<1>4. PICK it : Right(it, m - 1)
  <2> HIDE DEF Right
  <2> QED
    BY <1>3
<1> DEFINE more == [S \in SUBSET (1..m) |-> IF m \in S THEN step[<<it[S \ {m}], m>>] ELSE it[S]]
<1>5. ASSUME NEW S \in SUBSET (1..m)
      PROVE  /\ m \in S => /\ S \ {m} \in SUBSET (1..(m-1))
                           /\ Max(S) = m
             /\ m \notin S => S \in SUBSET (1..(m-1))
             /\ S # {} => Max(S) \in S
  <2>1. S \in SUBSET Int /\ m \in Int /\ \A x \in S : x <= m
    BY <1>3
  <2>2. S # {} => Max(S) \in S /\ \A x \in S : x <= Max(S)
    BY <2>1, MaxOf
  <2>3. m \in S => Max(S) = m
    <3>1. \A x, y \in Int : x <= y /\ y <= x => x = y
      OBVIOUS
    <3> QED
      BY <2>1, <2>2, <3>1
  <2>4. \A x \in S : x # m => x \in 1..(m-1)
    BY <1>3
  <2> QED
    BY <2>2, <2>3, <2>4
<1>6. Right(more, m)
  <2>1. more \in [SUBSET (1..m) -> R]
    <3>1. ASSUME NEW S \in SUBSET (1..m)
          PROVE  (IF m \in S THEN step[<<it[S \ {m}], m>>] ELSE it[S]) \in R
      BY <1>3, <1>4, <1>5
    <3> QED
      BY <3>1
  <2>2. {} \in SUBSET (1..m) /\ {} \in SUBSET (1..(m-1)) /\ m \notin {}
    OBVIOUS
  <2>3. more[{}] = base
    BY <1>4, <2>2
  <2>4. ASSUME NEW S \in SUBSET (1..m), S # {}
        PROVE  more[S] = step[<<more[S \ {Max(S)}], Max(S)>>]
    <3>1. CASE m \in S
      <4>1. m \notin S \ {m} /\ S \ {m} \in SUBSET (1..m)
        OBVIOUS
      <4>2. more[S \ {m}] = it[S \ {m}]
        BY <4>1
      <4> QED
        BY <3>1, <4>2, <1>5
    <3>2. CASE m \notin S
      <4>1. Max(S) \in S /\ S \in SUBSET (1..(m-1))
        BY <2>4, <3>2, <1>5
      <4>2. m \notin S \ {Max(S)} /\ S \ {Max(S)} \in SUBSET (1..m)
        BY <3>2
      <4>3. more[S] = it[S] /\ more[S \ {Max(S)}] = it[S \ {Max(S)}]
        BY <3>2, <4>2
      <4> QED
        BY <1>4, <2>4, <4>1, <4>3
    <3> QED
      BY <3>1, <3>2
  <2> HIDE DEF more
  <2> QED
    BY <2>1, <2>3, <2>4
<1>7. m \in B
  OBVIOUS
<1> HIDE DEF more, Right
<1> QED
  BY <1>6, <1>7

\* What a fold has after each of its steps.
LEMMA FoldPrefix ==
  ASSUME NEW n \in Nat, NEW R, NEW base \in R, NEW step, Steps(step, n, R),
         NEW it, Follows(it, n, R, base, step)
  PROVE  \E g : Runs(g, n, R, base, step) /\ g[n] = it[1..n]
<1> USE DEF Steps, Follows
<1> DEFINE B == {m \in 0..n : it[1..m] \notin R}
<1>1. B = {}
  <2> SUFFICES ASSUME B # {}
               PROVE  FALSE
    OBVIOUS
  <2>1. PICK m \in B : \A d \in B : m <= d
    <3>1. B \in SUBSET Nat
      OBVIOUS
    <3> HIDE DEF B
    <3> QED
      BY <3>1, LeastOne
  <2>2. 1..0 = {}
    OBVIOUS
  <2>3. m # 0
    BY <2>2
  <2>4. m - 1 \in 0..n /\ m - 1 \notin B /\ m \in 1..n
    BY <2>1, <2>3
  <2> QED
    BY <2>1, <2>4
<1>2. \A m \in 0..n : it[1..m] \in R
  BY <1>1
<1> DEFINE g == [m \in 0..n |-> it[1..m]]
<1>3. g \in [0..n -> R]
  BY <1>2
<1>4. g[0] = base /\ g[n] = it[1..n]
  <2>1. 1..0 = {}
    OBVIOUS
  <2> QED
    BY <2>1
<1>5. \A m \in 1..n : g[m] = step[<<g[m-1], m>>]
  BY <1>2
<1> QED
  BY <1>3, <1>4, <1>5 DEF Runs

\* The last of the first positions.
LEMMA LastOf ==
  ASSUME NEW n \in Nat
  PROVE  /\ \A S \in SUBSET (1..n) : S # {} => Max(S) \in 1..n /\ S \ {Max(S)} \in SUBSET (1..n)
         /\ \A m \in 1..n : /\ 1..m \in SUBSET (1..n) /\ 1..m # {}
                            /\ Max(1..m) = m /\ (1..m) \ {m} = 1..(m-1)
<1>1. ASSUME NEW S \in SUBSET (1..n), S # {}
      PROVE  Max(S) \in S
  <2>1. n \in Int /\ S \in SUBSET Int /\ \A x \in S : x <= n
    OBVIOUS
  <2> QED
    BY <1>1, <2>1, MaxOf
<1>2. ASSUME NEW m \in 1..n
      PROVE  1..m \in SUBSET (1..n) /\ 1..m # {} /\ Max(1..m) = m /\ (1..m) \ {m} = 1..(m-1)
  <2>1. 1..m \in SUBSET (1..n) /\ 1..m # {} /\ (1..m) \ {m} = 1..(m-1) /\ m \in 1..m
    OBVIOUS
  <2>2. m \in Int /\ 1..m \in SUBSET Int /\ \A x \in 1..m : x <= m
    OBVIOUS
  <2>3. Max(1..m) \in 1..m /\ \A x \in 1..m : x <= Max(1..m)
    BY <2>1, <2>2, MaxOf
  <2>4. \A x, y \in Int : x <= y /\ y <= x => x = y
    OBVIOUS
  <2>5. Max(1..m) <= m /\ m <= Max(1..m) /\ Max(1..m) \in Int
    BY <2>1, <2>2, <2>3
  <2> QED
    BY <2>1, <2>2, <2>4, <2>5
<1> QED
  BY <1>1, <1>2

\* t has the items of s in another order, and outside of first..last in the same.
Within(s, t, first, last) ==
  /\ DOMAIN t = DOMAIN s
  /\ \A x \in DOMAIN s : x \notin first .. last => t[x] = s[x]
  /\ \A x \in first .. last : \E y \in first .. last : t[x] = s[y]
  /\ \A y \in first .. last : \E x \in first .. last : t[x] = s[y]
  /\ (\A x, y \in DOMAIN s : x # y => s[x] # s[y]) => (\A x, y \in DOMAIN t : x # y => t[x] # t[y])

\* A sequence is within itself.
LEMMA WithinSelf ==
  ASSUME NEW s, NEW first, NEW last
  PROVE  Within(s, s, first, last)
  BY DEF Within

\* Moving items of a part twice moves items of that part.
LEMMA WithinAgain ==
  ASSUME NEW s, NEW t, NEW u, NEW first, NEW last, Within(s, t, first, last), Within(t, u, first, last)
  PROVE  Within(s, u, first, last)
<1>1. \A x \in DOMAIN s : x \notin first .. last => u[x] = s[x]
  BY DEF Within
<1>2. \A x \in first .. last : \E y \in first .. last : u[x] = s[y]
  <2> SUFFICES ASSUME NEW x \in first .. last
               PROVE  \E y \in first .. last : u[x] = s[y]
    OBVIOUS
  <2>1. PICK y \in first .. last : u[x] = t[y]
    BY DEF Within
  <2>2. PICK z \in first .. last : t[y] = s[z]
    BY DEF Within
  <2> QED
    BY <2>1, <2>2
<1>3. \A y \in first .. last : \E x \in first .. last : u[x] = s[y]
  <2> SUFFICES ASSUME NEW y \in first .. last
               PROVE  \E x \in first .. last : u[x] = s[y]
    OBVIOUS
  <2>1. PICK x \in first .. last : t[x] = s[y]
    BY DEF Within
  <2>2. PICK z \in first .. last : u[z] = t[x]
    BY DEF Within
  <2> QED
    BY <2>1, <2>2
<1> QED
  BY <1>1, <1>2, <1>3 DEF Within

\* What moves items of a part moves items of a wider one.
LEMMA WithinWider ==
  ASSUME NEW s, NEW t, NEW first \in Int, NEW last \in Int, NEW f \in Int, NEW l \in Int,
         Within(s, t, first, last), f <= first, last <= l, f .. l \subseteq DOMAIN s
  PROVE  Within(s, t, f, l)
<1>1. first .. last \subseteq f .. l
  OBVIOUS
<1>2. \A x \in DOMAIN s : x \notin f .. l => t[x] = s[x]
  BY <1>1 DEF Within
<1>3. \A x \in f .. l : \E y \in f .. l : t[x] = s[y]
  <2> SUFFICES ASSUME NEW x \in f .. l
               PROVE  \E y \in f .. l : t[x] = s[y]
    OBVIOUS
  <2>1. CASE x \in first .. last
    BY <1>1, <2>1 DEF Within
  <2>2. CASE x \notin first .. last
    BY <2>2 DEF Within
  <2> QED
    BY <2>1, <2>2
<1>4. \A y \in f .. l : \E x \in f .. l : t[x] = s[y]
  <2> SUFFICES ASSUME NEW y \in f .. l
               PROVE  \E x \in f .. l : t[x] = s[y]
    OBVIOUS
  <2>1. CASE y \in first .. last
    BY <1>1, <2>1 DEF Within
  <2>2. CASE y \notin first .. last
    BY <2>2 DEF Within
  <2> QED
    BY <2>1, <2>2
<1> QED
  BY <1>2, <1>3, <1>4 DEF Within

\* A swap moves two items of a part.
LEMMA SwapWithin ==
  ASSUME NEW s, NEW first \in Int, NEW last \in Int, first .. last \subseteq DOMAIN s,
         NEW a \in first .. last, NEW b \in first .. last
  PROVE  Within(s, Sort!Swap(s, a, b), first, last)
<1> DEFINE t == Sort!Swap(s, a, b)
<1>1. DOMAIN t = DOMAIN s
  BY DEF Sort!Swap
<1>2. \A x \in DOMAIN s : t[x] = IF x = b THEN s[a] ELSE IF x = a THEN s[b] ELSE s[x]
  BY DEF Sort!Swap
<1> HIDE DEF t
<1>3. \A x \in first .. last : \E y \in first .. last : t[x] = s[y]
  BY <1>2
<1>4. \A y \in first .. last : \E x \in first .. last : t[x] = s[y]
  <2> SUFFICES ASSUME NEW y \in first .. last
               PROVE  \E x \in first .. last : t[x] = s[y]
    OBVIOUS
  <2> DEFINE x == IF y = a THEN b ELSE IF y = b THEN a ELSE y
  <2>1. x \in first .. last /\ t[x] = s[y]
    BY <1>2
  <2> HIDE DEF x
  <2> QED
    BY <2>1
<1>5. ASSUME \A x, y \in DOMAIN s : x # y => s[x] # s[y]
      PROVE  \A x, y \in DOMAIN s : x # y => t[x] # t[y]
  BY <1>2, <1>5
<1> QED
  BY <1>1, <1>2, <1>3, <1>4, <1>5 DEF Within, t

\* What a swap puts where.
LEMMA SwapType ==
  ASSUME NEW T, NEW n \in Nat, NEW s \in [1..n -> T], NEW a \in 1..n, NEW b \in 1..n
  PROVE  /\ Sort!Swap(s, a, b) \in [1..n -> T]
         /\ \A x \in 1..n : Sort!Swap(s, a, b)[x] = IF x = b THEN s[a] ELSE IF x = a THEN s[b] ELSE s[x]
  BY DEF Sort!Swap

\* Where Insert puts an item.
PlaceOf(s, from, at) ==
  Sort!Max({from} \cup {n + 1 : n \in {m \in from .. at - 1 : ~betterCandidate(s[at], s[m])}})

\* Insert puts an item behind the last one before it that it is not better than.
LEMMA PlaceFacts ==
  ASSUME NEW s, NEW from \in Nat, NEW at \in Nat, from <= at,
         NEW place, place = PlaceOf(s, from, at)
  PROVE  /\ place \in from .. at
         /\ \A m \in place .. at - 1 : betterCandidate(s[at], s[m])
         /\ place > from => ~betterCandidate(s[at], s[place - 1])
<1> DEFINE S == {from} \cup {n + 1 : n \in {m \in from .. at - 1 : ~betterCandidate(s[at], s[m])}}
<1>1. S \in SUBSET Int /\ S # {} /\ \A x \in S : x \in from .. at
  OBVIOUS
<1>2. \A x \in S : x <= at
  BY <1>1
<1>3. place = Max(S)
  BY DEF PlaceOf, Sort!Max, Max
<1>4. place \in S /\ \A x \in S : x <= place
  <2>1. at \in Int
    OBVIOUS
  <2>2. ASSUME NEW B \in SUBSET Int, B # {}, \A x \in B : x <= at
        PROVE  Max(B) \in B /\ \A x \in B : x <= Max(B)
    BY <2>1, <2>2, MaxOf
  <2> HIDE DEF S
  <2> QED
    BY <1>1, <1>2, <1>3, <2>2
<1>5. place \in from .. at
  <2> HIDE DEF S
  <2> QED
    BY <1>1, <1>4
<1>6. ASSUME NEW m \in place .. at - 1, ~betterCandidate(s[at], s[m])
      PROVE  FALSE
  <2>1. m \in from .. at - 1
    BY <1>5
  <2>2. m + 1 \in S
    BY <2>1, <1>6
  <2> HIDE DEF S
  <2> QED
    BY <1>4, <1>5, <2>2
<1>7. ASSUME place > from
      PROVE  ~betterCandidate(s[at], s[place - 1])
  <2>1. place # from
    BY <1>5, <1>7
  <2>2. PICK n \in {m \in from .. at - 1 : ~betterCandidate(s[at], s[m])} : place = n + 1
    BY <1>4, <2>1
  <2>3. place - 1 = n
    BY <2>2
  <2> QED
    BY <2>2, <2>3
<1> QED
  BY <1>5, <1>6, <1>7

\* No candidate has a NaN among what it is compared by.
Numbers(q) ==
  \A n \in DOMAIN q :
    NotANumber \notin {compareValues(q[n])[v] : v \in {"priority", "specificity", "fallback", "cost"}}

\* a has to come before b: as betterCandidate says, unless a NaN keeps that from being an
\* order; who is eligible comes before who is not in any case.
Ahead(q, a, b) == IF Numbers(q) THEN betterCandidate(a, b) ELSE a.eligible /\ ~b.eligible

\* On T, what is not ahead is an order that betterCandidate agrees with.
Orders(q, T) ==
  /\ \A a \in T : ~betterCandidate(a, a)
  /\ \A a, b \in T : Ahead(q, a, b) => betterCandidate(a, b)
  /\ \A a, b \in T : betterCandidate(a, b) => ~Ahead(q, b, a)
  /\ \A a, b, c \in T : ~Ahead(q, a, b) /\ ~Ahead(q, b, c) => ~Ahead(q, a, c)

InOrderUpTo(q, s, first, last) ==
  \A x, y \in first .. last : x < y => ~Ahead(q, s[y], s[x])

\* Inserting an item moves items of that part, and keeps it in order.
LEMMA InsertFacts ==
  ASSUME NEW T, NEW n \in Nat, NEW s \in [1..n -> T],
         NEW from \in 1..n, NEW at \in from..n
  PROVE  /\ Sort!Insert(s, from, at) \in [1..n -> T]
         /\ Within(s, Sort!Insert(s, from, at), from, at)
         /\ Orders(request, T) /\ InOrderUpTo(request, s, from, at - 1) => InOrderUpTo(request, Sort!Insert(s, from, at), from, at)
<1> DEFINE place == PlaceOf(s, from, at)
           t == Sort!Insert(s, from, at)
<1>1. t = [x \in DOMAIN s |-> IF x = place THEN s[at] ELSE IF x \in place + 1 .. at THEN s[x - 1] ELSE s[x]]
  BY DEF Sort!Insert, PlaceOf
<1>2. /\ place \in from .. at
      /\ \A m \in place .. at - 1 : betterCandidate(s[at], s[m])
      /\ place > from => ~betterCandidate(s[at], s[place - 1])
  <2>1. from \in Nat /\ at \in Nat /\ from <= at
    OBVIOUS
  <2> QED
    BY <2>1, PlaceFacts
<1> HIDE DEF place, t
<1>3. t \in [1..n -> T]
  BY <1>1, <1>2
<1>4. /\ \A x \in 1..n : x < place => t[x] = s[x]
      /\ t[place] = s[at]
      /\ \A x \in 1..n : place < x /\ x <= at => t[x] = s[x - 1]
      /\ \A x \in 1..n : x > at => t[x] = s[x]
  BY <1>1, <1>2
<1>5. Within(s, t, from, at)
  <2>1. DOMAIN t = DOMAIN s
    BY <1>3
  <2>2. \A x \in DOMAIN s : x \notin from .. at => t[x] = s[x]
    BY <1>2, <1>4
  <2>3. \A x \in from .. at : \E y \in from .. at : t[x] = s[y]
    <3> SUFFICES ASSUME NEW x \in from .. at
                 PROVE  \E y \in from .. at : t[x] = s[y]
      OBVIOUS
    <3>1. CASE x < place
      BY <3>1, <1>4
    <3>2. CASE x = place
      BY <3>2, <1>4
    <3>3. CASE x > place
      <4>1. x - 1 \in from .. at /\ t[x] = s[x - 1]
        BY <3>3, <1>2, <1>4
      <4> QED
        BY <4>1
    <3> QED
      BY <1>2, <3>1, <3>2, <3>3
  <2>4. \A y \in from .. at : \E x \in from .. at : t[x] = s[y]
    <3> SUFFICES ASSUME NEW y \in from .. at
                 PROVE  \E x \in from .. at : t[x] = s[y]
      OBVIOUS
    <3>1. CASE y < place
      BY <3>1, <1>4
    <3>2. CASE y = at
      BY <3>2, <1>2, <1>4
    <3>3. CASE place <= y /\ y < at
      <4>1. y + 1 \in from .. at /\ t[y + 1] = s[y]
        BY <3>3, <1>2, <1>4
      <4> QED
        BY <4>1
    <3> QED
      BY <1>2, <3>1, <3>2, <3>3
  <2>5. ASSUME \A x, y \in DOMAIN s : x # y => s[x] # s[y],
               NEW x \in DOMAIN t, NEW y \in DOMAIN t, x < y
        PROVE  t[x] # t[y]
    <3> DEFINE src(z) == IF z < place \/ z > at THEN z ELSE IF z = place THEN at ELSE z - 1
    <3>1. \A z \in 1..n : src(z) \in 1..n /\ t[z] = s[src(z)]
      BY <1>2, <1>4
    <3>2. x \in 1..n /\ y \in 1..n /\ src(x) # src(y)
      BY <1>2, <1>3, <2>5
    <3> HIDE DEF src
    <3> QED
      BY <2>5, <3>1, <3>2
  <2>6. ASSUME \A x, y \in DOMAIN s : x # y => s[x] # s[y]
        PROVE  \A x, y \in DOMAIN t : x # y => t[x] # t[y]
    <3>1. \A x, y \in DOMAIN t : x < y \/ y < x \/ x = y
      BY <1>3
    <3> QED
      BY <2>5, <2>6, <3>1
  <2> QED
    BY <2>1, <2>2, <2>3, <2>4, <2>6 DEF Within
<1>6. ASSUME Orders(request, T), InOrderUpTo(request, s, from, at - 1)
      PROVE  InOrderUpTo(request, t, from, at)
  <2> SUFFICES ASSUME NEW x \in from .. at, NEW y \in from .. at, x < y
               PROVE  ~Ahead(request, t[y], t[x])
    BY DEF InOrderUpTo
  <2>1. /\ \A a \in T : ~betterCandidate(a, a)
        /\ \A a, b \in T : Ahead(request, a, b) => betterCandidate(a, b)
        /\ \A a, b \in T : betterCandidate(a, b) => ~Ahead(request, b, a)
        /\ \A a, b, c \in T : ~Ahead(request, a, b) /\ ~Ahead(request, b, c) => ~Ahead(request, a, c)
    BY <1>6 DEF Orders
  <2>2. \A v, w \in from .. at - 1 : v < w => ~Ahead(request, s[w], s[v])
    BY <1>6 DEF InOrderUpTo
  <2>3. \A z \in from .. at : s[z] \in T /\ t[z] \in T
    BY <1>3
  <2>4. \A v \in from .. place - 1 : ~Ahead(request, s[at], s[v])
    <3> SUFFICES ASSUME NEW v \in from .. place - 1
                 PROVE  ~Ahead(request, s[at], s[v])
      OBVIOUS
    <3>1. place > from /\ place - 1 \in from .. at /\ v \in from .. at
      BY <1>2
    <3>2. ~Ahead(request, s[at], s[place - 1])
      BY <1>2, <2>1, <2>3, <3>1
    <3>3. CASE v = place - 1
      BY <3>2, <3>3
    <3>4. CASE v < place - 1
      <4>1. ~Ahead(request, s[place - 1], s[v])
        BY <1>2, <2>2, <3>1, <3>4
      <4> QED
        BY <2>1, <2>3, <3>1, <3>2, <4>1
    <3> QED
      BY <1>2, <3>3, <3>4
  <2>5. \A w \in place .. at - 1 : ~Ahead(request, s[w], s[at])
    BY <1>2, <2>1, <2>3
  <2>6. CASE y < place
    BY <1>2, <1>4, <2>2, <2>6
  <2>7. CASE y = place
    BY <1>2, <1>4, <2>4, <2>7
  <2>8. CASE place < y /\ x < place
    <3>1. t[y] = s[y - 1] /\ t[x] = s[x] /\ x < y - 1 /\ y - 1 \in from .. at - 1 /\ x \in from .. at - 1
      BY <1>2, <1>4, <2>8
    <3> QED
      BY <2>2, <3>1
  <2>9. CASE place < y /\ x = place
    <3>1. t[y] = s[y - 1] /\ t[x] = s[at] /\ y - 1 \in place .. at - 1
      BY <1>2, <1>4, <2>9
    <3> QED
      BY <2>5, <3>1
  <2>10. CASE place < x
    <3>1. t[y] = s[y - 1] /\ t[x] = s[x - 1] /\ x - 1 < y - 1 /\ y - 1 \in from .. at - 1 /\ x - 1 \in from .. at - 1
      BY <1>2, <1>4, <2>10
    <3> QED
      BY <2>2, <3>1
  <2> QED
    BY <1>2, <2>6, <2>7, <2>8, <2>9, <2>10
<1> QED
  BY <1>3, <1>5, <1>6 DEF t

\* Sorting by insertion.
LEMMA InsertionFacts ==
  ASSUME NEW T, NEW n \in Nat, NEW s \in [1..n -> T],
         NEW from \in Int, NEW upto \in Int, from >= 1, upto <= n
  PROVE  /\ Sort!insertionSort(s, from, upto) \in [1..n -> T]
         /\ Within(s, Sort!insertionSort(s, from, upto), from, upto)
         /\ Orders(request, T) => InOrderUpTo(request, Sort!insertionSort(s, from, upto), from, upto)
<1> DEFINE p == IF upto >= from THEN upto - from ELSE 0
           seq == [m \in 1 .. upto - from |-> from + m]
           R == [1..n -> T]
           step == [c \in R \X (1..p) |-> Sort!Insert(c[1], from, from + c[2])]
           Fold(it) == it = [S \in SUBSET (1..p) |->
                               IF S = {} THEN s ELSE Sort!Insert(it[S \ {Max(S)}], from, seq[Max(S)])]
<1>1. p \in Nat /\ DOMAIN seq = 1..p /\ \A m \in 1..p : seq[m] = from + m /\ from + m \in from..n /\ from \in 1..n
  OBVIOUS
<1>2. Sort!insertionSort(s, from, upto) = (CHOOSE it : Fold(it))[1..p]
  <2>1. DOMAIN seq = 1..p
    BY <1>1
  <2>2. Sort!insertionSort(s, from, upto) =
          (CHOOSE u : u = [S \in SUBSET (DOMAIN seq) |->
                               IF S = {} THEN s ELSE Sort!Insert(u[S \ {Max(S)}], from, seq[Max(S)])])[DOMAIN seq]
    BY DEF Sort!insertionSort, Sort!FoldLeft, Sort!MapThenFoldSet, Sort!Max, Max
  <2> HIDE DEF seq, p
  <2> QED
    BY <2>1, <2>2
<1>3. Steps(step, p, R)
  <2>1. ASSUME NEW t \in R, NEW m \in 1..p
        PROVE  Sort!Insert(t, from, from + m) \in R
    BY <1>1, InsertFacts
  <2> HIDE DEF R, p
  <2> QED
    BY <2>1 DEF Steps
<1>4. \A t \in R : \A m \in 1..p : step[<<t, m>>] = Sort!Insert(t, from, seq[m])
  <2> HIDE DEF R, p, seq
  <2> QED
    BY <1>1
<1>5. ASSUME NEW it, Defines(it, p, R, s, step)
      PROVE  Fold(it)
  <2> HIDE DEF p, R, seq, step
  <2>1. it \in [SUBSET (1..p) -> R] /\ it[{}] = s
    BY <1>5 DEF Defines
  <2>2. ASSUME NEW S \in SUBSET (1..p), S # {}
        PROVE  it[S] = Sort!Insert(it[S \ {Max(S)}], from, seq[Max(S)])
    <3>1. Max(S) \in 1..p /\ S \ {Max(S)} \in SUBSET (1..p)
      BY <1>1, <2>2, LastOf
    <3>2. it[S \ {Max(S)}] \in R
      BY <2>1, <3>1
    <3>3. it[S] = step[<<it[S \ {Max(S)}], Max(S)>>]
      BY <1>5, <2>2 DEF Defines
    <3> QED
      BY <1>4, <3>1, <3>2, <3>3
  <2> QED
    BY <2>1, <2>2
<1>6. ASSUME NEW it, Fold(it)
      PROVE  Follows(it, p, R, s, step)
  <2> HIDE DEF p, R, seq, step
  <2>1. it[{}] = s
    BY <1>6
  <2>2. ASSUME NEW m \in 1..p, it[1..(m-1)] \in R
        PROVE  it[1..m] = step[<<it[1..(m-1)], m>>]
    <3>1. 1..m \in SUBSET (1..p) /\ 1..m # {} /\ Max(1..m) = m /\ (1..m) \ {m} = 1..(m-1)
      BY <1>1, LastOf
    <3>2. it[1..m] = Sort!Insert(it[(1..m) \ {Max(1..m)}], from, seq[Max(1..m)])
      BY <1>6, <3>1
    <3> QED
      BY <1>4, <2>2, <3>1, <3>2
  <2> QED
    BY <2>1, <2>2 DEF Follows
<1> DEFINE it == CHOOSE u : Fold(u)
<1>7. s \in R
  OBVIOUS
<1>8. PICK g : Runs(g, p, R, s, step) /\ g[p] = it[1..p]
  <2> HIDE DEF p, R, step, Fold
  <2>1. \E f : Defines(f, p, R, s, step)
    BY <1>1, <1>3, <1>7, FoldExists
  <2>2. Follows(it, p, R, s, step)
    BY <1>5, <1>6, <2>1
  <2> HIDE DEF it
  <2> QED
    BY <1>1, <1>3, <1>7, <2>2, FoldPrefix
<1> HIDE DEF it
<1>9. \A m \in 1..p : g[m-1] \in R /\ g[m] = Sort!Insert(g[m-1], from, from + m)
  <2> SUFFICES ASSUME NEW m \in 1..p
               PROVE  g[m-1] \in R /\ g[m] = Sort!Insert(g[m-1], from, from + m)
    OBVIOUS
  <2>1. m - 1 \in 0..p
    BY <1>1
  <2> HIDE DEF p, R
  <2> QED
    BY <1>1, <1>4, <1>8, <2>1 DEF Runs
<1> DEFINE Good(m) == /\ Within(s, g[m], from, upto)
                      /\ Orders(request, T) => InOrderUpTo(request, g[m], from, from + m)
           B == {m \in 0..p : ~Good(m)}
<1>10. B = {}
  <2> SUFFICES ASSUME B # {}
               PROVE  FALSE
    OBVIOUS
  <2>1. PICK m \in B : \A d \in B : m <= d
    <3>1. B \in SUBSET Nat
      BY <1>1
    <3> HIDE DEF B
    <3> QED
      BY <3>1, LeastOne
  <2>2. Good(0)
    <3>1. InOrderUpTo(request, s, from, from + 0)
      BY DEF InOrderUpTo
    <3> QED
      BY <1>8, <3>1, WithinSelf DEF Runs
  <2>3. m \in 1..p /\ m - 1 \in 0..p /\ m - 1 \notin B
    <3>1. m \in 0..p /\ ~Good(m)
      OBVIOUS
    <3>2. m # 0
      BY <2>2, <3>1
    <3> HIDE DEF B, Good, p
    <3> QED
      BY <1>1, <2>1, <3>1, <3>2
  <2>4. Good(m - 1)
    BY <2>3
  <2>5. from \in 1..n /\ from + m \in from..n /\ from + m - 1 = from + (m - 1) /\ upto \in 1..n /\ from + m <= upto
    BY <2>3
  <2>6. /\ Within(g[m-1], g[m], from, from + m)
        /\ Orders(request, T) /\ InOrderUpTo(request, g[m-1], from, from + (m - 1)) => InOrderUpTo(request, g[m], from, from + m)
    <3>1. g[m-1] \in [1..n -> T] /\ g[m] = Sort!Insert(g[m-1], from, from + m)
      BY <1>9, <2>3
    <3> HIDE DEF p
    <3>2. ASSUME NEW at, at = from + m
          PROVE  /\ Within(g[m-1], Sort!Insert(g[m-1], from, at), from, at)
                 /\ Orders(request, T) /\ InOrderUpTo(request, g[m-1], from, at - 1) => InOrderUpTo(request, Sort!Insert(g[m-1], from, at), from, at)
      <4>1. at \in from..n
        BY <2>5, <3>2
      <4> QED
        BY <2>5, <3>1, <4>1, InsertFacts
    <3>3. from + m - 1 = from + (m - 1)
      BY <2>5
    <3> QED
      BY <3>1, <3>2, <3>3
  <2>7. Within(g[m-1], g[m], from, upto)
    <3>1. DOMAIN g[m-1] = 1..n
      BY <1>9, <2>3
    <3> HIDE DEF p
    <3> QED
      BY <2>3, <2>5, <2>6, <3>1, WithinWider
  <2>8. Good(m)
    <3>1. Within(s, g[m], from, upto)
      BY <2>4, <2>7, WithinAgain
    <3>2. Orders(request, T) => InOrderUpTo(request, g[m], from, from + m)
      BY <2>4, <2>6
    <3> HIDE DEF p
    <3> QED
      BY <3>1, <3>2
  <2>9. ~Good(m)
    OBVIOUS
  <2> HIDE DEF Good
  <2> QED
    BY <2>8, <2>9
<1>11. p \in 0..p /\ from + p >= upto
  BY <1>1
<1>12. Good(p)
  <2> HIDE DEF Good, p
  <2> QED
    BY <1>10, <1>11
<1>13. Orders(request, T) => InOrderUpTo(request, g[p], from, upto)
  <2>1. from .. upto \subseteq from .. from + p
    BY <1>1, <1>11
  <2> HIDE DEF p
  <2> QED
    BY <1>12, <2>1 DEF InOrderUpTo
<1>14. g[p] \in R
  <2> HIDE DEF p, R
  <2> QED
    BY <1>8, <1>11 DEF Runs
<1>15. Sort!insertionSort(s, from, upto) = g[p]
  BY <1>2, <1>8 DEF it
<1> QED
  BY <1>12, <1>13, <1>14, <1>15

-----------------------------------------------------------------------------
\* Sums.
LEMMA TotalRuns ==
  ASSUME NEW numbers \in Seq(Int)
  PROVE  \E g : /\ g \in [0..Len(numbers) -> Int] /\ g[0] = 0
                /\ \A m \in 1..Len(numbers) : g[m-1] \in Int /\ g[m] = (g[m-1] + numbers[m])
                /\ Total(numbers) = g[Len(numbers)]
<1> DEFINE R == Int
           p == Len(numbers)
           step == [cell \in R \X (1..p) |-> (cell[1] + numbers[cell[2]])]
           Fold(it) == it = [S \in SUBSET (1..p) |->
                               IF S = {} THEN 0 ELSE (it[S \ {Max(S)}] + numbers[Max(S)])]
           it == CHOOSE u : Fold(u)
<1>1. p \in Nat
  OBVIOUS
<1>2. Total(numbers) = it[1..p]
  <2>1. DOMAIN numbers = 1..p
    OBVIOUS
  <2>2. Total(numbers) = (CHOOSE u : u = [S \in SUBSET DOMAIN numbers |-> IF S = {} THEN 0 ELSE (u[S \ {Max(S)}] + numbers[Max(S)])])[DOMAIN numbers]
    BY DEF Total, FoldLeft, MapThenFoldSet, Max
  <2> HIDE DEF p
  <2> QED
    BY <2>1, <2>2
<1>3. \A t \in R : \A m \in 1..p : (t + numbers[m]) \in R
  OBVIOUS
<1>4. \A t \in R : \A m \in 1..p : step[<<t, m>>] = (t + numbers[m])
  <2> HIDE DEF R, p
  <2> QED
    OBVIOUS
<1>5. Steps(step, p, R)
  <2> HIDE DEF R, p
  <2> QED
    BY <1>3 DEF Steps
<1>6. 0 \in R
  OBVIOUS
<1> HIDE DEF R, p, step, it
<1>7. ASSUME NEW f, Defines(f, p, R, 0, step)
      PROVE  Fold(f)
  <2>1. f \in [SUBSET (1..p) -> R] /\ f[{}] = 0
    BY <1>7 DEF Defines
  <2>2. ASSUME NEW S \in SUBSET (1..p), S # {}
        PROVE  f[S] = (f[S \ {Max(S)}] + numbers[Max(S)])
    <3>1. Max(S) \in 1..p /\ S \ {Max(S)} \in SUBSET (1..p)
      BY <1>1, <2>2, LastOf
    <3>2. f[S \ {Max(S)}] \in R
      BY <2>1, <3>1
    <3>3. f[S] = step[<<f[S \ {Max(S)}], Max(S)>>]
      BY <1>7, <2>2 DEF Defines
    <3> QED
      BY <1>4, <3>1, <3>2, <3>3
  <2> QED
    BY <2>1, <2>2
<1>8. ASSUME NEW f, Fold(f)
      PROVE  Follows(f, p, R, 0, step)
  <2>1. f[{}] = 0
    BY <1>8
  <2>2. ASSUME NEW m \in 1..p, f[1..(m-1)] \in R
        PROVE  f[1..m] = step[<<f[1..(m-1)], m>>]
    <3>1. 1..m \in SUBSET (1..p) /\ 1..m # {} /\ Max(1..m) = m /\ (1..m) \ {m} = 1..(m-1)
      BY <1>1, LastOf
    <3>2. f[1..m] = (f[(1..m) \ {Max(1..m)}] + numbers[Max(1..m)])
      BY <1>8, <3>1
    <3>3. f[1..m] = (f[1..(m-1)] + numbers[m])
      BY <3>1, <3>2
    <3>4. step[<<f[1..(m-1)], m>>] = (f[1..(m-1)] + numbers[m])
      BY <1>4, <2>2
    <3> QED
      BY <3>3, <3>4
  <2> QED
    BY <2>1, <2>2 DEF Follows
<1>9. Follows(it, p, R, 0, step)
  <2>1. \E f : Defines(f, p, R, 0, step)
    BY <1>1, <1>5, <1>6, FoldExists
  <2>2. \E f : Fold(f)
    BY <1>7, <2>1
  <2> HIDE DEF Fold
  <2>3. Fold(it)
    BY <2>2 DEF it
  <2> QED
    BY <1>8, <2>3
<1>10. PICK g : Runs(g, p, R, 0, step) /\ g[p] = it[1..p]
  <2> HIDE DEF Fold
  <2> QED
    BY <1>1, <1>5, <1>6, <1>9, FoldPrefix
<1>11. g \in [0..p -> R] /\ g[0] = 0
  BY <1>10 DEF Runs
<1>12. ASSUME NEW m \in 1..p
       PROVE  g[m-1] \in R /\ g[m] = (g[m-1] + numbers[m])
  <2>1. m - 1 \in 0..p
    BY <1>1
  <2>2. g[m-1] \in R
    BY <1>11, <2>1
  <2>3. g[m] = step[<<g[m-1], m>>]
    BY <1>10 DEF Runs
  <2> QED
    BY <1>4, <2>2, <2>3
<1>13. Total(numbers) = g[p]
  BY <1>2, <1>10
<1> QED
  BY <1>11, <1>12, <1>13 DEF R, p

\* The chain of fallbacks.
Linked(ids, r, most) ==
  IF Len(ids) < most /\ r.eligible /\ ~(HasWinner /\ r.id = items[1].id)
  THEN Append(ids, r.id) ELSE ids

\* The chain after each item.
LEMMA ChainRuns ==
  ASSUME NEW limit, items \in Seq(ToSet(items)), \A m \in DOMAIN items : items[m].id \in Int
  PROVE  \E g : /\ g \in [0..Len(items) -> Seq(Int)] /\ g[0] = <<>>
                /\ \A m \in 1..Len(items) : g[m-1] \in Seq(Int) /\ g[m] = Linked(g[m-1], items[m], IF limit <= 0 THEN Len(items) ELSE limit)
                /\ Fallbacks(limit) = g[Len(items)]
<1> DEFINE R == Seq(Int)
           p == Len(items)
           step == [cell \in R \X (1..p) |-> Linked(cell[1], items[cell[2]], IF limit <= 0 THEN Len(items) ELSE limit)]
           Fold(it) == it = [S \in SUBSET (1..p) |->
                               IF S = {} THEN <<>> ELSE Linked(it[S \ {Max(S)}], items[Max(S)], IF limit <= 0 THEN Len(items) ELSE limit)]
           it == CHOOSE u : Fold(u)
<1>1. p \in Nat
  OBVIOUS
<1>2. Fallbacks(limit) = it[1..p]
  <2>1. DOMAIN items = 1..p
    OBVIOUS
  <2>2. Fallbacks(limit) = (CHOOSE u : u = [S \in SUBSET DOMAIN items |-> IF S = {} THEN <<>> ELSE Linked(u[S \ {Max(S)}], items[Max(S)], IF limit <= 0 THEN Len(items) ELSE limit)])[DOMAIN items]
    BY DEF Fallbacks, Linked, FoldLeft, MapThenFoldSet, Max
  <2> HIDE DEF p
  <2> QED
    BY <2>1, <2>2
<1>3. \A t \in R : \A m \in 1..p : Linked(t, items[m], IF limit <= 0 THEN Len(items) ELSE limit) \in R
  BY DEF Linked
<1>4. \A t \in R : \A m \in 1..p : step[<<t, m>>] = Linked(t, items[m], IF limit <= 0 THEN Len(items) ELSE limit)
  <2> HIDE DEF R, p
  <2> QED
    OBVIOUS
<1>5. Steps(step, p, R)
  <2> HIDE DEF R, p
  <2> QED
    BY <1>3 DEF Steps
<1>6. <<>> \in R
  OBVIOUS
<1> HIDE DEF R, p, step, it
<1>7. ASSUME NEW f, Defines(f, p, R, <<>>, step)
      PROVE  Fold(f)
  <2>1. f \in [SUBSET (1..p) -> R] /\ f[{}] = <<>>
    BY <1>7 DEF Defines
  <2>2. ASSUME NEW S \in SUBSET (1..p), S # {}
        PROVE  f[S] = Linked(f[S \ {Max(S)}], items[Max(S)], IF limit <= 0 THEN Len(items) ELSE limit)
    <3>1. Max(S) \in 1..p /\ S \ {Max(S)} \in SUBSET (1..p)
      BY <1>1, <2>2, LastOf
    <3>2. f[S \ {Max(S)}] \in R
      BY <2>1, <3>1
    <3>3. f[S] = step[<<f[S \ {Max(S)}], Max(S)>>]
      BY <1>7, <2>2 DEF Defines
    <3> QED
      BY <1>4, <3>1, <3>2, <3>3
  <2> QED
    BY <2>1, <2>2
<1>8. ASSUME NEW f, Fold(f)
      PROVE  Follows(f, p, R, <<>>, step)
  <2>1. f[{}] = <<>>
    BY <1>8
  <2>2. ASSUME NEW m \in 1..p, f[1..(m-1)] \in R
        PROVE  f[1..m] = step[<<f[1..(m-1)], m>>]
    <3>1. 1..m \in SUBSET (1..p) /\ 1..m # {} /\ Max(1..m) = m /\ (1..m) \ {m} = 1..(m-1)
      BY <1>1, LastOf
    <3>2. f[1..m] = Linked(f[(1..m) \ {Max(1..m)}], items[Max(1..m)], IF limit <= 0 THEN Len(items) ELSE limit)
      BY <1>8, <3>1
    <3>3. f[1..m] = Linked(f[1..(m-1)], items[m], IF limit <= 0 THEN Len(items) ELSE limit)
      BY <3>1, <3>2
    <3>4. step[<<f[1..(m-1)], m>>] = Linked(f[1..(m-1)], items[m], IF limit <= 0 THEN Len(items) ELSE limit)
      BY <1>4, <2>2
    <3> QED
      BY <3>3, <3>4
  <2> QED
    BY <2>1, <2>2 DEF Follows
<1>9. Follows(it, p, R, <<>>, step)
  <2>1. \E f : Defines(f, p, R, <<>>, step)
    BY <1>1, <1>5, <1>6, FoldExists
  <2>2. \E f : Fold(f)
    BY <1>7, <2>1
  <2> HIDE DEF Fold
  <2>3. Fold(it)
    BY <2>2 DEF it
  <2> QED
    BY <1>8, <2>3
<1>10. PICK g : Runs(g, p, R, <<>>, step) /\ g[p] = it[1..p]
  <2> HIDE DEF Fold
  <2> QED
    BY <1>1, <1>5, <1>6, <1>9, FoldPrefix
<1>11. g \in [0..p -> R] /\ g[0] = <<>>
  BY <1>10 DEF Runs
<1>12. ASSUME NEW m \in 1..p
       PROVE  g[m-1] \in R /\ g[m] = Linked(g[m-1], items[m], IF limit <= 0 THEN Len(items) ELSE limit)
  <2>1. m - 1 \in 0..p
    BY <1>1
  <2>2. g[m-1] \in R
    BY <1>11, <2>1
  <2>3. g[m] = step[<<g[m-1], m>>]
    BY <1>10 DEF Runs
  <2> QED
    BY <1>4, <2>2, <2>3
<1>13. Fallbacks(limit) = g[p]
  BY <1>2, <1>10
<1> QED
  BY <1>11, <1>12, <1>13 DEF R, p

-----------------------------------------------------------------------------
\* The candidates of all requests and what is found of them.
Candidates == UNION {ToSet(q) : q \in Requests}

\* What is asked for are candidates.
LEMMA CandidateOf ==
  ASSUME NEW q \in Requests \cup {<<>>}, NEW n \in DOMAIN q
  PROVE  /\ q[n] \in Candidates /\ q[n].id \in Nat \ {0}
         /\ q \in Seq(ToSet(q)) /\ q \in Seq(Candidates)
<1>1. q \in Requests
  OBVIOUS
<1>2. q \in Seq(ToSet(q)) /\ q[n].id \in Nat \ {0}
  BY <1>1, RequestsAssumption
<1>3. \A m \in DOMAIN q : q[m] \in Candidates
  BY <1>1 DEF Candidates, ToSet
<1>4. q \in Seq(Candidates)
  BY <1>2, <1>3
<1> QED
  BY <1>2, <1>3, <1>4

\* A number that is found of a candidate is an integer.
LEMMA NumberFound ==
  ASSUME NEW c \in Candidates, NEW f \in Fields, Numeric(compileNativePathGetter(c, f))
  PROVE  compileNativePathGetter(c, f).n \in Int
<1>1. PICK q \in Requests : c \in ToSet(q)
  BY DEF Candidates
<1>2. PICK n \in DOMAIN q : c = q[n]
  BY <1>1 DEF ToSet
<1> QED
  BY <1>2, RequestsAssumption

\* What is read of a candidate as a number is one.
LEMMA FloatType ==
  ASSUME NEW c \in Candidates, NEW path \in {"priority", "specificity", "fallback", "cost", "weight"},
         NEW otherwise \in Int
  PROVE  nativeFloat(c, path, otherwise) \in Int
<1>1. Paths[path] \in Fields
  BY RankingAssumption
<1> QED
  BY <1>1, NumberFound DEF nativeFloat

\* A candidate is compared by numbers.
LEMMA CompareType ==
  ASSUME NEW c \in Candidates
  PROVE  compareValues(c) \in [priority : Int, specificity : Int, fallback : Int, cost : Int]
<1>1. 0 \in Int /\ Largest \in Int
  BY RankingAssumption
<1>2. /\ nativeFloat(c, "priority", 0) \in Int /\ nativeFloat(c, "specificity", 0) \in Int
      /\ nativeFloat(c, "fallback", Largest) \in Int /\ nativeFloat(c, "cost", 0) \in Int
  BY <1>1, FloatType
<1> QED
  BY <1>2 DEF compareValues

\* The points of a score rule are a number.
LEMMA PointsType ==
  ASSUME NEW s, NEW c \in Candidates, s.metric \in Fields, s.weight \in Int, s.min \in Int, s.max \in Int,
         Numeric(compileNativePathGetter(c, s.metric))
  PROVE  Points(s, c) \in Int
<1> DEFINE n == compileNativePathGetter(c, s.metric).n
<1>1. n \in Int
  BY NumberFound
<1> HIDE DEF n
<1>2. normalizeScore(n, s) \in Int
  <2>1. \A x, y \in Int : AtLeast(x, y) \in Int /\ AtMost(x, y) \in Int
    BY DEF AtLeast, AtMost
  <2>2. CASE s.max > s.min
    <3> DEFINE part == ((n - s.min) * One) \div (s.max - s.min)
    <3>1. s.max - s.min \in Int /\ s.max - s.min > 0 /\ (n - s.min) * One \in Int
      BY <1>1, <2>2 DEF One
    <3>2. part \in Int
      BY <3>1
    <3> HIDE DEF part
    <3>3. AtMost(AtLeast(part, 0), One) \in Int
      BY <2>1, <3>2 DEF One
    <3>4. One - AtMost(AtLeast(part, 0), One) \in Int
      BY <3>3 DEF One
    <3> QED
      BY <2>2, <3>3, <3>4 DEF normalizeScore, part
  <2>3. CASE ~(s.max > s.min)
    <3>1. n * (One \div 2) \in Int /\ -(n * (One \div 2)) \in Int
      BY <1>1 DEF One
    <3> QED
      BY <2>3, <3>1 DEF normalizeScore
  <2> QED
    BY <2>2, <2>3
<1>3. \A x, y \in Int : x * y \in Int
  OBVIOUS
<1> QED
  BY <1>2, <1>3 DEF Points, n

-----------------------------------------------------------------------------
\* Where the first item of a sequence is that passes a test, for a set of its positions.
LEMMA FirstOf ==
  ASSUME NEW n \in Nat, NEW S \in SUBSET (1..n)
  PROVE  /\ S # {} => Min(S) \in S /\ \A x \in S : Min(S) <= x
         /\ (IF S # {} THEN Min(S) ELSE 0) \in 0..n
<1>1. S \in SUBSET Nat
  OBVIOUS
<1>2. ASSUME S # {}
      PROVE  Min(S) \in S /\ \A x \in S : Min(S) <= x
  BY <1>1, <1>2, MinOf
<1>3. (IF S # {} THEN Min(S) ELSE 0) \in 0..n
  <2>1. CASE S = {}
    BY <2>1
  <2>2. CASE S # {}
    <3>1. Min(S) \in 1..n
      BY <1>2, <2>2
    <3> QED
      BY <2>2, <3>1
  <2> QED
    BY <2>1, <2>2
<1> QED
  BY <1>2, <1>3

\* How many rules of a group are looked at.
LookedAt(r, c, strict) ==
  IF GroupEnd(r.group.mode, ChildVerdicts(r, c, strict, "generic")) = 0 THEN Len(r.group.rules)
  ELSE GroupEnd(r.group.mode, ChildVerdicts(r, c, strict, "generic"))

\* No more rules of a group are looked at than it has.
LEMMA LookedAtType ==
  ASSUME NEW r, NEW c, NEW strict, r.group.rules \in Seq(ToSet(r.group.rules))
  PROVE  LookedAt(r, c, strict) \in 0..Len(r.group.rules)
<1> DEFINE verdicts == ChildVerdicts(r, c, strict, "generic")
           mode == r.group.mode
           S == {x \in 1..Len(verdicts) : verdicts[x] # IF mode = "all" THEN "yes" ELSE "no"}
<1>1. Len(verdicts) = Len(r.group.rules) /\ Len(r.group.rules) \in Nat
  BY DEF ChildVerdicts
<1> HIDE DEF verdicts, mode
<1>2. GroupEnd(mode, verdicts) = IF S # {} THEN Min(S) ELSE 0
  BY DEF GroupEnd, SelectInSeq
<1>3. S \in SUBSET (1..Len(r.group.rules))
  BY <1>1
<1> HIDE DEF S
<1>4. GroupEnd(mode, verdicts) \in 0..Len(r.group.rules)
  BY <1>1, <1>2, <1>3, FirstOf
<1>5. LookedAt(r, c, strict) = IF GroupEnd(mode, verdicts) = 0 THEN Len(r.group.rules) ELSE GroupEnd(mode, verdicts)
  BY DEF LookedAt, mode, verdicts
<1> QED
  BY <1>1, <1>4, <1>5

\* The positions of the rules that are looked at.
Looked(r, c, strict) == [n \in 1 .. LookedAt(r, c, strict) |-> n]

\* What one rule of a group adds to what was said.
SaysNext(so_far, n, r, c, strict) ==
  IF ChildVerdicts(r, c, strict, "generic")[n] = "yes" /\ r.group.rules[n].enabled
  THEN Append(so_far, r.group.rules[n]) ELSE so_far

\* What was said of a group after each of its rules.
LEMMA SaysRuns ==
  ASSUME NEW r, NEW c, NEW strict, r.group.rules \in Seq(ToSet(r.group.rules))
  PROVE  \E g : /\ g \in [0..LookedAt(r, c, strict) -> Seq(ToSet(r.group.rules))] /\ g[0] = <<>>
                /\ \A m \in 1..LookedAt(r, c, strict) : g[m-1] \in Seq(ToSet(r.group.rules)) /\ g[m] = SaysNext(g[m-1], Looked(r, c, strict)[m], r, c, strict)
                /\ GroupSays(r, c, strict) = g[LookedAt(r, c, strict)]
<1> DEFINE R == Seq(ToSet(r.group.rules))
           p == LookedAt(r, c, strict)
           step == [cell \in R \X (1..p) |-> SaysNext(cell[1], Looked(r, c, strict)[cell[2]], r, c, strict)]
           Fold(it) == it = [S \in SUBSET (1..p) |->
                               IF S = {} THEN <<>> ELSE SaysNext(it[S \ {Max(S)}], Looked(r, c, strict)[Max(S)], r, c, strict)]
           it == CHOOSE u : Fold(u)
<1>1. p \in Nat
  BY LookedAtType
<1>2. GroupSays(r, c, strict) = it[1..p]
  <2>1. DOMAIN Looked(r, c, strict) = 1..p
    BY DEF Looked
  <2>2. GroupSays(r, c, strict) = (CHOOSE u : u = [S \in SUBSET DOMAIN Looked(r, c, strict) |-> IF S = {} THEN <<>> ELSE SaysNext(u[S \ {Max(S)}], Looked(r, c, strict)[Max(S)], r, c, strict)])[DOMAIN Looked(r, c, strict)]
    BY DEF GroupSays, SaysNext, Looked, LookedAt, FoldLeft, MapThenFoldSet, Max
  <2> HIDE DEF p
  <2> QED
    BY <2>1, <2>2
<1>3. \A t \in R : \A m \in 1..p : SaysNext(t, Looked(r, c, strict)[m], r, c, strict) \in R
  <2> SUFFICES ASSUME NEW t \in R, NEW m \in 1..p
               PROVE  SaysNext(t, Looked(r, c, strict)[m], r, c, strict) \in R
    OBVIOUS
  <2>1. m \in 1..Len(r.group.rules) /\ Looked(r, c, strict)[m] = m
    BY LookedAtType DEF Looked
  <2>2. r.group.rules[m] \in ToSet(r.group.rules)
    BY <2>1 DEF ToSet
  <2>3. \A X : \A u \in Seq(X) : \A x \in X : Append(u, x) \in Seq(X)
    OBVIOUS
  <2>4. t \in Seq(ToSet(r.group.rules)) /\ Append(t, r.group.rules[m]) \in Seq(ToSet(r.group.rules))
    BY <2>2, <2>3
  <2> QED
    BY <2>1, <2>4 DEF SaysNext
<1>4. \A t \in R : \A m \in 1..p : step[<<t, m>>] = SaysNext(t, Looked(r, c, strict)[m], r, c, strict)
  <2> HIDE DEF R, p
  <2> QED
    OBVIOUS
<1>5. Steps(step, p, R)
  <2> HIDE DEF R, p
  <2> QED
    BY <1>3 DEF Steps
<1>6. <<>> \in R
  OBVIOUS
<1> HIDE DEF R, p, step, it
<1>7. ASSUME NEW f, Defines(f, p, R, <<>>, step)
      PROVE  Fold(f)
  <2>1. f \in [SUBSET (1..p) -> R] /\ f[{}] = <<>>
    BY <1>7 DEF Defines
  <2>2. ASSUME NEW S \in SUBSET (1..p), S # {}
        PROVE  f[S] = SaysNext(f[S \ {Max(S)}], Looked(r, c, strict)[Max(S)], r, c, strict)
    <3>1. Max(S) \in 1..p /\ S \ {Max(S)} \in SUBSET (1..p)
      BY <1>1, <2>2, LastOf
    <3>2. f[S \ {Max(S)}] \in R
      BY <2>1, <3>1
    <3>3. f[S] = step[<<f[S \ {Max(S)}], Max(S)>>]
      BY <1>7, <2>2 DEF Defines
    <3> QED
      BY <1>4, <3>1, <3>2, <3>3
  <2> QED
    BY <2>1, <2>2
<1>8. ASSUME NEW f, Fold(f)
      PROVE  Follows(f, p, R, <<>>, step)
  <2>1. f[{}] = <<>>
    BY <1>8
  <2>2. ASSUME NEW m \in 1..p, f[1..(m-1)] \in R
        PROVE  f[1..m] = step[<<f[1..(m-1)], m>>]
    <3>1. 1..m \in SUBSET (1..p) /\ 1..m # {} /\ Max(1..m) = m /\ (1..m) \ {m} = 1..(m-1)
      BY <1>1, LastOf
    <3>2. f[1..m] = SaysNext(f[(1..m) \ {Max(1..m)}], Looked(r, c, strict)[Max(1..m)], r, c, strict)
      BY <1>8, <3>1
    <3>3. f[1..m] = SaysNext(f[1..(m-1)], Looked(r, c, strict)[m], r, c, strict)
      BY <3>1, <3>2
    <3>4. step[<<f[1..(m-1)], m>>] = SaysNext(f[1..(m-1)], Looked(r, c, strict)[m], r, c, strict)
      BY <1>4, <2>2
    <3> QED
      BY <3>3, <3>4
  <2> QED
    BY <2>1, <2>2 DEF Follows
<1>9. Follows(it, p, R, <<>>, step)
  <2>1. \E f : Defines(f, p, R, <<>>, step)
    BY <1>1, <1>5, <1>6, FoldExists
  <2>2. \E f : Fold(f)
    BY <1>7, <2>1
  <2> HIDE DEF Fold
  <2>3. Fold(it)
    BY <2>2 DEF it
  <2> QED
    BY <1>8, <2>3
<1>10. PICK g : Runs(g, p, R, <<>>, step) /\ g[p] = it[1..p]
  <2> HIDE DEF Fold
  <2> QED
    BY <1>1, <1>5, <1>6, <1>9, FoldPrefix
<1>11. g \in [0..p -> R] /\ g[0] = <<>>
  BY <1>10 DEF Runs
<1>12. ASSUME NEW m \in 1..p
       PROVE  g[m-1] \in R /\ g[m] = SaysNext(g[m-1], Looked(r, c, strict)[m], r, c, strict)
  <2>1. m - 1 \in 0..p
    BY <1>1
  <2>2. g[m-1] \in R
    BY <1>11, <2>1
  <2>3. g[m] = step[<<g[m-1], m>>]
    BY <1>10 DEF Runs
  <2> QED
    BY <1>4, <2>2, <2>3
<1>13. GroupSays(r, c, strict) = g[p]
  BY <1>2, <1>10
<1> QED
  BY <1>11, <1>12, <1>13 DEF R, p

\* The sequence that steps make from base.
LEMMA RunExists ==
  ASSUME NEW n \in Nat, NEW R, NEW base \in R, NEW step, Steps(step, n, R)
  PROVE  \E g : Runs(g, n, R, base, step)
<1>1. PICK it : Defines(it, n, R, base, step)
  BY FoldExists
<1>2. ASSUME NEW m \in 1..n
      PROVE  it[1..m] = step[<<it[1..(m-1)], m>>]
  <2>1. 1..m \in SUBSET (1..n) /\ 1..m # {} /\ Max(1..m) = m /\ (1..m) \ {m} = 1..(m-1)
    BY LastOf
  <2>2. it[1..m] = step[<<it[(1..m) \ {Max(1..m)}], Max(1..m)>>]
    BY <1>1, <2>1 DEF Defines
  <2> QED
    BY <2>1, <2>2
<1>3. Follows(it, n, R, base, step)
  BY <1>1, <1>2 DEF Defines, Follows
<1> QED
  BY <1>3, FoldPrefix

\* Sequences one behind the other.
LEMMA FlattenRuns ==
  ASSUME NEW X, NEW seqs \in Seq(Seq(X))
  PROVE  \E g : /\ g \in [0..Len(seqs) -> Seq(X)] /\ g[0] = <<>>
                /\ \A m \in 1..Len(seqs) : g[m-1] \in Seq(X) /\ g[m] = g[m-1] \o seqs[m]
                /\ FlattenSeq(seqs) = g[Len(seqs)]
<1> DEFINE p == Len(seqs)
           step == [cell \in Seq(X) \X (1..p) |-> cell[1] \o seqs[cell[2]]]
           Flat(it) == it = [m \in 1..p |-> IF m = 1 THEN seqs[m] ELSE it[m-1] \o seqs[m]]
           flat == CHOOSE it : Flat(it)
<1>1. p \in Nat /\ \A m \in 1..p : seqs[m] \in Seq(X)
  OBVIOUS
<1>2. <<>> \in Seq(X)
  OBVIOUS
<1>3. Steps(step, p, Seq(X))
  <2>1. ASSUME NEW t \in Seq(X), NEW m \in 1..p
        PROVE  t \o seqs[m] \in Seq(X)
    BY <1>1
  <2> HIDE DEF p
  <2> QED
    BY <2>1 DEF Steps
<1>4. PICK g : Runs(g, p, Seq(X), <<>>, step)
  <2> HIDE DEF p, step
  <2> QED
    BY <1>1, <1>2, <1>3, RunExists
<1>5. /\ g \in [0..p -> Seq(X)] /\ g[0] = <<>>
      /\ \A m \in 1..p : g[m-1] \in Seq(X) /\ g[m] = g[m-1] \o seqs[m]
  <2>1. g \in [0..p -> Seq(X)] /\ g[0] = <<>>
    BY <1>4 DEF Runs
  <2>2. ASSUME NEW m \in 1..p
        PROVE  g[m-1] \in Seq(X) /\ g[m] = g[m-1] \o seqs[m]
    <3>1. m - 1 \in 0..p
      BY <1>1
    <3>2. g[m-1] \in Seq(X)
      BY <2>1, <3>1
    <3>3. g[m] = step[<<g[m-1], m>>]
      BY <1>4 DEF Runs
    <3> HIDE DEF p
    <3> QED
      BY <3>2, <3>3
  <2> QED
    BY <2>1, <2>2
<1>6. FlattenSeq(seqs) = g[p]
  <2>1. CASE p = 0
    <3>1. seqs = <<>>
      BY <2>1
    <3> QED
      BY <1>5, <2>1, <3>1 DEF FlattenSeq
  <2>2. CASE p # 0
    <3>1. FlattenSeq(seqs) = flat[p]
      BY <2>2 DEF FlattenSeq
    <3> HIDE DEF p
    <3>2. Flat([m \in 1..p |-> g[m]])
      <4>1. ASSUME NEW m \in 1..p
            PROVE  g[m] = IF m = 1 THEN seqs[m] ELSE [l \in 1..p |-> g[l]][m-1] \o seqs[m]
        <5>1. CASE m = 1
          <6>1. m - 1 = 0 /\ seqs[m] \in Seq(X)
            BY <1>1, <5>1
          <6>2. g[m] = <<>> \o seqs[m]
            BY <1>5, <6>1
          <6> QED
            BY <5>1, <6>1, <6>2
        <5>2. CASE m # 1
          <6>1. m - 1 \in 1..p
            BY <1>1, <5>2
          <6> QED
            BY <1>5, <5>2, <6>1
        <5> QED
          BY <5>1, <5>2
      <4> QED
        BY <4>1
    <3>3. Flat(flat)
      <4>1. \E it : Flat(it)
        BY <3>2
      <4> HIDE DEF Flat
      <4> QED
        BY <4>1
    <3> HIDE DEF flat
    <3> DEFINE B == {m \in 1..p : flat[m] # g[m]}
    <3>4. B = {}
      <4> SUFFICES ASSUME B # {}
                   PROVE  FALSE
        OBVIOUS
      <4>1. PICK m \in B : \A d \in B : m <= d
        <5>1. B \in SUBSET Nat
          BY <1>1
        <5> HIDE DEF B
        <5> QED
          BY <5>1, LeastOne
      <4>2. flat[m] = IF m = 1 THEN seqs[m] ELSE flat[m-1] \o seqs[m]
        <5> HIDE DEF flat
        <5> QED
          BY <3>3
      <4>3. CASE m = 1
        <5>1. m - 1 = 0 /\ seqs[m] \in Seq(X) /\ m \in 1..p
          BY <1>1, <4>3
        <5>2. g[m] = <<>> \o seqs[m]
          BY <1>5, <5>1
        <5> QED
          BY <4>2, <4>3, <5>1, <5>2
      <4>4. CASE m # 1
        <5>1. m - 1 \in 1..p /\ m - 1 \notin B
          BY <1>1, <4>1, <4>4
        <5>2. flat[m-1] = g[m-1]
          BY <5>1
        <5> QED
          BY <1>5, <4>2, <4>4, <5>2
      <4> QED
        BY <4>3, <4>4
    <3>5. p \in 1..p
      BY <1>1, <2>2
    <3> QED
      BY <3>1, <3>4, <3>5
  <2> QED
    BY <2>1, <2>2
<1> QED
  BY <1>5, <1>6

\* Sequences one behind the other are one.
LEMMA FlattenType ==
  ASSUME NEW X, NEW seqs \in Seq(Seq(X))
  PROVE  FlattenSeq(seqs) \in Seq(X)
<1>1. PICK g : g \in [0..Len(seqs) -> Seq(X)] /\ FlattenSeq(seqs) = g[Len(seqs)]
  BY FlattenRuns
<1>2. Len(seqs) \in 0..Len(seqs)
  OBVIOUS
<1> QED
  BY <1>1, <1>2

-----------------------------------------------------------------------------
\* What is found of a candidate.

\* What reasons and actions are made of.
Texts == STRING \cup {"", "missing metric", "unused"}

Ways == {"native", "generic"}

AllRules == UNION {ToSet(rk.rules) : rk \in Rankers}

\* What a rule may decide.
DecidedBy(r, c, strict, how) ==
  LET verdict == evalEligibility(r, c, strict, how)
  IN  Decides(Sayings(r, verdict, c, strict, how), verdict)

Decided == {DecidedBy(r, c, rk.strict, how) : r \in AllRules, c \in Candidates, rk \in Rankers, how \in Ways}
Decisions == {""} \cup Decided

Finding ==
  [ended : BOOLEAN, error : BOOLEAN, eligible : BOOLEAN, score : Int, decision : Decisions,
   reasons : Seq(Texts), actions : Seq(Seq(Texts))]

\* What a rule of a ranker is made of.
LEMMA RuleOf ==
  ASSUME NEW rk \in Rankers, NEW r \in ToSet(rk.rules)
  PROVE  /\ r \in AllRules /\ r.score \in Int /\ r.reason \in Texts /\ r.actions \in Seq(Texts)
         /\ r.group.rules \in Seq(ToSet(r.group.rules))
         /\ \A child \in ToSet(r.group.rules) : child.actions \in Seq(Texts)
<1>1. \A u \in Seq(STRING) : u \in Seq(Texts)
  <2>1. STRING \subseteq Texts
    BY DEF Texts
  <2>2. \A A, B : A \subseteq B => \A u \in Seq(A) : u \in Seq(B)
    OBVIOUS
  <2> QED
    BY <2>1, <2>2
<1>2. /\ r.score \in Int /\ r.reason \in STRING /\ r.actions \in Seq(STRING)
      /\ r.group.rules \in Seq(ToSet(r.group.rules))
      /\ \A child \in ToSet(r.group.rules) : child.actions \in Seq(STRING)
  BY RankersAssumption
<1> QED
  BY <1>1, <1>2 DEF AllRules, Texts

\* What a rule says are rules with actions.
LEMMA SayingsType ==
  ASSUME NEW rk \in Rankers, NEW r \in ToSet(rk.rules), NEW c, NEW strict, NEW how, NEW verdict
  PROVE  /\ Sayings(r, verdict, c, strict, how) \in Seq(ToSet(r.group.rules) \cup {r})
         /\ \A n \in DOMAIN Sayings(r, verdict, c, strict, how) : Sayings(r, verdict, c, strict, how)[n].actions \in Seq(Texts)
<1> DEFINE X == ToSet(r.group.rules) \cup {r}
<1>1. /\ r.group.rules \in Seq(ToSet(r.group.rules))
      /\ \A x \in X : x.actions \in Seq(Texts)
  BY RuleOf
<1>2. GroupSays(r, c, strict) \in Seq(ToSet(r.group.rules))
  <2>1. PICK g : /\ g \in [0..LookedAt(r, c, strict) -> Seq(ToSet(r.group.rules))]
                 /\ GroupSays(r, c, strict) = g[LookedAt(r, c, strict)]
    BY <1>1, SaysRuns
  <2>2. LookedAt(r, c, strict) \in 0..Len(r.group.rules) /\ Len(r.group.rules) \in Nat
    BY <1>1, LookedAtType
  <2>3. LookedAt(r, c, strict) \in 0..LookedAt(r, c, strict)
    BY <2>2
  <2> QED
    BY <2>1, <2>3
<1>3. GroupSays(r, c, strict) \in Seq(X)
  <2>1. ToSet(r.group.rules) \subseteq X
    OBVIOUS
  <2>2. \A A, B : A \subseteq B => \A u \in Seq(A) : u \in Seq(B)
    OBVIOUS
  <2> HIDE DEF X
  <2> QED
    BY <1>2, <2>1, <2>2
<1>4. r \in X
  OBVIOUS
<1> HIDE DEF X
<1>5. Sayings(r, verdict, c, strict, how) \in Seq(X)
  BY <1>3, <1>4 DEF Sayings
<1>6. \A n \in DOMAIN Sayings(r, verdict, c, strict, how) : Sayings(r, verdict, c, strict, how)[n] \in X
  BY <1>5
<1> QED
  BY <1>1, <1>5, <1>6 DEF X

\* Reasons are texts.
LEMMA ExplainedType ==
  ASSUME NEW rk, NEW so_far \in Seq(Texts), NEW reason \in Texts
  PROVE  Explained(rk, so_far, reason) \in Seq(Texts)
<1>1. Append(so_far, reason) \in Seq(Texts)
  OBVIOUS
<1> QED
  BY <1>1, Zenon DEF Explained

\* A rule makes a finding of a finding.
LEMMA RankRuleType ==
  ASSUME NEW rk \in Rankers, NEW r \in ToSet(rk.rules), NEW c \in Candidates, NEW how \in Ways, NEW res \in Finding
  PROVE  RankRule(res, r, c, rk, how) \in Finding
<1> DEFINE verdict == evalEligibility(r, c, rk.strict, how)
           said == Sayings(r, verdict, c, rk.strict, how)
<1>1. RankRule(res, r, c, rk, how) = IF res.ended THEN res ELSE AfterRule(res, r, verdict, said, rk)
  BY DEF RankRule
<1>2. r.score \in Int /\ r.reason \in Texts /\ r \in AllRules
  BY RuleOf
<1>3. Decides(said, verdict) \in Decisions
  <2>1. DecidedBy(r, c, rk.strict, how) \in Decided
    BY <1>2 DEF Decided
  <2>2. DecidedBy(r, c, rk.strict, how) \in Decisions
    BY <2>1, Zenon DEF Decisions
  <2> QED
    BY <2>2 DEF DecidedBy
<1>4. FlattenSeq([n \in DOMAIN said |-> said[n].actions]) \in Seq(Texts)
  <2>1. said \in Seq(ToSet(r.group.rules) \cup {r}) /\ \A n \in DOMAIN said : said[n].actions \in Seq(Texts)
    BY SayingsType
  <2> HIDE DEF said
  <2>2. [n \in DOMAIN said |-> said[n].actions] \in Seq(Seq(Texts))
    BY <2>1
  <2> QED
    BY <2>2, FlattenType
<1> HIDE DEF verdict, said
<1>5. /\ res.score \in Int /\ res.decision \in Decisions /\ res.reasons \in Seq(Texts)
      /\ res.actions \in Seq(Seq(Texts))
  BY DEF Finding
<1>6. /\ res.score + One * r.score \in Int
      /\ Explained(rk, res.reasons, r.reason) \in Seq(Texts)
      /\ Append(res.actions, FlattenSeq([n \in DOMAIN said |-> said[n].actions])) \in Seq(Seq(Texts))
  <2>1. res.score + One * r.score \in Int
    BY <1>2, <1>5 DEF One
  <2>2. Explained(rk, res.reasons, r.reason) \in Seq(Texts)
    BY <1>2, <1>5, ExplainedType
  <2>3. Append(res.actions, FlattenSeq([n \in DOMAIN said |-> said[n].actions])) \in Seq(Seq(Texts))
    BY <1>4, <1>5
  <2> QED
    BY <2>1, <2>2, <2>3
<1>7. AfterRule(res, r, verdict, said, rk) \in Finding
  BY <1>3, <1>5, <1>6 DEF AfterRule, Finding
<1> QED
  BY <1>1, <1>7

\* A score rule makes a finding of a finding.
LEMMA RankScoreType ==
  ASSUME NEW rk \in Rankers, NEW s \in ToSet(rk.scores), NEW c \in Candidates, NEW how \in Ways, NEW res \in Finding
  PROVE  RankScore(res, s, c, rk, how) \in Finding
<1> DEFINE outcome == ScoreOutcome(s, c, rk.strict, how)
           reason == CASE outcome = "points" -> s.reason
                       [] outcome \in {"missing", "rejects"} -> "missing metric"
                       [] OTHER -> ""
<1>1. s.metric \in Fields /\ s.reason \in STRING /\ s.weight \in Int /\ s.min \in Int /\ s.max \in Int
  BY RankersAssumption
<1>2. outcome = "points" => Numeric(compileNativePathGetter(c, s.metric))
  BY DEF ScoreOutcome
<1>3. outcome = "points" => Points(s, c) \in Int
  BY <1>1, <1>2, PointsType
<1> HIDE DEF outcome
<1>4. reason \in Texts
  <2>1. CASE outcome = "points"
    BY <1>1, <2>1 DEF Texts
  <2>2. CASE outcome \in {"missing", "rejects"}
    BY <2>2 DEF Texts
  <2>3. CASE outcome \notin {"points", "missing", "rejects"}
    BY <2>3 DEF Texts
  <2> QED
    BY <2>1, <2>2, <2>3
<1> HIDE DEF reason
<1>5. /\ res.score \in Int /\ res.decision \in Decisions /\ res.reasons \in Seq(Texts)
      /\ res.actions \in Seq(Seq(Texts))
  BY DEF Finding
<1>6. Explained(rk, res.reasons, reason) \in Seq(Texts)
  BY <1>4, <1>5, ExplainedType
<1>7. (IF outcome = "points" THEN res.score + Points(s, c) ELSE res.score) \in Int
  BY <1>3, <1>5
<1> DEFINE ends == outcome \in {"error", "rejects"}
           fails == outcome = "error"
           stays == outcome \notin {"error", "rejects"}
           score == IF outcome = "points" THEN res.score + Points(s, c) ELSE res.score
           reasons == Explained(rk, res.reasons, reason)
<1>8. AfterScore(res, s, outcome, c, rk) =
        [res EXCEPT !.ended = ends, !.error = fails, !.eligible = stays, !.score = score, !.reasons = reasons]
  BY DEF AfterScore, reason
<1>9. AfterScore(res, s, outcome, c, rk) \in Finding
  <2>1. ends \in BOOLEAN /\ fails \in BOOLEAN /\ stays \in BOOLEAN
    OBVIOUS
  <2>2. score \in Int /\ reasons \in Seq(Texts)
    BY <1>6, <1>7
  <2> HIDE DEF ends, fails, stays, score, reasons
  <2>3. [res EXCEPT !.ended = ends, !.error = fails, !.eligible = stays, !.score = score, !.reasons = reasons] \in Finding
    BY <2>1, <2>2 DEF Finding
  <2> QED
    BY <1>8, <2>3
<1> QED
  BY <1>9 DEF RankScore, outcome

\* What the rules find, one after the other.
RuledBy(rk, c, how) == FoldLeft(LAMBDA res, r : RankRule(res, r, c, rk, how), Fresh, rk.rules)

\* What the rules have found after each of them.
LEMMA RuleRuns ==
  ASSUME NEW rk \in Rankers, NEW c \in Candidates, NEW how \in Ways
  PROVE  \E g : /\ g \in [0..Len(rk.rules) -> Finding] /\ g[0] = Fresh
                /\ \A m \in 1..Len(rk.rules) : g[m-1] \in Finding /\ g[m] = RankRule(g[m-1], rk.rules[m], c, rk, how)
                /\ RuledBy(rk, c, how) = g[Len(rk.rules)]
<1> DEFINE R == Finding
           p == Len(rk.rules)
           step == [cell \in R \X (1..p) |-> RankRule(cell[1], rk.rules[cell[2]], c, rk, how)]
           Fold(it) == it = [S \in SUBSET (1..p) |->
                               IF S = {} THEN Fresh ELSE RankRule(it[S \ {Max(S)}], rk.rules[Max(S)], c, rk, how)]
           it == CHOOSE u : Fold(u)
<1>1. p \in Nat
  BY RankersAssumption
<1>2. RuledBy(rk, c, how) = it[1..p]
  <2>1. DOMAIN rk.rules = 1..p
    BY RankersAssumption
  <2>2. RuledBy(rk, c, how) = (CHOOSE u : u = [S \in SUBSET DOMAIN rk.rules |-> IF S = {} THEN Fresh ELSE RankRule(u[S \ {Max(S)}], rk.rules[Max(S)], c, rk, how)])[DOMAIN rk.rules]
    BY DEF RuledBy, FoldLeft, MapThenFoldSet, Max
  <2> HIDE DEF p
  <2> QED
    BY <2>1, <2>2
<1>3. \A t \in R : \A m \in 1..p : RankRule(t, rk.rules[m], c, rk, how) \in R
  <2>1. \A m \in 1..p : rk.rules[m] \in ToSet(rk.rules)
    BY RankersAssumption DEF ToSet
  <2> QED
    BY <2>1, RankRuleType
<1>4. \A t \in R : \A m \in 1..p : step[<<t, m>>] = RankRule(t, rk.rules[m], c, rk, how)
  <2> HIDE DEF R, p
  <2> QED
    OBVIOUS
<1>5. Steps(step, p, R)
  <2> HIDE DEF R, p
  <2> QED
    BY <1>3 DEF Steps
<1>6. Fresh \in R
  BY DEF Fresh, Finding, Decisions
<1> HIDE DEF R, p, step, it
<1>7. ASSUME NEW f, Defines(f, p, R, Fresh, step)
      PROVE  Fold(f)
  <2>1. f \in [SUBSET (1..p) -> R] /\ f[{}] = Fresh
    BY <1>7 DEF Defines
  <2>2. ASSUME NEW S \in SUBSET (1..p), S # {}
        PROVE  f[S] = RankRule(f[S \ {Max(S)}], rk.rules[Max(S)], c, rk, how)
    <3>1. Max(S) \in 1..p /\ S \ {Max(S)} \in SUBSET (1..p)
      BY <1>1, <2>2, LastOf
    <3>2. f[S \ {Max(S)}] \in R
      BY <2>1, <3>1
    <3>3. f[S] = step[<<f[S \ {Max(S)}], Max(S)>>]
      BY <1>7, <2>2 DEF Defines
    <3> QED
      BY <1>4, <3>1, <3>2, <3>3
  <2> QED
    BY <2>1, <2>2
<1>8. ASSUME NEW f, Fold(f)
      PROVE  Follows(f, p, R, Fresh, step)
  <2>1. f[{}] = Fresh
    BY <1>8
  <2>2. ASSUME NEW m \in 1..p, f[1..(m-1)] \in R
        PROVE  f[1..m] = step[<<f[1..(m-1)], m>>]
    <3>1. 1..m \in SUBSET (1..p) /\ 1..m # {} /\ Max(1..m) = m /\ (1..m) \ {m} = 1..(m-1)
      BY <1>1, LastOf
    <3>2. f[1..m] = RankRule(f[(1..m) \ {Max(1..m)}], rk.rules[Max(1..m)], c, rk, how)
      BY <1>8, <3>1
    <3>3. f[1..m] = RankRule(f[1..(m-1)], rk.rules[m], c, rk, how)
      BY <3>1, <3>2
    <3>4. step[<<f[1..(m-1)], m>>] = RankRule(f[1..(m-1)], rk.rules[m], c, rk, how)
      BY <1>4, <2>2
    <3> QED
      BY <3>3, <3>4
  <2> QED
    BY <2>1, <2>2 DEF Follows
<1>9. Follows(it, p, R, Fresh, step)
  <2>1. \E f : Defines(f, p, R, Fresh, step)
    BY <1>1, <1>5, <1>6, FoldExists
  <2>2. \E f : Fold(f)
    BY <1>7, <2>1
  <2> HIDE DEF Fold
  <2>3. Fold(it)
    BY <2>2 DEF it
  <2> QED
    BY <1>8, <2>3
<1>10. PICK g : Runs(g, p, R, Fresh, step) /\ g[p] = it[1..p]
  <2> HIDE DEF Fold
  <2> QED
    BY <1>1, <1>5, <1>6, <1>9, FoldPrefix
<1>11. g \in [0..p -> R] /\ g[0] = Fresh
  BY <1>10 DEF Runs
<1>12. ASSUME NEW m \in 1..p
       PROVE  g[m-1] \in R /\ g[m] = RankRule(g[m-1], rk.rules[m], c, rk, how)
  <2>1. m - 1 \in 0..p
    BY <1>1
  <2>2. g[m-1] \in R
    BY <1>11, <2>1
  <2>3. g[m] = step[<<g[m-1], m>>]
    BY <1>10 DEF Runs
  <2> QED
    BY <1>4, <2>2, <2>3
<1>13. RuledBy(rk, c, how) = g[p]
  BY <1>2, <1>10
<1> QED
  BY <1>11, <1>12, <1>13 DEF R, p

\* What the score rules make of that.
ScoredBy(rk, c, how, ruled) == FoldLeft(LAMBDA res, s : RankScore(res, s, c, rk, how), ruled, rk.scores)

\* What the score rules have found after each of them.
LEMMA ScoreRuns ==
  ASSUME NEW rk \in Rankers, NEW c \in Candidates, NEW how \in Ways, NEW ruled \in Finding
  PROVE  \E g : /\ g \in [0..Len(rk.scores) -> Finding] /\ g[0] = ruled
                /\ \A m \in 1..Len(rk.scores) : g[m-1] \in Finding /\ g[m] = RankScore(g[m-1], rk.scores[m], c, rk, how)
                /\ ScoredBy(rk, c, how, ruled) = g[Len(rk.scores)]
<1> DEFINE R == Finding
           p == Len(rk.scores)
           step == [cell \in R \X (1..p) |-> RankScore(cell[1], rk.scores[cell[2]], c, rk, how)]
           Fold(it) == it = [S \in SUBSET (1..p) |->
                               IF S = {} THEN ruled ELSE RankScore(it[S \ {Max(S)}], rk.scores[Max(S)], c, rk, how)]
           it == CHOOSE u : Fold(u)
<1>1. p \in Nat
  BY RankersAssumption
<1>2. ScoredBy(rk, c, how, ruled) = it[1..p]
  <2>1. DOMAIN rk.scores = 1..p
    BY RankersAssumption
  <2>2. ScoredBy(rk, c, how, ruled) = (CHOOSE u : u = [S \in SUBSET DOMAIN rk.scores |-> IF S = {} THEN ruled ELSE RankScore(u[S \ {Max(S)}], rk.scores[Max(S)], c, rk, how)])[DOMAIN rk.scores]
    BY DEF ScoredBy, FoldLeft, MapThenFoldSet, Max
  <2> HIDE DEF p
  <2> QED
    BY <2>1, <2>2
<1>3. \A t \in R : \A m \in 1..p : RankScore(t, rk.scores[m], c, rk, how) \in R
  <2>1. \A m \in 1..p : rk.scores[m] \in ToSet(rk.scores)
    BY RankersAssumption DEF ToSet
  <2> QED
    BY <2>1, RankScoreType
<1>4. \A t \in R : \A m \in 1..p : step[<<t, m>>] = RankScore(t, rk.scores[m], c, rk, how)
  <2> HIDE DEF R, p
  <2> QED
    OBVIOUS
<1>5. Steps(step, p, R)
  <2> HIDE DEF R, p
  <2> QED
    BY <1>3 DEF Steps
<1>6. ruled \in R
  OBVIOUS
<1> HIDE DEF R, p, step, it
<1>7. ASSUME NEW f, Defines(f, p, R, ruled, step)
      PROVE  Fold(f)
  <2>1. f \in [SUBSET (1..p) -> R] /\ f[{}] = ruled
    BY <1>7 DEF Defines
  <2>2. ASSUME NEW S \in SUBSET (1..p), S # {}
        PROVE  f[S] = RankScore(f[S \ {Max(S)}], rk.scores[Max(S)], c, rk, how)
    <3>1. Max(S) \in 1..p /\ S \ {Max(S)} \in SUBSET (1..p)
      BY <1>1, <2>2, LastOf
    <3>2. f[S \ {Max(S)}] \in R
      BY <2>1, <3>1
    <3>3. f[S] = step[<<f[S \ {Max(S)}], Max(S)>>]
      BY <1>7, <2>2 DEF Defines
    <3> QED
      BY <1>4, <3>1, <3>2, <3>3
  <2> QED
    BY <2>1, <2>2
<1>8. ASSUME NEW f, Fold(f)
      PROVE  Follows(f, p, R, ruled, step)
  <2>1. f[{}] = ruled
    BY <1>8
  <2>2. ASSUME NEW m \in 1..p, f[1..(m-1)] \in R
        PROVE  f[1..m] = step[<<f[1..(m-1)], m>>]
    <3>1. 1..m \in SUBSET (1..p) /\ 1..m # {} /\ Max(1..m) = m /\ (1..m) \ {m} = 1..(m-1)
      BY <1>1, LastOf
    <3>2. f[1..m] = RankScore(f[(1..m) \ {Max(1..m)}], rk.scores[Max(1..m)], c, rk, how)
      BY <1>8, <3>1
    <3>3. f[1..m] = RankScore(f[1..(m-1)], rk.scores[m], c, rk, how)
      BY <3>1, <3>2
    <3>4. step[<<f[1..(m-1)], m>>] = RankScore(f[1..(m-1)], rk.scores[m], c, rk, how)
      BY <1>4, <2>2
    <3> QED
      BY <3>3, <3>4
  <2> QED
    BY <2>1, <2>2 DEF Follows
<1>9. Follows(it, p, R, ruled, step)
  <2>1. \E f : Defines(f, p, R, ruled, step)
    BY <1>1, <1>5, <1>6, FoldExists
  <2>2. \E f : Fold(f)
    BY <1>7, <2>1
  <2> HIDE DEF Fold
  <2>3. Fold(it)
    BY <2>2 DEF it
  <2> QED
    BY <1>8, <2>3
<1>10. PICK g : Runs(g, p, R, ruled, step) /\ g[p] = it[1..p]
  <2> HIDE DEF Fold
  <2> QED
    BY <1>1, <1>5, <1>6, <1>9, FoldPrefix
<1>11. g \in [0..p -> R] /\ g[0] = ruled
  BY <1>10 DEF Runs
<1>12. ASSUME NEW m \in 1..p
       PROVE  g[m-1] \in R /\ g[m] = RankScore(g[m-1], rk.scores[m], c, rk, how)
  <2>1. m - 1 \in 0..p
    BY <1>1
  <2>2. g[m-1] \in R
    BY <1>11, <2>1
  <2>3. g[m] = step[<<g[m-1], m>>]
    BY <1>10 DEF Runs
  <2> QED
    BY <1>4, <2>2, <2>3
<1>13. ScoredBy(rk, c, how, ruled) = g[p]
  BY <1>2, <1>10
<1> QED
  BY <1>11, <1>12, <1>13 DEF R, p

\* What is found of a candidate is a finding.
LEMMA FindingType ==
  ASSUME NEW rk \in Rankers, NEW c \in Candidates, NEW how \in Ways
  PROVE  RankCandidate(rk, c, how) \in Finding
<1>1. RankCandidate(rk, c, how) = ScoredBy(rk, c, how, RuledBy(rk, c, how))
  BY DEF RankCandidate, RuledBy, ScoredBy
<1>2. RuledBy(rk, c, how) \in Finding
  <2>1. PICK g : g \in [0..Len(rk.rules) -> Finding] /\ RuledBy(rk, c, how) = g[Len(rk.rules)]
    BY RuleRuns
  <2>2. Len(rk.rules) \in 0..Len(rk.rules)
    BY RankersAssumption
  <2> QED
    BY <2>1, <2>2
<1>3. ASSUME NEW ruled \in Finding
      PROVE  ScoredBy(rk, c, how, ruled) \in Finding
  <2>1. PICK g : g \in [0..Len(rk.scores) -> Finding] /\ ScoredBy(rk, c, how, ruled) = g[Len(rk.scores)]
    BY ScoreRuns
  <2>2. Len(rk.scores) \in 0..Len(rk.scores)
    BY RankersAssumption
  <2> QED
    BY <2>1, <2>2
<1> QED
  BY <1>1, <1>2, <1>3

-----------------------------------------------------------------------------
\* Memory.

Slices == [at : Nat, len : Nat]
Heaps == Seq(Seq(Texts))

\* A slice ends within its array, if it has one.
Fits(h, s) == s.at <= Len(h) /\ s.len <= Room(h, s)

\* What appending to s0 over h0 may come to: other arrays stay as they are.
MemoryFrom(h0, s0) ==
  {m \in [heap : Heaps, slice : Slices] :
     /\ Fits(m.heap, m.slice) /\ Len(m.heap) >= Len(h0)
     /\ \A a \in 1..Len(h0) : a # s0.at => m.heap[a] = h0[a]
     /\ m.slice.at = s0.at \/ m.slice.at > Len(h0)}

\* What is read of a slice that fits is as long as the slice.
LEMMA ReadType ==
  ASSUME NEW h \in Heaps, NEW s \in Slices, Fits(h, s)
  PROVE  Read(h, s) \in Seq(Texts) /\ Len(Read(h, s)) = s.len /\ Room(h, s) \in Nat
<1>1. CASE s.at = 0
  BY <1>1 DEF Read, Fits, Room, Slices
<1>2. CASE s.at # 0
  <2>1. s.at \in 1..Len(h) /\ s.len \in Nat
    BY <1>2 DEF Fits, Slices, Heaps
  <2>2. h[s.at] \in Seq(Texts) /\ s.len <= Len(h[s.at]) /\ Room(h, s) = Len(h[s.at])
    BY <1>2, <2>1 DEF Fits, Heaps, Room
  <2>3. /\ SubSeq(h[s.at], 1, s.len) \in Seq(Texts)
        /\ Len(SubSeq(h[s.at], 1, s.len)) = IF 1 <= s.len THEN s.len - 1 + 1 ELSE 0
    <3>1. \A x \in 1..s.len : h[s.at][x] \in Texts
      BY <2>1, <2>2
    <3>2. 1 \in Int /\ s.len \in Int
      BY <2>1
    <3> QED
      BY <3>1, <3>2, SubSeqProperties
  <2> QED
    BY <1>2, <2>1, <2>2, <2>3 DEF Read
<1> QED
  BY <1>1, <1>2

\* append writes where there is room or into an array of its own, and the slice reads on.
LEMMA AppendFacts ==
  ASSUME NEW h0 \in Heaps, NEW s0 \in Slices, NEW m \in MemoryFrom(h0, s0), NEW chunk \in Seq(Texts)
  PROVE  /\ append(m, chunk) \in MemoryFrom(h0, s0)
         /\ Read(append(m, chunk).heap, append(m, chunk).slice) = Read(m.heap, m.slice) \o chunk
<1> DEFINE s == m.slice
           h == m.heap
           n == s.len + Len(chunk)
           full == Read(h, s) \o chunk
           spare == [x \in 1 .. Grown(Room(h, s), n) - n |-> "unused"]
           there == [heap |-> [h EXCEPT ![s.at] = full \o SubSeq(@, n + 1, Len(@))], slice |-> [s EXCEPT !.len = n]]
           new == [heap |-> Append(h, full \o spare), slice |-> [at |-> Len(h) + 1, len |-> n]]
<1>1. append(m, chunk) = CASE chunk = <<>> -> m
                           [] chunk # <<>> /\ n <= Room(h, s) -> there
                           [] OTHER -> new
  BY DEF append
<1>2. /\ h \in Heaps /\ s \in Slices /\ Fits(h, s) /\ Len(h) >= Len(h0)
      /\ \A a \in 1..Len(h0) : a # s0.at => h[a] = h0[a]
      /\ s.at = s0.at \/ s.at > Len(h0)
      /\ m = [heap |-> h, slice |-> s]
  BY DEF MemoryFrom
<1>3. s.at \in Nat /\ s.len \in Nat /\ Len(chunk) \in Nat /\ n \in Nat /\ Len(h) \in Nat /\ Len(h0) \in Nat
  BY <1>2 DEF Slices, Heaps
<1>4. Read(h, s) \in Seq(Texts) /\ Len(Read(h, s)) = s.len /\ Room(h, s) \in Nat
  BY <1>2, ReadType
<1>5. full \in Seq(Texts) /\ Len(full) = n
  BY <1>3, <1>4, ConcatProperties
<1>6. CASE chunk = <<>>
  <2>1. append(m, chunk) = m
    BY <1>1, <1>6
  <2>2. Read(h, s) \o chunk = Read(h, s)
    BY <1>4, <1>6
  <2> QED
    BY <2>1, <2>2
<1>7. CASE chunk # <<>> /\ n <= Room(h, s)
  <2>1. append(m, chunk) = there
    BY <1>1, <1>7
  <2>2. n > 0
    BY <1>3, <1>7
  <2>3. s.at \in 1..Len(h) /\ h[s.at] \in Seq(Texts) /\ Room(h, s) = Len(h[s.at])
    BY <1>2, <1>3, <1>4, <1>7, <2>2 DEF Room, Fits, Heaps
  <2> DEFINE tail == SubSeq(h[s.at], n + 1, Len(h[s.at]))
             array == full \o tail
  <2>4. tail \in Seq(Texts) /\ Len(tail) = Len(h[s.at]) - n
    <3>1. \A x \in n + 1 .. Len(h[s.at]) : h[s.at][x] \in Texts
      BY <1>3, <2>3
    <3>2. n + 1 \in Int /\ Len(h[s.at]) \in Int
      BY <1>3, <2>3
    <3>3. tail \in Seq(Texts) /\ Len(tail) = IF n + 1 <= Len(h[s.at]) THEN Len(h[s.at]) - (n + 1) + 1 ELSE 0
      <4> HIDE DEF n
      <4> QED
        BY <3>1, <3>2, SubSeqProperties
    <3>4. n <= Len(h[s.at]) /\ n \in Nat /\ Len(h[s.at]) \in Nat
      BY <1>3, <1>7, <2>3
    <3> HIDE DEF tail, n
    <3> QED
      BY <3>3, <3>4
  <2>5. array \in Seq(Texts) /\ Len(array) = Len(h[s.at])
    <3> HIDE DEF tail, full
    <3>1. array \in Seq(Texts) /\ Len(array) = Len(full) + Len(tail)
      BY <1>5, <2>4, ConcatProperties
    <3>2. n \in Nat /\ Len(h[s.at]) \in Nat
      BY <1>3, <2>3
    <3> HIDE DEF array, n
    <3> QED
      BY <1>5, <2>4, <3>1, <3>2
  <2>6. SubSeq(array, 1, n) = full
    <3> HIDE DEF tail, full
    <3>1. SubSeq(array, 1, Len(full)) = SubSeq(full, 1, Len(full))
      <4>1. 1 \in 1 .. Len(full)+1 /\ Len(full) \in 0 .. Len(full)
        BY <1>3, <1>5
      <4> QED
        BY <1>5, <2>4, <4>1, SubSeqOfConcat1
    <3>2. SubSeq(full, 1, Len(full)) = full
      BY <1>5, SubSeqFull
    <3> QED
      BY <1>5, <3>1, <3>2
  <2> DEFINE h1 == [h EXCEPT ![s.at] = array]
             s1 == [at |-> s.at, len |-> n]
  <2>7. there.heap = h1 /\ there.slice = s1 /\ there = [heap |-> h1, slice |-> s1]
    <3>1. [s EXCEPT !.len = n] = s1
      BY <1>2 DEF Slices
    <3>2. there = [heap |-> h1, slice |-> [s EXCEPT !.len = n]]
      OBVIOUS
    <3> HIDE DEF h1, s1, there
    <3> QED
      BY <3>1, <3>2
  <2> HIDE DEF array, tail, full, n, there
  <2>8. h1 \in Heaps /\ Len(h1) = Len(h) /\ h1[s.at] = array /\ \A a \in 1..Len(h) : a # s.at => h1[a] = h[a]
    <3>1. h1 \in Seq(Seq(Texts)) /\ Len(h1) = Len(h)
      BY <1>2, <2>3, <2>5, ExceptSeq DEF Heaps
    <3> QED
      BY <1>2, <2>3, <3>1 DEF Heaps
  <2>9. s1 \in Slices /\ Fits(h1, s1) /\ Read(h1, s1) = full
    BY <1>3, <1>7, <2>3, <2>5, <2>6, <2>8 DEF Slices, Fits, Room, Read
  <2>10. \A a \in 1..Len(h0) : a # s0.at => h1[a] = h0[a]
    BY <1>2, <1>3, <2>8
  <2> HIDE DEF h1, s1
  <2>11. s1.at = s.at
    BY DEF s1
  <2>12. there \in [heap : Heaps, slice : Slices]
    BY <2>7, <2>8, <2>9
  <2>13. there \in MemoryFrom(h0, s0)
    BY <1>2, <2>7, <2>8, <2>9, <2>10, <2>11, <2>12 DEF MemoryFrom
  <2> QED
    BY <2>1, <2>7, <2>9, <2>13 DEF full
<1>8. CASE chunk # <<>> /\ ~(n <= Room(h, s))
  <2>1. append(m, chunk) = new
    BY <1>1, <1>8
  <2>2. Grown(Room(h, s), n) - n \in Nat
    BY <1>3, <1>4 DEF Grown, AtLeast
  <2>3. spare \in Seq(Texts) /\ Len(spare) = Grown(Room(h, s), n) - n
    <3> DEFINE l == Grown(Room(h, s), n) - n
    <3>1. "unused" \in Texts
      BY DEF Texts
    <3> HIDE DEF l
    <3>2. \A x \in 1..l : "unused" \in Texts
      BY <3>1
    <3> QED
      BY <2>2, <3>2 DEF l
  <2> DEFINE array == full \o spare
             h1 == Append(h, array)
             s1 == [at |-> Len(h) + 1, len |-> n]
  <2>4. array \in Seq(Texts) /\ Len(array) >= n
    <3> HIDE DEF spare, full
    <3>1. array \in Seq(Texts) /\ Len(array) = Len(full) + Len(spare)
      BY <1>5, <2>3, ConcatProperties
    <3> QED
      BY <1>3, <1>5, <2>2, <2>3, <3>1
  <2>5. SubSeq(array, 1, n) = full
    <3> HIDE DEF spare, full
    <3>1. SubSeq(array, 1, Len(full)) = SubSeq(full, 1, Len(full))
      <4>1. 1 \in 1 .. Len(full)+1 /\ Len(full) \in 0 .. Len(full)
        BY <1>3, <1>5
      <4> QED
        BY <1>5, <2>3, <4>1, SubSeqOfConcat1
    <3>2. SubSeq(full, 1, Len(full)) = full
      BY <1>5, SubSeqFull
    <3> QED
      BY <1>5, <3>1, <3>2
  <2>6. new.heap = h1 /\ new.slice = s1 /\ new = [heap |-> h1, slice |-> s1]
    OBVIOUS
  <2> HIDE DEF array, spare, full, n, new
  <2>7. h1 \in Heaps /\ Len(h1) = Len(h) + 1 /\ h1[Len(h) + 1] = array /\ \A a \in 1..Len(h) : h1[a] = h[a]
    BY <1>2, <1>3, <2>4, AppendProperties DEF Heaps
  <2>8. s1 \in Slices /\ Fits(h1, s1) /\ Read(h1, s1) = full
    BY <1>3, <2>4, <2>5, <2>7 DEF Slices, Fits, Room, Read
  <2>9. \A a \in 1..Len(h0) : a # s0.at => h1[a] = h0[a]
    BY <1>2, <1>3, <2>7
  <2> HIDE DEF h1, s1
  <2>10. s1.at = Len(h) + 1
    BY DEF s1
  <2>11. new \in [heap : Heaps, slice : Slices]
    BY <2>6, <2>7, <2>8
  <2>12. new \in MemoryFrom(h0, s0)
    BY <1>2, <1>3, <2>6, <2>7, <2>8, <2>9, <2>10, <2>11 DEF MemoryFrom
  <2> QED
    BY <2>1, <2>6, <2>8, <2>12 DEF full
<1> QED
  BY <1>6, <1>7, <1>8

\* A slice that is filled again.
LEMMA RefillRuns ==
  ASSUME NEW h \in Heaps, NEW s \in Slices, s.at <= Len(h), NEW chunks \in Seq(Seq(Texts))
  PROVE  \E g : /\ g \in [0..Len(chunks) -> MemoryFrom(h, s)] /\ g[0] = [heap |-> h, slice |-> [s EXCEPT !.len = 0]]
                /\ \A m \in 1..Len(chunks) : g[m-1] \in MemoryFrom(h, s) /\ g[m] = append(g[m-1], chunks[m])
                /\ Refill(h, s, chunks) = g[Len(chunks)]
<1> DEFINE R == MemoryFrom(h, s)
           p == Len(chunks)
           step == [cell \in R \X (1..p) |-> append(cell[1], chunks[cell[2]])]
           Fold(it) == it = [S \in SUBSET (1..p) |->
                               IF S = {} THEN [heap |-> h, slice |-> [s EXCEPT !.len = 0]] ELSE append(it[S \ {Max(S)}], chunks[Max(S)])]
           it == CHOOSE u : Fold(u)
<1>1. p \in Nat
  OBVIOUS
<1>2. Refill(h, s, chunks) = it[1..p]
  <2>1. DOMAIN chunks = 1..p
    OBVIOUS
  <2>2. Refill(h, s, chunks) = (CHOOSE u : u = [S \in SUBSET DOMAIN chunks |-> IF S = {} THEN [heap |-> h, slice |-> [s EXCEPT !.len = 0]] ELSE append(u[S \ {Max(S)}], chunks[Max(S)])])[DOMAIN chunks]
    BY DEF Refill, FoldLeft, MapThenFoldSet, Max
  <2> HIDE DEF p
  <2> QED
    BY <2>1, <2>2
<1>3. \A t \in R : \A m \in 1..p : append(t, chunks[m]) \in R
  BY AppendFacts
<1>4. \A t \in R : \A m \in 1..p : step[<<t, m>>] = append(t, chunks[m])
  <2> HIDE DEF R, p
  <2> QED
    OBVIOUS
<1>5. Steps(step, p, R)
  <2> HIDE DEF R, p
  <2> QED
    BY <1>3 DEF Steps
<1>6. [heap |-> h, slice |-> [s EXCEPT !.len = 0]] \in R
  <2>1. [s EXCEPT !.len = 0] = [at |-> s.at, len |-> 0]
    BY DEF Slices
  <2>2. [at |-> s.at, len |-> 0] \in Slices
    BY DEF Slices
  <2>3. Room(h, [at |-> s.at, len |-> 0]) \in Nat
    BY DEF Room, Heaps, Slices
  <2>4. Fits(h, [at |-> s.at, len |-> 0])
    BY <2>3 DEF Fits
  <2>5. Len(h) \in Nat
    BY DEF Heaps
  <2> QED
    BY <2>1, <2>2, <2>4, <2>5 DEF MemoryFrom
<1> HIDE DEF R, p, step, it
<1>7. ASSUME NEW f, Defines(f, p, R, [heap |-> h, slice |-> [s EXCEPT !.len = 0]], step)
      PROVE  Fold(f)
  <2>1. f \in [SUBSET (1..p) -> R] /\ f[{}] = [heap |-> h, slice |-> [s EXCEPT !.len = 0]]
    BY <1>7 DEF Defines
  <2>2. ASSUME NEW S \in SUBSET (1..p), S # {}
        PROVE  f[S] = append(f[S \ {Max(S)}], chunks[Max(S)])
    <3>1. Max(S) \in 1..p /\ S \ {Max(S)} \in SUBSET (1..p)
      BY <1>1, <2>2, LastOf
    <3>2. f[S \ {Max(S)}] \in R
      BY <2>1, <3>1
    <3>3. f[S] = step[<<f[S \ {Max(S)}], Max(S)>>]
      BY <1>7, <2>2 DEF Defines
    <3> QED
      BY <1>4, <3>1, <3>2, <3>3
  <2> QED
    BY <2>1, <2>2
<1>8. ASSUME NEW f, Fold(f)
      PROVE  Follows(f, p, R, [heap |-> h, slice |-> [s EXCEPT !.len = 0]], step)
  <2>1. f[{}] = [heap |-> h, slice |-> [s EXCEPT !.len = 0]]
    BY <1>8
  <2>2. ASSUME NEW m \in 1..p, f[1..(m-1)] \in R
        PROVE  f[1..m] = step[<<f[1..(m-1)], m>>]
    <3>1. 1..m \in SUBSET (1..p) /\ 1..m # {} /\ Max(1..m) = m /\ (1..m) \ {m} = 1..(m-1)
      BY <1>1, LastOf
    <3>2. f[1..m] = append(f[(1..m) \ {Max(1..m)}], chunks[Max(1..m)])
      BY <1>8, <3>1
    <3>3. f[1..m] = append(f[1..(m-1)], chunks[m])
      BY <3>1, <3>2
    <3>4. step[<<f[1..(m-1)], m>>] = append(f[1..(m-1)], chunks[m])
      BY <1>4, <2>2
    <3> QED
      BY <3>3, <3>4
  <2> QED
    BY <2>1, <2>2 DEF Follows
<1>9. Follows(it, p, R, [heap |-> h, slice |-> [s EXCEPT !.len = 0]], step)
  <2>1. \E f : Defines(f, p, R, [heap |-> h, slice |-> [s EXCEPT !.len = 0]], step)
    BY <1>1, <1>5, <1>6, FoldExists
  <2>2. \E f : Fold(f)
    BY <1>7, <2>1
  <2> HIDE DEF Fold
  <2>3. Fold(it)
    BY <2>2 DEF it
  <2> QED
    BY <1>8, <2>3
<1>10. PICK g : Runs(g, p, R, [heap |-> h, slice |-> [s EXCEPT !.len = 0]], step) /\ g[p] = it[1..p]
  <2> HIDE DEF Fold
  <2> QED
    BY <1>1, <1>5, <1>6, <1>9, FoldPrefix
<1>11. g \in [0..p -> R] /\ g[0] = [heap |-> h, slice |-> [s EXCEPT !.len = 0]]
  BY <1>10 DEF Runs
<1>12. ASSUME NEW m \in 1..p
       PROVE  g[m-1] \in R /\ g[m] = append(g[m-1], chunks[m])
  <2>1. m - 1 \in 0..p
    BY <1>1
  <2>2. g[m-1] \in R
    BY <1>11, <2>1
  <2>3. g[m] = step[<<g[m-1], m>>]
    BY <1>10 DEF Runs
  <2> QED
    BY <1>4, <2>2, <2>3
<1>13. Refill(h, s, chunks) = g[p]
  BY <1>2, <1>10
<1> QED
  BY <1>11, <1>12, <1>13 DEF R, p

\* A slice that is filled again reads what it was filled with; no other array is written.
LEMMA RefillFacts ==
  ASSUME NEW h \in Heaps, NEW s \in Slices, s.at <= Len(h), NEW chunks \in Seq(Seq(Texts))
  PROVE  /\ Refill(h, s, chunks) \in MemoryFrom(h, s)
         /\ Read(Refill(h, s, chunks).heap, Refill(h, s, chunks).slice) = FlattenSeq(chunks)
<1> DEFINE p == Len(chunks)
<1>1. PICK g :
         /\ g \in [0..p -> MemoryFrom(h, s)] /\ g[0] = [heap |-> h, slice |-> [s EXCEPT !.len = 0]]
         /\ \A m \in 1..p : g[m-1] \in MemoryFrom(h, s) /\ g[m] = append(g[m-1], chunks[m])
         /\ Refill(h, s, chunks) = g[p]
  BY RefillRuns
<1>2. PICK f :
         /\ f \in [0..p -> Seq(Texts)] /\ f[0] = <<>>
         /\ \A m \in 1..p : f[m-1] \in Seq(Texts) /\ f[m] = f[m-1] \o chunks[m]
         /\ FlattenSeq(chunks) = f[p]
  BY FlattenRuns
<1>3. p \in Nat /\ \A m \in 1..p : chunks[m] \in Seq(Texts)
  OBVIOUS
<1> HIDE DEF p
<1> DEFINE B == {m \in 0..p : Read(g[m].heap, g[m].slice) # f[m]}
<1>4. B = {}
  <2> SUFFICES ASSUME B # {}
               PROVE  FALSE
    OBVIOUS
  <2>1. PICK m \in B : \A d \in B : m <= d
    <3>1. B \in SUBSET Nat
      BY <1>3
    <3> HIDE DEF B
    <3> QED
      BY <3>1, LeastOne
  <2>2. m # 0
    <3>1. g[0].heap = h /\ g[0].slice.at = s.at /\ g[0].slice.len = 0
      BY <1>1 DEF Slices
    <3>2. Read(g[0].heap, g[0].slice) = <<>>
      BY <3>1 DEF Read
    <3> QED
      BY <1>2, <3>2
  <2>3. m \in 1..p /\ m - 1 \in 0..p /\ m - 1 \notin B
    BY <1>3, <2>1, <2>2
  <2>4. Read(g[m-1].heap, g[m-1].slice) = f[m-1]
    BY <2>3
  <2>5. g[m] = append(g[m-1], chunks[m]) /\ f[m] = f[m-1] \o chunks[m]
    BY <1>1, <1>2, <2>3
  <2>6. Read(g[m].heap, g[m].slice) = Read(g[m-1].heap, g[m-1].slice) \o chunks[m]
    <3>1. g[m-1] \in MemoryFrom(h, s) /\ chunks[m] \in Seq(Texts)
      BY <1>1, <1>3, <2>3
    <3> DEFINE old == g[m-1]
               chunk == chunks[m]
    <3>2. Read(append(old, chunk).heap, append(old, chunk).slice) = Read(old.heap, old.slice) \o chunk
      <4> HIDE DEF old, chunk
      <4> QED
        BY <3>1, AppendFacts DEF old, chunk
    <3> QED
      BY <2>5, <3>2
  <2>7. Read(g[m].heap, g[m].slice) # f[m]
    OBVIOUS
  <2> HIDE DEF B
  <2> QED
    BY <2>4, <2>5, <2>6, <2>7
<1>5. p \in 0..p
  BY <1>3
<1> QED
  BY <1>1, <1>2, <1>4, <1>5

\* Texts one by one are the texts.
LEMMA FlattenSingles ==
  ASSUME NEW u \in Seq(Texts)
  PROVE  /\ [n \in DOMAIN u |-> <<u[n]>>] \in Seq(Seq(Texts))
         /\ FlattenSeq([n \in DOMAIN u |-> <<u[n]>>]) = u
<1> DEFINE p == Len(u)
           singles == [n \in DOMAIN u |-> <<u[n]>>]
<1>1. /\ p \in Nat /\ DOMAIN u = 1..p
      /\ singles \in Seq(Seq(Texts)) /\ Len(singles) = p /\ \A m \in 1..p : singles[m] = <<u[m]>> /\ u[m] \in Texts
  <2>1. p \in Nat /\ DOMAIN u = 1..p /\ \A m \in 1..p : u[m] \in Texts
    OBVIOUS
  <2> HIDE DEF p
  <2>2. \A x \in Texts : <<x>> \in Seq(Texts)
    OBVIOUS
  <2>3. singles = [n \in 1..p |-> <<u[n]>>]
    BY <2>1
  <2>4. \A m \in 1..p : <<u[m]>> \in Seq(Texts)
    BY <2>1, <2>2
  <2>5. singles \in [1..p -> Seq(Texts)]
    BY <2>3, <2>4
  <2>6. \A m \in 1..p : singles[m] = <<u[m]>>
    BY <2>3
  <2> HIDE DEF singles
  <2>7. singles \in Seq(Seq(Texts)) /\ Len(singles) = p
    BY <2>1, <2>5
  <2> QED
    BY <2>1, <2>6, <2>7
<1> HIDE DEF singles, p
<1>2. PICK f :
         /\ f \in [0..p -> Seq(Texts)] /\ f[0] = <<>>
         /\ \A m \in 1..p : f[m-1] \in Seq(Texts) /\ f[m] = f[m-1] \o singles[m]
         /\ FlattenSeq(singles) = f[p]
  <2>1. PICK f :
         /\ f \in [0..Len(singles) -> Seq(Texts)] /\ f[0] = <<>>
         /\ \A m \in 1..Len(singles) : f[m-1] \in Seq(Texts) /\ f[m] = f[m-1] \o singles[m]
         /\ FlattenSeq(singles) = f[Len(singles)]
    BY <1>1, FlattenRuns
  <2> QED
    BY <1>1, <2>1
<1> DEFINE B == {m \in 0..p : ~(Len(f[m]) = m /\ \A x \in 1..m : f[m][x] = u[x])}
<1>3. B = {}
  <2> SUFFICES ASSUME B # {}
               PROVE  FALSE
    OBVIOUS
  <2>1. PICK m \in B : \A d \in B : m <= d
    <3>1. B \in SUBSET Nat
      BY <1>1
    <3> HIDE DEF B
    <3> QED
      BY <3>1, LeastOne
  <2>2. m # 0
    BY <1>2
  <2>3. m \in 1..p /\ m - 1 \in 0..p /\ m - 1 \notin B
    BY <1>1, <2>1, <2>2
  <2>4. Len(f[m-1]) = m - 1 /\ \A x \in 1..m-1 : f[m-1][x] = u[x]
    BY <2>3
  <2>5. f[m-1] \in Seq(Texts) /\ f[m] = f[m-1] \o <<u[m]>> /\ u[m] \in Texts
    BY <1>1, <1>2, <2>3
  <2>6. Len(f[m]) = m /\ \A x \in 1..m : f[m][x] = u[x]
    <3>1. <<u[m]>> \in Seq(Texts) /\ Len(<<u[m]>>) = 1 /\ <<u[m]>>[1] = u[m]
      BY <2>5
    <3> DEFINE w == <<u[m]>>
    <3> HIDE DEF w
    <3>2. /\ Len(f[m]) = Len(f[m-1]) + Len(w)
          /\ \A x \in 1 .. Len(f[m-1]) + Len(w) : f[m][x] = IF x <= Len(f[m-1]) THEN f[m-1][x] ELSE w[x - Len(f[m-1])]
      BY <2>5, <3>1, ConcatProperties DEF w
    <3>3. Len(w) = 1 /\ w[1] = u[m] /\ m \in Nat
      BY <2>3, <3>1 DEF w
    <3>4. \A x \in 1..m : x <= m - 1 => f[m][x] = f[m-1][x]
      BY <2>4, <3>2, <3>3
    <3>5. f[m][m] = w[1]
      BY <2>3, <2>4, <3>2, <3>3
    <3>6. Len(f[m]) = m
      BY <2>4, <3>2, <3>3
    <3>7. ASSUME NEW x \in 1..m
          PROVE  f[m][x] = u[x]
      <4>1. CASE x = m
        BY <3>3, <3>5, <4>1
      <4>2. CASE x # m
        <5>1. x \in 1..m-1 /\ x <= m - 1
          BY <3>3, <4>2
        <5> QED
          BY <2>4, <3>4, <5>1
      <4> QED
        BY <4>1, <4>2
    <3> QED
      BY <3>6, <3>7
  <2> QED
    BY <2>6
<1>4. p \in 0..p
  BY <1>1
<1>5. Len(f[p]) = Len(u) /\ f[p] \in Seq(Texts) /\ \A x \in 1..Len(u) : f[p][x] = u[x]
  BY <1>2, <1>3, <1>4 DEF p
<1>6. f[p] = u
  BY <1>5, SeqEqual
<1> QED
  BY <1>1, <1>2, <1>6 DEF singles

-----------------------------------------------------------------------------
\* Results.

Result ==
  [id : Nat, eligible : BOOLEAN, score : Int, decision : Decisions,
   priority : Int, specificity : Int, fallback : Int, cost : Int,
   reasons : Slices, actions : Slices]

\* A result says of a candidate what was found of it, and its memory explains that.
Tells(r, c, e) ==
  /\ r.id = c.id /\ r.eligible = e.eligible /\ r.score = e.score
  /\ r.priority = compareValues(c).priority /\ r.specificity = compareValues(c).specificity
  /\ r.fallback = compareValues(c).fallback /\ r.cost = compareValues(c).cost

Explains(h, r, e) ==
  /\ Read(h, r.reasons) = e.reasons
  /\ Read(h, r.actions) = FlattenSeq(e.actions)

\* Two slices that have arrays have different ones.
Apart(s, t) == s.at = 0 \/ s.at # t.at

\* A result whose memory is its own can be filled again.
Fillable(h, r) == Fits(h, r.reasons) /\ Fits(h, r.actions) /\ Apart(r.reasons, r.actions)

\* What a ranker finds of a candidate, on its way.
Found(rk, c) == RankCandidate(rk, c, IF canRankNative(rk) THEN "native" ELSE "generic")
\* The results that say of some candidate what is found of it.
Tellers(rk, q) == {r \in Result : \E n \in DOMAIN q : Tells(r, q[n], Found(rk, q[n]))}

\* A candidate that is evaluated into a result is told and explained by it, and only the arrays of that result are written.
LEMMA IntoFacts ==
  ASSUME NEW h \in Heaps, NEW r \in Result, Fillable(h, r),
         NEW c \in Candidates, c.id \in Nat, NEW e \in Finding, NEW into, into = rankCandidateInto(h, r, c, e)
  PROVE  /\ into.heap \in Heaps /\ Len(into.heap) >= Len(h)
         /\ \A a \in 1..Len(h) : a \notin {r.reasons.at, r.actions.at} => into.heap[a] = h[a]
         /\ into.result \in Result /\ Fillable(into.heap, into.result)
         /\ into.result.reasons.at \in {0, r.reasons.at} \/ into.result.reasons.at > Len(h)
         /\ into.result.actions.at = r.actions.at \/ into.result.actions.at > Len(h)
         /\ Tells(into.result, c, e) /\ Explains(into.heap, into.result, e)
<1> DEFINE s == IF ranker.explain THEN r.reasons ELSE NoSlice
           singles == [n \in DOMAIN e.reasons |-> <<e.reasons[n]>>]
           one == Refill(h, s, singles)
           two == Refill(one.heap, r.actions, e.actions)
<1>1. /\ r.reasons \in Slices /\ r.actions \in Slices
      /\ e.reasons \in Seq(Texts) /\ e.actions \in Seq(Seq(Texts)) /\ e.decision \in Decisions
      /\ e.eligible \in BOOLEAN /\ e.score \in Int
  BY DEF Result, Finding
<1>2. /\ s \in Slices /\ Fits(h, s) /\ s.at \in {0, r.reasons.at} /\ s.at <= Len(h)
  <2>1. NoSlice \in Slices /\ NoSlice.at = 0 /\ NoSlice.len = 0
    BY DEF NoSlice, Slices
  <2>2. Fits(h, NoSlice)
    BY <2>1 DEF Fits, Room, Heaps
  <2>3. Fits(h, r.reasons) /\ Fits(h, r.actions)
    BY DEF Fillable
  <2> QED
    BY <1>1, <2>1, <2>2, <2>3 DEF Fits
<1>3. singles \in Seq(Seq(Texts)) /\ FlattenSeq(singles) = e.reasons
  BY <1>1, FlattenSingles
<1> HIDE DEF s, singles
<1>4. one \in MemoryFrom(h, s) /\ Read(one.heap, one.slice) = e.reasons
  BY <1>2, <1>3, RefillFacts
<1> HIDE DEF one
<1>5. /\ one.heap \in Heaps /\ one.slice \in Slices /\ Fits(one.heap, one.slice) /\ Len(one.heap) >= Len(h)
      /\ \A a \in 1..Len(h) : a # s.at => one.heap[a] = h[a]
      /\ one.slice.at = s.at \/ one.slice.at > Len(h)
  BY <1>4 DEF MemoryFrom
<1>6. r.actions.at <= Len(h) /\ r.actions.at \in Nat /\ Len(h) \in Nat /\ Len(one.heap) \in Nat /\ r.actions.at <= Len(one.heap)
      /\ one.slice.at \in Nat /\ s.at \in Nat
  <2>1. r.actions.at <= Len(h) /\ r.actions.at \in Nat /\ Len(h) \in Nat
    BY <1>1 DEF Fillable, Fits, Slices, Heaps
  <2>2. Len(one.heap) \in Nat /\ one.slice.at \in Nat /\ s.at \in Nat
    BY <1>2, <1>5 DEF Slices, Heaps
  <2> QED
    BY <1>5, <2>1, <2>2
<1>7. two \in MemoryFrom(one.heap, r.actions) /\ Read(two.heap, two.slice) = FlattenSeq(e.actions)
  BY <1>1, <1>5, <1>6, RefillFacts
<1> HIDE DEF two
<1>8. /\ two.heap \in Heaps /\ two.slice \in Slices /\ Fits(two.heap, two.slice) /\ Len(two.heap) >= Len(one.heap)
      /\ \A a \in 1..Len(one.heap) : a # r.actions.at => two.heap[a] = one.heap[a]
      /\ two.slice.at = r.actions.at \/ two.slice.at > Len(one.heap)
  BY <1>7 DEF MemoryFrom
<1>9. two.slice.at \in Nat /\ Len(two.heap) \in Nat
  BY <1>8 DEF Slices, Heaps
<1>10. one.slice.at # 0 => one.slice.at # r.actions.at
  <2>1. one.slice.at = s.at /\ s.at # 0 => r.reasons.at # r.actions.at /\ s.at = r.reasons.at
    BY <1>2 DEF Fillable, Apart
  <2> QED
    BY <1>5, <1>6, <2>1
<1>11. one.slice.at <= Len(one.heap)
  BY <1>5 DEF Fits
<1>12. Read(two.heap, one.slice) = Read(one.heap, one.slice) /\ Fits(two.heap, one.slice)
  <2>1. one.slice.at # 0 => two.heap[one.slice.at] = one.heap[one.slice.at]
    BY <1>6, <1>8, <1>10, <1>11
  <2>2. Room(two.heap, one.slice) = Room(one.heap, one.slice)
    BY <2>1 DEF Room
  <2>3. Read(two.heap, one.slice) = Read(one.heap, one.slice)
    BY <2>1 DEF Read
  <2> QED
    BY <1>5, <1>6, <1>8, <1>9, <2>2, <2>3 DEF Fits
<1>13. Apart(one.slice, two.slice)
  BY <1>6, <1>8, <1>9, <1>10, <1>11 DEF Apart
<1> DEFINE cmp == compareValues(c)
<1>14. cmp.priority \in Int /\ cmp.specificity \in Int /\ cmp.fallback \in Int /\ cmp.cost \in Int
  BY CompareType
<1> HIDE DEF cmp
<1> DEFINE result == [id |-> c.id, eligible |-> e.eligible, score |-> e.score, decision |-> e.decision,
                      priority |-> cmp.priority, specificity |-> cmp.specificity,
                      fallback |-> cmp.fallback, cost |-> cmp.cost,
                      reasons |-> one.slice, actions |-> two.slice]
<1>15. into.heap = two.heap /\ into.result = result
  <2>1. into = [heap |-> two.heap, result |-> result]
    BY DEF rankCandidateInto, two, one, s, singles, cmp
  <2> HIDE DEF result
  <2> QED
    BY <2>1
<1>16. result \in Result
  BY <1>1, <1>5, <1>8, <1>14 DEF Result
<1>17. /\ result.id = c.id /\ result.eligible = e.eligible /\ result.score = e.score
       /\ result.priority = cmp.priority /\ result.specificity = cmp.specificity
       /\ result.fallback = cmp.fallback /\ result.cost = cmp.cost
       /\ result.reasons = one.slice /\ result.actions = two.slice
  OBVIOUS
<1> HIDE DEF result
<1>18. Tells(result, c, e)
  BY <1>17 DEF Tells, cmp
<1>19. Explains(two.heap, result, e)
  BY <1>4, <1>7, <1>12, <1>17 DEF Explains
<1>20. Fillable(two.heap, result)
  BY <1>8, <1>12, <1>13, <1>17 DEF Fillable
<1>21. \A a \in 1..Len(h) : a \notin {r.reasons.at, r.actions.at} => two.heap[a] = h[a]
  <2> SUFFICES ASSUME NEW a \in 1..Len(h), a \notin {r.reasons.at, r.actions.at}
               PROVE  two.heap[a] = h[a]
    OBVIOUS
  <2>1. a # s.at /\ a \in 1..Len(one.heap)
    BY <1>2, <1>5, <1>6
  <2> QED
    BY <1>5, <1>8, <2>1
<1>22. Len(two.heap) >= Len(h)
  BY <1>5, <1>6, <1>8, <1>9
<1>23. one.slice.at \in {0, r.reasons.at} \/ one.slice.at > Len(h)
  BY <1>2, <1>5
<1>24. two.slice.at = r.actions.at \/ two.slice.at > Len(h)
  BY <1>5, <1>6, <1>8, <1>9
<1> QED
  BY <1>8, <1>15, <1>16, <1>17, <1>18, <1>19, <1>20, <1>21, <1>22, <1>23, <1>24

-----------------------------------------------------------------------------
\* betterCandidate orders numbers, and whatever there is by who is eligible.
LEMMA IntsOrder ==
  ASSUME NEW a, NEW b, NEW c, \A x \in {a, b, c} : /\ x.eligible \in BOOLEAN /\ x.score \in Int /\ x.id \in Int
                                     /\ x.priority \in Int /\ x.specificity \in Int /\ x.fallback \in Int /\ x.cost \in Int
                                     /\ NotANumber \notin {x.priority, x.specificity, x.fallback, x.cost}
  PROVE  /\ betterCandidate(a, b) => ~betterCandidate(b, a)
         /\ ~betterCandidate(a, b) /\ ~betterCandidate(b, c) => ~betterCandidate(a, c)
<1> DEFINE P(x, y) == IF x.eligible # y.eligible THEN x.eligible
                      ELSE IF x.priority # y.priority THEN x.priority > y.priority
                      ELSE IF x.specificity # y.specificity THEN x.specificity > y.specificity
                      ELSE IF x.score # y.score THEN x.score > y.score
                      ELSE IF x.cost # y.cost THEN y.cost > x.cost
                      ELSE IF x.fallback # y.fallback THEN y.fallback > x.fallback
                      ELSE x.id < y.id
<1>1. \A x, y \in {a, b, c} : betterCandidate(x, y) = P(x, y)
  BY DEF betterCandidate, Differ, Above
<1>2. P(a, b) => ~P(b, a)
  OBVIOUS
<1>3. ~P(a, b) /\ ~P(b, c) => ~P(a, c)
  OBVIOUS
<1> HIDE DEF P
<1> QED
  BY <1>1, <1>2, <1>3

\* betterCandidate orders the results of candidates.
LEMMA TellersOrder ==
  ASSUME request \in Requests \cup {<<>>}
  PROVE  Orders(request, Tellers(ranker, request))
<1> DEFINE T == Tellers(ranker, request)
<1>1. ASSUME NEW r \in T
      PROVE  /\ r.eligible \in BOOLEAN /\ r.score \in Int /\ r.id \in Int
             /\ r.priority \in Int /\ r.specificity \in Int /\ r.fallback \in Int /\ r.cost \in Int
             /\ Numbers(request) => NotANumber \notin {r.priority, r.specificity, r.fallback, r.cost}
  <2>1. PICK n \in DOMAIN request : Tells(r, request[n], Found(ranker, request[n]))
    BY DEF T, Tellers
  <2>2. r \in Result
    BY DEF T, Tellers
  <2>3. Numbers(request) => NotANumber \notin {compareValues(request[n])[v] : v \in {"priority", "specificity", "fallback", "cost"}}
    BY DEF Numbers
  <2>4. Numbers(request) => /\ NotANumber # compareValues(request[n]).priority /\ NotANumber # compareValues(request[n]).specificity
                 /\ NotANumber # compareValues(request[n]).fallback /\ NotANumber # compareValues(request[n]).cost
    BY <2>3
  <2>5. Numbers(request) => NotANumber \notin {r.priority, r.specificity, r.fallback, r.cost}
    BY <2>1, <2>4 DEF Tells
  <2> QED
    BY <2>2, <2>5 DEF Result
<1> HIDE DEF T
<1>2. \A a \in T : ~betterCandidate(a, a)
  <2> SUFFICES ASSUME NEW a \in T
               PROVE  ~betterCandidate(a, a)
    OBVIOUS
  <2> QED
    BY <1>1 DEF betterCandidate, Differ, Above
<1>3. CASE Numbers(request)
  <2>1. \A a, b \in T : Ahead(request, a, b) <=> betterCandidate(a, b)
    BY <1>3 DEF Ahead
  <2>2. \A a, b, c \in T : /\ betterCandidate(a, b) => ~betterCandidate(b, a)
                           /\ ~betterCandidate(a, b) /\ ~betterCandidate(b, c) => ~betterCandidate(a, c)
    BY <1>1, <1>3, IntsOrder
  <2>6. \A a, b \in T : betterCandidate(a, b) => ~betterCandidate(b, a)
    BY <2>2
  <2>3. \A a, b \in T : Ahead(request, a, b) => betterCandidate(a, b)
    BY <2>1
  <2>4. \A a, b \in T : betterCandidate(a, b) => ~Ahead(request, b, a)
    <3> SUFFICES ASSUME NEW a \in T, NEW b \in T, betterCandidate(a, b)
                 PROVE  ~Ahead(request, b, a)
      OBVIOUS
    <3>1. ~betterCandidate(b, a)
      BY <2>6
    <3> QED
      BY <2>1, <3>1
  <2>5. \A a, b, c \in T : ~Ahead(request, a, b) /\ ~Ahead(request, b, c) => ~Ahead(request, a, c)
    <3> SUFFICES ASSUME NEW a \in T, NEW b \in T, NEW c \in T, ~Ahead(request, a, b), ~Ahead(request, b, c)
                 PROVE  ~Ahead(request, a, c)
      OBVIOUS
    <3>1. ~betterCandidate(a, b) /\ ~betterCandidate(b, c)
      BY <2>1
    <3>2. ~betterCandidate(a, c)
      BY <2>2, <3>1
    <3> QED
      BY <2>1, <3>2
  <2> QED
    BY <1>2, <2>3, <2>4, <2>5 DEF Orders, T
<1>4. CASE ~Numbers(request)
  <2>1. \A a, b \in T : Ahead(request, a, b) <=> a.eligible /\ ~b.eligible
    BY <1>4 DEF Ahead
  <2>2. \A a, b \in T : a.eligible /\ ~b.eligible => betterCandidate(a, b) /\ ~betterCandidate(b, a)
    BY <1>1 DEF betterCandidate
  <2>3. \A a, b \in T : Ahead(request, a, b) => betterCandidate(a, b)
    BY <2>1, <2>2
  <2>4. \A a, b \in T : betterCandidate(a, b) => ~Ahead(request, b, a)
    BY <2>1, <2>2
  <2>5. \A a, b, c \in T : ~Ahead(request, a, b) /\ ~Ahead(request, b, c) => ~Ahead(request, a, c)
    BY <1>1, <2>1
  <2> QED
    BY <1>2, <2>3, <2>4, <2>5 DEF Orders, T
<1> QED
  BY <1>3, <1>4 DEF T

-----------------------------------------------------------------------------
\* The sort.

\* What was filled before it was sorted.
Filled(q, s) == [x \in 1..Len(q) |-> s[x]]

\* A part that waits to be sorted.
Part == [lo : Int, hi : Int]

PartsApart(n, st, l, h, td) ==
  /\ \A x \in DOMAIN td : td[x].lo >= 1 /\ td[x].hi <= n
  /\ \A x, y \in DOMAIN td : x < y => td[x].hi < td[y].lo \/ td[y].hi < td[x].lo
  /\ st = "done" => td = <<>>
  /\ st # "done" => l >= 1 /\ h <= n /\ \A x \in DOMAIN td : td[x].hi < l \/ h < td[x].lo

\* Both are in a part that is still to be sorted.
Open(x, y, st, l, h, td) ==
  \/ st # "done" /\ x \in l..h /\ y \in l..h
  \/ \E p \in DOMAIN td : x \in td[p].lo .. td[p].hi /\ y \in td[p].lo .. td[p].hi

OrderedUnlessOpen(q, it, st, l, h, td) ==
  \A x, y \in 1..Len(q) : x < y /\ ~Open(x, y, st, l, h, td) => ~Ahead(q, it[y], it[x])

\* Below where the scan from below is nothing belongs behind the pivot, and above where the
\* other one is nothing before it; something stops each of them inside the part.
ScanOf(q, it, st, l, h, ii, jj, p) ==
  /\ l <= ii /\ jj <= h
  /\ \A m \in l .. ii - 1 : ~Ahead(q, p, it[m])
  /\ \A m \in jj + 1 .. h : ~Ahead(q, it[m], p)
  /\ st = "up" => /\ \E m \in ii .. h : ~betterCandidate(it[m], p)
                  /\ \E m \in l .. jj : ~betterCandidate(p, it[m])
  /\ st = "down" => /\ ii \in l .. h /\ ~betterCandidate(it[ii], p)
                    /\ \E m \in l .. jj : ~betterCandidate(p, it[m])
  /\ st = "split" => jj < ii

SortGood(rk, q, s, it, st, l, h, ii, jj, pv, td) ==
  /\ st \in {"range", "up", "down", "split", "done"}
  /\ it \in [1..Len(q) -> Tellers(rk, q)]
  /\ Within(Filled(q, s), it, 1, Len(q))
  /\ l \in Int /\ h \in Int /\ ii \in Int /\ jj \in Int
  /\ td \in Seq(Part)
  /\ PartsApart(Len(q), st, l, h, td)
  /\ OrderedUnlessOpen(q, it, st, l, h, td)
  /\ st \in {"up", "down", "split"} => \E p \in Tellers(rk, q) : pv = {p} /\ ScanOf(q, it, st, l, h, ii, jj, p)

SortGoodNow == SortGood(ranker, request, slots[call], items, sorting, lo, hi, i, j, pivot, todo)
SortGoodNext == SortGood(ranker, request, slots[call], items', sorting', lo', hi', i', j', pivot', todo')

\* A request is a sequence.
LEMMA LengthOfRequest ==
  ASSUME request \in Requests \cup {<<>>}
  PROVE  Len(request) \in Nat /\ DOMAIN request = 1..Len(request)
  BY RequestsAssumption

\* What the parts are made of.
LEMMA PartTypes ==
  ASSUME NEW td \in Seq(Part)
  PROVE  /\ Len(td) \in Nat /\ DOMAIN td = 1..Len(td)
         /\ \A x \in DOMAIN td : td[x] \in Part /\ td[x].lo \in Int /\ td[x].hi \in Int
<1>1. Len(td) \in Nat /\ DOMAIN td = 1..Len(td)
  OBVIOUS
<1>2. \A x \in DOMAIN td : td[x] \in Part
  OBVIOUS
<1>3. \A p \in Part : p.lo \in Int /\ p.hi \in Int
  BY DEF Part
<1> HIDE DEF Part
<1> QED
  BY <1>1, <1>2, <1>3

\* What is known while a part is sorted.
LEMMA SortFacts ==
  ASSUME request \in Requests \cup {<<>>}, SortGoodNow, NEW st, sorting = st, st # "done"
  PROVE  /\ items \in [1..Len(request) -> Tellers(ranker, request)] /\ Within(Filled(request, slots[call]), items, 1, Len(request))
         /\ lo \in Int /\ hi \in Int /\ i \in Int /\ j \in Int /\ todo \in Seq(Part)
         /\ PartsApart(Len(request), st, lo, hi, todo) /\ OrderedUnlessOpen(request, items, st, lo, hi, todo)
         /\ lo >= 1 /\ hi <= Len(request) /\ Len(request) \in Nat
<1>1. Len(request) \in Nat
  BY LengthOfRequest
<1>2. PartsApart(Len(request), sorting, lo, hi, todo)
  BY DEF SortGoodNow, SortGood
<1>3. lo >= 1 /\ hi <= Len(request)
  BY <1>2 DEF PartsApart
<1> QED
  BY <1>1, <1>2, <1>3 DEF SortGoodNow, SortGood

\* What is moved within the part that is sorted stays in order with what is not.
LEMMA MovedWithin ==
  ASSUME Len(request) \in Nat, NEW it \in [1..Len(request) -> Tellers(ranker, request)], NEW t \in [1..Len(request) -> Tellers(ranker, request)],
         NEW st, st # "done", NEW l \in Int, NEW h \in Int, NEW td \in Seq(Part),
         PartsApart(Len(request), st, l, h, td), OrderedUnlessOpen(request, it, st, l, h, td), Within(it, t, l, h)
  PROVE  OrderedUnlessOpen(request, t, st, l, h, td)
<1> DEFINE N == Len(request)
<1>1. /\ l >= 1 /\ h <= N
      /\ \A x \in DOMAIN td : td[x].hi < l \/ h < td[x].lo
      /\ \A x \in DOMAIN td : td[x].lo \in Int /\ td[x].hi \in Int
  BY PartTypes DEF PartsApart
<1>2. /\ \A x \in 1..N : x \notin l .. h => t[x] = it[x]
      /\ \A x \in l .. h : \E y \in l .. h : t[x] = it[y]
  BY DEF Within
<1>3. \A x, y \in 1..N : x < y /\ ~Open(x, y, st, l, h, td) => ~Ahead(request, it[y], it[x])
  BY DEF OrderedUnlessOpen
<1>0. N \in Nat
  OBVIOUS
<1> HIDE DEF N
<1>4. ASSUME NEW x \in l..h, NEW y \in 1..N, y \notin l..h
      PROVE  ~Open(x, y, st, l, h, td) /\ ~Open(y, x, st, l, h, td)
  <2>1. x \in Int /\ y \in Int /\ l <= x /\ x <= h
    BY <1>0
  <2>2. \A m \in DOMAIN td : ~(x \in td[m].lo .. td[m].hi)
    BY <1>1, <2>1
  <2> QED
    BY <1>4, <2>2 DEF Open
<1> SUFFICES ASSUME NEW x \in 1..N, NEW y \in 1..N, x < y, ~Open(x, y, st, l, h, td)
             PROVE  ~Ahead(request, t[y], t[x])
  BY DEF OrderedUnlessOpen, N
<1>5. CASE x \in l..h /\ y \in l..h
  BY <1>5 DEF Open
<1>6. CASE x \in l..h /\ y \notin l..h
  <2>1. PICK z \in l..h : t[x] = it[z]
    BY <1>2, <1>6
  <2>2. z \in 1..N /\ z < y
    BY <1>1, <1>6 DEF N
  <2>3. ~Open(z, y, st, l, h, td)
    BY <1>4, <1>6
  <2> QED
    BY <1>2, <1>3, <1>6, <2>1, <2>2, <2>3
<1>7. CASE x \notin l..h /\ y \in l..h
  <2>1. PICK z \in l..h : t[y] = it[z]
    BY <1>2, <1>7
  <2>2. z \in 1..N /\ x < z
    BY <1>1, <1>7 DEF N
  <2>3. ~Open(x, z, st, l, h, td)
    BY <1>4, <1>7
  <2> QED
    BY <1>2, <1>3, <1>7, <2>1, <2>2, <2>3
<1>8. CASE x \notin l..h /\ y \notin l..h
  BY <1>2, <1>3, <1>8
<1> QED
  BY <1>5, <1>6, <1>7, <1>8

\* Items that moved within a part have moved within the whole.
LEMMA WithinAll ==
  ASSUME NEW n \in Nat, NEW T, NEW s \in [1..n -> T], NEW t \in [1..n -> T], NEW u \in [1..n -> T],
         NEW l \in Int, NEW h \in Int, l >= 1, h <= n, Within(s, t, 1, n), Within(t, u, l, h)
  PROVE  Within(s, u, 1, n)
<1>1. DOMAIN t = 1..n /\ 1..n \subseteq DOMAIN t /\ 1 \in Int /\ n \in Int
  OBVIOUS
<1>2. Within(t, u, 1, n)
  BY <1>1, WithinWider
<1> QED
  BY <1>2, WithinAgain

\* The last of the parts that wait is apart from the others.
LEMMA ApartLess ==
  ASSUME Len(request) \in Nat, NEW td \in Seq(Part), NEW L, L = Len(td), L # 0,
         NEW l \in Int, NEW h \in Int, PartsApart(Len(request), "range", l, h, td),
         NEW u, DOMAIN u = 1 .. L - 1, \A m \in 1 .. L - 1 : u[m] = td[m]
  PROVE  PartsApart(Len(request), "range", td[L].lo, td[L].hi, u)
<1>1. L \in Nat /\ DOMAIN td = 1..L /\ L \in 1..L
  BY PartTypes
<1>2. \A m \in 1..L : td[m].lo \in Int /\ td[m].hi \in Int
  BY <1>1, PartTypes
<1>3. /\ \A x \in 1..L : td[x].lo >= 1 /\ td[x].hi <= Len(request)
      /\ \A x, y \in 1..L : x < y => td[x].hi < td[y].lo \/ td[y].hi < td[x].lo
  BY <1>1 DEF PartsApart
<1>4. \A m \in 1 .. L - 1 : m \in 1..L /\ m < L
  BY <1>1
<1>5. \A x \in 1 .. L - 1 : u[x].lo >= 1 /\ u[x].hi <= Len(request)
  BY <1>3, <1>4
<1>6. \A x, y \in 1 .. L - 1 : x < y => u[x].hi < u[y].lo \/ u[y].hi < u[x].lo
  BY <1>3, <1>4
<1>7. \A x \in 1 .. L - 1 : u[x].hi < td[L].lo \/ td[L].hi < u[x].lo
  BY <1>1, <1>3, <1>4
<1> QED
  BY <1>1, <1>3, <1>5, <1>6, <1>7 DEF PartsApart

\* A part is sorted and the next one is taken.
LEMMA PartSortedGood ==
  ASSUME request \in Requests \cup {<<>>}, SortGoodNow, sorting = "range",
         NEW s \in [1..Len(request) -> Tellers(ranker, request)], Within(items, s, lo, hi), InOrderUpTo(request, s, lo, hi),
         Sort!PartSorted(s)
  PROVE  SortGoodNext
<1> DEFINE N == Len(request)
<1>1. /\ items \in [1..N -> Tellers(ranker, request)] /\ Within(Filled(request, slots[call]), items, 1, N)
      /\ lo \in Int /\ hi \in Int /\ i \in Int /\ j \in Int /\ todo \in Seq(Part)
      /\ PartsApart(Len(request), "range", lo, hi, todo) /\ OrderedUnlessOpen(request, items, "range", lo, hi, todo)
  BY DEF SortGoodNow, SortGood
<1>2. N \in Nat /\ lo >= 1 /\ hi <= N
  BY <1>1, RequestsAssumption DEF PartsApart
<1>3. Within(Filled(request, slots[call]), s, 1, N)
  <2>1. Filled(request, slots[call]) \in [1..N -> {slots[call][x] : x \in 1..N}]
    BY DEF Filled
  <2>2. DOMAIN Filled(request, slots[call]) = 1..N /\ DOMAIN items = 1..N
    BY <1>1 DEF Filled
  <2>3. Within(items, s, 1, N)
    BY <1>1, <1>2, <2>2, WithinWider
  <2> QED
    BY <1>1, <2>3, WithinAgain
<1>4. OrderedUnlessOpen(request, s, "range", lo, hi, todo)
  BY <1>1, <1>2, MovedWithin
<1>5. items' = s /\ i' = i /\ j' = j /\ pivot' = pivot
  BY DEF Sort!PartSorted, Sort!scan
<1>6. \A x, y \in lo..hi : x < y => ~Ahead(request, s[y], s[x])
  BY DEF InOrderUpTo
<1>7. CASE todo = <<>>
  <2>1. sorting' = "done" /\ lo' = lo /\ hi' = hi /\ todo' = todo
    BY <1>7 DEF Sort!PartSorted
  <2>2. PartsApart(Len(request), "done", lo, hi, todo)
    BY <1>7 DEF PartsApart
  <2>3. OrderedUnlessOpen(request, s, "done", lo, hi, todo)
    BY <1>2, <1>4, <1>6, <1>7 DEF OrderedUnlessOpen, Open
  <2> QED
    BY <1>1, <1>3, <1>5, <2>1, <2>2, <2>3 DEF SortGoodNext, SortGood
<1>8. CASE todo # <<>>
  <2>1. /\ sorting' = "range" /\ lo' = Last(todo).lo /\ hi' = Last(todo).hi /\ todo' = Front(todo)
    BY <1>8 DEF Sort!PartSorted, Sort!Last, Sort!Front, Last, Front
  <2> DEFINE L == Len(todo)
  <2>2. /\ L \in Nat \ {0} /\ L \in DOMAIN todo /\ lo' = todo[L].lo /\ hi' = todo[L].hi
        /\ lo' \in Int /\ hi' \in Int
        /\ todo' \in Seq(Part) /\ DOMAIN todo' = 1..L-1 /\ \A p \in 1..L-1 : todo'[p] = todo[p]
        /\ DOMAIN todo = 1..L
    <3>1. L \in Nat \ {0} /\ DOMAIN todo = 1..L /\ \A p \in 1..L : todo[p] \in Part /\ todo[p].lo \in Int /\ todo[p].hi \in Int
      BY <1>1, <1>8, PartTypes
    <3>2. lo' = todo[L].lo /\ hi' = todo[L].hi
      BY <2>1 DEF Last
    <3>3. todo' = SubSeq(todo, 1, L - 1)
      BY <2>1 DEF Front
    <3> HIDE DEF L
    <3>4. 1 \in Int /\ L - 1 \in Int /\ \A p \in 1..L-1 : todo[p] \in Part
      BY <3>1
    <3>5. /\ todo' \in Seq(Part)
          /\ Len(todo') = IF 1 <= L - 1 THEN L - 1 - 1 + 1 ELSE 0
          /\ \A p \in 1 .. L - 1 - 1 + 1 : todo'[p] = todo[1 + p - 1]
      BY <3>3, <3>4, SubSeqProperties
    <3>6. Len(todo') = L - 1 /\ \A p \in 1 .. L - 1 : todo'[p] = todo[p]
      BY <3>1, <3>5
    <3> QED
      BY <3>1, <3>2, <3>5, <3>6
  <2> HIDE DEF L
  <2>3. PartsApart(Len(request), "range", lo', hi', todo')
    <3>1. L = Len(todo) /\ L # 0
      BY <2>2 DEF L
    <3>2. PartsApart(Len(request), "range", todo[L].lo, todo[L].hi, todo')
      BY <1>1, <1>2, <2>2, <3>1, ApartLess
    <3> QED
      BY <2>2, <3>2
  <2>4. \A x, y : Open(x, y, "range", lo, hi, todo) => Open(x, y, "range", lo', hi', todo') \/ (x \in lo..hi /\ y \in lo..hi)
    <3> SUFFICES ASSUME NEW x, NEW y, NEW p \in DOMAIN todo, x \in todo[p].lo .. todo[p].hi, y \in todo[p].lo .. todo[p].hi
                 PROVE  Open(x, y, "range", lo', hi', todo')
      BY DEF Open
    <3>1. CASE p = L
      BY <2>2, <3>1 DEF Open
    <3>2. CASE p # L
      <4>1. p \in DOMAIN todo' /\ todo'[p] = todo[p]
        BY <2>2, <3>2
      <4> QED
        BY <4>1 DEF Open
    <3> QED
      BY <3>1, <3>2
  <2>5. OrderedUnlessOpen(request, s, "range", lo', hi', todo')
    BY <1>4, <1>6, <2>4 DEF OrderedUnlessOpen
  <2> QED
    BY <1>1, <1>3, <1>5, <2>1, <2>2, <2>3, <2>5 DEF SortGoodNext, SortGood
<1> QED
  BY <1>7, <1>8

\* A part that is sorted by insertion is in order.
LEMMA InsertionGood ==
  ASSUME request \in Requests \cup {<<>>}, SortGoodNow, Sort!Insertion
  PROVE  SortGoodNext
<1> DEFINE N == Len(request)
           s == Sort!insertionSort(items, lo, hi)
<1>1. items \in [1..N -> Tellers(ranker, request)] /\ lo \in Int /\ hi \in Int /\ lo >= 1 /\ hi <= N /\ sorting = "range"
  BY DEF SortGoodNow, SortGood, PartsApart, Sort!Insertion
<1>2. N \in Nat
  BY LengthOfRequest
<1>3. s \in [1..N -> Tellers(ranker, request)] /\ Within(items, s, lo, hi) /\ InOrderUpTo(request, s, lo, hi)
  BY <1>1, <1>2, InsertionFacts, TellersOrder
<1>4. Sort!PartSorted(s)
  BY DEF Sort!Insertion
<1> HIDE DEF s
<1> QED
  BY <1>1, <1>3, <1>4, PartSortedGood

-----------------------------------------------------------------------------
\* Three items in order.
Three(from, mid, upto) == << <<mid, from>>, <<upto, from>>, <<upto, mid>> >>

ThreeNext(t, pair) ==
  IF betterCandidate(t[pair[1]], t[pair[2]]) THEN Sort!Swap(t, pair[1], pair[2]) ELSE t

ThreeRun(g, s, T, n, from, mid, upto) ==
  /\ g \in [0..3 -> [1..n -> T]] /\ g[0] = s
  /\ \A m \in 1..3 : g[m-1] \in [1..n -> T] /\ g[m] = ThreeNext(g[m-1], Three(from, mid, upto)[m])
  /\ Sort!OrderThree(s, from, mid, upto) = g[3]

\* Three items after each comparison.
LEMMA ThreeRuns ==
  ASSUME NEW T, NEW n \in Nat, NEW s \in [1..n -> T], NEW from \in 1..n, NEW mid \in 1..n, NEW upto \in 1..n
  PROVE  \E g : ThreeRun(g, s, T, n, from, mid, upto)
<1> DEFINE R == [1..n -> T]
           p == 3
           step == [cell \in R \X (1..p) |-> ThreeNext(cell[1], Three(from, mid, upto)[cell[2]])]
           Fold(it) == it = [S \in SUBSET (1..p) |->
                               IF S = {} THEN s ELSE ThreeNext(it[S \ {Max(S)}], Three(from, mid, upto)[Max(S)])]
           it == CHOOSE u : Fold(u)
<1>1. p \in Nat
  OBVIOUS
<1>2. Sort!OrderThree(s, from, mid, upto) = it[1..p]
  <2>1. DOMAIN Three(from, mid, upto) = 1..p
    BY DEF Three
  <2>2. Sort!OrderThree(s, from, mid, upto) = (CHOOSE u : u = [S \in SUBSET DOMAIN Three(from, mid, upto) |-> IF S = {} THEN s ELSE ThreeNext(u[S \ {Max(S)}], Three(from, mid, upto)[Max(S)])])[DOMAIN Three(from, mid, upto)]
    BY DEF Sort!OrderThree, Three, ThreeNext, Sort!FoldLeft, Sort!MapThenFoldSet, Sort!Max, Max
  <2> HIDE DEF p
  <2> QED
    BY <2>1, <2>2
<1>3. \A t \in R : \A m \in 1..p : ThreeNext(t, Three(from, mid, upto)[m]) \in R
  <2> SUFFICES ASSUME NEW t \in R, NEW m \in 1..3
               PROVE  ThreeNext(t, Three(from, mid, upto)[m]) \in R
    OBVIOUS
  <2> DEFINE pair == Three(from, mid, upto)[m]
             a == pair[1]
             b == pair[2]
  <2>1. a \in 1..n /\ b \in 1..n
    BY DEF Three
  <2>2. ThreeNext(t, pair) = IF betterCandidate(t[a], t[b]) THEN Sort!Swap(t, a, b) ELSE t
    BY DEF ThreeNext
  <2> HIDE DEF a, b
  <2>3. Sort!Swap(t, a, b) \in [1..n -> T]
    BY <2>1, SwapType
  <2> QED
    BY <2>2, <2>3
<1>4. \A t \in R : \A m \in 1..p : step[<<t, m>>] = ThreeNext(t, Three(from, mid, upto)[m])
  <2> HIDE DEF R, p
  <2> QED
    OBVIOUS
<1>5. Steps(step, p, R)
  <2> HIDE DEF R, p
  <2> QED
    BY <1>3 DEF Steps
<1>6. s \in R
  OBVIOUS
<1> HIDE DEF R, p, step, it
<1>7. ASSUME NEW f, Defines(f, p, R, s, step)
      PROVE  Fold(f)
  <2>1. f \in [SUBSET (1..p) -> R] /\ f[{}] = s
    BY <1>7 DEF Defines
  <2>2. ASSUME NEW S \in SUBSET (1..p), S # {}
        PROVE  f[S] = ThreeNext(f[S \ {Max(S)}], Three(from, mid, upto)[Max(S)])
    <3>1. Max(S) \in 1..p /\ S \ {Max(S)} \in SUBSET (1..p)
      BY <1>1, <2>2, LastOf
    <3>2. f[S \ {Max(S)}] \in R
      BY <2>1, <3>1
    <3>3. f[S] = step[<<f[S \ {Max(S)}], Max(S)>>]
      BY <1>7, <2>2 DEF Defines
    <3> QED
      BY <1>4, <3>1, <3>2, <3>3
  <2> QED
    BY <2>1, <2>2
<1>8. ASSUME NEW f, Fold(f)
      PROVE  Follows(f, p, R, s, step)
  <2>1. f[{}] = s
    BY <1>8
  <2>2. ASSUME NEW m \in 1..p, f[1..(m-1)] \in R
        PROVE  f[1..m] = step[<<f[1..(m-1)], m>>]
    <3>1. 1..m \in SUBSET (1..p) /\ 1..m # {} /\ Max(1..m) = m /\ (1..m) \ {m} = 1..(m-1)
      BY <1>1, LastOf
    <3>2. f[1..m] = ThreeNext(f[(1..m) \ {Max(1..m)}], Three(from, mid, upto)[Max(1..m)])
      BY <1>8, <3>1
    <3>3. f[1..m] = ThreeNext(f[1..(m-1)], Three(from, mid, upto)[m])
      BY <3>1, <3>2
    <3>4. step[<<f[1..(m-1)], m>>] = ThreeNext(f[1..(m-1)], Three(from, mid, upto)[m])
      BY <1>4, <2>2
    <3> QED
      BY <3>3, <3>4
  <2> QED
    BY <2>1, <2>2 DEF Follows
<1>9. Follows(it, p, R, s, step)
  <2>1. \E f : Defines(f, p, R, s, step)
    BY <1>1, <1>5, <1>6, FoldExists
  <2>2. \E f : Fold(f)
    BY <1>7, <2>1
  <2> HIDE DEF Fold
  <2>3. Fold(it)
    BY <2>2 DEF it
  <2> QED
    BY <1>8, <2>3
<1>10. PICK g : Runs(g, p, R, s, step) /\ g[p] = it[1..p]
  <2> HIDE DEF Fold
  <2> QED
    BY <1>1, <1>5, <1>6, <1>9, FoldPrefix
<1>11. g \in [0..p -> R] /\ g[0] = s
  BY <1>10 DEF Runs
<1>12. ASSUME NEW m \in 1..p
       PROVE  g[m-1] \in R /\ g[m] = ThreeNext(g[m-1], Three(from, mid, upto)[m])
  <2>1. m - 1 \in 0..p
    BY <1>1
  <2>2. g[m-1] \in R
    BY <1>11, <2>1
  <2>3. g[m] = step[<<g[m-1], m>>]
    BY <1>10 DEF Runs
  <2> QED
    BY <1>4, <2>2, <2>3
<1>13. Sort!OrderThree(s, from, mid, upto) = g[p]
  BY <1>2, <1>10
<1>14. ThreeRun(g, s, T, n, from, mid, upto)
  BY <1>11, <1>12, <1>13 DEF R, p, ThreeRun
<1> QED
  BY <1>14

\* Ordering three items moves items of the part.
LEMMA OrderThreeFacts ==
  ASSUME NEW T, NEW n \in Nat, NEW s \in [1..n -> T], NEW from \in 1..n, NEW upto \in from..n, NEW mid \in from..upto
  PROVE  /\ Sort!OrderThree(s, from, mid, upto) \in [1..n -> T]
         /\ Within(s, Sort!OrderThree(s, from, mid, upto), from, upto)
<1>1. mid \in 1..n /\ upto \in 1..n /\ from \in Int /\ upto \in Int /\ from..upto \subseteq 1..n
      /\ from \in from..upto /\ upto \in from..upto
  OBVIOUS
<1>2. PICK g : /\ g \in [0..3 -> [1..n -> T]] /\ g[0] = s
               /\ \A m \in 1..3 : g[m-1] \in [1..n -> T] /\ g[m] = ThreeNext(g[m-1], Three(from, mid, upto)[m])
               /\ Sort!OrderThree(s, from, mid, upto) = g[3]
  <2>1. PICK g : ThreeRun(g, s, T, n, from, mid, upto)
    BY <1>1, ThreeRuns
  <2> QED
    BY <2>1 DEF ThreeRun
<1>3. ASSUME NEW m \in 1..3
      PROVE  Within(g[m-1], g[m], from, upto)
  <2> DEFINE t == g[m-1]
             a == Three(from, mid, upto)[m][1]
             b == Three(from, mid, upto)[m][2]
  <2>1. a \in from..upto /\ b \in from..upto
    BY <1>1 DEF Three
  <2>2. g[m] = IF betterCandidate(t[a], t[b]) THEN Sort!Swap(t, a, b) ELSE t
    BY <1>2 DEF ThreeNext
  <2>3. t \in [1..n -> T]
    BY <1>2
  <2> HIDE DEF t, a, b
  <2>4. from..upto \subseteq DOMAIN t
    BY <1>1, <2>3
  <2>5. Within(t, Sort!Swap(t, a, b), from, upto)
    BY <1>1, <2>1, <2>4, SwapWithin
  <2>6. Within(t, t, from, upto)
    BY WithinSelf
  <2>7. Within(t, g[m], from, upto)
    BY <2>2, <2>5, <2>6
  <2> QED
    BY <2>7 DEF t
<1>4. Within(s, g[1], from, upto) /\ Within(g[1], g[2], from, upto) /\ Within(g[2], g[3], from, upto)
  <2>1. 1 \in 1..3 /\ 2 \in 1..3 /\ 3 \in 1..3 /\ 1-1 = 0 /\ 2-1 = 1 /\ 3-1 = 2
    OBVIOUS
  <2>2. Within(g[1-1], g[1], from, upto) /\ Within(g[2-1], g[2], from, upto) /\ Within(g[3-1], g[3], from, upto)
    BY <1>3, <2>1
  <2> QED
    BY <1>2, <2>1, <2>2
<1>5. Within(s, g[3], from, upto)
  BY <1>4, WithinAgain
<1>6. g[3] \in [1..n -> T]
  BY <1>2
<1> QED
  BY <1>2, <1>5, <1>6

\* A pivot is picked; the pivot itself stops both scans.
LEMMA PartitionGood ==
  ASSUME request \in Requests \cup {<<>>}, SortGoodNow, Sort!Partition
  PROVE  SortGoodNext
<1> DEFINE N == Len(request)
           mid == lo + (hi - lo) \div 2
           s == Sort!OrderThree(items, lo, mid, hi)
<1>1. /\ items \in [1..N -> Tellers(ranker, request)] /\ Within(Filled(request, slots[call]), items, 1, N)
      /\ lo \in Int /\ hi \in Int /\ todo \in Seq(Part)
      /\ PartsApart(Len(request), "range", lo, hi, todo) /\ OrderedUnlessOpen(request, items, "range", lo, hi, todo)
      /\ lo >= 1 /\ hi <= N
  <2>1. sorting = "range"
    BY DEF Sort!Partition
  <2> QED
    BY <2>1, SortFacts
<1>2. N \in Nat
  BY LengthOfRequest
<1>3. /\ ~(hi - lo < Short)
      /\ items' = s /\ pivot' = {items'[mid]} /\ i' = lo /\ j' = hi /\ sorting' = "up"
      /\ lo' = lo /\ hi' = hi /\ todo' = todo
  BY DEF Sort!Partition, Sort!ForInsertion
<1>4. lo <= hi
  BY <1>1, <1>3, RequestsAssumption
<1>5. mid \in lo..hi
  BY <1>1, <1>4
<1> HIDE DEF mid
<1>6. s \in [1..N -> Tellers(ranker, request)] /\ Within(items, s, lo, hi)
  <2>1. lo \in 1..N /\ hi \in lo..N
    BY <1>1, <1>2, <1>4
  <2> QED
    BY <1>1, <1>2, <1>5, <2>1, OrderThreeFacts
<1> HIDE DEF s
<1>7. Within(Filled(request, slots[call]), s, 1, N)
  <2>1. DOMAIN items = 1..N
    BY <1>1
  <2>2. Within(items, s, 1, N)
    BY <1>1, <1>2, <1>6, <2>1, WithinWider
  <2> QED
    BY <1>1, <2>2, WithinAgain
<1>8. OrderedUnlessOpen(request, s, "range", lo, hi, todo)
  BY <1>1, <1>2, <1>6, MovedWithin
<1>9. PartsApart(Len(request), "up", lo, hi, todo) /\ OrderedUnlessOpen(request, s, "up", lo, hi, todo)
  BY <1>1, <1>8 DEF PartsApart, OrderedUnlessOpen, Open
<1>10. s[mid] \in Tellers(ranker, request)
  BY <1>1, <1>2, <1>5, <1>6
<1>11. ~betterCandidate(s[mid], s[mid])
  BY <1>10, TellersOrder DEF Orders
<1>12. ScanOf(request, s, "up", lo, hi, lo, hi, s[mid])
  BY <1>1, <1>4, <1>5, <1>11 DEF ScanOf
<1> QED
  BY <1>1, <1>3, <1>6, <1>7, <1>9, <1>10, <1>12 DEF SortGoodNext, SortGood

\* Pivot is what was picked.
LEMMA PivotIs ==
  ASSUME NEW p, pivot = {p}
  PROVE  Sort!Pivot = p
  BY DEF Sort!Pivot

\* The scan from below stops inside the part.
LEMMA ScanUpGood ==
  ASSUME request \in Requests \cup {<<>>}, SortGoodNow, Sort!ScanUp
  PROVE  SortGoodNext
<1> DEFINE N == Len(request)
<1>1. /\ items \in [1..N -> Tellers(ranker, request)] /\ Within(Filled(request, slots[call]), items, 1, N)
      /\ lo \in Int /\ hi \in Int /\ i \in Int /\ j \in Int /\ todo \in Seq(Part)
      /\ PartsApart(Len(request), "up", lo, hi, todo) /\ OrderedUnlessOpen(request, items, "up", lo, hi, todo)
      /\ lo >= 1 /\ hi <= N /\ N \in Nat
  <2>1. sorting = "up"
    BY DEF Sort!ScanUp
  <2> QED
    BY <2>1, SortFacts
<1>2. PICK p \in Tellers(ranker, request) : pivot = {p} /\ ScanOf(request, items, "up", lo, hi, i, j, p)
  BY DEF SortGoodNow, SortGood, Sort!ScanUp
<1>3. /\ IF betterCandidate(items[i], p) THEN i' = i + 1 /\ sorting' = "up" ELSE sorting' = "down" /\ i' = i
      /\ items' = items /\ lo' = lo /\ hi' = hi /\ j' = j /\ pivot' = pivot /\ todo' = todo
  BY <1>2, PivotIs DEF Sort!ScanUp
<1>4. sorting' \in {"up", "down"} /\ i' \in Int
  BY <1>1, <1>3
<1>5. PartsApart(Len(request), sorting', lo, hi, todo) /\ OrderedUnlessOpen(request, items, sorting', lo, hi, todo)
  BY <1>1, <1>4 DEF PartsApart, OrderedUnlessOpen, Open
<1>6. /\ lo <= i /\ j <= hi
      /\ \A m \in lo .. i - 1 : ~Ahead(request, p, items[m])
      /\ \A m \in j + 1 .. hi : ~Ahead(request, items[m], p)
      /\ \E m \in i .. hi : ~betterCandidate(items[m], p)
      /\ \E m \in lo .. j : ~betterCandidate(p, items[m])
  BY <1>2 DEF ScanOf
<1>7. i \in lo..hi /\ items[i] \in Tellers(ranker, request)
  BY <1>1, <1>6
<1>8. ScanOf(request, items, sorting', lo, hi, i', j, p)
  <2>1. CASE betterCandidate(items[i], p)
    <3>1. ~Ahead(request, p, items[i])
      BY <1>7, <2>1, TellersOrder DEF Orders
    <3>2. \A m \in lo .. i + 1 - 1 : ~Ahead(request, p, items[m])
      BY <1>1, <1>6, <3>1
    <3>3. \E m \in i + 1 .. hi : ~betterCandidate(items[m], p)
      BY <1>1, <1>6, <2>1
    <3> QED
      BY <1>1, <1>3, <1>6, <2>1, <3>2, <3>3 DEF ScanOf
  <2>2. CASE ~betterCandidate(items[i], p)
    BY <1>3, <1>6, <1>7, <2>2 DEF ScanOf
  <2> QED
    BY <2>1, <2>2
<1> QED
  BY <1>1, <1>2, <1>3, <1>4, <1>5, <1>8 DEF SortGoodNext, SortGood

\* The scan from above stops inside the part.
LEMMA ScanDownGood ==
  ASSUME request \in Requests \cup {<<>>}, SortGoodNow, Sort!ScanDown
  PROVE  SortGoodNext
<1> DEFINE N == Len(request)
<1>1. /\ items \in [1..N -> Tellers(ranker, request)] /\ Within(Filled(request, slots[call]), items, 1, N)
      /\ lo \in Int /\ hi \in Int /\ i \in Int /\ j \in Int /\ todo \in Seq(Part)
      /\ PartsApart(Len(request), "down", lo, hi, todo) /\ OrderedUnlessOpen(request, items, "down", lo, hi, todo)
      /\ lo >= 1 /\ hi <= N /\ N \in Nat
  <2>1. sorting = "down"
    BY DEF Sort!ScanDown
  <2> QED
    BY <2>1, SortFacts
<1>2. PICK p \in Tellers(ranker, request) : pivot = {p} /\ ScanOf(request, items, "down", lo, hi, i, j, p)
  BY DEF SortGoodNow, SortGood, Sort!ScanDown
<1>3. /\ betterCandidate(p, items[j]) /\ j' = j - 1 /\ sorting' = "down"
      /\ items' = items /\ lo' = lo /\ hi' = hi /\ i' = i /\ pivot' = pivot /\ todo' = todo
  BY <1>2, PivotIs DEF Sort!ScanDown, Sort!BelongsBelow
<1>4. /\ lo <= i /\ j <= hi
      /\ \A m \in lo .. i - 1 : ~Ahead(request, p, items[m])
      /\ \A m \in j + 1 .. hi : ~Ahead(request, items[m], p)
      /\ i \in lo .. hi /\ ~betterCandidate(items[i], p)
      /\ \E m \in lo .. j : ~betterCandidate(p, items[m])
  BY <1>2 DEF ScanOf
<1>5. j \in lo..hi /\ items[j] \in Tellers(ranker, request)
  BY <1>1, <1>4
<1>6. ~Ahead(request, items[j], p)
  BY <1>3, <1>5, TellersOrder DEF Orders
<1>7. \A m \in j - 1 + 1 .. hi : ~Ahead(request, items[m], p)
  BY <1>1, <1>4, <1>6
<1>8. \E m \in lo .. j - 1 : ~betterCandidate(p, items[m])
  BY <1>1, <1>3, <1>4
<1>9. ScanOf(request, items, "down", lo, hi, i, j - 1, p)
  BY <1>1, <1>4, <1>7, <1>8 DEF ScanOf
<1> QED
  BY <1>1, <1>2, <1>3, <1>9 DEF SortGoodNext, SortGood

\* Two items that are on the wrong sides are swapped; each stops the scan of the other side.
LEMMA ExchangeGood ==
  ASSUME request \in Requests \cup {<<>>}, SortGoodNow, Sort!Exchange
  PROVE  SortGoodNext
<1> DEFINE N == Len(request)
<1>1. /\ items \in [1..N -> Tellers(ranker, request)] /\ Within(Filled(request, slots[call]), items, 1, N)
      /\ lo \in Int /\ hi \in Int /\ i \in Int /\ j \in Int /\ todo \in Seq(Part)
      /\ PartsApart(Len(request), "down", lo, hi, todo) /\ OrderedUnlessOpen(request, items, "down", lo, hi, todo)
      /\ lo >= 1 /\ hi <= N /\ N \in Nat
  <2>1. sorting = "down"
    BY DEF Sort!Exchange
  <2> QED
    BY <2>1, SortFacts
<1>2. PICK p \in Tellers(ranker, request) : pivot = {p} /\ ScanOf(request, items, "down", lo, hi, i, j, p)
  BY DEF SortGoodNow, SortGood, Sort!Exchange
<1>3. /\ ~betterCandidate(p, items[j])
      /\ IF i <= j THEN items' = Sort!Swap(items, i, j) /\ i' = i + 1 /\ j' = j - 1
         ELSE items' = items /\ i' = i /\ j' = j
      /\ sorting' = IF i' <= j' THEN "up" ELSE "split"
      /\ lo' = lo /\ hi' = hi /\ pivot' = pivot /\ todo' = todo
  BY <1>2, PivotIs DEF Sort!Exchange, Sort!BelongsBelow
<1>4. /\ lo <= i /\ j <= hi
      /\ \A m \in lo .. i - 1 : ~Ahead(request, p, items[m])
      /\ \A m \in j + 1 .. hi : ~Ahead(request, items[m], p)
      /\ i \in lo .. hi /\ ~betterCandidate(items[i], p)
      /\ \E m \in lo .. j : ~betterCandidate(p, items[m])
  BY <1>2 DEF ScanOf
<1>5. j \in lo..hi /\ items[j] \in Tellers(ranker, request) /\ items[i] \in Tellers(ranker, request) /\ i \in 1..N /\ j \in 1..N
  BY <1>1, <1>4
<1>6. ~Ahead(request, p, items[j]) /\ ~Ahead(request, items[i], p)
  BY <1>3, <1>4, <1>5, TellersOrder DEF Orders
<1>7. CASE i <= j
  <2> DEFINE s == Sort!Swap(items, i, j)
  <2>1. s \in [1..N -> Tellers(ranker, request)] /\ \A x \in 1..N : s[x] = IF x = j THEN items[i] ELSE IF x = i THEN items[j] ELSE items[x]
    <3>1. N \in Nat /\ items \in [1..N -> Tellers(ranker, request)] /\ i \in 1..N /\ j \in 1..N
      BY <1>1, <1>5
    <3> HIDE DEF N
    <3> QED
      BY <3>1 DEF Sort!Swap
  <2>2. Within(items, s, lo, hi)
    <3>1. lo .. hi \subseteq DOMAIN items
      BY <1>1
    <3> QED
      BY <1>1, <1>4, <1>5, <3>1, SwapWithin
  <2>3. items' = s /\ i' = i + 1 /\ j' = j - 1
    BY <1>3, <1>7
  <2> HIDE DEF s
  <2>4. Within(Filled(request, slots[call]), s, 1, N)
    <3>1. DOMAIN items = 1..N
      BY <1>1
    <3>2. Within(items, s, 1, N)
      BY <1>1, <2>2, <3>1, WithinWider
    <3> QED
      BY <1>1, <3>2, WithinAgain
  <2>5. OrderedUnlessOpen(request, s, "down", lo, hi, todo)
    BY <1>1, <2>1, <2>2, MovedWithin
  <2>6. sorting' \in {"up", "split"}
    BY <1>3
  <2>7. PartsApart(Len(request), sorting', lo, hi, todo) /\ OrderedUnlessOpen(request, s, sorting', lo, hi, todo)
    BY <1>1, <2>5, <2>6 DEF PartsApart, OrderedUnlessOpen, Open
  <2>8. \A m \in lo .. i + 1 - 1 : ~Ahead(request, p, s[m])
    <3> SUFFICES ASSUME NEW m \in lo .. i + 1 - 1
                 PROVE  ~Ahead(request, p, s[m])
      OBVIOUS
    <3>1. m \in 1..N /\ m <= i
      BY <1>1, <1>4
    <3>2. CASE m = i
      <4>1. s[m] = items[j]
        BY <1>5, <2>1, <3>2
      <4> QED
        BY <1>6, <4>1
    <3>3. CASE m # i
      <4>1. s[m] = items[m] /\ m \in lo .. i - 1
        BY <1>1, <1>5, <1>7, <2>1, <3>1, <3>3
      <4> QED
        BY <1>4, <4>1
    <3> QED
      BY <3>2, <3>3
  <2>9. \A m \in j - 1 + 1 .. hi : ~Ahead(request, s[m], p)
    <3> SUFFICES ASSUME NEW m \in j - 1 + 1 .. hi
                 PROVE  ~Ahead(request, s[m], p)
      OBVIOUS
    <3>1. m \in 1..N /\ m >= j
      BY <1>1, <1>5
    <3>2. CASE m = j
      <4>1. s[m] = items[i]
        BY <1>5, <2>1, <3>2
      <4> QED
        BY <1>6, <4>1
    <3>3. CASE m # j
      <4>1. s[m] = items[m] /\ m \in j + 1 .. hi
        BY <1>1, <1>5, <1>7, <2>1, <3>1, <3>3
      <4> QED
        BY <1>4, <4>1
    <3> QED
      BY <3>2, <3>3
  <2>10. lo <= i + 1 /\ j - 1 <= hi
    BY <1>1, <1>4
  <2>11. sorting' = "up" => /\ \E m \in i + 1 .. hi : ~betterCandidate(s[m], p)
                            /\ \E m \in lo .. j - 1 : ~betterCandidate(p, s[m])
    <3> SUFFICES ASSUME sorting' = "up"
                 PROVE  /\ \E m \in i + 1 .. hi : ~betterCandidate(s[m], p)
                        /\ \E m \in lo .. j - 1 : ~betterCandidate(p, s[m])
      OBVIOUS
    <3>1. i + 1 <= j - 1
      BY <1>3, <2>3
    <3>2. s[j] = items[i] /\ s[i] = items[j] /\ j \in i + 1 .. hi /\ i \in lo .. j - 1
      BY <1>1, <1>4, <1>5, <2>1, <3>1
    <3> QED
      BY <1>3, <1>4, <3>2
  <2>12. sorting' = "split" => j - 1 < i + 1
    BY <1>1, <1>3, <2>3
  <2>13. ScanOf(request, s, sorting', lo, hi, i + 1, j - 1, p)
    <3>1. ASSUME sorting' = "up"
          PROVE  ScanOf(request, s, "up", lo, hi, i + 1, j - 1, p)
      <4>1. /\ \E m \in i + 1 .. hi : ~betterCandidate(s[m], p)
            /\ \E m \in lo .. j - 1 : ~betterCandidate(p, s[m])
        BY <2>11, <3>1
      <4> QED
        BY <1>1, <2>8, <2>9, <2>10, <4>1 DEF ScanOf
    <3>2. ASSUME sorting' = "split"
          PROVE  ScanOf(request, s, "split", lo, hi, i + 1, j - 1, p)
      <4>1. j - 1 < i + 1
        BY <2>12, <3>2
      <4> QED
        BY <1>1, <2>8, <2>9, <2>10, <4>1 DEF ScanOf
    <3> QED
      BY <2>6, <3>1, <3>2
  <2>14. i + 1 \in Int /\ j - 1 \in Int
    BY <1>1
  <2> QED
    BY <1>1, <1>2, <1>3, <2>1, <2>3, <2>4, <2>6, <2>7, <2>13, <2>14 DEF SortGoodNext, SortGood
<1>8. CASE ~(i <= j)
  <2>1. items' = items /\ i' = i /\ j' = j /\ sorting' = "split"
    BY <1>3, <1>8
  <2>2. PartsApart(Len(request), "split", lo, hi, todo) /\ OrderedUnlessOpen(request, items, "split", lo, hi, todo)
    BY <1>1 DEF PartsApart, OrderedUnlessOpen, Open
  <2>3. ScanOf(request, items, "split", lo, hi, i, j, p)
    BY <1>1, <1>4, <1>8 DEF ScanOf
  <2> QED
    BY <1>1, <1>2, <1>3, <2>1, <2>2, <2>3 DEF SortGoodNext, SortGood
<1> QED
  BY <1>7, <1>8

\* The part is split into two that have nothing between them in the wrong order.
LEMMA SplitGood ==
  ASSUME request \in Requests \cup {<<>>}, SortGoodNow, Sort!Split
  PROVE  SortGoodNext
<1> DEFINE N == Len(request)
           left  == [lo |-> lo, hi |-> j]
           right == [lo |-> i, hi |-> hi]
           short == IF j - lo < hi - i THEN left ELSE right
           long  == IF j - lo < hi - i THEN right ELSE left
           now   == IF short.lo < short.hi THEN short ELSE long
<1>1. /\ items \in [1..N -> Tellers(ranker, request)] /\ Within(Filled(request, slots[call]), items, 1, N)
      /\ lo \in Int /\ hi \in Int /\ i \in Int /\ j \in Int /\ todo \in Seq(Part)
      /\ PartsApart(Len(request), "split", lo, hi, todo) /\ OrderedUnlessOpen(request, items, "split", lo, hi, todo)
      /\ lo >= 1 /\ hi <= N /\ N \in Nat
  <2>1. sorting = "split"
    BY DEF Sort!Split
  <2> QED
    BY <2>1, SortFacts
<1>2. PICK p \in Tellers(ranker, request) : pivot = {p} /\ ScanOf(request, items, "split", lo, hi, i, j, p)
  BY DEF SortGoodNow, SortGood, Sort!Split
<1>3. /\ todo' = IF short.lo < short.hi THEN Append(todo, long) ELSE todo
      /\ lo' = now.lo /\ hi' = now.hi /\ sorting' = "range"
      /\ items' = items /\ i' = i /\ j' = j /\ pivot' = pivot
  BY DEF Sort!Split, Sort!scan
<1>4. /\ lo <= i /\ j <= hi /\ j < i
      /\ \A m \in lo .. i - 1 : ~Ahead(request, p, items[m])
      /\ \A m \in j + 1 .. hi : ~Ahead(request, items[m], p)
  BY <1>2 DEF ScanOf
<1>5. ASSUME NEW x \in 1..N, NEW y \in 1..N, x < y, x \in lo..hi, y \in lo..hi,
             ~(x \in lo..j /\ y \in lo..j), ~(x \in i..hi /\ y \in i..hi)
      PROVE  ~Ahead(request, items[y], items[x])
  <2>1. x \in lo .. i - 1 /\ y \in j + 1 .. hi
    BY <1>1, <1>4, <1>5
  <2>2. ~Ahead(request, p, items[x]) /\ ~Ahead(request, items[y], p)
    BY <1>4, <2>1
  <2>3. items[x] \in Tellers(ranker, request) /\ items[y] \in Tellers(ranker, request)
    BY <1>1
  <2> QED
    BY <2>2, <2>3, TellersOrder DEF Orders
<1>6. ASSUME NEW x \in 1..N, NEW y \in 1..N, x < y,
             ~(x \in lo..j /\ y \in lo..j), ~(x \in i..hi /\ y \in i..hi),
             \A m \in DOMAIN todo : ~(x \in todo[m].lo .. todo[m].hi /\ y \in todo[m].lo .. todo[m].hi)
      PROVE  ~Ahead(request, items[y], items[x])
  <2>1. CASE x \in lo..hi /\ y \in lo..hi
    BY <1>5, <1>6, <2>1
  <2>2. CASE ~(x \in lo..hi /\ y \in lo..hi)
    <3>1. ~Open(x, y, "split", lo, hi, todo)
      BY <1>6, <2>2 DEF Open
    <3> QED
      BY <1>1, <1>6, <3>1 DEF OrderedUnlessOpen
  <2> QED
    BY <2>1, <2>2
<1>7. /\ \A m \in DOMAIN todo : todo[m].lo >= 1 /\ todo[m].hi <= N /\ todo[m].lo \in Int /\ todo[m].hi \in Int
      /\ \A x, y \in DOMAIN todo : x < y => todo[x].hi < todo[y].lo \/ todo[y].hi < todo[x].lo
      /\ \A m \in DOMAIN todo : todo[m].hi < lo \/ hi < todo[m].lo
  <2>1. \A m \in DOMAIN todo : todo[m].lo \in Int /\ todo[m].hi \in Int
    BY <1>1, PartTypes
  <2> QED
    BY <1>1, <2>1 DEF PartsApart
<1>8. left \in Part /\ right \in Part /\ left.lo = lo /\ left.hi = j /\ right.lo = i /\ right.hi = hi
  BY <1>1 DEF Part
<1>9. \/ short = left /\ long = right
      \/ short = right /\ long = left
  OBVIOUS
<1> HIDE DEF left, right, short, long
<1>10. /\ short \in Part /\ long \in Part
       /\ short.lo \in Int /\ short.hi \in Int /\ long.lo \in Int /\ long.hi \in Int
       /\ short.lo >= 1 /\ short.hi <= N /\ long.lo >= 1 /\ long.hi <= N
       /\ short.hi < long.lo \/ long.hi < short.lo
       /\ \A m \in DOMAIN todo : todo[m].hi < short.lo \/ short.hi < todo[m].lo
       /\ \A m \in DOMAIN todo : todo[m].hi < long.lo \/ long.hi < todo[m].lo
  <2>1. ASSUME NEW a, NEW b, a = left, b = right
        PROVE  /\ a.lo \in Int /\ a.hi \in Int /\ b.lo \in Int /\ b.hi \in Int
               /\ a.lo >= 1 /\ a.hi <= N /\ b.lo >= 1 /\ b.hi <= N /\ a.hi < b.lo
               /\ \A m \in DOMAIN todo : todo[m].hi < a.lo \/ a.hi < todo[m].lo
               /\ \A m \in DOMAIN todo : todo[m].hi < b.lo \/ b.hi < todo[m].lo
    <3>1. a.lo = lo /\ a.hi = j /\ b.lo = i /\ b.hi = hi
      BY <1>8, <2>1
    <3> QED
      BY <1>1, <1>4, <1>7, <3>1
  <2> QED
    BY <1>8, <1>9, <2>1
<1>11. ASSUME NEW x \in 1..N, NEW y \in 1..N, x < y,
             ~(x \in short.lo..short.hi /\ y \in short.lo..short.hi), ~(x \in long.lo..long.hi /\ y \in long.lo..long.hi),
             \A m \in DOMAIN todo : ~(x \in todo[m].lo .. todo[m].hi /\ y \in todo[m].lo .. todo[m].hi)
      PROVE  ~Ahead(request, items[y], items[x])
  <2>1. ~(x \in lo..j /\ y \in lo..j) /\ ~(x \in i..hi /\ y \in i..hi)
    BY <1>8, <1>9, <1>11
  <2> QED
    BY <1>6, <1>11, <2>1
<1>12. CASE short.lo < short.hi
  <2>1. todo' = Append(todo, long) /\ lo' = short.lo /\ hi' = short.hi
    BY <1>3, <1>12
  <2> DEFINE L == Len(todo)
  <2>2. /\ L \in Nat /\ DOMAIN todo = 1..L /\ todo' \in Seq(Part) /\ DOMAIN todo' = 1 .. L + 1
        /\ \A m \in 1..L : todo'[m] = todo[m]
        /\ todo'[L + 1] = long
    <3>1. L \in Nat /\ DOMAIN todo = 1..L
      BY <1>1
    <3>2. /\ todo' \in Seq(Part) /\ Len(todo') = L + 1
          /\ \A m \in 1..L : todo'[m] = todo[m]
          /\ todo'[L + 1] = long
      BY <1>1, <1>10, <2>1, AppendProperties
    <3> HIDE DEF L
    <3> QED
      BY <3>1, <3>2
  <2> HIDE DEF L
  <2>3. PartsApart(Len(request), "range", lo', hi', todo')
    <3>1. \A m \in 1 .. L + 1 : m \in 1..L \/ m = L + 1
      BY <2>2
    <3>2. \A m \in 1 .. L + 1 : todo'[m].lo >= 1 /\ todo'[m].hi <= N
      BY <1>7, <1>10, <2>2, <3>1
    <3>3. \A m \in 1 .. L + 1 : todo'[m].hi < lo' \/ hi' < todo'[m].lo
      BY <1>10, <2>1, <2>2, <3>1
    <3>4. ASSUME NEW x \in 1 .. L + 1, NEW y \in 1 .. L + 1, x < y
          PROVE  todo'[x].hi < todo'[y].lo \/ todo'[y].hi < todo'[x].lo
      <4>1. x \in 1..L
        BY <2>2, <3>4
      <4>2. CASE y \in 1..L
        BY <1>7, <2>2, <3>4, <4>1, <4>2
      <4>3. CASE y = L + 1
        BY <1>10, <2>2, <4>1, <4>3
      <4> QED
        BY <3>1, <4>2, <4>3
    <3> QED
      BY <1>10, <2>1, <2>2, <3>2, <3>3, <3>4 DEF PartsApart
  <2>4. OrderedUnlessOpen(request, items, "range", lo', hi', todo')
    <3> SUFFICES ASSUME NEW x \in 1..N, NEW y \in 1..N, x < y, ~Open(x, y, "range", lo', hi', todo')
                 PROVE  ~Ahead(request, items[y], items[x])
      BY DEF OrderedUnlessOpen
    <3>1. ~(x \in short.lo..short.hi /\ y \in short.lo..short.hi)
      BY <2>1 DEF Open
    <3>2. ~(x \in long.lo..long.hi /\ y \in long.lo..long.hi)
      <4>1. L + 1 \in DOMAIN todo'
        BY <2>2
      <4> QED
        BY <2>2, <4>1 DEF Open
    <3>3. \A m \in DOMAIN todo : ~(x \in todo[m].lo .. todo[m].hi /\ y \in todo[m].lo .. todo[m].hi)
      <4>1. \A m \in DOMAIN todo : m \in DOMAIN todo' /\ todo'[m] = todo[m]
        BY <2>2
      <4> QED
        BY <4>1 DEF Open
    <3> QED
      BY <1>11, <3>1, <3>2, <3>3
  <2>5. lo' \in Int /\ hi' \in Int
    BY <1>10, <2>1
  <2> QED
    BY <1>1, <1>3, <2>2, <2>3, <2>4, <2>5 DEF SortGoodNext, SortGood
<1>13. CASE ~(short.lo < short.hi)
  <2>1. todo' = todo /\ lo' = long.lo /\ hi' = long.hi
    BY <1>3, <1>13
  <2>2. PartsApart(Len(request), "range", lo', hi', todo')
    BY <1>7, <1>10, <2>1 DEF PartsApart
  <2>3. OrderedUnlessOpen(request, items, "range", lo', hi', todo')
    <3> SUFFICES ASSUME NEW x \in 1..N, NEW y \in 1..N, x < y, ~Open(x, y, "range", lo', hi', todo')
                 PROVE  ~Ahead(request, items[y], items[x])
      BY DEF OrderedUnlessOpen
    <3>1. ~(x \in short.lo..short.hi /\ y \in short.lo..short.hi)
      BY <1>10, <1>13
    <3>2. ~(x \in long.lo..long.hi /\ y \in long.lo..long.hi)
      BY <2>1 DEF Open
    <3>3. \A m \in DOMAIN todo : ~(x \in todo[m].lo .. todo[m].hi /\ y \in todo[m].lo .. todo[m].hi)
      BY <2>1 DEF Open
    <3> QED
      BY <1>11, <3>1, <3>2, <3>3
  <2>4. lo' \in Int /\ hi' \in Int
    BY <1>10, <2>1
  <2> QED
    BY <1>1, <1>3, <2>1, <2>2, <2>3, <2>4 DEF SortGoodNext, SortGood
<1> QED
  BY <1>12, <1>13

\* Each step of the sort keeps what is right of it.
LEMMA StepGood ==
  ASSUME request \in Requests \cup {<<>>}, SortGoodNow, Sort!Step
  PROVE  SortGoodNext
  BY InsertionGood, PartitionGood, ScanUpGood, ScanDownGood, ExchangeGood, SplitGood DEF Sort!Step

\* While it runs no item is read outside of the part that is sorted.
LEMMA GoodInside ==
  ASSUME request \in Requests \cup {<<>>}, sorting # "idle" => SortGoodNow
  PROVE  Sort!Inside
<1>1. CASE sorting = "idle"
  BY <1>1 DEF Sort!Inside
<1>2. CASE sorting # "idle"
  <2>1. /\ sorting \in {"range", "up", "down", "split", "done"}
        /\ items \in [1..Len(request) -> Tellers(ranker, request)]
        /\ lo \in Int /\ hi \in Int /\ i \in Int /\ j \in Int
        /\ PartsApart(Len(request), sorting, lo, hi, todo)
        /\ sorting \in {"up", "down", "split"} => \E p \in Tellers(ranker, request) : ScanOf(request, items, sorting, lo, hi, i, j, p)
    BY <1>2 DEF SortGoodNow, SortGood
  <2>2. Len(items) = Len(request)
    BY <2>1, LengthOfRequest
  <2>3. sorting \notin {"idle", "done"} => lo >= 1 /\ hi <= Len(items)
    BY <2>1, <2>2 DEF PartsApart
  <2>4. sorting = "up" => i \in lo .. hi
    BY <2>1 DEF ScanOf
  <2>5. sorting = "down" => j \in lo .. hi
    BY <2>1 DEF ScanOf
  <2> QED
    BY <2>3, <2>4, <2>5 DEF Sort!Inside
<1> QED
  BY <1>1, <1>2

-----------------------------------------------------------------------------
\* Results that share no array.
Foreign(r, s) ==
  /\ Apart(r.reasons, s.reasons) /\ Apart(r.reasons, s.actions)
  /\ Apart(r.actions, s.reasons) /\ Apart(r.actions, s.actions)

\* A slice reads the same when its array stays.
LEMMA SliceKeeps ==
  ASSUME NEW h \in Heaps, NEW g \in Heaps, Len(g) >= Len(h), NEW s \in Slices, Fits(h, s),
         s.at # 0 => g[s.at] = h[s.at]
  PROVE  Fits(g, s) /\ Read(g, s) = Read(h, s)
<1>1. s.at \in Nat /\ s.len \in Nat /\ s.at <= Len(h) /\ s.len <= Room(h, s) /\ Len(g) \in Nat /\ Len(h) \in Nat
  BY DEF Fits, Slices, Heaps
<1>2. CASE s.at = 0
  BY <1>1, <1>2 DEF Fits, Read, Room
<1>3. CASE s.at # 0
  BY <1>1, <1>3 DEF Fits, Read, Room
<1> QED
  BY <1>2, <1>3

\* The slices of a result.
LEMMA ResultSlices ==
  ASSUME NEW r \in Result
  PROVE  /\ r.reasons \in Slices /\ r.actions \in Slices
         /\ r.reasons.at \in Nat /\ r.actions.at \in Nat
<1>1. r.reasons \in Slices /\ r.actions \in Slices
  BY DEF Result
<1>2. \A s \in Slices : s.at \in Nat
  BY DEF Slices
<1> QED
  BY <1>1, <1>2

\* What a result holds that shares no array with the one that is filled stays.
LEMMA OthersKeep ==
  ASSUME NEW h \in Heaps, NEW r \in Result, Fillable(h, r),
         NEW c \in Candidates, c.id \in Nat, NEW e \in Finding, NEW into, into = rankCandidateInto(h, r, c, e),
         NEW o \in Result, Fillable(h, o), Foreign(o, r)
  PROVE  /\ Fillable(into.heap, o) /\ Foreign(o, into.result)
         /\ Read(into.heap, o.reasons) = Read(h, o.reasons)
         /\ Read(into.heap, o.actions) = Read(h, o.actions)
<1> DEFINE g == into.heap
           t == into.result
<1>1. /\ g \in Heaps /\ Len(g) >= Len(h)
      /\ \A a \in 1..Len(h) : a \notin {r.reasons.at, r.actions.at} => g[a] = h[a]
      /\ t.reasons.at \in {0, r.reasons.at} \/ t.reasons.at > Len(h)
      /\ t.actions.at = r.actions.at \/ t.actions.at > Len(h)
      /\ t \in Result
  BY IntoFacts
<1> HIDE DEF g, t
<1>2. /\ o.reasons \in Slices /\ o.actions \in Slices /\ o.reasons.at \in Nat /\ o.actions.at \in Nat
      /\ r.reasons.at \in Nat /\ r.actions.at \in Nat /\ t.reasons.at \in Nat /\ t.actions.at \in Nat
  BY <1>1, ResultSlices
<1>3. Fits(h, o.reasons) /\ Fits(h, o.actions) /\ Apart(o.reasons, o.actions)
  BY DEF Fillable
<1>4. o.reasons.at <= Len(h) /\ o.actions.at <= Len(h) /\ Len(h) \in Nat
  BY <1>3 DEF Fits, Heaps
<1>5. /\ o.reasons.at # 0 => o.reasons.at \notin {r.reasons.at, r.actions.at}
      /\ o.actions.at # 0 => o.actions.at \notin {r.reasons.at, r.actions.at}
  BY DEF Foreign, Apart
<1>6. /\ o.reasons.at # 0 => g[o.reasons.at] = h[o.reasons.at]
      /\ o.actions.at # 0 => g[o.actions.at] = h[o.actions.at]
  BY <1>1, <1>2, <1>4, <1>5
<1>7. /\ Fits(g, o.reasons) /\ Read(g, o.reasons) = Read(h, o.reasons)
      /\ Fits(g, o.actions) /\ Read(g, o.actions) = Read(h, o.actions)
  BY <1>1, <1>2, <1>3, <1>6, SliceKeeps
<1>8. Foreign(o, t)
  BY <1>1, <1>2, <1>4, <1>5 DEF Foreign, Apart
<1> QED
  BY <1>3, <1>7, <1>8 DEF Fillable, g, t

-----------------------------------------------------------------------------
\* How long the chain of fallbacks is after m items, if the first last ones are eligible.
ChainLength(m, last, most) ==
  AtMost(AtLeast(AtMost(m, last) - 1, 0), most)

\* Those who are eligible come first.
LEMMA EligibleFirst ==
  ASSUME NEW n \in Nat \ {0}, NEW q, NEW s \in [1..n -> Result], InOrderUpTo(q, s, 1, n), s[1].eligible
  PROVE  \E last \in 1..n : /\ {x \in 1..n : s[x].eligible} = 1..last
                            /\ Cardinality({x \in 1..n : s[x].eligible}) = last
<1> DEFINE E == {x \in 1..n : s[x].eligible}
           last == Max(E)
<1>1. 1 \in E
  OBVIOUS
<1>2. E \in SUBSET Int /\ E # {} /\ n \in Int /\ \A x \in E : x <= n /\ x \in 1..n
  BY <1>1
<1>3. last \in E /\ \A x \in E : x <= last
  <2> HIDE DEF E
  <2> QED
    BY <1>2, MaxOf
<1>4. last \in 1..n /\ s[last].eligible
  <2> HIDE DEF last
  <2> QED
    BY <1>3
<1> HIDE DEF last
<1>5. \A x \in 1..n : s[x].eligible \in BOOLEAN
  <2>1. \A r \in Result : r.eligible \in BOOLEAN
    BY DEF Result
  <2> QED
    BY <2>1
<1>6. ASSUME NEW x \in 1..n, x <= last
      PROVE  s[x].eligible
  <2>1. CASE x = last
    BY <1>4, <2>1
  <2>2. CASE x # last
    <3>1. x < last
      BY <1>4, <1>6, <2>2
    <3>2. ~Ahead(q, s[last], s[x])
      BY <1>4, <3>1 DEF InOrderUpTo
    <3>3. s[last].eligible /\ ~s[x].eligible => Ahead(q, s[last], s[x])
      BY <1>5, <1>4 DEF Ahead, betterCandidate
    <3> QED
      BY <1>4, <3>2, <3>3
  <2> QED
    BY <2>1, <2>2
<1>7. E = 1..last
  BY <1>3, <1>4, <1>6
<1>8. Cardinality(1..last) = last
  <2>1. last \in Int /\ last >= 1
    BY <1>4
  <2> QED
    BY <2>1, FS_Interval
<1> QED
  BY <1>4, <1>7, <1>8

\* The winner and its fallbacks are the first of the items, as many as asked for.
LEMMA ChainFacts ==
  ASSUME NEW n \in Nat, items \in [1..n -> Result], NEW q, InOrderUpTo(q, items, 1, n),
         \A x, y \in 1..n : x # y => items[x].id # items[y].id,
         HasWinner, NEW limit \in Int
  PROVE  LET chain == <<items[1].id>> \o Fallbacks(limit)
             eligible == {x \in 1..n : items[x].eligible}
         IN  /\ Len(chain) = IF limit <= 0 THEN Cardinality(eligible)
                             ELSE AtMost(limit + 1, Cardinality(eligible))
             /\ \A x \in DOMAIN chain : x \in 1..n /\ items[x].id = chain[x]
<1>1. n # 0 /\ items[1].eligible /\ DOMAIN items = 1..n /\ Len(items) = n
  BY DEF HasWinner
<1>2. PICK last \in 1..n : /\ {x \in 1..n : items[x].eligible} = 1..last
                           /\ Cardinality({x \in 1..n : items[x].eligible}) = last
  BY <1>1, EligibleFirst
<1>3. \A x \in 1..n : items[x].id \in Int /\ (items[x].eligible <=> x <= last)
  <2>1. \A r \in Result : r.id \in Int
    BY DEF Result
  <2> QED
    BY <1>2, <2>1
<1>4. items \in Seq(ToSet(items)) /\ \A m \in DOMAIN items : items[m].id \in Int
  BY <1>1, <1>3 DEF ToSet
<1> DEFINE most == IF limit <= 0 THEN n ELSE limit
<1>5. most \in Nat \ {0}
  BY <1>1
<1>6. PICK g : /\ g \in [0..n -> Seq(Int)] /\ g[0] = <<>>
               /\ \A m \in 1..n : g[m-1] \in Seq(Int) /\ g[m] = Linked(g[m-1], items[m], most)
               /\ Fallbacks(limit) = g[n]
  BY <1>1, <1>4, ChainRuns
<1> HIDE DEF most
<1> DEFINE P(m) == m <= n => /\ Len(g[m]) = ChainLength(m, last, most)
                             /\ \A x \in 1..Len(g[m]) : g[m][x] = items[x + 1].id
<1>7. P(0)
  <2>1. Len(g[0]) = 0
    BY <1>6
  <2>2. ChainLength(0, last, most) = 0
    BY <1>5 DEF ChainLength, AtMost, AtLeast
  <2> QED
    BY <2>1, <2>2
<1>8. ASSUME NEW m \in Nat, P(m)
      PROVE  P(m + 1)
  <2> SUFFICES ASSUME m + 1 <= n
               PROVE  /\ Len(g[m+1]) = ChainLength(m + 1, last, most)
                      /\ \A x \in 1..Len(g[m+1]) : g[m+1][x] = items[x + 1].id
    OBVIOUS
  <2>1. m + 1 \in 1..n /\ m \in 0..n /\ m + 1 - 1 = m
    OBVIOUS
  <2> DEFINE ids == g[m]
             r == items[m + 1]
  <2>2. ids \in Seq(Int) /\ g[m+1] = Linked(ids, r, most)
    BY <1>6, <2>1
  <2>3. /\ Len(ids) = ChainLength(m, last, most)
        /\ \A x \in 1..Len(ids) : ids[x] = items[x + 1].id
    BY <1>8, <2>1
  <2>4. r.id \in Int /\ (r.eligible <=> m + 1 <= last) /\ (r.id = items[1].id <=> m = 0)
    <3>1. 1 \in 1..n
      BY <1>1
    <3> QED
      BY <1>3, <2>1, <3>1
  <2> HIDE DEF ids, r
  <2>5. CASE Len(ids) < most /\ m + 1 <= last /\ m # 0
    <3>1. g[m+1] = Append(ids, r.id)
      BY <2>2, <2>4, <2>5 DEF Linked
    <3>2. Len(g[m+1]) = Len(ids) + 1 /\ (\A x \in 1..Len(ids) : g[m+1][x] = ids[x]) /\ g[m+1][Len(ids) + 1] = r.id
      BY <2>2, <2>4, <3>1, AppendProperties
    <3>3. Len(ids) = m - 1
      BY <1>5, <2>3, <2>5 DEF ChainLength, AtMost, AtLeast
    <3>4. ChainLength(m + 1, last, most) = m
      BY <1>5, <2>3, <2>5, <3>3 DEF ChainLength, AtMost, AtLeast
    <3>5. \A x \in 1..m : x \in 1..Len(ids) \/ x = m
      BY <3>3
    <3>6. g[m+1][m] = items[m + 1].id
      BY <3>2, <3>3 DEF r
    <3> QED
      BY <2>3, <3>2, <3>3, <3>4, <3>5, <3>6
  <2>6. CASE ~(Len(ids) < most /\ m + 1 <= last /\ m # 0)
    <3>1. g[m+1] = ids
      BY <2>2, <2>4, <2>6 DEF Linked, HasWinner
    <3>2. Len(ids) \in Nat
      BY <2>2
    <3>3. ChainLength(m + 1, last, most) = ChainLength(m, last, most)
      BY <1>5, <2>3, <2>6, <3>2 DEF ChainLength, AtMost, AtLeast
    <3> QED
      BY <2>3, <3>1, <3>3
  <2> QED
    BY <2>5, <2>6
<1> HIDE DEF P
<1>9. P(n)
  <2> DEFINE B == {m \in Nat : ~P(m)}
  <2>1. CASE B = {}
    BY <2>1
  <2>2. CASE B # {}
    <3>1. PICK m \in B : \A x \in B : m <= x
      BY <2>2, LeastOne
    <3>2. m \in Nat /\ ~P(m) /\ m # 0
      BY <1>7, <3>1
    <3>3. m - 1 \in Nat /\ ~(m <= m - 1) /\ m - 1 + 1 = m
      BY <3>2
    <3>4. P(m - 1)
      BY <3>1, <3>3
    <3>5. P(m - 1 + 1)
      BY <1>8, <3>3, <3>4
    <3> QED
      BY <3>2, <3>3, <3>5
  <2> QED
    BY <2>1, <2>2
<1> DEFINE ids == Fallbacks(limit)
           chain == <<items[1].id>> \o ids
           eligible == {x \in 1..n : items[x].eligible}
<1>10. ids \in Seq(Int) /\ Len(ids) = ChainLength(n, last, most) /\ \A x \in 1..Len(ids) : ids[x] = items[x + 1].id
  BY <1>6, <1>9 DEF P
<1> HIDE DEF ids
<1>11. /\ Len(chain) = Len(ids) + 1 /\ DOMAIN chain = 1 .. Len(ids) + 1 /\ Len(ids) \in Nat
       /\ chain[1] = items[1].id /\ \A x \in 1..Len(ids) : chain[x + 1] = ids[x]
  <2>1. items[1].id \in Int
    BY <1>1, <1>3
  <2>2. <<items[1].id>> \in Seq(Int) /\ Len(<<items[1].id>>) = 1
    BY <2>1
  <2> QED
    BY <1>10, <2>1, <2>2
<1> HIDE DEF chain
<1>12. Len(ids) + 1 = IF limit <= 0 THEN last ELSE AtMost(limit + 1, last)
  <2>1. CASE limit <= 0
    BY <1>10, <2>1 DEF ChainLength, AtMost, AtLeast, most
  <2>2. CASE ~(limit <= 0)
    BY <1>10, <2>2 DEF ChainLength, AtMost, AtLeast, most
  <2> QED
    BY <2>1, <2>2
<1>13. Len(chain) = IF limit <= 0 THEN Cardinality(eligible) ELSE AtMost(limit + 1, Cardinality(eligible))
  BY <1>2, <1>11, <1>12
<1>14. ASSUME NEW x \in DOMAIN chain
       PROVE  x \in 1..n /\ items[x].id = chain[x]
  <2>1. x \in 1 .. Len(ids) + 1
    BY <1>11
  <2>2. Len(ids) + 1 <= n
    <3>1. Len(ids) + 1 <= last
      BY <1>10 , <1>5 DEF ChainLength, AtMost, AtLeast
    <3> QED
      BY <1>10, <1>11, <3>1
  <2>3. CASE x = 1
    BY <1>1, <1>11, <2>3
  <2>4. CASE x # 1
    <3>1. x - 1 \in 1..Len(ids) /\ x - 1 + 1 = x
      BY <1>11, <2>1, <2>4
    <3>2. ids[x - 1] = items[x].id /\ chain[x] = ids[x - 1]
      BY <1>10, <1>11, <3>1
    <3> QED
      BY <1>11, <2>1, <2>2, <3>2
  <2> QED
    BY <2>3, <2>4
<1> QED
  BY <1>13, <1>14 DEF chain, eligible, ids

-----------------------------------------------------------------------------
\* What is right of the ranker in every state.
Rankings == {"Rank", "SelectFallbacks"}
Names == {"Rank", "SelectBest", "SelectBestID", "SelectWeightedID", "SelectFallbacks"}

\* A result is that of the nth candidate.
Owned(h, rk, q, r, n) ==
  Tells(r, q[n], Found(rk, q[n])) /\ Explains(h, r, Found(rk, q[n]))

\* The first candidates are evaluated into the first results.
Taken(h, rk, q, s, upto) ==
  /\ Len(s) >= Len(q)
  /\ \A x \in 1..Len(q) : x < upto => Owned(h, rk, q, s[x], x)

\* All candidates are evaluated and in order.
Finished(h, rk, q, s) ==
  /\ Len(s) >= Len(q)
  /\ \A x \in 1..Len(q) : \E n \in 1..Len(q) : Owned(h, rk, q, s[x], n)
  /\ \A n \in 1..Len(q) : \E x \in 1..Len(q) : s[x].id = q[n].id
  /\ InOrderUpTo(q, s, 1, Len(q))

\* The answer and its fallbacks are the first of the results.
Chained(q, s, told) ==
  LET eligible == {n \in DOMAIN q : s[n].eligible}
      chain    == <<told.id>> \o told.rest
  IN  /\ Len(chain) = IF told.limit <= 0 THEN Cardinality(eligible)
                      ELSE AtMost(told.limit + 1, Cardinality(eligible))
      /\ \A n \in DOMAIN chain : s[n].id = chain[n]

\* No two results that are filled share an array.
InMemory(h, sl, cur) ==
  /\ Fillable(h, cur)
  /\ \A c \in Rankings : \A x \in DOMAIN sl[c] : Fillable(h, sl[c][x]) /\ Foreign(sl[c][x], cur)
  /\ \A c, d \in Rankings : \A x \in DOMAIN sl[c], y \in DOMAIN sl[d] :
        c # d \/ x # y => Foreign(sl[c][x], sl[d][y])

\* What is asked and what is filled.
AskedRight ==
  /\ ranker \in Rankers /\ request \in Requests \cup {<<>>}
  /\ call \in Names \cup {"none"} /\ k \in Nat \ {0}
FilledRight ==
  /\ heap \in Heaps /\ slots \in [Rankings -> Seq(Result)]
  /\ current \in Result /\ best \in Result
  /\ InMemory(heap, slots, current)

Replied(a) == a.done \in BOOLEAN /\ a.error \in BOOLEAN
AnswersType == answers = [c \in Names |-> answers[c]] /\ \A c \in Names : Replied(answers[c])

\* A call and the sort that it may be in.
CallRight ==
  /\ call # "none" => ~answers[call].done /\ k <= Len(request) + 1
  /\ call \in Rankings => Taken(heap, ranker, request, slots[call], k)
  /\ sorting # "idle" =>
        /\ call \in Rankings /\ k = Len(request) + 1
        /\ SortGood(ranker, request, slots[call], items, sorting, lo, hi, i, j, pivot, todo)

FinishedRight ==
  \A c \in Rankings : answers[c].done /\ ~answers[c].error => Finished(heap, ranker, request, slots[c])

ChainRight ==
  answers["SelectFallbacks"].done /\ ~answers["SelectFallbacks"].error /\ answers["SelectFallbacks"].id # 0 =>
    Chained(request, slots["SelectFallbacks"], answers["SelectFallbacks"])

RankerInv == AskedRight /\ FilledRight /\ AnswersType /\ CallRight /\ FinishedRight /\ ChainRight

\* The selectors by name.
LEMMA NamesAre ==
  /\ ToSet(Selectors) = Names /\ Rankings \subseteq Names
  /\ \A n \in 1..5 : Selectors[n] \in Names
  /\ DOMAIN Selectors = 1..5 /\ Len(Selectors) = 5
<1>1. DOMAIN Selectors = 1..5 /\ Len(Selectors) = 5
  BY DEF Selectors
<1>2. /\ Selectors[1] = "Rank" /\ Selectors[2] = "SelectBest" /\ Selectors[3] = "SelectBestID"
      /\ Selectors[4] = "SelectWeightedID" /\ Selectors[5] = "SelectFallbacks"
  BY DEF Selectors
<1>3. 1..5 = {1, 2, 3, 4, 5}
  OBVIOUS
<1> HIDE DEF Selectors
<1>4. ToSet(Selectors) = {Selectors[n] : n \in {1, 2, 3, 4, 5}}
  BY <1>1, <1>3 DEF ToSet
<1>5. ToSet(Selectors) = Names
  BY <1>2, <1>4 DEF Names
<1>6. \A n \in 1..5 : Selectors[n] \in Names
  BY <1>2, <1>3 DEF Names
<1> QED
  BY <1>1, <1>5, <1>6 DEF Names, Rankings

\* The selector that is called next.
LEMMA NextIs ==
  /\ NextSelector = 0 => \A c \in Names : answers[c].done
  /\ NextSelector # 0 => Selectors[NextSelector] \in Names /\ ~answers[Selectors[NextSelector]].done
<1> DEFINE S == {n \in 1..Len(Selectors) : ~answers[Selectors[n]].done}
<1>1. NextSelector = IF S # {} THEN Min(S) ELSE 0
  BY DEF NextSelector, SelectInSeq
<1>2. S \in SUBSET (1..5)
  BY NamesAre
<1>3. S # {} => Min(S) \in S
  <2> HIDE DEF S
  <2>1. 5 \in Nat
    OBVIOUS
  <2> QED
    BY <1>2, <2>1, FirstOf
<1>4. CASE S = {}
  <2>1. NextSelector = 0
    BY <1>1, <1>4
  <2>2. \A n \in 1..5 : answers[Selectors[n]].done
    BY <1>4, NamesAre
  <2>3. \A c \in Names : \E n \in 1..5 : c = Selectors[n]
    BY NamesAre DEF ToSet
  <2> QED
    BY <2>1, <2>2, <2>3
<1>5. CASE S # {}
  <2>1. NextSelector \in S
    BY <1>1, <1>3, <1>5
  <2>2. NextSelector \in 1..5 /\ ~answers[Selectors[NextSelector]].done
    BY <2>1, NamesAre
  <2> QED
    BY <2>2, NamesAre
<1> QED
  BY <1>4, <1>5

\* What is asked for is there.
LEMMA CandidateIs ==
  ASSUME AskedRight, NEW n \in 1..Len(request)
  PROVE  /\ n \in DOMAIN request /\ request[n] \in Candidates /\ request[n].id \in Nat \ {0}
         /\ Found(ranker, request[n]) \in Finding
<1>1. n \in DOMAIN request /\ request \in Requests \cup {<<>>} /\ ranker \in Rankers
  BY LengthOfRequest DEF AskedRight
<1>2. request[n] \in Candidates /\ request[n].id \in Nat \ {0}
  BY <1>1, CandidateOf
<1> DEFINE how == IF canRankNative(ranker) THEN "native" ELSE "generic"
<1>3. how \in Ways
  BY DEF Ways
<1> HIDE DEF how
<1>4. RankCandidate(ranker, request[n], how) \in Finding
  BY <1>1, <1>2, <1>3, FindingType
<1> QED
  BY <1>1, <1>2, <1>4 DEF Found, how

\* No two candidates of a request have the same id.
LEMMA IdsDiffer ==
  ASSUME AskedRight, NEW m \in 1..Len(request), NEW n \in 1..Len(request), m # n
  PROVE  request[m].id # request[n].id
<1>1. m \in DOMAIN request /\ n \in DOMAIN request /\ request \in Requests \cup {<<>>}
  BY LengthOfRequest DEF AskedRight
<1>2. CASE request \in Requests
  BY <1>1, <1>2, RequestsAssumption
<1>3. CASE request = <<>>
  BY <1>1, <1>3
<1> QED
  BY <1>1, <1>2, <1>3

\* Sharing no array goes both ways.
LEMMA ForeignSymmetric ==
  ASSUME NEW r, NEW s
  PROVE  Foreign(r, s) <=> Foreign(s, r)
  BY DEF Foreign, Apart

\* Slots where one result is put.
LEMMA PutResult ==
  ASSUME NEW sl \in [Rankings -> Seq(Result)], NEW c \in Rankings, NEW x \in DOMAIN sl[c],
         NEW t \in Result, NEW new, new = [sl EXCEPT ![c][x] = t]
  PROVE  /\ new \in [Rankings -> Seq(Result)]
         /\ \A d \in Rankings : d # c => new[d] = sl[d]
         /\ Len(new[c]) = Len(sl[c]) /\ DOMAIN new[c] = DOMAIN sl[c]
         /\ new[c][x] = t
         /\ \A y \in DOMAIN sl[c] : y # x => new[c][y] = sl[c][y]
<1> DEFINE u == [sl[c] EXCEPT ![x] = t]
<1>1. sl[c] \in Seq(Result)
  OBVIOUS
<1>2. /\ u \in Seq(Result) /\ Len(u) = Len(sl[c]) /\ DOMAIN u = DOMAIN sl[c]
      /\ u[x] = t /\ \A y \in DOMAIN sl[c] : y # x => u[y] = sl[c][y]
  BY <1>1, ExceptSeq
<1>3. new = [sl EXCEPT ![c] = u]
  OBVIOUS
<1> HIDE DEF u
<1>4. new \in [Rankings -> Seq(Result)] /\ new[c] = u /\ \A d \in Rankings : d # c => new[d] = sl[d]
  BY <1>2, <1>3
<1> QED
  BY <1>2, <1>4

\* A result that shares no array with the one that is filled keeps whose it is.
LEMMA OwnKeeps ==
  ASSUME AskedRight, heap \in Heaps, NEW r \in Result, Fillable(heap, r), NEW n \in 1..Len(request),
         NEW into, into = rankCandidateInto(heap, r, request[n], Found(ranker, request[n])),
         NEW o \in Result, Fillable(heap, o), Foreign(o, r)
  PROVE  /\ Fillable(into.heap, o) /\ Foreign(o, into.result)
         /\ \A m : Owned(heap, ranker, request, o, m) => Owned(into.heap, ranker, request, o, m)
<1>1. /\ request[n] \in Candidates /\ request[n].id \in Nat /\ Found(ranker, request[n]) \in Finding
  BY CandidateIs
<1>2. /\ Fillable(into.heap, o) /\ Foreign(o, into.result)
      /\ Read(into.heap, o.reasons) = Read(heap, o.reasons)
      /\ Read(into.heap, o.actions) = Read(heap, o.actions)
  BY <1>1, OthersKeep
<1> QED
  BY <1>2 DEF Owned, Explains

\* A result that a candidate is evaluated into is that of the candidate.
LEMMA FilledIs ==
  ASSUME AskedRight, heap \in Heaps, NEW r \in Result, Fillable(heap, r), NEW n \in 1..Len(request),
         NEW into, into = rankCandidateInto(heap, r, request[n], Found(ranker, request[n]))
  PROVE  /\ into.heap \in Heaps /\ into.result \in Result /\ Fillable(into.heap, into.result)
         /\ Owned(into.heap, ranker, request, into.result, n)
<1>1. /\ request[n] \in Candidates /\ request[n].id \in Nat /\ Found(ranker, request[n]) \in Finding
  BY CandidateIs
<1>2. /\ into.heap \in Heaps /\ into.result \in Result /\ Fillable(into.heap, into.result)
      /\ Tells(into.result, request[n], Found(ranker, request[n])) /\ Explains(into.heap, into.result, Found(ranker, request[n]))
  BY <1>1, IntoFacts
<1> QED
  BY <1>2 DEF Owned

\* A candidate is evaluated into a slot.
LEMMA FillSlot ==
  ASSUME AskedRight, FilledRight, NEW c \in Rankings, NEW x \in DOMAIN slots[c], NEW n \in 1..Len(request),
         NEW into, into = rankCandidateInto(heap, slots[c][x], request[n], Found(ranker, request[n])),
         NEW new, new = [slots EXCEPT ![c][x] = into.result]
  PROVE  /\ into.heap \in Heaps /\ new \in [Rankings -> Seq(Result)]
         /\ InMemory(into.heap, new, current)
         /\ Owned(into.heap, ranker, request, into.result, n)
         /\ \A d \in Rankings : \A y \in DOMAIN slots[d] :
               d # c \/ y # x => \A m : Owned(heap, ranker, request, slots[d][y], m)
                                          => Owned(into.heap, ranker, request, slots[d][y], m)
<1> DEFINE r == slots[c][x]
<1>1. /\ heap \in Heaps /\ slots \in [Rankings -> Seq(Result)] /\ current \in Result
      /\ InMemory(heap, slots, current)
  BY DEF FilledRight
<1>2. /\ Fillable(heap, current)
      /\ \A d \in Rankings : \A y \in DOMAIN slots[d] : Fillable(heap, slots[d][y]) /\ Foreign(slots[d][y], current)
      /\ \A d, e \in Rankings : \A y \in DOMAIN slots[d], z \in DOMAIN slots[e] :
            d # e \/ y # z => Foreign(slots[d][y], slots[e][z])
  BY <1>1 DEF InMemory
<1>3. \A d \in Rankings : \A y \in DOMAIN slots[d] : slots[d][y] \in Result
  <2>1. \A d \in Rankings : slots[d] \in Seq(Result)
    BY <1>1
  <2> QED
    BY <2>1, ElementOfSeq
<1>4. r \in Result /\ Fillable(heap, r) /\ into = rankCandidateInto(heap, r, request[n], Found(ranker, request[n]))
  BY <1>2, <1>3
<1>5. /\ into.heap \in Heaps /\ into.result \in Result /\ Fillable(into.heap, into.result)
      /\ Owned(into.heap, ranker, request, into.result, n)
  BY <1>1, <1>4, FilledIs
<1>6. /\ new \in [Rankings -> Seq(Result)]
      /\ \A d \in Rankings : d # c => new[d] = slots[d]
      /\ DOMAIN new[c] = DOMAIN slots[c]
      /\ new[c][x] = into.result
      /\ \A y \in DOMAIN slots[c] : y # x => new[c][y] = slots[c][y]
  BY <1>1, <1>5, PutResult
<1>7. ASSUME NEW d \in Rankings, NEW y \in DOMAIN slots[d], d # c \/ y # x
      PROVE  /\ Fillable(into.heap, slots[d][y]) /\ Foreign(slots[d][y], into.result)
             /\ \A m : Owned(heap, ranker, request, slots[d][y], m) => Owned(into.heap, ranker, request, slots[d][y], m)
             /\ new[d][y] = slots[d][y]
  <2>1. slots[d][y] \in Result /\ Fillable(heap, slots[d][y]) /\ Foreign(slots[d][y], r)
    BY <1>2, <1>3, <1>7
  <2>2. new[d][y] = slots[d][y]
    BY <1>6, <1>7
  <2> QED
    BY <1>1, <1>4, <2>1, <2>2, OwnKeeps
<1>8. Fillable(into.heap, current) /\ Foreign(current, into.result)
  <2>1. Foreign(current, r)
    BY <1>2, ForeignSymmetric
  <2> QED
    BY <1>1, <1>2, <1>4, <2>1, OwnKeeps
<1> HIDE DEF r
<1>9. \A d \in Rankings : DOMAIN new[d] = DOMAIN slots[d]
  BY <1>6
<1>10. \A d \in Rankings : \A y \in DOMAIN new[d] : Fillable(into.heap, new[d][y]) /\ Foreign(new[d][y], current)
  <2> SUFFICES ASSUME NEW d \in Rankings, NEW y \in DOMAIN slots[d]
               PROVE  Fillable(into.heap, new[d][y]) /\ Foreign(new[d][y], current)
    BY <1>9
  <2>1. CASE d # c \/ y # x
    BY <1>2, <1>7, <2>1
  <2>2. CASE d = c /\ y = x
    <3>1. Foreign(into.result, current)
      BY <1>8, ForeignSymmetric
    <3> QED
      BY <1>5, <1>6, <2>2, <3>1
  <2> QED
    BY <2>1, <2>2
<1>11. \A d, e \in Rankings : \A y \in DOMAIN new[d], z \in DOMAIN new[e] :
          d # e \/ y # z => Foreign(new[d][y], new[e][z])
  <2> SUFFICES ASSUME NEW d \in Rankings, NEW e \in Rankings, NEW y \in DOMAIN slots[d], NEW z \in DOMAIN slots[e],
                      d # e \/ y # z
               PROVE  Foreign(new[d][y], new[e][z])
    BY <1>9
  <2>1. CASE (d # c \/ y # x) /\ (e # c \/ z # x)
    BY <1>2, <1>7, <2>1
  <2>2. CASE d = c /\ y = x
    <3>1. e # c \/ z # x
      BY <2>2
    <3>2. Foreign(slots[e][z], into.result) /\ new[e][z] = slots[e][z]
      BY <1>7, <3>1
    <3>3. new[d][y] = into.result
      BY <1>6, <2>2
    <3> QED
      BY <3>2, <3>3, ForeignSymmetric
  <2>3. CASE e = c /\ z = x
    <3>1. d # c \/ y # x
      BY <2>3
    <3>2. Foreign(slots[d][y], into.result) /\ new[d][y] = slots[d][y]
      BY <1>7, <3>1
    <3>3. new[e][z] = into.result
      BY <1>6, <2>3
    <3> QED
      BY <3>2, <3>3
  <2> QED
    BY <2>1, <2>2, <2>3
<1>12. InMemory(into.heap, new, current)
  BY <1>8, <1>10, <1>11 DEF InMemory
<1> QED
  BY <1>5, <1>6, <1>7, <1>12

\* A candidate is evaluated into the one result of SelectBestInto.
LEMMA FillCurrent ==
  ASSUME AskedRight, FilledRight, NEW n \in 1..Len(request),
         NEW into, into = rankCandidateInto(heap, current, request[n], Found(ranker, request[n]))
  PROVE  /\ into.heap \in Heaps /\ into.result \in Result
         /\ InMemory(into.heap, slots, into.result)
         /\ Owned(into.heap, ranker, request, into.result, n)
         /\ \A d \in Rankings : \A y \in DOMAIN slots[d] : \A m :
               Owned(heap, ranker, request, slots[d][y], m) => Owned(into.heap, ranker, request, slots[d][y], m)
<1>1. /\ heap \in Heaps /\ slots \in [Rankings -> Seq(Result)] /\ current \in Result
      /\ InMemory(heap, slots, current)
  BY DEF FilledRight
<1>2. /\ Fillable(heap, current)
      /\ \A d \in Rankings : \A y \in DOMAIN slots[d] : Fillable(heap, slots[d][y]) /\ Foreign(slots[d][y], current)
      /\ \A d, e \in Rankings : \A y \in DOMAIN slots[d], z \in DOMAIN slots[e] :
            d # e \/ y # z => Foreign(slots[d][y], slots[e][z])
  BY <1>1 DEF InMemory
<1>3. \A d \in Rankings : \A y \in DOMAIN slots[d] : slots[d][y] \in Result
  <2>1. \A d \in Rankings : slots[d] \in Seq(Result)
    BY <1>1
  <2> QED
    BY <2>1, ElementOfSeq
<1>4. /\ into.heap \in Heaps /\ into.result \in Result /\ Fillable(into.heap, into.result)
      /\ Owned(into.heap, ranker, request, into.result, n)
  BY <1>1, <1>2, FilledIs
<1>5. ASSUME NEW d \in Rankings, NEW y \in DOMAIN slots[d]
      PROVE  /\ Fillable(into.heap, slots[d][y]) /\ Foreign(slots[d][y], into.result)
             /\ \A m : Owned(heap, ranker, request, slots[d][y], m) => Owned(into.heap, ranker, request, slots[d][y], m)
  BY <1>1, <1>2, <1>3, OwnKeeps
<1>6. InMemory(into.heap, slots, into.result)
  BY <1>2, <1>4, <1>5 DEF InMemory
<1> QED
  BY <1>4, <1>5, <1>6

\* What is finished stays so when its results stay.
LEMMA FinishedKeeps ==
  ASSUME NEW h, NEW g, NEW rk, NEW q, NEW s, NEW t, DOMAIN s = 1..Len(s), Len(s) \in Nat, Len(q) \in Nat, Len(t) = Len(s),
         \A x \in DOMAIN s : t[x] = s[x] /\ \A m : Owned(h, rk, q, s[x], m) => Owned(g, rk, q, s[x], m),
         Finished(h, rk, q, s)
  PROVE  Finished(g, rk, q, t)
<1>1. \A x \in 1..Len(q) : x \in DOMAIN s
  BY DEF Finished
<1>2. Len(t) >= Len(q) /\ \A x \in 1..Len(q) : t[x] = s[x]
  BY <1>1 DEF Finished
<1>3. \A x \in 1..Len(q) : \E n \in 1..Len(q) : Owned(g, rk, q, t[x], n)
  BY <1>1, <1>2 DEF Finished
<1>4. \A n \in 1..Len(q) : \E x \in 1..Len(q) : t[x].id = q[n].id
  <2> SUFFICES ASSUME NEW n \in 1..Len(q)
               PROVE  \E x \in 1..Len(q) : t[x].id = q[n].id
    OBVIOUS
  <2>1. PICK x \in 1..Len(q) : s[x].id = q[n].id
    BY DEF Finished
  <2> QED
    BY <1>2, <2>1
<1>5. InOrderUpTo(q, t, 1, Len(q))
  <2>1. InOrderUpTo(q, s, 1, Len(q))
    BY DEF Finished
  <2> QED
    BY <1>2, <2>1 DEF InOrderUpTo
<1> QED
  BY <1>2, <1>3, <1>4, <1>5 DEF Finished

\* What answers are made of.
LEMMA AnswerFields ==
  /\ Replied(NoAnswer) /\ ~NoAnswer.done
  /\ Replied(Failure) /\ Failure.done /\ Failure.error
  /\ \A r : /\ Replied(Answer(r)) /\ Answer(r).done /\ ~Answer(r).error
            /\ Answer(r).id = r.id /\ Answer(r).score = r.score
  /\ Replied(Nothing) /\ Nothing.done /\ ~Nothing.error /\ Nothing.id = 0 /\ Nothing.score = 0
<1>1. \A r : /\ Answer(r).done = TRUE /\ Answer(r).error = FALSE
             /\ Answer(r).id = r.id /\ Answer(r).score = r.score
  BY DEF Answer, NoAnswer
<1>2. NoResult.id = 0 /\ NoResult.score = 0
  BY DEF NoResult
<1>3. Nothing.done = TRUE /\ Nothing.error = FALSE /\ Nothing.id = 0 /\ Nothing.score = 0
  BY <1>1, <1>2 DEF Nothing
<1> QED
  BY <1>1, <1>3 DEF Replied, NoAnswer, Failure

\* A selector answers.
LEMMA Answering ==
  ASSUME AnswersType, call \in Names, NEW a, Replied(a), answers' = [answers EXCEPT ![call] = a]
  PROVE  /\ AnswersType' /\ answers'[call] = a
         /\ \A c \in Names : c # call => answers'[c] = answers[c]
<1>1. answers = [c \in Names |-> answers[c]] /\ \A c \in Names : Replied(answers[c])
  BY DEF AnswersType
<1>2. answers' = [c \in Names |-> IF c = call THEN a ELSE answers[c]]
  BY <1>1
<1>3. answers'[call] = a /\ \A c \in Names : c # call => answers'[c] = answers[c]
  BY <1>2
<1>4. \A c \in Names : Replied(answers'[c])
  BY <1>1, <1>3
<1>5. answers' = [c \in Names |-> answers'[c]]
  BY <1>2
<1> QED
  BY <1>3, <1>4, <1>5 DEF AnswersType

\* The way that a full result is evaluated on.
LEMMA EvaluationIs ==
  ASSUME call \in {"Rank", "SelectFallbacks", "SelectBest"}
  PROVE  Evaluation = Found(ranker, request[k])
<1>1. call \notin {"SelectBestID", "SelectWeightedID"}
  OBVIOUS
<1> QED
  BY <1>1 DEF Evaluation, Evaluated, Natively, Candidate, Found

-----------------------------------------------------------------------------
\* Steps that leave the slots and the sort alone.
LEMMA OtherStep ==
  ASSUME RankerInv, request' = request, ranker' = ranker, heap' = heap, slots' = slots, sorting' = "idle",
         call' \in (Names \cup {"none"}) \ Rankings, k' \in Nat \ {0},
         call' # "none" => ~answers'[call'].done /\ k' <= Len(request) + 1,
         AnswersType', \A c \in Rankings : answers'[c] = answers[c] \/ answers'[c].error,
         current' \in Result, best' \in Result, InMemory(heap, slots, current')
  PROVE  RankerInv'
<1>1. AskedRight'
  BY DEF RankerInv, AskedRight
<1>2. FilledRight'
  BY DEF RankerInv, FilledRight
<1>3. CallRight'
  BY DEF RankerInv, CallRight
<1>4. FinishedRight'
  BY DEF RankerInv, FinishedRight
<1>5. ChainRight'
  <2>1. "SelectFallbacks" \in Rankings
    BY DEF Rankings
  <2> QED
    BY <2>1 DEF RankerInv, ChainRight
<1> QED
  BY <1>1, <1>2, <1>3, <1>4, <1>5 DEF RankerInv

\* Nothing is sorted unless RankInto runs.
LEMMA SortsOnlyRankings ==
  ASSUME RankerInv
  PROVE  /\ call \notin Rankings => sorting = "idle"
         /\ k <= Len(request) => sorting = "idle"
         /\ Len(request) \in Nat /\ k \in Nat \ {0}
         /\ call \in Names \cup {"none"} /\ "none" \notin Names /\ Rankings \subseteq Names
<1>1. Len(request) \in Nat /\ k \in Nat \ {0}
  BY LengthOfRequest DEF RankerInv, AskedRight
<1>2. sorting # "idle" => call \in Rankings /\ k = Len(request) + 1
  BY DEF RankerInv, CallRight
<1>3. k <= Len(request) => k # Len(request) + 1
  BY <1>1
<1>4. "none" \notin Names /\ Rankings \subseteq Names
  BY DEF Names, Rankings
<1> QED
  BY <1>1, <1>2, <1>3, <1>4 DEF RankerInv, AskedRight

\* A candidate fails.
LEMMA FailsRight ==
  ASSUME RankerInv, CandidateFails
  PROVE  RankerInv'
<1>1. /\ call \in Names /\ k <= Len(request) /\ sorting = "idle"
  BY SortsOnlyRankings DEF CandidateFails
<1>2. /\ answers' = [answers EXCEPT ![call] = Failure] /\ call' = "none"
      /\ request' = request /\ ranker' = ranker /\ k' = k /\ heap' = heap /\ slots' = slots
      /\ current' = current /\ best' = best /\ sorting' = sorting
  BY DEF CandidateFails, Return, asking, sort
<1>3. /\ AnswersType' /\ answers'[call] = Failure
      /\ \A c \in Names : c # call => answers'[c] = answers[c]
  BY <1>1, <1>2, AnswerFields, Answering DEF RankerInv
<1>4. \A c \in Rankings : answers'[c] = answers[c] \/ answers'[c].error
  BY <1>3, AnswerFields DEF Names, Rankings
<1>5. call' \in (Names \cup {"none"}) \ Rankings
  BY <1>2 DEF Rankings
<1>6. /\ k' \in Nat \ {0} /\ current' \in Result /\ best' \in Result /\ InMemory(heap, slots, current')
  BY <1>2 DEF RankerInv, AskedRight, FilledRight
<1> QED
  BY <1>1, <1>2, <1>3, <1>4, <1>5, <1>6, OtherStep

\* One of the other selectors answers.
LEMMA OtherReturns ==
  ASSUME RankerInv, call \in Names \ Rankings, NEW a, Replied(a),
         Return(a), slots' = slots, sort' = sort
  PROVE  RankerInv'
<1>1. sorting = "idle"
  BY SortsOnlyRankings
<1>2. /\ answers' = [answers EXCEPT ![call] = a] /\ call' = "none"
      /\ request' = request /\ ranker' = ranker /\ k' = k /\ heap' = heap
      /\ current' = current /\ best' = best /\ sorting' = sorting
  BY DEF Return, asking, sort
<1>3. AnswersType' /\ \A c \in Names : c # call => answers'[c] = answers[c]
  BY <1>2, Answering DEF RankerInv
<1>4. \A c \in Rankings : answers'[c] = answers[c] \/ answers'[c].error
  BY <1>3 DEF Names, Rankings
<1>5. call' \in (Names \cup {"none"}) \ Rankings
  BY <1>2 DEF Rankings
<1>6. /\ k' \in Nat \ {0} /\ current' \in Result /\ best' \in Result /\ InMemory(heap, slots, current')
  BY <1>2 DEF RankerInv, AskedRight, FilledRight
<1> QED
  BY <1>1, <1>2, <1>3, <1>4, <1>5, <1>6, OtherStep

\* One of the other selectors is called.
LEMMA OtherCalled ==
  ASSUME RankerInv, NEW c \in Names \ Rankings, Call(c), slots' = slots,
         current' \in Result, best' \in Result, InMemory(heap, slots, current')
  PROVE  RankerInv'
<1>1. /\ call = "none" /\ call' = c /\ k' = 1 /\ ~answers[c].done
      /\ request' = request /\ ranker' = ranker /\ heap' = heap /\ answers' = answers /\ sorting' = sorting
  BY NextIs DEF Call, asking, sort
<1>2. sorting = "idle" /\ Len(request) \in Nat
  <2>1. call \notin Rankings
    BY <1>1 DEF Rankings
  <2> QED
    BY <2>1, SortsOnlyRankings
<1>3. AnswersType'
  BY <1>1 DEF RankerInv, AnswersType
<1>4. k' \in Nat \ {0} /\ k' <= Len(request) + 1
  BY <1>1, <1>2
<1> QED
  BY <1>1, <1>2, <1>3, <1>4, OtherStep

\* One of the other selectors takes a candidate without a result.
LEMMA OtherTakes ==
  ASSUME RankerInv, call \in Names \ Rankings, k <= Len(request), NEW e, Take(e),
         slots' = slots, heap' = heap, current' = current, best' = best
  PROVE  RankerInv'
<1>1. /\ k' = k + 1 /\ request' = request /\ ranker' = ranker /\ call' = call
      /\ answers' = answers /\ sorting' = sorting
  BY DEF Take, asking, sort
<1>2. sorting = "idle" /\ k' \in Nat \ {0} /\ k' <= Len(request) + 1
  BY <1>1, SortsOnlyRankings
<1>3. AnswersType'
  BY <1>1 DEF RankerInv, AnswersType
<1>4. call' \in (Names \cup {"none"}) \ Rankings
  BY <1>1
<1>5. call' # "none" => ~answers'[call'].done
  BY <1>1 DEF RankerInv, CallRight
<1>6. current' \in Result /\ best' \in Result /\ InMemory(heap, slots, current')
  BY DEF RankerInv, FilledRight
<1> QED
  BY <1>1, <1>2, <1>3, <1>4, <1>5, <1>6, OtherStep

\* A result that is emptied is a result.
LEMMA EmptiedType ==
  /\ NoResult \in Result
  /\ \A r \in Result : Emptied(r) \in Result
<1>1. NoSlice \in Slices
  BY DEF NoSlice, Slices
<1>2. "" \in Decisions
  BY DEF Decisions
<1> DEFINE d == ""
<1>3. NoResult = [id |-> 0, eligible |-> FALSE, score |-> 0, decision |-> d, priority |-> 0, specificity |-> 0,
                  fallback |-> 0, cost |-> 0, reasons |-> NoSlice, actions |-> NoSlice]
  BY DEF NoResult
<1> HIDE DEF d
<1>4. d \in Decisions
  BY <1>2 DEF d
<1>5. NoResult \in Result
  BY <1>1, <1>3, <1>4 DEF Result
<1>6. ASSUME NEW r \in Result
      PROVE  Emptied(r) \in Result
  <2> DEFINE s == [r.reasons EXCEPT !.len = 0]
             t == [r.actions EXCEPT !.len = 0]
  <2>1. s \in Slices /\ t \in Slices
    <3>1. r.reasons \in Slices /\ r.actions \in Slices
      BY ResultSlices
    <3> QED
      BY <3>1 DEF Slices
  <2>2. Emptied(r) = [NoResult EXCEPT !.reasons = s, !.actions = t]
    BY DEF Emptied
  <2> HIDE DEF s, t
  <2> QED
    BY <1>5, <2>1, <2>2 DEF Result
<1> QED
  BY <1>5, <1>6

\* What has no array is apart from anything.
LEMMA NoMemory ==
  ASSUME NEW h \in Heaps, NEW r, NEW s, r.reasons = NoSlice, r.actions = NoSlice
  PROVE  Fillable(h, r) /\ Foreign(r, s) /\ Foreign(s, r)
<1>1. NoSlice.at = 0 /\ NoSlice.len = 0
  BY DEF NoSlice
<1>2. Foreign(r, s)
  BY <1>1 DEF Foreign, Apart
<1>3. Fits(h, NoSlice)
  BY <1>1 DEF Fits, Room, Heaps
<1> QED
  BY <1>1, <1>2, <1>3, ForeignSymmetric DEF Fillable, Apart

\* SelectBest is called.
LEMMA CallSelectBestRight ==
  ASSUME RankerInv, CallSelectBest
  PROVE  RankerInv'
<1>1. /\ Call("SelectBest") /\ slots' = slots /\ best' = Emptied(best) /\ current' = NoResult
  BY DEF CallSelectBest
<1>2. best' \in Result /\ current' \in Result
  BY <1>1, EmptiedType DEF RankerInv, FilledRight
<1>3. InMemory(heap, slots, current')
  <2>1. NoResult.reasons = NoSlice /\ NoResult.actions = NoSlice
    BY DEF NoResult
  <2>2. heap \in Heaps /\ InMemory(heap, slots, current)
    BY DEF RankerInv, FilledRight
  <2> QED
    BY <1>1, <2>1, <2>2, NoMemory DEF InMemory
<1>4. "SelectBest" \in Names \ Rankings
  BY DEF Names, Rankings
<1> QED
  BY <1>1, <1>2, <1>3, <1>4, OtherCalled

\* A selector of an ID is called.
LEMMA CallSelectIDRight ==
  ASSUME RankerInv, NEW c, CallSelectID(c)
  PROVE  RankerInv'
<1>1. /\ c \in {"SelectBestID", "SelectWeightedID"} /\ Call(c)
      /\ slots' = slots /\ current' = current /\ best' = best
  BY DEF CallSelectID
<1>2. c \in Names \ Rankings
  BY <1>1 DEF Names, Rankings
<1>3. current' \in Result /\ best' \in Result /\ InMemory(heap, slots, current')
  BY <1>1 DEF RankerInv, FilledRight
<1> QED
  BY <1>1, <1>2, <1>3, OtherCalled

\* A selector of an ID takes a candidate.
LEMMA KeepRight ==
  ASSUME RankerInv, KeepBest \/ KeepTop
  PROVE  RankerInv'
<1>1. /\ call \in {"SelectBestID", "SelectWeightedID"} /\ k <= Len(request)
      /\ slots' = slots /\ heap' = heap /\ current' = current /\ best' = best
  BY DEF KeepBest, KeepTop
<1>2. \E e : Take(e)
  BY DEF KeepBest, KeepTop
<1>3. call \in Names \ Rankings
  BY <1>1 DEF Names, Rankings
<1> QED
  BY <1>1, <1>2, <1>3, OtherTakes

\* SelectBest or a selector of an ID answers.
LEMMA OtherReturnsRight ==
  ASSUME RankerInv, SelectBestReturns \/ SelectBestIDReturns \/ SelectWeightedIDReturns
  PROVE  RankerInv'
<1>1. call \in {"SelectBest", "SelectBestID", "SelectWeightedID"} /\ slots' = slots /\ sort' = sort
  BY DEF SelectBestReturns, SelectBestIDReturns, SelectWeightedIDReturns
<1>2. \E a : Replied(a) /\ Return(a)
  <2>1. CASE SelectBestReturns
    BY <2>1, AnswerFields DEF SelectBestReturns
  <2>2. CASE SelectBestIDReturns
    BY <2>2, AnswerFields DEF SelectBestIDReturns
  <2>3. CASE SelectWeightedIDReturns
    <3>1. Return(Nothing) \/ \E r : Return(Answer(r))
      BY <2>3 DEF SelectWeightedIDReturns
    <3> QED
      BY <3>1, AnswerFields
  <2> QED
    BY <2>1, <2>2, <2>3
<1>3. call \in Names \ Rankings
  BY <1>1 DEF Names, Rankings
<1> QED
  BY <1>1, <1>2, <1>3, OtherReturns

\* What slots are made of.
LEMMA SlotsAre ==
  ASSUME FilledRight
  PROVE  \A d \in Rankings : /\ slots[d] \in Seq(Result) /\ Len(slots[d]) \in Nat /\ DOMAIN slots[d] = 1..Len(slots[d])
                             /\ \A y \in DOMAIN slots[d] : slots[d][y] \in Result
<1>1. \A d \in Rankings : slots[d] \in Seq(Result)
  BY DEF FilledRight
<1> QED
  BY <1>1, ElementOfSeq

\* SelectBest takes a candidate: only the memory of its own result is written.
LEMMA ConsiderBestRight ==
  ASSUME RankerInv, ConsiderBest
  PROVE  RankerInv'
<1>1. call = "SelectBest" /\ k <= Len(request) /\ k \in 1..Len(request) /\ sorting = "idle" /\ call \in Names \ Rankings
  BY SortsOnlyRankings DEF ConsiderBest, Names, Rankings
<1> DEFINE into == rankCandidateInto(heap, current, request[k], Found(ranker, request[k]))
<1>2. /\ Take(Evaluation) /\ heap' = into.heap /\ current' = into.result
      /\ slots' = slots /\ (best' = current' \/ best' = best)
  BY <1>1, EvaluationIs DEF ConsiderBest, Candidate
<1>3. /\ k' = k + 1 /\ request' = request /\ ranker' = ranker /\ call' = call
      /\ answers' = answers /\ sorting' = sorting
  BY <1>2 DEF Take, asking, sort
<1>4. AskedRight /\ FilledRight
  BY DEF RankerInv
<1>5. /\ into.heap \in Heaps /\ into.result \in Result
      /\ InMemory(into.heap, slots, into.result)
      /\ \A d \in Rankings : \A y \in DOMAIN slots[d] : \A m :
            Owned(heap, ranker, request, slots[d][y], m) => Owned(into.heap, ranker, request, slots[d][y], m)
  BY <1>1, <1>4, FillCurrent
<1> HIDE DEF into
<1>6. AskedRight'
  BY <1>1, <1>3, <1>4 DEF AskedRight
<1>7. FilledRight'
  BY <1>2, <1>4, <1>5 DEF FilledRight
<1>8. AnswersType' /\ ChainRight'
  BY <1>2, <1>3 DEF RankerInv, AnswersType, ChainRight
<1>9. CallRight'
  BY <1>1, <1>3, SortsOnlyRankings DEF RankerInv, CallRight
<1>10. FinishedRight'
  <2> SUFFICES ASSUME NEW c \in Rankings, answers[c].done, ~answers[c].error
               PROVE  Finished(into.heap, ranker, request, slots[c])
    BY <1>2, <1>3 DEF FinishedRight
  <2>1. Finished(heap, ranker, request, slots[c])
    BY DEF RankerInv, FinishedRight
  <2>2. DOMAIN slots[c] = 1..Len(slots[c]) /\ Len(slots[c]) \in Nat /\ Len(request) \in Nat
    BY <1>4, SlotsAre, SortsOnlyRankings
  <2> QED
    BY <1>5, <2>1, <2>2, FinishedKeeps
<1> QED
  BY <1>6, <1>7, <1>8, <1>9, <1>10 DEF RankerInv

\* RankInto is called, with the result of an earlier call or a new one.
LEMMA CallRankIntoRight ==
  ASSUME RankerInv, NEW c \in Rankings, CallRankInto(c)
  PROVE  RankerInv'
<1> DEFINE N == Len(request)
           old == IF c = "Rank" THEN slots[c] ELSE <<>>
           u == IF Len(old) < Len(request) THEN [n \in DOMAIN request |-> NoResult] ELSE old
<1>1. /\ call = "none" /\ call' = c /\ k' = 1 /\ ~answers[c].done
      /\ request' = request /\ ranker' = ranker /\ heap' = heap /\ answers' = answers /\ sorting' = sorting
      /\ slots' = [slots EXCEPT ![c] = u] /\ current' = current /\ best' = best
  BY NextIs DEF CallRankInto, Call, asking, sort
<1>2. sorting = "idle" /\ N \in Nat
  <2>1. call \notin Rankings
    BY <1>1 DEF Rankings
  <2> QED
    BY <2>1, SortsOnlyRankings
<1>3. /\ ranker \in Rankers /\ request \in Requests \cup {<<>>} /\ DOMAIN request = 1..N
      /\ heap \in Heaps /\ slots \in [Rankings -> Seq(Result)] /\ current \in Result /\ best \in Result
      /\ InMemory(heap, slots, current)
  BY LengthOfRequest DEF RankerInv, AskedRight, FilledRight
<1>4. slots[c] \in Seq(Result)
  BY <1>3
<1>5. old \in Seq(Result) /\ Len(old) \in Nat /\ (old # <<>> => old = slots[c])
  <2>1. <<>> \in Seq(Result) /\ Len(<<>>) = 0
    OBVIOUS
  <2> QED
    BY <1>4, <2>1
<1> HIDE DEF old
<1>6. u \in Seq(Result) /\ Len(u) \in Nat /\ Len(u) >= N /\ DOMAIN u = 1..Len(u)
  <2>1. CASE Len(old) < N
    <3>1. u = [n \in 1..N |-> NoResult]
      BY <1>3, <2>1
    <3> QED
      BY <1>2, <3>1, EmptiedType, IsASeq
  <2>2. CASE ~(Len(old) < N)
    BY <1>2, <1>5, <2>2
  <2> QED
    BY <2>1, <2>2
<1>7. \/ DOMAIN u \subseteq DOMAIN slots[c] /\ \A x \in DOMAIN u : u[x] = slots[c][x]
      \/ \A x \in DOMAIN u : u[x] = NoResult
  <2>1. CASE Len(old) < N
    BY <2>1
  <2>2. CASE ~(Len(old) < N) /\ old # <<>>
    BY <1>5, <2>2
  <2>3. CASE ~(Len(old) < N) /\ old = <<>>
    <3>1. u = <<>>
      BY <2>3
    <3> QED
      BY <3>1
  <2> QED
    BY <2>1, <2>2, <2>3
<1> HIDE DEF u
<1>8. slots' \in [Rankings -> Seq(Result)] /\ slots'[c] = u /\ \A d \in Rankings : d # c => slots'[d] = slots[d]
  BY <1>1, <1>3, <1>6
<1>9. InMemory(heap, slots', current)
  <2>1. /\ Fillable(heap, current)
        /\ \A d \in Rankings : \A y \in DOMAIN slots[d] : Fillable(heap, slots[d][y]) /\ Foreign(slots[d][y], current)
        /\ \A d, e \in Rankings : \A y \in DOMAIN slots[d], z \in DOMAIN slots[e] :
              d # e \/ y # z => Foreign(slots[d][y], slots[e][z])
    BY <1>3 DEF InMemory
  <2>2. \A s : Fillable(heap, NoResult) /\ Foreign(NoResult, s) /\ Foreign(s, NoResult)
    <3>1. NoResult.reasons = NoSlice /\ NoResult.actions = NoSlice
      BY DEF NoResult
    <3> QED
      BY <1>3, <3>1, NoMemory
  <2>3. \A d \in Rankings : \A y \in DOMAIN slots'[d] : slots'[d][y] = NoResult \/ (y \in DOMAIN slots[d] /\ slots'[d][y] = slots[d][y])
    BY <1>7, <1>8
  <2>4. \A d \in Rankings : \A y \in DOMAIN slots'[d] : Fillable(heap, slots'[d][y]) /\ Foreign(slots'[d][y], current)
    BY <2>1, <2>2, <2>3
  <2>5. \A d, e \in Rankings : \A y \in DOMAIN slots'[d], z \in DOMAIN slots'[e] :
              d # e \/ y # z => Foreign(slots'[d][y], slots'[e][z])
    <3> SUFFICES ASSUME NEW d \in Rankings, NEW e \in Rankings, NEW y \in DOMAIN slots'[d], NEW z \in DOMAIN slots'[e],
                        d # e \/ y # z
                 PROVE  Foreign(slots'[d][y], slots'[e][z])
      OBVIOUS
    <3>1. CASE slots'[d][y] = NoResult \/ slots'[e][z] = NoResult
      BY <2>2, <3>1
    <3>2. CASE slots'[d][y] # NoResult /\ slots'[e][z] # NoResult
      BY <2>1, <2>3, <3>2
    <3> QED
      BY <3>1, <3>2
  <2> QED
    BY <2>1, <2>4, <2>5 DEF InMemory
<1>10. AskedRight' /\ FilledRight'
  BY <1>1, <1>3, <1>8, <1>9 DEF AskedRight, FilledRight, Names, Rankings
<1>11. AnswersType'
  BY <1>1 DEF RankerInv, AnswersType
<1>12. CallRight'
  <2>1. Taken(heap, ranker, request, u, 1)
    BY <1>2, <1>6 DEF Taken
  <2>2. 1 <= Len(request) + 1
    BY <1>2
  <2> QED
    BY <1>1, <1>2, <1>8, <2>1, <2>2 DEF CallRight
<1>13. FinishedRight'
  BY <1>1, <1>8 DEF RankerInv, FinishedRight
<1>14. ChainRight'
  BY <1>1, <1>8 DEF RankerInv, ChainRight, Rankings
<1> QED
  BY <1>10, <1>11, <1>12, <1>13, <1>14 DEF RankerInv

\* RankInto takes a candidate.
LEMMA RankOneRight ==
  ASSUME RankerInv, RankOne
  PROVE  RankerInv'
<1> DEFINE N == Len(request)
<1>1. call \in Rankings /\ k \in 1..N /\ k <= Len(request) /\ sorting = "idle" /\ N \in Nat
  BY SortsOnlyRankings DEF RankOne, Rankings
<1>2. AskedRight /\ FilledRight /\ Taken(heap, ranker, request, slots[call], k) /\ ~answers[call].done
  BY <1>1 DEF RankerInv, CallRight, Rankings
<1>3. /\ k \in DOMAIN slots[call] /\ DOMAIN slots[call] = 1..Len(slots[call]) /\ Len(slots[call]) \in Nat
      /\ Len(slots[call]) >= N
  BY <1>1, <1>2, SlotsAre DEF Taken
<1> DEFINE into == rankCandidateInto(heap, slots[call][k], request[k], Found(ranker, request[k]))
<1>4. Evaluation = Found(ranker, request[k])
  <2>1. call \in {"Rank", "SelectFallbacks", "SelectBest"}
    BY <1>1 DEF Rankings
  <2> QED
    BY <2>1, EvaluationIs
<1>5. /\ Take(Evaluation) /\ heap' = into.heap /\ slots' = [slots EXCEPT ![call][k] = into.result]
      /\ current' = current /\ best' = best
  <2>1. Take(Evaluation) /\ current' = current /\ best' = best
    BY DEF RankOne
  <2>2. \E v \in {rankCandidateInto(heap, Slot, Candidate, Evaluation)} :
          heap' = v.heap /\ slots' = [slots EXCEPT ![call][k] = v.result]
    BY DEF RankOne
  <2>3. rankCandidateInto(heap, Slot, Candidate, Evaluation) = into
    BY <1>4 DEF Candidate, Slot
  <2> HIDE DEF into
  <2> QED
    BY <2>1, <2>2, <2>3
<1>6. /\ k' = k + 1 /\ request' = request /\ ranker' = ranker /\ call' = call
      /\ answers' = answers /\ sorting' = sorting
  BY <1>5 DEF Take, asking, sort
<1>7. /\ into.heap \in Heaps /\ slots' \in [Rankings -> Seq(Result)]
      /\ InMemory(into.heap, slots', current)
      /\ Owned(into.heap, ranker, request, into.result, k)
      /\ \A d \in Rankings : \A y \in DOMAIN slots[d] :
            d # call \/ y # k => \A m : Owned(heap, ranker, request, slots[d][y], m)
                                       => Owned(into.heap, ranker, request, slots[d][y], m)
  <2>1. into = rankCandidateInto(heap, slots[call][k], request[k], Found(ranker, request[k]))
    OBVIOUS
  <2>2. call \in Rankings /\ k \in DOMAIN slots[call] /\ k \in 1..Len(request) /\ AskedRight /\ FilledRight
    BY <1>1, <1>2, <1>3
  <2>3. slots' = [slots EXCEPT ![call][k] = into.result]
    BY <1>5
  <2> HIDE DEF into
  <2> QED
    BY <2>1, <2>2, <2>3, FillSlot
<1>8. /\ \A d \in Rankings : d # call => slots'[d] = slots[d]
      /\ Len(slots'[call]) = Len(slots[call])
      /\ slots'[call][k] = into.result
      /\ \A y \in DOMAIN slots[call] : y # k => slots'[call][y] = slots[call][y]
  <2>1. slots \in [Rankings -> Seq(Result)]
    BY <1>2 DEF FilledRight
  <2>2. into.result \in Result
    <3>1. slots[call][k] \in Result /\ Fillable(heap, slots[call][k]) /\ heap \in Heaps
      BY <1>1, <1>2, <1>3, SlotsAre DEF FilledRight, InMemory
    <3> QED
      BY <1>1, <1>2, <3>1, FilledIs
  <2> HIDE DEF into
  <2> QED
    BY <1>1, <1>3, <1>5, <2>1, <2>2, PutResult
<1> HIDE DEF into
<1>9. AskedRight'
  BY <1>1, <1>2, <1>6 DEF AskedRight
<1>10. FilledRight'
  BY <1>2, <1>5, <1>7 DEF FilledRight
<1>11. AnswersType'
  BY <1>6 DEF RankerInv, AnswersType
<1>12. CallRight'
  <2>1. ASSUME NEW x \in 1..N, x < k + 1
        PROVE  Owned(into.heap, ranker, request, slots'[call][x], x)
    <3>1. CASE x = k
      BY <1>7, <1>8, <3>1
    <3>2. CASE x # k
      <4>1. x < k /\ x \in DOMAIN slots[call]
        BY <1>1, <1>3, <2>1, <3>2
      <4>2. Owned(heap, ranker, request, slots[call][x], x)
        BY <1>2, <4>1 DEF Taken
      <4> QED
        BY <1>1, <1>7, <1>8, <3>2, <4>1, <4>2
    <3> QED
      BY <3>1, <3>2
  <2>2. Taken(into.heap, ranker, request, slots'[call], k + 1)
    BY <1>3, <1>8, <2>1 DEF Taken
  <2>3. k + 1 <= Len(request) + 1
    BY <1>1
  <2> QED
    BY <1>1, <1>2, <1>5, <1>6, <2>2, <2>3 DEF CallRight
<1>13. FinishedRight'
  <2> SUFFICES ASSUME NEW c \in Rankings, answers[c].done, ~answers[c].error
               PROVE  Finished(into.heap, ranker, request, slots'[c])
    BY <1>5, <1>6 DEF FinishedRight
  <2>1. c # call /\ slots'[c] = slots[c]
    BY <1>2, <1>8
  <2>2. Finished(heap, ranker, request, slots[c])
    BY DEF RankerInv, FinishedRight
  <2>3. DOMAIN slots[c] = 1..Len(slots[c]) /\ Len(slots[c]) \in Nat
    BY <1>2, SlotsAre
  <2>4. \A x \in DOMAIN slots[c] : \A m : Owned(heap, ranker, request, slots[c][x], m) => Owned(into.heap, ranker, request, slots[c][x], m)
    BY <1>7, <2>1
  <2> QED
    BY <1>1, <2>1, <2>2, <2>3, <2>4, FinishedKeeps
<1>14. ChainRight'
  <2>1. CASE call = "SelectFallbacks"
    BY <1>2, <1>6, <2>1 DEF ChainRight
  <2>2. CASE call # "SelectFallbacks"
    BY <1>6, <1>8, <2>2 DEF RankerInv, ChainRight, Rankings
  <2> QED
    BY <2>1, <2>2
<1> QED
  BY <1>9, <1>10, <1>11, <1>12, <1>13, <1>14 DEF RankerInv

\* All candidates are evaluated, and the sort begins.
LEMMA SortCandidatesRight ==
  ASSUME RankerInv, SortCandidates
  PROVE  RankerInv'
<1> DEFINE N == Len(request)
           s == SubSeq(slots[call], 1, N)
<1>1. call \in Rankings /\ k = N + 1 /\ N \in Nat /\ sorting = "idle"
  <2>1. call \in Rankings /\ k > N /\ call # "none" /\ sorting = "idle"
    BY DEF SortCandidates, AllTaken, Rankings
  <2>2. k <= N + 1 /\ k \in Nat /\ N \in Nat
    BY <2>1, SortsOnlyRankings DEF RankerInv, CallRight
  <2> QED
    BY <2>1, <2>2
<1>2. AskedRight /\ FilledRight /\ Taken(heap, ranker, request, slots[call], k) /\ ~answers[call].done
  BY <1>1 DEF RankerInv, CallRight, Rankings
<1>3. /\ request' = request /\ ranker' = ranker /\ call' = call /\ k' = k /\ heap' = heap /\ slots' = slots
      /\ current' = current /\ best' = best /\ answers' = answers
      /\ items' = s /\ lo' = 1 /\ hi' = Len(s) /\ todo' = <<>> /\ i' = 0 /\ j' = 0 /\ pivot' = {} /\ sorting' = "range"
  BY DEF SortCandidates, Sort!Start, asking
<1>4. slots[call] \in Seq(Result) /\ Len(slots[call]) \in Nat /\ Len(slots[call]) >= N
      /\ \A x \in 1..N : slots[call][x] \in Result
  BY <1>1, <1>2, SlotsAre DEF Taken
<1>5. Len(s) = N /\ DOMAIN s = 1..N /\ s \in Seq(Result) /\ \A x \in 1..N : s[x] = slots[call][x]
  BY <1>1, <1>4, SubSeqProperties
<1> HIDE DEF s
<1>6. s = Filled(request, slots[call])
  BY <1>5 DEF Filled
<1>7. \A x \in 1..N : s[x] \in Tellers(ranker, request)
  <2> SUFFICES ASSUME NEW x \in 1..N
               PROVE  s[x] \in Tellers(ranker, request)
    OBVIOUS
  <2>1. Owned(heap, ranker, request, slots[call][x], x)
    BY <1>1, <1>2 DEF Taken
  <2>2. x \in DOMAIN request
    BY <1>2, CandidateIs
  <2> QED
    BY <1>4, <1>5, <2>1, <2>2 DEF Tellers, Owned
<1>8. s \in [1..N -> Tellers(ranker, request)]
  BY <1>5, <1>6, <1>7 DEF Filled
<1>9. PartsApart(N, "range", 1, N, <<>>)
  BY <1>1 DEF PartsApart
<1>10. OrderedUnlessOpen(request, s, "range", 1, N, <<>>)
  BY DEF OrderedUnlessOpen, Open
<1>11. Within(s, s, 1, N)
  BY WithinSelf
<1>12. SortGood(ranker, request, slots[call], s, "range", 1, N, 0, 0, {}, <<>>)
  <2>1. <<>> \in Seq(Part)
    OBVIOUS
  <2> QED
    BY <1>1, <1>6, <1>8, <1>9, <1>10, <1>11, <2>1 DEF SortGood
<1>13. CallRight'
  BY <1>1, <1>2, <1>3, <1>5, <1>12 DEF CallRight
<1>14. AskedRight' /\ FilledRight'
  BY <1>2, <1>3 DEF AskedRight, FilledRight
<1>15. AnswersType' /\ FinishedRight' /\ ChainRight'
  BY <1>3 DEF RankerInv, AnswersType, FinishedRight, ChainRight
<1> QED
  BY <1>13, <1>14, <1>15 DEF RankerInv

\* A step of the sort moves results, and no memory.
LEMMA SortStepRight ==
  ASSUME RankerInv, SortStep
  PROVE  RankerInv'
<1>1. /\ request' = request /\ ranker' = ranker /\ call' = call /\ k' = k /\ heap' = heap /\ slots' = slots
      /\ current' = current /\ best' = best /\ answers' = answers
  BY DEF SortStep, asking
<1>2. Sort!Step
  BY DEF SortStep
<1>3. sorting # "idle"
  BY <1>2 DEF Sort!Step, Sort!Insertion, Sort!Partition, Sort!ScanUp, Sort!ScanDown, Sort!Exchange, Sort!Split
<1>4. request \in Requests \cup {<<>>} /\ SortGoodNow
  BY <1>3 DEF RankerInv, AskedRight, CallRight, SortGoodNow
<1>5. SortGoodNext
  BY <1>2, <1>4, StepGood
<1>6. CallRight'
  BY <1>1, <1>3, <1>5 DEF RankerInv, CallRight, SortGoodNext
<1>7. AskedRight' /\ FilledRight' /\ AnswersType' /\ FinishedRight' /\ ChainRight'
  BY <1>1 DEF RankerInv, AskedRight, FilledRight, AnswersType, FinishedRight, ChainRight
<1> QED
  BY <1>6, <1>7 DEF RankerInv

\* Slots that hold the results of others, each of another one, share no more than those.
LEMMA MovedSlots ==
  ASSUME NEW h, NEW cur, NEW sl, InMemory(h, sl, cur), NEW c \in Rankings,
         NEW new, \A d \in Rankings : d # c => new[d] = sl[d],
         \A x \in DOMAIN new[c] : \E y \in DOMAIN sl[c] : new[c][x] = sl[c][y],
         \A x, z \in DOMAIN new[c] : x # z =>
            \E y, w \in DOMAIN sl[c] : y # w /\ new[c][x] = sl[c][y] /\ new[c][z] = sl[c][w]
  PROVE  InMemory(h, new, cur)
<1>1. /\ Fillable(h, cur)
      /\ \A d \in Rankings : \A y \in DOMAIN sl[d] : Fillable(h, sl[d][y]) /\ Foreign(sl[d][y], cur)
      /\ \A d, e \in Rankings : \A y \in DOMAIN sl[d], z \in DOMAIN sl[e] :
            d # e \/ y # z => Foreign(sl[d][y], sl[e][z])
  BY DEF InMemory
<1>2. \A d \in Rankings : \A x \in DOMAIN new[d] : \E y \in DOMAIN sl[d] : new[d][x] = sl[d][y]
  OBVIOUS
<1>3. \A d \in Rankings : \A y \in DOMAIN new[d] : Fillable(h, new[d][y]) /\ Foreign(new[d][y], cur)
  BY <1>1, <1>2
<1>4. ASSUME NEW d \in Rankings, NEW e \in Rankings, NEW x \in DOMAIN new[d], NEW z \in DOMAIN new[e],
             d # e \/ x # z
      PROVE  Foreign(new[d][x], new[e][z])
  <2>1. CASE d = e /\ d = c
    <3>1. PICK y \in DOMAIN sl[c], w \in DOMAIN sl[c] : y # w /\ new[c][x] = sl[c][y] /\ new[c][z] = sl[c][w]
      BY <1>4, <2>1
    <3> QED
      BY <1>1, <2>1, <3>1
  <2>2. CASE d = e /\ d # c
    BY <1>1, <1>4, <2>2
  <2>3. CASE d # e
    <3>1. PICK y \in DOMAIN sl[d] : new[d][x] = sl[d][y]
      BY <1>2
    <3>2. PICK w \in DOMAIN sl[e] : new[e][z] = sl[e][w]
      BY <1>2
    <3> QED
      BY <1>1, <2>3, <3>1, <3>2
  <2> QED
    BY <2>1, <2>2, <2>3
<1> QED
  BY <1>1, <1>3, <1>4 DEF InMemory

\* What RankInto answers with.
LEMMA WinnerIs ==
  /\ Replied(WinnerOf) /\ WinnerOf.done /\ ~WinnerOf.error
  /\ WinnerOf.id # 0 => HasWinner /\ WinnerOf.id = items[1].id
  BY AnswerFields DEF WinnerOf

Told(limit, rest) == [WinnerOf EXCEPT !.limit = limit, !.rest = rest]

\* What an answer with fallbacks holds.
LEMMA ToldIs ==
  ASSUME NEW limit, NEW rest, NEW a, a = Told(limit, rest)
  PROVE  /\ a.limit = limit /\ a.rest = rest /\ a.id = WinnerOf.id /\ a.done = WinnerOf.done /\ a.error = WinnerOf.error
         /\ a.score = WinnerOf.score /\ Replied(a) /\ a.done /\ ~a.error
<1>1. DOMAIN WinnerOf = {"done", "error", "id", "score", "limit", "rest"}
  <2>1. DOMAIN NoAnswer = {"done", "error", "id", "score", "limit", "rest"}
    BY DEF NoAnswer
  <2>2. \A r : DOMAIN Answer(r) = DOMAIN NoAnswer
    BY DEF Answer
  <2> QED
    BY <2>1, <2>2 DEF WinnerOf, Nothing
<1>2. WinnerOf.done \in BOOLEAN /\ WinnerOf.error \in BOOLEAN /\ WinnerOf.done = TRUE /\ WinnerOf.error = FALSE
  BY WinnerIs DEF Replied
<1>3. /\ a.limit = limit /\ a.rest = rest /\ a.id = WinnerOf.id /\ a.done = WinnerOf.done /\ a.error = WinnerOf.error
      /\ a.score = WinnerOf.score
  BY <1>1 DEF Told
<1>4. a.done = TRUE /\ a.error = FALSE
  BY <1>2, <1>3
<1> QED
  BY <1>3, <1>4 DEF Replied

\* RankInto returns: the results are those that were sorted, and behind them nothing has moved.
LEMMA ReturnedSlots ==
  ASSUME RankerInv, RankIntoReturns
  PROVE  /\ call \in Rankings /\ slots' \in [Rankings -> Seq(Result)] /\ slots'[call] \in Seq(Result)
         /\ Len(slots'[call]) = Len(slots[call]) /\ DOMAIN slots'[call] = 1..Len(slots[call])
         /\ items \in Seq(Result) /\ Len(items) = Len(request)
         /\ \A x \in 1..Len(request) : slots'[call][x] = items[x]
         /\ \A x \in Len(request) + 1 .. Len(slots[call]) : slots'[call][x] = slots[call][x]
         /\ \A d \in Rankings : d # call => slots'[d] = slots[d]
<1> DEFINE N == Len(request)
           s == slots[call]
           u == items \o SubSeq(s, Len(items) + 1, Len(s))
<1>1. sorting = "done" /\ sorting' = "idle" /\ slots' = [slots EXCEPT ![call] = u]
  BY DEF RankIntoReturns, Sort!Finish
<1>2. /\ call \in Rankings /\ k = N + 1 /\ N \in Nat /\ call # "none" /\ call \in Names
      /\ SortGood(ranker, request, s, items, "done", lo, hi, i, j, pivot, todo)
  BY <1>1, SortsOnlyRankings DEF RankerInv, CallRight, Rankings, Names
<1>3. AskedRight /\ FilledRight /\ Taken(heap, ranker, request, s, N + 1) /\ ~answers[call].done /\ AnswersType
  BY <1>2 DEF RankerInv, CallRight
<1>4. /\ items \in [1..N -> Tellers(ranker, request)] /\ Within(Filled(request, s), items, 1, N)
      /\ todo = <<>> /\ OrderedUnlessOpen(request, items, "done", lo, hi, todo)
  <2>1. PartsApart(N, "done", lo, hi, todo)
    BY <1>2 DEF SortGood
  <2>2. todo = <<>>
    BY <2>1 DEF PartsApart
  <2> QED
    BY <1>2, <2>2 DEF SortGood
<1>5. /\ s \in Seq(Result) /\ Len(s) \in Nat /\ DOMAIN s = 1..Len(s) /\ N <= Len(s)
      /\ \A x \in 1..N : Owned(heap, ranker, request, s[x], x)
  <2>1. s \in Seq(Result) /\ Len(s) \in Nat /\ DOMAIN s = 1..Len(s)
    BY <1>2, <1>3, SlotsAre
  <2> QED
    BY <1>2, <1>3, <2>1 DEF Taken
<1>6. items \in [1..N -> Result] /\ items \in Seq(Result) /\ Len(items) = N /\ DOMAIN items = 1..N
  <2>1. Tellers(ranker, request) \subseteq Result
    BY DEF Tellers
  <2>2. items \in [1..N -> Result]
    BY <1>4, <2>1
  <2> QED
    BY <1>2, <2>2, IsASeq
<1> HIDE DEF N, s
<1>7. /\ u \in Seq(Result) /\ Len(u) = Len(s) /\ DOMAIN u = 1..Len(s)
      /\ \A x \in 1..N : u[x] = items[x]
      /\ \A x \in N + 1 .. Len(s) : u[x] = s[x]
  <2> DEFINE rest == SubSeq(s, N + 1, Len(s))
  <2>0. N \in Nat
    BY <1>2 DEF N
  <2>1. /\ rest \in Seq(Result) /\ Len(rest) = Len(s) - N
        /\ \A x \in 1 .. Len(s) - N : rest[x] = s[N + x]
    <3>1. N + 1 \in Int /\ Len(s) \in Int /\ \A x \in N + 1 .. Len(s) : s[x] \in Result
      BY <1>5, <2>0, ElementOfSeq
    <3>2. /\ rest \in Seq(Result) /\ Len(rest) = IF N + 1 <= Len(s) THEN Len(s) - (N + 1) + 1 ELSE 0
          /\ \A x \in 1 .. Len(s) - (N + 1) + 1 : rest[x] = s[N + 1 + x - 1]
      BY <3>1, SubSeqProperties
    <3> HIDE DEF rest
    <3>3. Len(s) \in Nat /\ Len(s) >= N
      BY <1>5
    <3>4. Len(rest) = Len(s) - N
      BY <2>0, <3>2, <3>3
    <3>5. ASSUME NEW x \in 1 .. Len(s) - N
          PROVE  rest[x] = s[N + x]
      <4>1. x \in 1 .. Len(s) - (N + 1) + 1 /\ N + 1 + x - 1 = N + x
        BY <2>0, <3>3
      <4> QED
        BY <3>2, <4>1
    <3> QED
      BY <3>2, <3>4, <3>5
  <2>2. u = items \o rest
    BY <1>6
  <2> HIDE DEF rest, u
  <2>3. /\ u \in Seq(Result) /\ Len(u) = Len(items) + Len(rest)
        /\ \A x \in 1 .. Len(items) + Len(rest) : u[x] = IF x <= Len(items) THEN items[x] ELSE rest[x - Len(items)]
    BY <1>6, <2>1, <2>2, ConcatProperties
  <2>4. Len(u) = Len(s)
    BY <1>5, <1>6, <2>0, <2>1, <2>3
  <2>5. \A x \in 1..N : u[x] = items[x]
    BY <1>5, <1>6, <2>0, <2>1, <2>3
  <2>6. \A x \in N + 1 .. Len(s) : u[x] = s[x]
    <3> SUFFICES ASSUME NEW x \in N + 1 .. Len(s)
                 PROVE  u[x] = s[x]
      OBVIOUS
    <3>1. x - N \in 1 .. Len(s) - N /\ N + (x - N) = x
      BY <1>5, <2>0
    <3>2. u[x] = rest[x - N]
      BY <1>5, <1>6, <2>0, <2>1, <2>3
    <3> QED
      BY <2>1, <3>1, <3>2
  <2>7. DOMAIN u = 1..Len(s)
    BY <2>3, <2>4
  <2> QED
    BY <2>3, <2>4, <2>5, <2>6, <2>7
<1> HIDE DEF u
<1>8. slots' \in [Rankings -> Seq(Result)] /\ slots'[call] = u /\ \A d \in Rankings : d # call => slots'[d] = slots[d]
  BY <1>1, <1>2, <1>3, <1>7 DEF FilledRight
<1> QED
  BY <1>2, <1>6, <1>7, <1>8 DEF N, s

\* RankInto answers: results that were moved have taken their memory with them.
LEMMA RankIntoReturnsRight ==
  ASSUME RankerInv, RankIntoReturns
  PROVE  RankerInv'
<1> DEFINE N == Len(request)
           s == slots[call]
           u == slots'[call]
<1>1. sorting = "done" /\ sorting' = "idle"
  BY DEF RankIntoReturns, Sort!Finish
<1>2. /\ call \in Rankings /\ k = N + 1 /\ N \in Nat /\ call # "none" /\ call \in Names
      /\ SortGood(ranker, request, s, items, "done", lo, hi, i, j, pivot, todo)
  BY <1>1, SortsOnlyRankings DEF RankerInv, CallRight, Rankings, Names
<1>3. AskedRight /\ FilledRight /\ Taken(heap, ranker, request, s, N + 1) /\ ~answers[call].done /\ AnswersType
  BY <1>2 DEF RankerInv, CallRight
<1>4. PICK a : /\ Replied(a) /\ a.done /\ ~a.error /\ Return(a)
               /\ call = "SelectFallbacks" /\ a.id # 0 =>
                    HasWinner /\ a.id = items[1].id /\ a.limit \in Int /\ a.rest = Fallbacks(a.limit)
  <2>1. CASE call = "Rank"
    <3>1. Return(WinnerOf)
      BY <2>1 DEF RankIntoReturns
    <3> QED
      BY <2>1, <3>1, WinnerIs
  <2>2. CASE call # "Rank"
    <3>1. PICK limit \in Limits : Return([WinnerOf EXCEPT !.limit = limit, !.rest = Fallbacks(limit)])
      BY <2>2 DEF RankIntoReturns
    <3> DEFINE a == Told(limit, Fallbacks(limit))
    <3>3. limit \in Int
      BY RequestsAssumption
    <3>4. Return(a)
      BY <3>1 DEF Told
    <3>6. a = Told(limit, Fallbacks(limit))
      OBVIOUS
    <3> HIDE DEF a
    <3>2. /\ a.limit = limit /\ a.rest = Fallbacks(limit) /\ a.id = WinnerOf.id
          /\ Replied(a) /\ a.done /\ ~a.error
      BY <3>6, ToldIs
    <3>5. Replied(a) /\ a.done /\ ~a.error /\ (a.id # 0 => HasWinner /\ a.id = items[1].id)
      BY <3>2, WinnerIs DEF Replied
    <3>7. call = "SelectFallbacks" /\ a.id # 0 => HasWinner /\ a.id = items[1].id /\ a.limit \in Int /\ a.rest = Fallbacks(a.limit)
      BY <3>2, <3>3, <3>5
    <3>8. Replied(a) /\ a.done /\ ~a.error /\ Return(a)
      BY <3>4, <3>5
    <3> QED
      BY <3>7, <3>8
  <2> QED
    BY <2>1, <2>2
<1>5. /\ answers' = [answers EXCEPT ![call] = a] /\ call' = "none"
      /\ request' = request /\ ranker' = ranker /\ k' = k /\ heap' = heap
      /\ current' = current /\ best' = best
  BY <1>4 DEF Return, asking
<1>6. /\ AnswersType' /\ answers'[call] = a
      /\ \A c \in Names : c # call => answers'[c] = answers[c]
  BY <1>2, <1>3, <1>4, <1>5, Answering
<1>7. /\ items \in [1..N -> Tellers(ranker, request)] /\ Within(Filled(request, s), items, 1, N)
      /\ todo = <<>> /\ OrderedUnlessOpen(request, items, "done", lo, hi, todo)
  <2>1. PartsApart(N, "done", lo, hi, todo)
    BY <1>2 DEF SortGood
  <2>2. todo = <<>>
    BY <2>1 DEF PartsApart
  <2> QED
    BY <1>2, <2>2 DEF SortGood
<1>8. InOrderUpTo(request, items, 1, N)
  BY <1>7 DEF OrderedUnlessOpen, Open, InOrderUpTo
<1>9. /\ s \in Seq(Result) /\ Len(s) \in Nat /\ DOMAIN s = 1..Len(s) /\ N <= Len(s)
      /\ \A x \in 1..N : Owned(heap, ranker, request, s[x], x)
  <2>1. s \in Seq(Result) /\ Len(s) \in Nat /\ DOMAIN s = 1..Len(s)
    BY <1>2, <1>3, SlotsAre
  <2> QED
    BY <1>2, <1>3, <2>1 DEF Taken
<1>10. items \in [1..N -> Result] /\ items \in Seq(Result) /\ Len(items) = N /\ DOMAIN items = 1..N
  <2>1. Tellers(ranker, request) \subseteq Result
    BY DEF Tellers
  <2>2. items \in [1..N -> Result]
    BY <1>7, <2>1
  <2> QED
    BY <1>2, <2>2, IsASeq
<1> HIDE DEF N, s, u
<1>11. /\ u \in Seq(Result) /\ Len(u) = Len(s) /\ DOMAIN u = 1..Len(s)
       /\ \A x \in 1..N : u[x] = items[x]
       /\ \A x \in N + 1 .. Len(s) : u[x] = s[x]
  BY ReturnedSlots DEF N, s, u
<1>12. slots' \in [Rankings -> Seq(Result)] /\ slots'[call] = u /\ \A d \in Rankings : d # call => slots'[d] = slots[d]
  BY ReturnedSlots DEF u
<1>13. \A x \in 1..N : \E y \in 1..N : items[x] = s[y]
  BY <1>7 DEF Within, Filled, N
<1>14. \A y \in 1..N : \E x \in 1..N : items[x] = s[y]
  BY <1>7 DEF Within, Filled, N
<1>15. \A x \in 1..N : s[x].id = request[x].id
  BY <1>9 DEF Owned, Tells
<1>16. \A x, y \in 1..N : x # y => items[x] # items[y]
  <2>1. \A x, y \in 1..N : x # y => s[x] # s[y]
    BY <1>3, <1>15, IdsDiffer DEF N
  <2> QED
    BY <1>7, <1>10, <2>1 DEF Within, Filled, N
<1>17. InMemory(heap, slots', current)
  <2>0. N \in Nat
    BY <1>2 DEF N
  <2>1. InMemory(heap, slots, current)
    BY <1>3 DEF FilledRight
  <2>2. \A x \in 1..Len(s) : x \in 1..N \/ x \in N + 1 .. Len(s)
    BY <1>9, <2>0
  <2>3. \A x \in 1..N : x \in 1..Len(s)
    BY <1>9, <2>0
  <2>4. \A x \in DOMAIN u : \E y \in DOMAIN s : u[x] = s[y]
    BY <1>9, <1>11, <1>13, <2>2, <2>3
  <2>5. ASSUME NEW x \in DOMAIN u, NEW z \in DOMAIN u, x # z
        PROVE  \E y, w \in DOMAIN s : y # w /\ u[x] = s[y] /\ u[z] = s[w]
    <3>1. CASE x \in 1..N /\ z \in 1..N
      <4>1. PICK y \in 1..N : items[x] = s[y]
        BY <1>13, <3>1
      <4>2. PICK w \in 1..N : items[z] = s[w]
        BY <1>13, <3>1
      <4>3. y # w
        BY <1>16, <2>5, <3>1, <4>1, <4>2
      <4> QED
        BY <1>9, <1>11, <2>3, <3>1, <4>1, <4>2, <4>3
    <3>2. CASE x \in 1..N /\ z \notin 1..N
      <4>1. PICK y \in 1..N : items[x] = s[y]
        BY <1>13, <3>2
      <4>2. z \in N + 1 .. Len(s) /\ u[z] = s[z] /\ y # z
        BY <1>11, <2>2, <3>2
      <4> QED
        BY <1>9, <1>11, <2>3, <3>2, <4>1, <4>2
    <3>3. CASE x \notin 1..N /\ z \in 1..N
      <4>1. PICK w \in 1..N : items[z] = s[w]
        BY <1>13, <3>3
      <4>2. x \in N + 1 .. Len(s) /\ u[x] = s[x] /\ w # x
        BY <1>11, <2>2, <3>3
      <4> QED
        BY <1>9, <1>11, <2>3, <3>3, <4>1, <4>2
    <3>4. CASE x \notin 1..N /\ z \notin 1..N
      BY <1>9, <1>11, <2>2, <2>5, <3>4
    <3> QED
      BY <3>1, <3>2, <3>3, <3>4
  <2>6. \A x \in DOMAIN slots'[call] : \E y \in DOMAIN slots[call] : slots'[call][x] = slots[call][y]
    BY <1>12, <2>4 DEF s
  <2>7. \A x, z \in DOMAIN slots'[call] : x # z =>
           \E y, w \in DOMAIN slots[call] : y # w /\ slots'[call][x] = slots[call][y] /\ slots'[call][z] = slots[call][w]
    BY <1>12, <2>5 DEF s
  <2> QED
    BY <1>2, <1>12, <2>1, <2>6, <2>7, MovedSlots
<1>18. Finished(heap, ranker, request, u)
  <2>1. \A x \in 1..N : \E y \in 1..N : Owned(heap, ranker, request, u[x], y)
    <3> SUFFICES ASSUME NEW x \in 1..N
                 PROVE  \E y \in 1..N : Owned(heap, ranker, request, u[x], y)
      OBVIOUS
    <3>1. PICK y \in 1..N : items[x] = s[y]
      BY <1>13
    <3> QED
      BY <1>9, <1>11, <3>1
  <2>2. \A n \in 1..N : \E x \in 1..N : u[x].id = request[n].id
    <3> SUFFICES ASSUME NEW n \in 1..N
                 PROVE  \E x \in 1..N : u[x].id = request[n].id
      OBVIOUS
    <3>1. PICK x \in 1..N : items[x] = s[n]
      BY <1>14
    <3> QED
      BY <1>11, <1>15, <3>1
  <2>3. InOrderUpTo(request, u, 1, N)
    BY <1>8, <1>11 DEF InOrderUpTo
  <2>4. Len(u) >= N
    BY <1>9, <1>11
  <2> QED
    BY <2>1, <2>2, <2>3, <2>4 DEF Finished, N
<1>19. AskedRight' /\ FilledRight'
  BY <1>3, <1>5, <1>12, <1>17 DEF AskedRight, FilledRight
<1>20. CallRight'
  BY <1>1, <1>5 DEF CallRight, Rankings
<1>21. FinishedRight'
  <2> SUFFICES ASSUME NEW c \in Rankings, answers'[c].done, ~answers'[c].error
               PROVE  Finished(heap, ranker, request, slots'[c])
    BY <1>5 DEF FinishedRight
  <2>1. CASE c = call
    BY <1>12, <1>18, <2>1
  <2>2. CASE c # call
    BY <1>6, <1>12, <2>2 DEF RankerInv, FinishedRight, Rankings, Names
  <2> QED
    BY <2>1, <2>2
<1>22. ChainRight'
  <2>1. CASE call # "SelectFallbacks"
    BY <1>5, <1>6, <1>12, <2>1 DEF RankerInv, ChainRight, Rankings, Names
  <2>2. CASE call = "SelectFallbacks" /\ a.id = 0
    BY <1>6, <2>2 DEF ChainRight
  <2>3. CASE call = "SelectFallbacks" /\ a.id # 0
    <3>1. HasWinner /\ a.id = items[1].id /\ a.limit \in Int /\ a.rest = Fallbacks(a.limit)
      BY <1>4, <2>3
    <3>2. \A x, y \in 1..N : x # y => items[x].id # items[y].id
      <4> SUFFICES ASSUME NEW x \in 1..N, NEW y \in 1..N, x # y
                   PROVE  items[x].id # items[y].id
        OBVIOUS
      <4>1. PICK v \in 1..N : items[x] = s[v]
        BY <1>13
      <4>2. PICK w \in 1..N : items[y] = s[w]
        BY <1>13
      <4>3. v # w
        BY <1>16, <4>1, <4>2
      <4>4. request[v].id # request[w].id
        BY <1>3, <4>3, IdsDiffer DEF N
      <4> QED
        BY <1>15, <4>1, <4>2, <4>4
    <3>3. N \in Nat
      BY <1>2 DEF N
    <3> DEFINE chain == <<items[1].id>> \o Fallbacks(a.limit)
               E == {x \in 1..N : items[x].eligible}
    <3>4. /\ Len(chain) = IF a.limit <= 0 THEN Cardinality(E) ELSE AtMost(a.limit + 1, Cardinality(E))
          /\ \A x \in DOMAIN chain : x \in 1..N /\ items[x].id = chain[x]
      BY <1>8, <1>10, <3>1, <3>2, <3>3, ChainFacts
    <3>5. DOMAIN request = 1..N
      BY <1>3, LengthOfRequest DEF AskedRight, N
    <3>6. {n \in DOMAIN request : u[n].eligible} = E
      BY <1>11, <3>5
    <3>7. <<a.id>> \o a.rest = chain
      BY <3>1
    <3> HIDE DEF chain, E
    <3>8. \A x \in DOMAIN chain : u[x].id = chain[x]
      BY <1>11, <3>4
    <3>9. Chained(request, u, a)
      BY <3>4, <3>6, <3>7, <3>8 DEF Chained
    <3>10. slots'["SelectFallbacks"] = u /\ answers'["SelectFallbacks"] = a
      BY <1>6, <1>12, <2>3
    <3> QED
      BY <1>5, <3>9, <3>10 DEF ChainRight
  <2> QED
    BY <2>1, <2>2, <2>3
<1> QED
  BY <1>6, <1>19, <1>20, <1>21, <1>22 DEF RankerInv

\* At first nothing is asked.
LEMMA InitRight ==
  ASSUME Init
  PROVE  RankerInv
<1>1. /\ ranker \in Rankers /\ request = <<>> /\ call = "none" /\ k = 1 /\ heap = <<>>
      /\ slots = [c \in Rankings |-> <<>>] /\ current = NoResult /\ best = NoResult
      /\ answers = [c \in Names |-> Nothing] /\ sorting = "idle"
  BY NamesAre DEF Init, Sort!Init, Rankings
<1>2. AskedRight
  BY <1>1 DEF AskedRight
<1>3. heap \in Heaps
  BY <1>1 DEF Heaps
<1>4. slots \in [Rankings -> Seq(Result)] /\ \A c \in Rankings : slots[c] = <<>>
  BY <1>1
<1>5. InMemory(heap, slots, current)
  <2>1. NoResult.reasons = NoSlice /\ NoResult.actions = NoSlice
    BY DEF NoResult
  <2>2. Fillable(heap, current)
    BY <1>1, <1>3, <2>1, NoMemory
  <2>3. \A c \in Rankings : DOMAIN slots[c] = {}
    BY <1>4
  <2> QED
    BY <2>2, <2>3 DEF InMemory
<1>6. FilledRight
  BY <1>1, <1>3, <1>4, <1>5, EmptiedType DEF FilledRight
<1>7. AnswersType
  BY <1>1, AnswerFields DEF AnswersType
<1>8. CallRight
  BY <1>1 DEF CallRight, Rankings
<1>9. FinishedRight
  <2>1. Len(request) = 0 /\ \A c \in Rankings : Len(slots[c]) = 0
    BY <1>1, <1>4
  <2> QED
    BY <2>1 DEF FinishedRight, Finished, InOrderUpTo
<1>10. ChainRight
  BY <1>1, AnswerFields DEF ChainRight, Names
<1> QED
  BY <1>2, <1>6, <1>7, <1>8, <1>9, <1>10 DEF RankerInv

\* A new request: what was filled stays for its memory.
LEMMA AskRight ==
  ASSUME RankerInv, Ask
  PROVE  RankerInv'
<1>1. /\ call = "none" /\ request' \in Requests /\ answers' = [c \in Names |-> NoAnswer]
      /\ ranker' = ranker /\ call' = call /\ k' = k /\ heap' = heap /\ slots' = slots
      /\ current' = current /\ best' = best /\ sorting' = sorting
  BY NamesAre DEF Ask, sort
<1>2. sorting = "idle"
  <2>1. call \notin Rankings
    BY <1>1 DEF Rankings
  <2> QED
    BY <2>1, SortsOnlyRankings
<1>3. \A c \in Names : answers'[c] = NoAnswer
  BY <1>1
<1>4. AskedRight' /\ FilledRight'
  BY <1>1 DEF RankerInv, AskedRight, FilledRight
<1>5. AnswersType'
  BY <1>1, <1>3, AnswerFields DEF AnswersType
<1>6. CallRight'
  BY <1>1, <1>2 DEF CallRight, Rankings
<1>7. FinishedRight' /\ ChainRight'
  BY <1>3, AnswerFields DEF FinishedRight, ChainRight, Names, Rankings
<1> QED
  BY <1>4, <1>5, <1>6, <1>7 DEF RankerInv

\* No step leaves the invariant.
LEMMA StepRight ==
  ASSUME RankerInv, [Next]_vars
  PROVE  RankerInv'
<1>1. CASE Ask
  BY <1>1, AskRight
<1>2. CASE CandidateFails
  BY <1>2, FailsRight
<1>3. CASE CallRankInto("Rank") \/ CallRankInto("SelectFallbacks")
  BY <1>3, CallRankIntoRight DEF Rankings
<1>4. CASE RankOne
  BY <1>4, RankOneRight
<1>5. CASE SortCandidates
  BY <1>5, SortCandidatesRight
<1>6. CASE SortStep
  BY <1>6, SortStepRight
<1>7. CASE RankIntoReturns
  BY <1>7, RankIntoReturnsRight
<1>8. CASE CallSelectBest
  BY <1>8, CallSelectBestRight
<1>9. CASE ConsiderBest
  BY <1>9, ConsiderBestRight
<1>10. CASE SelectBestReturns \/ SelectBestIDReturns \/ SelectWeightedIDReturns
  BY <1>10, OtherReturnsRight
<1>11. CASE CallSelectID("SelectBestID") \/ CallSelectID("SelectWeightedID")
  BY <1>11, CallSelectIDRight
<1>12. CASE KeepBest \/ KeepTop
  BY <1>12, KeepRight
<1>13. CASE UNCHANGED vars
  <2>1. /\ ranker' = ranker /\ request' = request /\ call' = call /\ k' = k /\ heap' = heap /\ slots' = slots
        /\ current' = current /\ best' = best /\ answers' = answers
        /\ items' = items /\ sorting' = sorting /\ lo' = lo /\ hi' = hi /\ i' = i /\ j' = j /\ pivot' = pivot /\ todo' = todo
    BY <1>13 DEF vars, asking, sort
  <2>2. AskedRight' /\ FilledRight' /\ AnswersType' /\ FinishedRight' /\ ChainRight'
    BY <2>1 DEF RankerInv, AskedRight, FilledRight, AnswersType, FinishedRight, ChainRight
  <2>3. CallRight'
    BY <2>1 DEF RankerInv, CallRight
  <2> QED
    BY <2>2, <2>3 DEF RankerInv
<1> QED
  BY <1>1, <1>2, <1>3, <1>4, <1>5, <1>6, <1>7, <1>8, <1>9, <1>10, <1>11, <1>12, <1>13 DEF Next

\* What is right of the ranker in every state is so always: RankerInv is inductive.
THEOREM RankerInvariance == Spec => []RankerInv
<1>1. Init => RankerInv
  BY InitRight
<1>2. RankerInv /\ [Next]_vars => RankerInv'
  BY StepRight
<1> QED
  BY <1>1, <1>2, PTL DEF Spec

-----------------------------------------------------------------------------
\* The ranking.
LEMMA HeldIs ==
  ASSUME AskedRight, NEW r, NEW n \in 1..Len(request), Owned(heap, ranker, request, r, n)
  PROVE  HoldsItsOwn(r) /\ r.id = request[n].id
<1> DEFINE c == request[n]
           e == Evaluated(c, Natively)
<1>1. e = Found(ranker, c)
  BY DEF Evaluated, Natively, Found
<1>2. r.id = c.id /\ Read(heap, r.reasons) = e.reasons /\ Read(heap, r.actions) = FlattenSeq(e.actions)
  BY <1>1 DEF Owned, Tells, Explains
<1>3. c \in {x \in ToSet(request) : x.id = r.id}
  BY <1>2, CandidateIs DEF ToSet
<1> QED
  BY <1>2, <1>3 DEF HoldsItsOwn

\* What Rank and SelectFallbacks answer, from the invariant.
LEMMA RankedRight ==
  ASSUME RankerInv, NEW c \in Rankings, answers[c].done, ~answers[c].error
  PROVE  LET ranked == SubSeq(slots[c], 1, Len(request))
         IN  /\ {ranked[n].id : n \in DOMAIN ranked} = {request[n].id : n \in DOMAIN request}
             /\ \A n \in DOMAIN ranked : HoldsItsOwn(ranked[n])
             /\ NoNaN => \A m, n \in DOMAIN ranked : m < n => ~betterCandidate(ranked[n], ranked[m])
<1> DEFINE N == Len(request)
           s == slots[c]
           ranked == SubSeq(s, 1, N)
<1>1. AskedRight /\ FilledRight /\ Finished(heap, ranker, request, s)
  BY DEF RankerInv, FinishedRight
<1>2. N \in Nat /\ DOMAIN request = 1..N
  BY <1>1, LengthOfRequest DEF AskedRight
<1>3. s \in Seq(Result) /\ Len(s) \in Nat /\ DOMAIN s = 1..Len(s) /\ Len(s) >= N /\ \A x \in 1..N : s[x] \in Result
  BY <1>1, <1>2, SlotsAre DEF Finished
<1> HIDE DEF N, s
<1>4. DOMAIN ranked = 1..N /\ \A x \in 1..N : ranked[x] = s[x]
  BY <1>2, <1>3, SubSeqProperties
<1> HIDE DEF ranked
<1>5. \A n \in 1..N : HoldsItsOwn(s[n]) /\ \E m \in 1..N : s[n].id = request[m].id
  <2> SUFFICES ASSUME NEW n \in 1..N
               PROVE  HoldsItsOwn(s[n]) /\ \E m \in 1..N : s[n].id = request[m].id
    OBVIOUS
  <2>1. PICK m \in 1..N : Owned(heap, ranker, request, s[n], m)
    BY <1>1 DEF Finished, N
  <2> QED
    BY <1>1, <2>1, HeldIs DEF N
<1>6. \A m \in 1..N : \E n \in 1..N : s[n].id = request[m].id
  BY <1>1 DEF Finished, N
<1>7. {ranked[n].id : n \in DOMAIN ranked} = {request[n].id : n \in DOMAIN request}
  <2>1. ASSUME NEW n \in DOMAIN ranked
        PROVE  \E m \in DOMAIN request : ranked[n].id = request[m].id
    BY <1>2, <1>4, <1>5
  <2>2. ASSUME NEW m \in DOMAIN request
        PROVE  \E n \in DOMAIN ranked : ranked[n].id = request[m].id
    <3>1. PICK n \in 1..N : s[n].id = request[m].id
      BY <1>2, <1>6
    <3>2. n \in DOMAIN ranked /\ ranked[n] = s[n]
      BY <1>4
    <3> QED
      BY <3>1, <3>2
  <2> QED
    BY ONLY <2>1, <2>2
<1>8. ASSUME NoNaN, NEW m \in 1..N, NEW n \in 1..N, m < n
      PROVE  ~betterCandidate(s[n], s[m])
  <2>1. ~Ahead(request, s[n], s[m])
    BY <1>1, <1>8 DEF Finished, InOrderUpTo, N
  <2>2. Numbers(request)
    BY <1>8 DEF NoNaN, Numbers
  <2> QED
    BY <2>1, <2>2 DEF Ahead
<1> QED
  BY <1>4, <1>5, <1>7, <1>8 DEF ranked, s, N

\* RankingIsRight
LEMMA RankingFollows ==
  ASSUME RankerInv
  PROVE  RankingIsRight
<1>1. Sort!Inside
  <2>1. request \in Requests \cup {<<>>} /\ (sorting # "idle" => SortGoodNow)
    BY DEF RankerInv, AskedRight, CallRight, SortGoodNow
  <2> QED
    BY <2>1, GoodInside
<1>2. ASSUME Answered
      PROVE  \A c \in Names : answers[c].done
  BY <1>2, NextIs DEF Answered
<1>3. ASSUME Answered, NEW c \in {"Rank", "SelectFallbacks"}, ~answers[c].error
      PROVE  LET ranked == SubSeq(slots[c], 1, Len(request))
             IN  /\ {ranked[n].id : n \in DOMAIN ranked} = {request[n].id : n \in DOMAIN request}
                 /\ \A n \in DOMAIN ranked : HoldsItsOwn(ranked[n])
                 /\ NoNaN => \A m, n \in DOMAIN ranked : m < n => ~betterCandidate(ranked[n], ranked[m])
  <2>1. c \in Rankings /\ answers[c].done
    BY <1>2, <1>3 DEF Rankings, Names
  <2> QED
    BY <1>3, <2>1, RankedRight
<1>4. ASSUME Answered, ~answers["SelectFallbacks"].error, answers["SelectFallbacks"].id # 0
      PROVE  Chained(request, slots["SelectFallbacks"], answers["SelectFallbacks"])
  BY <1>2, <1>4 DEF RankerInv, ChainRight, Names
<1> QED
  BY <1>1, <1>3, <1>4 DEF RankingIsRight, Chained

\* RankInto (ranker.go) answers every candidate once and in order, each with its own
\* reasons and actions, its fallbacks are the next ones, and the sort reads no item
\* outside the part it sorts, for any rule sets, requests and limits.
THEOREM RankingIsRightInvariance == Spec => []RankingIsRight
<1>1. RankerInv => RankingIsRight
  BY RankingFollows
<1> QED
  BY <1>1, RankerInvariance, PTL

-----------------------------------------------------------------------------
\* Both ways.

\* What is found in the first of two places, if there is something; else in the second.
LEMMA FirstOfTwo ==
  ASSUME NEW v, NEW w
  PROVE  /\ v # Missing => First(<<v, w>>) = v
         /\ v = Missing /\ w = Missing => First(<<v, w>>) = Missing
<1> DEFINE S == {n \in 1..2 : <<v, w>>[n] # Missing}
           at == IF S # {} THEN Min(S) ELSE 0
<1>1. SelectInSeq(<<v, w>>, LAMBDA u : u # Missing) = at
  BY DEF SelectInSeq
<1>2. First(<<v, w>>) = IF at = 0 THEN Missing ELSE <<v, w>>[at]
  BY <1>1 DEF First
<1>3. S \in SUBSET (1..2) /\ S \in SUBSET Nat
  OBVIOUS
<1>4. ASSUME v # Missing
      PROVE  First(<<v, w>>) = v
  <2>1. 1 \in S
    BY <1>4
  <2>2. Min(S) \in S /\ Min(S) <= 1
    <3> HIDE DEF S
    <3> QED
      BY <1>3, <2>1, MinOf
  <2>3. at = 1
    BY <1>3, <2>1, <2>2
  <2> HIDE DEF at
  <2> QED
    BY <1>2, <2>3
<1>5. ASSUME v = Missing, w = Missing
      PROVE  First(<<v, w>>) = Missing
  <2>1. S = {}
    BY <1>5
  <2> QED
    BY <1>2, <2>1
<1> QED
  BY <1>4, <1>5

\* What the generic way reads of a candidate is what the native one reads, if no bare
\* fact stands for one that the candidate lacks.
LEMMA SeenAlike ==
  ASSUME WaysAgree, NEW n \in DOMAIN request, NEW condition
  PROVE  Seen(request[n], condition, "generic") = Seen(request[n], condition, "native")
<1> DEFINE c == request[n]
<1>1. ASSUME NEW f \in Fields
      PROVE  First(<<compileNativePathGetter(c, f), c.bare[f]>>) = compileNativePathGetter(c, f)
  <2>1. compileNativePathGetter(c, f) = Missing => c.bare[f] = Missing
    BY DEF WaysAgree
  <2> QED
    BY <2>1, FirstOfTwo
<1> HIDE DEF c
<1>2. Seen(c, condition, "generic") = Seen(c, condition, "native")
  BY <1>1 DEF Seen
<1> QED
  BY <1>2 DEF c

\* So a condition says the same on both ways, and so does a rule.
LEMMA JudgedAlike ==
  ASSUME WaysAgree, NEW n \in DOMAIN request, NEW strict
  PROVE  /\ \A condition : Judge(condition, request[n], strict, "generic") = Judge(condition, request[n], strict, "native")
         /\ \A r : evalEligibility(r, request[n], strict, "generic") = evalEligibility(r, request[n], strict, "native")
         /\ \A s : ScoreOutcome(s, request[n], strict, "generic") = ScoreOutcome(s, request[n], strict, "native")
<1> DEFINE c == request[n]
<1>1. ASSUME NEW condition
      PROVE  Judge(condition, c, strict, "generic") = Judge(condition, c, strict, "native")
  BY SeenAlike DEF Judge
<1> HIDE DEF c
<1>2. ASSUME NEW r
      PROVE  evalEligibility(r, c, strict, "generic") = evalEligibility(r, c, strict, "native")
  <2>1. ChildVerdicts(r, c, strict, "generic") = ChildVerdicts(r, c, strict, "native")
    BY <1>1 DEF ChildVerdicts, ChildVerdict
  <2> QED
    BY <1>1, <2>1 DEF evalEligibility
<1>3. ASSUME NEW s
      PROVE  ScoreOutcome(s, c, strict, "generic") = ScoreOutcome(s, c, strict, "native")
  BY <1>1 DEF ScoreOutcome
<1> QED
  BY <1>1, <1>2, <1>3 DEF c

\* Two findings that differ in what is explained and decided at most.
Alike(e, f) == (e.ended <=> f.ended) /\ (e.error <=> f.error) /\ (e.eligible <=> f.eligible) /\ e.score = f.score

\* A rule makes alike findings of alike ones, on either way.
LEMMA RulesAlike ==
  ASSUME WaysAgree, NEW n \in DOMAIN request, NEW rk, NEW r, NEW e, NEW f, Alike(e, f)
  PROVE  Alike(RankRule(e, r, request[n], rk, "generic"), RankRule(f, r, request[n], rk, "native"))
<1> DEFINE c == request[n]
           said(how) == Sayings(r, evalEligibility(r, c, rk.strict, how), c, rk.strict, how)
           verdict == evalEligibility(r, c, rk.strict, "native")
<1>1. evalEligibility(r, c, rk.strict, "generic") = verdict
  BY JudgedAlike
<1> HIDE DEF c, verdict, said
<1>2. \A res, words : /\ AfterRule(res, r, verdict, words, rk).ended <=> verdict # "yes"
                      /\ AfterRule(res, r, verdict, words, rk).error <=> verdict = "error"
                      /\ AfterRule(res, r, verdict, words, rk).eligible <=> verdict = "yes"
                      /\ AfterRule(res, r, verdict, words, rk).score
                           = IF verdict = "yes" THEN res.score + One * r.score ELSE res.score
  BY DEF AfterRule
<1>3. RankRule(e, r, c, rk, "generic") = IF e.ended THEN e ELSE AfterRule(e, r, verdict, said("generic"), rk)
  BY <1>1 DEF RankRule, said
<1>4. RankRule(f, r, c, rk, "native") = IF f.ended THEN f ELSE AfterRule(f, r, verdict, said("native"), rk)
  BY DEF RankRule, said, verdict
<1> QED
  BY <1>2, <1>3, <1>4 DEF Alike, c

\* So does a score rule.
LEMMA ScoresAlike ==
  ASSUME WaysAgree, NEW n \in DOMAIN request, NEW rk, NEW s, NEW e, NEW f, e \in Finding, f \in Finding, Alike(e, f)
  PROVE  Alike(RankScore(e, s, request[n], rk, "generic"), RankScore(f, s, request[n], rk, "native"))
<1> DEFINE c == request[n]
           outcome == ScoreOutcome(s, c, rk.strict, "native")
<1>1. ScoreOutcome(s, c, rk.strict, "generic") = outcome
  BY JudgedAlike
<1> HIDE DEF c, outcome
<1>2. ASSUME NEW res \in Finding
      PROVE  /\ AfterScore(res, s, outcome, c, rk).ended <=> outcome \in {"error", "rejects"}
             /\ AfterScore(res, s, outcome, c, rk).error <=> outcome = "error"
             /\ AfterScore(res, s, outcome, c, rk).eligible <=> outcome \notin {"error", "rejects"}
             /\ AfterScore(res, s, outcome, c, rk).score
                  = IF outcome = "points" THEN res.score + Points(s, c) ELSE res.score
  BY DEF AfterScore, Finding
<1>3. RankScore(e, s, c, rk, "generic") = IF e.ended THEN e ELSE AfterScore(e, s, outcome, c, rk)
  BY <1>1 DEF RankScore
<1>4. RankScore(f, s, c, rk, "native") = IF f.ended THEN f ELSE AfterScore(f, s, outcome, c, rk)
  BY DEF RankScore, outcome
<1> QED
  BY <1>2, <1>3, <1>4 DEF Alike, c

\* What two runs of as many steps keep is so at their ends.
LEMMA AlikeRuns ==
  ASSUME NEW p \in Nat, NEW g, NEW h, Alike(g[0], h[0]),
         \A m \in 1..p : Alike(g[m-1], h[m-1]) => Alike(g[m], h[m])
  PROVE  Alike(g[p], h[p])
<1> DEFINE B == {m \in 0..p : ~Alike(g[m], h[m])}
<1>1. B \in SUBSET Nat
  OBVIOUS
<1>2. ASSUME B # {}
      PROVE  FALSE
  <2> HIDE DEF B
  <2>1. PICK m \in B : \A x \in B : m <= x
    BY <1>1, <1>2, LeastOne
  <2> USE DEF B
  <2>2. m \in 0..p /\ ~Alike(g[m], h[m])
    OBVIOUS
  <2>3. m \in 1..p
    <3>1. m # 0
      BY <2>2
    <3> QED
      BY <2>2, <3>1
  <2>4. m - 1 \in 0..p /\ m - 1 \notin B
    <3> HIDE DEF B
    <3>1. m - 1 \in 0..p /\ ~(m <= m - 1)
      BY <2>3
    <3> QED
      BY <2>1, <3>1
  <2>5. Alike(g[m-1], h[m-1])
    BY <2>4
  <2> QED
    BY <2>2, <2>3, <2>5
<1> QED
  BY <1>2

\* Both ways find the same of a candidate but for what they explain and decide.
LEMMA WaysAlike ==
  ASSUME WaysAgree, ranker \in Rankers, request \in Requests \cup {<<>>}, NEW n \in DOMAIN request
  PROVE  Alike(RankCandidate(ranker, request[n], "generic"), RankCandidate(ranker, request[n], "native"))
<1> DEFINE c == request[n]
           p == Len(ranker.rules)
           q == Len(ranker.scores)
<1>1. c \in Candidates /\ "generic" \in Ways /\ "native" \in Ways
  BY CandidateOf DEF Ways
<1>2. p \in Nat /\ q \in Nat
  BY RankersAssumption
<1>3. PICK g : /\ g \in [0..p -> Finding] /\ g[0] = Fresh
               /\ \A m \in 1..p : g[m-1] \in Finding /\ g[m] = RankRule(g[m-1], ranker.rules[m], c, ranker, "generic")
               /\ RuledBy(ranker, c, "generic") = g[p]
  BY <1>1, RuleRuns
<1>4. PICK h : /\ h \in [0..p -> Finding] /\ h[0] = Fresh
               /\ \A m \in 1..p : h[m-1] \in Finding /\ h[m] = RankRule(h[m-1], ranker.rules[m], c, ranker, "native")
               /\ RuledBy(ranker, c, "native") = h[p]
  BY <1>1, RuleRuns
<1>5. Alike(g[p], h[p])
  <2>1. Alike(g[0], h[0])
    BY <1>3, <1>4 DEF Alike
  <2>2. ASSUME NEW m \in 1..p, Alike(g[m-1], h[m-1])
        PROVE  Alike(g[m], h[m])
    <3>1. Alike(RankRule(g[m-1], ranker.rules[m], c, ranker, "generic"), RankRule(h[m-1], ranker.rules[m], c, ranker, "native"))
      BY <2>2, RulesAlike
    <3> QED
      BY <1>3, <1>4, <3>1
  <2> HIDE DEF p
  <2> QED
    BY <1>2, <2>1, <2>2, AlikeRuns
<1>6. g[p] \in Finding /\ h[p] \in Finding
  BY <1>2, <1>3, <1>4
<1>7. PICK u : /\ u \in [0..q -> Finding] /\ u[0] = g[p]
               /\ \A m \in 1..q : u[m-1] \in Finding /\ u[m] = RankScore(u[m-1], ranker.scores[m], c, ranker, "generic")
               /\ ScoredBy(ranker, c, "generic", g[p]) = u[q]
  BY <1>1, <1>6, ScoreRuns
<1>8. PICK w : /\ w \in [0..q -> Finding] /\ w[0] = h[p]
               /\ \A m \in 1..q : w[m-1] \in Finding /\ w[m] = RankScore(w[m-1], ranker.scores[m], c, ranker, "native")
               /\ ScoredBy(ranker, c, "native", h[p]) = w[q]
  BY <1>1, <1>6, ScoreRuns
<1>9. Alike(u[q], w[q])
  <2>1. Alike(u[0], w[0])
    BY <1>5, <1>7, <1>8
  <2>2. ASSUME NEW m \in 1..q, Alike(u[m-1], w[m-1])
        PROVE  Alike(u[m], w[m])
    <3>1. Alike(RankScore(u[m-1], ranker.scores[m], c, ranker, "generic"), RankScore(w[m-1], ranker.scores[m], c, ranker, "native"))
      BY <1>7, <1>8, <2>2, ScoresAlike
    <3> QED
      BY <1>7, <1>8, <3>1
  <2> HIDE DEF q
  <2> QED
    BY <1>2, <2>1, <2>2, AlikeRuns
<1>10. /\ RankCandidate(ranker, c, "generic") = ScoredBy(ranker, c, "generic", RuledBy(ranker, c, "generic"))
       /\ RankCandidate(ranker, c, "native") = ScoredBy(ranker, c, "native", RuledBy(ranker, c, "native"))
  BY DEF RankCandidate, ScoredBy, RuledBy
<1> QED
  BY <1>3, <1>4, <1>7, <1>8, <1>9, <1>10

-----------------------------------------------------------------------------
\* What each selector finds of a candidate: those of an ID take what is compiled.
By(rk, c, sel) ==
  RankCandidate(rk, c, IF canRankNative(rk) \/ sel \in {"SelectBestID", "SelectWeightedID"} THEN "native" ELSE "generic")

\* What a candidate is compared by.
Standing(c, e) ==
  [id |-> c.id, eligible |-> e.eligible, score |-> e.score,
   priority |-> compareValues(c).priority, specificity |-> compareValues(c).specificity,
   fallback |-> compareValues(c).fallback, cost |-> compareValues(c).cost]

Before(rk, q, sel, m, n) ==
  betterCandidate(Standing(q[m], By(rk, q[m], sel)), Standing(q[n], By(rk, q[n], sel)))

\* The nth candidate is the best of the first ones.
Leads(rk, q, sel, upto, n) ==
  /\ n \in 1..upto /\ By(rk, q[n], sel).eligible
  /\ \A m \in 1..upto : ~Before(rk, q, sel, m, n)

NoneUpTo(rk, q, sel, upto) == \A m \in 1..upto : ~By(rk, q[m], sel).eligible

\* Priority and specificity of a come before those of b.
Higher(a, b) ==
  \/ compareValues(a).priority > compareValues(b).priority
  \/ /\ compareValues(a).priority = compareValues(b).priority
     /\ compareValues(a).specificity > compareValues(b).specificity

SameRank(a, b) ==
  /\ compareValues(a).priority = compareValues(b).priority
  /\ compareValues(a).specificity = compareValues(b).specificity

\* The nth candidate is of the highest rank of the first ones.
Tops(rk, q, upto, n) ==
  /\ n \in 1..upto /\ By(rk, q[n], "SelectWeightedID").eligible
  /\ \A m \in 1..upto : By(rk, q[m], "SelectWeightedID").eligible => ~Higher(q[m], q[n])

\* What a selector finds of a candidate is a finding.
LEMMA ByType ==
  ASSUME AskedRight, NEW n \in 1..Len(request), NEW sel
  PROVE  By(ranker, request[n], sel) \in Finding
<1> DEFINE how == IF canRankNative(ranker) \/ sel \in {"SelectBestID", "SelectWeightedID"} THEN "native" ELSE "generic"
<1>1. ranker \in Rankers /\ request[n] \in Candidates
  BY CandidateIs DEF AskedRight
<1>2. how \in Ways
  BY DEF Ways
<1> HIDE DEF how
<1>3. RankCandidate(ranker, request[n], how) \in Finding
  BY <1>1, <1>2, FindingType
<1> QED
  BY <1>3 DEF By, how

\* What of it is told.
LEMMA ByField ==
  ASSUME AskedRight, NEW n \in 1..Len(request), NEW sel
  PROVE  /\ By(ranker, request[n], sel).eligible \in BOOLEAN /\ By(ranker, request[n], sel).error \in BOOLEAN
         /\ By(ranker, request[n], sel).score \in Int
<1> QED
  BY ByType DEF Finding

\* What a candidate is compared by are numbers.
LEMMA ValuesAre ==
  ASSUME AskedRight, Numbers(request), NEW n \in 1..Len(request)
  PROVE  /\ compareValues(request[n]).priority \in Int /\ compareValues(request[n]).specificity \in Int
         /\ compareValues(request[n]).fallback \in Int /\ compareValues(request[n]).cost \in Int
         /\ compareValues(request[n]).priority # NotANumber /\ compareValues(request[n]).specificity # NotANumber
         /\ compareValues(request[n]).fallback # NotANumber /\ compareValues(request[n]).cost # NotANumber
<1>1. n \in DOMAIN request /\ request[n] \in Candidates
  BY CandidateIs
<1>2. compareValues(request[n]) \in [priority : Int, specificity : Int, fallback : Int, cost : Int]
  BY <1>1, CompareType
<1> DEFINE v == compareValues(request[n])
<1>3. NotANumber \notin {v[x] : x \in {"priority", "specificity", "fallback", "cost"}}
  BY <1>1 DEF Numbers
<1>4. v \in [priority : Int, specificity : Int, fallback : Int, cost : Int]
  BY <1>2
<1> HIDE DEF v
<1>5. v.priority # NotANumber /\ v.specificity # NotANumber /\ v.fallback # NotANumber /\ v.cost # NotANumber
  BY <1>3
<1> QED
  BY <1>4, <1>5 DEF v

\* Candidates stand by numbers.
LEMMA StandingIs ==
  ASSUME AskedRight, Numbers(request), NEW n \in 1..Len(request), NEW sel,
         NEW a, a = Standing(request[n], By(ranker, request[n], sel))
  PROVE  /\ a.eligible \in BOOLEAN /\ a.score \in Int /\ a.id \in Int
         /\ a.priority \in Int /\ a.specificity \in Int /\ a.fallback \in Int /\ a.cost \in Int
         /\ NotANumber \notin {a.priority, a.specificity, a.fallback, a.cost}
         /\ a.id = request[n].id /\ a.eligible = By(ranker, request[n], sel).eligible
<1>1. request[n].id \in Int
  BY CandidateIs
<1> DEFINE e == By(ranker, request[n], sel)
           v == compareValues(request[n])
<1>2. e.eligible \in BOOLEAN /\ e.score \in Int
  BY ByField
<1>3. /\ v.priority \in Int /\ v.specificity \in Int /\ v.fallback \in Int /\ v.cost \in Int
      /\ v.priority # NotANumber /\ v.specificity # NotANumber /\ v.fallback # NotANumber /\ v.cost # NotANumber
  BY ValuesAre
<1>4. /\ a.id = request[n].id /\ a.eligible = e.eligible /\ a.score = e.score
      /\ a.priority = v.priority /\ a.specificity = v.specificity /\ a.fallback = v.fallback /\ a.cost = v.cost
  BY DEF Standing, e, v
<1> HIDE DEF e, v
<1>5. a.eligible = By(ranker, request[n], sel).eligible
  BY <1>4 DEF e
<1> QED
  BY <1>1, <1>2, <1>3, <1>4, <1>5

\* Of two that differ in their id, betterCandidate prefers one.
LEMMA IntsConnected ==
  ASSUME NEW a, NEW b, a.id # b.id,
         a.eligible \in BOOLEAN, a.score \in Int, a.id \in Int,
         a.priority \in Int, a.specificity \in Int, a.fallback \in Int, a.cost \in Int,
         NotANumber \notin {a.priority, a.specificity, a.fallback, a.cost},
         b.eligible \in BOOLEAN, b.score \in Int, b.id \in Int,
         b.priority \in Int, b.specificity \in Int, b.fallback \in Int, b.cost \in Int,
         NotANumber \notin {b.priority, b.specificity, b.fallback, b.cost}
  PROVE  betterCandidate(a, b) \/ betterCandidate(b, a)
<1> DEFINE P(x, y) == IF x.eligible # y.eligible THEN x.eligible
                      ELSE IF x.priority # y.priority THEN x.priority > y.priority
                      ELSE IF x.specificity # y.specificity THEN x.specificity > y.specificity
                      ELSE IF x.score # y.score THEN x.score > y.score
                      ELSE IF x.cost # y.cost THEN y.cost > x.cost
                      ELSE IF x.fallback # y.fallback THEN y.fallback > x.fallback
                      ELSE x.id < y.id
<1>1. betterCandidate(a, b) = P(a, b) /\ betterCandidate(b, a) = P(b, a)
  BY DEF betterCandidate, Differ, Above
<1>2. CASE a.eligible # b.eligible
  <2>1. betterCandidate(a, b) = a.eligible /\ betterCandidate(b, a) = b.eligible
    BY <1>2 DEF betterCandidate
  <2>2. CASE a.eligible = TRUE
    BY <2>1, <2>2
  <2>3. CASE a.eligible = FALSE
    <3>1. b.eligible = TRUE
      BY <1>2, <2>3
    <3> QED
      BY <2>1, <3>1
  <2> QED
    BY <2>2, <2>3
<1>3. CASE a.eligible = b.eligible
  <2>1. P(a, b) \/ P(b, a)
    BY <1>3
  <2> HIDE DEF P
  <2> QED
    BY <1>1, <2>1
<1> QED
  BY <1>2, <1>3

\* No two candidates stand alike: one comes before the other.
LEMMA OneIsBefore ==
  ASSUME AskedRight, Numbers(request), NEW m \in 1..Len(request), NEW n \in 1..Len(request), m # n, NEW sel
  PROVE  Before(ranker, request, sel, m, n) \/ Before(ranker, request, sel, n, m)
<1> DEFINE a == Standing(request[m], By(ranker, request[m], sel))
           b == Standing(request[n], By(ranker, request[n], sel))
<1>0. a = Standing(request[m], By(ranker, request[m], sel)) /\ b = Standing(request[n], By(ranker, request[n], sel))
  OBVIOUS
<1> HIDE DEF a, b
<1>1. /\ a.eligible \in BOOLEAN /\ a.score \in Int /\ a.id \in Int
      /\ a.priority \in Int /\ a.specificity \in Int /\ a.fallback \in Int /\ a.cost \in Int
      /\ NotANumber \notin {a.priority, a.specificity, a.fallback, a.cost}
      /\ a.id = request[m].id
  BY <1>0, StandingIs
<1>2. /\ b.eligible \in BOOLEAN /\ b.score \in Int /\ b.id \in Int
      /\ b.priority \in Int /\ b.specificity \in Int /\ b.fallback \in Int /\ b.cost \in Int
      /\ NotANumber \notin {b.priority, b.specificity, b.fallback, b.cost}
      /\ b.id = request[n].id
  BY <1>0, StandingIs
<1>3. a.id # b.id
  BY <1>1, <1>2, IdsDiffer
<1>4. betterCandidate(a, b) \/ betterCandidate(b, a)
  BY <1>1, <1>2, <1>3, IntsConnected
<1> QED
  BY <1>4 DEF Before, a, b

\* Before is an order.
LEMMA BeforeOrders ==
  ASSUME AskedRight, Numbers(request), NEW m \in 1..Len(request), NEW n \in 1..Len(request),
         NEW o \in 1..Len(request), NEW sel
  PROVE  /\ Before(ranker, request, sel, m, n) => ~Before(ranker, request, sel, n, m)
         /\ ~Before(ranker, request, sel, m, n) /\ ~Before(ranker, request, sel, n, o) => ~Before(ranker, request, sel, m, o)
         /\ ~Before(ranker, request, sel, m, m)
<1> DEFINE a == Standing(request[m], By(ranker, request[m], sel))
           b == Standing(request[n], By(ranker, request[n], sel))
           c == Standing(request[o], By(ranker, request[o], sel))
<1> DEFINE InNumbers(x) == /\ x.eligible \in BOOLEAN /\ x.score \in Int /\ x.id \in Int
                       /\ x.priority \in Int /\ x.specificity \in Int /\ x.fallback \in Int /\ x.cost \in Int
                       /\ NotANumber \notin {x.priority, x.specificity, x.fallback, x.cost}
<1>0. InNumbers(a) /\ InNumbers(b) /\ InNumbers(c)
  BY StandingIs
<1> HIDE DEF a, b, c
<1>1. \A x \in {a, b, c} : InNumbers(x)
  BY <1>0
<1>2. /\ betterCandidate(a, b) => ~betterCandidate(b, a)
      /\ ~betterCandidate(a, b) /\ ~betterCandidate(b, c) => ~betterCandidate(a, c)
  BY <1>1, IntsOrder
<1>3. ~betterCandidate(a, a)
  BY <1>1, IntsOrder
<1> QED
  BY <1>2, <1>3 DEF Before, a, b, c

\* So only one leads.
LEMMA OneLeads ==
  ASSUME AskedRight, Numbers(request), NEW sel, NEW m, NEW n,
         Leads(ranker, request, sel, Len(request), m), Leads(ranker, request, sel, Len(request), n)
  PROVE  m = n
<1>1. m \in 1..Len(request) /\ n \in 1..Len(request)
  BY DEF Leads
<1>2. ~Before(ranker, request, sel, m, n) /\ ~Before(ranker, request, sel, n, m)
  BY <1>1 DEF Leads
<1> QED
  BY <1>1, <1>2, OneIsBefore

\* Who is eligible comes before who is not.
LEMMA EligibleBefore ==
  ASSUME AskedRight, Numbers(request), NEW m \in 1..Len(request), NEW n \in 1..Len(request), NEW sel,
         By(ranker, request[n], sel).eligible, ~By(ranker, request[m], sel).eligible
  PROVE  ~Before(ranker, request, sel, m, n)
<1> DEFINE a == Standing(request[m], By(ranker, request[m], sel))
           b == Standing(request[n], By(ranker, request[n], sel))
<1>1. ~a.eligible /\ b.eligible /\ a.eligible \in BOOLEAN /\ b.eligible \in BOOLEAN
  BY StandingIs
<1> HIDE DEF a, b
<1>2. ~betterCandidate(a, b)
  BY <1>1 DEF betterCandidate
<1> QED
  BY <1>2 DEF Before, a, b

\* Who leads when one more candidate is taken.
LEMMA LeadStep ==
  ASSUME AskedRight, Numbers(request), NEW u \in 1..Len(request), NEW sel
  PROVE  /\ ~By(ranker, request[u], sel).eligible /\ NoneUpTo(ranker, request, sel, u - 1) => NoneUpTo(ranker, request, sel, u)
         /\ By(ranker, request[u], sel).eligible /\ NoneUpTo(ranker, request, sel, u - 1) => Leads(ranker, request, sel, u, u)
         /\ \A n : Leads(ranker, request, sel, u - 1, n) =>
               /\ ~By(ranker, request[u], sel).eligible \/ ~Before(ranker, request, sel, u, n) => Leads(ranker, request, sel, u, n)
               /\ By(ranker, request[u], sel).eligible /\ Before(ranker, request, sel, u, n) => Leads(ranker, request, sel, u, u)
<1>0. Len(request) \in Nat
  BY LengthOfRequest DEF AskedRight
<1>1. \A m \in 1..u : (m = u \/ m \in 1 .. u - 1) /\ m \in 1..Len(request)
  BY <1>0
<1>2. u \in 1..u /\ \A m \in 1 .. u - 1 : m \in 1..u /\ m \in 1..Len(request)
  BY <1>0
<1>3. ASSUME ~By(ranker, request[u], sel).eligible, NoneUpTo(ranker, request, sel, u - 1)
      PROVE  NoneUpTo(ranker, request, sel, u)
  BY <1>1, <1>3 DEF NoneUpTo
<1>4. ASSUME By(ranker, request[u], sel).eligible, NoneUpTo(ranker, request, sel, u - 1)
      PROVE  Leads(ranker, request, sel, u, u)
  <2>1. ASSUME NEW m \in 1..u
        PROVE  ~Before(ranker, request, sel, m, u)
    <3>1. CASE m = u
      BY <1>2, <3>1, BeforeOrders
    <3>2. CASE m \in 1 .. u - 1
      <4>1. ~By(ranker, request[m], sel).eligible
        BY <1>4, <3>2 DEF NoneUpTo
      <4> QED
        BY <1>1, <1>4, <4>1, EligibleBefore
    <3> QED
      BY <1>1, <3>1, <3>2
  <2> QED
    BY <1>2, <1>4, <2>1 DEF Leads
<1>5. ASSUME NEW n, Leads(ranker, request, sel, u - 1, n),
             ~By(ranker, request[u], sel).eligible \/ ~Before(ranker, request, sel, u, n)
      PROVE  Leads(ranker, request, sel, u, n)
  <2>1. n \in 1 .. u - 1 /\ n \in 1..Len(request) /\ By(ranker, request[n], sel).eligible
    BY <1>2, <1>5 DEF Leads
  <2>2. ~Before(ranker, request, sel, u, n)
    BY <1>5, <2>1, EligibleBefore
  <2> QED
    BY <1>1, <1>2, <1>5, <2>1, <2>2 DEF Leads
<1>6. ASSUME NEW n, Leads(ranker, request, sel, u - 1, n),
             By(ranker, request[u], sel).eligible, Before(ranker, request, sel, u, n)
      PROVE  Leads(ranker, request, sel, u, u)
  <2>1. n \in 1 .. u - 1 /\ n \in 1..Len(request)
    BY <1>2, <1>6 DEF Leads
  <2>2. ~Before(ranker, request, sel, n, u)
    BY <1>6, <2>1, BeforeOrders
  <2>3. ASSUME NEW m \in 1..u
        PROVE  ~Before(ranker, request, sel, m, u)
    <3>1. CASE m = u
      BY <1>2, <3>1, BeforeOrders
    <3>2. CASE m \in 1 .. u - 1
      <4>1. ~Before(ranker, request, sel, m, n) /\ m \in 1..Len(request)
        BY <1>2, <1>6, <3>2 DEF Leads
      <4> QED
        BY <2>1, <2>2, <4>1, BeforeOrders
    <3> QED
      BY <1>1, <3>1, <3>2
  <2> QED
    BY <1>2, <1>6, <2>3 DEF Leads
<1> QED
  BY <1>3, <1>4, <1>5, <1>6

\* Which rank is the highest when one more candidate is taken.
LEMMA TopStep ==
  ASSUME AskedRight, Numbers(request), NEW u \in 1..Len(request), NEW sel, sel = "SelectWeightedID"
  PROVE  /\ By(ranker, request[u], sel).eligible /\ NoneUpTo(ranker, request, sel, u - 1) => Tops(ranker, request, u, u)
         /\ \A n : Tops(ranker, request, u - 1, n) =>
               /\ ~By(ranker, request[u], sel).eligible \/ ~Higher(request[u], request[n]) => Tops(ranker, request, u, n)
               /\ By(ranker, request[u], sel).eligible /\ ~Higher(request[n], request[u]) => Tops(ranker, request, u, u)
<1>0. Len(request) \in Nat
  BY LengthOfRequest DEF AskedRight
<1>1. \A m \in 1..u : (m = u \/ m \in 1 .. u - 1) /\ m \in 1..Len(request)
  BY <1>0
<1>2. u \in 1..u /\ \A m \in 1 .. u - 1 : m \in 1..u /\ m \in 1..Len(request)
  BY <1>0
<1>3. \A m \in 1..Len(request) : ~Higher(request[m], request[m])
  BY ValuesAre DEF Higher
<1>4. ASSUME By(ranker, request[u], sel).eligible, NoneUpTo(ranker, request, sel, u - 1)
      PROVE  Tops(ranker, request, u, u)
  <2>1. ASSUME NEW m \in 1..u, By(ranker, request[m], sel).eligible
        PROVE  ~Higher(request[m], request[u])
    <3>1. CASE m = u
      BY <1>3, <3>1
    <3>2. CASE m \in 1 .. u - 1
      BY <1>4, <2>1, <3>2 DEF NoneUpTo
    <3> QED
      BY <1>1, <3>1, <3>2
  <2> QED
    BY <1>2, <1>4, <2>1 DEF Tops
<1>5. ASSUME NEW n, Tops(ranker, request, u - 1, n),
             ~By(ranker, request[u], sel).eligible \/ ~Higher(request[u], request[n])
      PROVE  Tops(ranker, request, u, n)
  BY <1>1, <1>2, <1>5 DEF Tops
<1>6. ASSUME NEW n, Tops(ranker, request, u - 1, n),
             By(ranker, request[u], sel).eligible, ~Higher(request[n], request[u])
      PROVE  Tops(ranker, request, u, u)
  <2>1. n \in 1 .. u - 1 /\ n \in 1..Len(request)
    BY <1>2, <1>6 DEF Tops
  <2>2. ASSUME NEW m \in 1..u, By(ranker, request[m], sel).eligible
        PROVE  ~Higher(request[m], request[u])
    <3>1. CASE m = u
      BY <1>3, <3>1
    <3>2. CASE m \in 1 .. u - 1
      <4>1. ~Higher(request[m], request[n]) /\ m \in 1..Len(request)
        BY <1>2, <1>6, <2>2, <3>2 DEF Tops
      <4>2. /\ compareValues(request[m]).priority \in Int /\ compareValues(request[m]).specificity \in Int
            /\ compareValues(request[n]).priority \in Int /\ compareValues(request[n]).specificity \in Int
            /\ compareValues(request[u]).priority \in Int /\ compareValues(request[u]).specificity \in Int
        BY <2>1, <4>1, ValuesAre
      <4> QED
        BY <1>6, <4>1, <4>2 DEF Higher
    <3> QED
      BY <1>1, <3>1, <3>2
  <2> QED
    BY <1>2, <1>6, <2>2 DEF Tops
<1> QED
  BY <1>4, <1>5, <1>6

-----------------------------------------------------------------------------
\* What the selectors answer, and what they keep until they do.

\* What is kept of a candidate without a result.
Selections ==
  [id : Nat, score : Int, priority : Int, specificity : Int, fallback : Int, cost : Int, weight : Int]

Shows(s, c, e) ==
  /\ s.id = c.id /\ s.score = e.score
  /\ s.priority = compareValues(c).priority /\ s.specificity = compareValues(c).specificity
  /\ s.fallback = compareValues(c).fallback /\ s.cost = compareValues(c).cost

\* RankInto answers with the first of its results.
HeadIs(q, s, a) ==
  /\ Len(q) > 0 /\ s[1].eligible => a.id = s[1].id /\ a.score = s[1].score
  /\ ~(Len(q) > 0 /\ s[1].eligible) => a.id = 0 /\ a.score = 0

\* SelectBest and SelectBestID answer with the best of all.
Won(rk, q, sel, a) ==
  \/ a.id = 0 /\ a.score = 0 /\ NoneUpTo(rk, q, sel, Len(q))
  \/ \E n \in 1..Len(q) : Leads(rk, q, sel, Len(q), n) /\ a.id = q[n].id /\ a.score = By(rk, q[n], sel).score

\* SelectWeightedID answers with one of the highest rank.
Weighed(rk, q, a) ==
  \/ a.id = 0 /\ NoneUpTo(rk, q, "SelectWeightedID", Len(q))
  \/ \E n \in 1..Len(q) : Tops(rk, q, Len(q), n) /\ a.id = q[n].id

\* A selector fails if it fails of some candidate.
FailsAt(rk, q, sel) == \E n \in 1..Len(q) : By(rk, q[n], sel).error

ToldRight(rk, q, sl, sel, a) ==
  a.done =>
    /\ a.error <=> FailsAt(rk, q, sel)
    /\ a.error => a.id = 0 /\ a.score = 0
    /\ ~a.error /\ sel \in Rankings => HeadIs(q, sl[sel], a)
    /\ ~a.error /\ Numbers(q) /\ sel \in {"SelectBest", "SelectBestID"} => Won(rk, q, sel, a)
    /\ ~a.error /\ Numbers(q) /\ sel = "SelectWeightedID" => Weighed(rk, q, a)

AllTold == \A c \in Names : ToldRight(ranker, request, slots, c, answers[c])

\* No candidate has failed that was taken.
NoneFailed(rk, q, sel, upto) == \A n \in 1..Len(q) : n <= upto => ~By(rk, q[n], sel).error

\* What is kept of the candidates that were taken.
BestOf(rk, q, upto, r) ==
  \/ r.id = 0 /\ NoneUpTo(rk, q, "SelectBest", upto)
  \/ \E n \in 1..upto : Leads(rk, q, "SelectBest", upto, n) /\ Tells(r, q[n], By(rk, q[n], "SelectBest"))

KeptOf(rk, q, upto, kp) ==
  \/ kp = <<>> /\ NoneUpTo(rk, q, "SelectBestID", upto)
  \/ \E n \in 1..upto : /\ Leads(rk, q, "SelectBestID", upto, n)
                        /\ kp # <<>> /\ Shows(kp[1], q[n], By(rk, q[n], "SelectBestID"))

\* One that is kept is as high as the nth, which none that was taken is above.
OfRank(rk, q, upto, s, n) == \E m \in 1..upto : Tops(rk, q, upto, m) /\ SameRank(q[m], q[n]) /\ s.id = q[m].id

RankOf(c) == [priority |-> compareValues(c).priority, specificity |-> compareValues(c).specificity]

TopOf(rk, q, upto, kp, tp) ==
  \/ kp = <<>> /\ tp = {} /\ NoneUpTo(rk, q, "SelectWeightedID", upto)
  \/ \E n \in 1..upto : /\ Tops(rk, q, upto, n) /\ tp = {RankOf(q[n])} /\ kp # <<>>
                        /\ \A x \in 1..Len(kp) : OfRank(rk, q, upto, kp[x], n)

SoFarRight(rk, q, sel, upto, bst, kp, tp) ==
  /\ NoneFailed(rk, q, sel, upto)
  /\ sel = "SelectBest" /\ Numbers(q) => BestOf(rk, q, upto, bst)
  /\ sel = "SelectBestID" /\ Numbers(q) => KeptOf(rk, q, upto, kp)
  /\ sel = "SelectWeightedID" /\ Numbers(q) => TopOf(rk, q, upto, kp, tp)

SoFar == call # "none" => SoFarRight(ranker, request, call, k - 1, best, kept, top)

SelectorsInv == AllTold /\ SoFar /\ kept \in Seq(Selections)

-----------------------------------------------------------------------------
\* What was told stays true, but for one selector about which nothing is told yet.
LEMMA ToldKeeps ==
  ASSUME AllTold, request' = request, ranker' = ranker, NEW d, d \in Names,
         \A c \in Names : c # d => answers'[c] = answers[c],
         \A c \in Rankings : c # d => slots'[c] = slots[c],
         ToldRight(ranker, request, slots', d, answers'[d])
  PROVE  AllTold'
<1> SUFFICES ASSUME NEW c \in Names
             PROVE  ToldRight(ranker, request, slots', c, answers'[c])
  BY DEF AllTold
<1>1. CASE c = d
  BY <1>1
<1>2. CASE c # d
  <2>1. ToldRight(ranker, request, slots, c, answers[c]) /\ answers'[c] = answers[c]
    BY <1>2 DEF AllTold
  <2>2. c \in Rankings => slots'[c] = slots[c]
    BY <1>2
  <2> QED
    BY <2>1, <2>2 DEF ToldRight
<1> QED
  BY <1>1, <1>2

\* At first nobody is asked about no candidate.
LEMMA InitSelects ==
  ASSUME Init
  PROVE  SelectorsInv
<1>1. /\ request = <<>> /\ call = "none" /\ kept = <<>> /\ answers = [c \in Names |-> Nothing]
  BY NamesAre DEF Init
<1>2. Len(request) = 0
  BY <1>1
<1>3. Nothing.done /\ ~Nothing.error /\ Nothing.id = 0 /\ Nothing.score = 0
  BY AnswerFields
<1>4. AllTold
  <2> SUFFICES ASSUME NEW c \in Names
               PROVE  ToldRight(ranker, request, slots, c, answers[c])
    BY DEF AllTold
  <2>1. answers[c] = Nothing
    BY <1>1
  <2>2. ~FailsAt(ranker, request, c) /\ HeadIs(request, slots[c], answers[c])
        /\ Won(ranker, request, c, answers[c]) /\ Weighed(ranker, request, answers[c])
    BY <1>2, <1>3, <2>1 DEF FailsAt, HeadIs, Won, Weighed, NoneUpTo
  <2> QED
    BY <1>3, <2>1, <2>2 DEF ToldRight
<1> QED
  BY <1>1, <1>4 DEF SelectorsInv, SoFar

\* Of a new request nothing is told.
LEMMA AskSelects ==
  ASSUME RankerInv, SelectorsInv, Ask
  PROVE  SelectorsInv'
<1>1. call' = "none" /\ kept' = kept /\ answers' = [c \in Names |-> NoAnswer]
  BY NamesAre DEF Ask
<1>2. \A c \in Names : ~answers'[c].done
  BY <1>1, AnswerFields
<1> QED
  BY <1>1, <1>2 DEF SelectorsInv, AllTold, ToldRight, SoFar

\* A selector that is called has not taken anything.
LEMMA CallSelects ==
  ASSUME RankerInv, SelectorsInv, NEW c \in Names, Call(c),
         \A d \in Rankings : d # c => slots'[d] = slots[d],
         c = "SelectBest" => best'.id = 0,
         c \in {"SelectBestID", "SelectWeightedID"} => kept' = <<>> /\ top' = {},
         kept' = kept \/ kept' = <<>>
  PROVE  SelectorsInv'
<1>1. /\ call' = c /\ k' = 1 /\ ~answers[c].done /\ request' = request /\ ranker' = ranker /\ answers' = answers
  BY NextIs DEF Call, asking
<1>2. AllTold'
  <2>1. ToldRight(ranker, request, slots', c, answers'[c])
    BY <1>1 DEF ToldRight
  <2> QED
    BY <1>1, <2>1, ToldKeeps DEF SelectorsInv
<1>3. NoneFailed(ranker, request, c, 0)
  BY DEF NoneFailed
<1>4. \A sel : NoneUpTo(ranker, request, sel, 0)
  BY DEF NoneUpTo
<1>5. /\ c = "SelectBest" => BestOf(ranker, request, 0, best')
      /\ c = "SelectBestID" => KeptOf(ranker, request, 0, kept')
      /\ c = "SelectWeightedID" => TopOf(ranker, request, 0, kept', top')
  BY <1>4 DEF BestOf, KeptOf, TopOf
<1>6. SoFarRight(ranker, request, c, 0, best', kept', top')
  BY <1>3, <1>5 DEF SoFarRight
<1>7. k' - 1 = 0
  BY <1>1
<1>8. SoFar'
  BY <1>1, <1>6, <1>7 DEF SoFar
<1>9. kept' \in Seq(Selections)
  <2>1. kept \in Seq(Selections)
    BY DEF SelectorsInv
  <2>2. <<>> \in Seq(Selections)
    OBVIOUS
  <2> QED
    BY <2>1, <2>2
<1> QED
  BY <1>2, <1>8, <1>9 DEF SelectorsInv

\* Whichever selector is called.
LEMMA CallsSelect ==
  ASSUME RankerInv, SelectorsInv,
         \/ CallRankInto("Rank") \/ CallRankInto("SelectFallbacks") \/ CallSelectBest
         \/ CallSelectID("SelectBestID") \/ CallSelectID("SelectWeightedID")
  PROVE  SelectorsInv'
<1>1. ASSUME NEW c \in Rankings, CallRankInto(c)
      PROVE  SelectorsInv'
  <2>1. Call(c) /\ kept' = kept /\ c \in Names
    BY <1>1, NamesAre DEF CallRankInto
  <2>2. \A d \in Rankings : d # c => slots'[d] = slots[d]
    <3>1. slots \in [Rankings -> Seq(Result)]
      BY DEF RankerInv, FilledRight
    <3> QED
      BY <1>1, <3>1 DEF CallRankInto
  <2>3. c # "SelectBest" /\ c \notin {"SelectBestID", "SelectWeightedID"}
    BY DEF Rankings
  <2> QED
    BY <2>1, <2>2, <2>3, CallSelects
<1>2. CASE CallSelectBest
  <2>1. Call("SelectBest") /\ slots' = slots /\ kept' = kept /\ best' = Emptied(best) /\ "SelectBest" \in Names
    BY <1>2 DEF CallSelectBest, Names
  <2>2. Emptied(best).id = 0
    BY DEF Emptied, NoResult
  <2> QED
    BY <2>1, <2>2, CallSelects
<1>3. ASSUME NEW c \in {"SelectBestID", "SelectWeightedID"}, CallSelectID(c)
      PROVE  SelectorsInv'
  <2>1. Call(c) /\ slots' = slots /\ kept' = <<>> /\ top' = {} /\ c \in Names /\ c # "SelectBest"
    BY <1>3 DEF CallSelectID, Names
  <2> QED
    BY <2>1, CallSelects
<1> QED
  BY <1>1, <1>2, <1>3 DEF Rankings

\* A candidate fails: so does the selector.
LEMMA FailSelects ==
  ASSUME RankerInv, SelectorsInv, CandidateFails
  PROVE  SelectorsInv'
<1>1. /\ call \in Names /\ k \in 1..Len(request) /\ AnswersType
  BY SortsOnlyRankings DEF CandidateFails, RankerInv
<1>2. /\ answers' = [answers EXCEPT ![call] = Failure] /\ call' = "none" /\ slots' = slots
      /\ request' = request /\ ranker' = ranker /\ kept' = kept /\ Evaluation.error
  BY DEF CandidateFails, Return, asking
<1>3. answers'[call] = Failure /\ \A c \in Names : c # call => answers'[c] = answers[c]
  BY <1>1, <1>2, AnswerFields, Answering
<1>4. Evaluation = By(ranker, request[k], call)
  BY DEF Evaluation, Evaluated, Natively, Candidate, By
<1>5. FailsAt(ranker, request, call)
  BY <1>1, <1>2, <1>4 DEF FailsAt
<1>6. ToldRight(ranker, request, slots', call, answers'[call])
  <2>1. Failure.id = 0 /\ Failure.score = 0
    BY DEF Failure, NoAnswer
  <2> QED
    BY <1>3, <1>5, <2>1, AnswerFields DEF ToldRight
<1>7. AllTold'
  BY <1>1, <1>2, <1>3, <1>6, ToldKeeps DEF SelectorsInv
<1> QED
  BY <1>2, <1>7 DEF SelectorsInv, SoFar

\* A step of the sort concerns no answer.
LEMMA SortSelects ==
  ASSUME RankerInv, SelectorsInv, SortCandidates \/ SortStep \/ UNCHANGED vars
  PROVE  SelectorsInv'
<1>1. /\ request' = request /\ ranker' = ranker /\ call' = call /\ k' = k /\ slots' = slots
      /\ best' = best /\ kept' = kept /\ top' = top /\ answers' = answers
  BY DEF SortCandidates, SortStep, vars, asking
<1> QED
  BY <1>1 DEF SelectorsInv, AllTold, SoFar

\* A candidate is taken that did not fail.
LEMMA TakeSelects ==
  ASSUME RankerInv, SelectorsInv, call \in Names, k \in 1..Len(request),
         NEW e, e = By(ranker, request[k], call), Take(e),
         \A d \in Rankings : d # call => slots'[d] = slots[d],
         kept' \in Seq(Selections),
         call = "SelectBest" /\ Numbers(request) => BestOf(ranker, request, k, best'),
         call = "SelectBestID" /\ Numbers(request) => KeptOf(ranker, request, k, kept'),
         call = "SelectWeightedID" /\ Numbers(request) => TopOf(ranker, request, k, kept', top')
  PROVE  SelectorsInv'
<1>1. /\ ~e.error /\ k' = k + 1 /\ request' = request /\ ranker' = ranker /\ call' = call /\ answers' = answers
  BY DEF Take, asking
<1>2. call # "none" /\ ~answers[call].done /\ k \in Nat /\ Len(request) \in Nat
  BY SortsOnlyRankings DEF RankerInv, CallRight
<1>3. AllTold'
  <2>1. ToldRight(ranker, request, slots', call, answers'[call])
    BY <1>1, <1>2 DEF ToldRight
  <2> QED
    BY <1>1, <2>1, ToldKeeps DEF SelectorsInv
<1>4. NoneFailed(ranker, request, call, k)
  <2>1. NoneFailed(ranker, request, call, k - 1)
    BY <1>2 DEF SelectorsInv, SoFar, SoFarRight
  <2> SUFFICES ASSUME NEW n \in 1..Len(request), n <= k
               PROVE  ~By(ranker, request[n], call).error
    BY DEF NoneFailed
  <2>2. CASE n = k
    BY <1>1, <2>2
  <2>3. CASE n # k
    <3>1. n <= k - 1
      BY <1>2, <2>3
    <3> QED
      BY <2>1, <3>1 DEF NoneFailed
  <2> QED
    BY <2>2, <2>3
<1>5. SoFarRight(ranker, request, call, k, best', kept', top')
  BY <1>4 DEF SoFarRight
<1>6. k' - 1 = k
  BY <1>1, <1>2
<1>7. SoFar'
  BY <1>1, <1>5, <1>6 DEF SoFar
<1> QED
  BY <1>3, <1>7 DEF SelectorsInv

\* What is evaluated is what the selector that runs finds.
LEMMA EvaluationBy == Evaluation = By(ranker, request[k], call)
  BY DEF Evaluation, Evaluated, Natively, Candidate, By

\* RankInto takes a candidate.
LEMMA RankOneSelects ==
  ASSUME RankerInv, SelectorsInv, RankOne
  PROVE  SelectorsInv'
<1>1. call \in Rankings /\ call \in Names /\ k \in 1..Len(request)
  BY SortsOnlyRankings DEF RankOne, Rankings
<1>2. Take(Evaluation) /\ kept' = kept /\ \E new : slots' = [slots EXCEPT ![call][k] = new]
  BY DEF RankOne
<1>3. \A d \in Rankings : d # call => slots'[d] = slots[d]
  <2>1. slots \in [Rankings -> Seq(Result)]
    BY DEF RankerInv, FilledRight
  <2> QED
    BY <1>1, <1>2, <2>1
<1>4. call \notin {"SelectBest", "SelectBestID", "SelectWeightedID"} /\ kept' \in Seq(Selections)
  BY <1>1, <1>2 DEF Rankings, SelectorsInv
<1> QED
  BY <1>1, <1>2, <1>3, <1>4, EvaluationBy, TakeSelects

-----------------------------------------------------------------------------
\* SelectBest.

\* Results compare as what they tell of.
LEMMA BetterAlike ==
  ASSUME NEW r, NEW s, NEW c, NEW d, NEW e, NEW f, Tells(r, c, e), Tells(s, d, f)
  PROVE  betterCandidate(r, s) = betterCandidate(Standing(c, e), Standing(d, f))
<1> DEFINE a == Standing(c, e)
           b == Standing(d, f)
<1>1. /\ r.id = a.id /\ r.eligible = a.eligible /\ r.score = a.score /\ r.priority = a.priority
      /\ r.specificity = a.specificity /\ r.fallback = a.fallback /\ r.cost = a.cost
  BY DEF Tells, Standing
<1>2. /\ s.id = b.id /\ s.eligible = b.eligible /\ s.score = b.score /\ s.priority = b.priority
      /\ s.specificity = b.specificity /\ s.fallback = b.fallback /\ s.cost = b.cost
  BY DEF Tells, Standing
<1> HIDE DEF a, b
<1>3. betterCandidate(r, s) = betterCandidate(a, b)
  BY <1>1, <1>2 DEF betterCandidate
<1> QED
  BY <1>3 DEF a, b

\* SelectBestInto takes a candidate: what it has is the best so far.
LEMMA ConsiderBestSelects ==
  ASSUME RankerInv, SelectorsInv, ConsiderBest
  PROVE  SelectorsInv'
<1>1. /\ call = "SelectBest" /\ call \in Names /\ call \notin Rankings /\ k \in 1..Len(request)
      /\ AskedRight /\ FilledRight
  BY SortsOnlyRankings DEF ConsiderBest, Names, Rankings, RankerInv
<1> DEFINE e == By(ranker, request[k], "SelectBest")
           into == rankCandidateInto(heap, current, request[k], Found(ranker, request[k]))
<1>2. Evaluation = Found(ranker, request[k]) /\ Evaluation = e
  BY <1>1, EvaluationIs, EvaluationBy
<1>3. /\ Take(e) /\ slots' = slots /\ kept' = kept /\ current' = into.result
      /\ best' = IF current'.eligible /\ (best.id = 0 \/ betterCandidate(current', best)) THEN current' ELSE best
  <2>1. /\ Take(Evaluation) /\ slots' = slots /\ kept' = kept
        /\ best' = IF current'.eligible /\ (best.id = 0 \/ betterCandidate(current', best)) THEN current' ELSE best
    BY DEF ConsiderBest
  <2>2. \E v \in {rankCandidateInto(heap, current, Candidate, Evaluation)} : current' = v.result
    BY DEF ConsiderBest
  <2>3. rankCandidateInto(heap, current, Candidate, Evaluation) = into
    BY <1>2 DEF Candidate
  <2> HIDE DEF into, e
  <2> QED
    BY <1>2, <2>1, <2>2, <2>3
<1>4. Tells(current', request[k], e)
  <2>1. into = rankCandidateInto(heap, current, request[k], Found(ranker, request[k]))
    OBVIOUS
  <2> HIDE DEF into
  <2>2. Owned(into.heap, ranker, request, into.result, k)
    BY <1>1, <2>1, FillCurrent
  <2> HIDE DEF e
  <2> QED
    BY <1>2, <1>3, <2>2 DEF Owned
<1>5. e.eligible \in BOOLEAN /\ current'.eligible = e.eligible
  BY <1>1, <1>4, ByField DEF Tells
<1>6. ASSUME Numbers(request)
      PROVE  BestOf(ranker, request, k, best')
  <2>1. BestOf(ranker, request, k - 1, best)
    BY <1>1, <1>6 DEF SelectorsInv, SoFar, SoFarRight
  <2>2. k \in 1..k /\ \A n \in 1 .. k - 1 : n \in 1..k /\ n \in 1..Len(request)
    BY <1>1, SortsOnlyRankings
  <2>3. CASE best.id = 0 /\ NoneUpTo(ranker, request, "SelectBest", k - 1)
    <3>1. CASE e.eligible
      <4>1. best' = current' /\ Leads(ranker, request, "SelectBest", k, k)
        BY <1>1, <1>3, <1>5, <1>6, <2>3, <3>1, LeadStep
      <4> QED
        BY <1>4, <2>2, <4>1 DEF BestOf
    <3>2. CASE ~e.eligible
      <4>1. best' = best /\ NoneUpTo(ranker, request, "SelectBest", k)
        BY <1>1, <1>3, <1>5, <1>6, <2>3, <3>2, LeadStep
      <4> QED
        BY <2>3, <4>1 DEF BestOf
    <3> QED
      BY <3>1, <3>2
  <2>4. ASSUME NEW n \in 1 .. k - 1, Leads(ranker, request, "SelectBest", k - 1, n),
               Tells(best, request[n], By(ranker, request[n], "SelectBest"))
        PROVE  BestOf(ranker, request, k, best')
    <3>1. best.id # 0
      <4>1. n \in 1..Len(request)
        BY <2>2
      <4>2. request[n].id \in Nat \ {0}
        BY <1>1, <4>1, CandidateIs
      <4> QED
        BY <2>4, <4>2 DEF Tells
    <3>2. betterCandidate(current', best) = Before(ranker, request, "SelectBest", k, n)
      BY <1>4, <2>4, BetterAlike DEF Before
    <3>3. CASE e.eligible /\ Before(ranker, request, "SelectBest", k, n)
      <4>1. best' = current' /\ Leads(ranker, request, "SelectBest", k, k)
        BY <1>1, <1>3, <1>5, <1>6, <2>4, <3>2, <3>3, LeadStep
      <4> QED
        BY <1>4, <2>2, <4>1 DEF BestOf
    <3>4. CASE ~(e.eligible /\ Before(ranker, request, "SelectBest", k, n))
      <4>1. best' = best
        BY <1>3, <1>5, <3>1, <3>2, <3>4
      <4>2. Leads(ranker, request, "SelectBest", k, n)
        BY <1>1, <1>6, <2>4, <3>4, LeadStep
      <4> QED
        BY <2>2, <2>4, <4>1, <4>2 DEF BestOf
    <3> QED
      BY <3>3, <3>4
  <2> QED
    BY <2>1, <2>3, <2>4 DEF BestOf
<1>7. kept' \in Seq(Selections)
  BY <1>3 DEF SelectorsInv
<1> HIDE DEF e
<1>8. e = By(ranker, request[k], call)
  BY <1>1 DEF e
<1> QED
  BY <1>1, <1>3, <1>6, <1>7, <1>8, TakeSelects

-----------------------------------------------------------------------------
\* SelectBestID.

\* What is kept of a candidate shows what it is compared by.
LEMMA SelectionIs ==
  ASSUME AskedRight, NEW n \in 1..Len(request), NEW e \in Finding, NEW s, s = SelectionOf(request[n], e)
  PROVE  s \in Selections /\ Shows(s, request[n], e)
<1> DEFINE c == request[n]
           v == compareValues(c)
           w == nativeFloat(c, "weight", 0)
           x == IF w <= 0 THEN 1 ELSE w
<1>1. c \in Candidates /\ c.id \in Nat
  BY CandidateIs
<1>2. v \in [priority : Int, specificity : Int, fallback : Int, cost : Int]
  BY <1>1, CompareType
<1>3. w \in Int
  BY <1>1, FloatType
<1>4. x \in Int
  BY <1>3
<1>5. e.score \in Int
  BY DEF Finding
<1>6. s = [id |-> c.id, score |-> e.score, priority |-> v.priority, specificity |-> v.specificity,
           fallback |-> v.fallback, cost |-> v.cost, weight |-> x]
  BY DEF SelectionOf
<1> HIDE DEF c, w, x
<1>7. /\ v.priority \in Int /\ v.specificity \in Int /\ v.fallback \in Int /\ v.cost \in Int
  BY <1>2
<1> HIDE DEF v
<1>8. s \in Selections
  BY <1>1, <1>4, <1>5, <1>6, <1>7 DEF Selections
<1>9. /\ s.id = c.id /\ s.score = e.score /\ s.priority = v.priority /\ s.specificity = v.specificity
      /\ s.fallback = v.fallback /\ s.cost = v.cost
  BY <1>6
<1> QED
  BY <1>8, <1>9 DEF Shows, v, c

\* What is kept of eligible candidates compares as they do.
LEMMA SelectionAlike ==
  ASSUME NEW r, NEW s, NEW c, NEW d, NEW e, NEW f, Shows(r, c, e), Shows(s, d, f), e.eligible = f.eligible
  PROVE  betterSelection(r, s) = betterCandidate(Standing(c, e), Standing(d, f))
<1> DEFINE a == Standing(c, e)
           b == Standing(d, f)
<1>1. /\ r.id = a.id /\ a.eligible = b.eligible /\ r.score = a.score /\ r.priority = a.priority
      /\ r.specificity = a.specificity /\ r.fallback = a.fallback /\ r.cost = a.cost
  BY DEF Shows, Standing
<1>2. /\ s.id = b.id /\ s.score = b.score /\ s.priority = b.priority
      /\ s.specificity = b.specificity /\ s.fallback = b.fallback /\ s.cost = b.cost
  BY DEF Shows, Standing
<1> HIDE DEF a, b
<1>3. betterSelection(r, s) = betterCandidate(a, b)
  BY <1>1, <1>2 DEF betterCandidate, betterSelection
<1> QED
  BY <1>3 DEF a, b

\* SelectBestID takes a candidate: what it keeps is the best so far.
LEMMA KeepBestSelects ==
  ASSUME RankerInv, SelectorsInv, KeepBest
  PROVE  SelectorsInv'
<1>1. /\ call = "SelectBestID" /\ call \in Names /\ call \notin Rankings /\ k \in 1..Len(request) /\ AskedRight
  BY SortsOnlyRankings DEF KeepBest, Names, Rankings, RankerInv
<1> DEFINE e == By(ranker, request[k], "SelectBestID")
           s == SelectionOf(request[k], e)
<1>2. Evaluation = e
  BY <1>1, EvaluationBy
<1>3. /\ Take(e) /\ slots' = slots
      /\ kept' = IF e.eligible /\ (kept = <<>> \/ betterSelection(s, kept[1])) THEN <<s>> ELSE kept
  BY <1>2 DEF KeepBest, Candidate
<1>4. e \in Finding /\ e = By(ranker, request[k], "SelectBestID")
  BY <1>1, ByType
<1> HIDE DEF e
<1>5. s \in Selections /\ Shows(s, request[k], e)
  BY <1>1, <1>4, SelectionIs
<1> HIDE DEF s
<1>6. e.eligible \in BOOLEAN
  BY <1>4 DEF Finding
<1>7. ASSUME Numbers(request)
      PROVE  KeptOf(ranker, request, k, kept')
  <2>1. KeptOf(ranker, request, k - 1, kept)
    BY <1>1, <1>7 DEF SelectorsInv, SoFar, SoFarRight
  <2>2. k \in 1..k /\ \A n \in 1 .. k - 1 : n \in 1..k /\ n \in 1..Len(request)
    BY <1>1, SortsOnlyRankings
  <2>3. ASSUME kept' = <<s>>, Leads(ranker, request, "SelectBestID", k, k)
        PROVE  KeptOf(ranker, request, k, kept')
    <3>1. <<s>> # <<>> /\ <<s>>[1] = s
      OBVIOUS
    <3> QED
      BY <1>4, <1>5, <2>2, <2>3, <3>1 DEF KeptOf
  <2>4. CASE kept = <<>> /\ NoneUpTo(ranker, request, "SelectBestID", k - 1)
    <3>1. CASE e.eligible
      <4>1. kept' = <<s>> /\ Leads(ranker, request, "SelectBestID", k, k)
        BY <1>1, <1>3, <1>4, <1>7, <2>4, <3>1, LeadStep
      <4> QED
        BY <2>3, <4>1
    <3>2. CASE ~e.eligible
      <4>1. kept' = kept /\ NoneUpTo(ranker, request, "SelectBestID", k)
        BY <1>1, <1>3, <1>4, <1>7, <2>4, <3>2, LeadStep
      <4> QED
        BY <2>4, <4>1 DEF KeptOf
    <3> QED
      BY <3>1, <3>2
  <2>5. ASSUME NEW n \in 1 .. k - 1, Leads(ranker, request, "SelectBestID", k - 1, n),
               kept # <<>>, Shows(kept[1], request[n], By(ranker, request[n], "SelectBestID"))
        PROVE  KeptOf(ranker, request, k, kept')
    <3>1. By(ranker, request[n], "SelectBestID").eligible = TRUE
      <4>1. By(ranker, request[n], "SelectBestID").eligible \in BOOLEAN
        BY <1>1, <2>2, ByField
      <4> QED
        BY <2>5, <4>1 DEF Leads
    <3>2. CASE ~e.eligible
      <4>1. kept' = kept /\ Leads(ranker, request, "SelectBestID", k, n)
        BY <1>1, <1>3, <1>4, <1>7, <2>5, <3>2, LeadStep
      <4> QED
        BY <2>2, <2>5, <4>1 DEF KeptOf
    <3>3. CASE e.eligible = TRUE
      <4>1. betterSelection(s, kept[1]) = Before(ranker, request, "SelectBestID", k, n)
        <5> DEFINE f == By(ranker, request[n], "SelectBestID")
                   r == kept[1]
        <5>1. Shows(r, request[n], f) /\ f.eligible = TRUE
          BY <2>5, <3>1
        <5>2. Before(ranker, request, "SelectBestID", k, n) = betterCandidate(Standing(request[k], e), Standing(request[n], f))
          BY <1>4 DEF Before
        <5> HIDE DEF f, r
        <5>3. e.eligible = f.eligible
          BY <3>3, <5>1
        <5>4. betterSelection(s, r) = betterCandidate(Standing(request[k], e), Standing(request[n], f))
          BY <1>5, <5>1, <5>3, SelectionAlike
        <5> QED
          BY <5>2, <5>4 DEF r
      <4>2. CASE Before(ranker, request, "SelectBestID", k, n)
        <5>1. kept' = <<s>>
          BY <1>3, <3>3, <4>1, <4>2
        <5>2. Leads(ranker, request, "SelectBestID", k, k)
          BY <1>1, <1>4, <1>7, <2>5, <3>3, <4>2, LeadStep
        <5> QED
          BY <2>3, <5>1, <5>2
      <4>3. CASE ~Before(ranker, request, "SelectBestID", k, n)
        <5>1. kept' = kept
          BY <1>3, <2>5, <3>3, <4>1, <4>3
        <5>2. Leads(ranker, request, "SelectBestID", k, n)
          BY <1>1, <1>4, <1>7, <2>5, <4>3, LeadStep
        <5>3. n \in 1..k
          BY <2>2
        <5> QED
          BY <2>5, <5>1, <5>2, <5>3 DEF KeptOf
      <4> QED
        BY <4>2, <4>3
    <3> QED
      BY <1>6, <3>2, <3>3
  <2> QED
    BY <2>1, <2>4, <2>5 DEF KeptOf
<1>8. kept' \in Seq(Selections)
  <2>1. kept \in Seq(Selections) /\ <<s>> \in Seq(Selections)
    BY <1>5 DEF SelectorsInv
  <2> QED
    BY <1>3, <2>1
<1>9. e = By(ranker, request[k], call)
  BY <1>1, <1>4
<1> QED
  BY <1>1, <1>3, <1>7, <1>8, <1>9, TakeSelects

-----------------------------------------------------------------------------
\* SelectWeightedID.

\* How ranks compare.
LEMMA RanksCompare ==
  ASSUME AskedRight, Numbers(request), NEW m \in 1..Len(request), NEW n \in 1..Len(request), NEW o \in 1..Len(request)
  PROVE  /\ Higher(request[m], request[n]) => ~Higher(request[n], request[m])
         /\ SameRank(request[m], request[m])
         /\ SameRank(request[m], request[n]) => /\ ~Higher(request[m], request[n]) /\ ~Higher(request[n], request[m])
                                                /\ SameRank(request[n], request[m])
         /\ SameRank(request[m], request[n]) /\ ~Higher(request[o], request[n]) => ~Higher(request[o], request[m])
         /\ ~Higher(request[m], request[n]) /\ ~Higher(request[n], request[m]) => SameRank(request[m], request[n])
         /\ SameRank(request[m], request[n]) /\ SameRank(request[n], request[o]) => SameRank(request[m], request[o])
<1> DEFINE P(x) == compareValues(request[x]).priority
           S(x) == compareValues(request[x]).specificity
<1>1. /\ P(m) \in Int /\ P(n) \in Int /\ P(o) \in Int /\ S(m) \in Int /\ S(n) \in Int /\ S(o) \in Int
  BY ValuesAre
<1>2. \A x, y : Higher(request[x], request[y]) <=> P(x) > P(y) \/ (P(x) = P(y) /\ S(x) > S(y))
  BY DEF Higher
<1>3. \A x, y : SameRank(request[x], request[y]) <=> P(x) = P(y) /\ S(x) = S(y)
  BY DEF SameRank
<1> HIDE DEF P, S
<1> QED
  BY <1>1, <1>2, <1>3

\* What was kept is of the highest rank still, unless one comes that is higher.
LEMMA KeptKeeps ==
  ASSUME AskedRight, Numbers(request), NEW u \in 1..Len(request), NEW n \in 1 .. u - 1, NEW s,
         OfRank(ranker, request, u - 1, s, n),
         ~By(ranker, request[u], "SelectWeightedID").eligible \/ ~Higher(request[u], request[n])
  PROVE  OfRank(ranker, request, u, s, n)
<1>1. PICK m \in 1 .. u - 1 : /\ Tops(ranker, request, u - 1, m) /\ SameRank(request[m], request[n]) /\ s.id = request[m].id
  BY DEF OfRank
<1>2. m \in 1..Len(request) /\ n \in 1..Len(request) /\ m \in 1..u
  BY LengthOfRequest DEF AskedRight
<1>3. ~Higher(request[u], request[n]) => ~Higher(request[u], request[m])
  BY <1>1, <1>2, RanksCompare
<1>4. Tops(ranker, request, u, m)
  BY <1>1, <1>3, TopStep
<1> QED
  BY <1>1, <1>2, <1>4 DEF OfRank

\* What KeepTop does: rank is that of the candidate, and higher whether it is above the one kept.
KeepsTop(s, eligible, rank, higher) ==
  /\ ~eligible => kept' = kept /\ top' = top
  /\ eligible => /\ top' = IF higher THEN {rank} ELSE top
                 /\ kept' = (IF higher THEN <<>> ELSE kept)
                            \o (IF rank \in top' /\ NotANumber \notin {s.priority, s.specificity} THEN <<s>> ELSE <<>>)

IsHigher(s, tops) ==
  \A t \in tops : \/ Above(s.priority, t.priority)
                  \/ ~Differ(s.priority, t.priority) /\ Above(s.specificity, t.specificity)

\* SelectWeightedID takes a candidate: those it keeps are of the highest rank so far.
LEMMA KeepTopSelects ==
  ASSUME RankerInv, SelectorsInv, KeepTop
  PROVE  SelectorsInv'
<1>1. /\ call = "SelectWeightedID" /\ call \in Names /\ call \notin Rankings /\ k \in 1..Len(request) /\ AskedRight
  BY SortsOnlyRankings DEF KeepTop, Names, Rankings, RankerInv
<1> DEFINE e == By(ranker, request[k], "SelectWeightedID")
           s == SelectionOf(request[k], e)
           rank == [priority |-> s.priority, specificity |-> s.specificity]
           higher == IsHigher(s, top)
<1>2. Evaluation = e
  BY <1>1, EvaluationBy
<1>3. Take(e) /\ slots' = slots /\ KeepsTop(s, e.eligible, rank, higher)
  <2>1. slots' = slots
    BY DEF KeepTop
  <2>2. \E f \in {e} : \E t \in {SelectionOf(request[k], f)} :
           Take(f) /\ KeepsTop(t, f.eligible, [priority |-> t.priority, specificity |-> t.specificity], IsHigher(t, top))
    BY <1>2 DEF KeepTop, Candidate, KeepsTop, IsHigher
  <2> QED
    BY <2>1, <2>2
<1>4. e \in Finding /\ e = By(ranker, request[k], "SelectWeightedID")
  BY <1>1, ByType
<1> HIDE DEF e
<1>5. s \in Selections /\ Shows(s, request[k], e)
  BY <1>1, <1>4, SelectionIs
<1>6. e.eligible \in BOOLEAN
  BY <1>4 DEF Finding
<1> HIDE DEF s
<1>7. rank = RankOf(request[k])
  BY <1>5 DEF Shows, RankOf
<1> HIDE DEF rank, higher
<1>8. kept' \in Seq(Selections)
  <2>1. kept \in Seq(Selections) /\ <<s>> \in Seq(Selections) /\ <<>> \in Seq(Selections)
    BY <1>5 DEF SelectorsInv
  <2>2. \A a, b \in Seq(Selections) : a \o b \in Seq(Selections)
    OBVIOUS
  <2> QED
    BY <1>3, <1>6, <2>1, <2>2 DEF KeepsTop
<1>9. ASSUME Numbers(request)
      PROVE  TopOf(ranker, request, k, kept', top')
  <2>1. TopOf(ranker, request, k - 1, kept, top)
    BY <1>1, <1>9 DEF SelectorsInv, SoFar, SoFarRight
  <2>2. k \in Nat /\ k \in 1..k /\ \A n \in 1 .. k - 1 : n \in 1..k /\ n \in 1..Len(request)
    BY <1>1, SortsOnlyRankings
  <2>3. /\ s.priority = compareValues(request[k]).priority /\ s.specificity = compareValues(request[k]).specificity
        /\ s.priority \in Int /\ s.specificity \in Int /\ NotANumber \notin {s.priority, s.specificity}
        /\ s.id = request[k].id
    <3>1. /\ s.priority = compareValues(request[k]).priority /\ s.specificity = compareValues(request[k]).specificity
          /\ s.id = request[k].id
      BY <1>5 DEF Shows
    <3>2. /\ compareValues(request[k]).priority \in Int /\ compareValues(request[k]).specificity \in Int
          /\ compareValues(request[k]).priority # NotANumber /\ compareValues(request[k]).specificity # NotANumber
      BY <1>1, <1>9, ValuesAre
    <3> QED
      BY <3>1, <3>2
  <2>4. SameRank(request[k], request[k])
    BY DEF SameRank
  <2>5. ASSUME kept' = <<s>>, top' = {rank}, Tops(ranker, request, k, k)
        PROVE  TopOf(ranker, request, k, kept', top')
    <3>1. <<s>> # <<>> /\ Len(<<s>>) = 1 /\ <<s>>[1] = s
      OBVIOUS
    <3>2. OfRank(ranker, request, k, s, k)
      BY <2>2, <2>3, <2>4, <2>5 DEF OfRank
    <3>3. \A x \in 1..Len(kept') : OfRank(ranker, request, k, kept'[x], k)
      BY <2>5, <3>1, <3>2
    <3> QED
      BY <1>7, <2>2, <2>5, <3>1, <3>3 DEF TopOf
  <2>6. CASE kept = <<>> /\ top = {} /\ NoneUpTo(ranker, request, "SelectWeightedID", k - 1)
    <3>1. CASE e.eligible
      <4>1. higher
        BY <2>6 DEF higher, IsHigher
      <4>2. top' = {rank}
        BY <1>3, <3>1, <4>1 DEF KeepsTop
      <4>3. kept' = <<>> \o <<s>>
        BY <1>3, <2>3, <3>1, <4>1, <4>2 DEF KeepsTop
      <4>4. kept' = <<s>>
        BY <4>3
      <4>5. Tops(ranker, request, k, k)
        BY <1>1, <1>4, <1>9, <2>6, <3>1, TopStep
      <4> QED
        BY <2>5, <4>2, <4>4, <4>5
    <3>2. CASE ~e.eligible
      <4>1. kept' = <<>> /\ top' = {}
        BY <1>3, <2>6, <3>2 DEF KeepsTop
      <4>2. NoneUpTo(ranker, request, "SelectWeightedID", k)
        BY <1>1, <1>4, <1>9, <2>6, <3>2, LeadStep
      <4> QED
        BY <4>1, <4>2 DEF TopOf
    <3> QED
      BY <3>1, <3>2
  <2>7. ASSUME NEW n \in 1 .. k - 1, Tops(ranker, request, k - 1, n), top = {RankOf(request[n])}, kept # <<>>,
               \A x \in 1..Len(kept) : OfRank(ranker, request, k - 1, kept[x], n)
        PROVE  TopOf(ranker, request, k, kept', top')
    <3>0. n \in 1..k /\ n \in 1..Len(request)
      BY <2>2
    <3>1. higher <=> Higher(request[k], request[n])
      <4> DEFINE t == RankOf(request[n])
      <4>1. /\ t.priority = compareValues(request[n]).priority /\ t.specificity = compareValues(request[n]).specificity
        BY DEF RankOf
      <4>2. /\ t.priority \in Int /\ t.specificity \in Int /\ t.priority # NotANumber /\ t.specificity # NotANumber
        BY <1>1, <1>9, <3>0, <4>1, ValuesAre
      <4> HIDE DEF t
      <4>3. higher <=> \/ Above(s.priority, t.priority)
                       \/ ~Differ(s.priority, t.priority) /\ Above(s.specificity, t.specificity)
        BY <2>7 DEF higher, IsHigher, t
      <4>4. /\ Above(s.priority, t.priority) <=> s.priority > t.priority
            /\ Above(s.specificity, t.specificity) <=> s.specificity > t.specificity
            /\ Differ(s.priority, t.priority) <=> s.priority # t.priority
        BY <2>3, <4>2 DEF Above, Differ
      <4>5. Higher(request[k], request[n]) <=>
              \/ s.priority > t.priority \/ (s.priority = t.priority /\ s.specificity > t.specificity)
        BY <2>3, <4>1 DEF Higher
      <4> QED
        BY <4>3, <4>4, <4>5
    <3>2. rank \in top <=> SameRank(request[k], request[n])
      <4>1. rank \in top <=> RankOf(request[k]) = RankOf(request[n])
        BY <1>7, <2>7
      <4> QED
        BY <4>1 DEF RankOf, SameRank
    <3>3. ASSUME ~e.eligible \/ ~Higher(request[k], request[n])
          PROVE  /\ Tops(ranker, request, k, n)
                 /\ \A x \in 1..Len(kept) : OfRank(ranker, request, k, kept[x], n)
      <4>1. Tops(ranker, request, k, n)
        BY <1>1, <1>4, <1>9, <2>7, <3>3, TopStep
      <4>2. ASSUME NEW x \in 1..Len(kept)
            PROVE  OfRank(ranker, request, k, kept[x], n)
        BY <1>1, <1>4, <1>9, <2>7, <3>3, KeptKeeps
      <4> QED
        BY <4>1, <4>2
    <3>4. ASSUME kept' = kept, top' = top, ~e.eligible \/ ~Higher(request[k], request[n])
          PROVE  TopOf(ranker, request, k, kept', top')
      BY <2>7, <3>0, <3>3, <3>4 DEF TopOf
    <3>5. CASE ~e.eligible
      <4>1. kept' = kept /\ top' = top
        BY <1>3, <3>5 DEF KeepsTop
      <4> QED
        BY <3>4, <3>5, <4>1
    <3>6. CASE e.eligible /\ Higher(request[k], request[n])
      <4>1. top' = {rank}
        BY <1>3, <3>1, <3>6 DEF KeepsTop
      <4>2. kept' = <<>> \o <<s>>
        BY <1>3, <2>3, <3>1, <3>6, <4>1 DEF KeepsTop
      <4>3. kept' = <<s>>
        BY <4>2
      <4>4. ~Higher(request[n], request[k])
        BY <1>1, <1>9, <3>0, <3>6, RanksCompare
      <4>5. Tops(ranker, request, k, k)
        BY <1>1, <1>4, <1>9, <2>7, <3>6, <4>4, TopStep
      <4> QED
        BY <2>5, <4>1, <4>3, <4>5
    <3>7. CASE e.eligible /\ ~Higher(request[k], request[n]) /\ ~SameRank(request[k], request[n])
      <4>1. top' = top
        BY <1>3, <3>1, <3>7 DEF KeepsTop
      <4>2. kept' = kept \o <<>>
        BY <1>3, <3>1, <3>2, <3>7, <4>1 DEF KeepsTop
      <4>3. kept' = kept
        BY <4>2 DEF SelectorsInv
      <4> QED
        BY <3>4, <3>7, <4>1, <4>3
    <3>8. CASE e.eligible /\ ~Higher(request[k], request[n]) /\ SameRank(request[k], request[n])
      <4>1. top' = top
        BY <1>3, <3>1, <3>8 DEF KeepsTop
      <4>2. kept' = kept \o <<s>>
        BY <1>3, <2>3, <3>1, <3>2, <3>8, <4>1 DEF KeepsTop
      <4>3. /\ kept \in Seq(Selections) /\ kept' # <<>> /\ Len(kept') = Len(kept) + 1 /\ Len(kept) \in Nat
            /\ kept'[Len(kept) + 1] = s /\ \A x \in 1..Len(kept) : kept'[x] = kept[x]
        <5>1. kept \in Seq(Selections)
          BY DEF SelectorsInv
        <5> QED
          BY <1>5, <4>2, <5>1
      <4>4. ~Higher(request[n], request[k])
        BY <1>1, <1>9, <3>0, <3>8, RanksCompare
      <4>5. Tops(ranker, request, k, k)
        BY <1>1, <1>4, <1>9, <2>7, <3>8, <4>4, TopStep
      <4>6. OfRank(ranker, request, k, s, n)
        BY <2>2, <2>3, <3>8, <4>5 DEF OfRank
      <4>7. ASSUME NEW x \in 1..Len(kept')
            PROVE  OfRank(ranker, request, k, kept'[x], n)
        <5>1. CASE x = Len(kept) + 1
          BY <4>3, <4>6, <5>1
        <5>2. CASE x # Len(kept) + 1
          <6>1. x \in 1..Len(kept)
            BY <4>3, <5>2
          <6> QED
            BY <3>3, <3>8, <4>3, <6>1
        <5> QED
          BY <5>1, <5>2
      <4> QED
        BY <2>7, <3>0, <3>3, <3>8, <4>1, <4>3, <4>7 DEF TopOf
    <3> QED
      BY <1>6, <3>5, <3>6, <3>7, <3>8
  <2> QED
    BY <2>1, <2>6, <2>7 DEF TopOf
<1>10. e = By(ranker, request[k], call)
  BY <1>1, <1>4
<1> QED
  BY <1>1, <1>3, <1>8, <1>9, <1>10, TakeSelects

-----------------------------------------------------------------------------
\* The selectors answer.

\* When all candidates are taken, none has failed.
LEMMA AllSelected ==
  ASSUME RankerInv, SelectorsInv, AllTaken
  PROVE  /\ call \in Names /\ k - 1 = Len(request) /\ AskedRight /\ AnswersType
         /\ ~FailsAt(ranker, request, call)
         /\ SoFarRight(ranker, request, call, Len(request), best, kept, top)
<1>1. /\ call \in Names /\ k \in Nat /\ Len(request) \in Nat /\ k > Len(request) /\ k <= Len(request) + 1
      /\ AskedRight /\ AnswersType /\ call # "none"
  BY SortsOnlyRankings DEF AllTaken, RankerInv, CallRight
<1>2. k - 1 = Len(request)
  BY <1>1
<1>3. SoFarRight(ranker, request, call, Len(request), best, kept, top)
  BY <1>1, <1>2 DEF SelectorsInv, SoFar
<1>4. NoneFailed(ranker, request, call, Len(request))
  BY <1>3 DEF SoFarRight
<1>5. ~FailsAt(ranker, request, call)
  BY <1>1, <1>4 DEF NoneFailed, FailsAt
<1> QED
  BY <1>1, <1>2, <1>3, <1>5

\* A selector answers right.
LEMMA ReturnSelects ==
  ASSUME RankerInv, SelectorsInv, AllTaken, NEW a, Replied(a), a.done, ~a.error, Return(a),
         \A d \in Rankings : d # call => slots'[d] = slots[d],
         call \in Rankings => HeadIs(request, slots'[call], a),
         Numbers(request) /\ call \in {"SelectBest", "SelectBestID"} => Won(ranker, request, call, a),
         Numbers(request) /\ call = "SelectWeightedID" => Weighed(ranker, request, a)
  PROVE  SelectorsInv'
<1>1. call \in Names /\ AnswersType /\ ~FailsAt(ranker, request, call)
  BY AllSelected
<1>2. /\ answers' = [answers EXCEPT ![call] = a] /\ call' = "none"
      /\ request' = request /\ ranker' = ranker /\ kept' = kept
  BY DEF Return, asking
<1>3. answers'[call] = a /\ \A c \in Names : c # call => answers'[c] = answers[c]
  BY <1>1, <1>2, Answering
<1>4. ToldRight(ranker, request, slots', call, answers'[call])
  BY <1>1, <1>3 DEF ToldRight
<1>5. AllTold'
  BY <1>1, <1>2, <1>3, <1>4, ToldKeeps DEF SelectorsInv
<1> QED
  BY <1>2, <1>5 DEF SelectorsInv, SoFar

\* RankInto answers with the first of what it has sorted.
LEMMA RankIntoReturnsSelects ==
  ASSUME RankerInv, SelectorsInv, RankIntoReturns
  PROVE  SelectorsInv'
<1>1. /\ call \in Rankings /\ items \in Seq(Result) /\ Len(items) = Len(request)
      /\ \A x \in 1..Len(request) : slots'[call][x] = items[x]
      /\ \A d \in Rankings : d # call => slots'[d] = slots[d]
  BY ReturnedSlots
<1>2. AllTaken
  <2>1. sorting # "idle"
    BY DEF RankIntoReturns
  <2>2. k = Len(request) + 1 /\ call # "none" /\ Len(request) \in Nat
    BY <1>1, <2>1, SortsOnlyRankings DEF RankerInv, CallRight, Rankings
  <2> QED
    BY <2>2 DEF AllTaken
<1>3. HeadIs(request, slots'[call], WinnerOf)
  <2>1. Len(request) \in Nat
    BY SortsOnlyRankings
  <2>2. CASE items = <<>>
    <3>1. Len(request) = 0
      BY <1>1, <2>2
    <3>2. WinnerOf = Nothing
      BY <2>2 DEF WinnerOf, HasWinner
    <3> QED
      BY <3>1, <3>2, AnswerFields DEF HeadIs
  <2>3. CASE items # <<>>
    <3>1. Len(request) > 0 /\ slots'[call][1] = items[1]
      BY <1>1, <2>1, <2>3
    <3>2. WinnerOf = IF items[1].eligible THEN Answer(items[1]) ELSE Nothing
      BY <2>3 DEF WinnerOf, HasWinner
    <3> QED
      BY <3>1, <3>2, AnswerFields DEF HeadIs
  <2> QED
    BY <2>2, <2>3
<1>4. \E a : /\ Replied(a) /\ a.done /\ ~a.error /\ Return(a)
             /\ HeadIs(request, slots'[call], a)
  <2>1. CASE call = "Rank"
    <3>1. Return(WinnerOf)
      BY <2>1 DEF RankIntoReturns
    <3> QED
      BY <1>3, <3>1, WinnerIs
  <2>2. CASE call # "Rank"
    <3>1. PICK limit \in Limits : Return([WinnerOf EXCEPT !.limit = limit, !.rest = Fallbacks(limit)])
      BY <2>2 DEF RankIntoReturns
    <3> DEFINE a == Told(limit, Fallbacks(limit))
    <3>2. Return(a) /\ a = Told(limit, Fallbacks(limit))
      BY <3>1 DEF Told
    <3> HIDE DEF a
    <3>3. a.id = WinnerOf.id /\ a.score = WinnerOf.score /\ Replied(a) /\ a.done /\ ~a.error
      BY <3>2, ToldIs
    <3>4. HeadIs(request, slots'[call], a)
      BY <1>3, <3>3 DEF HeadIs
    <3> QED
      BY <3>2, <3>3, <3>4
  <2> QED
    BY <2>1, <2>2
<1>5. call \notin {"SelectBest", "SelectBestID"} /\ call # "SelectWeightedID"
  BY <1>1 DEF Rankings
<1> QED
  BY <1>1, <1>2, <1>4, <1>5, ReturnSelects

\* SelectBestInto answers with the best of all, if there is one.
LEMMA SelectBestReturnsSelects ==
  ASSUME RankerInv, SelectorsInv, SelectBestReturns
  PROVE  SelectorsInv'
<1> DEFINE a == IF best.id = 0 THEN Nothing ELSE Answer(best)
<1>1. call = "SelectBest" /\ AllTaken /\ Return(a) /\ slots' = slots
  BY DEF SelectBestReturns
<1>2. /\ Replied(a) /\ a.done /\ ~a.error
      /\ best.id = 0 => a.id = 0 /\ a.score = 0
      /\ best.id # 0 => a.id = best.id /\ a.score = best.score
  BY AnswerFields
<1> HIDE DEF a
<1>3. ASSUME Numbers(request)
      PROVE  Won(ranker, request, "SelectBest", a)
  <2>1. BestOf(ranker, request, Len(request), best) /\ AskedRight
    BY <1>1, <1>3, AllSelected DEF SoFarRight
  <2>2. CASE best.id = 0 /\ NoneUpTo(ranker, request, "SelectBest", Len(request))
    BY <1>2, <2>2 DEF Won
  <2>3. ASSUME NEW n \in 1..Len(request), Leads(ranker, request, "SelectBest", Len(request), n),
               Tells(best, request[n], By(ranker, request[n], "SelectBest"))
        PROVE  Won(ranker, request, "SelectBest", a)
    <3>1. request[n].id \in Nat \ {0}
      BY <2>1, CandidateIs
    <3>2. best.id = request[n].id /\ best.score = By(ranker, request[n], "SelectBest").score
      BY <2>3 DEF Tells
    <3>3. a.id = request[n].id /\ a.score = By(ranker, request[n], "SelectBest").score
      BY <1>2, <3>1, <3>2
    <3> QED
      BY <2>3, <3>3 DEF Won
  <2> QED
    BY <2>1, <2>2, <2>3 DEF BestOf
<1>4. call \notin Rankings /\ call # "SelectBestID" /\ call # "SelectWeightedID"
  BY <1>1 DEF Rankings
<1> QED
  BY <1>1, <1>2, <1>3, <1>4, ReturnSelects

\* SelectBestID does.
LEMMA SelectBestIDReturnsSelects ==
  ASSUME RankerInv, SelectorsInv, SelectBestIDReturns
  PROVE  SelectorsInv'
<1> DEFINE a == IF kept = <<>> THEN Nothing ELSE Answer(kept[1])
<1>1. call = "SelectBestID" /\ AllTaken /\ Return(a) /\ slots' = slots
  BY DEF SelectBestIDReturns
<1>2. /\ Replied(a) /\ a.done /\ ~a.error
      /\ kept = <<>> => a.id = 0 /\ a.score = 0
      /\ kept # <<>> => a.id = kept[1].id /\ a.score = kept[1].score
  BY AnswerFields
<1> HIDE DEF a
<1>3. ASSUME Numbers(request)
      PROVE  Won(ranker, request, "SelectBestID", a)
  <2>1. KeptOf(ranker, request, Len(request), kept)
    BY <1>1, <1>3, AllSelected DEF SoFarRight
  <2>2. CASE kept = <<>> /\ NoneUpTo(ranker, request, "SelectBestID", Len(request))
    BY <1>2, <2>2 DEF Won
  <2>3. ASSUME NEW n \in 1..Len(request), Leads(ranker, request, "SelectBestID", Len(request), n),
               kept # <<>>, Shows(kept[1], request[n], By(ranker, request[n], "SelectBestID"))
        PROVE  Won(ranker, request, "SelectBestID", a)
    <3>1. a.id = request[n].id /\ a.score = By(ranker, request[n], "SelectBestID").score
      BY <1>2, <2>3 DEF Shows
    <3> QED
      BY <2>3, <3>1 DEF Won
  <2> QED
    BY <2>1, <2>2, <2>3 DEF KeptOf
<1>4. call \notin Rankings /\ call # "SelectBest" /\ call # "SelectWeightedID"
  BY <1>1 DEF Rankings
<1> QED
  BY <1>1, <1>2, <1>3, <1>4, ReturnSelects

\* Whatever the hash says, some candidate that is kept is drawn.
Running(kp, n) == Total([m \in 1..n |-> kp[m].weight])
Drawn(kp, point) == SelectInSeq([n \in DOMAIN kp |-> Running(kp, n)], LAMBDA sum : point < sum)

\* Some sum of weights is above the point, so what is drawn is kept.
LEMMA DrawnIsKept ==
  ASSUME NEW kp \in Seq(Selections), kp # <<>>, NEW point \in stableHashFloat(Running(kp, Len(kp)))
  PROVE  Drawn(kp, point) \in 1..Len(kp)
<1> DEFINE L == Len(kp)
           sums == [n \in DOMAIN kp |-> Running(kp, n)]
           S == {n \in 1..Len(sums) : point < sums[n]}
           weights == [m \in 1..L |-> kp[m].weight]
<1>1. L \in Nat /\ L # 0 /\ DOMAIN kp = 1..L /\ Len(sums) = L /\ \A n \in 1..L : sums[n] = Running(kp, n)
  OBVIOUS
<1>2. weights \in Seq(Int)
  <2>1. \A m \in 1..L : kp[m].weight \in Int
    <3>1. \A m \in 1..L : kp[m] \in Selections
      BY <1>1
    <3>2. \A s \in Selections : s.weight \in Int
      BY DEF Selections
    <3> QED
      BY <3>1, <3>2
  <2>2. weights \in [1..L -> Int]
    BY <2>1
  <2> HIDE DEF weights, L
  <2> QED
    BY <1>1, <2>2, IsASeq
<1>3. Running(kp, L) \in Int
  <2>1. Running(kp, L) = Total(weights) /\ Len(weights) \in Nat
    BY <1>2 DEF Running
  <2> HIDE DEF weights
  <2>2. PICK g : g \in [0..Len(weights) -> Int] /\ Total(weights) = g[Len(weights)]
    BY <1>2, TotalRuns
  <2> QED
    BY <2>1, <2>2
<1>4. point < Running(kp, L)
  BY <1>3 DEF stableHashFloat
<1> HIDE DEF L, sums, weights
<1>5. L \in S
  BY <1>1, <1>4
<1>6. Drawn(kp, point) = IF S # {} THEN Min(S) ELSE 0
  BY DEF Drawn, SelectInSeq, sums
<1>7. S \in SUBSET (1..L)
  BY <1>1
<1> HIDE DEF S
<1>8. Min(S) \in S
  BY <1>1, <1>5, <1>7, FirstOf
<1>9. Drawn(kp, point) \in 1..L
  BY <1>5, <1>6, <1>7, <1>8
<1> QED
  BY <1>9 DEF L

\* SelectWeightedID answers with one of those it keeps.
LEMMA SelectWeightedIDReturnsSelects ==
  ASSUME RankerInv, SelectorsInv, SelectWeightedIDReturns
  PROVE  SelectorsInv'
<1>1. call = "SelectWeightedID" /\ AllTaken /\ slots' = slots
  BY DEF SelectWeightedIDReturns
<1>2. call \notin Rankings /\ call # "SelectBest" /\ call # "SelectBestID" /\ kept \in Seq(Selections)
  BY <1>1 DEF Rankings, SelectorsInv
<1>3. Numbers(request) => TopOf(ranker, request, Len(request), kept, top)
  BY <1>1, AllSelected DEF SoFarRight
<1>4. CASE kept = <<>>
  <2>1. Return(Nothing) /\ Replied(Nothing) /\ Nothing.done /\ ~Nothing.error /\ Nothing.id = 0
    BY <1>4, AnswerFields DEF SelectWeightedIDReturns
  <2>2. Numbers(request) => Weighed(ranker, request, Nothing)
    BY <1>3, <1>4, <2>1 DEF TopOf, Weighed
  <2> QED
    BY <1>1, <1>2, <2>1, <2>2, ReturnSelects
<1>5. CASE kept # <<>>
  <2>1. PICK point \in stableHashFloat(Running(kept, Len(kept))) : Return(Answer(kept[Drawn(kept, point)]))
    BY <1>5 DEF SelectWeightedIDReturns, Running, Drawn
  <2> DEFINE x == Drawn(kept, point)
             a == Answer(kept[x])
  <2>2. x \in 1..Len(kept)
    BY <1>2, <1>5, DrawnIsKept
  <2>3. Return(a) /\ Replied(a) /\ a.done /\ ~a.error /\ a.id = kept[x].id
    BY <2>1, AnswerFields
  <2> HIDE DEF x, a
  <2>4. ASSUME Numbers(request)
        PROVE  Weighed(ranker, request, a)
    <3>1. PICK n \in 1..Len(request) : \A y \in 1..Len(kept) : OfRank(ranker, request, Len(request), kept[y], n)
      BY <1>3, <1>5, <2>4 DEF TopOf
    <3>2. PICK m \in 1..Len(request) : Tops(ranker, request, Len(request), m) /\ kept[x].id = request[m].id
      BY <2>2, <3>1 DEF OfRank
    <3> QED
      BY <2>3, <3>2 DEF Weighed
  <2> QED
    BY <1>1, <1>2, <2>3, <2>4, ReturnSelects
<1> QED
  BY <1>4, <1>5

-----------------------------------------------------------------------------
\* Every step keeps what the selectors answer right.
LEMMA SelectorsStep ==
  ASSUME RankerInv, SelectorsInv, [Next]_vars
  PROVE  SelectorsInv'
<1>1. CASE UNCHANGED vars
  BY <1>1, SortSelects
<1>2. CASE Next
  BY <1>2, AskSelects, FailSelects, CallsSelect, RankOneSelects, SortSelects, RankIntoReturnsSelects,
     ConsiderBestSelects, SelectBestReturnsSelects, KeepBestSelects, SelectBestIDReturnsSelects,
     KeepTopSelects, SelectWeightedIDReturnsSelects DEF Next
<1> QED
  BY <1>1, <1>2

\* What every selector has kept and has answered, in every reachable state: the best of what it
\* took, by what it found itself (ranker.go RankInto, SelectBestInto, SelectBestID, SelectWeightedID).
THEOREM SelectorsInvariance == Spec => [](RankerInv /\ SelectorsInv)
<1>1. Init => RankerInv /\ SelectorsInv
  BY InitRight, InitSelects
<1>2. RankerInv /\ SelectorsInv /\ [Next]_vars => (RankerInv /\ SelectorsInv)'
  BY StepRight, SelectorsStep
<1> QED
  BY <1>1, <1>2, PTL DEF Spec

-----------------------------------------------------------------------------
\* All selectors agree.

\* RankInto answers with the best of all as well.
LEMMA RankWon ==
  ASSUME RankerInv, SelectorsInv, Numbers(request), NEW sel \in Rankings, answers[sel].done, ~answers[sel].error
  PROVE  Won(ranker, request, sel, answers[sel])
<1> DEFINE N == Len(request)
           s == slots[sel]
           a == answers[sel]
<1>1. /\ AskedRight /\ Finished(heap, ranker, request, s) /\ N \in Nat /\ HeadIs(request, s, a) /\ sel \in Names
  BY SortsOnlyRankings DEF RankerInv, FinishedRight, SelectorsInv, AllTold, ToldRight
<1>2. \A n : By(ranker, request[n], sel) = Found(ranker, request[n])
  <2>1. sel \notin {"SelectBestID", "SelectWeightedID"}
    BY DEF Rankings
  <2> QED
    BY <2>1 DEF By, Found
<1> HIDE DEF N, s, a
<1>3. \A x \in 1..N : \E n \in 1..N : Tells(s[x], request[n], By(ranker, request[n], sel))
  BY <1>1, <1>2 DEF Finished, Owned, N
<1>4. \A n \in 1..N : \E x \in 1..N : Tells(s[x], request[n], By(ranker, request[n], sel))
  <2> SUFFICES ASSUME NEW n \in 1..N
               PROVE  \E x \in 1..N : Tells(s[x], request[n], By(ranker, request[n], sel))
    OBVIOUS
  <2>1. PICK x \in 1..N : s[x].id = request[n].id
    BY <1>1 DEF Finished, N
  <2>2. PICK m \in 1..N : Tells(s[x], request[m], By(ranker, request[m], sel))
    BY <1>3
  <2>3. request[m].id = request[n].id
    BY <2>1, <2>2 DEF Tells
  <2>4. m = n
    BY <1>1, <2>3, IdsDiffer DEF N
  <2> QED
    BY <2>2, <2>4
<1>5. \A x, y \in 1..N : x < y => ~betterCandidate(s[y], s[x])
  BY <1>1 DEF Finished, InOrderUpTo, Ahead, N
<1>6. CASE N = 0
  <2>1. a.id = 0 /\ a.score = 0
    BY <1>1, <1>6 DEF HeadIs, N
  <2>2. NoneUpTo(ranker, request, sel, Len(request))
    BY <1>6 DEF NoneUpTo, N
  <2> QED
    BY <2>1, <2>2 DEF Won, a
<1>7. CASE N # 0
  <2>1. PICK n \in 1..N : Tells(s[1], request[n], By(ranker, request[n], sel))
    BY <1>1, <1>3, <1>7
  <2>2. /\ s[1].eligible => a.id = request[n].id /\ a.score = By(ranker, request[n], sel).score
        /\ ~s[1].eligible => a.id = 0 /\ a.score = 0
    BY <1>1, <1>7, <2>1 DEF HeadIs, Tells, N
  <2>3. ASSUME NEW m \in 1..N
        PROVE  ~Before(ranker, request, sel, m, n)
    <3>1. PICK x \in 1..N : Tells(s[x], request[m], By(ranker, request[m], sel))
      BY <1>4
    <3>2. betterCandidate(s[x], s[1]) = Before(ranker, request, sel, m, n)
      BY <2>1, <3>1, BetterAlike DEF Before
    <3>3. CASE x = 1
      <4>1. request[m].id = request[n].id
        BY <2>1, <3>1, <3>3 DEF Tells
      <4>2. m = n
        BY <1>1, <4>1, IdsDiffer DEF N
      <4> QED
        BY <1>1, <4>2, BeforeOrders DEF N
    <3>4. CASE x # 1
      <4>1. ~betterCandidate(s[x], s[1])
        BY <1>1, <1>5, <1>7, <3>4
      <4> QED
        BY <3>2, <4>1
    <3> QED
      BY <3>3, <3>4
  <2>4. s[1].eligible = By(ranker, request[n], sel).eligible /\ By(ranker, request[n], sel).eligible \in BOOLEAN
    BY <1>1, <2>1, ByField DEF Tells, N
  <2>5. CASE s[1].eligible
    <3>1. Leads(ranker, request, sel, Len(request), n)
      BY <2>3, <2>4, <2>5 DEF Leads, N
    <3> QED
      BY <2>2, <2>5, <3>1 DEF Won, a, N
  <2>6. CASE ~s[1].eligible
    <3>1. ASSUME NEW m \in 1..N, By(ranker, request[m], sel).eligible
          PROVE  FALSE
      <4> DEFINE b == Standing(request[m], By(ranker, request[m], sel))
                 c == Standing(request[n], By(ranker, request[n], sel))
      <4>1. b.eligible # c.eligible /\ b.eligible
        BY <2>4, <2>6, <3>1 DEF Standing
      <4> HIDE DEF b, c
      <4>2. betterCandidate(b, c)
        BY <4>1 DEF betterCandidate
      <4> QED
        BY <2>3, <4>2 DEF Before, b, c
    <3>2. NoneUpTo(ranker, request, sel, Len(request))
      BY <3>1 DEF NoneUpTo, N
    <3> QED
      BY <2>2, <2>6, <3>2 DEF Won, a
  <2> QED
    BY <2>5, <2>6
<1> QED
  BY <1>1, <1>6, <1>7

-----------------------------------------------------------------------------
\* If both ways find the same, so do any two selectors.
LEMMA ByAlike ==
  ASSUME AskedRight, Natively \/ WaysAgree, NEW n \in 1..Len(request), NEW c, NEW d
  PROVE  Alike(By(ranker, request[n], c), By(ranker, request[n], d))
<1> DEFINE g == RankCandidate(ranker, request[n], "generic")
           h == RankCandidate(ranker, request[n], "native")
<1>1. Alike(h, h)
  BY DEF Alike
<1>2. CASE Natively
  <2>1. By(ranker, request[n], c) = h /\ By(ranker, request[n], d) = h
    BY <1>2 DEF By, Natively
  <2> QED
    BY <1>1, <2>1
<1>3. CASE WaysAgree
  <2>1. Alike(g, h)
    BY <1>3, CandidateIs, WaysAlike DEF AskedRight
  <2> HIDE DEF g, h
  <2>2. Alike(h, g) /\ Alike(g, g)
    BY <2>1 DEF Alike
  <2>3. By(ranker, request[n], c) \in {g, h} /\ By(ranker, request[n], d) \in {g, h}
    BY DEF By, g, h
  <2> QED
    BY <1>1, <2>1, <2>2, <2>3
<1> QED
  BY <1>2, <1>3

\* So a candidate stands alike for any two selectors.
LEMMA StandAlike ==
  ASSUME AskedRight, Natively \/ WaysAgree, NEW n \in 1..Len(request), NEW c, NEW d
  PROVE  /\ By(ranker, request[n], c).eligible = By(ranker, request[n], d).eligible
         /\ By(ranker, request[n], c).score = By(ranker, request[n], d).score
         /\ By(ranker, request[n], c).error <=> By(ranker, request[n], d).error
         /\ Standing(request[n], By(ranker, request[n], c)) = Standing(request[n], By(ranker, request[n], d))
<1> DEFINE e == By(ranker, request[n], c)
           f == By(ranker, request[n], d)
<1>1. Alike(e, f)
  BY ByAlike
<1>2. e.eligible \in BOOLEAN /\ f.eligible \in BOOLEAN
  BY ByField
<1> HIDE DEF e, f
<1>3. e.eligible = f.eligible /\ e.score = f.score /\ (e.error <=> f.error)
  BY <1>1, <1>2 DEF Alike
<1>4. Standing(request[n], e) = Standing(request[n], f)
  BY <1>3 DEF Standing
<1> QED
  BY <1>3, <1>4 DEF e, f

\* So they fail and lead alike.
LEMMA LeadAlike ==
  ASSUME AskedRight, Natively \/ WaysAgree, NEW c, NEW d
  PROVE  /\ FailsAt(ranker, request, c) => FailsAt(ranker, request, d)
         /\ NoneUpTo(ranker, request, c, Len(request)) => NoneUpTo(ranker, request, d, Len(request))
         /\ \A n \in 1..Len(request) : Leads(ranker, request, c, Len(request), n) => Leads(ranker, request, d, Len(request), n)
<1>1. FailsAt(ranker, request, c) => FailsAt(ranker, request, d)
  BY StandAlike DEF FailsAt
<1>2. NoneUpTo(ranker, request, c, Len(request)) => NoneUpTo(ranker, request, d, Len(request))
  BY StandAlike DEF NoneUpTo
<1>3. ASSUME NEW n \in 1..Len(request), Leads(ranker, request, c, Len(request), n)
      PROVE  Leads(ranker, request, d, Len(request), n)
  <2>1. By(ranker, request[n], d).eligible
    BY <1>3, StandAlike DEF Leads
  <2>2. ASSUME NEW m \in 1..Len(request)
        PROVE  ~Before(ranker, request, d, m, n)
    <3>1. ~Before(ranker, request, c, m, n)
      BY <1>3 DEF Leads
    <3>2. /\ Standing(request[m], By(ranker, request[m], c)) = Standing(request[m], By(ranker, request[m], d))
          /\ Standing(request[n], By(ranker, request[n], c)) = Standing(request[n], By(ranker, request[n], d))
      BY StandAlike
    <3> QED
      BY <3>1, <3>2 DEF Before
  <2> QED
    BY <1>3, <2>1, <2>2 DEF Leads
<1> QED
  BY <1>1, <1>2, <1>3

\* Two selectors that answer with the best of all give the same answer.
LEMMA WonAlike ==
  ASSUME AskedRight, Numbers(request), Natively \/ WaysAgree, NEW c, NEW d, NEW a, NEW b,
         Won(ranker, request, c, a), Won(ranker, request, d, b)
  PROVE  a.id = b.id /\ a.score = b.score
<1>1. ASSUME NEW n \in 1..Len(request), Leads(ranker, request, c, Len(request), n)
      PROVE  ~NoneUpTo(ranker, request, d, Len(request))
  BY <1>1, LeadAlike DEF Leads, NoneUpTo
<1>2. ASSUME NEW n \in 1..Len(request), Leads(ranker, request, d, Len(request), n)
      PROVE  ~NoneUpTo(ranker, request, c, Len(request))
  BY <1>2, LeadAlike DEF Leads, NoneUpTo
<1>3. ASSUME NEW n \in 1..Len(request), Leads(ranker, request, c, Len(request), n),
             NEW m \in 1..Len(request), Leads(ranker, request, d, Len(request), m)
      PROVE  m = n /\ By(ranker, request[n], c).score = By(ranker, request[m], d).score
  <2>1. Leads(ranker, request, d, Len(request), n)
    BY <1>3, LeadAlike
  <2>2. m = n
    BY <1>3, <2>1, OneLeads
  <2> QED
    BY <2>2, StandAlike
<1> QED
  BY <1>1, <1>2, <1>3 DEF Won

\* A request has one candidate with an id.
LEMMA ChosenIs ==
  ASSUME AskedRight, NEW n \in 1..Len(request)
  PROVE  (CHOOSE c \in ToSet(request) : c.id = request[n].id) = request[n]
<1>1. n \in DOMAIN request /\ DOMAIN request = 1..Len(request)
  BY LengthOfRequest DEF AskedRight
<1>2. request[n] \in ToSet(request)
  BY <1>1 DEF ToSet
<1>3. ASSUME NEW c \in ToSet(request), c.id = request[n].id
      PROVE  c = request[n]
  <2>1. PICK m \in 1..Len(request) : c = request[m]
    BY <1>1 DEF ToSet
  <2> QED
    BY <1>3, <2>1, IdsDiffer
<1> QED
  BY <1>2, <1>3

\* The winner is of the rank that SelectWeightedID draws from.
LEMMA WeighedAlike ==
  ASSUME AskedRight, Numbers(request), Natively \/ WaysAgree, NEW c, NEW a, NEW w,
         Won(ranker, request, c, a), Weighed(ranker, request, w)
  PROVE  /\ (w.id = 0) <=> (a.id = 0)
         /\ a.id # 0 => \E m, n \in 1..Len(request) :
                           w.id = request[m].id /\ a.id = request[n].id /\ SameRank(request[m], request[n])
<1>1. \A n \in 1..Len(request) : request[n].id # 0
  BY CandidateIs
<1>2. ASSUME NEW n \in 1..Len(request), Leads(ranker, request, c, Len(request), n)
      PROVE  ~NoneUpTo(ranker, request, "SelectWeightedID", Len(request))
  BY <1>2, LeadAlike DEF Leads, NoneUpTo
<1>3. ASSUME NEW m \in 1..Len(request), Tops(ranker, request, Len(request), m)
      PROVE  ~NoneUpTo(ranker, request, c, Len(request))
  <2>1. By(ranker, request[m], "SelectWeightedID").eligible
    BY <1>3 DEF Tops
  <2> QED
    BY <1>3, <2>1, StandAlike DEF NoneUpTo
<1>4. ASSUME NEW n \in 1..Len(request), Leads(ranker, request, c, Len(request), n),
             NEW m \in 1..Len(request), Tops(ranker, request, Len(request), m)
      PROVE  SameRank(request[m], request[n])
  <2>1. ~Higher(request[n], request[m])
    <3>1. By(ranker, request[n], "SelectWeightedID").eligible
      BY <1>4, StandAlike DEF Leads
    <3> QED
      BY <1>4, <3>1 DEF Tops
  <2>2. ~Higher(request[m], request[n])
    <3> SUFFICES ASSUME Higher(request[m], request[n])
                 PROVE  FALSE
      OBVIOUS
    <3> DEFINE b == Standing(request[m], By(ranker, request[m], c))
               d == Standing(request[n], By(ranker, request[n], c))
    <3>1. /\ b.eligible \in BOOLEAN /\ b.eligible = By(ranker, request[m], c).eligible
          /\ b.priority \in Int /\ b.specificity \in Int /\ NotANumber \notin {b.priority, b.specificity}
      BY StandingIs
    <3>2. /\ d.eligible \in BOOLEAN /\ d.eligible = By(ranker, request[n], c).eligible
          /\ d.priority \in Int /\ d.specificity \in Int /\ NotANumber \notin {d.priority, d.specificity}
      BY StandingIs
    <3>3. /\ b.priority = compareValues(request[m]).priority /\ b.specificity = compareValues(request[m]).specificity
          /\ d.priority = compareValues(request[n]).priority /\ d.specificity = compareValues(request[n]).specificity
      BY DEF Standing
    <3>4. By(ranker, request[m], c).eligible
      BY <1>4, StandAlike DEF Tops
    <3>5. By(ranker, request[n], c).eligible /\ ~Before(ranker, request, c, m, n)
      BY <1>4 DEF Leads
    <3>6. b.priority > d.priority \/ (b.priority = d.priority /\ b.specificity > d.specificity)
      BY <3>3 DEF Higher
    <3>7. ~betterCandidate(b, d)
      BY <3>5 DEF Before
    <3> HIDE DEF b, d
    <3>8. b.eligible = d.eligible
      BY <3>1, <3>2, <3>4, <3>5
    <3> QED
      BY <3>1, <3>2, <3>6, <3>7, <3>8 DEF betterCandidate, Differ, Above
  <2> QED
    BY <1>4, <2>1, <2>2, RanksCompare
<1> QED
  BY <1>1, <1>2, <1>3, <1>4 DEF Won, Weighed

-----------------------------------------------------------------------------
\* SelectorsAgree

\* Selectors that each answer with the best by what they find agree if they find the same.
LEMMA SelectorsFollow ==
  ASSUME RankerInv, SelectorsInv
  PROVE  SelectorsAgree
<1> SUFFICES ASSUME Answered, NoNaN, Natively \/ WaysAgree
             PROVE  LET winner == answers["Rank"]
                        Rk(id) == LET c == CHOOSE c \in ToSet(request) : c.id = id
                                  IN  <<compareValues(c).priority, compareValues(c).specificity>>
                    IN  /\ \A s \in ToSet(Selectors) : answers[s].error = winner.error
                        /\ \A s \in ToSet(Selectors) \ {"SelectWeightedID"} :
                              answers[s].id = winner.id /\ answers[s].score = winner.score
                        /\ (answers["SelectWeightedID"].id = 0) = (winner.id = 0)
                        /\ winner.id # 0 => Rk(answers["SelectWeightedID"].id) = Rk(winner.id)
  BY DEF SelectorsAgree
<1>1. AskedRight /\ Numbers(request)
  BY DEF RankerInv, NoNaN, Numbers
<1>2. \A c \in Names : answers[c].done /\ answers[c].error \in BOOLEAN
  BY NextIs DEF Answered, RankerInv, AnswersType, Replied
<1>3. \A c \in Names : ToldRight(ranker, request, slots, c, answers[c])
  BY DEF SelectorsInv, AllTold
<1>4. "Rank" \in Names /\ "SelectWeightedID" \in Names /\ ToSet(Selectors) = Names
  BY NamesAre DEF Names
<1>5. \A c \in Names : answers[c].error = answers["Rank"].error
  <2>1. \A c \in Names : answers[c].error <=> FailsAt(ranker, request, c)
    BY <1>2, <1>3 DEF ToldRight
  <2>2. \A c \in Names : FailsAt(ranker, request, c) <=> FailsAt(ranker, request, "Rank")
    BY <1>1, LeadAlike
  <2>3. \A c \in Names : answers[c].error <=> answers["Rank"].error
    BY <1>4, <2>1, <2>2
  <2> QED
    BY <1>2, <1>4, <2>3
<1>6. CASE answers["Rank"].error
  <2>1. \A c \in Names : answers[c].id = 0 /\ answers[c].score = 0
    BY <1>2, <1>3, <1>4, <1>5, <1>6 DEF ToldRight
  <2> QED
    BY <1>4, <1>5, <2>1
<1>7. CASE ~answers["Rank"].error
  <2>1. \A c \in Names : ~answers[c].error
    BY <1>4, <1>5, <1>7
  <2>2. ASSUME NEW c \in Names, c # "SelectWeightedID"
        PROVE  Won(ranker, request, c, answers[c])
    <3>1. CASE c \in Rankings
      BY <1>1, <1>2, <2>1, <3>1, RankWon
    <3>2. CASE c \notin Rankings
      <4>1. c \in {"SelectBest", "SelectBestID"}
        BY <2>2, <3>2 DEF Names, Rankings
      <4> QED
        BY <1>1, <1>2, <1>3, <2>1, <4>1 DEF ToldRight
    <3> QED
      BY <3>1, <3>2
  <2>3. Won(ranker, request, "Rank", answers["Rank"])
    BY <1>4, <2>2
  <2>4. \A c \in Names \ {"SelectWeightedID"} :
           answers[c].id = answers["Rank"].id /\ answers[c].score = answers["Rank"].score
    BY <1>1, <2>2, <2>3, WonAlike
  <2>5. Weighed(ranker, request, answers["SelectWeightedID"])
    BY <1>1, <1>2, <1>3, <1>4, <2>1 DEF ToldRight
  <2> DEFINE w == answers["SelectWeightedID"]
             a == answers["Rank"]
             Chosen(id) == CHOOSE c \in ToSet(request) : c.id = id
  <2>6. /\ (w.id = 0) <=> (a.id = 0)
        /\ a.id # 0 => \E m, n \in 1..Len(request) :
                          w.id = request[m].id /\ a.id = request[n].id /\ SameRank(request[m], request[n])
    BY <1>1, <2>3, <2>5, WeighedAlike
  <2>7. ASSUME a.id # 0
        PROVE  SameRank(Chosen(w.id), Chosen(a.id))
    <3>1. PICK m \in 1..Len(request), n \in 1..Len(request) :
             w.id = request[m].id /\ a.id = request[n].id /\ SameRank(request[m], request[n])
      BY <2>6, <2>7
    <3> HIDE DEF w, a
    <3>2. Chosen(w.id) = request[m] /\ Chosen(a.id) = request[n]
      BY <1>1, <3>1, ChosenIs
    <3> QED
      BY <3>1, <3>2
  <2>8. a.id # 0 => /\ compareValues(Chosen(w.id)).priority = compareValues(Chosen(a.id)).priority
                    /\ compareValues(Chosen(w.id)).specificity = compareValues(Chosen(a.id)).specificity
    BY <2>7 DEF SameRank
  <2> QED
    BY <1>4, <1>5, <2>4, <2>6, <2>8
<1> QED
  BY <1>2, <1>4, <1>6, <1>7

\* All selectors answer alike, and the weighted one draws from the rank of their winner, unless
\* there is a NaN or the two ways of evaluation find differently (Ranker.SelectorsAgree).
THEOREM SelectorsAgreeInvariance == Spec => []SelectorsAgree
<1>1. RankerInv /\ SelectorsInv => SelectorsAgree
  BY SelectorsFollow
<1> QED
  BY <1>1, SelectorsInvariance, PTL
=============================================================================
