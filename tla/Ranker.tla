------------------------------- MODULE Ranker -------------------------------
(* A ranker and one caller who asks it everything about one request after the *)
(* other, always with the same two results to fill (ranker.go). Slices are    *)
(* arrays in a heap with a length, since results are kept for their memory:    *)
(* appending writes into an array that has room, whoever else reads it.        *)
EXTENDS CandidateEvaluation

CONSTANTS
    Rankers,   \* [rules, scores, strict, explain]: the rule sets that were compiled, rules in order
    Requests,  \* sequences of candidates
    Limits,    \* the limits SelectFallbacks is asked for
    MaxAsked,  \* how many requests are made
    Short      \* 12 in the code: shorter slices are sorted by insertion

ASSUME RequestsAssumption ==
    /\ \A q \in Requests :
          /\ q \in Seq(ToSet(q))
          /\ \A m, n \in DOMAIN q :
                q[m].id \in Nat \ {0} /\ q[m].bare = q[n].bare /\ (m # n => q[m].id # q[n].id)
          /\ \A n \in DOMAIN q : \A f \in Fields :
                LET v == compileNativePathGetter(q[n], f) IN Numeric(v) => v.n \in Int
    /\ Limits \subseteq Int /\ MaxAsked \in Nat /\ Short \in Nat

\* Rules come in an order, points and bounds are numbers, reasons and actions are texts.
ASSUME RankersAssumption ==
    \A rk \in Rankers :
        /\ rk.rules \in Seq(ToSet(rk.rules)) /\ rk.scores \in Seq(ToSet(rk.scores))
        /\ \A r \in ToSet(rk.rules) :
              /\ r.score \in Int /\ r.reason \in STRING /\ r.actions \in Seq(STRING)
              /\ r.group.rules \in Seq(ToSet(r.group.rules))
              /\ \A child \in ToSet(r.group.rules) : child.actions \in Seq(STRING)
        /\ \A s \in ToSet(rk.scores) :
              /\ s.metric \in Fields /\ s.reason \in STRING
              /\ s.weight \in Int /\ s.min \in Int /\ s.max \in Int

VARIABLES
    ranker, request,
    asked,    \* how many requests there were
    call,     \* the selector that runs, or "none"
    k,        \* the next candidate
    heap,     \* the arrays: sequences as long as the array is
    slots,    \* the candidates that RankInto has filled, for the two that call it
    current,  \* what SelectBestInto evaluates candidates into
    best,     \* what it answers in
    kept,     \* what SelectBestID and SelectWeightedID keep of candidates
    top,      \* the rank of what SelectWeightedID keeps, if anything
    answers,  \* what each selector answered to the request
    items, sorting, lo, hi, i, j, pivot, todo

asking == <<ranker, request, asked>>
sort == <<items, sorting, lo, hi, i, j, pivot, todo>>
vars == <<asking, call, k, heap, slots, current, best, kept, top, answers, sort>>

-----------------------------------------------------------------------------
\* The order of candidates. No comparison with a NaN holds.

Differ(m, n) == m # n \/ m = NotANumber
Above(m, n) == m > n /\ NotANumber \notin {m, n}

\* A slip: the order of fallbacks counts before the cost.
betterSelection_FallbackFirst(a, b) ==
    IF Differ(a.priority, b.priority) THEN Above(a.priority, b.priority)
    ELSE IF Differ(a.specificity, b.specificity) THEN Above(a.specificity, b.specificity)
    ELSE IF a.score # b.score THEN a.score > b.score
    ELSE IF Differ(a.fallback, b.fallback) THEN Above(b.fallback, a.fallback)
    ELSE IF Differ(a.cost, b.cost) THEN Above(b.cost, a.cost)
    ELSE a.id < b.id

betterSelection(a, b) ==
    IF Differ(a.priority, b.priority) THEN Above(a.priority, b.priority)
    ELSE IF Differ(a.specificity, b.specificity) THEN Above(a.specificity, b.specificity)
    ELSE IF a.score # b.score THEN a.score > b.score
    ELSE IF Differ(a.cost, b.cost) THEN Above(b.cost, a.cost)
    ELSE IF Differ(a.fallback, b.fallback) THEN Above(b.fallback, a.fallback)
    ELSE a.id < b.id

betterCandidate(a, b) ==
    IF a.eligible # b.eligible THEN a.eligible
    ELSE IF Differ(a.priority, b.priority) THEN Above(a.priority, b.priority)
    ELSE IF Differ(a.specificity, b.specificity) THEN Above(a.specificity, b.specificity)
    ELSE IF a.score # b.score THEN a.score > b.score
    ELSE IF Differ(a.cost, b.cost) THEN Above(b.cost, a.cost)
    ELSE IF Differ(a.fallback, b.fallback) THEN Above(b.fallback, a.fallback)
    ELSE a.id < b.id

Sort == INSTANCE CandidateSort WITH Better <- betterCandidate, Threshold <- Short

-----------------------------------------------------------------------------
\* Slices.

NoSlice == [at |-> 0, len |-> 0]

Room(h, s) == IF s.at = 0 THEN 0 ELSE Len(h[s.at])
Read(h, s) == IF s.at = 0 THEN <<>> ELSE SubSeq(h[s.at], 1, s.len)

\* How long an array is that is allocated because there is no room for n items.
Grown(room, n) == AtLeast(2 * room, n)

append(m, chunk) ==
    LET s == m.slice
        n == s.len + Len(chunk)
        full == Read(m.heap, s) \o chunk
    IN  CASE chunk = <<>> -> m
          [] chunk # <<>> /\ n <= Room(m.heap, s) ->
                [heap |-> [m.heap EXCEPT ![s.at] = full \o SubSeq(@, n + 1, Len(@))],
                 slice |-> [s EXCEPT !.len = n]]
          [] OTHER ->
                [heap |-> Append(m.heap, full \o [x \in 1 .. Grown(Room(m.heap, s), n) - n |-> "unused"]),
                 slice |-> [at |-> Len(m.heap) + 1, len |-> n]]

\* The slice is emptied and filled again.
Refill(h, s, chunks) ==
    FoldLeft(append, [heap |-> h, slice |-> [s EXCEPT !.len = 0]], chunks)

-----------------------------------------------------------------------------
\* Results.

NoResult ==
    [id |-> 0, eligible |-> FALSE, score |-> 0, decision |-> "", priority |-> 0, specificity |-> 0,
     fallback |-> 0, cost |-> 0, reasons |-> NoSlice, actions |-> NoSlice]

Natively == canRankNative(ranker)

Evaluated(c, native) == RankCandidate(ranker, c, IF native THEN "native" ELSE "generic")

\* What is left of a result when it is reset: its memory.
Emptied(r) == [NoResult EXCEPT !.reasons = [r.reasons EXCEPT !.len = 0],
                               !.actions = [r.actions EXCEPT !.len = 0]]

\* A candidate is evaluated into a result that was used before.
rankCandidateInto(h, r, c, e) ==
    LET reasons == Refill(h, IF ranker.explain THEN r.reasons ELSE NoSlice, [n \in DOMAIN e.reasons |-> <<e.reasons[n]>>])
        actions == Refill(reasons.heap, r.actions, e.actions)
        cmp     == compareValues(c)
    IN  [heap   |-> actions.heap,
         result |-> [id |-> c.id, eligible |-> e.eligible, score |-> e.score, decision |-> e.decision,
                     priority |-> cmp.priority, specificity |-> cmp.specificity,
                     fallback |-> cmp.fallback, cost |-> cmp.cost,
                     reasons |-> reasons.slice, actions |-> actions.slice]]

\* What is kept of a candidate without a result.
SelectionOf(c, e) ==
    LET cmp    == compareValues(c)
        weight == nativeFloat(c, "weight", 0)
    IN  [id |-> c.id, score |-> e.score, priority |-> cmp.priority, specificity |-> cmp.specificity,
         fallback |-> cmp.fallback, cost |-> cmp.cost, weight |-> IF weight <= 0 THEN 1 ELSE weight]

NoAnswer == [done |-> FALSE, error |-> FALSE, id |-> 0, score |-> 0, limit |-> 0, rest |-> <<>>]
Failure  == [NoAnswer EXCEPT !.done = TRUE, !.error = TRUE]
Answer(r) == [NoAnswer EXCEPT !.done = TRUE, !.id = r.id, !.score = r.score]
Nothing  == Answer(NoResult)

-----------------------------------------------------------------------------
\* The caller.

Selectors == <<"Rank", "SelectBest", "SelectBestID", "SelectWeightedID", "SelectFallbacks">>
NextSelector == SelectInSeq(Selectors, LAMBDA c : ~answers[c].done)

Ask ==
    /\ call = "none" /\ NextSelector = 0 /\ asked < MaxAsked
    /\ asked' = asked + 1
    /\ request' \in Requests
    /\ answers' = [c \in ToSet(Selectors) |-> NoAnswer]
    /\ UNCHANGED <<ranker, call, k, heap, slots, current, best, kept, top, sort>>

Call(c) ==
    /\ call = "none" /\ NextSelector # 0 /\ c = Selectors[NextSelector]
    /\ call' = c /\ k' = 1
    /\ UNCHANGED <<asking, heap, answers, sort>>

Return(answer) ==
    /\ answers' = [answers EXCEPT ![call] = answer]
    /\ call' = "none"
    /\ UNCHANGED <<asking, k, heap, current, best, kept, top>>

Candidate == request[k]

\* The selectors of an ID always take what is compiled.
Evaluation ==
    Evaluated(Candidate, Natively \/ call \in {"SelectBestID", "SelectWeightedID"})

\* A candidate is taken, unless it fails.
Take(e) ==
    /\ ~e.error
    /\ k' = k + 1
    /\ UNCHANGED <<asking, call, answers, sort>>

AllTaken == call # "none" /\ k > Len(request)

\* What it had written of its result is not read: nothing of it is answered.
CandidateFails ==
    /\ call # "none" /\ k <= Len(request)
    /\ Evaluation.error
    /\ Return(Failure)
    /\ UNCHANGED <<slots, sort>>

-----------------------------------------------------------------------------
\* RankInto, which SelectFallbacks calls with a result of its own.

CallRankInto(c) ==
    /\ Call(c)
    /\ LET old == IF c = "Rank" THEN slots[c] ELSE <<>>
       IN  slots' = [slots EXCEPT ![c] = IF Len(old) < Len(request)
                                         THEN [n \in DOMAIN request |-> NoResult] ELSE old]
    /\ UNCHANGED <<current, best, kept, top>>

\* A slip: all candidates are evaluated into the memory of the first.
Slot_First == IF call = "Rank" THEN slots[call][1] ELSE slots[call][k]

Slot == slots[call][k]

RankOne ==
    /\ call \in {"Rank", "SelectFallbacks"} /\ k <= Len(request)
    /\ \E e \in {Evaluation} :
          /\ Take(e)
          /\ \E into \in {rankCandidateInto(heap, Slot, Candidate, e)} :
                heap' = into.heap /\ slots' = [slots EXCEPT ![call][k] = into.result]
    /\ UNCHANGED <<current, best, kept, top>>

SortCandidates ==
    /\ call \in {"Rank", "SelectFallbacks"} /\ AllTaken /\ sorting = "idle"
    /\ Sort!Start(SubSeq(slots[call], 1, Len(request)))
    /\ UNCHANGED <<asking, call, k, heap, slots, current, best, kept, top, answers>>

SortStep ==
    /\ Sort!Step
    /\ UNCHANGED <<asking, call, k, heap, slots, current, best, kept, top, answers>>

HasWinner == items # <<>> /\ items[1].eligible
WinnerOf == IF HasWinner THEN Answer(items[1]) ELSE Nothing

\* The other eligible candidates in their order, no more than the limit.
Fallbacks(limit) ==
    LET most == IF limit <= 0 THEN Len(items) ELSE limit
        chain(ids, r) == IF Len(ids) < most /\ r.eligible /\ ~(HasWinner /\ r.id = items[1].id)
                         THEN Append(ids, r.id) ELSE ids
    IN  FoldLeft(chain, <<>>, items)

RankIntoReturns ==
    /\ sorting = "done"
    /\ slots' = [slots EXCEPT ![call] = items \o SubSeq(@, Len(items) + 1, Len(@))]
    /\ Sort!Finish
    /\ IF call = "Rank" THEN Return(WinnerOf)
       ELSE \E limit \in Limits :
               Return([WinnerOf EXCEPT !.limit = limit, !.rest = Fallbacks(limit)])

-----------------------------------------------------------------------------
\* SelectBestInto.

CallSelectBest ==
    /\ Call("SelectBest")
    /\ best' = Emptied(best) /\ current' = NoResult
    /\ UNCHANGED <<slots, kept, top>>

ConsiderBest ==
    /\ call = "SelectBest" /\ k <= Len(request)
    /\ \E e \in {Evaluation} :
          /\ Take(e)
          /\ \E into \in {rankCandidateInto(heap, current, Candidate, e)} :
                heap' = into.heap /\ current' = into.result
    /\ best' = IF current'.eligible /\ (best.id = 0 \/ betterCandidate(current', best))
               THEN current' ELSE best
    /\ UNCHANGED <<slots, kept, top>>

SelectBestReturns ==
    /\ call = "SelectBest" /\ AllTaken
    /\ Return(IF best.id = 0 THEN Nothing ELSE Answer(best))
    /\ UNCHANGED <<slots, sort>>

-----------------------------------------------------------------------------
\* SelectBestID and SelectWeightedID.

CallSelectID(c) ==
    /\ c \in {"SelectBestID", "SelectWeightedID"}
    /\ Call(c)
    /\ kept' = <<>> /\ top' = {}
    /\ UNCHANGED <<slots, current, best>>

KeepBest ==
    /\ call = "SelectBestID" /\ k <= Len(request)
    /\ \E e \in {Evaluation} : \E s \in {SelectionOf(Candidate, e)} :
          /\ Take(e)
          /\ kept' = IF e.eligible /\ (kept = <<>> \/ betterSelection(s, kept[1])) THEN <<s>> ELSE kept
    /\ UNCHANGED <<heap, slots, current, best, top>>

SelectBestIDReturns ==
    /\ call = "SelectBestID" /\ AllTaken
    /\ Return(IF kept = <<>> THEN Nothing ELSE Answer(kept[1]))
    /\ UNCHANGED <<slots, sort>>

\* Those are kept whose priority and specificity are the best of all so far.
KeepTop ==
    /\ call = "SelectWeightedID" /\ k <= Len(request)
    /\ \E e \in {Evaluation} : \E s \in {SelectionOf(Candidate, e)} :
          LET rank == [priority |-> s.priority, specificity |-> s.specificity]
              higher == \A t \in top :
                           \/ Above(s.priority, t.priority)
                           \/ ~Differ(s.priority, t.priority) /\ Above(s.specificity, t.specificity)
          IN  /\ Take(e)
              /\ IF ~e.eligible THEN UNCHANGED <<kept, top>>
                 ELSE /\ top' = IF higher THEN {rank} ELSE top
                      /\ kept' = (IF higher THEN <<>> ELSE kept)
                                 \o (IF rank \in top' /\ NotANumber \notin {s.priority, s.specificity}
                                     THEN <<s>> ELSE <<>>)
    /\ UNCHANGED <<heap, slots, current, best>>

\* Where the hash of the request's key may fall, below the sum of the weights.
stableHashFloat(total) == 0 .. total - 1

SelectWeightedIDReturns ==
    /\ call = "SelectWeightedID" /\ AllTaken
    /\ LET running(n) == Total([m \in 1 .. n |-> kept[m].weight])
       IN  IF kept = <<>> THEN Return(Nothing)
           ELSE \E point \in stableHashFloat(running(Len(kept))) :
                   Return(Answer(kept[SelectInSeq([n \in DOMAIN kept |-> running(n)], LAMBDA sum : point < sum)]))
    /\ UNCHANGED <<slots, sort>>

-----------------------------------------------------------------------------
Init ==
    /\ ranker \in Rankers /\ request = <<>> /\ asked = 0
    /\ call = "none" /\ k = 1 /\ heap = <<>>
    /\ slots = [c \in {"Rank", "SelectFallbacks"} |-> <<>>]
    /\ current = NoResult /\ best = NoResult
    /\ kept = <<>> /\ top = {}
    /\ answers = [c \in ToSet(Selectors) |-> Nothing]
    /\ Sort!Init

Next ==
    \/ Ask \/ CandidateFails
    \/ CallRankInto("Rank") \/ CallRankInto("SelectFallbacks")
    \/ RankOne \/ SortCandidates \/ SortStep \/ RankIntoReturns
    \/ CallSelectBest \/ ConsiderBest \/ SelectBestReturns
    \/ CallSelectID("SelectBestID") \/ CallSelectID("SelectWeightedID")
    \/ KeepBest \/ SelectBestIDReturns
    \/ KeepTop \/ SelectWeightedIDReturns

Spec == Init /\ [][Next]_vars

-----------------------------------------------------------------------------
Answered == asked > 0 /\ call = "none" /\ NextSelector = 0

NoNaN ==
    \A n \in DOMAIN request :
        NotANumber \notin {compareValues(request[n])[v] : v \in {"priority", "specificity", "fallback", "cost"}}

\* Both ways find the same of a candidate.
WaysAgree ==
    \A n \in DOMAIN request : \A f \in Fields :
        LET found == compileNativePathGetter(request[n], f)
        IN  found = Missing => request[n].bare[f] = Missing

\* All selectors give the same winner with the same score, and the weighted one some
\* candidate of the winner's priority and specificity: Rank and SelectBest evaluate
\* the full result, on either way, SelectBestID and SelectWeightedID only a score, and
\* each has its own comparison. Exempt are NaNs, and requests whose own facts
\* have the names that a candidate lacks, if some condition has to be interpreted.
SelectorsAgree ==
    Answered /\ NoNaN /\ (Natively \/ WaysAgree) =>
        LET winner == answers["Rank"]
            RankOf(id) == LET c == CHOOSE c \in ToSet(request) : c.id = id
                          IN  <<compareValues(c).priority, compareValues(c).specificity>>
        IN  /\ \A s \in ToSet(Selectors) : answers[s].error = winner.error
            /\ \A s \in ToSet(Selectors) \ {"SelectWeightedID"} :
                  answers[s].id = winner.id /\ answers[s].score = winner.score
            /\ (answers["SelectWeightedID"].id = 0) = (winner.id = 0)
            /\ winner.id # 0 => RankOf(answers["SelectWeightedID"].id) = RankOf(winner.id)

-----------------------------------------------------------------------------
\* What a result should hold, whatever memory it is in.
HoldsItsOwn(r) ==
    \E c \in {x \in ToSet(request) : x.id = r.id} : \E e \in {Evaluated(c, Natively)} :
        /\ Read(heap, r.reasons) = e.reasons
        /\ Read(heap, r.actions) = FlattenSeq(e.actions)

\* What RankInto answers: every candidate once, none before a better one, each with
\* its own reasons and actions although the memory of an earlier answer was used
\* and the sort moved them; and as fallbacks the other eligible candidates, in order.
\* Until then the sort reads no item outside the part it sorts, though with a NaN
\* the comparison is no order and nothing but an item stops a scan (ranker.go:705).
RankingIsRight ==
    /\ Sort!Inside
    /\ Answered =>
        /\ \A c \in {"Rank", "SelectFallbacks"} : ~answers[c].error =>
              LET ranked == SubSeq(slots[c], 1, Len(request))
              IN  /\ {ranked[n].id : n \in DOMAIN ranked} = {request[n].id : n \in DOMAIN request}
                  /\ \A n \in DOMAIN ranked : HoldsItsOwn(ranked[n])
                  /\ NoNaN => \A m, n \in DOMAIN ranked : m < n => ~betterCandidate(ranked[n], ranked[m])
        /\ LET told     == answers["SelectFallbacks"]
               eligible == {n \in DOMAIN request : slots["SelectFallbacks"][n].eligible}
               chain    == <<told.id>> \o told.rest
           IN  ~told.error /\ told.id # 0 =>
                 /\ Len(chain) = IF told.limit <= 0 THEN Cardinality(eligible)
                                 ELSE AtMost(told.limit + 1, Cardinality(eligible))
                 /\ \A n \in DOMAIN chain : slots["SelectFallbacks"][n].id = chain[n]

\* What SelectBest answers has the reasons and actions of the candidate it names, as
\* ranker_test.go:233 asks of a winner.
BestKeepsItsOwn ==
    Answered /\ answers["SelectBest"].id # 0 => HoldsItsOwn(best)
=============================================================================
