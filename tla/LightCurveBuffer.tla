-------------------------- MODULE LightCurveBuffer --------------------------
(***************************************************************************)
(* The bounded sample history of the light-curve plot                      *)
(* (lightCurvePlotBuffer.ts): growing arrays with a dead prefix that is    *)
(* dropped lazily, and the cached first and last times with their indexes  *)
(* in the arrays.  samples is the live part, start the length of the dead  *)
(* prefix, which nothing reads; an index counts from 1, so sample i is at  *)
(* start + i.  A cached time is a set of at most one time, so that NaN,    *)
(* which compares as false with everything, is the empty set.  The session *)
(* pushes finite times only.                                               *)
(***************************************************************************)
EXTENDS Integers, SequencesExt

CONSTANT Capacity    \* capacity, and the same cap of the overlay histories

ASSUME CapacityAssumption == Capacity \in Nat \ {0}

NaN == {}

Empty == [samples |-> <<>>, start |-> 0, count |-> 0,
          earliest |-> NaN, earliestAt |-> 0, latest |-> NaN, latestAt |-> 0]

ActiveLength(b) == Len(b.samples)

ResolveEarliest(b) ==
    IF b.earliestAt > b.start /\ b.earliest # NaN THEN b
    ELSE IF b.samples = <<>> THEN [b EXCEPT !.earliest = NaN, !.earliestAt = 0]
    ELSE [b EXCEPT !.earliest = {b.samples[1].t}, !.earliestAt = b.start + 1]

RefreshLatest(b) ==
    IF b.samples = <<>> THEN [b EXCEPT !.latest = NaN, !.latestAt = 0]
    ELSE [b EXCEPT !.latest = {Last(b.samples).t}, !.latestAt = b.start + ActiveLength(b)]

ResolveLatest(b) ==
    IF b.latestAt > b.start /\ b.latest # NaN THEN b ELSE RefreshLatest(b)

\* Drops the trailing samples later than t
TruncateAfter(b, t) ==
    LET end == Max({0} \cup {i \in DOMAIN b.samples : b.samples[i].t <= t})
        lost == b.earliestAt > b.start + end
    IN  IF end = ActiveLength(b) THEN b
        ELSE RefreshLatest([b EXCEPT !.samples = SubSeq(@, 1, end),
                                     !.count = Max({0, @ - (ActiveLength(b) - end)}),
                                     !.earliest = IF lost THEN NaN ELSE @,
                                     !.earliestAt = IF lost THEN 0 ELSE @])

\* A compaction that drops the prefix and forgets to move the index of the last time
CompactKeepsIndex(b) ==
    IF b.start = 0 \/ (b.start < 1024 /\ b.start < ActiveLength(b)) THEN b
    ELSE [b EXCEPT !.start = 0]

\* Drops the dead prefix once it is as long as the rest (startIndex * 2 >= length)
Compact(b) ==
    LET moved(at) == IF at > b.start THEN at - b.start ELSE 0
    IN  IF b.start = 0 \/ (b.start < 1024 /\ b.start < ActiveLength(b)) THEN b
        ELSE [b EXCEPT !.start = 0,
                       !.earliest = IF b.earliestAt > b.start THEN @ ELSE NaN,
                       !.earliestAt = moved(@),
                       !.latest = IF b.latestAt > b.start THEN @ ELSE NaN,
                       !.latestAt = moved(@)]

\* A buffer that is never trimmed
NoTrim(b) == b

Trim(b) ==
    LET overflow == ActiveLength(b) - Capacity
        next == b.start + overflow
    IN  IF overflow <= 0 THEN b
        ELSE Compact([b EXCEPT !.samples = SubSeq(@, overflow + 1, Len(@)),
                               !.start = next,
                               !.count = Max({0, @ - overflow}),
                               !.earliest = IF b.earliestAt <= next THEN NaN ELSE @,
                               !.earliestAt = IF @ <= next THEN 0 ELSE @,
                               !.latest = IF b.latestAt <= next THEN NaN ELSE @,
                               !.latestAt = IF @ <= next THEN 0 ELSE @])

Push(b, sample) ==
    LET resolved == ResolveLatest(b)
        ordered == IF \E x \in resolved.latest : sample.t < x
                   THEN TruncateAfter(resolved, sample.t) ELSE resolved
        at == ordered.start + ActiveLength(ordered) + 1
        pushed == [ordered EXCEPT !.samples = Append(@, sample), !.count = @ + 1,
                                  !.latest = {sample.t}, !.latestAt = at]
    IN  Trim(IF pushed.count = 1 THEN [pushed EXCEPT !.earliest = {sample.t}, !.earliestAt = at]
             ELSE pushed)

Restore(samples) == FoldLeft(Push, Empty, samples)

\* What a draw leaves cached: the live window asks only for the last time
Draw(b, live) ==
    IF b.count = 0 THEN b
    ELSE IF live /\ ActiveLength(b) > 1 THEN ResolveLatest(b)
    ELSE ResolveLatest(ResolveEarliest(b))

-----------------------------------------------------------------------------
(* The reference: a sequence of at most Capacity samples in time order.    *)

LastN(seq, n) == SubSeq(seq, Max({1, Len(seq) - n + 1}), Len(seq))

Truncated(seq, t) ==
    FoldLeft(LAMBDA kept, x : IF x.t <= t THEN Append(kept, x) ELSE kept, <<>>, seq)

AbstractPush(seq, sample) ==
    LastN(Append(Truncated(seq, sample.t), sample), Capacity)

InOrder(seq) == \A i, j \in DOMAIN seq : i < j => seq[i].t <= seq[j].t

\* What a reader of the caches is told is the first and the last time kept;
\* the live window also asks whether the last time is that of the last sample.
CachesAgree(b) ==
    /\ b.count = ActiveLength(b)
    /\ b.count > 0 =>
         /\ ResolveEarliest(b).earliest = {b.samples[1].t}
         /\ ResolveLatest(b).latest = {Last(b.samples).t}
         /\ ResolveLatest(b).latestAt - b.start = b.count
=============================================================================
