----------------------- MODULE LightCurveSessionProofs -----------------------
(***************************************************************************)
(* Proofs about LightCurveBuffer and LightCurveSession for every capacity, *)
(* every window of the preview, every faults of the runtimes (the times at *)
(* which they throw, and their gaps) and every number of runtimes and      *)
(* invalidations.                                                          *)
(*                                                                         *)
(* The first part is about the folds and maxima that the buffer is written *)
(* with, the second about the buffer and the sequence it stands for, the   *)
(* third about the methods of the frame loop, each an operator from loop   *)
(* to loop, and the last about the actions.                                *)
(***************************************************************************)
EXTENDS LightCurveSession, SequenceTheorems, FiniteSetTheorems, WellFoundedInduction, TLAPS

-----------------------------------------------------------------------------
(* Natural numbers.                                                        *)

\* A set of natural numbers that is not empty has a least element.
LEMMA LeastNat ==
    ASSUME NEW T \in SUBSET Nat, T # {}
    PROVE  \E m \in T : \A n \in T : m <= n
<1> DEFINE R == OpToRel(<, Nat)
<1>1. IsWellFoundedOn(R, Nat)
  BY NatLessThanWellFounded
<1>2. \A m, n \in Nat : <<n, m>> \notin R => m <= n
  BY DEF OpToRel
<1> HIDE DEF R
<1>3. \E m \in T : \A n \in T : <<n, m>> \notin R
  BY <1>1, WFMin
<1> QED BY <1>2, <1>3

\* Induction, with a set as the property.
LEMMA Induction ==
    ASSUME NEW Good, 0 \in Good, \A n \in Nat : n \in Good => n + 1 \in Good
    PROVE  Nat \subseteq Good
<1> DEFINE Bad == Nat \ Good
<1>1. SUFFICES ASSUME Bad # {} PROVE FALSE
  OBVIOUS
<1>2. PICK m \in Bad : \A n \in Bad : m <= n
  <2>1. Bad \in SUBSET Nat
    OBVIOUS
  <2> HIDE DEF Bad
  <2> QED BY <1>1, <2>1, LeastNat
<1>3. m \in Nat \ {0} /\ m - 1 \in Nat /\ m - 1 \notin Bad
  BY <1>2
<1>4. m - 1 \in Good
  BY <1>3
<1> QED BY <1>2, <1>3, <1>4

\* A bounded set of natural numbers that is not empty has a greatest element.
LEMMA MaxOf ==
    ASSUME NEW n \in Nat, NEW T \in SUBSET (0 .. n), T # {}
    PROVE  Max(T) \in T /\ \A x \in T : x <= Max(T)
<1> DEFINE Below == {n - x : x \in T}
<1>1. PICK m \in Below : \A d \in Below : m <= d
  <2>1. PICK y \in T : TRUE
    OBVIOUS
  <2>2. n - y \in Below /\ Below \subseteq Nat
    OBVIOUS
  <2>3. Below \in SUBSET Nat /\ Below # {}
    BY <2>2
  <2> HIDE DEF Below
  <2> QED BY <2>3, LeastNat
<1>2. PICK x \in T : m = n - x
  OBVIOUS
<1>3. \A y \in T : x >= y
  <2> SUFFICES ASSUME NEW y \in T PROVE x >= y
    OBVIOUS
  <2>1. n - y \in Below
    OBVIOUS
  <2> QED BY <1>1, <1>2, <2>1
<1>4. \E z \in T : \A y \in T : z >= y
  BY <1>3
<1> QED BY <1>4 DEF Max

LEMMA MaxOfTwo ==
    ASSUME NEW a \in Int, NEW b \in Int
    PROVE  Max({a, b}) = IF a >= b THEN a ELSE b
<1>1. CASE a >= b
  BY <1>1 DEF Max
<1>2. CASE ~(a >= b)
  BY <1>2 DEF Max
<1> QED BY <1>1, <1>2

LEMMA MinOfTwo ==
    ASSUME NEW a \in Int, NEW b \in Int
    PROVE  Min({a, b}) = IF a <= b THEN a ELSE b
<1>1. CASE a <= b
  BY <1>1 DEF Min
<1>2. CASE ~(a <= b)
  BY <1>2 DEF Min
<1> QED BY <1>1, <1>2

-----------------------------------------------------------------------------
(* Folds from the left, as MapThenFoldSet computes them.                   *)

\* g accumulates the steps of step over each subset of 1 .. n.
IsFold(g, step, base, n) ==
    g = [s \in SUBSET (1 .. n) |-> IF s = {} THEN base ELSE step[<<Max(s), g[s \ {Max(s)}]>>]]

\* The recursion of MapThenFoldSet does define a function.
LEMMA FoldExists ==
    ASSUME NEW n \in Nat, NEW B, NEW base \in B, NEW step \in [(1 .. n) \X B -> B]
    PROVE  \E g \in [SUBSET (1 .. n) -> B] : IsFold(g, step, base, n)
<1> DEFINE Fold(g, k) ==
             /\ g \in [SUBSET (1 .. k) -> B]
             /\ g[{}] = base
             /\ \A s \in SUBSET (1 .. k) : s # {} => g[s] = step[<<Max(s), g[s \ {Max(s)}]>>]
           Exists(k) == \E g : Fold(g, k)
           Good == {k \in Nat : k <= n => Exists(k)}
<1>1. 0 \in Good
  <2> DEFINE g == [s \in SUBSET (1 .. 0) |-> base]
  <2>1. SUBSET (1 .. 0) = {{}}
    OBVIOUS
  <2>2. Fold(g, 0)
    BY <2>1
  <2> HIDE DEF Fold
  <2> QED BY <2>2
<1>2. ASSUME NEW k \in Nat, k \in Good PROVE k + 1 \in Good
  <2>1. SUFFICES ASSUME k + 1 <= n PROVE Exists(k + 1)
    <3> HIDE DEF Exists
    <3> QED OBVIOUS
  <2>2. PICK g : Fold(g, k)
    <3>1. Exists(k)
      <4> HIDE DEF Exists
      <4> QED BY <1>2, <2>1
    <3> QED BY <3>1
  <2> DEFINE h == [s \in SUBSET (1 .. k + 1) |->
                      IF k + 1 \in s THEN step[<<k + 1, g[s \ {k + 1}]>>] ELSE g[s]]
  <2>3. \A s \in SUBSET (1 .. k + 1) : s \ {k + 1} \in SUBSET (1 .. k)
    OBVIOUS
  <2>4. \A s \in SUBSET (1 .. k + 1) : k + 1 \notin s => s \in SUBSET (1 .. k)
    OBVIOUS
  <2>5. h \in [SUBSET (1 .. k + 1) -> B]
    <3>1. k + 1 \in 1 .. n
      BY <2>1
    <3>2. \A s \in SUBSET (1 .. k + 1) : h[s] \in B
      BY <2>2, <2>3, <2>4, <3>1
    <3> QED BY <3>2
  <2>6. \A s \in SUBSET (1 .. k) : h[s] = g[s]
    <3>1. \A s \in SUBSET (1 .. k) : s \in SUBSET (1 .. k + 1) /\ k + 1 \notin s
      OBVIOUS
    <3> QED BY <3>1
  <2>7. ASSUME NEW s \in SUBSET (1 .. k + 1), s # {}
        PROVE  h[s] = step[<<Max(s), h[s \ {Max(s)}]>>]
    <3>1. s \in SUBSET (0 .. k + 1) /\ k + 1 \in Nat
      OBVIOUS
    <3>2. Max(s) \in s /\ \A x \in s : x <= Max(s)
      BY <2>7, <3>1, MaxOf
    <3>3. CASE k + 1 \in s
      <4>1. Max(s) = k + 1
        <5>1. Max(s) \in 1 .. k + 1 /\ k + 1 <= Max(s)
          BY <3>2, <3>3
        <5> QED BY <5>1
      <4>2. h[s] = step[<<k + 1, g[s \ {k + 1}]>>]
        BY <3>3
      <4> QED BY <2>3, <2>6, <4>1, <4>2
    <3>4. CASE k + 1 \notin s
      <4>1. s \in SUBSET (1 .. k) /\ s \ {Max(s)} \in SUBSET (1 .. k)
        BY <3>4, <2>4
      <4>2. g[s] = step[<<Max(s), g[s \ {Max(s)}]>>]
        BY <2>2, <2>7, <4>1
      <4> QED BY <2>6, <4>1, <4>2
    <3> QED BY <3>3, <3>4
  <2>8. h[{}] = base
    BY <2>2, <2>6
  <2> HIDE DEF h
  <2>9. Fold(h, k + 1)
    BY <2>5, <2>7, <2>8
  <2> HIDE DEF Fold
  <2> QED BY <2>9
<1>3. Exists(n)
  <2> HIDE DEF Good, Exists
  <2>1. n \in Good
    BY <1>1, <1>2, Induction
  <2>2. Good = {k \in Nat : k <= n => Exists(k)}
    BY DEF Good
  <2> QED BY <2>1, <2>2
<1>4. PICK g : Fold(g, n)
  BY <1>3
<1>5. IsFold(g, step, base, n) /\ g \in [SUBSET (1 .. n) -> B]
  BY <1>4 DEF IsFold
<1> QED BY <1>5

\* What a fold takes last from an initial segment.
LEMMA Segment ==
    ASSUME NEW n \in Nat, NEW k \in 1 .. n
    PROVE  /\ 1 .. k \in SUBSET (1 .. n) /\ 1 .. k # {}
           /\ Max(1 .. k) = k
           /\ (1 .. k) \ {k} = 1 .. k - 1
<1>1. 1 .. k \in SUBSET (1 .. n) /\ 1 .. k \in SUBSET (0 .. n) /\ 1 .. k # {}
  OBVIOUS
<1>2. Max(1 .. k) = k
  <2>1. Max(1 .. k) \in 1 .. k /\ \A x \in 1 .. k : x <= Max(1 .. k)
    BY <1>1, MaxOf
  <2>2. k \in 1 .. k
    OBVIOUS
  <2> QED BY <2>1, <2>2
<1>3. (1 .. k) \ {k} = 1 .. k - 1
  OBVIOUS
<1> QED BY <1>1, <1>2, <1>3

\* Restore pushes one sample after the other.
IsRestore(g, samples) ==
    g = [s \in SUBSET DOMAIN samples |->
            IF s = {} THEN Empty ELSE Push(g[s \ {Max(s)}], samples[Max(s)])]

LEMMA RestoreIs ==
    ASSUME NEW samples
    PROVE  Restore(samples) = (CHOOSE g : IsRestore(g, samples))[DOMAIN samples]
BY DEF Restore, FoldLeft, MapThenFoldSet, IsRestore

LEMMA RestoreSteps ==
    ASSUME NEW S, NEW samples \in Seq(S), NEW B, Empty \in B,
           \A b \in B : \A x \in S : Push(b, x) \in B
    PROVE  \E acc : /\ acc[0] = Empty
                    /\ \A k \in 1 .. Len(samples) : acc[k] = Push(acc[k - 1], samples[k])
                    /\ acc[Len(samples)] = Restore(samples)
<1> DEFINE n == Len(samples)
           step == [p \in (1 .. n) \X B |-> Push(p[2], samples[p[1]])]
<1>1. n \in Nat /\ DOMAIN samples = 1 .. n /\ \A k \in 1 .. n : samples[k] \in S
  OBVIOUS
<1> HIDE DEF n
<1>2. step \in [(1 .. n) \X B -> B]
  BY <1>1
<1>3. \A k \in 1 .. n : \A b \in B : step[<<k, b>>] = Push(b, samples[k])
  OBVIOUS
<1> HIDE DEF step
<1>4. \E g : IsRestore(g, samples)
  <2>1. PICK g \in [SUBSET (1 .. n) -> B] : IsFold(g, step, Empty, n)
    BY <1>1, <1>2, FoldExists
  <2>2. ASSUME NEW s \in SUBSET (1 .. n)
        PROVE  g[s] = IF s = {} THEN Empty ELSE Push(g[s \ {Max(s)}], samples[Max(s)])
    <3>1. s # {} => Max(s) \in 1 .. n
      <4>1. s \in SUBSET (0 .. n)
        OBVIOUS
      <4> QED BY <1>1, <4>1, MaxOf
    <3>2. g[s \ {Max(s)}] \in B
      OBVIOUS
    <3>3. g[s] = IF s = {} THEN Empty ELSE step[<<Max(s), g[s \ {Max(s)}]>>]
      BY <2>1 DEF IsFold
    <3> QED BY <1>3, <3>1, <3>2, <3>3
  <2>3. IsRestore(g, samples)
    BY <1>1, <2>2 DEF IsRestore
  <2> QED BY <2>3
<1> DEFINE h == CHOOSE g : IsRestore(g, samples)
           acc == [k \in 0 .. n |-> h[1 .. k]]
<1>5. IsRestore(h, samples)
  BY <1>4
<1>6. Restore(samples) = h[1 .. n]
  BY <1>1, RestoreIs
<1> HIDE DEF h
<1>7. acc[0] = Empty
  <2>1. 1 .. 0 = {} /\ {} \in SUBSET (1 .. n) /\ 0 \in 0 .. n
    BY <1>1
  <2>2. h[{}] = Empty
    BY <1>1, <1>5, <2>1 DEF IsRestore
  <2> QED BY <2>1, <2>2
<1>8. ASSUME NEW k \in 1 .. n PROVE acc[k] = Push(acc[k - 1], samples[k])
  <2>1. k \in 0 .. n /\ k - 1 \in 0 .. n
    BY <1>1
  <2>2. h[1 .. k] = Push(h[1 .. k - 1], samples[k])
    <3>1. /\ 1 .. k \in SUBSET (1 .. n) /\ 1 .. k # {}
          /\ Max(1 .. k) = k /\ (1 .. k) \ {k} = 1 .. k - 1
      BY <1>1, Segment
    <3> QED BY <1>1, <1>5, <3>1 DEF IsRestore
  <2> QED BY <2>1, <2>2
<1>9. acc[n] = Restore(samples)
  BY <1>1, <1>6
<1> HIDE DEF acc
<1> QED BY <1>7, <1>8, <1>9 DEF n

\* A filter looks at one sample after the other.
IsFilter(g, seq, Good) ==
    g = [s \in SUBSET DOMAIN seq |->
            IF s = {} THEN <<>>
            ELSE IF seq[Max(s)] \in Good THEN Append(g[s \ {Max(s)}], seq[Max(s)])
            ELSE g[s \ {Max(s)}]]

\* acc[k] is what the filter leaves of the first k samples.
Filtered(acc, seq, Good) ==
    /\ acc[0] = <<>>
    /\ \A k \in 1 .. Len(seq) :
         acc[k] = IF seq[k] \in Good THEN Append(acc[k - 1], seq[k]) ELSE acc[k - 1]

LEMMA FilterExists ==
    ASSUME NEW S, NEW seq \in Seq(S), NEW Good
    PROVE  \E g : IsFilter(g, seq, Good)
<1> DEFINE n == Len(seq)
           step == [p \in (1 .. n) \X Seq(S) |->
                      IF seq[p[1]] \in Good THEN Append(p[2], seq[p[1]]) ELSE p[2]]
<1>1. n \in Nat /\ DOMAIN seq = 1 .. n /\ \A k \in 1 .. n : seq[k] \in S
  OBVIOUS
<1> HIDE DEF n
<1>2. step \in [(1 .. n) \X Seq(S) -> Seq(S)]
  <2>1. ASSUME NEW k \in 1 .. n, NEW b \in Seq(S) PROVE Append(b, seq[k]) \in Seq(S)
    BY <1>1, AppendProperties
  <2> QED BY <2>1
<1>3. \A k \in 1 .. n : \A b \in Seq(S) :
         step[<<k, b>>] = IF seq[k] \in Good THEN Append(b, seq[k]) ELSE b
  OBVIOUS
<1> HIDE DEF step
<1>4. <<>> \in Seq(S)
  OBVIOUS
<1>5. PICK g \in [SUBSET (1 .. n) -> Seq(S)] : IsFold(g, step, <<>>, n)
  BY <1>1, <1>2, <1>4, FoldExists
<1>6. ASSUME NEW s \in SUBSET (1 .. n)
      PROVE  g[s] = IF s = {} THEN <<>>
                    ELSE IF seq[Max(s)] \in Good THEN Append(g[s \ {Max(s)}], seq[Max(s)])
                    ELSE g[s \ {Max(s)}]
  <2>1. s # {} => Max(s) \in 1 .. n
    <3>1. s \in SUBSET (0 .. n)
      OBVIOUS
    <3> QED BY <1>1, <3>1, MaxOf
  <2>2. g[s \ {Max(s)}] \in Seq(S)
    OBVIOUS
  <2>3. g[s] = IF s = {} THEN <<>> ELSE step[<<Max(s), g[s \ {Max(s)}]>>]
    BY <1>5 DEF IsFold
  <2> QED BY <1>3, <2>1, <2>2, <2>3
<1>7. IsFilter(g, seq, Good)
  BY <1>1, <1>6 DEF IsFilter
<1> QED BY <1>7

LEMMA FilterSteps ==
    ASSUME NEW S, NEW seq \in Seq(S), NEW Good, NEW h, IsFilter(h, seq, Good)
    PROVE  \E acc : Filtered(acc, seq, Good) /\ acc[Len(seq)] = h[DOMAIN seq]
<1> DEFINE n == Len(seq)
           acc == [k \in 0 .. n |-> h[1 .. k]]
<1>1. n \in Nat /\ DOMAIN seq = 1 .. n
  OBVIOUS
<1> HIDE DEF n
<1>2. acc[0] = <<>>
  <2>1. 1 .. 0 = {} /\ {} \in SUBSET (1 .. n) /\ 0 \in 0 .. n
    BY <1>1
  <2>2. h[{}] = <<>>
    BY <1>1, <2>1 DEF IsFilter
  <2> QED BY <2>1, <2>2
<1>3. ASSUME NEW k \in 1 .. n
      PROVE  acc[k] = IF seq[k] \in Good THEN Append(acc[k - 1], seq[k]) ELSE acc[k - 1]
  <2>1. k \in 0 .. n /\ k - 1 \in 0 .. n
    BY <1>1
  <2>2. h[1 .. k] = IF seq[k] \in Good THEN Append(h[1 .. k - 1], seq[k]) ELSE h[1 .. k - 1]
    <3>1. /\ 1 .. k \in SUBSET (1 .. n) /\ 1 .. k # {}
          /\ Max(1 .. k) = k /\ (1 .. k) \ {k} = 1 .. k - 1
      BY <1>1, Segment
    <3> QED BY <1>1, <3>1 DEF IsFilter
  <2> QED BY <2>1, <2>2
<1>4. acc[n] = h[1 .. n]
  BY <1>1
<1> HIDE DEF acc
<1>5. Filtered(acc, seq, Good)
  BY <1>2, <1>3 DEF Filtered, n
<1> QED BY <1>1, <1>4, <1>5 DEF n

\* Truncated and FiniteSamples are filters.
IsTruncated(g, seq, t) ==
    g = [s \in SUBSET DOMAIN seq |->
            IF s = {} THEN <<>>
            ELSE IF seq[Max(s)].t <= t THEN Append(g[s \ {Max(s)}], seq[Max(s)])
            ELSE g[s \ {Max(s)}]]

IsFinite(g, seq) ==
    g = [s \in SUBSET DOMAIN seq |->
            IF s = {} THEN <<>>
            ELSE IF seq[Max(s)].finite THEN Append(g[s \ {Max(s)}], seq[Max(s)])
            ELSE g[s \ {Max(s)}]]

LEMMA TruncatedIs ==
    ASSUME NEW seq, NEW t
    PROVE  Truncated(seq, t) = (CHOOSE g : IsTruncated(g, seq, t))[DOMAIN seq]
BY DEF Truncated, FoldLeft, MapThenFoldSet, IsTruncated

LEMMA FiniteIs ==
    ASSUME NEW seq
    PROVE  FiniteSamples(seq) = (CHOOSE g : IsFinite(g, seq))[DOMAIN seq]
BY DEF FiniteSamples, FoldLeft, MapThenFoldSet, IsFinite

Early(S, t) == {x \in S : x.t <= t}
Finite(S) == {x \in S : x.finite}

LEMMA LastIndex ==
    ASSUME NEW S, NEW seq \in Seq(S), NEW s \in SUBSET DOMAIN seq, s # {}
    PROVE  seq[Max(s)] \in S
<1>1. Len(seq) \in Nat /\ s \in SUBSET (0 .. Len(seq)) /\ \A k \in s : seq[k] \in S
  OBVIOUS
<1> QED BY <1>1, MaxOf

LEMMA TruncatedFilters ==
    ASSUME NEW S, NEW seq \in Seq(S), NEW t
    PROVE  \E acc : Filtered(acc, seq, Early(S, t)) /\ acc[Len(seq)] = Truncated(seq, t)
<1>1. \A s \in SUBSET DOMAIN seq : s # {} => (seq[Max(s)] \in Early(S, t) <=> seq[Max(s)].t <= t)
  BY LastIndex DEF Early
<1>2. \A g : IsFilter(g, seq, Early(S, t)) <=> IsTruncated(g, seq, t)
  BY <1>1 DEF IsFilter, IsTruncated
<1> DEFINE h == CHOOSE g : IsTruncated(g, seq, t)
<1>3. IsTruncated(h, seq, t)
  BY <1>2, FilterExists
<1>4. Truncated(seq, t) = h[DOMAIN seq]
  BY TruncatedIs
<1> HIDE DEF h
<1> QED BY <1>2, <1>3, <1>4, FilterSteps

LEMMA FiniteFilters ==
    ASSUME NEW S, NEW seq \in Seq(S)
    PROVE  \E acc : Filtered(acc, seq, Finite(S)) /\ acc[Len(seq)] = FiniteSamples(seq)
<1>1. \A s \in SUBSET DOMAIN seq : s # {} => (seq[Max(s)] \in Finite(S) <=> seq[Max(s)].finite)
  BY LastIndex DEF Finite
<1>2. \A g : IsFilter(g, seq, Finite(S)) <=> IsFinite(g, seq)
  BY <1>1 DEF IsFilter, IsFinite
<1> DEFINE h == CHOOSE g : IsFinite(g, seq)
<1>3. IsFinite(h, seq)
  BY <1>2, FilterExists
<1>4. FiniteSamples(seq) = h[DOMAIN seq]
  BY FiniteIs
<1> HIDE DEF h
<1> QED BY <1>2, <1>3, <1>4, FilterSteps

-----------------------------------------------------------------------------
(* The reference: what LastN and Truncated leave of a sequence.            *)

LEMMA LastNIs ==
    ASSUME NEW S, NEW seq \in Seq(S), NEW n \in Nat
    PROVE  LET k == IF n <= Len(seq) THEN n ELSE Len(seq)
           IN  /\ LastN(seq, n) \in Seq(S)
               /\ Len(LastN(seq, n)) = k
               /\ \A i \in 1 .. k : LastN(seq, n)[i] = seq[Len(seq) - k + i]
<1> DEFINE k == IF n <= Len(seq) THEN n ELSE Len(seq)
<1>1. Len(seq) \in Nat /\ k \in 0 .. Len(seq)
  OBVIOUS
<1>2. Max({1, Len(seq) - n + 1}) = Len(seq) - k + 1
  <2> DEFINE first == Len(seq) - n + 1
  <2>1. 1 \in Int /\ first \in Int
    BY <1>1
  <2>2. Max({1, first}) = IF 1 >= first THEN 1 ELSE first
    <3> HIDE DEF first
    <3> QED BY <2>1, MaxOfTwo
  <2>3. CASE n <= Len(seq)
    <3>1. k = n /\ first >= 1
      BY <1>1, <2>3
    <3> QED BY <1>1, <2>1, <2>2, <3>1
  <2>4. CASE ~(n <= Len(seq))
    <3>1. k = Len(seq) /\ 1 >= first
      BY <1>1, <2>4
    <3> QED BY <1>1, <2>1, <2>2, <3>1
  <2> QED BY <2>3, <2>4
<1>3. LastN(seq, n) = SubSeq(seq, Len(seq) - k + 1, Len(seq))
  BY <1>2 DEF LastN
<1> HIDE DEF k
<1>4. \A i \in Len(seq) - k + 1 .. Len(seq) : seq[i] \in S
  BY <1>1
<1>5. /\ LastN(seq, n) \in Seq(S)
      /\ Len(LastN(seq, n)) = IF Len(seq) - k + 1 <= Len(seq)
                              THEN Len(seq) - (Len(seq) - k + 1) + 1 ELSE 0
      /\ \A i \in 1 .. Len(seq) - (Len(seq) - k + 1) + 1 :
            LastN(seq, n)[i] = seq[Len(seq) - k + 1 + i - 1]
  BY <1>1, <1>3, <1>4, SubSeqProperties
<1>6. Len(LastN(seq, n)) = k
  BY <1>1, <1>5
<1>7. \A i \in 1 .. k : LastN(seq, n)[i] = seq[Len(seq) - k + i]
  <2> SUFFICES ASSUME NEW i \in 1 .. k PROVE LastN(seq, n)[i] = seq[Len(seq) - k + i]
    OBVIOUS
  <2>1. i \in 1 .. Len(seq) - (Len(seq) - k + 1) + 1 /\ Len(seq) - k + 1 + i - 1 = Len(seq) - k + i
    BY <1>1
  <2> QED BY <1>5, <2>1
<1> QED BY <1>5, <1>6, <1>7 DEF k

\* p is the end of h.
Ends(h, p) ==
    /\ Len(p) <= Len(h)
    /\ \A i \in 1 .. Len(p) : p[i] = h[Len(h) - Len(p) + i]

LEMMA EndsIsLastN ==
    ASSUME NEW S, NEW h \in Seq(S), NEW p \in Seq(S)
    PROVE  Ends(h, p) <=> LastN(h, Len(p)) = p
<1>1. Len(p) \in Nat /\ Len(h) \in Nat
  OBVIOUS
<1>2. ASSUME Ends(h, p) PROVE LastN(h, Len(p)) = p
  <2>1. /\ LastN(h, Len(p)) \in Seq(S)
        /\ Len(LastN(h, Len(p))) = Len(p)
        /\ \A i \in 1 .. Len(p) : LastN(h, Len(p))[i] = h[Len(h) - Len(p) + i]
    BY <1>1, <1>2, LastNIs DEF Ends
  <2>2. \A i \in 1 .. Len(p) : LastN(h, Len(p))[i] = p[i]
    BY <1>2, <2>1 DEF Ends
  <2> QED BY <2>1, <2>2, SeqEqual
<1>3. ASSUME LastN(h, Len(p)) = p PROVE Ends(h, p)
  <2>1. Len(p) <= Len(h)
    <3>1. Len(LastN(h, Len(p))) = IF Len(p) <= Len(h) THEN Len(p) ELSE Len(h)
      BY <1>1, LastNIs
    <3> QED BY <1>1, <1>3, <3>1
  <2>2. \A i \in 1 .. Len(p) : LastN(h, Len(p))[i] = h[Len(h) - Len(p) + i]
    BY <1>1, <2>1, LastNIs
  <2> QED BY <1>3, <2>1, <2>2 DEF Ends
<1> QED BY <1>2, <1>3

LEMMA EndsAppend ==
    ASSUME NEW S, NEW h \in Seq(S), NEW p \in Seq(S), NEW x \in S, Ends(h, p)
    PROVE  Ends(Append(h, x), Append(p, x))
<1>1. /\ Len(Append(h, x)) = Len(h) + 1 /\ Len(Append(p, x)) = Len(p) + 1
      /\ \A i \in 1 .. Len(h) : Append(h, x)[i] = h[i]
      /\ \A i \in 1 .. Len(p) : Append(p, x)[i] = p[i]
      /\ Append(h, x)[Len(h) + 1] = x /\ Append(p, x)[Len(p) + 1] = x
  BY AppendProperties
<1>2. Len(p) \in Nat /\ Len(h) \in Nat
  OBVIOUS
<1>3. ASSUME NEW i \in 1 .. Len(p) + 1
      PROVE  Append(p, x)[i] = Append(h, x)[Len(h) - Len(p) + i]
  <2>1. CASE i = Len(p) + 1
    BY <1>1, <1>2, <2>1
  <2>2. CASE i \in 1 .. Len(p)
    <3>1. Len(h) - Len(p) + i \in 1 .. Len(h)
      BY <1>2, <2>2 DEF Ends
    <3>2. p[i] = h[Len(h) - Len(p) + i]
      BY <2>2 DEF Ends
    <3>3. Append(p, x)[i] = p[i]
      BY <1>1, <2>2
    <3>4. Append(h, x)[Len(h) - Len(p) + i] = h[Len(h) - Len(p) + i]
      BY <1>1, <3>1
    <3> QED BY <3>2, <3>3, <3>4
  <2>3. i = Len(p) + 1 \/ i \in 1 .. Len(p)
    BY <1>2
  <2> QED BY <2>1, <2>2, <2>3
<1>4. Len(Append(h, x)) - Len(Append(p, x)) = Len(h) - Len(p) /\ Len(Append(p, x)) <= Len(Append(h, x))
  BY <1>1, <1>2 DEF Ends
<1> QED BY <1>1, <1>3, <1>4 DEF Ends

LEMMA EndsLastN ==
    ASSUME NEW S, NEW h \in Seq(S), NEW p \in Seq(S), NEW n \in Nat, Ends(h, p)
    PROVE  Ends(LastN(h, n), LastN(p, n))
<1> DEFINE j == IF n <= Len(h) THEN n ELSE Len(h)
           k == IF n <= Len(p) THEN n ELSE Len(p)
<1>1. Len(p) \in Nat /\ Len(h) \in Nat /\ Len(p) <= Len(h)
  BY DEF Ends
<1>2. Len(LastN(h, n)) = j /\ \A i \in 1 .. j : LastN(h, n)[i] = h[Len(h) - j + i]
  BY LastNIs
<1>3. Len(LastN(p, n)) = k /\ \A i \in 1 .. k : LastN(p, n)[i] = p[Len(p) - k + i]
  BY LastNIs
<1>4. j \in Nat /\ k \in Nat /\ k <= j /\ j <= Len(h) /\ k <= Len(p)
  BY <1>1
<1> HIDE DEF j, k
<1>5. ASSUME NEW i \in 1 .. k PROVE LastN(p, n)[i] = LastN(h, n)[j - k + i]
  <2>1. Len(p) - k + i \in 1 .. Len(p) /\ j - k + i \in 1 .. j
    BY <1>1, <1>4
  <2>2. p[Len(p) - k + i] = h[Len(h) - Len(p) + (Len(p) - k + i)]
    BY <2>1 DEF Ends
  <2>3. Len(h) - Len(p) + (Len(p) - k + i) = Len(h) - j + (j - k + i)
    BY <1>1, <1>4
  <2> QED BY <1>2, <1>3, <2>1, <2>2, <2>3
<1> QED BY <1>2, <1>3, <1>4, <1>5 DEF Ends

-----------------------------------------------------------------------------
(* What a filter leaves of a sequence.                                     *)

LEMMA FilterType ==
    ASSUME NEW S, NEW seq \in Seq(S), NEW Good, NEW a, Filtered(a, seq, Good)
    PROVE  \A k \in 0 .. Len(seq) : a[k] \in Seq(S) /\ Len(a[k]) <= k
<1> DEFINE n == Len(seq)
           Right == {k \in Nat : k <= n => a[k] \in Seq(S) /\ Len(a[k]) <= k}
<1>1. n \in Nat /\ \A k \in 1 .. n : seq[k] \in S
  OBVIOUS
<1>2. 0 \in Right
  <2>1. a[0] = <<>>
    BY DEF Filtered
  <2>2. <<>> \in Seq(S) /\ Len(<<>>) = 0
    OBVIOUS
  <2>3. a[0] \in Seq(S) /\ Len(a[0]) = 0
    BY <2>1, <2>2
  <2> QED BY <2>3
<1>3. ASSUME NEW k \in Nat, k \in Right PROVE k + 1 \in Right
  <2> SUFFICES ASSUME k + 1 <= n PROVE a[k + 1] \in Seq(S) /\ Len(a[k + 1]) <= k + 1
    OBVIOUS
  <2>1. k + 1 \in 1 .. n /\ (k + 1) - 1 = k /\ a[k] \in Seq(S) /\ Len(a[k]) <= k
    BY <1>1, <1>3
  <2>2. a[k + 1] = IF seq[k + 1] \in Good THEN Append(a[k], seq[k + 1]) ELSE a[k]
    BY <2>1 DEF Filtered
  <2>3. /\ Append(a[k], seq[k + 1]) \in Seq(S)
        /\ Len(Append(a[k], seq[k + 1])) = Len(a[k]) + 1
    BY <1>1, <2>1, AppendProperties
  <2> QED BY <2>1, <2>2, <2>3
<1> HIDE DEF Right
<1>4. Nat \subseteq Right
  BY <1>2, <1>3, Induction
<1> QED BY <1>1, <1>4 DEF Right

\* A filter keeps the end of a sequence its end.
LEMMA FilterEnds ==
    ASSUME NEW S, NEW h \in Seq(S), NEW p \in Seq(S), NEW Good, Ends(h, p),
           NEW a, Filtered(a, h, Good), NEW b, Filtered(b, p, Good)
    PROVE  Ends(a[Len(h)], b[Len(p)])
<1> DEFINE m == Len(h) - Len(p)
<1>1. Len(p) \in Nat /\ Len(h) \in Nat /\ m \in Nat
  BY DEF Ends
<1>2. \A k \in 0 .. Len(h) : a[k] \in Seq(S)
  BY FilterType
<1>3. \A k \in 0 .. Len(p) : b[k] \in Seq(S)
  BY FilterType
<1> DEFINE Right == {k \in Nat : k <= Len(p) => Ends(a[m + k], b[k])}
<1>4. 0 \in Right
  <2>1. a[m] \in Seq(S) /\ b[0] = <<>>
    BY <1>1, <1>2 DEF Filtered
  <2>2. \A q \in Seq(S) : Ends(q, <<>>)
    BY DEF Ends
  <2>3. m + 0 = m
    BY <1>1
  <2> QED BY <2>1, <2>2, <2>3
<1>5. ASSUME NEW k \in Nat, k \in Right PROVE k + 1 \in Right
  <2> SUFFICES ASSUME k + 1 <= Len(p) PROVE Ends(a[m + (k + 1)], b[k + 1])
    OBVIOUS
  <2>1. /\ k + 1 \in 1 .. Len(p) /\ m + (k + 1) \in 1 .. Len(h)
        /\ m + k \in 0 .. Len(h) /\ k \in 0 .. Len(p)
        /\ (k + 1) - 1 = k /\ m + (k + 1) - 1 = m + k
    BY <1>1
  <2>2. p[k + 1] = h[m + (k + 1)] /\ p[k + 1] \in S
    BY <2>1 DEF Ends
  <2>3. Ends(a[m + k], b[k]) /\ a[m + k] \in Seq(S) /\ b[k] \in Seq(S)
    BY <1>2, <1>3, <1>5, <2>1
  <2>4. a[m + (k + 1)] = IF p[k + 1] \in Good THEN Append(a[m + k], p[k + 1]) ELSE a[m + k]
    <3> DEFINE i == m + (k + 1)
    <3>1. i \in 1 .. Len(h) /\ i - 1 = m + k /\ h[i] = p[k + 1]
      BY <2>1, <2>2
    <3> HIDE DEF i
    <3>2. a[i] = IF h[i] \in Good THEN Append(a[i - 1], h[i]) ELSE a[i - 1]
      BY <3>1 DEF Filtered
    <3>3. a[i] = IF p[k + 1] \in Good THEN Append(a[m + k], p[k + 1]) ELSE a[m + k]
      BY <3>1, <3>2
    <3> QED BY <3>3 DEF i
  <2>5. b[k + 1] = IF p[k + 1] \in Good THEN Append(b[k], p[k + 1]) ELSE b[k]
    BY <2>1 DEF Filtered
  <2>6. Ends(Append(a[m + k], p[k + 1]), Append(b[k], p[k + 1]))
    BY <2>2, <2>3, EndsAppend
  <2> QED BY <2>3, <2>4, <2>5, <2>6
<1>6. Len(p) \in Right
  <2> HIDE DEF Right
  <2> QED BY <1>1, <1>4, <1>5, Induction
<1>7. m + Len(p) = Len(h)
  BY <1>1
<1> QED BY <1>6, <1>7

\* When it takes the first and no other samples, an initial segment is left.
LEMMA FilterPrefix ==
    ASSUME NEW S, NEW seq \in Seq(S), NEW Good, NEW a, Filtered(a, seq, Good),
           NEW end \in 0 .. Len(seq),
           \A i \in 1 .. end : seq[i] \in Good,
           \A i \in end + 1 .. Len(seq) : seq[i] \notin Good
    PROVE  a[Len(seq)] = SubSeq(seq, 1, end)
<1> DEFINE upto(k) == IF k <= end THEN k ELSE end
<1>1. Len(seq) \in Nat
  OBVIOUS
<1> DEFINE Right == {k \in Nat : k <= Len(seq) => a[k] = SubSeq(seq, 1, upto(k))}
<1>2. 0 \in Right
  <2>1. SubSeq(seq, 1, 0) = <<>>
    BY SubSeqEmpty
  <2>2. upto(0) = 0 /\ a[0] = <<>>
    BY DEF Filtered
  <2> QED BY <2>1, <2>2
<1>3. ASSUME NEW k \in Nat, k \in Right PROVE k + 1 \in Right
  <2> SUFFICES ASSUME k + 1 <= Len(seq) PROVE a[k + 1] = SubSeq(seq, 1, upto(k + 1))
    OBVIOUS
  <2>1. k + 1 \in 1 .. Len(seq) /\ (k + 1) - 1 = k /\ a[k] = SubSeq(seq, 1, upto(k))
    BY <1>1, <1>3
  <2>2. a[k + 1] = IF seq[k + 1] \in Good THEN Append(a[k], seq[k + 1]) ELSE a[k]
    BY <2>1 DEF Filtered
  <2>3. CASE k + 1 <= end
    <3>1. seq[k + 1] \in Good /\ upto(k) = k /\ upto(k + 1) = k + 1
      BY <2>3
    <3>2. Append(SubSeq(seq, 1, k), seq[k + 1]) = SubSeq(seq, 1, k + 1)
      <4>1. 1 \in 1 .. Len(seq) /\ k + 1 \in 1 .. Len(seq) /\ seq[k + 1] \in S
        BY <1>1, <2>1
      <4>2. SubSeq(seq, 1, k + 1) = SubSeq(seq, 1, (k + 1) - 1) \o <<seq[k + 1]>>
        BY <4>1, SubSeqRecursiveSecond
      <4>3. SubSeq(seq, 1, k) \in Seq(S)
        <5>1. \A i \in 1 .. k : seq[i] \in S
          BY <2>1
        <5> QED BY <5>1, SubSeqProperties
      <4> QED BY <2>1, <4>1, <4>2, <4>3, AppendIsConcat
    <3> QED BY <2>1, <2>2, <3>1, <3>2
  <2>4. CASE k + 1 > end
    <3>1. seq[k + 1] \notin Good /\ upto(k) = end /\ upto(k + 1) = end
      BY <1>1, <2>1, <2>4
    <3> QED BY <2>1, <2>2, <3>1
  <2> QED BY <2>3, <2>4
<1>4. Len(seq) \in Right
  <2> HIDE DEF Right
  <2> QED BY <1>1, <1>2, <1>3, Induction
<1>5. upto(Len(seq)) = end
  BY <1>1
<1> QED BY <1>4, <1>5

\* One sample more.
LEMMA FilterAppend ==
    ASSUME NEW S, NEW seq \in Seq(S), NEW x \in S, NEW Good,
           NEW a, Filtered(a, seq, Good), NEW b, Filtered(b, Append(seq, x), Good)
    PROVE  b[Len(Append(seq, x))] =
             IF x \in Good THEN Append(a[Len(seq)], x) ELSE a[Len(seq)]
<1> DEFINE n == Len(seq)
           all == Append(seq, x)
           Right == {k \in Nat : k <= n => b[k] = a[k]}
<1>1. /\ n \in Nat /\ Len(all) = n + 1 /\ all[n + 1] = x
      /\ \A k \in 1 .. n : all[k] = seq[k]
  BY AppendProperties
<1>2. Filtered(b, all, Good)
  OBVIOUS
<1> HIDE DEF n, all
<1>3. 0 \in Right
  BY DEF Filtered
<1>4. ASSUME NEW k \in Nat, k \in Right PROVE k + 1 \in Right
  <2> SUFFICES ASSUME k + 1 <= n PROVE b[k + 1] = a[k + 1]
    OBVIOUS
  <2>1. k + 1 \in 1 .. n /\ k + 1 \in 1 .. Len(all) /\ (k + 1) - 1 = k /\ b[k] = a[k]
    BY <1>1, <1>4
  <2>2. a[k + 1] = IF seq[k + 1] \in Good THEN Append(a[k], seq[k + 1]) ELSE a[k]
    BY <2>1 DEF Filtered, n
  <2>3. b[k + 1] = IF all[k + 1] \in Good THEN Append(b[k], all[k + 1]) ELSE b[k]
    BY <1>2, <2>1 DEF Filtered
  <2> QED BY <1>1, <2>1, <2>2, <2>3
<1>5. b[n] = a[n]
  <2> HIDE DEF Right
  <2>1. n \in Right
    BY <1>1, <1>3, <1>4, Induction
  <2> QED BY <1>1, <2>1 DEF Right
<1>6. b[n + 1] = IF x \in Good THEN Append(b[n], x) ELSE b[n]
  <2>1. n + 1 \in 1 .. Len(all) /\ (n + 1) - 1 = n
    BY <1>1
  <2>2. b[n + 1] = IF all[n + 1] \in Good THEN Append(b[(n + 1) - 1], all[n + 1]) ELSE b[(n + 1) - 1]
    BY <1>2, <2>1 DEF Filtered
  <2> QED BY <1>1, <2>1, <2>2
<1> QED BY <1>1, <1>5, <1>6 DEF n, all

-----------------------------------------------------------------------------
(* Truncated and FiniteSamples.                                            *)

LEMMA TruncatedType ==
    ASSUME NEW S, NEW seq \in Seq(S), NEW t
    PROVE  Truncated(seq, t) \in Seq(S) /\ Len(Truncated(seq, t)) <= Len(seq)
<1>1. Len(seq) \in 0 .. Len(seq)
  OBVIOUS
<1> QED BY <1>1, TruncatedFilters, FilterType

LEMMA EndsTruncated ==
    ASSUME NEW S, NEW h \in Seq(S), NEW p \in Seq(S), NEW t, Ends(h, p)
    PROVE  Ends(Truncated(h, t), Truncated(p, t))
<1>1. PICK a : Filtered(a, h, Early(S, t)) /\ a[Len(h)] = Truncated(h, t)
  BY TruncatedFilters
<1>2. PICK b : Filtered(b, p, Early(S, t)) /\ b[Len(p)] = Truncated(p, t)
  BY TruncatedFilters
<1> QED BY <1>1, <1>2, FilterEnds

\* Of a sequence in time order an initial segment is left.
LEMMA TruncatedPrefix ==
    ASSUME NEW S, NEW seq \in Seq(S), NEW t, NEW end \in 0 .. Len(seq),
           \A i \in 1 .. end : seq[i].t <= t,
           \A i \in end + 1 .. Len(seq) : ~(seq[i].t <= t)
    PROVE  Truncated(seq, t) = SubSeq(seq, 1, end)
<1>1. PICK a : Filtered(a, seq, Early(S, t)) /\ a[Len(seq)] = Truncated(seq, t)
  BY TruncatedFilters
<1>2. \A i \in 1 .. Len(seq) : seq[i] \in S
  OBVIOUS
<1>3. \A i \in 1 .. end : seq[i] \in Early(S, t)
  BY <1>2 DEF Early
<1>4. \A i \in end + 1 .. Len(seq) : seq[i] \notin Early(S, t)
  BY DEF Early
<1> QED BY <1>1, <1>3, <1>4, FilterPrefix

LEMMA TruncatedAppend ==
    ASSUME NEW S, NEW seq \in Seq(S), NEW x \in S, NEW t
    PROVE  Truncated(Append(seq, x), t) =
             IF x.t <= t THEN Append(Truncated(seq, t), x) ELSE Truncated(seq, t)
<1>1. PICK a : Filtered(a, seq, Early(S, t)) /\ a[Len(seq)] = Truncated(seq, t)
  BY TruncatedFilters
<1>2. Append(seq, x) \in Seq(S)
  BY AppendProperties
<1>3. PICK b : /\ Filtered(b, Append(seq, x), Early(S, t))
               /\ b[Len(Append(seq, x))] = Truncated(Append(seq, x), t)
  BY <1>2, TruncatedFilters
<1>4. b[Len(Append(seq, x))] =
        IF x \in Early(S, t) THEN Append(a[Len(seq)], x) ELSE a[Len(seq)]
  <2> DEFINE Good == Early(S, t)
  <2>1. Filtered(a, seq, Good) /\ Filtered(b, Append(seq, x), Good)
    BY <1>1, <1>3
  <2> HIDE DEF Good
  <2>2. b[Len(Append(seq, x))] =
          IF x \in Good THEN Append(a[Len(seq)], x) ELSE a[Len(seq)]
    BY <2>1, FilterAppend
  <2> QED BY <2>2 DEF Good
<1> QED BY <1>1, <1>3, <1>4 DEF Early

LEMMA FiniteType ==
    ASSUME NEW S, NEW seq \in Seq(S)
    PROVE  FiniteSamples(seq) \in Seq(S) /\ Len(FiniteSamples(seq)) <= Len(seq)
<1>1. Len(seq) \in 0 .. Len(seq)
  OBVIOUS
<1> QED BY <1>1, FiniteFilters, FilterType

LEMMA EndsFinite ==
    ASSUME NEW S, NEW h \in Seq(S), NEW p \in Seq(S), Ends(h, p)
    PROVE  Ends(FiniteSamples(h), FiniteSamples(p))
<1>1. PICK a : Filtered(a, h, Finite(S)) /\ a[Len(h)] = FiniteSamples(h)
  BY FiniteFilters
<1>2. PICK b : Filtered(b, p, Finite(S)) /\ b[Len(p)] = FiniteSamples(p)
  BY FiniteFilters
<1> QED BY <1>1, <1>2, FilterEnds

LEMMA FiniteAppend ==
    ASSUME NEW S, NEW seq \in Seq(S), NEW x \in S
    PROVE  FiniteSamples(Append(seq, x)) =
             IF x.finite THEN Append(FiniteSamples(seq), x) ELSE FiniteSamples(seq)
<1>1. PICK a : Filtered(a, seq, Finite(S)) /\ a[Len(seq)] = FiniteSamples(seq)
  BY FiniteFilters
<1>2. Append(seq, x) \in Seq(S)
  BY AppendProperties
<1>3. PICK b : /\ Filtered(b, Append(seq, x), Finite(S))
               /\ b[Len(Append(seq, x))] = FiniteSamples(Append(seq, x))
  BY <1>2, FiniteFilters
<1>4. b[Len(Append(seq, x))] =
        IF x \in Finite(S) THEN Append(a[Len(seq)], x) ELSE a[Len(seq)]
  <2> DEFINE Good == Finite(S)
  <2>1. Filtered(a, seq, Good) /\ Filtered(b, Append(seq, x), Good)
    BY <1>1, <1>3
  <2> HIDE DEF Good
  <2>2. b[Len(Append(seq, x))] =
          IF x \in Good THEN Append(a[Len(seq)], x) ELSE a[Len(seq)]
    BY <2>1, FilterAppend
  <2> QED BY <2>2 DEF Good
<1> QED BY <1>1, <1>3, <1>4 DEF Finite

\* A sequence without gaps is left as it is.
LEMMA FiniteWhole ==
    ASSUME NEW S, NEW seq \in Seq(S), \A i \in DOMAIN seq : seq[i].finite
    PROVE  FiniteSamples(seq) = seq
<1> DEFINE end == Len(seq)
<1>1. PICK a : Filtered(a, seq, Finite(S)) /\ a[Len(seq)] = FiniteSamples(seq)
  BY FiniteFilters
<1>2. /\ end \in 0 .. Len(seq) /\ \A i \in 1 .. end : seq[i] \in Finite(S)
      /\ \A i \in end + 1 .. Len(seq) : seq[i] \notin Finite(S)
  BY DEF Finite
<1>3. SubSeq(seq, 1, end) = seq
  <2>1. \A i \in 1 .. end : seq[i] \in S
    OBVIOUS
  <2>2. SubSeq(seq, 1, end) \in Seq(S) /\ Len(SubSeq(seq, 1, end)) = Len(seq)
        /\ \A i \in 1 .. end : SubSeq(seq, 1, end)[i] = seq[i]
    BY <2>1, SubSeqProperties
  <2> QED BY <2>2, SeqEqual
<1> HIDE DEF end
<1>4. a[Len(seq)] = SubSeq(seq, 1, end)
  BY <1>1, <1>2, FilterPrefix
<1> QED BY <1>1, <1>3, <1>4

\* The two filters may be taken in either order.
LEMMA FiniteTruncated ==
    ASSUME NEW S, NEW seq \in Seq(S), NEW t
    PROVE  FiniteSamples(Truncated(seq, t)) = Truncated(FiniteSamples(seq), t)
<1> DEFINE n == Len(seq)
<1>1. n \in Nat /\ \A k \in 1 .. n : seq[k] \in S
  OBVIOUS
<1>2. PICK a : Filtered(a, seq, Early(S, t)) /\ a[n] = Truncated(seq, t)
  BY TruncatedFilters
<1>3. PICK f : Filtered(f, seq, Finite(S)) /\ f[n] = FiniteSamples(seq)
  BY FiniteFilters
<1>4. \A k \in 0 .. n : a[k] \in Seq(S) /\ f[k] \in Seq(S)
  BY <1>2, <1>3, FilterType
<1> DEFINE Right == {k \in Nat : k <= n => FiniteSamples(a[k]) = Truncated(f[k], t)}
<1>5. 0 \in Right
  <2>1. a[0] = <<>> /\ f[0] = <<>>
    BY <1>2, <1>3 DEF Filtered
  <2>2. <<>> \in Seq(S) /\ Len(<<>>) = 0
    OBVIOUS
  <2>3. FiniteSamples(<<>>) = <<>> /\ Truncated(<<>>, t) = <<>>
    <3>1. FiniteSamples(<<>>) \in Seq(S) /\ Len(FiniteSamples(<<>>)) <= 0
      BY <2>2, FiniteType
    <3>2. Truncated(<<>>, t) \in Seq(S) /\ Len(Truncated(<<>>, t)) <= 0
      BY <2>2, TruncatedType
    <3> QED BY <3>1, <3>2
  <2> QED BY <2>1, <2>3
<1>6. ASSUME NEW k \in Nat, k \in Right PROVE k + 1 \in Right
  <2> SUFFICES ASSUME k + 1 <= n PROVE FiniteSamples(a[k + 1]) = Truncated(f[k + 1], t)
    OBVIOUS
  <2> DEFINE x == seq[k + 1]
  <2>1. /\ k + 1 \in 1 .. n /\ (k + 1) - 1 = k /\ x \in S
        /\ a[k] \in Seq(S) /\ f[k] \in Seq(S) /\ FiniteSamples(a[k]) = Truncated(f[k], t)
    BY <1>1, <1>4, <1>6
  <2>2. a[k + 1] = IF x.t <= t THEN Append(a[k], x) ELSE a[k]
    BY <1>2, <2>1 DEF Filtered, Early
  <2>3. f[k + 1] = IF x.finite THEN Append(f[k], x) ELSE f[k]
    BY <1>3, <2>1 DEF Filtered, Finite
  <2> HIDE DEF x
  <2>4. FiniteSamples(Append(a[k], x)) =
          IF x.finite THEN Append(FiniteSamples(a[k]), x) ELSE FiniteSamples(a[k])
    BY <2>1, FiniteAppend
  <2>5. Truncated(Append(f[k], x), t) =
          IF x.t <= t THEN Append(Truncated(f[k], t), x) ELSE Truncated(f[k], t)
    BY <2>1, TruncatedAppend
  <2> QED BY <2>1, <2>2, <2>3, <2>4, <2>5
<1> HIDE DEF Right
<1>7. n \in Right
  BY <1>1, <1>5, <1>6, Induction
<1>8. FiniteSamples(a[n]) = Truncated(f[n], t)
  BY <1>1, <1>7 DEF Right
<1> QED BY <1>2, <1>3, <1>8

-----------------------------------------------------------------------------
(* The buffer.                                                             *)

Buffers ==
    [samples : Seq(Sample), start : Nat, count : Nat,
     earliest : SUBSET Int, earliestAt : Nat, latest : SUBSET Int, latestAt : Nat]

\* What the first and the last cached time are unless they are known to be stale.
\* The cached last time of an empty buffer is never right.
EarliestRight(b) ==
    b.samples # <<>> /\ b.earliestAt > b.start /\ b.earliest # NaN =>
        b.earliest = {b.samples[1].t} /\ b.earliestAt = b.start + 1

LatestRight(b) ==
    /\ b.samples = <<>> => b.latest = NaN
    /\ b.samples # <<>> /\ b.latestAt > b.start /\ b.latest # NaN =>
          b.latest = {Last(b.samples).t} /\ b.latestAt = b.start + Len(b.samples)

\* A buffer in time order that counts its samples.
Listed(b) == b \in Buffers /\ InOrder(b.samples) /\ b.count = Len(b.samples)

Cached(b) == Listed(b) /\ EarliestRight(b) /\ LatestRight(b)

Buffer(b) == Cached(b) /\ Len(b.samples) <= Capacity

LEMMA SampleTimes == \A x \in Sample : x.t \in Int
BY DEF Sample

LEMMA EmptyIsBuffer == Buffer(Empty) /\ Empty.samples = <<>>
<1>1. <<>> \in Seq(Sample) /\ NaN \in SUBSET Int
  BY DEF NaN
<1>2. Empty \in Buffers
  BY <1>1 DEF Empty, Buffers
<1>3. Empty.samples = <<>> /\ Empty.count = 0 /\ Empty.latest = NaN
  BY DEF Empty
<1>4. InOrder(<<>>) /\ Len(<<>>) = 0
  BY DEF InOrder
<1> QED BY <1>2, <1>3, <1>4, CapacityAssumption DEF Buffer, Cached, Listed, EarliestRight, LatestRight

\* What the caches are after a read.
LEMMA LatestResolves ==
    ASSUME NEW b, Cached(b)
    PROVE  LET r == ResolveLatest(b)
           IN  /\ Cached(r)
               /\ r.samples = b.samples /\ r.start = b.start /\ r.count = b.count
               /\ r.samples = <<>> => r.latest = NaN
               /\ r.samples # <<>> => /\ r.latest = {Last(r.samples).t}
                                      /\ r.latestAt = r.start + Len(r.samples)
<1> DEFINE r == ResolveLatest(b)
           t == Last(b.samples).t
<1>0. b \in Buffers
  BY DEF Cached, Listed, EarliestRight, LatestRight
<1>1. /\ b \in Buffers /\ b.samples \in Seq(Sample) /\ b.start \in Nat
      /\ Len(b.samples) \in Nat
  BY DEF Cached, Listed, EarliestRight, LatestRight, Buffers
<1>2. CASE b.latestAt > b.start /\ b.latest # NaN
  <2>1. r = b
    BY <1>2 DEF ResolveLatest
  <2> QED BY <1>2, <2>1 DEF Cached, Listed, EarliestRight, LatestRight
<1>3. CASE ~(b.latestAt > b.start /\ b.latest # NaN) /\ b.samples = <<>>
  <2>1. r = [b EXCEPT !.latest = NaN, !.latestAt = 0]
    BY <1>3 DEF ResolveLatest, RefreshLatest
  <2>2. NaN \in SUBSET Int /\ 0 \in Nat
    BY DEF NaN
  <2> HIDE DEF r
  <2>4. /\ r \in Buffers /\ r.samples = b.samples /\ r.start = b.start /\ r.count = b.count /\ r.latest = NaN
        /\ r.earliest = b.earliest /\ r.earliestAt = b.earliestAt
    BY <1>0, <2>1, <2>2 DEF Buffers
  <2>5. Cached(r)
    BY <1>3, <2>4 DEF Cached, Listed, EarliestRight, LatestRight, NaN
  <2> QED BY <1>3, <2>4, <2>5 DEF r
<1>4. CASE ~(b.latestAt > b.start /\ b.latest # NaN) /\ b.samples # <<>>
  <2>1. r = [b EXCEPT !.latest = {t}, !.latestAt = b.start + Len(b.samples)]
    BY <1>4 DEF ResolveLatest, RefreshLatest, ActiveLength
  <2>2. t \in Int
    <3>1. b.samples[Len(b.samples)] \in Sample
      BY <1>1, <1>4
    <3> QED BY <3>1, SampleTimes DEF Last
  <2>3. {t} \in SUBSET Int /\ b.start + Len(b.samples) \in Nat
    BY <1>1, <2>2
  <2> HIDE DEF t
  <2> HIDE DEF r
  <2>4. /\ r \in Buffers /\ r.samples = b.samples /\ r.start = b.start /\ r.count = b.count /\ r.latest = {t}
        /\ r.earliest = b.earliest /\ r.earliestAt = b.earliestAt
        /\ r.latestAt = b.start + Len(b.samples)
    BY <1>0, <2>1, <2>3 DEF Buffers
  <2>5. Cached(r)
    BY <1>1, <1>4, <2>4 DEF Cached, Listed, EarliestRight, LatestRight, t
  <2> QED BY <1>4, <2>4, <2>5 DEF r, t
<1> QED BY <1>2, <1>3, <1>4

LEMMA EarliestResolves ==
    ASSUME NEW b, Cached(b)
    PROVE  LET r == ResolveEarliest(b)
           IN  /\ Cached(r)
               /\ r.samples = b.samples /\ r.start = b.start /\ r.count = b.count
               /\ r.samples # <<>> => r.earliest = {r.samples[1].t}
<1> DEFINE r == ResolveEarliest(b)
           t == b.samples[1].t
<1>0. b \in Buffers
  BY DEF Cached, Listed, EarliestRight, LatestRight
<1>1. /\ b \in Buffers /\ b.samples \in Seq(Sample) /\ b.start \in Nat
      /\ Len(b.samples) \in Nat
  BY DEF Cached, Listed, EarliestRight, LatestRight, Buffers
<1>2. CASE b.earliestAt > b.start /\ b.earliest # NaN
  <2>1. r = b
    BY <1>2 DEF ResolveEarliest
  <2> QED BY <1>2, <2>1 DEF Cached, Listed, EarliestRight, LatestRight
<1>3. CASE ~(b.earliestAt > b.start /\ b.earliest # NaN) /\ b.samples = <<>>
  <2>1. r = [b EXCEPT !.earliest = NaN, !.earliestAt = 0]
    BY <1>3 DEF ResolveEarliest
  <2>2. NaN \in SUBSET Int /\ 0 \in Nat
    BY DEF NaN
  <2> HIDE DEF r
  <2>4. /\ r \in Buffers /\ r.samples = b.samples /\ r.start = b.start /\ r.count = b.count
        /\ r.latest = b.latest
    BY <1>0, <2>1, <2>2 DEF Buffers
  <2>5. Cached(r)
    BY <1>3, <2>4 DEF Cached, Listed, EarliestRight, LatestRight, NaN
  <2> QED BY <1>3, <2>4, <2>5 DEF r
<1>4. CASE ~(b.earliestAt > b.start /\ b.earliest # NaN) /\ b.samples # <<>>
  <2>1. r = [b EXCEPT !.earliest = {t}, !.earliestAt = b.start + 1]
    BY <1>4 DEF ResolveEarliest
  <2>2. t \in Int
    <3>1. b.samples[1] \in Sample
      BY <1>1, <1>4
    <3> QED BY <3>1, SampleTimes
  <2>3. {t} \in SUBSET Int /\ b.start + 1 \in Nat
    BY <1>1, <2>2
  <2> HIDE DEF t
  <2> HIDE DEF r
  <2>4. /\ r \in Buffers /\ r.samples = b.samples /\ r.start = b.start /\ r.count = b.count
        /\ r.latest = b.latest /\ r.latestAt = b.latestAt
        /\ r.earliest = {t} /\ r.earliestAt = b.start + 1
    BY <1>0, <2>1, <2>3 DEF Buffers
  <2>5. Cached(r)
    BY <1>1, <1>4, <2>4 DEF Cached, Listed, EarliestRight, LatestRight, t
  <2> QED BY <1>4, <2>4, <2>5 DEF r, t
<1> QED BY <1>2, <1>3, <1>4

\* A reader of a buffer is told the true first and last times.
LEMMA CachesRight ==
    ASSUME NEW b, Cached(b)
    PROVE  CachesAgree(b)
<1>1. b.samples \in Seq(Sample) /\ b.count = Len(b.samples) /\ b.start \in Nat
  BY DEF Cached, Listed, EarliestRight, LatestRight, Buffers
<1>2. b.count > 0 => b.samples # <<>>
  BY <1>1
<1>3. b.samples # <<>> => ResolveEarliest(b).earliest = {b.samples[1].t}
  BY EarliestResolves
<1>4. b.samples # <<>> =>
        /\ ResolveLatest(b).latest = {Last(b.samples).t}
        /\ ResolveLatest(b).latestAt = b.start + Len(b.samples)
  BY LatestResolves
<1>5. b.samples # <<>> => ResolveLatest(b).latestAt - b.start = b.count
  BY <1>1, <1>4
<1> QED BY <1>1, <1>2, <1>3, <1>4, <1>5 DEF CachesAgree, ActiveLength

\* A draw changes nothing but caches.
LEMMA DrawKeeps ==
    ASSUME NEW b, Buffer(b), NEW live
    PROVE  Buffer(Draw(b, live)) /\ Draw(b, live).samples = b.samples
<1>1. Cached(ResolveLatest(b)) /\ ResolveLatest(b).samples = b.samples
  BY LatestResolves DEF Buffer
<1>2. Cached(ResolveEarliest(b)) /\ ResolveEarliest(b).samples = b.samples
  BY EarliestResolves DEF Buffer
<1>3. /\ Cached(ResolveLatest(ResolveEarliest(b)))
      /\ ResolveLatest(ResolveEarliest(b)).samples = b.samples
  BY <1>2, LatestResolves
<1>4. Draw(b, live) \in {b, ResolveLatest(b), ResolveLatest(ResolveEarliest(b))}
  BY DEF Draw
<1> QED BY <1>1, <1>3, <1>4 DEF Buffer


-----------------------------------------------------------------------------
(* Pushing a sample.                                                       *)

\* A part of a sequence in time order is in time order.
LEMMA Part ==
    ASSUME NEW seq \in Seq(Sample), InOrder(seq),
           NEW m \in 1 .. Len(seq) + 1, NEW n \in 0 .. Len(seq), n >= m - 1
    PROVE  LET part == SubSeq(seq, m, n)
           IN  /\ part \in Seq(Sample) /\ InOrder(part) /\ Len(part) = n - m + 1
               /\ \A i \in 1 .. n - m + 1 : part[i] = seq[m + i - 1]
<1> DEFINE part == SubSeq(seq, m, n)
<1>1. Len(seq) \in Nat /\ DOMAIN seq = 1 .. Len(seq) /\ \A i \in m .. n : seq[i] \in Sample
  OBVIOUS
<1>2. /\ part \in Seq(Sample) /\ Len(part) = IF m <= n THEN n - m + 1 ELSE 0
      /\ \A i \in 1 .. n - m + 1 : part[i] = seq[m + i - 1]
  BY <1>1, SubSeqProperties
<1>3. Len(part) = n - m + 1
  <2>1. CASE m <= n
    BY <1>2, <2>1
  <2>2. CASE ~(m <= n)
    <3>1. n - m + 1 = 0
      BY <1>1, <2>2
    <3> QED BY <1>2, <2>2, <3>1
  <2> QED BY <2>1, <2>2
<1> HIDE DEF part
<1>4. InOrder(part)
  <2> SUFFICES ASSUME NEW i \in DOMAIN part, NEW j \in DOMAIN part, i < j
               PROVE  part[i].t <= part[j].t
    BY DEF InOrder
  <2>1. i \in 1 .. n - m + 1 /\ j \in 1 .. n - m + 1
    <3>1. part \in Seq(Sample)
      BY <1>2
    <3>2. DOMAIN part = 1 .. Len(part)
      BY <3>1
    <3> QED BY <1>3, <3>2
  <2>2. /\ m + i - 1 \in 1 .. Len(seq) /\ m + j - 1 \in 1 .. Len(seq)
        /\ m + i - 1 < m + j - 1
    <3>1. Len(seq) \in Nat
      BY <1>1
    <3> QED BY <2>1, <3>1
  <2>3. seq[m + i - 1].t <= seq[m + j - 1].t
    BY <1>1, <2>2 DEF InOrder
  <2> QED BY <1>2, <2>1, <2>3
<1> QED BY <1>2, <1>3, <1>4 DEF part

\* An initial segment.
LEMMA InitialPart ==
    ASSUME NEW seq \in Seq(Sample), InOrder(seq), NEW n \in 0 .. Len(seq)
    PROVE  LET part == SubSeq(seq, 1, n)
           IN  /\ part \in Seq(Sample) /\ InOrder(part) /\ Len(part) = n
               /\ \A i \in 1 .. n : part[i] = seq[i]
<1> DEFINE m == 1
<1>1. /\ m \in 1 .. Len(seq) + 1 /\ n >= m - 1 /\ n - m + 1 = n
      /\ \A i \in 1 .. n : m + i - 1 = i
  OBVIOUS
<1> HIDE DEF m
<1>2. /\ SubSeq(seq, m, n) \in Seq(Sample) /\ InOrder(SubSeq(seq, m, n))
      /\ Len(SubSeq(seq, m, n)) = n - m + 1
      /\ \A i \in 1 .. n - m + 1 : SubSeq(seq, m, n)[i] = seq[m + i - 1]
  BY <1>1, Part
<1> QED BY <1>1, <1>2 DEF m

\* The whole.
LEMMA Whole ==
    ASSUME NEW seq \in Seq(Sample), InOrder(seq)
    PROVE  SubSeq(seq, 1, Len(seq)) = seq
<1>1. Len(seq) \in 0 .. Len(seq)
  OBVIOUS
<1> QED BY <1>1, InitialPart, SeqEqual

LEMMA LastNWhole ==
    ASSUME NEW S, NEW seq \in Seq(S), NEW n \in Nat, Len(seq) <= n
    PROVE  LastN(seq, n) = seq
<1> DEFINE k == IF n <= Len(seq) THEN n ELSE Len(seq)
<1>1. k = Len(seq) /\ \A i \in 1 .. k : Len(seq) - k + i = i
  <2>1. Len(seq) \in Nat
    OBVIOUS
  <2>2. k = Len(seq)
    BY <2>1
  <2> QED BY <2>1, <2>2
<1>2. /\ LastN(seq, n) \in Seq(S) /\ Len(LastN(seq, n)) = k
      /\ \A i \in 1 .. k : LastN(seq, n)[i] = seq[Len(seq) - k + i]
  BY LastNIs
<1> HIDE DEF k
<1> QED BY <1>1, <1>2, SeqEqual

LEMMA RefreshIs ==
    ASSUME NEW b, Listed(b), EarliestRight(b)
    PROVE  Cached(RefreshLatest(b)) /\ RefreshLatest(b).samples = b.samples
<1> DEFINE r == RefreshLatest(b)
           t == Last(b.samples).t
<1>0. b \in Buffers
  BY DEF Listed
<1>1. b.samples \in Seq(Sample) /\ b.start \in Nat /\ Len(b.samples) \in Nat
  BY <1>0 DEF Buffers
<1>2. CASE b.samples = <<>>
  <2>1. r = [b EXCEPT !.latest = NaN, !.latestAt = 0]
    BY <1>2 DEF RefreshLatest
  <2>2. NaN \in SUBSET Int /\ 0 \in Nat
    BY DEF NaN
  <2> HIDE DEF r
  <2>3. /\ r \in Buffers /\ r.samples = b.samples /\ r.start = b.start /\ r.count = b.count
        /\ r.latest = NaN /\ r.earliest = b.earliest /\ r.earliestAt = b.earliestAt
    BY <1>0, <2>1, <2>2 DEF Buffers
  <2>4. Cached(r)
    BY <1>2, <2>3 DEF Cached, Listed, EarliestRight, LatestRight
  <2> QED BY <2>3, <2>4 DEF r
<1>3. CASE b.samples # <<>>
  <2>1. r = [b EXCEPT !.latest = {t}, !.latestAt = b.start + Len(b.samples)]
    BY <1>3 DEF RefreshLatest, ActiveLength
  <2>2. {t} \in SUBSET Int /\ b.start + Len(b.samples) \in Nat
    <3>1. b.samples[Len(b.samples)] \in Sample
      BY <1>1, <1>3
    <3> QED BY <1>1, <3>1, SampleTimes DEF Last
  <2> HIDE DEF r, t
  <2>3. /\ r \in Buffers /\ r.samples = b.samples /\ r.start = b.start /\ r.count = b.count
        /\ r.latest = {t} /\ r.earliest = b.earliest /\ r.earliestAt = b.earliestAt
        /\ r.latestAt = b.start + Len(b.samples)
    BY <1>0, <2>1, <2>2 DEF Buffers
  <2>4. Cached(r)
    BY <1>3, <2>3 DEF Cached, Listed, EarliestRight, LatestRight, t
  <2> QED BY <2>3, <2>4 DEF r
<1> QED BY <1>2, <1>3

\* What is left of a buffer are its samples no later than t.
LEMMA TruncateAfterIs ==
    ASSUME NEW b, Cached(b), NEW t \in Int
    PROVE  LET r == TruncateAfter(b, t)
           IN  /\ Cached(r) /\ r.samples = Truncated(b.samples, t)
               /\ Len(r.samples) <= Len(b.samples)
               /\ \A i \in 1 .. Len(r.samples) : r.samples[i].t <= t
<1> DEFINE seq == b.samples
           n == Len(seq)
           early == {0} \cup {i \in DOMAIN seq : seq[i].t <= t}
           end == Max(early)
           lost == b.earliestAt > b.start + end
           r == TruncateAfter(b, t)
<1>0. b \in Buffers
  BY DEF Cached, Listed
<1>1. /\ seq \in Seq(Sample) /\ b.start \in Nat /\ n \in Nat /\ DOMAIN seq = 1 .. n
      /\ InOrder(seq) /\ b.count = n /\ b.earliestAt \in Nat /\ b.earliest \in SUBSET Int
  BY <1>0 DEF Cached, Listed, Buffers
<1>2. \A i \in 1 .. n : seq[i].t \in Int
  <2>1. \A i \in 1 .. n : seq[i] \in Sample
    BY <1>1
  <2> QED BY <2>1, SampleTimes
<1>3. end \in early /\ \A i \in early : i <= end
  <2>1. early \in SUBSET (0 .. n) /\ early # {}
    BY <1>1
  <2> HIDE DEF early
  <2> QED BY <1>1, <2>1, MaxOf
<1>4. end \in 0 .. n
  BY <1>1, <1>3
<1>5. \A i \in 1 .. end : seq[i].t <= t
  <2> SUFFICES ASSUME NEW i \in 1 .. end PROVE seq[i].t <= t
    OBVIOUS
  <2>1. end \in 1 .. n /\ seq[end].t <= t
    BY <1>1, <1>3, <1>4
  <2> HIDE DEF end, n
  <2>2. i \in 1 .. n /\ (i = end \/ i < end)
    BY <1>1, <2>1
  <2>3. seq[i].t <= seq[end].t
    <3>1. CASE i = end
      BY <1>2, <2>1, <3>1
    <3>2. CASE i < end
      BY <1>1, <2>1, <2>2, <3>2 DEF InOrder
    <3> QED BY <2>2, <3>1, <3>2
  <2>4. seq[i].t \in Int /\ seq[end].t \in Int
    BY <1>2, <2>1, <2>2
  <2> QED BY <2>1, <2>3, <2>4
<1>6. \A i \in end + 1 .. n : ~(seq[i].t <= t)
  <2> SUFFICES ASSUME NEW i \in end + 1 .. n, seq[i].t <= t PROVE FALSE
    OBVIOUS
  <2>1. i \in early
    BY <1>1, <1>4
  <2> QED BY <1>3, <1>4, <2>1
<1>7. Truncated(seq, t) = SubSeq(seq, 1, end)
  <2> HIDE DEF end, n
  <2> QED BY <1>1, <1>4, <1>5, <1>6, TruncatedPrefix DEF n
<1>8. /\ SubSeq(seq, 1, end) \in Seq(Sample) /\ InOrder(SubSeq(seq, 1, end))
      /\ Len(SubSeq(seq, 1, end)) = end
      /\ \A i \in 1 .. end : SubSeq(seq, 1, end)[i] = seq[i]
  <2> HIDE DEF end, n
  <2> QED BY <1>1, <1>4, InitialPart DEF n
<1>9. CASE end = n
  <2>1. r = b
    BY <1>9 DEF TruncateAfter, ActiveLength
  <2>2. SubSeq(seq, 1, end) = seq
    <3> HIDE DEF end, n
    <3> QED BY <1>1, <1>8, <1>9, SeqEqual DEF n
  <2> QED BY <1>4, <1>5, <1>7, <1>9, <2>1, <2>2
<1>10. CASE end # n
  <2> DEFINE part == SubSeq(seq, 1, end)
             cut == [b EXCEPT !.samples = part, !.count = Max({0, b.count - (n - end)}),
                              !.earliest = IF lost THEN NaN ELSE b.earliest,
                              !.earliestAt = IF lost THEN 0 ELSE b.earliestAt]
  <2>1. r = RefreshLatest(cut)
    BY <1>10 DEF TruncateAfter, ActiveLength
  <2>2. Max({0, b.count - (n - end)}) = end
    <3>1. b.count - (n - end) = end /\ end \in Int /\ 0 \in Int /\ 0 <= end
      BY <1>1, <1>4
    <3> HIDE DEF end, n
    <3> QED BY <3>1, MaxOfTwo
  <2> HIDE DEF r, end, n
  <2>3. /\ cut \in Buffers /\ cut.samples = part /\ cut.start = b.start /\ cut.count = end
        /\ cut.earliest = (IF lost THEN NaN ELSE b.earliest)
        /\ cut.earliestAt = (IF lost THEN 0 ELSE b.earliestAt)
    <3> DEFINE e == IF lost THEN NaN ELSE b.earliest
               at == IF lost THEN 0 ELSE b.earliestAt
               count == Max({0, b.count - (n - end)})
    <3>1. e \in SUBSET Int /\ at \in Nat /\ end \in Nat /\ count = end
      BY <1>1, <1>4, <2>2 DEF NaN
    <3>2. cut = [b EXCEPT !.samples = part, !.count = count, !.earliest = e, !.earliestAt = at]
      OBVIOUS
    <3>3. part \in Seq(Sample)
      BY <1>8
    <3> HIDE DEF cut, part, e, at, count
    <3>4. /\ cut \in Buffers /\ cut.samples = part /\ cut.start = b.start /\ cut.count = end
          /\ cut.earliest = e /\ cut.earliestAt = at
      BY <1>0, <3>1, <3>2, <3>3 DEF Buffers
    <3> QED BY <3>4 DEF e, at
  <2> HIDE DEF cut
  <2>4. Listed(cut)
    BY <1>8, <2>3 DEF Listed
  <2>5. EarliestRight(cut)
    <3> SUFFICES ASSUME part # <<>>, ~lost, b.earliestAt > b.start, b.earliest # NaN
                 PROVE  b.earliest = {part[1].t} /\ b.earliestAt = b.start + 1
      BY <2>3 DEF EarliestRight, NaN
    <3>1. end >= 1 /\ 1 \in 1 .. end
      BY <1>4, <1>8
    <3>2. seq # <<>>
      BY <1>1, <1>4, <3>1 DEF n
    <3>3. part[1] = seq[1]
      BY <1>8, <3>1
    <3> HIDE DEF part
    <3> QED BY <3>2, <3>3 DEF Cached, EarliestRight
  <2>6. Cached(r) /\ r.samples = part
    BY <2>1, <2>3, <2>4, <2>5, RefreshIs
  <2> QED BY <1>1, <1>4, <1>5, <1>7, <1>8, <2>6 DEF r, n
<1> QED BY <1>9, <1>10

\* Dropping the dead prefix changes no sample and no answer.
LEMMA CompactIs ==
    ASSUME NEW b, Cached(b)
    PROVE  Cached(Compact(b)) /\ Compact(b).samples = b.samples
<1> DEFINE ea == IF b.earliestAt > b.start THEN b.earliestAt - b.start ELSE 0
           la == IF b.latestAt > b.start THEN b.latestAt - b.start ELSE 0
           e == IF b.earliestAt > b.start THEN b.earliest ELSE NaN
           l == IF b.latestAt > b.start THEN b.latest ELSE NaN
           r == [b EXCEPT !.start = 0, !.earliest = e, !.earliestAt = ea,
                          !.latest = l, !.latestAt = la]
<1>0. b \in Buffers
  BY DEF Cached, Listed
<1>1. /\ b.samples \in Seq(Sample) /\ b.start \in Nat /\ Len(b.samples) \in Nat
      /\ b.earliestAt \in Nat /\ b.latestAt \in Nat
      /\ b.earliest \in SUBSET Int /\ b.latest \in SUBSET Int
  BY <1>0 DEF Buffers
<1>2. Compact(b) = b \/ Compact(b) = r
  BY DEF Compact
<1>3. e \in SUBSET Int /\ l \in SUBSET Int /\ ea \in Nat /\ la \in Nat /\ 0 \in Nat
  BY <1>1 DEF NaN
<1> HIDE DEF ea, la, e, l, r
<1>4. /\ r \in Buffers /\ r.samples = b.samples /\ r.start = 0 /\ r.count = b.count
      /\ r.earliest = e /\ r.earliestAt = ea /\ r.latest = l /\ r.latestAt = la
  BY <1>0, <1>3 DEF r, Buffers
<1>5. Listed(r)
  BY <1>4 DEF Cached, Listed
<1>6. EarliestRight(r)
  <2> SUFFICES ASSUME b.samples # <<>>, ea > 0, e # NaN
               PROVE  e = {b.samples[1].t} /\ ea = 1
    BY <1>4 DEF EarliestRight
  <2>1. b.earliestAt > b.start /\ b.earliest # NaN
    BY DEF ea, e
  <2>2. b.earliest = {b.samples[1].t} /\ b.earliestAt = b.start + 1
    BY <2>1 DEF Cached, EarliestRight
  <2> QED BY <1>1, <2>1, <2>2 DEF ea, e
<1>7. LatestRight(r)
  <2>1. b.samples = <<>> => l = NaN
    BY DEF Cached, LatestRight, l
  <2>2. ASSUME b.samples # <<>>, la > 0, l # NaN
        PROVE  l = {Last(b.samples).t} /\ la = Len(b.samples)
    <3>1. b.latestAt > b.start /\ b.latest # NaN
      BY <2>2 DEF la, l
    <3>2. b.latest = {Last(b.samples).t} /\ b.latestAt = b.start + Len(b.samples)
      BY <2>2, <3>1 DEF Cached, LatestRight
    <3> QED BY <1>1, <3>1, <3>2 DEF la, l
  <2>3. 0 + Len(b.samples) = Len(b.samples)
    BY <1>1
  <2> QED BY <1>4, <2>1, <2>2, <2>3 DEF LatestRight
<1> QED BY <1>2, <1>4, <1>5, <1>6, <1>7 DEF Cached

\* Trimming keeps the last Capacity samples.
LEMMA TrimIs ==
    ASSUME NEW b, Cached(b)
    PROVE  Buffer(Trim(b)) /\ Trim(b).samples = LastN(b.samples, Capacity)
<1> DEFINE seq == b.samples
           n == Len(seq)
           overflow == n - Capacity
           next == b.start + overflow
<1>0. b \in Buffers
  BY DEF Cached, Listed
<1>1. /\ seq \in Seq(Sample) /\ b.start \in Nat /\ n \in Nat /\ InOrder(seq) /\ b.count = n
      /\ b.earliestAt \in Nat /\ b.latestAt \in Nat
      /\ b.earliest \in SUBSET Int /\ b.latest \in SUBSET Int
  BY <1>0 DEF Cached, Listed, Buffers
<1>2. Capacity \in Nat /\ Capacity >= 1
  BY CapacityAssumption
<1> HIDE DEF n
<1>3. CASE overflow <= 0
  <2>1. Trim(b) = b
    BY <1>3 DEF Trim, ActiveLength, n
  <2>2. n <= Capacity
    BY <1>1, <1>2, <1>3
  <2>3. LastN(seq, Capacity) = seq
    <3> HIDE DEF seq
    <3> QED BY <1>1, <1>2, <2>2, LastNWhole DEF n
  <2> QED BY <2>1, <2>2, <2>3 DEF Buffer, n
<1>4. CASE ~(overflow <= 0)
  <2> DEFINE part == SubSeq(seq, overflow + 1, n)
             count == Max({0, b.count - overflow})
             e == IF b.earliestAt <= next THEN NaN ELSE b.earliest
             ea == IF b.earliestAt <= next THEN 0 ELSE b.earliestAt
             l == IF b.latestAt <= next THEN NaN ELSE b.latest
             la == IF b.latestAt <= next THEN 0 ELSE b.latestAt
             r == [b EXCEPT !.samples = part, !.start = next, !.count = count,
                            !.earliest = e, !.earliestAt = ea, !.latest = l, !.latestAt = la]
  <2>1. Trim(b) = Compact(r)
    BY <1>4 DEF Trim, ActiveLength, n
  <2>2. overflow \in 1 .. n /\ next \in Nat /\ n - overflow = Capacity
    BY <1>1, <1>2, <1>4
  <2>3. count = Capacity
    <3>1. b.count - overflow = Capacity
      BY <1>1, <2>2
    <3> HIDE DEF overflow
    <3> QED BY <1>2, <3>1, MaxOfTwo
  <2> DEFINE first == overflow + 1
  <2>4. /\ part \in Seq(Sample) /\ InOrder(part) /\ Len(part) = Capacity
        /\ \A i \in 1 .. Capacity : part[i] = seq[overflow + i]
    <3>1. /\ first \in 1 .. n + 1 /\ n \in 0 .. n /\ n >= first - 1
          /\ n - first + 1 = Capacity
          /\ \A i \in 1 .. Capacity : first + i - 1 = overflow + i
      BY <1>1, <1>2, <2>2
    <3>2. part = SubSeq(seq, first, n)
      OBVIOUS
    <3> HIDE DEF overflow, first, part
    <3>3. /\ part \in Seq(Sample) /\ InOrder(part) /\ Len(part) = n - first + 1
          /\ \A i \in 1 .. n - first + 1 : part[i] = seq[first + i - 1]
      BY <1>1, <3>1, <3>2, Part DEF n
    <3> QED BY <3>1, <3>3
  <2>5. part = LastN(seq, Capacity)
    <3>1. 1 \in Int /\ first \in Int /\ first >= 1 /\ n - Capacity + 1 = first
      BY <1>1, <1>2, <2>2
    <3>2. Max({1, first}) = first
      <4> HIDE DEF first
      <4>1. Max({1, first}) = IF 1 >= first THEN 1 ELSE first
        BY <3>1, MaxOfTwo
      <4> QED BY <3>1, <4>1
    <3>3. part = SubSeq(seq, first, n)
      OBVIOUS
    <3> HIDE DEF first, part
    <3> QED BY <3>1, <3>2, <3>3 DEF LastN, n
  <2>6. e \in SUBSET Int /\ l \in SUBSET Int /\ ea \in Nat /\ la \in Nat
    BY <1>1 DEF NaN
  <2> HIDE DEF part, count, e, ea, l, la, r, next
  <2>7. /\ r \in Buffers /\ r.samples = part /\ r.start = next /\ r.count = Capacity
        /\ r.earliest = e /\ r.earliestAt = ea /\ r.latest = l /\ r.latestAt = la
    <3>1. count \in Nat
      BY <1>2, <2>3
    <3> QED BY <1>0, <2>2, <2>3, <2>4, <2>6, <3>1 DEF r, Buffers
  <2>8. Listed(r)
    BY <2>4, <2>7 DEF Listed
  <2>9. seq # <<>>
    BY <1>1, <2>2 DEF n
  <2>10. EarliestRight(r)
    <3> SUFFICES ASSUME ea > next, e # NaN PROVE FALSE
      BY <2>7 DEF EarliestRight
    <3>1. ~(b.earliestAt <= next)
      BY DEF e
    <3>2. b.earliestAt > b.start /\ b.earliest # NaN /\ b.earliestAt > b.start + 1
      BY <1>1, <2>2, <3>1 DEF next, e
    <3>3. b.earliestAt = b.start + 1
      BY <2>9, <3>2 DEF Cached, EarliestRight
    <3> QED BY <1>1, <3>2, <3>3
  <2>11. LatestRight(r)
    <3>1. part # <<>>
      BY <1>2, <2>4
    <3> SUFFICES ASSUME la > next, l # NaN
                 PROVE  l = {Last(part).t} /\ la = next + Len(part)
      BY <2>7, <3>1 DEF LatestRight
    <3>2. ~(b.latestAt <= next) /\ l = b.latest /\ la = b.latestAt
      BY DEF l, la
    <3>3. b.latestAt > b.start /\ b.latest # NaN
      BY <1>1, <2>2, <3>2 DEF next
    <3>4. b.latest = {Last(seq).t} /\ b.latestAt = b.start + n
      BY <2>9, <3>3 DEF Cached, LatestRight, n
    <3>5. Last(part) = Last(seq)
      <4>1. Capacity \in 1 .. Capacity /\ overflow + Capacity = n
        BY <1>1, <1>2, <2>2
      <4>2. part[Capacity] = seq[n]
        BY <2>4, <4>1
      <4> QED BY <2>4, <4>2 DEF Last, n
    <3>6. b.start + n = next + Len(part)
      BY <1>1, <1>2, <2>2, <2>4 DEF next
    <3> QED BY <3>2, <3>4, <3>5, <3>6
  <2>12. Cached(Compact(r)) /\ Compact(r).samples = part
    BY <2>7, <2>8, <2>10, <2>11, CompactIs DEF Cached
  <2> QED BY <1>2, <2>1, <2>4, <2>5, <2>12 DEF Buffer
<1> QED BY <1>3, <1>4

\* A sample is kept by the sequence it is pushed to.
LEMMA LastNAppend ==
    ASSUME NEW S, NEW seq \in Seq(S), NEW x \in S
    PROVE  LET r == LastN(Append(seq, x), Capacity)
           IN  r \in Seq(S) /\ Len(r) \in 1 .. Capacity /\ r[Len(r)] = x
<1> DEFINE all == Append(seq, x)
           k == IF Capacity <= Len(all) THEN Capacity ELSE Len(all)
           r == LastN(all, Capacity)
<1>1. /\ all \in Seq(S) /\ Len(all) \in Nat /\ Len(all) >= 1 /\ all[Len(all)] = x
      /\ Capacity \in Nat /\ Capacity >= 1
  <2>1. all \in Seq(S) /\ Len(all) = Len(seq) + 1 /\ all[Len(seq) + 1] = x
    BY AppendProperties
  <2>2. Len(seq) \in Nat
    OBVIOUS
  <2> HIDE DEF all
  <2> QED BY <2>1, <2>2, CapacityAssumption
<1> HIDE DEF all
<1>2. /\ r \in Seq(S) /\ Len(r) = k
      /\ \A i \in 1 .. k : r[i] = all[Len(all) - k + i]
  BY <1>1, LastNIs
<1>3. k \in 1 .. Capacity /\ k \in 1 .. k /\ Len(all) - k + k = Len(all)
  BY <1>1
<1> HIDE DEF k, r
<1>4. r[k] = x
  BY <1>1, <1>2, <1>3
<1> QED BY <1>2, <1>3, <1>4 DEF all, r

\* The next sample, whatever its time, gives the sequence that the buffer is
\* documented to be.
LEMMA PushIs ==
    ASSUME NEW b, Buffer(b), NEW x \in Sample
    PROVE  Buffer(Push(b, x)) /\ Push(b, x).samples = AbstractPush(b.samples, x)
<1> DEFINE resolved == ResolveLatest(b)
           ordered == IF \E y \in resolved.latest : x.t < y
                      THEN TruncateAfter(resolved, x.t) ELSE resolved
           at == ordered.start + ActiveLength(ordered) + 1
           pushed == [ordered EXCEPT !.samples = Append(ordered.samples, x),
                                     !.count = ordered.count + 1,
                                     !.latest = {x.t}, !.latestAt = at]
           last == IF pushed.count = 1 THEN [pushed EXCEPT !.earliest = {x.t}, !.earliestAt = at]
                   ELSE pushed
<1>1. Push(b, x) = Trim(last)
  BY DEF Push
<1>2. x.t \in Int
  BY SampleTimes
<1>3. /\ Cached(resolved) /\ resolved.samples = b.samples
      /\ b.samples = <<>> => resolved.latest = NaN
      /\ b.samples # <<>> => resolved.latest = {Last(b.samples).t}
  BY LatestResolves DEF Buffer
<1> HIDE DEF resolved
<1>4. b.samples \in Seq(Sample) /\ InOrder(b.samples)
  BY <1>3 DEF Cached, Listed, Buffers
<1>5. /\ Cached(ordered) /\ ordered.samples = Truncated(b.samples, x.t)
      /\ \A i \in 1 .. Len(ordered.samples) : ordered.samples[i].t <= x.t
  <2>1. CASE \E y \in resolved.latest : x.t < y
    BY <1>2, <1>3, <2>1, TruncateAfterIs
  <2>2. CASE ~(\E y \in resolved.latest : x.t < y)
    <3>1. ordered = resolved
      BY <2>2
    <3> DEFINE seq == b.samples
               n == Len(seq)
    <3>2. n \in Nat /\ DOMAIN seq = 1 .. n /\ \A i \in 1 .. n : seq[i].t \in Int
      BY <1>4, SampleTimes
    <3>3. ASSUME NEW i \in 1 .. n PROVE seq[i].t <= x.t
      <4>1. n \in 1 .. n /\ seq # <<>>
        BY <3>2
      <4>2. resolved.latest = {seq[n].t}
        BY <1>3, <4>1 DEF Last
      <4>3. seq[n].t <= x.t
        BY <1>2, <2>2, <3>2, <4>1, <4>2
      <4> HIDE DEF n, seq
      <4>4. i = n \/ (i < n /\ seq[i].t <= seq[n].t)
        BY <1>4, <3>2, <4>1 DEF InOrder, seq
      <4>5. seq[i].t \in Int /\ seq[n].t \in Int
        BY <3>2, <4>1
      <4> QED BY <1>2, <4>3, <4>4, <4>5
    <3>4. Truncated(seq, x.t) = SubSeq(seq, 1, n)
      <4>1. n \in 0 .. Len(seq) /\ \A i \in n + 1 .. Len(seq) : ~(seq[i].t <= x.t)
        BY <3>2
      <4> HIDE DEF n, seq
      <4> QED BY <1>4, <3>3, <4>1, TruncatedPrefix DEF seq
    <3>5. SubSeq(seq, 1, n) = seq
      BY <1>4, Whole
    <3> QED BY <1>3, <3>1, <3>3, <3>4, <3>5
  <2> QED BY <2>1, <2>2
<1> HIDE DEF ordered
<1> DEFINE kept == ordered.samples
           n == Len(kept)
<1>6. /\ ordered \in Buffers /\ kept \in Seq(Sample) /\ n \in Nat /\ ordered.start \in Nat
      /\ ordered.count = n /\ InOrder(kept) /\ at = ordered.start + n + 1 /\ at \in Nat
  BY <1>5 DEF Cached, Listed, Buffers, ActiveLength
<1>7. /\ Append(kept, x) \in Seq(Sample) /\ Len(Append(kept, x)) = n + 1
      /\ \A i \in 1 .. n : Append(kept, x)[i] = kept[i]
      /\ Append(kept, x)[n + 1] = x
  BY <1>6, AppendProperties
<1> HIDE DEF kept, n, at
<1>8. /\ pushed \in Buffers /\ pushed.samples = Append(kept, x) /\ pushed.count = n + 1
      /\ pushed.start = ordered.start /\ pushed.latest = {x.t} /\ pushed.latestAt = at
      /\ pushed.earliest = ordered.earliest /\ pushed.earliestAt = ordered.earliestAt
  <2>1. {x.t} \in SUBSET Int /\ n + 1 \in Nat
    BY <1>2, <1>6
  <2> QED BY <1>6, <1>7, <2>1 DEF Buffers, kept
<1> HIDE DEF pushed
<1>9. /\ last \in Buffers /\ last.samples = Append(kept, x) /\ last.count = n + 1
      /\ last.start = ordered.start /\ last.latest = {x.t} /\ last.latestAt = at
      /\ n = 0 => last.earliest = {x.t} /\ last.earliestAt = at
      /\ n # 0 => last.earliest = ordered.earliest /\ last.earliestAt = ordered.earliestAt
  <2>1. CASE n = 0
    <3>1. {x.t} \in SUBSET Int /\ at \in Nat /\ pushed.count = 1
      BY <1>2, <1>6, <1>8, <2>1
    <3>2. last = [pushed EXCEPT !.earliest = {x.t}, !.earliestAt = at]
      BY <3>1
    <3> HIDE DEF last
    <3> QED BY <1>8, <2>1, <3>1, <3>2 DEF Buffers
  <2>2. CASE n # 0
    <3>1. pushed.count # 1
      BY <1>6, <1>8, <2>2
    <3> QED BY <1>8, <2>2, <3>1
  <2> QED BY <2>1, <2>2
<1> HIDE DEF last
<1>10. InOrder(Append(kept, x))
  <2> SUFFICES ASSUME NEW i \in DOMAIN Append(kept, x), NEW j \in DOMAIN Append(kept, x), i < j
               PROVE  Append(kept, x)[i].t <= Append(kept, x)[j].t
    BY DEF InOrder
  <2>1. i \in 1 .. n /\ j \in 1 .. n + 1 /\ (j \in 1 .. n \/ j = n + 1)
    BY <1>6, <1>7
  <2>2. CASE j \in 1 .. n
    <3>1. kept[i].t <= kept[j].t
      BY <1>6, <2>1, <2>2 DEF InOrder, n
    <3> QED BY <1>7, <2>1, <2>2, <3>1
  <2>3. CASE j = n + 1
    BY <1>5, <1>7, <2>1, <2>3 DEF kept, n
  <2> QED BY <2>1, <2>2, <2>3
<1>11. Listed(last)
  BY <1>7, <1>9, <1>10 DEF Listed
<1>12. EarliestRight(last)
  <2>1. CASE n = 0
    <3>1. Append(kept, x)[1] = x /\ at = ordered.start + 1
      BY <1>6, <1>7, <2>1
    <3> QED BY <1>9, <2>1, <3>1 DEF EarliestRight
  <2>2. CASE n # 0
    <3>1. kept # <<>> /\ 1 \in 1 .. n
      BY <1>6, <2>2 DEF n
    <3>2. Append(kept, x)[1] = kept[1]
      BY <1>7, <3>1
    <3> QED BY <1>5, <1>9, <2>2, <3>1, <3>2 DEF Cached, EarliestRight, kept
  <2> QED BY <2>1, <2>2
<1>13. LatestRight(last)
  <2>1. Append(kept, x) # <<>> /\ Last(Append(kept, x)) = x
    BY <1>6, <1>7 DEF Last
  <2>2. at = last.start + Len(Append(kept, x))
    <3>1. at = ordered.start + (n + 1)
      BY <1>6
    <3> QED BY <1>7, <1>9, <3>1
  <2> QED BY <1>9, <2>1, <2>2 DEF LatestRight
<1>14. Buffer(Trim(last)) /\ Trim(last).samples = LastN(Append(kept, x), Capacity)
  BY <1>9, <1>11, <1>12, <1>13, TrimIs DEF Cached
<1> QED BY <1>1, <1>5, <1>14 DEF AbstractPush, kept

\* A sequence in time order that fits is restored as it was.
LEMMA PushLast ==
    ASSUME NEW seq \in Seq(Sample), InOrder(seq), Len(seq) <= Capacity, NEW k \in 1 .. Len(seq)
    PROVE  AbstractPush(SubSeq(seq, 1, k - 1), seq[k]) = SubSeq(seq, 1, k)
<1> DEFINE part == SubSeq(seq, 1, k - 1)
<1>1. Len(seq) \in Nat /\ DOMAIN seq = 1 .. Len(seq) /\ k - 1 \in Nat
      /\ \A i \in 1 .. Len(seq) : seq[i] \in Sample
  OBVIOUS
<1>2. /\ part \in Seq(Sample) /\ InOrder(part) /\ Len(part) = k - 1
      /\ \A i \in 1 .. k - 1 : part[i] = seq[i]
  <2>1. k - 1 \in 0 .. Len(seq)
    BY <1>1
  <2> QED BY <2>1, InitialPart
<1>3. SubSeq(seq, 1, k) = Append(part, seq[k])
  <2>1. SubSeq(seq, 1, k) = SubSeq(seq, 1, k - 1) \o <<seq[k]>>
    BY <1>1, SubSeqRecursiveSecond
  <2> QED BY <1>1, <1>2, <2>1, AppendIsConcat
<1> HIDE DEF part
<1>4. Truncated(part, seq[k].t) = part
  <2>1. \A i \in 1 .. Len(part) : part[i].t <= seq[k].t
    <3> SUFFICES ASSUME NEW i \in 1 .. Len(part) PROVE part[i].t <= seq[k].t
      OBVIOUS
    <3>1. i \in 1 .. Len(seq) /\ i < k /\ part[i] = seq[i]
      BY <1>1, <1>2
    <3> QED BY <1>1, <3>1 DEF InOrder
  <2>2. Truncated(part, seq[k].t) = SubSeq(part, 1, k - 1)
    <3>1. k - 1 \in 0 .. Len(part) /\ (\A i \in 1 .. k - 1 : part[i].t <= seq[k].t)
          /\ \A i \in k - 1 + 1 .. Len(part) : ~(part[i].t <= seq[k].t)
      BY <1>1, <1>2, <2>1
    <3> QED BY <1>2, <3>1, TruncatedPrefix
  <2>3. SubSeq(part, 1, k - 1) = part
    BY <1>2, Whole
  <2> QED BY <2>2, <2>3
<1> DEFINE all == Append(part, seq[k])
<1>5. /\ all \in Seq(Sample) /\ Len(all) = k
      /\ Capacity \in Nat /\ Len(all) <= Capacity
  <2>1. all \in Seq(Sample) /\ Len(all) = Len(part) + 1
    BY <1>1, <1>2, AppendProperties
  <2> HIDE DEF all
  <2> QED BY <1>1, <1>2, <2>1, CapacityAssumption
<1> HIDE DEF all
<1>6. LastN(all, Capacity) = all
  BY <1>5, LastNWhole
<1> QED BY <1>3, <1>4, <1>6 DEF AbstractPush, all, part

LEMMA RestoreKeeps ==
    ASSUME NEW seq \in Seq(Sample)
    PROVE  /\ Buffer(Restore(seq))
           /\ InOrder(seq) /\ Len(seq) <= Capacity => Restore(seq).samples = seq
<1> DEFINE B == {b \in Buffers : Buffer(b)}
           n == Len(seq)
<1>1. n \in Nat
  OBVIOUS
<1>2. Empty \in B
  BY EmptyIsBuffer DEF Buffer, Cached, Listed
<1>3. \A b \in B : \A x \in Sample : Push(b, x) \in B
  BY PushIs DEF Buffer, Cached, Listed
<1> HIDE DEF B
<1>4. PICK acc : /\ acc[0] = Empty
                 /\ \A k \in 1 .. Len(seq) : acc[k] = Push(acc[k - 1], seq[k])
                 /\ acc[Len(seq)] = Restore(seq)
  BY <1>2, <1>3, RestoreSteps
<1> DEFINE fits == InOrder(seq) /\ Len(seq) <= Capacity
           Right(k) == Buffer(acc[k]) /\ (fits => acc[k].samples = SubSeq(seq, 1, k))
           Good == {k \in Nat : k <= n => Right(k)}
<1>5. 0 \in Good
  <2>1. SubSeq(seq, 1, 0) = <<>>
    BY SubSeqEmpty
  <2> HIDE DEF fits
  <2> QED BY <1>4, <2>1, EmptyIsBuffer
<1>6. ASSUME NEW k \in Nat, k \in Good PROVE k + 1 \in Good
  <2> SUFFICES ASSUME k + 1 <= n PROVE Right(k + 1)
    BY DEF Right
  <2>1. k + 1 \in 1 .. Len(seq) /\ (k + 1) - 1 = k /\ seq[k + 1] \in Sample
    BY <1>1
  <2>2. Right(k)
    BY <1>1, <1>6
  <2>3. acc[k + 1] = Push(acc[k], seq[k + 1])
    BY <1>4, <2>1
  <2>4. Buffer(acc[k + 1]) /\ acc[k + 1].samples = AbstractPush(acc[k].samples, seq[k + 1])
    BY <2>1, <2>2, <2>3, PushIs
  <2>5. fits => AbstractPush(SubSeq(seq, 1, k), seq[k + 1]) = SubSeq(seq, 1, k + 1)
    BY <2>1, PushLast
  <2> HIDE DEF fits
  <2> QED BY <2>2, <2>4, <2>5
<1>7. Right(n)
  <2> HIDE DEF Right
  <2>1. 0 \in Good /\ \A k \in Nat : k \in Good => k + 1 \in Good
    BY <1>5, <1>6
  <2> HIDE DEF Good
  <2>2. n \in Good
    BY <1>1, <2>1, Induction
  <2> QED BY <1>1, <2>2 DEF Good
<1>8. fits => SubSeq(seq, 1, n) = seq
  BY Whole
<1> QED BY <1>4, <1>7, <1>8

-----------------------------------------------------------------------------
(* The inductive invariant.                                                *)

Keys == {None} \cup [of : Nat, mode : PlotModes, gen : Nat]
Previews == {None} \cup [of : Nat, mode : PlotModes, built : Nat]
Ranges == {None} \cup [of : Nat, mode : PlotModes]
Modes == PlotModes \cup {Unset}

Loops ==
    [t : 0 .. MaxTime, running : BOOLEAN, hidden : BOOLEAN, raf : BOOLEAN,
     lastT : SUBSET (0 .. MaxTime), lastMode : Modes, lastTracking : Trackings \cup {Unset},
     gen : Nat, key : Keys, preview : Previews, range : Ranges, rangeMode : Modes,
     comparison : {None} \cup [of : Nat, radius : BOOLEAN], overrun : BOOLEAN,
     plot : Buffers, history : Seq(Sample)]

AnyFaults == Faults \cup {NoFaults}

Sims == {s \in [id : 1 .. MaxRuntime, faults : AnyFaults, params : 1 .. MaxRuntime] :
            s.params <= s.id}

Controls == [tracking : Trackings, plotMode : PlotModes]

Snapshots ==
    [plot : Seq(Sample), history : Seq(Sample), key : Keys, preview : Previews, mode : Modes,
     tracking : Trackings \cup {Unset}, range : Ranges, rangeMode : Modes, gen : Nat]

\* A presentation p, of the frame loop or of a snapshot, with the samples and the
\* tracking it shows: everything in it was computed by the runtime s.  The y-range
\* is the one of its mode, and a runtime without gaps leaves none in the histories.
OfSim(p, samples, s) ==
    /\ \A i \in DOMAIN samples : samples[i].of = s.id
    /\ \A i \in DOMAIN p.history : p.history[i].of = s.id
    /\ s.faults.gaps = {} => \A i \in DOMAIN p.history : p.history[i].finite
    /\ p.key # None => p.key.of = s.id
    /\ p.preview # None => p.preview.of = s.id
    /\ p.range # None => p.range.of = s.id /\ p.range.mode = p.rangeMode

\* The cache key is kept beside what it was made for, and only in fixed tracking.
KeyRight(p, samples, tracking, s) ==
    p.key # None =>
        /\ tracking = "fixed"
        /\ \E focused \in BOOLEAN : samples = PreviewSamples(s, p.key.mode, focused)
        /\ p.range = None => samples = <<>>
        /\ p.range # None => p.range.mode = p.key.mode /\ p.rangeMode = p.key.mode
        /\ p.preview # None /\ p.preview.mode = p.key.mode

\* The trace p is the end of the histories, of which f are the samples with a
\* finite flux, or with gaps, which count in the capacity of the histories, they
\* are the end of it.
Matches(f, p, s) == Ends(f, p) \/ (s.faults.gaps # {} /\ Ends(p, f))

NeverThrows(s) == s.faults.bad = {} /\ s.faults.smeared = {}

\* The trace matches the histories and nothing in it is later than the loop l.
TraceRight(p, samples, tracking, l, s) ==
    NeverThrows(s) /\ tracking \notin {"fixed", Unset} /\ ~l.overrun =>
        /\ Matches(FiniteSamples(p.history), samples, s)
        /\ \A i \in DOMAIN samples : samples[i].t <= l.t

\* What holds of the loop between any two statements of its methods.
Loose(l, s) ==
    /\ l \in Loops /\ Buffer(l.plot) /\ Len(l.history) <= Capacity
    /\ OfSim(l, l.plot.samples, s)
    /\ l.comparison # None => l.comparison.of = s.params

\* What holds of it between the calls of the methods.
Shown(l, s) ==
    /\ Loose(l, s)
    /\ KeyRight(l, l.plot.samples, l.lastTracking, s)
    /\ l.key # None => l.key.gen = l.gen
    /\ TraceRight(l, l.plot.samples, l.lastTracking, l, s)

Sched(l) ==
    /\ l.running /\ ~l.hidden => l.raf
    /\ l.hidden => ~l.raf

\* What Undo clear would bring back, unless it has expired, fits the loop.
Kept(c, l, s) ==
    /\ c \in Snapshots /\ c.gen = l.gen
    /\ InOrder(c.plot) /\ Len(c.plot) <= Capacity /\ Len(c.history) <= Capacity
    /\ OfSim(c, c.plot, s)
    /\ KeyRight(c, c.plot, c.tracking, s)
    /\ TraceRight(c, c.plot, c.tracking, l, s)

ClearedRight(c, l, s) == c = None \/ c = Expired \/ Kept(c, l, s)

IndInv ==
    /\ sim \in Sims /\ controls \in Controls
    /\ comparing \in {None} \cup {<<p>> : p \in 1 .. sim.id}
    /\ Shown(loop, sim)
    /\ Sched(loop)
    /\ loop.gen >= 1
    /\ ClearedRight(cleared, loop, sim)

-----------------------------------------------------------------------------
(* The methods that schedule, and those that drop what is shown.           *)

\* No record is None.
LEMMA NotNone ==
    /\ \A a, b, c : [of |-> a, mode |-> b, gen |-> c] # None
    /\ \A a, b, c : [of |-> a, mode |-> b, built |-> c] # None
    /\ \A a, b : [of |-> a, mode |-> b] # None
    /\ \A a, b : [of |-> a, radius |-> b] # None
    /\ Expired # None
BY DEF None, Expired

SameShown(r, l) ==
    /\ r.t = l.t /\ r.lastT = l.lastT /\ r.lastMode = l.lastMode
    /\ r.lastTracking = l.lastTracking /\ r.gen = l.gen
    /\ r.key = l.key /\ r.preview = l.preview
    /\ r.range = l.range /\ r.rangeMode = l.rangeMode
    /\ r.comparison = l.comparison /\ (r.overrun <=> l.overrun)
    /\ r.plot = l.plot /\ r.history = l.history

SameSched(r, l) ==
    (r.running <=> l.running) /\ (r.hidden <=> l.hidden) /\ (r.raf <=> l.raf)

LEMMA SameIsShown ==
    ASSUME NEW l, NEW r \in Loops, NEW s, SameShown(r, l)
    PROVE  /\ Loose(l, s) => Loose(r, s)
           /\ Shown(l, s) => Shown(r, s)
<1>1. Loose(l, s) => Loose(r, s)
  BY DEF SameShown, Loose, OfSim
<1>2. KeyRight(l, l.plot.samples, l.lastTracking, s) => KeyRight(r, r.plot.samples, r.lastTracking, s)
  BY DEF SameShown, KeyRight
<1>3. TraceRight(l, l.plot.samples, l.lastTracking, l, s)
        => TraceRight(r, r.plot.samples, r.lastTracking, r, s)
  BY DEF SameShown, TraceRight
<1>4. r.key = l.key /\ r.gen = l.gen
  BY DEF SameShown
<1> QED BY <1>1, <1>2, <1>3, <1>4 DEF Shown

LEMMA RequestFrameIs ==
    ASSUME NEW l \in Loops
    PROVE  LET r == RequestFrame(l)
           IN  /\ r \in Loops /\ SameShown(r, l)
               /\ (r.running <=> l.running) /\ (r.hidden <=> l.hidden)
               /\ (r.raf <=> l.raf \/ ~l.hidden)
BY DEF RequestFrame, SameShown, Loops

LEMMA SetRunningIs ==
    ASSUME NEW l \in Loops, NEW next \in BOOLEAN
    PROVE  LET r == SetRunning(l, next)
           IN  /\ r \in Loops /\ SameShown(r, l)
               /\ (r.running <=> next) /\ (r.hidden <=> l.hidden)
               /\ next => (r.raf <=> l.raf \/ ~l.hidden)
               /\ ~next => ~r.raf
<1>1. CASE next
  <2> DEFINE m == [l EXCEPT !.running = TRUE]
  <2>1. m \in Loops /\ SameShown(m, l) /\ m.running /\ (m.hidden <=> l.hidden) /\ (m.raf <=> l.raf)
    BY DEF SameShown, Loops
  <2>2. SetRunning(l, next) = RequestFrame(m)
    BY <1>1 DEF SetRunning
  <2> HIDE DEF m
  <2>3. /\ RequestFrame(m) \in Loops /\ SameShown(RequestFrame(m), m)
        /\ (RequestFrame(m).running <=> m.running) /\ (RequestFrame(m).hidden <=> m.hidden)
        /\ (RequestFrame(m).raf <=> m.raf \/ ~m.hidden)
    BY <2>1, RequestFrameIs
  <2>4. SameShown(RequestFrame(m), l)
    BY <2>1, <2>3 DEF SameShown
  <2> QED BY <1>1, <2>1, <2>2, <2>3, <2>4
<1>2. CASE ~next
  <2> DEFINE r == [l EXCEPT !.running = FALSE, !.raf = FALSE]
  <2>1. r \in Loops /\ SameShown(r, l) /\ ~r.running /\ (r.hidden <=> l.hidden) /\ ~r.raf
    BY DEF SameShown, Loops
  <2>2. SetRunning(l, next) = r
    BY <1>2 DEF SetRunning
  <2> HIDE DEF r
  <2> QED BY <1>2, <2>1, <2>2
<1> QED BY <1>1, <1>2

LEMMA InvalidateIs ==
    ASSUME NEW l \in Loops
    PROVE  LET r == InvalidatePreview(l)
           IN  /\ r \in Loops /\ SameSched(r, l)
               /\ r.key = None /\ r.preview = None /\ r.gen = l.gen + 1
               /\ r.t = l.t /\ r.lastT = l.lastT /\ r.lastMode = l.lastMode
               /\ r.lastTracking = l.lastTracking
               /\ r.range = l.range /\ r.rangeMode = l.rangeMode
               /\ r.comparison = l.comparison /\ r.plot = l.plot /\ r.history = l.history
               /\ (r.overrun <=> l.overrun)
<1>1. None \in Keys /\ None \in Previews /\ l.gen \in Nat /\ l.gen + 1 \in Nat
  BY DEF Keys, Previews, Loops
<1> QED BY <1>1 DEF InvalidatePreview, Loops, SameSched

LEMMA InvalidateShown ==
    ASSUME NEW l, NEW s, Loose(l, s)
    PROVE  LET r == InvalidatePreview(l)
           IN  /\ Loose(r, s)
               /\ TraceRight(l, l.plot.samples, l.lastTracking, l, s) => Shown(r, s)
<1> DEFINE r == InvalidatePreview(l)
<1>1. /\ r \in Loops
      /\ r.key = None /\ r.preview = None /\ r.gen = l.gen + 1
      /\ r.t = l.t /\ r.lastTracking = l.lastTracking
      /\ r.range = l.range /\ r.rangeMode = l.rangeMode
      /\ r.comparison = l.comparison /\ r.plot = l.plot /\ r.history = l.history
      /\ (r.overrun <=> l.overrun)
  BY InvalidateIs DEF Loose
<1> HIDE DEF r
<1>2. Loose(r, s)
  BY <1>1 DEF Loose, OfSim
<1>3. TraceRight(l, l.plot.samples, l.lastTracking, l, s)
        => TraceRight(r, r.plot.samples, r.lastTracking, r, s)
  BY <1>1 DEF TraceRight
<1> QED BY <1>1, <1>2, <1>3 DEF Shown, KeyRight, r

LEMMA ClearRangeIs ==
    ASSUME NEW l \in Loops
    PROVE  LET r == ClearRange(l)
           IN  /\ r \in Loops /\ SameSched(r, l)
               /\ r.range = None /\ r.rangeMode = Unset
               /\ r.key = l.key /\ r.preview = l.preview /\ r.gen = l.gen
               /\ r.t = l.t /\ r.lastT = l.lastT /\ r.lastMode = l.lastMode
               /\ r.lastTracking = l.lastTracking
               /\ r.comparison = l.comparison /\ r.plot = l.plot /\ r.history = l.history
               /\ (r.overrun <=> l.overrun)
BY DEF ClearRange, Loops, SameSched, Ranges, Modes

LEMMA ClearRangeLoose ==
    ASSUME NEW l, NEW s, Loose(l, s)
    PROVE  Loose(ClearRange(l), s)
BY ClearRangeIs DEF Loose, OfSim

LEMMA ForgetTraceIs ==
    ASSUME NEW l \in Loops
    PROVE  LET r == ForgetTrace(l)
           IN  /\ r \in Loops /\ SameSched(r, l)
               /\ r.plot = Empty /\ r.lastT = NaN /\ r.lastMode = Unset
               /\ r.range = l.range /\ r.rangeMode = l.rangeMode
               /\ r.key = l.key /\ r.preview = l.preview /\ r.gen = l.gen
               /\ r.t = l.t /\ r.lastTracking = l.lastTracking
               /\ r.comparison = l.comparison /\ r.history = l.history
               /\ (r.overrun <=> l.overrun)
<1>1. Empty \in Buffers
  BY EmptyIsBuffer DEF Buffer, Cached, Listed
<1> QED BY <1>1 DEF ForgetTrace, Loops, SameSched, Modes, NaN

LEMMA ForgetTraceLoose ==
    ASSUME NEW l, NEW s, Loose(l, s)
    PROVE  Loose(ForgetTrace(l), s)
<1> DEFINE r == ForgetTrace(l)
<1>1. /\ r \in Loops /\ r.plot = Empty
      /\ r.range = l.range /\ r.rangeMode = l.rangeMode
      /\ r.key = l.key /\ r.preview = l.preview
      /\ r.comparison = l.comparison /\ r.history = l.history
  BY ForgetTraceIs DEF Loose
<1> HIDE DEF r
<1>2. Buffer(r.plot) /\ r.plot.samples = <<>>
  BY <1>1, EmptyIsBuffer
<1>3. OfSim(r, r.plot.samples, s)
  BY <1>1, <1>2 DEF Loose, OfSim
<1> QED BY <1>1, <1>2, <1>3 DEF Loose, r

\* A draw changes nothing but the caches of the buffer.
LEMMA RedrawIs ==
    ASSUME NEW l \in Loops, NEW c, Buffer(l.plot)
    PROVE  LET r == Redraw(l, c)
           IN  /\ r \in Loops /\ SameSched(r, l)
               /\ Buffer(r.plot) /\ r.plot.samples = l.plot.samples
               /\ r.range = l.range /\ r.rangeMode = l.rangeMode
               /\ r.key = l.key /\ r.preview = l.preview /\ r.gen = l.gen
               /\ r.t = l.t /\ r.lastT = l.lastT /\ r.lastMode = l.lastMode
               /\ r.lastTracking = l.lastTracking
               /\ r.comparison = l.comparison /\ r.history = l.history
               /\ (r.overrun <=> l.overrun)
<1> DEFINE live == c.tracking = "live"
           plot == Draw(l.plot, live)
<1>1. Buffer(plot) /\ plot.samples = l.plot.samples
  <2> HIDE DEF live
  <2> QED BY DrawKeeps
<1>2. plot \in Buffers
  BY <1>1 DEF Buffer, Cached, Listed
<1>3. Redraw(l, c) = [l EXCEPT !.plot = plot]
  BY DEF Redraw
<1> HIDE DEF plot
<1> QED BY <1>1, <1>2, <1>3 DEF Loops, SameSched

LEMMA RedrawShown ==
    ASSUME NEW l, NEW s, NEW c, Shown(l, s)
    PROVE  Shown(Redraw(l, c), s)
<1> DEFINE r == Redraw(l, c)
<1>1. /\ r \in Loops /\ Buffer(r.plot) /\ r.plot.samples = l.plot.samples
      /\ r.range = l.range /\ r.rangeMode = l.rangeMode
      /\ r.key = l.key /\ r.preview = l.preview /\ r.gen = l.gen
      /\ r.t = l.t /\ r.lastTracking = l.lastTracking
      /\ r.comparison = l.comparison /\ r.history = l.history
      /\ (r.overrun <=> l.overrun)
  BY RedrawIs DEF Shown, Loose
<1> HIDE DEF r
<1>2. Loose(r, s)
  BY <1>1 DEF Shown, Loose, OfSim
<1>3. KeyRight(r, r.plot.samples, r.lastTracking, s)
  BY <1>1 DEF Shown, KeyRight
<1>4. TraceRight(r, r.plot.samples, r.lastTracking, r, s)
  BY <1>1 DEF Shown, TraceRight
<1> QED BY <1>1, <1>2, <1>3, <1>4 DEF Shown, r

-----------------------------------------------------------------------------
(* The methods that fill the trace.                                        *)

\* The samples of a runtime with a finite flux are as many at most, and in the same order.
LEMMA FiniteOrder ==
    ASSUME NEW seq \in Seq(Sample), InOrder(seq)
    PROVE  InOrder(FiniteSamples(seq))
<1> DEFINE n == Len(seq)
<1>1. PICK a : Filtered(a, seq, Finite(Sample)) /\ a[n] = FiniteSamples(seq)
  BY FiniteFilters
<1>2. n \in Nat /\ DOMAIN seq = 1 .. n /\ \A k \in 1 .. n : seq[k] \in Sample
  OBVIOUS
<1>3. \A k \in 0 .. n : a[k] \in Seq(Sample)
  BY <1>1, FilterType
<1> DEFINE From(k) == \A i \in DOMAIN a[k] : \E j \in 1 .. k : a[k][i] = seq[j]
           Right == {k \in Nat : k <= n => InOrder(a[k]) /\ From(k)}
<1>4. 0 \in Right
  <2>1. a[0] = <<>>
    BY <1>1 DEF Filtered
  <2>2. InOrder(<<>>) /\ DOMAIN <<>> = {}
    BY DEF InOrder
  <2> QED BY <2>1, <2>2
<1>5. ASSUME NEW k \in Nat, k \in Right PROVE k + 1 \in Right
  <2> SUFFICES ASSUME k + 1 <= n PROVE InOrder(a[k + 1]) /\ From(k + 1)
    BY DEF From
  <2> DEFINE x == seq[k + 1]
             q == a[k]
             m == Len(q)
  <2>1. /\ k + 1 \in 1 .. n /\ k \in 0 .. n /\ (k + 1) - 1 = k /\ x \in Sample
        /\ q \in Seq(Sample) /\ InOrder(q) /\ From(k)
    BY <1>2, <1>3, <1>5
  <2>2. a[k + 1] = Append(q, x) \/ a[k + 1] = q
    BY <1>1, <2>1 DEF Filtered
  <2>3. \A i \in 1 .. m : q[i] \in Sample /\ q[i].t <= x.t /\ \E j \in 1 .. k + 1 : q[i] = seq[j]
    <3> SUFFICES ASSUME NEW i \in 1 .. m
                 PROVE  q[i] \in Sample /\ q[i].t <= x.t /\ \E j \in 1 .. k + 1 : q[i] = seq[j]
      OBVIOUS
    <3>1. PICK j \in 1 .. k : q[i] = seq[j]
      BY <2>1
    <3>2. j \in 1 .. n /\ j \in 1 .. k + 1 /\ j < k + 1
      BY <1>2, <2>1
    <3>3. seq[j].t <= seq[k + 1].t
      BY <1>2, <2>1, <3>2 DEF InOrder
    <3> QED BY <1>2, <3>1, <3>2, <3>3
  <2>4. CASE a[k + 1] = q
    <3>1. DOMAIN q = 1 .. m
      BY <2>1
    <3> QED BY <2>1, <2>3, <2>4, <3>1
  <2>5. CASE a[k + 1] = Append(q, x)
    <3>1. /\ m \in Nat /\ Append(q, x) \in Seq(Sample) /\ Len(Append(q, x)) = m + 1
          /\ \A i \in 1 .. m : Append(q, x)[i] = q[i]
          /\ Append(q, x)[m + 1] = x
      BY <2>1, AppendProperties
    <3>2. DOMAIN Append(q, x) = 1 .. m + 1 /\ \A i \in 1 .. m + 1 : i \in 1 .. m \/ i = m + 1
      BY <3>1
    <3>3. InOrder(Append(q, x))
      <4> SUFFICES ASSUME NEW i \in 1 .. m + 1, NEW j \in 1 .. m + 1, i < j
                   PROVE  Append(q, x)[i].t <= Append(q, x)[j].t
        BY <3>2 DEF InOrder
      <4> HIDE DEF q, x, m
      <4>1. i \in 1 .. m
        BY <3>1
      <4>2. CASE j \in 1 .. m
        <5>1. q[i].t <= q[j].t
          BY <2>1, <4>1, <4>2 DEF InOrder, m
        <5> QED BY <3>1, <4>1, <4>2, <5>1
      <4>3. CASE j = m + 1
        BY <2>3, <3>1, <4>1, <4>3
      <4> QED BY <3>2, <4>2, <4>3
    <3>4. From(k + 1)
      <4> SUFFICES ASSUME NEW i \in 1 .. m + 1
                   PROVE  \E j \in 1 .. k + 1 : Append(q, x)[i] = seq[j]
        BY <2>5, <3>2
      <4>1. k + 1 \in 1 .. k + 1
        OBVIOUS
      <4> QED BY <2>3, <3>1, <3>2, <4>1
    <3> QED BY <2>5, <3>3, <3>4
  <2> QED BY <2>2, <2>4, <2>5
<1> HIDE DEF Right
<1>6. n \in Right
  BY <1>2, <1>4, <1>5, Induction
<1> QED BY <1>1, <1>2, <1>6 DEF Right

LEMMA PreviewSamplesAre ==
    ASSUME NEW s \in Sims, NEW mode \in PlotModes, NEW focused \in BOOLEAN
    PROVE  LET samples == PreviewSamples(s, mode, focused)
           IN  /\ samples \in Seq(Sample) /\ InOrder(samples) /\ Len(samples) <= Capacity
               /\ \A i \in DOMAIN samples : samples[i].of = s.id
<1> DEFINE w == Windows[focused]
           all == [i \in DOMAIN w |-> [t |-> w[i], of |-> s.id, mode |-> mode,
                                       finite |-> ~InGap(s, mode, w[i])]]
           times == [i \in DOMAIN w |-> [t |-> w[i]]]
           Of == {x \in Sample : x.of = s.id}
<1>1. w \in Seq(Int) /\ Len(w) <= Capacity /\ InOrder(times) /\ s.id \in 1 .. MaxRuntime
  BY SessionAssumption DEF Sims
<1>2. PreviewSamples(s, mode, focused) = FiniteSamples(all)
  BY DEF PreviewSamples
<1> HIDE DEF w
<1>3. Len(w) \in Nat /\ DOMAIN w = 1 .. Len(w) /\ \A i \in 1 .. Len(w) : w[i] \in Int
  BY <1>1
<1>4. \A i \in 1 .. Len(w) : /\ all[i] \in Sample /\ all[i].t = w[i]
                             /\ all[i].of = s.id
  <2> SUFFICES ASSUME NEW i \in 1 .. Len(w)
               PROVE  all[i] \in Sample /\ all[i].t = w[i] /\ all[i].of = s.id
    OBVIOUS
  <2> DEFINE finite == ~InGap(s, mode, w[i])
  <2>1. finite \in BOOLEAN
    OBVIOUS
  <2>2. all[i] = [t |-> w[i], of |-> s.id, mode |-> mode, finite |-> finite]
    BY <1>3
  <2> HIDE DEF finite, all
  <2> QED BY <1>1, <1>3, <2>1, <2>2 DEF Sample
<1>5. DOMAIN all = 1 .. Len(w)
  BY <1>3
<1> HIDE DEF all
<1>6. all \in Seq(Sample) /\ all \in Seq(Of) /\ Len(all) = Len(w)
  <2>1. all \in [1 .. Len(w) -> Sample] /\ all \in [1 .. Len(w) -> Of]
    <3>1. \A i \in 1 .. Len(w) : all[i] \in Sample /\ all[i] \in Of
      BY <1>4
    <3>2. all = [i \in 1 .. Len(w) |-> all[i]]
      BY <1>5 DEF all
    <3> HIDE DEF Of
    <3> QED BY <3>1, <3>2
  <2> HIDE DEF Of
  <2> QED BY <1>3, <2>1
<1>7. InOrder(all)
  <2> SUFFICES ASSUME NEW i \in 1 .. Len(w), NEW j \in 1 .. Len(w), i < j
               PROVE  all[i].t <= all[j].t
    BY <1>5 DEF InOrder
  <2>1. DOMAIN times = 1 .. Len(w) /\ times[i].t = w[i] /\ times[j].t = w[j]
    BY <1>3
  <2> HIDE DEF times
  <2>2. times[i].t <= times[j].t
    BY <1>1, <2>1 DEF InOrder
  <2> QED BY <1>4, <2>1, <2>2
<1>8. /\ FiniteSamples(all) \in Seq(Sample) /\ Len(FiniteSamples(all)) <= Len(all)
      /\ FiniteSamples(all) \in Seq(Of) /\ InOrder(FiniteSamples(all))
  <2>1. FiniteSamples(all) \in Seq(Sample) /\ Len(FiniteSamples(all)) <= Len(all)
    BY <1>6, FiniteType
  <2>2. FiniteSamples(all) \in Seq(Of)
    <3> HIDE DEF Of
    <3> QED BY <1>6, FiniteType
  <2> QED BY <1>6, <1>7, <2>1, <2>2, FiniteOrder
<1>9. \A seq \in Seq(Of) : \A i \in DOMAIN seq : seq[i].of = s.id
  OBVIOUS
<1> HIDE DEF Of
<1>10. Len(FiniteSamples(all)) <= Capacity
  <2>1. Len(FiniteSamples(all)) \in Nat /\ Capacity \in Nat
    BY <1>8, CapacityAssumption
  <2> QED BY <1>1, <1>3, <1>6, <1>8, <2>1
<1> QED BY <1>2, <1>8, <1>9, <1>10

\* A preview that fails left a runtime that throws, one that succeeds its key.
LEMMA ShowFixedPlotShown ==
    ASSUME NEW l, NEW s \in Sims, Loose(l, s), NEW mode \in PlotModes, NEW anchored \in BOOLEAN
    PROVE  LET r == ShowFixedPlot(l, s, mode, anchored)
           IN  /\ Shown(r, s) /\ SameSched(r, l)
               /\ r.t = l.t /\ r.gen = l.gen /\ (r.overrun <=> l.overrun)
<1> DEFINE dropped == [l EXCEPT !.key = None, !.preview = None]
           ranged == IF l.rangeMode \notin {Unset, mode} THEN ClearRange(dropped) ELSE dropped
           samples == PreviewSamples(s, mode, IsFocused(l))
           derived == ranged.range = None /\ samples # <<>>
           range == IF derived THEN [of |-> s.id, mode |-> mode] ELSE ranged.range
           rangeMode == IF derived THEN mode ELSE ranged.rangeMode
           preview == [of |-> s.id, mode |-> mode, built |-> l.gen]
           key == [of |-> s.id, mode |-> mode, gen |-> l.gen]
           built == [ranged EXCEPT !.range = range, !.rangeMode = rangeMode,
                                   !.plot = Restore(samples), !.preview = preview, !.key = key]
           done == [built EXCEPT !.lastT = NaN, !.lastMode = mode, !.lastTracking = "fixed"]
           blank == [ranged EXCEPT !.plot = Empty]
           r == ShowFixedPlot(l, s, mode, anchored)
<1>1. \/ r = ranged /\ 0 \in s.faults.bad
      \/ r = blank /\ PreviewThrows(s, IsFocused(l))
      \/ r = done
  BY DEF ShowFixedPlot, RebuildFixedPlot, PreviewKey
<1>2. s.id \in 1 .. MaxRuntime /\ s.id \in Nat
  BY SessionAssumption DEF Sims
<1>3. l \in Loops /\ l.gen \in Nat /\ l.rangeMode \in Modes /\ l.range \in Ranges
  BY DEF Loose, Loops
<1>4. /\ dropped \in Loops /\ SameSched(dropped, l)
      /\ dropped.key = None /\ dropped.preview = None
      /\ dropped.gen = l.gen /\ dropped.t = l.t
      /\ dropped.lastTracking = l.lastTracking
      /\ dropped.range = l.range /\ dropped.rangeMode = l.rangeMode
      /\ dropped.comparison = l.comparison /\ dropped.plot = l.plot
      /\ dropped.history = l.history /\ (dropped.overrun <=> l.overrun)
  <2>1. None \in Keys /\ None \in Previews
    BY DEF Keys, Previews
  <2> QED BY <1>3, <2>1 DEF Loops, SameSched
<1> HIDE DEF dropped
<1>5. /\ ranged \in Loops /\ SameSched(ranged, l)
      /\ ranged.key = None /\ ranged.preview = None
      /\ ranged.gen = l.gen /\ ranged.t = l.t
      /\ ranged.lastTracking = l.lastTracking
      /\ ranged.comparison = l.comparison /\ ranged.plot = l.plot
      /\ ranged.history = l.history /\ (ranged.overrun <=> l.overrun)
      /\ ranged.range # None =>
           ranged.range = l.range /\ ranged.rangeMode = l.rangeMode /\ l.rangeMode \in {Unset, mode}
  BY <1>4, ClearRangeIs DEF SameSched
<1>6. Loose(ranged, s)
  <2>1. ranged.range # None => ranged.range.of = s.id /\ ranged.range.mode = ranged.rangeMode
    BY <1>5 DEF Loose, OfSim
  <2> HIDE DEF ranged
  <2> QED BY <1>5, <2>1 DEF Loose, OfSim
<1>7. ranged.range # None => ranged.rangeMode = mode /\ ranged.range.mode = mode
  <2>1. ranged.range # None => ranged.range.mode \in PlotModes
    BY <1>3, <1>5 DEF Ranges
  <2>2. Unset \notin PlotModes
    BY SessionAssumption DEF Unset
  <2>3. ranged.range # None => ranged.range.mode = ranged.rangeMode
    BY <1>6 DEF Loose, OfSim
  <2> QED BY <1>5, <2>1, <2>2, <2>3
<1> HIDE DEF ranged
<1>8. CASE r = ranged /\ 0 \in s.faults.bad
  <2>1. ~NeverThrows(s)
    BY <1>8 DEF NeverThrows
  <2> QED BY <1>5, <1>6, <1>8, <2>1 DEF Shown, KeyRight, TraceRight
<1>9. CASE r = blank /\ PreviewThrows(s, IsFocused(l))
  <2>1. ~NeverThrows(s)
    BY <1>9 DEF NeverThrows, PreviewThrows
  <2>2. /\ blank \in Loops /\ SameSched(blank, l)
        /\ blank.plot = Empty /\ blank.key = None /\ blank.preview = None
        /\ blank.gen = l.gen /\ blank.t = l.t
        /\ blank.range = ranged.range /\ blank.rangeMode = ranged.rangeMode
        /\ blank.comparison = ranged.comparison /\ blank.history = ranged.history
        /\ (blank.overrun <=> l.overrun)
    <3>1. Empty \in Buffers
      BY EmptyIsBuffer DEF Buffer, Cached, Listed
    <3> QED BY <1>5, <3>1 DEF Loops, SameSched
  <2> HIDE DEF blank, samples
  <2>3. Buffer(blank.plot) /\ blank.plot.samples = <<>>
    BY <2>2, EmptyIsBuffer
  <2>4. Loose(blank, s)
    BY <1>6, <2>2, <2>3 DEF Loose, OfSim
  <2> QED BY <1>9, <2>1, <2>2, <2>4 DEF Shown, KeyRight, TraceRight
<1>10. CASE r = done
  <2>1. IsFocused(l) \in BOOLEAN
    BY <1>3 DEF IsFocused, Loops
  <2>2. /\ samples \in Seq(Sample) /\ InOrder(samples) /\ Len(samples) <= Capacity
        /\ \A i \in DOMAIN samples : samples[i].of = s.id
    BY <2>1, PreviewSamplesAre
  <2>3. \E focused \in BOOLEAN : samples = PreviewSamples(s, mode, focused)
    BY <2>1
  <2> HIDE DEF samples
  <2>4. Buffer(Restore(samples)) /\ Restore(samples).samples = samples
    BY <2>2, RestoreKeeps
  <2>5. /\ range \in Ranges /\ rangeMode \in Modes
        /\ range = None => samples = <<>>
        /\ range # None => range.of = s.id /\ range.mode = mode /\ rangeMode = mode
    <3>1. CASE derived
      BY <1>2, <3>1, NotNone DEF Ranges, Modes
    <3>2. CASE ~derived /\ ranged.range = None
      <4>1. range = None /\ rangeMode = ranged.rangeMode /\ samples = <<>>
        BY <3>2
      <4> QED BY <1>5, <4>1 DEF Loops, Ranges
    <3>3. CASE ranged.range # None
      <4>1. range = ranged.range /\ rangeMode = ranged.rangeMode
        BY <3>3
      <4> QED BY <1>5, <1>6, <1>7, <3>3, <4>1 DEF Loose, OfSim, Loops
    <3> QED BY <3>1, <3>2, <3>3
  <2>6. /\ preview # None /\ preview \in Previews /\ preview.of = s.id /\ preview.mode = mode
        /\ key # None /\ key \in Keys /\ key.of = s.id /\ key.mode = mode /\ key.gen = l.gen
    BY <1>2, <1>3, NotNone DEF Previews, Keys
  <2>7. /\ mode \in Modes /\ NaN \in SUBSET (0 .. MaxTime) /\ "fixed" \in Trackings
        /\ Restore(samples) \in Buffers
    BY <2>4, SessionAssumption DEF Modes, NaN, Buffer, Cached, Listed
  <2> HIDE DEF derived, range, rangeMode, preview, key
  <2>8. /\ built \in Loops /\ SameSched(built, l)
        /\ built.range = range /\ built.rangeMode = rangeMode /\ built.plot = Restore(samples)
        /\ built.preview = preview /\ built.key = key
        /\ built.gen = l.gen /\ built.t = l.t
        /\ built.comparison = l.comparison /\ built.history = l.history
        /\ (built.overrun <=> l.overrun)
    BY <1>5, <2>5, <2>6, <2>7 DEF Loops, SameSched
  <2> HIDE DEF built
  <2>9. /\ done \in Loops /\ SameSched(done, l)
        /\ done.range = range /\ done.rangeMode = rangeMode /\ done.plot = Restore(samples)
        /\ done.preview = preview /\ done.key = key /\ done.lastTracking = "fixed"
        /\ done.gen = l.gen /\ done.t = l.t
        /\ done.comparison = l.comparison /\ done.history = l.history
        /\ (done.overrun <=> l.overrun)
    BY <2>7, <2>8 DEF Loops, SameSched
  <2> HIDE DEF done
  <2>10. Loose(done, s)
    <3>1. OfSim(done, samples, s)
      BY <2>2, <2>5, <2>6, <2>9 DEF OfSim, Loose
    <3> QED BY <2>4, <2>9, <3>1 DEF Loose
  <2>11. KeyRight(done, done.plot.samples, done.lastTracking, s)
    BY <2>3, <2>4, <2>5, <2>6, <2>9 DEF KeyRight
  <2>12. TraceRight(done, done.plot.samples, done.lastTracking, done, s)
    BY <2>9 DEF TraceRight
  <2> QED BY <1>10, <2>6, <2>9, <2>10, <2>11, <2>12 DEF Shown
<1> QED BY <1>1, <1>8, <1>9, <1>10

-----------------------------------------------------------------------------
(* The trace beside the histories, under what the methods do to both.      *)

LEMMA LastNEnds ==
    ASSUME NEW S, NEW h \in Seq(S), NEW n \in Nat
    PROVE  LastN(h, n) \in Seq(S) /\ Ends(h, LastN(h, n))
<1> DEFINE k == IF n <= Len(h) THEN n ELSE Len(h)
<1>1. /\ LastN(h, n) \in Seq(S) /\ Len(LastN(h, n)) = k
      /\ \A i \in 1 .. k : LastN(h, n)[i] = h[Len(h) - k + i]
  BY LastNIs
<1>2. k \in 0 .. Len(h)
  OBVIOUS
<1> HIDE DEF k
<1> QED BY <1>1, <1>2 DEF Ends

LEMMA EndsTrans ==
    ASSUME NEW S, NEW a \in Seq(S), NEW b \in Seq(S), NEW c \in Seq(S), Ends(a, b), Ends(b, c)
    PROVE  Ends(a, c)
<1>1. /\ Len(a) \in Nat /\ Len(b) \in Nat /\ Len(c) \in Nat
      /\ Len(b) <= Len(a) /\ Len(c) <= Len(b)
  BY DEF Ends
<1>2. ASSUME NEW i \in 1 .. Len(c) PROVE c[i] = a[Len(a) - Len(c) + i]
  <2> DEFINE j == Len(b) - Len(c) + i
  <2>1. j \in 1 .. Len(b) /\ Len(a) - Len(b) + j = Len(a) - Len(c) + i
    BY <1>1
  <2>2. c[i] = b[j]
    BY DEF Ends
  <2> HIDE DEF j
  <2>3. b[j] = a[Len(a) - Len(b) + j]
    BY <2>1 DEF Ends
  <2> QED BY <2>1, <2>2, <2>3
<1> QED BY <1>1, <1>2 DEF Ends

\* Of two ends of a sequence the shorter is the end of the longer.
LEMMA EndsComparable ==
    ASSUME NEW S, NEW h \in Seq(S), NEW p \in Seq(S), NEW q \in Seq(S), Ends(h, p), Ends(h, q)
    PROVE  Ends(p, q) \/ Ends(q, p)
<1>1. ASSUME NEW a \in Seq(S), NEW b \in Seq(S), Ends(h, a), Ends(h, b), Len(b) <= Len(a)
      PROVE  Ends(a, b)
  <2>1. /\ Len(a) \in Nat /\ Len(b) \in Nat /\ Len(h) \in Nat
        /\ Len(a) <= Len(h)
    BY <1>1 DEF Ends
  <2>2. ASSUME NEW i \in 1 .. Len(b) PROVE b[i] = a[Len(a) - Len(b) + i]
    <3> DEFINE j == Len(a) - Len(b) + i
    <3>1. j \in 1 .. Len(a) /\ Len(h) - Len(a) + j = Len(h) - Len(b) + i
      BY <1>1, <2>1
    <3>2. b[i] = h[Len(h) - Len(b) + i]
      BY <1>1 DEF Ends
    <3> HIDE DEF j
    <3>3. a[j] = h[Len(h) - Len(a) + j]
      BY <1>1, <3>1 DEF Ends
    <3>4. a[j] = b[i]
      BY <3>1, <3>2, <3>3
    <3> QED BY <3>4 DEF j
  <2> QED BY <1>1, <2>2 DEF Ends
<1>2. Len(p) <= Len(q) \/ Len(q) <= Len(p)
  OBVIOUS
<1> QED BY <1>1, <1>2

\* Each keeps its last n samples.
LEMMA MatchesCut ==
    ASSUME NEW S, NEW h \in Seq(S), NEW p \in Seq(S), NEW s, NEW n \in Nat,
           s.faults.gaps = {} => \A i \in DOMAIN h : h[i].finite,
           Matches(FiniteSamples(h), p, s)
    PROVE  Matches(FiniteSamples(LastN(h, n)), LastN(p, n), s)
<1> DEFINE f == FiniteSamples(h)
           g == FiniteSamples(LastN(h, n))
           q == LastN(p, n)
<1>1. LastN(h, n) \in Seq(S) /\ Ends(h, LastN(h, n)) /\ q \in Seq(S) /\ Ends(p, q)
  BY LastNEnds
<1>2. f \in Seq(S) /\ g \in Seq(S)
  BY <1>1, FiniteType
<1>3. Ends(f, g)
  BY <1>1, EndsFinite
<1>4. CASE s.faults.gaps = {}
  <2>1. f = h
    BY <1>4, FiniteWhole
  <2>2. g = LastN(h, n)
    <3>1. \A i \in DOMAIN LastN(h, n) : LastN(h, n)[i].finite
      <4> DEFINE Of == {x \in S : x.finite}
      <4>1. h \in Seq(Of)
        BY <1>4
      <4>2. \A seq \in Seq(Of) : \A i \in DOMAIN seq : seq[i].finite
        OBVIOUS
      <4> HIDE DEF Of
      <4>3. LastN(h, n) \in Seq(Of)
        BY <4>1, LastNEnds
      <4> QED BY <4>2, <4>3
    <3> QED BY <1>1, <3>1, FiniteWhole
  <2>3. Ends(h, p)
    BY <1>4, <2>1 DEF Matches
  <2>4. Ends(LastN(h, n), LastN(p, n))
    BY <2>3, EndsLastN
  <2> QED BY <2>2, <2>4 DEF Matches
<1>5. CASE s.faults.gaps # {}
  <2> HIDE DEF f, g, q
  <2>1. Ends(f, p) \/ Ends(p, f)
    BY DEF Matches, f
  <2>2. Ends(g, q) \/ Ends(q, g)
    <3>1. CASE Ends(f, p)
      <4>1. Ends(f, q)
        BY <1>1, <1>2, <3>1, EndsTrans
      <4> QED BY <1>1, <1>2, <1>3, <4>1, EndsComparable
    <3>2. CASE Ends(p, f)
      <4>1. Ends(p, g)
        BY <1>2, <1>3, <3>2, EndsTrans
      <4> QED BY <1>1, <1>2, <4>1, EndsComparable
    <3> QED BY <2>1, <3>1, <3>2
  <2> QED BY <1>5, <2>2 DEF Matches, g, q
<1> QED BY <1>4, <1>5

\* Each loses what is later than t.
LEMMA MatchesTruncated ==
    ASSUME NEW S, NEW h \in Seq(S), NEW p \in Seq(S), NEW s, NEW t,
           Matches(FiniteSamples(h), p, s)
    PROVE  Matches(FiniteSamples(Truncated(h, t)), Truncated(p, t), s)
<1> DEFINE f == FiniteSamples(h)
<1>1. f \in Seq(S) /\ FiniteSamples(Truncated(h, t)) = Truncated(f, t)
  BY FiniteType, FiniteTruncated
<1>2. Ends(f, p) \/ (s.faults.gaps # {} /\ Ends(p, f))
  BY DEF Matches
<1> HIDE DEF f
<1>3. Ends(f, p) => Ends(Truncated(f, t), Truncated(p, t))
  BY <1>1, EndsTruncated
<1>4. Ends(p, f) => Ends(Truncated(p, t), Truncated(f, t))
  BY <1>1, EndsTruncated
<1> QED BY <1>1, <1>2, <1>3, <1>4 DEF Matches

\* Each takes the next sample, the trace only with a finite flux.
LEMMA MatchesAppend ==
    ASSUME NEW S, NEW h \in Seq(S), NEW p \in Seq(S), NEW s, NEW x \in S,
           Matches(FiniteSamples(h), p, s)
    PROVE  Matches(FiniteSamples(Append(h, x)), IF x.finite THEN Append(p, x) ELSE p, s)
<1> DEFINE f == FiniteSamples(h)
<1>1. /\ f \in Seq(S)
      /\ FiniteSamples(Append(h, x)) = IF x.finite THEN Append(f, x) ELSE f
  BY FiniteType, FiniteAppend
<1>2. Ends(f, p) \/ (s.faults.gaps # {} /\ Ends(p, f))
  BY DEF Matches
<1> HIDE DEF f
<1>3. Ends(f, p) => Ends(Append(f, x), Append(p, x))
  BY <1>1, EndsAppend
<1>4. Ends(p, f) => Ends(Append(p, x), Append(f, x))
  BY <1>1, EndsAppend
<1>5. CASE x.finite
  BY <1>1, <1>2, <1>3, <1>4, <1>5 DEF Matches
<1>6. CASE ~x.finite
  BY <1>1, <1>2, <1>6 DEF Matches
<1> QED BY <1>5, <1>6

\* An empty trace matches any histories.
LEMMA MatchesEmpty ==
    ASSUME NEW S, NEW h \in Seq(S), NEW s
    PROVE  Matches(FiniteSamples(h), <<>>, s)
<1>1. FiniteSamples(h) \in Seq(S) /\ Len(FiniteSamples(h)) \in Nat
  BY FiniteType
<1> QED BY <1>1 DEF Matches, Ends

LEMMA TruncatedEmpty == ASSUME NEW t PROVE Truncated(<<>>, t) = <<>>
<1>1. <<>> \in Seq({}) /\ Len(<<>>) = 0
  OBVIOUS
<1>2. Truncated(<<>>, t) \in Seq({}) /\ Len(Truncated(<<>>, t)) <= Len(<<>>)
  BY <1>1, TruncatedType
<1> QED BY <1>1, <1>2

\* A trace with nothing later than the time of the next sample loses nothing to it.
LEMMA TruncatedWhole ==
    ASSUME NEW seq \in Seq(Sample), InOrder(seq), NEW t,
           \A i \in DOMAIN seq : seq[i].t <= t
    PROVE  Truncated(seq, t) = seq
<1> DEFINE end == Len(seq)
<1>1. end \in 0 .. Len(seq) /\ \A i \in 1 .. end : seq[i].t <= t
  OBVIOUS
<1>2. \A i \in end + 1 .. Len(seq) : ~(seq[i].t <= t)
  OBVIOUS
<1>3. SubSeq(seq, 1, end) = seq
  BY Whole
<1> HIDE DEF end
<1>4. Truncated(seq, t) = SubSeq(seq, 1, end)
  BY <1>1, <1>2, TruncatedPrefix
<1> QED BY <1>3, <1>4

-----------------------------------------------------------------------------
(* A sample is pushed to the histories and, with a finite flux, the trace. *)

LEMMA RecordShown ==
    ASSUME NEW l, NEW s \in Sims, NEW c \in Controls, Loose(l, s), l.key = None,
           NEW finite \in BOOLEAN, ~finite => s.faults.gaps # {},
           NeverThrows(s) /\ ~l.overrun =>
               /\ Matches(FiniteSamples(l.history), Truncated(l.plot.samples, l.t), s)
               /\ ~finite => \A i \in DOMAIN l.plot.samples : l.plot.samples[i].t <= l.t
    PROVE  LET r == RecordSample(l, s, c, finite)
           IN  /\ Shown(r, s) /\ SameSched(r, l)
               /\ r.t = l.t /\ r.gen = l.gen /\ (r.overrun <=> l.overrun)
<1> DEFINE x == [t |-> l.t, of |-> s.id, mode |-> c.plotMode, finite |-> finite]
           plot == IF finite THEN Push(l.plot, x) ELSE l.plot
           history == LastN(Append(l.history, x), Capacity)
           r == RecordSample(l, s, c, finite)
           Of == {y \in Sample : y.of = s.id /\ (s.faults.gaps = {} => y.finite)}
<1>1. /\ l \in Loops /\ l.t \in 0 .. MaxTime /\ l.t \in Int /\ l.history \in Seq(Sample)
      /\ Buffer(l.plot) /\ l.plot \in Buffers /\ l.plot.samples \in Seq(Sample)
      /\ InOrder(l.plot.samples)
  BY DEF Loose, Loops, Buffer, Cached, Listed, Buffers
<1>2. x \in Sample /\ x.t = l.t /\ x.of = s.id /\ (x.finite <=> finite) /\ x \in Of
  <2>1. s.id \in 1 .. MaxRuntime /\ c.plotMode \in PlotModes
    BY DEF Sims, Controls
  <2> QED BY <1>1, <2>1 DEF Sample
<1>3. l.history \in Seq(Of)
  <2>1. \A seq \in Seq(Sample) :
           (\A i \in DOMAIN seq : seq[i].of = s.id) /\
           (s.faults.gaps = {} => \A i \in DOMAIN seq : seq[i].finite) => seq \in Seq(Of)
    OBVIOUS
  <2> QED BY <1>1, <2>1 DEF Loose, OfSim
<1>4. \A seq \in Seq(Of) : /\ \A i \in DOMAIN seq : seq[i].of = s.id
                           /\ s.faults.gaps = {} => \A i \in DOMAIN seq : seq[i].finite
  OBVIOUS
<1> HIDE DEF x, Of
<1>5. /\ Buffer(plot)
      /\ finite => plot.samples = LastN(Append(Truncated(l.plot.samples, l.t), x), Capacity)
      /\ ~finite => plot = l.plot
  BY <1>1, <1>2, PushIs DEF AbstractPush
<1>6. plot \in Buffers /\ plot.samples \in Seq(Sample) /\ InOrder(plot.samples)
  BY <1>5 DEF Buffer, Cached, Listed, Buffers
<1> HIDE DEF plot
<1>7. history \in Seq(Sample) /\ history \in Seq(Of) /\ Len(history) <= Capacity
  <2>1. history \in Seq(Sample) /\ Len(history) \in 1 .. Capacity
    BY <1>1, <1>2, LastNAppend
  <2>2. history \in Seq(Of)
    BY <1>2, <1>3, LastNAppend
  <2> QED BY <2>1, <2>2
<1>8. finite => /\ \A i \in DOMAIN plot.samples : plot.samples[i].of = s.id
                /\ \A i \in DOMAIN plot.samples : plot.samples[i].t <= l.t
  <2> SUFFICES ASSUME finite
               PROVE  /\ \A i \in DOMAIN plot.samples : plot.samples[i].of = s.id
                      /\ \A i \in DOMAIN plot.samples : plot.samples[i].t <= l.t
    OBVIOUS
  <2> DEFINE OfId == {y \in Sample : y.of = s.id}
             cut == Truncated(l.plot.samples, l.t)
             q == LastN(Append(cut, x), Capacity)
  <2>1. x \in OfId /\ l.plot.samples \in Seq(OfId)
    <3>1. \A seq \in Seq(Sample) : (\A i \in DOMAIN seq : seq[i].of = s.id) => seq \in Seq(OfId)
      OBVIOUS
    <3> QED BY <1>1, <1>2, <3>1 DEF Loose, OfSim
  <2>2. \A seq \in Seq(OfId) : \A i \in DOMAIN seq : seq[i].of = s.id
    OBVIOUS
  <2> HIDE DEF OfId
  <2>3. cut \in Seq(OfId)
    BY <2>1, TruncatedType
  <2> HIDE DEF cut
  <2>4. q \in Seq(OfId) /\ Len(q) \in 1 .. Capacity /\ q[Len(q)] = x
    BY <2>1, <2>3, LastNAppend
  <2>5. plot.samples = q
    BY <1>5 DEF cut
  <2> HIDE DEF q
  <2> DEFINE p == plot.samples
             n == Len(p)
  <2>6. n \in 1 .. n /\ DOMAIN p = 1 .. n /\ p[n].t = l.t
    BY <1>2, <1>6, <2>4, <2>5
  <2>7. ASSUME NEW i \in 1 .. n PROVE p[i].t <= l.t
    <3>1. i = n \/ i < n
      BY <2>6
    <3> HIDE DEF n, p
    <3>2. p[i].t <= p[n].t
      <4>1. CASE i = n
        BY <1>1, <2>6, <4>1
      <4>2. CASE i < n
        BY <1>6, <2>6, <4>2 DEF InOrder, p
      <4> QED BY <3>1, <4>1, <4>2
    <3> QED BY <2>6, <3>2
  <2> QED BY <2>2, <2>4, <2>5, <2>6, <2>7
<1>9. \A i \in DOMAIN plot.samples : plot.samples[i].of = s.id
  BY <1>5, <1>8 DEF Loose, OfSim
<1>10. NeverThrows(s) /\ ~l.overrun =>
         /\ Matches(FiniteSamples(history), plot.samples, s)
         /\ \A i \in DOMAIN plot.samples : plot.samples[i].t <= l.t
  <2> SUFFICES ASSUME NeverThrows(s), ~l.overrun
               PROVE  /\ Matches(FiniteSamples(history), plot.samples, s)
                      /\ \A i \in DOMAIN plot.samples : plot.samples[i].t <= l.t
    OBVIOUS
  <2> DEFINE cut == Truncated(l.plot.samples, l.t)
             h == Append(l.history, x)
             p == IF finite THEN Append(cut, x) ELSE cut
  <2>1. cut \in Seq(Sample) /\ Matches(FiniteSamples(l.history), cut, s)
    BY <1>1, TruncatedType
  <2>2. Matches(FiniteSamples(h), p, s)
    <3> HIDE DEF cut
    <3>1. Matches(FiniteSamples(h), IF x.finite THEN Append(cut, x) ELSE cut, s)
      BY <1>1, <1>2, <2>1, MatchesAppend
    <3> QED BY <1>2, <3>1
  <2>3. h \in Seq(Of) /\ h \in Seq(Sample) /\ p \in Seq(Sample) /\ Capacity \in Nat
    <3> HIDE DEF cut
    <3> QED BY <1>1, <1>2, <1>3, <2>1, AppendProperties, CapacityAssumption
  <2>4. history = LastN(h, Capacity)
    OBVIOUS
  <2>5. s.faults.gaps = {} => \A i \in DOMAIN h : h[i].finite
    BY <1>4, <2>3
  <2>6. plot.samples = LastN(p, Capacity)
    <3>1. CASE finite
      BY <1>5, <3>1
    <3>2. CASE ~finite
      <4>1. cut = l.plot.samples
        BY <1>1, <3>2, TruncatedWhole
      <4>2. Len(l.plot.samples) <= Capacity /\ plot = l.plot
        BY <1>1, <1>5, <3>2 DEF Buffer
      <4>3. LastN(l.plot.samples, Capacity) = l.plot.samples
        BY <1>1, <2>3, <4>2, LastNWhole
      <4> QED BY <3>2, <4>1, <4>2, <4>3
    <3> QED BY <3>1, <3>2
  <2> HIDE DEF h, p, cut, history
  <2>7. Matches(FiniteSamples(LastN(h, Capacity)), LastN(p, Capacity), s)
    BY <2>2, <2>3, <2>5, MatchesCut
  <2>8. \A i \in DOMAIN plot.samples : plot.samples[i].t <= l.t
    BY <1>5, <1>8
  <2> QED BY <2>4, <2>6, <2>7, <2>8
<1> HIDE DEF history
<1>11. /\ r \in Loops /\ SameSched(r, l)
       /\ r.plot = plot /\ r.history = history /\ r.lastTracking = c.tracking
       /\ r.range = l.range /\ r.rangeMode = l.rangeMode
       /\ r.key = None /\ r.preview = l.preview
       /\ r.gen = l.gen /\ r.t = l.t /\ r.comparison = l.comparison
       /\ (r.overrun <=> l.overrun)
  <2> DEFINE lastT == {l.t}
  <2>1. lastT \in SUBSET (0 .. MaxTime) /\ c.plotMode \in Modes /\ c.tracking \in Trackings
    BY <1>1 DEF Controls, Modes
  <2>2. r = [l EXCEPT !.plot = plot, !.history = history, !.lastT = lastT,
                      !.lastMode = c.plotMode, !.lastTracking = c.tracking]
    BY DEF RecordSample, plot, history, x
  <2> HIDE DEF lastT, r
  <2> QED BY <1>1, <1>6, <1>7, <2>1, <2>2 DEF Loops, SameSched
<1> HIDE DEF r
<1>12. Loose(r, s)
  <2>1. OfSim(r, r.plot.samples, s)
    BY <1>4, <1>7, <1>9, <1>11 DEF Loose, OfSim
  <2> QED BY <1>5, <1>7, <1>11, <2>1 DEF Loose
<1>13. TraceRight(r, r.plot.samples, r.lastTracking, r, s)
  BY <1>10, <1>11 DEF TraceRight
<1> QED BY <1>11, <1>12, <1>13 DEF Shown, KeyRight, r

-----------------------------------------------------------------------------
(* Reset and seek.                                                         *)

\* The loop is stopped and the visibility of the page is as it was.
Stopped(r, l) == ~r.running /\ ~r.raf /\ (r.hidden <=> l.hidden)

LEMMA StoppedIsSched ==
    ASSUME NEW r, NEW l, Stopped(r, l)
    PROVE  Sched(r)
BY DEF Stopped, Sched

\* A reset forgets whatever was shown.
LEMMA ResetShown ==
    ASSUME NEW l \in Loops, NEW s \in Sims, NEW c \in Controls,
           l.comparison # None => l.comparison.of = s.params
    PROVE  LET r == Reset(l, s, c)
           IN  /\ Shown(r, s) /\ Stopped(r, l) /\ r.gen = l.gen + 1
               /\ SamplingThrows(s, c, 0) => r.key = None
<1> DEFINE invalid == InvalidatePreview(l)
           stopped == SetRunning(invalid, FALSE)
           forgot == ForgetTrace(stopped)
           ranged == ClearRange(forgot)
           blank == [ranged EXCEPT !.t = 0, !.lastTracking = Unset, !.history = <<>>,
                                   !.overrun = FALSE]
           fails == 0 \in s.faults.bad \/ SamplingThrows(s, c, 0)
           r == Reset(l, s, c)
<1>1. r = IF fails THEN blank
          ELSE IF c.tracking = "fixed" THEN ShowFixedPlot(blank, s, c.plotMode, TRUE)
          ELSE RecordSample(blank, s, c, TRUE)
  BY DEF Reset
<1>2. SamplingThrows(s, c, 0) => fails
  OBVIOUS
<1> HIDE DEF fails
<1>3. /\ invalid \in Loops /\ (invalid.hidden <=> l.hidden)
      /\ invalid.key = None /\ invalid.preview = None /\ invalid.gen = l.gen + 1
      /\ invalid.comparison = l.comparison
  BY InvalidateIs DEF SameSched
<1> HIDE DEF invalid
<1>4. /\ stopped \in Loops /\ Stopped(stopped, l)
      /\ stopped.key = None /\ stopped.preview = None /\ stopped.gen = l.gen + 1
      /\ stopped.comparison = l.comparison
  BY <1>3, SetRunningIs DEF SameShown, Stopped
<1> HIDE DEF stopped
<1>5. /\ forgot \in Loops /\ Stopped(forgot, l)
      /\ forgot.key = None /\ forgot.preview = None /\ forgot.gen = l.gen + 1
      /\ forgot.comparison = l.comparison /\ forgot.plot = Empty
  BY <1>4, ForgetTraceIs DEF SameSched, Stopped
<1> HIDE DEF forgot
<1>6. /\ ranged \in Loops /\ Stopped(ranged, l)
      /\ ranged.key = None /\ ranged.preview = None /\ ranged.gen = l.gen + 1
      /\ ranged.comparison = l.comparison /\ ranged.plot = Empty /\ ranged.range = None
  BY <1>5, ClearRangeIs DEF SameSched, Stopped
<1> HIDE DEF ranged
<1>7. /\ blank \in Loops /\ Stopped(blank, l)
      /\ blank.key = None /\ blank.preview = None /\ blank.gen = l.gen + 1
      /\ blank.comparison = l.comparison /\ blank.plot = Empty /\ blank.range = None
      /\ blank.t = 0 /\ blank.lastTracking = Unset /\ blank.history = <<>>
  <2>1. <<>> \in Seq(Sample)
    OBVIOUS
  <2>2. 0 \in 0 .. MaxTime
    BY SessionAssumption
  <2> QED BY <1>6, <2>1, <2>2 DEF Loops, Stopped
<1> HIDE DEF blank
<1>8. Buffer(blank.plot) /\ blank.plot.samples = <<>>
  BY <1>7, EmptyIsBuffer
<1>9. Loose(blank, s)
  <2>1. OfSim(blank, <<>>, s)
    BY <1>7 DEF OfSim
  <2>2. Len(<<>>) <= Capacity
    BY CapacityAssumption
  <2> QED BY <1>7, <1>8, <2>1, <2>2 DEF Loose
<1>10. CASE fails
  <2>1. r = blank
    BY <1>1, <1>10
  <2> QED BY <1>7, <1>9, <2>1 DEF Shown, KeyRight, TraceRight
<1>11. CASE ~fails /\ c.tracking = "fixed"
  <2>1. r = ShowFixedPlot(blank, s, c.plotMode, TRUE)
    BY <1>1, <1>11
  <2>2. c.plotMode \in PlotModes /\ TRUE \in BOOLEAN
    BY DEF Controls
  <2> HIDE DEF r
  <2>3. Shown(r, s) /\ SameSched(r, blank) /\ r.gen = blank.gen
    BY <1>9, <2>1, <2>2, ShowFixedPlotShown
  <2> QED BY <1>7, <1>11, <1>2, <2>3 DEF Stopped, SameSched, r
<1>12. CASE ~fails /\ c.tracking # "fixed"
  <2>1. r = RecordSample(blank, s, c, TRUE)
    BY <1>1, <1>12
  <2>2. Matches(FiniteSamples(blank.history), Truncated(blank.plot.samples, blank.t), s)
    <3>1. <<>> \in Seq(Sample)
      OBVIOUS
    <3> QED BY <1>7, <1>8, <3>1, MatchesEmpty, TruncatedEmpty
  <2> HIDE DEF r
  <2>3. Shown(r, s) /\ SameSched(r, blank) /\ r.gen = blank.gen
    <3> DEFINE finite == TRUE
    <3>1. finite \in BOOLEAN /\ finite /\ r = RecordSample(blank, s, c, finite)
      BY <2>1
    <3> HIDE DEF finite
    <3> QED BY <1>7, <1>9, <2>2, <3>1, RecordShown
  <2> QED BY <1>7, <1>12, <1>2, <2>3 DEF Stopped, SameSched, r
<1> QED BY <1>10, <1>11, <1>12, <1>2

LEMMA SeekDynamicShown ==
    ASSUME NEW l, NEW s \in Sims, NEW c \in Controls, Loose(l, s), l.key = None,
           c.tracking # "fixed",
           NeverThrows(s) /\ l.lastTracking \notin {"fixed", Unset} /\ ~l.overrun
             => Matches(FiniteSamples(l.history), l.plot.samples, s)
    PROVE  LET r == SeekDynamic(l, s, c)
           IN  Shown(r, s) /\ SameSched(r, l) /\ r.t = l.t /\ r.gen = l.gen
<1> DEFINE kept == IF c.tracking = l.lastTracking THEN l ELSE ForgetTrace(l)
           ranged == ClearRange(kept)
           cut == TruncateHistory(ranged)
           finite == ~InGap(s, c.plotMode, l.t)
           past == \E i \in DOMAIN cut.plot.samples : cut.plot.samples[i].t > l.t
           overrun == cut.overrun \/ (~finite /\ past)
           marked == [cut EXCEPT !.overrun = overrun]
           recorded == RecordSample(marked, s, c, finite)
           r == SeekDynamic(l, s, c)
<1>1. r = IF SamplingThrows(s, c, l.t) THEN cut ELSE Redraw(recorded, c)
  BY DEF SeekDynamic
<1>2. /\ kept \in Loops /\ Loose(kept, s) /\ SameSched(kept, l) /\ kept.key = None
      /\ kept.t = l.t /\ kept.gen = l.gen /\ kept.history = l.history
      /\ (kept.overrun <=> l.overrun)
  BY ForgetTraceIs, ForgetTraceLoose DEF Loose, SameSched
<1>3. NeverThrows(s) /\ ~l.overrun => Matches(FiniteSamples(kept.history), kept.plot.samples, s)
  <2>1. c.tracking \in Trackings /\ Unset \notin Trackings
    BY SessionAssumption DEF Controls, Unset
  <2>2. CASE c.tracking = l.lastTracking
    BY <2>1, <2>2
  <2>3. CASE c.tracking # l.lastTracking
    <3>1. kept.plot.samples = <<>> /\ kept.history = l.history /\ l.history \in Seq(Sample)
      BY <2>3, ForgetTraceIs, EmptyIsBuffer DEF Loose, Loops
    <3> HIDE DEF kept
    <3> QED BY <3>1, MatchesEmpty
  <2> QED BY <2>2, <2>3
<1> HIDE DEF kept
<1>4. /\ ranged \in Loops /\ Loose(ranged, s) /\ SameSched(ranged, l) /\ ranged.key = None
      /\ ranged.t = l.t /\ ranged.gen = l.gen /\ ranged.history = kept.history
      /\ ranged.plot = kept.plot /\ (ranged.overrun <=> l.overrun)
  BY <1>2, ClearRangeIs, ClearRangeLoose DEF SameSched
<1> HIDE DEF ranged
<1> DEFINE h == Truncated(ranged.history, ranged.t)
           Of == {y \in Sample : y.of = s.id /\ (s.faults.gaps = {} => y.finite)}
<1>5. /\ h \in Seq(Sample) /\ Len(h) <= Capacity /\ \A i \in DOMAIN h : h[i].of = s.id
      /\ s.faults.gaps = {} => \A i \in DOMAIN h : h[i].finite
  <2>1. ranged.history \in Seq(Sample) /\ Len(ranged.history) <= Capacity
        /\ (\A i \in DOMAIN ranged.history : ranged.history[i].of = s.id)
        /\ (s.faults.gaps = {} => \A i \in DOMAIN ranged.history : ranged.history[i].finite)
    BY <1>4 DEF Loose, Loops, OfSim
  <2>2. ranged.history \in Seq(Of)
    BY <2>1
  <2>3. \A seq \in Seq(Of) : /\ \A i \in DOMAIN seq : seq[i].of = s.id
                             /\ s.faults.gaps = {} => \A i \in DOMAIN seq : seq[i].finite
    OBVIOUS
  <2> HIDE DEF Of
  <2>4. h \in Seq(Of)
    BY <2>2, TruncatedType
  <2>5. h \in Seq(Sample) /\ Len(h) <= Len(ranged.history)
    BY <2>1, TruncatedType
  <2>6. Len(h) \in Nat /\ Len(ranged.history) \in Nat /\ Capacity \in Nat
    BY <2>1, <2>5, CapacityAssumption
  <2>7. Len(h) <= Capacity
    BY <2>1, <2>5, <2>6
  <2> QED BY <2>3, <2>4, <2>5, <2>7
<1> HIDE DEF h
<1>6. /\ cut \in Loops /\ SameSched(cut, l) /\ cut.history = h
      /\ cut.t = l.t /\ cut.gen = l.gen /\ cut.key = None /\ cut.preview = ranged.preview
      /\ cut.range = ranged.range /\ cut.rangeMode = ranged.rangeMode
      /\ cut.comparison = ranged.comparison /\ cut.plot = ranged.plot
      /\ (cut.overrun <=> l.overrun)
  BY <1>4, <1>5 DEF TruncateHistory, h, Loops, SameSched
<1>7. Loose(cut, s)
  <2> HIDE DEF cut
  <2> QED BY <1>4, <1>5, <1>6 DEF Loose, OfSim
<1>8. NeverThrows(s) /\ ~l.overrun
        => Matches(FiniteSamples(cut.history), Truncated(cut.plot.samples, cut.t), s)
  <2> HIDE DEF cut
  <2>1. ranged.history \in Seq(Sample) /\ ranged.plot.samples \in Seq(Sample)
    BY <1>4 DEF Loose, Loops, Buffers
  <2> QED BY <1>3, <1>4, <1>6, <2>1, MatchesTruncated DEF h
<1> HIDE DEF cut
<1>9. CASE SamplingThrows(s, c, l.t)
  <2>1. r = cut /\ ~NeverThrows(s)
    BY <1>1, <1>9 DEF SamplingThrows, NeverThrows
  <2> QED BY <1>6, <1>7, <2>1 DEF Shown, KeyRight, TraceRight
<1>10. CASE ~SamplingThrows(s, c, l.t)
  <2>1. overrun \in BOOLEAN /\ finite \in BOOLEAN /\ (~finite => s.faults.gaps # {})
    BY <1>6 DEF InGap, Loops
  <2>2. ~overrun /\ ~finite => \A i \in DOMAIN cut.plot.samples : cut.plot.samples[i].t <= l.t
    <3> SUFFICES ASSUME ~past, NEW i \in DOMAIN cut.plot.samples
                 PROVE  cut.plot.samples[i].t <= l.t
      OBVIOUS
    <3>1. cut.plot.samples \in Seq(Sample)
      BY <1>6 DEF Loops, Buffers
    <3>2. l.t \in Int
      BY SessionAssumption DEF Loose, Loops
    <3>3. cut.plot.samples[i].t \in Int
      BY <3>1, SampleTimes
    <3> QED BY <3>2, <3>3
  <2>3. ~overrun => ~l.overrun
    BY <1>6
  <2> HIDE DEF overrun, past, finite
  <2>4. /\ marked \in Loops /\ SameSched(marked, l) /\ marked.history = cut.history
        /\ marked.t = l.t /\ marked.gen = l.gen /\ marked.key = None
        /\ marked.preview = cut.preview /\ marked.range = cut.range
        /\ marked.rangeMode = cut.rangeMode /\ marked.comparison = cut.comparison
        /\ marked.plot = cut.plot /\ (marked.overrun <=> overrun)
    BY <1>6, <2>1 DEF Loops, SameSched
  <2> HIDE DEF marked
  <2>5. Loose(marked, s)
    BY <1>7, <2>4 DEF Loose, OfSim
  <2>6. NeverThrows(s) /\ ~marked.overrun =>
          /\ Matches(FiniteSamples(marked.history), Truncated(marked.plot.samples, marked.t), s)
          /\ ~finite => \A i \in DOMAIN marked.plot.samples : marked.plot.samples[i].t <= marked.t
    BY <1>6, <1>8, <2>2, <2>3, <2>4
  <2>7. /\ Shown(recorded, s) /\ SameSched(recorded, marked)
        /\ recorded.t = marked.t /\ recorded.gen = marked.gen
    BY <2>1, <2>4, <2>5, <2>6, RecordShown
  <2>8. r = Redraw(recorded, c)
    BY <1>1, <1>10
  <2> HIDE DEF recorded, r
  <2>9. Shown(r, s)
    BY <2>7, <2>8, RedrawShown
  <2>10. SameSched(r, recorded) /\ r.t = recorded.t /\ r.gen = recorded.gen
    BY <2>7, <2>8, RedrawIs DEF Shown, Loose
  <2> QED BY <2>4, <2>7, <2>9, <2>10 DEF SameSched, r
<1> QED BY <1>9, <1>10

\* A seek from a loop that need not have a right key.
LEMMA SeekShown ==
    ASSUME NEW l, NEW s \in Sims, NEW c \in Controls, NEW target \in 0 .. MaxTime, Loose(l, s),
           TraceRight(l, l.plot.samples, l.lastTracking, l, s)
    PROVE  LET r == Seek(l, s, c, target)
           IN  Shown(r, s) /\ Stopped(r, l) /\ r.gen = l.gen + 1
<1> DEFINE stopped == SetRunning(l, FALSE)
           invalid == InvalidatePreview(stopped)
           there == [invalid EXCEPT !.t = target]
           fixed == ShowFixedPlot(there, s, c.plotMode, TRUE)
           r == Seek(l, s, c, target)
<1>1. r = IF target \in s.faults.bad THEN there
          ELSE IF c.tracking = "fixed" THEN Redraw(fixed, c)
          ELSE SeekDynamic(there, s, c)
  BY DEF Seek
<1>2. stopped \in Loops /\ Loose(stopped, s) /\ SameShown(stopped, l) /\ Stopped(stopped, l)
  BY SetRunningIs, SameIsShown DEF Loose, Stopped
<1> HIDE DEF stopped
<1>3. /\ invalid \in Loops /\ Loose(invalid, s) /\ Stopped(invalid, l)
      /\ invalid.key = None /\ invalid.gen = l.gen + 1
      /\ invalid.lastTracking = l.lastTracking /\ invalid.plot = l.plot
      /\ invalid.history = l.history /\ (invalid.overrun <=> l.overrun)
  BY <1>2, InvalidateIs, InvalidateShown DEF SameShown, SameSched, Stopped
<1> HIDE DEF invalid
<1>4. /\ there \in Loops /\ Stopped(there, l)
      /\ there.key = None /\ there.gen = l.gen + 1 /\ there.t = target
      /\ there.lastTracking = l.lastTracking /\ there.plot = l.plot
      /\ there.history = l.history /\ there.comparison = invalid.comparison
      /\ there.preview = invalid.preview /\ there.range = invalid.range
      /\ there.rangeMode = invalid.rangeMode /\ (there.overrun <=> l.overrun)
  BY <1>3 DEF Loops, Stopped
<1> HIDE DEF there
<1>5. Loose(there, s)
  BY <1>3, <1>4 DEF Loose, OfSim
<1>6. CASE target \in s.faults.bad
  <2>1. r = there /\ ~NeverThrows(s)
    BY <1>1, <1>6 DEF NeverThrows
  <2> QED BY <1>4, <1>5, <2>1 DEF Shown, KeyRight, TraceRight
<1>7. CASE target \notin s.faults.bad /\ c.tracking = "fixed"
  <2>1. r = Redraw(fixed, c)
    BY <1>1, <1>7
  <2>2. c.plotMode \in PlotModes
    BY DEF Controls
  <2>3. Shown(fixed, s) /\ SameSched(fixed, there) /\ fixed.gen = there.gen
    BY <1>5, <2>2, ShowFixedPlotShown
  <2> HIDE DEF fixed, r
  <2>4. Shown(r, s)
    BY <2>1, <2>3, RedrawShown
  <2>5. SameSched(r, fixed) /\ r.gen = fixed.gen
    BY <2>1, <2>3, RedrawIs DEF Shown, Loose
  <2> QED BY <1>4, <2>3, <2>4, <2>5 DEF SameSched, Stopped, r
<1>8. CASE target \notin s.faults.bad /\ c.tracking # "fixed"
  <2>1. r = SeekDynamic(there, s, c)
    BY <1>1, <1>8
  <2>2. NeverThrows(s) /\ there.lastTracking \notin {"fixed", Unset} /\ ~there.overrun
          => Matches(FiniteSamples(there.history), there.plot.samples, s)
    BY <1>4 DEF TraceRight
  <2>3. Shown(r, s) /\ SameSched(r, there) /\ r.gen = there.gen
    BY <1>4, <1>5, <1>8, <2>1, <2>2, SeekDynamicShown
  <2> QED BY <1>4, <2>3 DEF SameSched, Stopped
<1> QED BY <1>6, <1>7, <1>8


-----------------------------------------------------------------------------
(* The animation frame.                                                    *)

LEMMA QueueIs ==
    ASSUME NEW l \in Loops
    PROVE  LET r == QueueNextFrame(l)
           IN  /\ r \in Loops /\ SameShown(r, l)
               /\ (r.running <=> l.running) /\ (r.hidden <=> l.hidden)
               /\ (r.raf <=> l.raf \/ (l.running /\ ~l.hidden))
<1>1. CASE l.running
  BY <1>1, RequestFrameIs DEF QueueNextFrame
<1>2. CASE ~l.running
  BY <1>2 DEF QueueNextFrame, SameShown
<1> QED BY <1>1, <1>2

\* In another tracking than the last sample's the trace is dropped.
LEMMA TrackedShown ==
    ASSUME NEW l, NEW s, NEW c, Shown(l, s)
    PROVE  LET r == ResetIfTrackingChanged(l, c)
           IN  \/ r = l /\ c.tracking \in {l.lastTracking, "fixed"}
               \/ /\ c.tracking \notin {l.lastTracking, "fixed"}
                  /\ Loose(r, s) /\ SameSched(r, l) /\ r.t = l.t /\ r.gen = l.gen + 1
                  /\ r.key = None /\ r.lastT = NaN /\ r.plot = Empty
                  /\ (r.overrun <=> l.overrun)
<1> DEFINE invalid == InvalidatePreview(l)
           ranged == ClearRange(invalid)
           forgot == ForgetTrace(ranged)
<1>1. CASE c.tracking \in {l.lastTracking, "fixed"}
  BY <1>1 DEF ResetIfTrackingChanged
<1>2. CASE c.tracking \notin {l.lastTracking, "fixed"}
  <2>1. ResetIfTrackingChanged(l, c) = forgot
    BY <1>2 DEF ResetIfTrackingChanged
  <2>2. /\ invalid \in Loops /\ Loose(invalid, s) /\ SameSched(invalid, l)
        /\ invalid.t = l.t /\ invalid.gen = l.gen + 1 /\ invalid.key = None
        /\ (invalid.overrun <=> l.overrun)
    BY InvalidateIs, InvalidateShown DEF Shown, Loose
  <2> HIDE DEF invalid
  <2>3. /\ ranged \in Loops /\ Loose(ranged, s) /\ SameSched(ranged, l)
        /\ ranged.t = l.t /\ ranged.gen = l.gen + 1 /\ ranged.key = None
        /\ (ranged.overrun <=> l.overrun)
    BY <2>2, ClearRangeIs, ClearRangeLoose DEF SameSched
  <2> HIDE DEF ranged
  <2>4. /\ Loose(forgot, s) /\ SameSched(forgot, l)
        /\ forgot.t = l.t /\ forgot.gen = l.gen + 1 /\ forgot.key = None
        /\ forgot.lastT = NaN /\ forgot.plot = Empty /\ (forgot.overrun <=> l.overrun)
    BY <2>3, ForgetTraceIs, ForgetTraceLoose DEF SameSched
  <2> HIDE DEF forgot
  <2> QED BY <1>2, <2>1, <2>4
<1> QED BY <1>1, <1>2

\* A preview that is shown, with the settings it was built for, is not rebuilt.
LEMMA KeyMatches ==
    ASSUME NEW l, NEW s, NEW c, Shown(l, s), l.key # None, l.key.mode = c.plotMode
    PROVE  ~ShouldRebuild(l, s, c)
<1>1. l.key \in [of : Nat, mode : PlotModes, gen : Nat]
  BY DEF Shown, Loose, Loops, Keys
<1>2. l.key.of = s.id /\ l.key.gen = l.gen /\ l.lastTracking = "fixed"
  BY DEF Shown, Loose, OfSim, KeyRight
<1>3. l.key = PreviewKey(l, s, c.plotMode)
  BY <1>1, <1>2 DEF PreviewKey
<1> QED BY <1>2, <1>3 DEF ShouldRebuild

LEMMA FrameShown ==
    ASSUME NEW l, NEW s \in Sims, NEW c \in Controls, Shown(l, s)
    PROVE  LET r == FrameShows(l, s, c)
           IN  /\ Shown(r, s)
               /\ r.t = l.t /\ r.gen \in {l.gen, l.gen + 1} /\ (r.overrun <=> l.overrun)
               /\ (r.running <=> l.running) /\ (r.hidden <=> l.hidden)
               /\ (r.raf <=> l.raf \/ (l.running /\ ~l.hidden))
               /\ l.key # None /\ c.tracking = "fixed" /\ c.plotMode = l.key.mode
                    => r.preview = l.preview
<1> DEFINE tracked == ResetIfTrackingChanged(l, c)
           shown == IF ShouldRebuild(tracked, s, c)
                    THEN ShowFixedPlot(tracked, s, c.plotMode, FALSE) ELSE tracked
           finite == HasFlux(s, c, shown.t)
           sampled == IF ShouldSample(shown, c) THEN RecordSample(shown, s, c, finite) ELSE shown
           redrawn == Redraw(sampled, c)
           r == FrameShows(l, s, c)
           same == l.key # None /\ c.tracking = "fixed" /\ c.plotMode = l.key.mode
<1>1. r = QueueNextFrame(redrawn)
  BY DEF FrameShows
<1>2. c.plotMode \in PlotModes /\ c.tracking \in Trackings /\ Unset \notin Trackings
  BY SessionAssumption DEF Controls, Unset
<1>3. /\ Shown(sampled, s) /\ SameSched(sampled, l) /\ (sampled.overrun <=> l.overrun)
      /\ sampled.t = l.t /\ sampled.gen \in {l.gen, l.gen + 1}
      /\ same => sampled.preview = l.preview
  <2>1. CASE c.tracking = "fixed"
    <3>1. tracked = l
      BY <2>1 DEF ResetIfTrackingChanged
    <3>2. sampled = shown
      BY <2>1 DEF ShouldSample
    <3>3. CASE ShouldRebuild(l, s, c)
      <4>1. shown = ShowFixedPlot(l, s, c.plotMode, FALSE)
        BY <3>1, <3>3
      <4>2. ~same
        BY <3>3, KeyMatches
      <4> HIDE DEF same, shown, sampled
      <4>3. Loose(l, s) /\ FALSE \in BOOLEAN
        BY DEF Shown
      <4>4. /\ Shown(shown, s) /\ SameSched(shown, l) /\ shown.t = l.t /\ shown.gen = l.gen
            /\ (shown.overrun <=> l.overrun)
        BY <1>2, <4>1, <4>3, ShowFixedPlotShown
      <4> QED BY <3>2, <4>2, <4>4
    <3>4. CASE ~ShouldRebuild(l, s, c)
      <4>1. sampled = l
        BY <3>1, <3>2, <3>4
      <4> HIDE DEF sampled
      <4> QED BY <4>1 DEF SameSched
    <3> QED BY <3>3, <3>4
  <2>2. CASE c.tracking # "fixed"
    <3>1. shown = tracked /\ ~same
      BY <2>2 DEF ShouldRebuild
    <3>2. finite \in BOOLEAN /\ (~finite => s.faults.gaps # {})
      BY DEF HasFlux, InGap
    <3> HIDE DEF same, finite
    <3>3. CASE c.tracking = l.lastTracking
      <4>1. tracked = l
        BY <3>3 DEF ResetIfTrackingChanged
      <4>2. CASE ShouldSample(l, c)
        <5>1. sampled = RecordSample(l, s, c, finite)
          BY <3>1, <4>1, <4>2
        <5>2. l.key = None
          BY <2>2, <3>3 DEF Shown, KeyRight
        <5>3. NeverThrows(s) /\ ~l.overrun =>
                /\ Matches(FiniteSamples(l.history), Truncated(l.plot.samples, l.t), s)
                /\ \A i \in DOMAIN l.plot.samples : l.plot.samples[i].t <= l.t
          <6> SUFFICES ASSUME NeverThrows(s), ~l.overrun
                       PROVE  /\ Matches(FiniteSamples(l.history), Truncated(l.plot.samples, l.t), s)
                              /\ \A i \in DOMAIN l.plot.samples : l.plot.samples[i].t <= l.t
            OBVIOUS
          <6>1. /\ Matches(FiniteSamples(l.history), l.plot.samples, s)
                /\ \A i \in DOMAIN l.plot.samples : l.plot.samples[i].t <= l.t
            BY <1>2, <2>2, <3>3 DEF Shown, TraceRight
          <6>2. l.plot.samples \in Seq(Sample) /\ InOrder(l.plot.samples)
            BY DEF Shown, Loose, Buffer, Cached, Listed, Buffers
          <6> QED BY <6>1, <6>2, TruncatedWhole
        <5>4. Loose(l, s)
          BY DEF Shown
        <5> HIDE DEF sampled
        <5>5. /\ Shown(sampled, s) /\ SameSched(sampled, l) /\ sampled.t = l.t /\ sampled.gen = l.gen
              /\ (sampled.overrun <=> l.overrun)
          BY <3>2, <5>1, <5>2, <5>3, <5>4, RecordShown
        <5> QED BY <3>1, <5>5
      <4>3. CASE ~ShouldSample(l, c)
        <5>1. sampled = l
          BY <3>1, <4>1, <4>3
        <5> HIDE DEF sampled
        <5> QED BY <3>1, <5>1 DEF SameSched
      <4> QED BY <4>2, <4>3
    <3>4. CASE c.tracking # l.lastTracking
      <4>1. /\ Loose(tracked, s) /\ SameSched(tracked, l)
            /\ tracked.t = l.t /\ tracked.gen = l.gen + 1
            /\ tracked.key = None /\ tracked.lastT = NaN /\ tracked.plot = Empty
            /\ (tracked.overrun <=> l.overrun)
        BY <2>2, <3>4, TrackedShown
      <4> HIDE DEF tracked
      <4>2. ShouldSample(tracked, c)
        BY <2>2, <4>1 DEF ShouldSample, NaN
      <4>3. sampled = RecordSample(tracked, s, c, finite)
        BY <3>1, <4>2
      <4>4. /\ Matches(FiniteSamples(tracked.history), Truncated(tracked.plot.samples, tracked.t), s)
            /\ \A i \in DOMAIN tracked.plot.samples : tracked.plot.samples[i].t <= tracked.t
        <5>1. tracked.plot.samples = <<>> /\ tracked.history \in Seq(Sample)
          BY <4>1, EmptyIsBuffer DEF Loose, Loops
        <5> QED BY <5>1, MatchesEmpty, TruncatedEmpty
      <4> HIDE DEF sampled
      <4>5. /\ Shown(sampled, s) /\ SameSched(sampled, tracked)
            /\ sampled.t = tracked.t /\ sampled.gen = tracked.gen
            /\ (sampled.overrun <=> tracked.overrun)
        BY <3>2, <4>1, <4>3, <4>4, RecordShown
      <4> QED BY <3>1, <4>1, <4>5 DEF SameSched
    <3> QED BY <3>3, <3>4
  <2> QED BY <2>1, <2>2
<1> HIDE DEF sampled, same
<1>4. /\ Shown(redrawn, s) /\ SameSched(redrawn, sampled)
      /\ redrawn.t = sampled.t /\ redrawn.gen = sampled.gen
      /\ redrawn.preview = sampled.preview /\ (redrawn.overrun <=> sampled.overrun)
  BY <1>3, RedrawShown, RedrawIs DEF Shown, Loose
<1> HIDE DEF redrawn
<1>5. redrawn \in Loops
  BY <1>4 DEF Shown, Loose
<1>6. /\ r \in Loops /\ SameShown(r, redrawn)
      /\ (r.running <=> redrawn.running) /\ (r.hidden <=> redrawn.hidden)
      /\ (r.raf <=> redrawn.raf \/ (redrawn.running /\ ~redrawn.hidden))
  BY <1>1, <1>5, QueueIs
<1> HIDE DEF r
<1>7. Shown(r, s)
  BY <1>4, <1>6, SameIsShown
<1>8. /\ r.t = l.t /\ r.gen \in {l.gen, l.gen + 1} /\ (r.overrun <=> l.overrun)
      /\ (same => r.preview = l.preview)
  BY <1>3, <1>4, <1>6 DEF SameShown
<1>9. /\ (r.running <=> l.running) /\ (r.hidden <=> l.hidden)
      /\ (r.raf <=> l.raf \/ (l.running /\ ~l.hidden))
  BY <1>3, <1>4, <1>6 DEF SameSched
<1> QED BY <1>7, <1>8, <1>9 DEF r, same

\* A step that throws stops the loop where it is.
LEMMA FailedShown ==
    ASSUME NEW l, NEW s, NEW c, Shown(l, s)
    PROVE  LET r == FrameFails(l, c)
           IN  /\ Shown(r, s) /\ Stopped(r, l)
               /\ r.t = l.t /\ r.gen = l.gen /\ r.preview = l.preview
               /\ (r.overrun <=> l.overrun)
<1> DEFINE fired == [l EXCEPT !.raf = FALSE]
           stopped == SetRunning(fired, FALSE)
           r == FrameFails(l, c)
<1>1. r = Redraw(stopped, c)
  BY DEF FrameFails
<1>2. fired \in Loops /\ SameShown(fired, l) /\ (fired.hidden <=> l.hidden)
  BY DEF Shown, Loose, Loops, SameShown
<1> HIDE DEF fired
<1>3. stopped \in Loops /\ SameShown(stopped, fired) /\ Stopped(stopped, fired)
  BY <1>2, SetRunningIs DEF Stopped
<1> HIDE DEF stopped
<1>4. Shown(fired, s)
  BY <1>2, SameIsShown
<1>5. Shown(stopped, s)
  BY <1>3, <1>4, SameIsShown
<1>6. /\ stopped.t = l.t /\ stopped.gen = l.gen /\ stopped.preview = l.preview
      /\ (stopped.overrun <=> l.overrun)
  BY <1>2, <1>3 DEF SameShown
<1>7. Stopped(stopped, l)
  BY <1>2, <1>3 DEF Stopped
<1>8. Shown(r, s)
  BY <1>1, <1>5, RedrawShown
<1>9. /\ SameSched(r, stopped) /\ r.t = stopped.t /\ r.gen = stopped.gen
      /\ r.preview = stopped.preview /\ (r.overrun <=> stopped.overrun)
  BY <1>1, <1>3, <1>5, RedrawIs DEF Shown, Loose
<1> HIDE DEF r
<1> QED BY <1>6, <1>7, <1>8, <1>9 DEF Stopped, SameSched, r

-----------------------------------------------------------------------------
(* Clear and undo.                                                         *)

\* A snapshot is dropped with the next invalidation; until then the runtime is
\* the same and the time has not gone back.
LEMMA AgedRight ==
    ASSUME NEW c, NEW l, NEW m, NEW s, NEW r, ClearedRight(c, l, s),
           l.t \in Int, m.t \in Int, m.gen \in Nat, m.gen >= 1,
           m.gen = l.gen => r = s /\ m.t >= l.t /\ (m.overrun <=> l.overrun)
    PROVE  ClearedRight(IF c = None \/ c.gen = m.gen THEN c
                        ELSE IF c.plot = <<>> THEN None ELSE Expired, m, r)
<1>1. CASE c = None
  BY <1>1 DEF ClearedRight
<1>2. CASE c = Expired
  <2>1. c.gen # m.gen /\ c.plot # <<>>
    BY <1>2 DEF Expired
  <2> QED BY <1>2, <2>1 DEF ClearedRight
<1>3. CASE Kept(c, l, s)
  <2>1. CASE c = None \/ c.gen = m.gen
    <3>1. CASE c = None
      BY <3>1, <1>1
    <3>2. CASE c.gen = m.gen
      <4>1. m.gen = l.gen /\ r = s /\ m.t >= l.t /\ (m.overrun <=> l.overrun)
        BY <1>3, <3>2 DEF Kept
      <4>2. \A i \in DOMAIN c.plot : c.plot[i].t \in Int
        <5>1. c.plot \in Seq(Sample)
          BY <1>3 DEF Kept, Snapshots
        <5> QED BY <5>1, SampleTimes
      <4>3. TraceRight(c, c.plot, c.tracking, m, r)
        <5> SUFFICES ASSUME NeverThrows(r), c.tracking \notin {"fixed", Unset}, ~m.overrun
                     PROVE  /\ Matches(FiniteSamples(c.history), c.plot, r)
                            /\ \A i \in DOMAIN c.plot : c.plot[i].t <= m.t
          BY DEF TraceRight
        <5>1. /\ Matches(FiniteSamples(c.history), c.plot, r)
              /\ \A i \in DOMAIN c.plot : c.plot[i].t <= l.t
          BY <1>3, <4>1 DEF Kept, TraceRight
        <5>2. ASSUME NEW i \in DOMAIN c.plot PROVE c.plot[i].t <= m.t
          BY <4>1, <4>2, <5>1
        <5> QED BY <5>1, <5>2
      <4>4. Kept(c, m, r)
        BY <1>3, <3>2, <4>1, <4>3 DEF Kept
      <4> QED BY <3>2, <4>4 DEF ClearedRight
    <3> QED BY <2>1, <3>1, <3>2
  <2>2. CASE ~(c = None \/ c.gen = m.gen)
    BY <2>2 DEF ClearedRight
  <2> QED BY <2>1, <2>2
<1> QED BY <1>1, <1>2, <1>3 DEF ClearedRight

\* An undo brings back what a clear has kept.
LEMMA RestoredShown ==
    ASSUME NEW l, NEW s, NEW c, Shown(l, s), Kept(c, l, s)
    PROVE  LET r == Restored(l, c, l.gen)
           IN  /\ Shown(r, s) /\ SameSched(r, l) /\ r.gen = l.gen /\ r.t = l.t
               /\ (r.overrun <=> l.overrun)
<1> DEFINE live == controls.tracking = "live"
           plot == Draw(Restore(c.plot), live)
           key == IF c.key = None THEN None ELSE [c.key EXCEPT !.gen = l.gen]
           r == Restored(l, c, l.gen)
<1>1. /\ c.plot \in Seq(Sample) /\ c.history \in Seq(Sample) /\ c.key \in Keys
      /\ c.preview \in Previews /\ c.mode \in Modes /\ c.tracking \in Trackings \cup {Unset}
      /\ c.range \in Ranges /\ c.rangeMode \in Modes
  BY DEF Kept, Snapshots
<1>2. l \in Loops /\ l.gen \in Nat
  BY DEF Shown, Loose, Loops
<1>3. Buffer(plot) /\ plot.samples = c.plot
  <2>1. Buffer(Restore(c.plot)) /\ Restore(c.plot).samples = c.plot
    BY <1>1, RestoreKeeps DEF Kept
  <2> HIDE DEF live
  <2> QED BY <2>1, DrawKeeps
<1>4. plot \in Buffers
  BY <1>3 DEF Buffer, Cached, Listed
<1>5. /\ key \in Keys /\ (key # None <=> c.key # None)
      /\ key # None => key.of = c.key.of /\ key.mode = c.key.mode /\ key.gen = l.gen
  <2>1. CASE c.key = None
    BY <2>1 DEF Keys
  <2>2. CASE c.key # None
    <3>1. c.key \in [of : Nat, mode : PlotModes, gen : Nat]
      BY <1>1, <2>2 DEF Keys
    <3>2. key = [of |-> c.key.of, mode |-> c.key.mode, gen |-> l.gen]
      BY <2>2, <3>1
    <3> HIDE DEF key
    <3> QED BY <1>2, <2>2, <3>1, <3>2, NotNone DEF Keys
  <2> QED BY <2>1, <2>2
<1>6. r = [l EXCEPT !.plot = plot, !.history = c.history, !.key = key, !.preview = c.preview,
                    !.lastMode = c.mode, !.lastTracking = c.tracking,
                    !.range = c.range, !.rangeMode = c.rangeMode]
  BY DEF Restored
<1> HIDE DEF plot, key, r
<1>7. /\ r \in Loops /\ SameSched(r, l) /\ r.gen = l.gen /\ r.t = l.t
      /\ r.plot = plot /\ r.history = c.history /\ r.key = key /\ r.preview = c.preview
      /\ r.lastTracking = c.tracking /\ r.range = c.range /\ r.rangeMode = c.rangeMode
      /\ r.comparison = l.comparison /\ (r.overrun <=> l.overrun)
  BY <1>1, <1>2, <1>4, <1>5, <1>6 DEF Loops, SameSched
<1>8. Loose(r, s)
  <2>1. OfSim(r, c.plot, s)
    BY <1>5, <1>7 DEF Kept, OfSim
  <2>2. l.comparison # None => l.comparison.of = s.params
    BY DEF Shown, Loose
  <2>3. Len(c.history) <= Capacity
    BY DEF Kept
  <2> QED BY <1>3, <1>7, <2>1, <2>2, <2>3 DEF Loose
<1>9. KeyRight(r, c.plot, c.tracking, s)
  BY <1>5, <1>7 DEF Kept, KeyRight
<1>10. TraceRight(r, c.plot, c.tracking, r, s)
  BY <1>7 DEF Kept, TraceRight
<1> QED BY <1>3, <1>5, <1>7, <1>8, <1>9, <1>10 DEF Shown, r

\* A clear keeps what it drops.
LEMMA ClearShown ==
    ASSUME NEW l, NEW s, Shown(l, s)
    PROVE  LET kept == [plot |-> l.plot.samples, history |-> l.history, key |-> l.key,
                        preview |-> l.preview, mode |-> l.lastMode,
                        tracking |-> l.lastTracking, range |-> l.range,
                        rangeMode |-> l.rangeMode, gen |-> l.gen + 1]
               r == RequestFrame(ClearRange(ForgetTrace(
                        [InvalidatePreview(l) EXCEPT !.history = <<>>])))
           IN  /\ Shown(r, s) /\ r.gen = l.gen + 1 /\ r.t = l.t
               /\ (r.running <=> l.running) /\ (r.hidden <=> l.hidden)
               /\ (r.raf <=> l.raf \/ ~l.hidden)
               /\ Kept(kept, r, s)
<1> DEFINE kept == [plot |-> l.plot.samples, history |-> l.history, key |-> l.key,
                    preview |-> l.preview, mode |-> l.lastMode,
                    tracking |-> l.lastTracking, range |-> l.range,
                    rangeMode |-> l.rangeMode, gen |-> l.gen + 1]
           invalid == InvalidatePreview(l)
           emptied == [invalid EXCEPT !.history = <<>>]
           forgot == ForgetTrace(emptied)
           ranged == ClearRange(forgot)
           r == RequestFrame(ranged)
<1>1. /\ l \in Loops /\ l.gen \in Nat /\ Buffer(l.plot)
      /\ l.plot.samples \in Seq(Sample) /\ InOrder(l.plot.samples)
      /\ Len(l.plot.samples) <= Capacity /\ Len(l.history) <= Capacity
  BY DEF Shown, Loose, Loops, Buffer, Cached, Listed, Buffers
<1>2. /\ invalid \in Loops /\ Loose(invalid, s) /\ SameSched(invalid, l)
      /\ invalid.key = None /\ invalid.gen = l.gen + 1 /\ invalid.t = l.t
      /\ (invalid.overrun <=> l.overrun)
  BY InvalidateIs, InvalidateShown DEF Shown, Loose
<1> HIDE DEF invalid
<1>3. /\ emptied \in Loops /\ SameSched(emptied, l) /\ emptied.history = <<>>
      /\ emptied.key = None /\ emptied.gen = l.gen + 1 /\ emptied.t = l.t
      /\ emptied.preview = invalid.preview /\ emptied.range = invalid.range
      /\ emptied.rangeMode = invalid.rangeMode /\ emptied.comparison = invalid.comparison
      /\ emptied.plot = invalid.plot /\ (emptied.overrun <=> l.overrun)
  <2>1. <<>> \in Seq(Sample)
    OBVIOUS
  <2> QED BY <1>2, <2>1 DEF Loops, SameSched
<1> HIDE DEF emptied
<1>4. Loose(emptied, s)
  <2>1. Len(<<>>) <= Capacity
    BY CapacityAssumption
  <2> QED BY <1>2, <1>3, <2>1 DEF Loose, OfSim
<1>5. /\ forgot \in Loops /\ Loose(forgot, s) /\ SameSched(forgot, l)
      /\ forgot.history = <<>> /\ forgot.plot = Empty
      /\ forgot.key = None /\ forgot.gen = l.gen + 1 /\ forgot.t = l.t
      /\ (forgot.overrun <=> l.overrun)
  BY <1>3, <1>4, ForgetTraceIs, ForgetTraceLoose DEF SameSched
<1> HIDE DEF forgot
<1>6. /\ ranged \in Loops /\ Loose(ranged, s) /\ SameSched(ranged, l)
      /\ ranged.history = <<>> /\ ranged.plot = Empty
      /\ ranged.key = None /\ ranged.gen = l.gen + 1 /\ ranged.t = l.t
      /\ (ranged.overrun <=> l.overrun)
  BY <1>5, ClearRangeIs, ClearRangeLoose DEF SameSched
<1> HIDE DEF ranged
<1>7. Shown(ranged, s)
  <2>1. <<>> \in Seq(Sample) /\ ranged.plot.samples = <<>>
    BY <1>6, EmptyIsBuffer
  <2>2. Matches(FiniteSamples(<<>>), <<>>, s)
    BY <2>1, MatchesEmpty
  <2> QED BY <1>6, <2>1, <2>2 DEF Shown, KeyRight, TraceRight
<1>8. /\ r \in Loops /\ SameShown(r, ranged)
      /\ (r.running <=> ranged.running) /\ (r.hidden <=> ranged.hidden)
      /\ (r.raf <=> ranged.raf \/ ~ranged.hidden)
  BY <1>6, RequestFrameIs
<1> HIDE DEF r
<1>9. Shown(r, s) /\ r.gen = l.gen + 1 /\ r.t = l.t /\ (r.overrun <=> l.overrun)
  BY <1>6, <1>7, <1>8, SameIsShown DEF SameShown
<1>10. Kept(kept, r, s)
  <2>1. kept \in Snapshots
    BY <1>1 DEF Snapshots, Loops
  <2>2. /\ kept.plot = l.plot.samples /\ kept.history = l.history /\ kept.key = l.key
        /\ kept.preview = l.preview /\ kept.tracking = l.lastTracking
        /\ kept.range = l.range /\ kept.rangeMode = l.rangeMode /\ kept.gen = l.gen + 1
    OBVIOUS
  <2> HIDE DEF kept
  <2>3. OfSim(kept, kept.plot, s)
    BY <2>2 DEF Shown, Loose, OfSim
  <2>4. KeyRight(kept, kept.plot, kept.tracking, s)
    BY <2>2 DEF Shown, KeyRight
  <2>5. TraceRight(kept, kept.plot, kept.tracking, r, s)
    BY <1>9, <2>2 DEF Shown, TraceRight
  <2> QED BY <1>1, <1>9, <2>1, <2>2, <2>3, <2>4, <2>5 DEF Kept
<1>11. /\ (r.running <=> l.running) /\ (r.hidden <=> l.hidden)
       /\ (r.raf <=> l.raf \/ ~l.hidden)
  BY <1>6, <1>8 DEF SameSched
<1> QED BY <1>9, <1>10, <1>11 DEF r, ranged, forgot, emptied, invalid, kept

-----------------------------------------------------------------------------
(* The actions.                                                            *)

\* What is left to show of a step that ages the snapshot.
LEMMA AgingStep ==
    ASSUME IndInv, sim' \in Sims, controls' \in Controls,
           comparing' \in {None} \cup {<<p>> : p \in 1 .. sim'.id},
           Shown(loop', sim'), Sched(loop'), loop'.gen >= loop.gen,
           loop'.gen = loop.gen =>
               sim' = sim /\ loop'.t >= loop.t /\ (loop'.overrun <=> loop.overrun),
           cleared' = Aged
    PROVE  IndInv'
<1>1. loop.t \in Int /\ loop'.t \in Int /\ loop.gen \in Nat /\ loop'.gen \in Nat
  BY SessionAssumption DEF IndInv, Shown, Loose, Loops
<1>2. loop'.gen >= 1 /\ ClearedRight(cleared, loop, sim)
  BY <1>1 DEF IndInv
<1>3. ClearedRight(cleared', loop', sim')
  BY <1>1, <1>2, AgedRight DEF Aged
<1> QED BY <1>2, <1>3 DEF IndInv

\* A step that leaves the generation, the time and the snapshot as they are.
LEMMA KeepingStep ==
    ASSUME IndInv, sim' = sim, controls' \in Controls,
           comparing' \in {None} \cup {<<p>> : p \in 1 .. sim.id},
           Shown(loop', sim), Sched(loop'), loop'.gen = loop.gen, loop'.t = loop.t,
           loop'.overrun <=> loop.overrun,
           cleared' = cleared \/ cleared' = None
    PROVE  IndInv'
<1>1. ClearedRight(cleared', loop', sim')
  BY DEF IndInv, ClearedRight, Kept, TraceRight
<1> QED BY <1>1 DEF IndInv

\* The facts about the loop that the actions start from.
LEMMA LoopFacts ==
    ASSUME IndInv
    PROVE  /\ loop \in Loops /\ loop.t \in 0 .. MaxTime /\ loop.gen \in Nat
           /\ sim \in Sims /\ controls \in Controls
           /\ Shown(loop, sim) /\ Loose(loop, sim) /\ Sched(loop)
           /\ TraceRight(loop, loop.plot.samples, loop.lastTracking, loop, sim)
BY DEF IndInv, Shown, Loose, Loops

\* A frame asked for keeps the schedule.
LEMMA RequestStep ==
    ASSUME NEW l, NEW s, Shown(l, s), Sched(l)
    PROVE  LET r == RequestFrame(l)
           IN  Shown(r, s) /\ Sched(r) /\ r.gen = l.gen /\ r.t = l.t /\ (r.overrun <=> l.overrun)
<1> DEFINE r == RequestFrame(l)
<1>1. l \in Loops
  BY DEF Shown, Loose
<1>2. /\ r \in Loops /\ SameShown(r, l)
      /\ (r.running <=> l.running) /\ (r.hidden <=> l.hidden)
      /\ (r.raf <=> l.raf \/ ~l.hidden)
  BY <1>1, RequestFrameIs
<1> HIDE DEF r
<1>3. Shown(r, s) /\ r.gen = l.gen /\ r.t = l.t /\ (r.overrun <=> l.overrun)
  BY <1>2, SameIsShown DEF SameShown
<1> QED BY <1>2, <1>3 DEF Sched, r

LEMMA InitRight == Init => IndInv
<1> SUFFICES ASSUME Init PROVE IndInv
  OBVIOUS
<1> DEFINE x == [t |-> 0, of |-> 1, mode |-> "physical", finite |-> TRUE]
           plot == Push(Empty, x)
<1>1. /\ 1 \in 1 .. MaxRuntime /\ 0 \in 0 .. MaxTime /\ "physical" \in PlotModes
      /\ "dynamic" \in Trackings
  BY SessionAssumption
<1>2. x \in Sample /\ x.t = 0 /\ x.of = 1 /\ x.finite
  BY <1>1 DEF Sample
<1> HIDE DEF x
<1>3. Buffer(plot) /\ plot.samples = <<x>>
  <2>1. Buffer(plot) /\ plot.samples = AbstractPush(<<>>, x)
    BY <1>2, EmptyIsBuffer, PushIs
  <2>2. <<>> \in Seq(Sample) /\ <<x>> \in Seq(Sample) /\ Len(<<x>>) <= Capacity /\ Capacity \in Nat
    BY <1>2, CapacityAssumption
  <2>3. Truncated(<<>>, x.t) = <<>>
    BY TruncatedEmpty
  <2>4. Append(<<>>, x) = <<x>>
    OBVIOUS
  <2>5. LastN(<<x>>, Capacity) = <<x>>
    BY <2>2, LastNWhole
  <2> QED BY <2>1, <2>3, <2>4, <2>5 DEF AbstractPush
<1>4. plot \in Buffers
  BY <1>3 DEF Buffer, Cached, Listed
<1>5. loop = [t |-> 0, running |-> FALSE, hidden |-> FALSE, raf |-> TRUE,
              lastT |-> {0}, lastMode |-> "physical", lastTracking |-> "dynamic",
              gen |-> 1, key |-> None, preview |-> None, range |-> None, rangeMode |-> Unset,
              comparison |-> None, overrun |-> FALSE, plot |-> plot, history |-> <<x>>]
  BY DEF Init, x
<1> HIDE DEF plot
<1>6. loop \in Loops
  <2>1. <<x>> \in Seq(Sample) /\ {0} \in SUBSET (0 .. MaxTime)
    BY <1>1, <1>2
  <2>2. None \in Keys /\ None \in Previews /\ None \in Ranges /\ Unset \in Modes
        /\ "physical" \in Modes
    BY <1>1 DEF Keys, Previews, Ranges, Modes
  <2> QED BY <1>1, <1>4, <1>5, <2>1, <2>2 DEF Loops
<1>7. sim \in Sims /\ sim.id = 1 /\ sim.params = 1
  <2>1. NoFaults \in AnyFaults
    BY DEF AnyFaults
  <2>2. sim = [id |-> 1, faults |-> NoFaults, params |-> 1]
    BY DEF Init
  <2> QED BY <1>1, <2>1, <2>2, SessionAssumption DEF Sims
<1>8. /\ loop.plot = plot /\ loop.history = <<x>> /\ loop.key = None /\ loop.preview = None
      /\ loop.range = None /\ loop.comparison = None /\ loop.t = 0 /\ loop.gen = 1
      /\ ~loop.running /\ ~loop.hidden
  BY <1>5
<1>9. Loose(loop, sim)
  <2>1. OfSim(loop, <<x>>, sim)
    BY <1>2, <1>7, <1>8 DEF OfSim
  <2>2. Len(<<x>>) <= Capacity
    BY CapacityAssumption
  <2> QED BY <1>3, <1>6, <1>8, <2>1, <2>2 DEF Loose
<1>10. TraceRight(loop, <<x>>, loop.lastTracking, loop, sim)
  <2>1. <<x>> \in Seq(Sample) /\ \A i \in DOMAIN <<x>> : <<x>>[i] = x
    BY <1>2
  <2>2. FiniteSamples(<<x>>) = <<x>>
    BY <1>2, <2>1, FiniteWhole
  <2>3. Matches(<<x>>, <<x>>, sim)
    BY <2>1 DEF Matches, Ends
  <2> QED BY <1>2, <1>8, <2>1, <2>2, <2>3 DEF TraceRight
<1>11. Shown(loop, sim)
  BY <1>3, <1>8, <1>9, <1>10 DEF Shown, KeyRight
<1>12. Sched(loop)
  BY <1>8 DEF Sched
<1>13. controls \in Controls /\ comparing = None /\ cleared = None
  BY <1>1 DEF Init, Controls
<1> QED BY <1>7, <1>8, <1>11, <1>12, <1>13 DEF IndInv, ClearedRight

LEMMA FrameStep ==
    ASSUME IndInv, NEW dt \in 0 .. 1, Frame(dt)
    PROVE  /\ IndInv'
           /\ loop.key # None /\ controls.tracking = "fixed" /\ controls.plotMode = loop.key.mode
                => loop'.preview = loop.preview
<1> DEFINE t == loop.t + dt
           now == [loop EXCEPT !.raf = FALSE, !.t = t]
<1>1. /\ loop' = IF t \in sim.faults.bad THEN FrameFails(loop, controls)
                 ELSE FrameShows(now, sim, controls)
      /\ cleared' = Aged /\ sim' = sim /\ controls' = controls /\ comparing' = comparing
      /\ t <= MaxTime
  <2>1. now.t = t
    BY LoopFacts DEF Loops
  <2> QED BY <2>1 DEF Frame
<1>2. t \in 0 .. MaxTime /\ t >= loop.t /\ loop.t \in Int /\ loop.gen \in Nat
  BY <1>1, LoopFacts, SessionAssumption
<1> HIDE DEF t
<1>3. /\ now \in Loops /\ ~now.raf /\ now.t = t
      /\ (now.running <=> loop.running) /\ (now.hidden <=> loop.hidden)
      /\ now.lastTracking = loop.lastTracking /\ now.gen = loop.gen
      /\ now.key = loop.key /\ now.preview = loop.preview
      /\ now.range = loop.range /\ now.rangeMode = loop.rangeMode
      /\ now.comparison = loop.comparison /\ now.plot = loop.plot /\ now.history = loop.history
      /\ (now.overrun <=> loop.overrun)
  BY <1>2, LoopFacts DEF Loops
<1> HIDE DEF now
<1>4. Shown(now, sim)
  <2>1. Loose(now, sim)
    BY <1>3, LoopFacts DEF Loose, OfSim
  <2>2. KeyRight(now, now.plot.samples, now.lastTracking, sim)
        /\ (now.key # None => now.key.gen = now.gen)
    BY <1>3, LoopFacts DEF Shown, KeyRight
  <2>3. TraceRight(now, now.plot.samples, now.lastTracking, now, sim)
    <3> SUFFICES ASSUME NeverThrows(sim), loop.lastTracking \notin {"fixed", Unset}, ~loop.overrun
                 PROVE  /\ Matches(FiniteSamples(loop.history), loop.plot.samples, sim)
                        /\ \A i \in DOMAIN loop.plot.samples : loop.plot.samples[i].t <= t
      BY <1>3 DEF TraceRight
    <3>1. /\ Matches(FiniteSamples(loop.history), loop.plot.samples, sim)
          /\ \A i \in DOMAIN loop.plot.samples : loop.plot.samples[i].t <= loop.t
      BY LoopFacts DEF TraceRight
    <3>2. loop.plot.samples \in Seq(Sample)
      BY LoopFacts DEF Loops, Buffers
    <3>3. ASSUME NEW i \in DOMAIN loop.plot.samples PROVE loop.plot.samples[i].t <= t
      <4>1. loop.plot.samples[i].t \in Int
        BY <3>2, SampleTimes
      <4> QED BY <1>2, <3>1, <4>1
    <3> QED BY <3>1, <3>3
  <2> QED BY <2>1, <2>2, <2>3 DEF Shown
<1>5. CASE t \in sim.faults.bad
  <2>1. loop' = FrameFails(loop, controls)
    BY <1>1, <1>5
  <2>2. /\ Shown(loop', sim) /\ Stopped(loop', loop)
        /\ loop'.t = loop.t /\ loop'.gen = loop.gen /\ loop'.preview = loop.preview
        /\ (loop'.overrun <=> loop.overrun)
    BY <2>1, LoopFacts, FailedShown
  <2>3. Sched(loop')
    BY <2>2, StoppedIsSched
  <2>4. /\ sim' \in Sims /\ controls' \in Controls
        /\ comparing' \in {None} \cup {<<p>> : p \in 1 .. sim'.id}
    BY <1>1, LoopFacts DEF IndInv
  <2>5. IndInv'
    BY <1>1, <1>2, <2>2, <2>3, <2>4, AgingStep
  <2> QED BY <2>2, <2>5
<1>6. CASE t \notin sim.faults.bad
  <2>1. loop' = FrameShows(now, sim, controls)
    BY <1>1, <1>6
  <2>2. /\ Shown(loop', sim)
        /\ loop'.t = now.t /\ loop'.gen \in {now.gen, now.gen + 1}
        /\ (loop'.overrun <=> now.overrun)
        /\ (loop'.running <=> now.running) /\ (loop'.hidden <=> now.hidden)
        /\ (loop'.raf <=> now.raf \/ (now.running /\ ~now.hidden))
        /\ now.key # None /\ controls.tracking = "fixed" /\ controls.plotMode = now.key.mode
             => loop'.preview = now.preview
    BY <1>4, <2>1, LoopFacts, FrameShown
  <2>3. Sched(loop')
    BY <1>3, <2>2 DEF Sched
  <2>4. /\ sim' \in Sims /\ controls' \in Controls
        /\ comparing' \in {None} \cup {<<p>> : p \in 1 .. sim'.id}
    BY <1>1, LoopFacts DEF IndInv
  <2>5. loop'.gen >= loop.gen /\ loop'.t >= loop.t
    BY <1>2, <1>3, <2>2
  <2>6. IndInv'
    BY <1>1, <1>3, <2>2, <2>3, <2>4, <2>5, AgingStep
  <2> QED BY <1>3, <2>2, <2>6
<1> QED BY <1>5, <1>6

LEMMA ToggleStep == ASSUME IndInv, ToggleRunning PROVE IndInv'
<1> DEFINE next == ~loop.running
<1>1. loop' = SetRunning(loop, next) /\ next \in BOOLEAN
  BY LoopFacts DEF ToggleRunning, Loops
<1> HIDE DEF next
<1>2. /\ loop' \in Loops /\ SameShown(loop', loop)
      /\ (loop'.running <=> next) /\ (loop'.hidden <=> loop.hidden)
      /\ next => (loop'.raf <=> loop.raf \/ ~loop.hidden)
      /\ ~next => ~loop'.raf
  BY <1>1, LoopFacts, SetRunningIs
<1>3. Shown(loop', sim)
  BY <1>2, LoopFacts, SameIsShown
<1>4. Sched(loop')
  BY <1>2, LoopFacts DEF Sched
<1>5. /\ loop'.gen = loop.gen /\ loop'.t = loop.t /\ (loop'.overrun <=> loop.overrun)
      /\ loop.gen \in Nat /\ loop.t \in Int
  BY <1>2, LoopFacts, SessionAssumption DEF SameShown
<1>6. /\ sim' = sim /\ sim' \in Sims /\ controls' \in Controls /\ cleared' = Aged
      /\ comparing' \in {None} \cup {<<p>> : p \in 1 .. sim'.id}
  BY LoopFacts DEF IndInv, ToggleRunning
<1> QED BY <1>3, <1>4, <1>5, <1>6, AgingStep

LEMMA VisibilityStep == ASSUME IndInv, VisibilityChange PROVE IndInv'
<1> DEFINE away == [loop EXCEPT !.hidden = TRUE, !.raf = FALSE]
           back == [loop EXCEPT !.hidden = FALSE]
<1>1. loop' = IF loop.hidden THEN RequestFrame(back) ELSE away
  BY DEF VisibilityChange
<1>2. away \in Loops /\ SameShown(away, loop) /\ away.hidden /\ ~away.raf
  BY LoopFacts DEF Loops, SameShown
<1>3. back \in Loops /\ SameShown(back, loop) /\ ~back.hidden
  BY LoopFacts DEF Loops, SameShown
<1> HIDE DEF away, back
<1>4. /\ Shown(loop', sim) /\ Sched(loop') /\ loop'.gen = loop.gen /\ loop'.t = loop.t
      /\ (loop'.overrun <=> loop.overrun)
  <2>1. CASE ~loop.hidden
    <3>1. Shown(away, sim)
      BY <1>2, LoopFacts, SameIsShown
    <3> QED BY <1>1, <1>2, <2>1, <3>1 DEF Sched, SameShown
  <2>2. CASE loop.hidden
    <3>1. Shown(back, sim)
      BY <1>3, LoopFacts, SameIsShown
    <3>2. loop' = RequestFrame(back)
      BY <1>1, <2>2
    <3>3. /\ loop' \in Loops /\ SameShown(loop', back)
          /\ (loop'.hidden <=> back.hidden) /\ (loop'.raf <=> back.raf \/ ~back.hidden)
      BY <1>3, <3>2, RequestFrameIs
    <3>4. Shown(loop', sim)
      BY <3>1, <3>3, SameIsShown
    <3> QED BY <1>3, <3>3, <3>4 DEF Sched, SameShown
  <2> QED BY <2>1, <2>2
<1>5. loop.gen \in Nat /\ loop.t \in Int
  BY LoopFacts, SessionAssumption
<1>6. /\ sim' = sim /\ sim' \in Sims /\ controls' \in Controls /\ cleared' = Aged
      /\ comparing' \in {None} \cup {<<p>> : p \in 1 .. sim'.id}
  BY LoopFacts DEF IndInv, VisibilityChange
<1> QED BY <1>4, <1>5, <1>6, AgingStep

LEMMA SelectStep == ASSUME IndInv, NEW selected \in Controls, Select(selected) PROVE IndInv'
<1>1. loop' = RequestFrame(loop) /\ controls' = selected
      /\ sim' = sim /\ cleared' = cleared /\ comparing' = comparing
  BY DEF Select
<1>2. /\ Shown(loop', sim) /\ Sched(loop') /\ loop'.gen = loop.gen /\ loop'.t = loop.t
      /\ (loop'.overrun <=> loop.overrun)
  BY <1>1, LoopFacts, RequestStep
<1>3. comparing' \in {None} \cup {<<p>> : p \in 1 .. sim.id}
  BY <1>1 DEF IndInv
<1> QED BY <1>1, <1>2, <1>3, KeepingStep

LEMMA ResetStep == ASSUME IndInv, ResetClicked PROVE IndInv'
<1>1. /\ loop' = Reset(loop, sim, controls)
      /\ sim' = sim /\ controls' = controls /\ cleared' = Aged /\ comparing' = comparing
  BY DEF ResetClicked
<1>2. Shown(loop', sim) /\ Stopped(loop', loop) /\ loop'.gen = loop.gen + 1
  BY <1>1, LoopFacts, ResetShown DEF Loose
<1>3. Sched(loop') /\ loop'.gen >= loop.gen /\ loop'.gen # loop.gen
  BY <1>2, LoopFacts, StoppedIsSched
<1>4. /\ sim' \in Sims /\ controls' \in Controls
      /\ comparing' \in {None} \cup {<<p>> : p \in 1 .. sim'.id}
  BY <1>1, LoopFacts DEF IndInv
<1> QED BY <1>1, <1>2, <1>3, <1>4, AgingStep

LEMMA JumpStep == ASSUME IndInv, NEW target \in 0 .. MaxTime, Jump(target) PROVE IndInv'
<1>1. /\ loop' = Seek(loop, sim, controls, target)
      /\ sim' = sim /\ controls' = controls /\ cleared' = Aged /\ comparing' = comparing
  BY DEF Jump
<1>2. Shown(loop', sim) /\ Stopped(loop', loop) /\ loop'.gen = loop.gen + 1
  BY <1>1, LoopFacts, SeekShown
<1>3. Sched(loop') /\ loop'.gen >= loop.gen /\ loop'.gen # loop.gen
  BY <1>2, LoopFacts, StoppedIsSched
<1>4. /\ sim' \in Sims /\ controls' \in Controls
      /\ comparing' \in {None} \cup {<<p>> : p \in 1 .. sim'.id}
  BY <1>1, LoopFacts DEF IndInv
<1> QED BY <1>1, <1>2, <1>3, <1>4, AgingStep

LEMMA ScenarioStep ==
    ASSUME IndInv, NEW faults \in Faults, NEW changes \in BOOLEAN, ApplyScenario(faults, changes)
    PROVE  IndInv'
<1> DEFINE next == [id |-> sim.id + 1, faults |-> faults, params |-> sim.id + 1]
           dropped == [loop EXCEPT !.comparison = None]
           reset == Reset(dropped, next, controls)
           late == SamplingThrows(next, controls, 0)
           ended == IF late THEN [reset EXCEPT !.comparison = loop.comparison] ELSE reset
<1>1. /\ loop' = IF changes THEN RequestFrame(ended) ELSE ended
      /\ sim' = IF late THEN [next EXCEPT !.params = sim.params] ELSE next
      /\ sim.id < MaxRuntime
      /\ controls' = controls /\ cleared' = Aged /\ comparing' = comparing
  BY DEF ApplyScenario
<1>2. next \in Sims /\ sim' \in Sims /\ sim'.id = sim.id + 1 /\ sim.id \in 1 .. MaxRuntime
  <2>1. /\ sim.id \in 1 .. MaxRuntime /\ sim.params \in 1 .. MaxRuntime /\ sim.params <= sim.id
        /\ faults \in AnyFaults
    BY LoopFacts DEF Sims, AnyFaults
  <2>2. sim.id + 1 \in 1 .. MaxRuntime /\ sim.params <= sim.id + 1
    BY <1>1, <2>1, SessionAssumption
  <2>3. next \in Sims /\ [next EXCEPT !.params = sim.params] \in Sims
    BY <2>1, <2>2, SessionAssumption DEF Sims
  <2> QED BY <1>1, <2>1, <2>3
<1>3. dropped \in Loops /\ dropped.comparison = None /\ dropped.gen = loop.gen
  BY LoopFacts DEF Loops
<1>4. late => ~NeverThrows(next)
  BY DEF SamplingThrows, NeverThrows
<1>5. late => next.id = sim'.id /\ next.faults = sim'.faults /\ sim'.params = sim.params
  BY <1>1
<1>6. ~late => sim' = next
  BY <1>1
<1> HIDE DEF dropped, next
<1>7. /\ Shown(reset, next) /\ Stopped(reset, dropped) /\ reset.gen = loop.gen + 1
      /\ late => reset.key = None
  BY <1>2, <1>3, LoopFacts, ResetShown
<1> HIDE DEF reset, late
<1>8. Shown(ended, sim') /\ Sched(ended) /\ ended.gen = loop.gen + 1
  <2>1. CASE ~late
    BY <1>6, <1>7, <2>1, StoppedIsSched
  <2>2. CASE late
    <3> DEFINE r == [reset EXCEPT !.comparison = loop.comparison]
    <3>1. ended = r
      BY <2>2
    <3>2. reset \in Loops /\ loop.comparison \in {None} \cup [of : Nat, radius : BOOLEAN]
          /\ (loop.comparison # None => loop.comparison.of = sim.params)
      BY <1>7, LoopFacts DEF Shown, Loose, Loops
    <3>3. /\ r \in Loops /\ SameSched(r, reset) /\ r.comparison = loop.comparison
          /\ r.gen = reset.gen /\ r.key = None /\ r.preview = reset.preview
          /\ r.range = reset.range /\ r.rangeMode = reset.rangeMode
          /\ r.plot = reset.plot /\ r.history = reset.history
      BY <1>7, <2>2, <3>2 DEF Loops, SameSched
    <3> HIDE DEF r, ended
    <3>4. Loose(r, sim')
      BY <1>5, <1>7, <2>2, <3>2, <3>3 DEF Shown, Loose, OfSim
    <3>5. ~NeverThrows(sim')
      BY <1>4, <1>5, <2>2 DEF NeverThrows
    <3>6. Shown(r, sim')
      BY <3>3, <3>4, <3>5 DEF Shown, KeyRight, TraceRight
    <3>7. Sched(r)
      BY <1>7, <3>3 DEF Sched, Stopped, SameSched
    <3> QED BY <1>7, <3>1, <3>3, <3>6, <3>7
  <2> QED BY <2>1, <2>2
<1> HIDE DEF ended
<1>9. Shown(loop', sim') /\ Sched(loop') /\ loop'.gen = loop.gen + 1
  <2>1. CASE changes
    BY <1>1, <1>8, <2>1, RequestStep
  <2>2. CASE ~changes
    BY <1>1, <1>8, <2>2
  <2> QED BY <2>1, <2>2
<1>10. loop'.gen >= loop.gen /\ loop'.gen # loop.gen
  BY <1>9, LoopFacts
<1>11. /\ controls' \in Controls
       /\ comparing' \in {None} \cup {<<p>> : p \in 1 .. sim'.id}
  <2>1. 1 .. sim.id \subseteq 1 .. sim'.id
    BY <1>2
  <2> QED BY <1>1, <2>1, LoopFacts DEF IndInv
<1> QED BY <1>1, <1>2, <1>9, <1>10, <1>11, AgingStep

LEMMA RuntimeStep ==
    ASSUME IndInv, NEW faults \in Faults, RebuildRuntime(faults)
    PROVE  IndInv'
<1> DEFINE reset == Reset(loop, sim', controls)
<1>1. /\ loop' = RequestFrame(reset)
      /\ sim' = [sim EXCEPT !.id = sim.id + 1, !.faults = faults] /\ sim.id < MaxRuntime
      /\ controls' = controls /\ cleared' = Aged /\ comparing' = comparing
  BY DEF RebuildRuntime
<1>2. /\ sim' \in Sims /\ sim'.id = sim.id + 1 /\ sim'.params = sim.params
      /\ sim.id \in 1 .. MaxRuntime
  <2>1. /\ sim \in [id : 1 .. MaxRuntime, faults : AnyFaults, params : 1 .. MaxRuntime]
        /\ sim.params <= sim.id
    BY LoopFacts DEF Sims
  <2>2. /\ sim.id \in 1 .. MaxRuntime /\ sim.params \in 1 .. MaxRuntime
        /\ sim.id + 1 \in 1 .. MaxRuntime /\ faults \in AnyFaults
    BY <1>1, <2>1, SessionAssumption DEF AnyFaults
  <2>3. /\ sim' \in [id : 1 .. MaxRuntime, faults : AnyFaults, params : 1 .. MaxRuntime]
        /\ sim'.id = sim.id + 1 /\ sim'.params = sim.params
    BY <1>1, <2>1, <2>2
  <2>4. sim'.params <= sim'.id
    BY <2>1, <2>2, <2>3
  <2> QED BY <2>2, <2>3, <2>4 DEF Sims
<1>3. Shown(reset, sim') /\ Stopped(reset, loop) /\ reset.gen = loop.gen + 1
  <2>1. loop.comparison # None => loop.comparison.of = sim'.params
    BY <1>2, LoopFacts DEF Loose
  <2> QED BY <1>2, <2>1, LoopFacts, ResetShown
<1> HIDE DEF reset
<1>4. Sched(reset)
  BY <1>3, StoppedIsSched
<1>5. Shown(loop', sim') /\ Sched(loop') /\ loop'.gen = loop.gen + 1
  BY <1>1, <1>3, <1>4, RequestStep
<1>6. loop'.gen >= loop.gen /\ loop'.gen # loop.gen
  BY <1>5, LoopFacts
<1>7. /\ controls' \in Controls
      /\ comparing' \in {None} \cup {<<p>> : p \in 1 .. sim'.id}
  <2>1. 1 .. sim.id \subseteq 1 .. sim'.id
    BY <1>2
  <2> QED BY <1>1, <2>1, LoopFacts DEF IndInv
<1> QED BY <1>1, <1>2, <1>5, <1>6, <1>7, AgingStep

LEMMA ClearStep == ASSUME IndInv, ClearLightCurve PROVE IndInv'
<1>1. /\ Shown(loop', sim) /\ loop'.gen = loop.gen + 1 /\ loop'.t = loop.t
      /\ (loop'.running <=> loop.running) /\ (loop'.hidden <=> loop.hidden)
      /\ (loop'.raf <=> loop.raf \/ ~loop.hidden)
      /\ Kept(cleared', loop', sim)
  BY LoopFacts, ClearShown DEF ClearLightCurve
<1>2. Sched(loop') /\ loop'.gen >= 1
  BY <1>1, LoopFacts DEF Sched, IndInv
<1>3. sim' = sim /\ controls' = controls /\ comparing' = comparing
  BY DEF ClearLightCurve
<1> QED BY <1>1, <1>2, <1>3 DEF IndInv, ClearedRight

LEMMA UndoStep == ASSUME IndInv, UndoClear PROVE IndInv'
<1>1. /\ cleared # None /\ cleared' = None
      /\ loop' = IF cleared.gen # loop.gen THEN loop
                 ELSE RequestFrame(Restored(loop, cleared, loop.gen))
      /\ sim' = sim /\ controls' = controls /\ comparing' = comparing
  BY DEF UndoClear
<1>2. controls' \in Controls /\ comparing' \in {None} \cup {<<p>> : p \in 1 .. sim.id}
  BY <1>1 DEF IndInv
<1>3. /\ Shown(loop', sim) /\ Sched(loop') /\ loop'.gen = loop.gen /\ loop'.t = loop.t
      /\ (loop'.overrun <=> loop.overrun)
  <2>1. CASE cleared.gen # loop.gen
    BY <1>1, <2>1, LoopFacts
  <2>2. CASE cleared.gen = loop.gen
    <3> DEFINE restored == Restored(loop, cleared, loop.gen)
    <3>1. cleared # Expired
      BY <2>2 DEF IndInv, Expired
    <3>2. Kept(cleared, loop, sim)
      BY <1>1, <3>1 DEF IndInv, ClearedRight
    <3>3. /\ Shown(restored, sim) /\ SameSched(restored, loop)
          /\ restored.gen = loop.gen /\ restored.t = loop.t
          /\ (restored.overrun <=> loop.overrun)
      BY <3>2, LoopFacts, RestoredShown
    <3> HIDE DEF restored
    <3>4. Sched(restored)
      BY <3>3, LoopFacts DEF Sched, SameSched
    <3>5. loop' = RequestFrame(restored)
      BY <1>1, <2>2 DEF restored
    <3> QED BY <3>3, <3>4, <3>5, RequestStep
  <2> QED BY <2>1, <2>2
<1> QED BY <1>1, <1>2, <1>3, KeepingStep

\* A comparison that is set or cleared drops the y-range, and the preview.
LEMMA ComparedShown ==
    ASSUME NEW l, NEW s, Shown(l, s),
           NEW comparison \in {None} \cup [of : Nat, radius : BOOLEAN],
           comparison # None => comparison.of = s.params
    PROVE  LET r == InvalidatePreview([l EXCEPT !.comparison = comparison, !.range = None])
           IN  Shown(r, s) /\ SameSched(r, l) /\ r.gen = l.gen + 1
<1> DEFINE set == [l EXCEPT !.comparison = comparison, !.range = None]
           r == InvalidatePreview(set)
<1>1. /\ set \in Loops /\ SameSched(set, l) /\ set.comparison = comparison /\ set.range = None
      /\ set.t = l.t /\ set.gen = l.gen /\ set.lastTracking = l.lastTracking
      /\ set.key = l.key /\ set.preview = l.preview
      /\ set.plot = l.plot /\ set.history = l.history /\ (set.overrun <=> l.overrun)
  <2>1. None \in Ranges /\ l \in Loops
    BY DEF Ranges, Shown, Loose
  <2> QED BY <2>1 DEF Loops, SameSched
<1> HIDE DEF set
<1>2. Loose(set, s)
  BY <1>1 DEF Shown, Loose, OfSim
<1>3. TraceRight(set, set.plot.samples, set.lastTracking, set, s)
  BY <1>1 DEF Shown, TraceRight
<1>4. Shown(r, s)
  BY <1>2, <1>3, InvalidateShown
<1>5. SameSched(r, set) /\ r.gen = set.gen + 1
  BY <1>1, InvalidateIs
<1> QED BY <1>1, <1>4, <1>5 DEF SameSched, set

LEMMA PublishShown ==
    ASSUME IndInv, NEW target \in 0 .. MaxTime, Publish(sim.params, target)
    PROVE  /\ controls' \in Controls
           /\ Shown(loop', sim) /\ Sched(loop') /\ loop'.gen = loop.gen + 2
<1> DEFINE fixed == [controls EXCEPT !.tracking = "fixed"]
           comparison == [of |-> sim.params, radius |-> TRUE]
           invalid == InvalidatePreview([loop EXCEPT !.comparison = comparison, !.range = None])
           noted == RequestFrame(invalid)
           stopped == SetRunning(noted, FALSE)
           sought == Seek(stopped, sim, fixed, target)
<1>1. controls' = fixed /\ loop' = RequestFrame(sought)
  BY DEF Publish
<1>2. fixed \in Controls
  BY LoopFacts, SessionAssumption DEF Controls
<1>3. /\ comparison \in {None} \cup [of : Nat, radius : BOOLEAN]
      /\ comparison # None => comparison.of = sim.params
  BY LoopFacts, SessionAssumption DEF Sims
<1> HIDE DEF fixed, comparison
<1>4. Shown(invalid, sim) /\ invalid.gen = loop.gen + 1
  BY <1>3, LoopFacts, ComparedShown
<1> HIDE DEF invalid
<1>5. noted \in Loops /\ SameShown(noted, invalid) /\ Shown(noted, sim) /\ noted.gen = loop.gen + 1
  BY <1>4, RequestFrameIs, SameIsShown DEF Shown, Loose, SameShown
<1> HIDE DEF noted
<1>6. stopped \in Loops /\ SameShown(stopped, noted)
  BY <1>5, SetRunningIs
<1>7. Shown(stopped, sim) /\ stopped.gen = loop.gen + 1
  BY <1>5, <1>6, SameIsShown DEF SameShown
<1> HIDE DEF stopped
<1>8. Shown(sought, sim) /\ Stopped(sought, stopped) /\ sought.gen = loop.gen + 1 + 1
  BY <1>2, <1>7, LoopFacts, SeekShown DEF Shown
<1> HIDE DEF sought
<1>9. Shown(loop', sim) /\ Sched(loop') /\ loop'.gen = loop.gen + 1 + 1
  BY <1>1, <1>8, StoppedIsSched, RequestStep
<1>10. loop.gen + 1 + 1 = loop.gen + 2
  BY LoopFacts
<1> QED BY <1>1, <1>2, <1>9, <1>10

LEMMA CompareStep ==
    ASSUME IndInv, NEW target \in 0 .. MaxTime, NEW computed \in BOOLEAN,
           CompareEnds(target, computed)
    PROVE  IndInv'
<1>1. sim' = sim /\ sim' \in Sims /\ comparing' = None /\ cleared' = Aged
  BY LoopFacts DEF CompareEnds
<1>2. loop.gen \in Nat /\ loop.t \in Int
  BY LoopFacts, SessionAssumption
<1>3. CASE comparing = <<sim.params>> /\ computed
  <2>1. Publish(sim.params, target)
    BY <1>3 DEF CompareEnds
  <2>2. /\ controls' \in Controls
        /\ Shown(loop', sim) /\ Sched(loop') /\ loop'.gen = loop.gen + 2
    BY <2>1, PublishShown
  <2>3. loop'.gen >= loop.gen /\ loop'.gen # loop.gen
    BY <1>2, <2>2
  <2> QED BY <1>1, <2>2, <2>3, AgingStep
<1>4. CASE ~(comparing = <<sim.params>> /\ computed)
  <2>1. loop' = loop /\ controls' = controls
    BY <1>4 DEF CompareEnds
  <2> QED BY <1>1, <1>2, <2>1, LoopFacts, AgingStep
<1> QED BY <1>3, <1>4

LEMMA ClearComparisonStep == ASSUME IndInv, ClearComparison PROVE IndInv'
<1> DEFINE invalid == InvalidatePreview([loop EXCEPT !.comparison = None, !.range = None])
<1>1. /\ loop' = Seek(invalid, sim, controls, loop.t)
      /\ sim' = sim /\ controls' = controls /\ cleared' = Aged /\ comparing' = comparing
  BY DEF ClearComparison
<1>2. Shown(invalid, sim) /\ invalid.gen = loop.gen + 1
  BY LoopFacts, ComparedShown
<1> HIDE DEF invalid
<1>3. Shown(loop', sim) /\ Stopped(loop', invalid) /\ loop'.gen = loop.gen + 1 + 1
  BY <1>1, <1>2, LoopFacts, SeekShown DEF Shown
<1>4. Sched(loop') /\ loop'.gen >= loop.gen /\ loop'.gen # loop.gen
  BY <1>3, LoopFacts, StoppedIsSched
<1>5. /\ sim' \in Sims /\ controls' \in Controls
      /\ comparing' \in {None} \cup {<<p>> : p \in 1 .. sim'.id}
  BY <1>1, LoopFacts DEF IndInv
<1> QED BY <1>1, <1>3, <1>4, <1>5, AgingStep

LEMMA DidacticStep == ASSUME IndInv, DidacticCompare PROVE IndInv'
<1> DEFINE comparison == [of |-> sim.params, radius |-> FALSE]
           set == [loop EXCEPT !.comparison = comparison]
<1>1. /\ loop' = RequestFrame(set)
      /\ sim' = sim /\ controls' = controls /\ cleared' = Aged /\ comparing' = comparing
  BY DEF DidacticCompare
<1>2. comparison \in [of : Nat, radius : BOOLEAN] /\ comparison.of = sim.params
  BY LoopFacts, SessionAssumption DEF Sims
<1> HIDE DEF comparison
<1>3. /\ set \in Loops /\ SameSched(set, loop) /\ set.comparison = comparison
      /\ set.t = loop.t /\ set.gen = loop.gen /\ set.lastTracking = loop.lastTracking
      /\ set.key = loop.key /\ set.preview = loop.preview
      /\ set.range = loop.range /\ set.rangeMode = loop.rangeMode
      /\ set.plot = loop.plot /\ set.history = loop.history /\ (set.overrun <=> loop.overrun)
  BY <1>2, LoopFacts DEF Loops, SameSched
<1> HIDE DEF set
<1>4. Loose(set, sim)
  BY <1>2, <1>3, LoopFacts DEF Loose, OfSim
<1>5. KeyRight(set, set.plot.samples, set.lastTracking, sim)
      /\ (set.key # None => set.key.gen = set.gen)
  BY <1>3, LoopFacts DEF Shown, KeyRight
<1>6. TraceRight(set, set.plot.samples, set.lastTracking, set, sim)
  BY <1>3, LoopFacts DEF TraceRight
<1>7. Shown(set, sim) /\ Sched(set)
  BY <1>3, <1>4, <1>5, <1>6, LoopFacts DEF Shown, Sched, SameSched
<1>8. /\ Shown(loop', sim) /\ Sched(loop') /\ loop'.gen = set.gen /\ loop'.t = set.t
      /\ (loop'.overrun <=> set.overrun)
  BY <1>1, <1>7, RequestStep
<1>9. loop'.gen >= loop.gen /\ loop'.t >= loop.t /\ (loop'.overrun <=> loop.overrun)
  BY <1>3, <1>8, LoopFacts, SessionAssumption
<1>10. /\ sim' \in Sims /\ controls' \in Controls
       /\ comparing' \in {None} \cup {<<p>> : p \in 1 .. sim'.id}
  BY <1>1, LoopFacts DEF IndInv
<1> QED BY <1>1, <1>8, <1>9, <1>10, AgingStep

LEMMA StepRight == IndInv /\ [Next]_vars => IndInv'
<1> SUFFICES ASSUME IndInv, [Next]_vars PROVE IndInv'
  OBVIOUS
<1>1. ASSUME NEW dt \in 0 .. 1, Frame(dt) PROVE IndInv'
  BY <1>1, FrameStep
<1>2. CASE ToggleRunning
  BY <1>2, ToggleStep
<1>3. CASE VisibilityChange
  BY <1>3, VisibilityStep
<1>4. ASSUME NEW tracking \in Trackings, SelectTracking(tracking) PROVE IndInv'
  <2>1. [controls EXCEPT !.tracking = tracking] \in Controls
    BY LoopFacts DEF Controls
  <2> QED BY <1>4, <2>1, SelectStep DEF SelectTracking
<1>5. ASSUME NEW mode \in PlotModes, SelectPlotMode(mode) PROVE IndInv'
  <2>1. [controls EXCEPT !.plotMode = mode] \in Controls
    BY LoopFacts DEF Controls
  <2> QED BY <1>5, <2>1, SelectStep DEF SelectPlotMode
<1>6. CASE ResetClicked
  BY <1>6, ResetStep
<1>7. ASSUME NEW target \in 0 .. MaxTime, Jump(target) PROVE IndInv'
  BY <1>7, JumpStep
<1>8. ASSUME NEW faults \in Faults, NEW changes \in BOOLEAN, ApplyScenario(faults, changes)
      PROVE  IndInv'
  BY <1>8, ScenarioStep
<1>9. ASSUME NEW faults \in Faults, RebuildRuntime(faults) PROVE IndInv'
  BY <1>9, RuntimeStep
<1>10. CASE ClearLightCurve
  BY <1>10, ClearStep
<1>11. CASE UndoClear
  BY <1>11, UndoStep
<1>12. CASE CompareBegins
  <2>1. /\ loop' = loop /\ sim' = sim /\ controls' = controls /\ cleared' = cleared
        /\ comparing' = <<sim.params>>
    BY <1>12 DEF CompareBegins
  <2>2. sim.params \in 1 .. sim.id
    BY LoopFacts, SessionAssumption DEF Sims
  <2> QED BY <2>1, <2>2, LoopFacts, KeepingStep
<1>13. ASSUME NEW target \in 0 .. MaxTime, NEW computed \in BOOLEAN, CompareEnds(target, computed)
       PROVE  IndInv'
  BY <1>13, CompareStep
<1>14. CASE ClearComparison
  BY <1>14, ClearComparisonStep
<1>15. CASE DidacticCompare
  BY <1>15, DidacticStep
<1>16. CASE UNCHANGED vars
  BY <1>16 DEF vars, IndInv, ClearedRight, Kept, TraceRight
<1> QED BY <1>1, <1>2, <1>3, <1>4, <1>5, <1>6, <1>7, <1>8, <1>9, <1>10, <1>11, <1>12, <1>13,
           <1>14, <1>15, <1>16 DEF Next

-----------------------------------------------------------------------------
(* The theorems.                                                           *)

\* The inductive invariant holds in every reachable state: whatever the user and
\* the page do, the caches, the key, the trace and the snapshot of Clear fit what
\* the loop shows (frameLoop.ts, frameLoopResetSeek.ts, lightCurveActions.ts).
THEOREM InvariantHolds == Spec => []IndInv
<1>1. IndInv /\ [Next]_vars => IndInv'
  BY StepRight
<1> QED BY <1>1, InitRight, PTL DEF Spec

\* The state keeps its type: the simulated clock stays in its range and neither
\* the trace nor the histories outgrow their capacity.
THEOREM TypeCorrect == Spec => []TypeOK
<1>1. IndInv => TypeOK
  <2> SUFFICES ASSUME IndInv PROVE TypeOK
    OBVIOUS
  <2>1. /\ loop.t \in 0 .. MaxTime /\ {loop.running, loop.hidden, loop.raf} \subseteq BOOLEAN
        /\ loop.lastT \subseteq 0 .. MaxTime
        /\ loop.lastTracking \in Trackings \cup {Unset} /\ loop.gen \in Nat
    BY LoopFacts DEF Loops
  <2>2. {loop.lastMode, loop.rangeMode} \subseteq PlotModes \cup {Unset}
    BY LoopFacts DEF Loops, Modes
  <2>3. /\ loop.plot.samples \in Seq(Sample) /\ Len(loop.plot.samples) <= Capacity
        /\ loop.history \in Seq(Sample) /\ Len(loop.history) <= Capacity
    BY LoopFacts DEF Loose, Loops, Buffer, Buffers
  <2>4. \A trace \in {loop.plot.samples, loop.history} :
           Len(trace) <= Capacity /\ \A i \in DOMAIN trace : trace[i] \in Sample
    BY <2>3
  <2>5. /\ sim.id \in 1 .. MaxRuntime /\ sim.params \in 1 .. sim.id
        /\ sim.faults \in Faults \cup {NoFaults} /\ loop.overrun \in BOOLEAN
    BY LoopFacts, SessionAssumption DEF Sims, AnyFaults, Loops
  <2>6. controls \in [tracking : Trackings, plotMode : PlotModes]
    BY LoopFacts DEF Controls
  <2>7. comparing \in {None} \cup {<<p>> : p \in 1 .. sim.id}
    BY DEF IndInv
  <2> QED BY <2>1, <2>2, <2>4, <2>5, <2>6, <2>7 DEF TypeOK
<1> QED BY <1>1, InvariantHolds, PTL

\* The buffer, with its lazy compaction and its stale caches, is at every point
\* the bounded ordered sequence that lightCurvePlotBuffer.ts documents, and so it
\* is after the next sample at any time.
THEOREM BufferIsReference == Spec => []BufferMatchesReference
<1>1. IndInv => BufferMatchesReference
  <2> SUFFICES ASSUME IndInv PROVE BufferMatchesReference
    OBVIOUS
  <2>1. Buffer(loop.plot)
    BY LoopFacts DEF Loose
  <2>2. CachesAgree(loop.plot)
    BY <2>1, CachesRight DEF Buffer
  <2>3. ASSUME NEW t \in 0 .. MaxTime
        PROVE  LET sample == [t |-> t, of |-> sim.id, mode |-> controls.plotMode, finite |-> TRUE]
               IN  /\ Push(loop.plot, sample).samples = AbstractPush(loop.plot.samples, sample)
                   /\ CachesAgree(Push(loop.plot, sample))
    <3> DEFINE sample == [t |-> t, of |-> sim.id, mode |-> controls.plotMode, finite |-> TRUE]
    <3>1. sample \in Sample
      BY LoopFacts, SessionAssumption DEF Sample, Sims, Controls
    <3> HIDE DEF sample
    <3>2. /\ Buffer(Push(loop.plot, sample))
          /\ Push(loop.plot, sample).samples = AbstractPush(loop.plot.samples, sample)
      BY <2>1, <3>1, PushIs
    <3>3. CachesAgree(Push(loop.plot, sample))
      BY <3>2, CachesRight DEF Buffer
    <3> QED BY <3>2, <3>3 DEF sample
  <2> QED BY <2>2, <2>3 DEF BufferMatchesReference
<1> QED BY <1>1, InvariantHolds, PTL

\* No sample, preview, y-range or comparison of a runtime that was replaced is
\* shown, and none comes back with Undo clear.
THEOREM TraceIsOfRuntime == Spec => []TraceOfRuntime
<1>1. IndInv => TraceOfRuntime
  <2> SUFFICES ASSUME IndInv PROVE TraceOfRuntime
    OBVIOUS
  <2>1. OfSim(loop, loop.plot.samples, sim) /\ (loop.comparison # None => loop.comparison.of = sim.params)
    BY LoopFacts DEF Loose
  <2>2. \A kept \in {loop.key, loop.preview, loop.range} \ {None} : kept.of = sim.id
    BY <2>1 DEF OfSim
  <2> QED BY <2>1, <2>2 DEF OfSim, TraceOfRuntime
<1> QED BY <1>1, InvariantHolds, PTL

\* With a runtime that does not throw, and unless a seek back into a gap has left
\* later samples in it, the dynamic or live trace is the end of what the overlay
\* histories hold outside the gaps: through frames in and out of gaps, seeks,
\* resets, trims, changes of tracking and Undo clear.
THEOREM TraceIsTheirEnd == Spec => []TraceEndsHistories
<1>1. IndInv => TraceEndsHistories
  <2> DEFINE trace == loop.plot.samples
             finite == FiniteSamples(loop.history)
             shorter == Min({Len(trace), Len(finite)})
             reach == IF sim.faults.gaps = {} THEN Len(trace) ELSE shorter
  <2> SUFFICES ASSUME IndInv, sim.faults.bad \cup sim.faults.smeared = {},
                      loop.lastTracking \notin {"fixed", Unset}, ~loop.overrun
               PROVE  LastN(finite, reach) = LastN(trace, reach)
    BY DEF TraceEndsHistories
  <2>1. Matches(finite, trace, sim)
    BY LoopFacts DEF TraceRight, NeverThrows
  <2>2. trace \in Seq(Sample) /\ finite \in Seq(Sample) /\ Len(trace) \in Nat /\ Len(finite) \in Nat
    BY LoopFacts, FiniteType DEF Loops, Buffers
  <2>3. shorter = IF Len(trace) <= Len(finite) THEN Len(trace) ELSE Len(finite)
    BY <2>2, MinOfTwo
  <2> HIDE DEF trace, finite, shorter
  <2>4. CASE Ends(finite, trace)
    <3>1. Len(trace) <= Len(finite) /\ reach = Len(trace)
      BY <2>3, <2>4 DEF Ends
    <3>2. LastN(finite, Len(trace)) = trace
      BY <2>2, <2>4, EndsIsLastN
    <3>3. LastN(trace, Len(trace)) = trace
      BY <2>2, LastNWhole
    <3> QED BY <3>1, <3>2, <3>3
  <2>5. CASE sim.faults.gaps # {} /\ Ends(trace, finite)
    <3>1. Len(finite) <= Len(trace)
      BY <2>5 DEF Ends
    <3>2. reach = Len(finite)
      BY <2>2, <2>3, <2>5, <3>1
    <3>3. LastN(trace, Len(finite)) = finite
      BY <2>2, <2>5, EndsIsLastN
    <3>4. LastN(finite, Len(finite)) = finite
      BY <2>2, LastNWhole
    <3> QED BY <3>2, <3>3, <3>4
  <2> QED BY <2>1, <2>4, <2>5 DEF Matches
<1> QED BY <1>1, InvariantHolds, PTL

\* The key of the cached preview always describes the plot, the y-range and the
\* presentation beside it, also after an Undo clear has renewed it.
THEOREM KeyIsHonest == Spec => []KeyDescribesPlot
<1>1. IndInv => KeyDescribesPlot
  <2> SUFFICES ASSUME IndInv, loop.key # None
               PROVE  /\ loop.key.gen = loop.gen
                      /\ \E focused \in BOOLEAN :
                           loop.plot.samples = PreviewSamples(sim, loop.key.mode, focused)
                      /\ loop.range = None => loop.plot.samples = <<>>
                      /\ loop.range # None => {loop.range.mode, loop.rangeMode} = {loop.key.mode}
                      /\ loop.preview # None /\ loop.preview.mode = loop.key.mode
    BY DEF KeyDescribesPlot
  <2>1. KeyRight(loop, loop.plot.samples, loop.lastTracking, sim) /\ loop.key.gen = loop.gen
    BY LoopFacts DEF Shown
  <2> QED BY <2>1 DEF KeyRight
<1> QED BY <1>1, InvariantHolds, PTL

\* While the simulation runs on a visible page a frame is requested, and on a
\* hidden page none is.
THEOREM FrameIsRequested == Spec => []FrameRequested
<1>1. IndInv => FrameRequested
  BY LoopFacts DEF Sched, FrameRequested
<1> QED BY <1>1, InvariantHolds, PTL

\* A frame with the settings of the cached preview does not build another one.
THEOREM PreviewIsKept == Spec => UnchangedFramesKeepPreview
<1>1. IndInv /\ [Next]_vars =>
        [(\E dt \in 0 .. 1 : Frame(dt))
           => (loop.key # None /\ controls.tracking = "fixed" /\ controls.plotMode = loop.key.mode
               => loop'.preview = loop.preview)]_vars
  BY FrameStep
<1> QED BY <1>1, InvariantHolds, PTL DEF Spec, UnchangedFramesKeepPreview
=============================================================================
