------------------------- MODULE ArtifactCacheProofs -------------------------
(***************************************************************************)
(* Proofs about ArtifactCache for every set of workers, readers and        *)
(* temporaries, every finite set of artifacts and every limit.             *)
(*                                                                         *)
(* The first part is about sums over finite sets, which the quota is       *)
(* stated with: the induction they need is written with a set, as the      *)
(* library's induction theorems have an operator as a parameter.  The      *)
(* second part is the inductive invariant of the directory.                *)
(***************************************************************************)
EXTENDS ArtifactCache, FiniteSetTheorems, WellFoundedInduction, TLAPS

(* Sums over finite sets.                                                  *)

\* What holds of every set whose strict subsets it holds of, holds of every
\* subset of a finite set.
LEMMA SubsetInduction ==
    ASSUME NEW S, IsFiniteSet(S), NEW Good,
           ASSUME NEW u \in SUBSET S, \A v \in SUBSET u : v # u => v \in Good
           PROVE  u \in Good
    PROVE  SUBSET S \subseteq Good
<1> DEFINE Bad == (SUBSET S) \ Good
<1>1. IsWellFoundedOn(StrictSubsetOrdering(S), SUBSET S)
  BY FS_StrictSubsetOrderingWellFounded, FS_FiniteSubsetsOfFinite
<1>2. SUFFICES ASSUME Bad # {} PROVE FALSE
  OBVIOUS
<1>3. \E u \in Bad : \A v \in Bad : <<v, u>> \notin StrictSubsetOrdering(S)
  <2> HIDE DEF Bad
  <2>1. Bad \subseteq SUBSET S
    BY DEF Bad
  <2> QED BY <1>1, <1>2, <2>1, WFMin
<1>4. PICK u \in Bad : \A v \in Bad : <<v, u>> \notin StrictSubsetOrdering(S)
  BY <1>3
<1>5. \A v \in SUBSET u : v # u => v \in Good
  BY <1>4 DEF StrictSubsetOrdering
<1> QED BY <1>4, <1>5

First(s) == CHOOSE x \in s : TRUE

\* g is the sum of f over each subset of S, as MapThenFoldSet computes it.
IsSum(g, f, S) ==
    g = [s \in SUBSET S |-> IF s = {} THEN 0 ELSE f[First(s)] + g[s \ {First(s)}]]

SumOver(f, S) == (CHOOSE g : IsSum(g, f, S))[S]

LEMMA FirstIn == ASSUME NEW s, s # {} PROVE First(s) \in s
BY DEF First

LEMMA SumEmpty ==
    ASSUME NEW S, NEW f, NEW g, IsSum(g, f, S)
    PROVE  g[{}] = 0
BY DEF IsSum

LEMMA SumAt ==
    ASSUME NEW S, NEW f, NEW g, IsSum(g, f, S), NEW s \in SUBSET S, s # {}
    PROVE  g[s] = f[First(s)] + g[s \ {First(s)}]
BY DEF IsSum

\* Two such functions agree where both are defined.
LEMMA SumUnique ==
    ASSUME NEW S, IsFiniteSet(S), NEW T, NEW f, NEW g, NEW h,
           IsSum(g, f, S), IsSum(h, f, T), NEW u \in SUBSET S, u \subseteq T
    PROVE  g[u] = h[u]
<1> DEFINE Good == {v \in SUBSET S : v \subseteq T => g[v] = h[v]}
<1>1. ASSUME NEW v \in SUBSET S, \A w \in SUBSET v : w # v => w \in Good
      PROVE  v \in Good
  <2> DEFINE w == v \ {First(v)}
  <2> SUFFICES ASSUME v \subseteq T PROVE g[v] = h[v]
    OBVIOUS
  <2>1. CASE v = {}
    BY <2>1, SumEmpty
  <2>2. CASE v # {}
    <3>1. w \in SUBSET v /\ w # v
      BY <2>2, FirstIn
    <3>2. g[w] = h[w]
      BY <1>1, <3>1
    <3>3. g[v] = f[First(v)] + g[w]
      BY <2>2, SumAt
    <3>4. v \in SUBSET T
      OBVIOUS
    <3>5. h[v] = f[First(v)] + h[w]
      BY <2>2, <3>4, SumAt
    <3> QED BY <3>2, <3>3, <3>5
  <2> QED BY <2>1, <2>2
<1>2. SUBSET S \subseteq Good
  <2> HIDE DEF Good
  <2> QED BY <1>1, SubsetInduction
<1> QED BY <1>2

\* The recursion of MapThenFoldSet does define a function.
LEMMA SumExists ==
    ASSUME NEW S, IsFiniteSet(S), NEW f
    PROVE  \E g : IsSum(g, f, S)
<1> DEFINE Good == {v \in SUBSET S : \E g : IsSum(g, f, v)}
<1>1. ASSUME NEW u \in SUBSET S, \A v \in SUBSET u : v # u => v \in Good
      PROVE  u \in Good
  <2> DEFINE Below(v) == CHOOSE g : IsSum(g, f, v)
             h == [s \in SUBSET u |-> IF s = {} THEN 0
                                      ELSE f[First(s)] + Below(s \ {First(s)})[s \ {First(s)}]]
  <2>1. \A v \in SUBSET u : v # u => IsSum(Below(v), f, v)
    BY <1>1
  <2> HIDE DEF Below, Good
  <2>2. ASSUME NEW v \in SUBSET u, v # u PROVE h[v] = Below(v)[v]
    <3>1. CASE v = {}
      BY <3>1, <2>1, <2>2, SumEmpty
    <3>2. CASE v # {}
      <4> DEFINE w == v \ {First(v)}
      <4>1. w \in SUBSET v /\ w \in SUBSET u /\ w # u
        BY <2>2, <3>2, FirstIn
      <4>2. IsFiniteSet(v) /\ IsSum(Below(v), f, v) /\ IsSum(Below(w), f, w)
        BY <2>1, <2>2, <4>1, FS_Subset
      <4>3. Below(v)[w] = Below(w)[w]
        BY <4>1, <4>2, SumUnique
      <4>4. Below(v)[v] = f[First(v)] + Below(v)[w]
        BY <3>2, <4>2, SumAt
      <4> QED BY <3>2, <4>3, <4>4
    <3> QED BY <3>1, <3>2
  <2>3. ASSUME NEW s \in SUBSET u
        PROVE  h[s] = IF s = {} THEN 0 ELSE f[First(s)] + h[s \ {First(s)}]
    <3>1. s # {} => s \ {First(s)} \in SUBSET u /\ s \ {First(s)} # u
      BY FirstIn
    <3> QED BY <2>2, <3>1
  <2>4. IsSum(h, f, u)
    BY <2>3 DEF IsSum
  <2> QED BY <2>4 DEF Good
<1>2. SUBSET S \subseteq Good
  <2> HIDE DEF Good
  <2> QED BY <1>1, SubsetInduction
<1> QED BY <1>2

LEMMA SumIs ==
    ASSUME NEW S, IsFiniteSet(S), NEW f, NEW g, IsSum(g, f, S)
    PROVE  SumOver(f, S) = g[S]
<1> DEFINE k == CHOOSE k : IsSum(k, f, S)
<1>1. IsSum(k, f, S)
  OBVIOUS
<1>2. k[S] = g[S]
  <2> HIDE DEF k
  <2> QED BY <1>1, SumUnique
<1> QED BY <1>2 DEF SumOver

\* A sum of naturals is natural.
LEMMA SumType ==
    ASSUME NEW S, IsFiniteSet(S), NEW f, \A x \in S : f[x] \in Nat
    PROVE  SumOver(f, S) \in Nat
<1>1. PICK g : IsSum(g, f, S)
  BY SumExists
<1> DEFINE Good == {v \in SUBSET S : g[v] \in Nat}
<1>2. ASSUME NEW v \in SUBSET S, \A w \in SUBSET v : w # v => w \in Good
      PROVE  v \in Good
  <2>1. CASE v = {}
    BY <1>1, <2>1, SumEmpty
  <2>2. CASE v # {}
    <3>1. First(v) \in v
      BY <2>2, FirstIn
    <3>2. g[v \ {First(v)}] \in Nat /\ f[First(v)] \in Nat
      BY <1>2, <3>1
    <3>3. g[v] = f[First(v)] + g[v \ {First(v)}]
      BY <1>1, <2>2, SumAt
    <3> QED BY <3>2, <3>3
  <2> QED BY <2>1, <2>2
<1>3. SUBSET S \subseteq Good
  <2> HIDE DEF Good
  <2> QED BY <1>2, SubsetInduction
<1> QED BY <1>1, <1>3, SumIs

\* A sum of zeros is zero.
LEMMA SumOfZeros ==
    ASSUME NEW S, IsFiniteSet(S), NEW f, \A x \in S : f[x] = 0
    PROVE  SumOver(f, S) = 0
<1>1. PICK g : IsSum(g, f, S)
  BY SumExists
<1> DEFINE Good == {v \in SUBSET S : g[v] = 0}
<1>2. ASSUME NEW v \in SUBSET S, \A w \in SUBSET v : w # v => w \in Good
      PROVE  v \in Good
  <2>1. CASE v = {}
    BY <1>1, <2>1, SumEmpty
  <2>2. CASE v # {}
    <3>1. First(v) \in v
      BY <2>2, FirstIn
    <3>2. g[v \ {First(v)}] = 0 /\ f[First(v)] = 0
      BY <1>2, <3>1
    <3>3. g[v] = f[First(v)] + g[v \ {First(v)}]
      BY <1>1, <2>2 DEF IsSum
    <3> QED BY <3>2, <3>3
  <2> QED BY <2>1, <2>2
<1>3. SUBSET S \subseteq Good
  <2> HIDE DEF Good
  <2> QED BY <1>2, SubsetInduction
<1> QED BY <1>1, <1>3, SumIs

\* What one changed term does to a sum.
LEMMA SumUpdate ==
    ASSUME NEW S, IsFiniteSet(S), NEW a \in S, NEW f, NEW h,
           \A x \in S : f[x] \in Nat /\ h[x] \in Nat,
           \A x \in S \ {a} : h[x] = f[x]
    PROVE  SumOver(h, S) = SumOver(f, S) - f[a] + h[a]
<1>1. PICK g : IsSum(g, f, S)
  BY SumExists
<1>2. PICK k : IsSum(k, h, S)
  BY SumExists
<1> DEFINE Good == {v \in SUBSET S : /\ g[v] \in Nat /\ k[v] \in Nat
                                     /\ k[v] = IF a \in v THEN g[v] - f[a] + h[a] ELSE g[v]}
<1>3. ASSUME NEW v \in SUBSET S, \A w \in SUBSET v : w # v => w \in Good
      PROVE  v \in Good
  <2>1. CASE v = {}
    <3>1. g[v] = 0 /\ k[v] = 0
      BY <1>1, <1>2, <2>1, SumEmpty
    <3> QED BY <2>1, <3>1
  <2>2. CASE v # {}
    <3> DEFINE x == First(v)
               w == v \ {x}
    <3>1. x \in v /\ x \in S
      BY <2>2, FirstIn
    <3>2. w \in Good
      BY <1>3, <3>1
    <3>3. g[v] = f[x] + g[w]
      BY <1>1, <2>2, SumAt
    <3>4. k[v] = h[x] + k[w]
      BY <1>2, <2>2, SumAt
    <3>5. f[x] \in Nat /\ h[x] \in Nat /\ f[a] \in Nat /\ h[a] \in Nat
      BY <3>1
    <3> HIDE DEF x
    <3>6. CASE x = a
      BY <3>1, <3>2, <3>3, <3>4, <3>5, <3>6
    <3>7. CASE x # a
      BY <3>1, <3>2, <3>3, <3>4, <3>5, <3>7
    <3> QED BY <3>6, <3>7
  <2> QED BY <2>1, <2>2
<1>4. SUBSET S \subseteq Good
  <2> HIDE DEF Good
  <2> QED BY <1>3, SubsetInduction
<1>5. SumOver(f, S) = g[S] /\ SumOver(h, S) = k[S]
  BY <1>1, <1>2, SumIs
<1> QED BY <1>4, <1>5

\* The sums of the model, before and after a step.
LEMMA StoredSum == StoredBytes = SumOver(stored, Artifacts)
BY DEF StoredBytes, MapThenSumSet, MapThenFoldSet, SumOver, IsSum, First
LEMMA StoredSumNext == StoredBytes' = SumOver(stored', Artifacts)
BY DEF StoredBytes, MapThenSumSet, MapThenFoldSet, SumOver, IsSum, First
LEMMA BytesSum == ASSUME NEW N PROVE BytesOf(N) = SumOver(tempBytes, N)
BY DEF BytesOf, MapThenSumSet, MapThenFoldSet, SumOver, IsSum, First
-----------------------------------------------------------------------------
(* The sums of the model.                                                  *)

LEMMA StoredBytesType ==
    ASSUME TypeOK
    PROVE  StoredBytes \in Nat
BY StoredSum, SumType, CacheAssumption DEF TypeOK

LEMMA BytesOfType ==
    ASSUME TypeOK, IsFiniteSet(temps), NEW names \in SUBSET temps
    PROVE  BytesOf(names) \in Nat
<1>1. IsFiniteSet(names)
  BY FS_Subset
<1>2. \A t \in names : tempBytes[t] \in Nat
  BY CacheAssumption DEF TypeOK
<1> QED BY <1>1, <1>2, BytesSum, SumType

LEMMA StoredFrame ==
    ASSUME UNCHANGED stored
    PROVE  StoredBytes' = StoredBytes
BY StoredSum, StoredSumNext

\* One artifact file is written, replaced or removed.
LEMMA StoredChange ==
    ASSUME TypeOK, NEW a \in Artifacts, NEW n \in Nat, stored' = [stored EXCEPT ![a] = n]
    PROVE  StoredBytes' = StoredBytes - stored[a] + n
<1>1. \A x \in Artifacts : stored[x] \in Nat /\ stored'[x] \in Nat
  BY DEF TypeOK
<1>2. \A x \in Artifacts \ {a} : stored'[x] = stored[x]
  BY DEF TypeOK
<1>3. stored'[a] = n
  BY DEF TypeOK
<1> DEFINE f == stored
           h == stored'
<1>4. SumOver(h, Artifacts) = SumOver(f, Artifacts) - f[a] + h[a]
  <2>1. IsFiniteSet(Artifacts)
    BY CacheAssumption
  <2>2. (\A x \in Artifacts : f[x] \in Nat /\ h[x] \in Nat) /\ (\A x \in Artifacts \ {a} : h[x] = f[x])
    BY <1>1, <1>2
  <2> HIDE DEF f, h
  <2> QED BY <2>1, <2>2, SumUpdate
<1> QED BY <1>3, <1>4, StoredSum, StoredSumNext
-----------------------------------------------------------------------------
(* The inductive invariant.                                                *)

\* Only a running service has workers on the way, each with an artifact and a
\* temporary of its own.
WriterInv ==
    /\ owner # "service" => \A w \in Writers : writerAt[w] = "idle"
    /\ \A w \in Writers :
           IF writerAt[w] = "idle" THEN temp[w] = NoName
           ELSE writes[w] \in Artifacts /\ temp[w] \in Temporaries
    /\ \A v, w \in Writers : v # w /\ temp[v] = temp[w] => temp[w] = NoName

\* The registered temporaries are those of the workers between the two ends
\* of active_writer.
ActiveInv ==
    \A t \in Temporaries :
        t \in active <=> \E w \in Writers : writerAt[w] \in {"writing", "leaving"} /\ temp[w] = t

\* What a killed service left is no worker's.
TempInv ==
    /\ TempsAccountedFor
    /\ \A w \in Writers : temp[w] \notin abandoned
    /\ IsFiniteSet(temps)

IndInv ==
    /\ TypeOK
    /\ WriterInv
    /\ ActiveInv
    /\ TempInv
    /\ StoredIsComplete
    /\ StoredWithinQuota


LEMMA InitInd == Init => IndInv
<1> SUFFICES ASSUME Init PROVE IndInv
  OBVIOUS
<1>1. TypeOK
  BY CacheAssumption DEF Init, TypeOK, WriterPlaces, ReaderPlaces, temps
<1>2. WriterInv /\ ActiveInv /\ StoredIsComplete
  BY DEF Init, WriterInv, ActiveInv, StoredIsComplete
<1>3. TempInv
  BY FS_EmptySet DEF Init, TempInv, TempsAccountedFor, temps
<1>4. StoredWithinQuota
  <2>1. \A a \in Artifacts : stored[a] = 0
    BY DEF Init
  <2>2. SumOver(stored, Artifacts) = 0
    BY <2>1, SumOfZeros, CacheAssumption
  <2> QED BY <2>2, StoredSum, CacheAssumption DEF StoredWithinQuota
<1> QED BY <1>1, <1>2, <1>3, <1>4 DEF IndInv

-----------------------------------------------------------------------------
(* One lemma for each part of the invariant.                               *)

\* The temporary of a worker that has registered it exists.
LEMMA WritingTemp ==
    ASSUME IndInv, NEW w \in Writers, writerAt[w] = "writing"
    PROVE  /\ writes[w] \in Artifacts /\ temp[w] \in Temporaries
           /\ temp[w] \in temps /\ temp[w] \in active
           /\ tempBytes[temp[w]] \in 0 .. MaxWriterBytes
<1>1. writes[w] \in Artifacts /\ temp[w] \in Temporaries
  BY DEF IndInv, WriterInv
<1>2. temp[w] \in temps
  BY DEF IndInv, TempInv, TempsAccountedFor
<1>3. temp[w] \in active
  BY <1>1 DEF IndInv, ActiveInv
<1> QED BY <1>1, <1>2, <1>3 DEF IndInv, TypeOK

LEMMA TypeStep ==
    ASSUME IndInv, [Next]_vars
    PROVE  TypeOK'
<1> USE DEF IndInv, TypeOK, temps, Goto, Unlinks, fileVars, writerVars, readerVars,
        WriterPlaces, ReaderPlaces
<1>1. CASE ServiceOpens \/ ServiceCloses
  BY <1>1 DEF ServiceOpens, ServiceCloses
<1>2. CASE ServiceKilled
  BY <1>2 DEF ServiceKilled
<1>3. CASE Cleanup
  <2>1. CASE CleanupOpens \/ CleanupCloses
    BY <2>1 DEF CleanupOpens, CleanupCloses
  <2>2. ASSUME NEW a \in Artifacts, CleanupRemovesArtifact(a) PROVE TypeOK'
    BY <2>2 DEF CleanupRemovesArtifact
  <2>3. ASSUME NEW t \in Temporaries, CleanupRemovesTemporary(t) PROVE TypeOK'
    BY <2>3 DEF CleanupRemovesTemporary, WithoutTemp
  <2> QED BY <1>3, <2>1, <2>2, <2>3 DEF Cleanup
<1>4. ASSUME NEW w \in Writers, Writer(w) PROVE TypeOK'
  <2>1. ASSUME NEW a \in Artifacts, NEW t \in Temporaries, WriterCreates(w, a, t)
        PROVE  TypeOK'
    BY <2>1, CacheAssumption DEF WriterCreates
  <2>2. CASE WriterRegisters(w)
    BY <2>2 DEF WriterRegisters, WriterInv
  <2>3. CASE WriterWrites(w)
    BY <2>3, CacheAssumption DEF WriterWrites
  <2>4. CASE WriterRaises(w) \/ WriterUnregisters(w)
    BY <2>4 DEF WriterRaises, WriterUnregisters
  <2>5. CASE WriterPublishes(w)
    <3>1. writes[w] \in Artifacts /\ tempBytes[temp[w]] \in Nat
      BY <2>5, WritingTemp, CacheAssumption DEF WriterPublishes
    <3> QED BY <2>5, <3>1 DEF WriterPublishes, MovesIntoPlace, WithoutTemp
  <2>6. CASE WriterUnlinks(w)
    BY <2>6 DEF WriterUnlinks, WithoutTemp
  <2> QED BY <1>4, <2>1, <2>2, <2>3, <2>4, <2>5, <2>6 DEF Writer
<1>5. ASSUME NEW r \in Readers, Reader(r) PROVE TypeOK'
  BY <1>5 DEF Reader, ReaderAsks, ReaderOpens, ReaderVerifies, ReaderEnds
<1>6. CASE UNCHANGED vars
  BY <1>6 DEF vars
<1> QED BY <1>1, <1>2, <1>3, <1>4, <1>5, <1>6 DEF Next

LEMMA WriterStep ==
    ASSUME IndInv, [Next]_vars
    PROVE  WriterInv'
<1> USE DEF IndInv, TypeOK, WriterInv, Goto, fileVars, writerVars
<1>1. CASE ServiceOpens \/ ServiceCloses
  BY <1>1 DEF ServiceOpens, ServiceCloses
<1>2. CASE ServiceKilled
  BY <1>2 DEF ServiceKilled
<1>3. CASE Cleanup
  BY <1>3 DEF Cleanup, CleanupOpens, CleanupCloses, CleanupRemovesArtifact, CleanupRemovesTemporary
<1>4. ASSUME NEW w \in Writers, Writer(w) PROVE WriterInv'
  <2>1. ASSUME NEW a \in Artifacts, NEW t \in Temporaries, WriterCreates(w, a, t)
        PROVE  WriterInv'
    BY <2>1, CacheAssumption DEF WriterCreates
  <2>2. CASE WriterUnlinks(w)
    BY <2>2 DEF WriterUnlinks
  <2>3. CASE WriterRegisters(w) \/ WriterWrites(w) \/ WriterRaises(w) \/ WriterPublishes(w)
             \/ WriterUnregisters(w)
    <3>1. owner = "service" /\ owner' = owner
      BY <2>3 DEF WriterRegisters, WriterWrites, WriterRaises, WriterPublishes, WriterUnregisters, MovesIntoPlace
    <3>2. writes' = writes /\ temp' = temp
      BY <2>3 DEF WriterRegisters, WriterWrites, WriterRaises, WriterPublishes, WriterUnregisters, MovesIntoPlace
    <3>3. \A v \in Writers : writerAt'[v] = "idle" <=> writerAt[v] = "idle"
      BY <2>3 DEF WriterRegisters, WriterWrites, WriterRaises, WriterPublishes, WriterUnregisters, MovesIntoPlace
    <3> QED BY <3>1, <3>2, <3>3
  <2> QED BY <1>4, <2>1, <2>2, <2>3 DEF Writer
<1>5. ASSUME NEW r \in Readers, Reader(r) PROVE WriterInv'
  BY <1>5 DEF Reader, ReaderAsks, ReaderOpens, ReaderVerifies, ReaderEnds
<1>6. CASE UNCHANGED vars
  BY <1>6 DEF vars
<1> QED BY <1>1, <1>2, <1>3, <1>4, <1>5, <1>6 DEF Next

LEMMA ActiveStep ==
    ASSUME IndInv, [Next]_vars
    PROVE  ActiveInv'
<1> USE DEF IndInv, TypeOK, ActiveInv, Goto, fileVars, writerVars
<1>1. CASE ServiceOpens \/ ServiceCloses
  BY <1>1 DEF ServiceOpens, ServiceCloses, WriterInv
<1>2. CASE ServiceKilled
  BY <1>2 DEF ServiceKilled
<1>3. CASE Cleanup
  BY <1>3 DEF Cleanup, CleanupOpens, CleanupCloses, CleanupRemovesArtifact, CleanupRemovesTemporary
<1>4. ASSUME NEW w \in Writers, Writer(w) PROVE ActiveInv'
  <2>1. ASSUME NEW a \in Artifacts, NEW t \in Temporaries, WriterCreates(w, a, t)
        PROVE  ActiveInv'
    BY <2>1 DEF WriterCreates, WriterInv
  <2>2. CASE WriterRegisters(w)
    BY <2>2 DEF WriterRegisters, WriterInv
  <2>3. CASE WriterWrites(w)
    BY <2>3 DEF WriterWrites
  <2>4. CASE WriterRaises(w) \/ WriterPublishes(w)
    BY <2>4 DEF WriterRaises, WriterPublishes, MovesIntoPlace
  <2>5. CASE WriterUnregisters(w)
    BY <2>5, CacheAssumption DEF WriterUnregisters, WriterInv
  <2>6. CASE WriterUnlinks(w)
    BY <2>6 DEF WriterUnlinks
  <2> QED BY <1>4, <2>1, <2>2, <2>3, <2>4, <2>5, <2>6 DEF Writer
<1>5. ASSUME NEW r \in Readers, Reader(r) PROVE ActiveInv'
  BY <1>5 DEF Reader, ReaderAsks, ReaderOpens, ReaderVerifies, ReaderEnds
<1>6. CASE UNCHANGED vars
  BY <1>6 DEF vars
<1> QED BY <1>1, <1>2, <1>3, <1>4, <1>5, <1>6 DEF Next

\* The finite directory of temporaries, after one is created or removed.
LEMMA TempsFinite ==
    ASSUME IsFiniteSet(temps), NEW t,
           temps' = temps \/ temps' = temps \ {t} \/ temps' = temps \cup {t}
    PROVE  IsFiniteSet(temps')
BY FS_AddElement, FS_RemoveElement, FS_Subset

LEMMA TempStep ==
    ASSUME IndInv, [Next]_vars
    PROVE  TempInv'
<1> USE DEF IndInv, TypeOK, TempInv, TempsAccountedFor, Goto, fileVars, writerVars
<1>1. CASE ServiceOpens \/ ServiceCloses
  BY <1>1 DEF ServiceOpens, ServiceCloses, temps
<1>2. CASE ServiceKilled
  BY <1>2, CacheAssumption DEF ServiceKilled, temps
<1>3. CASE Cleanup
  <2>1. CASE CleanupOpens \/ CleanupCloses
    BY <2>1 DEF CleanupOpens, CleanupCloses, temps
  <2>2. ASSUME NEW a \in Artifacts, CleanupRemovesArtifact(a) PROVE TempInv'
    BY <2>2 DEF CleanupRemovesArtifact, temps
  <2>3. ASSUME NEW t \in Temporaries, CleanupRemovesTemporary(t) PROVE TempInv'
    <3>1. temps' = temps \ {t} /\ abandoned' = abandoned \ {t} /\ UNCHANGED writerVars
      BY <2>3 DEF CleanupRemovesTemporary, WithoutTemp, temps
    <3>2. \A w \in Writers : writerAt[w] = "idle"
      BY <2>3 DEF CleanupRemovesTemporary, WriterInv
    <3>3. IsFiniteSet(temps')
      BY <3>1, TempsFinite
    <3>4. TempsAccountedFor'
      BY <3>1, <3>2
    <3> QED BY <3>1, <3>3, <3>4
  <2> QED BY <1>3, <2>1, <2>2, <2>3 DEF Cleanup
<1>4. ASSUME NEW w \in Writers, Writer(w) PROVE TempInv'
  <2>1. ASSUME NEW a \in Artifacts, NEW t \in Temporaries, WriterCreates(w, a, t)
        PROVE  TempInv'
    <3>1. temps' = temps \cup {t} /\ t \notin temps /\ UNCHANGED abandoned
      BY <2>1 DEF WriterCreates, temps
    <3>2. IsFiniteSet(temps')
      BY <3>1, TempsFinite
    <3>3. /\ temp' = [temp EXCEPT ![w] = t]
          /\ writerAt' = [writerAt EXCEPT ![w] = "created"]
          /\ temp[w] = NoName /\ NoName \notin temps
      BY <2>1, CacheAssumption DEF WriterCreates, WriterInv
    <3>4. TempsAccountedFor'
      BY <3>1, <3>3
    <3> QED BY <3>1, <3>2, <3>3, <3>4
  <2>2. CASE WriterRegisters(w) \/ WriterRaises(w) \/ WriterUnregisters(w)
    BY <2>2 DEF WriterRegisters, WriterRaises, WriterUnregisters, temps
  <2>3. CASE WriterWrites(w)
    <3>1. temps' = temps
      BY <2>3 DEF WriterWrites, temps
    <3> QED BY <2>3, <3>1 DEF WriterWrites
  <2>4. CASE WriterPublishes(w)
    <3>1. temps' = temps \ {temp[w]} /\ UNCHANGED <<abandoned, temp>>
          /\ writerAt' = [writerAt EXCEPT ![w] = "leaving"]
      BY <2>4 DEF WriterPublishes, MovesIntoPlace, WithoutTemp, temps
    <3>2. IsFiniteSet(temps')
      BY <3>1, TempsFinite
    <3>3. \A v \in Writers : v # w /\ writerAt[v] \in {"created", "writing"} => temp[v] # temp[w]
      BY CacheAssumption DEF WriterInv
    <3>4. TempsAccountedFor'
      BY <3>1, <3>3
    <3> QED BY <3>1, <3>2, <3>4
  <2>5. CASE WriterUnlinks(w)
    <3>1. /\ temps' = temps \ {temp[w]} /\ UNCHANGED abandoned
          /\ writerAt' = [writerAt EXCEPT ![w] = "idle"]
          /\ temp' = [temp EXCEPT ![w] = NoName]
      BY <2>5 DEF WriterUnlinks, WithoutTemp, temps
    <3>2. IsFiniteSet(temps')
      BY <3>1, TempsFinite
    <3>3. \A v \in Writers : v # w /\ writerAt[v] \in {"created", "writing"} => temp[v] # temp[w]
      BY CacheAssumption DEF WriterInv
    <3>4. TempsAccountedFor'
      BY <3>1, <3>3
    <3>5. NoName \notin abandoned
      BY CacheAssumption
    <3> QED BY <3>1, <3>2, <3>4, <3>5
  <2> QED BY <1>4, <2>1, <2>2, <2>3, <2>4, <2>5 DEF Writer
<1>5. ASSUME NEW r \in Readers, Reader(r) PROVE TempInv'
  BY <1>5 DEF Reader, ReaderAsks, ReaderOpens, ReaderVerifies, ReaderEnds, temps
<1>6. CASE UNCHANGED vars
  BY <1>6 DEF vars, temps
<1> QED BY <1>1, <1>2, <1>3, <1>4, <1>5, <1>6 DEF Next

\* The three ways a step can treat the artifact files.
LEMMA StoredSteps ==
    ASSUME [Next]_vars
    PROVE  \/ UNCHANGED stored
           \/ \E a \in Artifacts : stored' = [stored EXCEPT ![a] = 0]
           \/ \E w \in Writers : WriterPublishes(w)
<1> USE DEF fileVars
<1>1. CASE ServiceOpens \/ ServiceCloses \/ ServiceKilled
  BY <1>1 DEF ServiceOpens, ServiceCloses, ServiceKilled
<1>2. CASE Cleanup
  BY <1>2 DEF Cleanup, CleanupOpens, CleanupCloses, CleanupRemovesArtifact, CleanupRemovesTemporary
<1>3. ASSUME NEW w \in Writers, Writer(w), ~WriterPublishes(w) PROVE UNCHANGED stored
  BY <1>3 DEF Writer, WriterCreates, WriterRegisters, WriterWrites, WriterRaises,
     WriterUnregisters, WriterUnlinks
<1>4. ASSUME NEW r \in Readers, Reader(r) PROVE UNCHANGED stored
  BY <1>4 DEF Reader, ReaderAsks, ReaderOpens, ReaderVerifies, ReaderEnds
<1>5. CASE UNCHANGED vars
  BY <1>5 DEF vars
<1> QED BY <1>1, <1>2, <1>3, <1>4, <1>5 DEF Next

\* The baseline that publish compares with is a number of bytes and counts
\* every artifact; it does not count the registered temporary itself.
LEMMA FootprintOfWriting ==
    ASSUME IndInv, NEW w \in Writers, writerAt[w] = "writing"
    PROVE  /\ StoredBytes \in Nat
           /\ BytesOf(temps \ active) \in Nat
           /\ HasRoom(w) <=>
                \/ Footprint + tempBytes[temp[w]] <= MaxBytes + stored[writes[w]]
                \/ tempBytes[temp[w]] <= stored[writes[w]]
<1>1. StoredBytes \in Nat /\ BytesOf(temps \ active) \in Nat
  BY StoredBytesType, BytesOfType DEF IndInv, TempInv
<1>2. Footprint \in Nat
  BY <1>1 DEF Footprint
<1>3. temp[w] \in active /\ tempBytes[temp[w]] \in Nat /\ stored[writes[w]] \in Nat
  BY WritingTemp, CacheAssumption DEF IndInv, TypeOK
<1>4. HasRoom(w) <=>
        \/ (Footprint - 0) + tempBytes[temp[w]] <= MaxBytes + stored[writes[w]]
        \/ (Footprint - 0) + tempBytes[temp[w]] <= (Footprint - 0) + stored[writes[w]]
  BY <1>3 DEF HasRoom
<1> QED BY <1>1, <1>2, <1>3, <1>4

\* A publication, in bytes.
LEMMA PublishedBytes ==
    ASSUME IndInv, NEW w \in Writers, WriterPublishes(w)
    PROVE  /\ writes[w] \in Artifacts
           /\ stored' = [stored EXCEPT ![writes[w]] = SizeOf[writes[w]]]
           /\ StoredBytes' <= MaxBytes
<1>1. writes[w] \in Artifacts /\ tempBytes[temp[w]] \in Nat /\ stored[writes[w]] \in Nat
  BY WritingTemp, CacheAssumption DEF WriterPublishes, IndInv, TypeOK
<1>2. stored' = [stored EXCEPT ![writes[w]] = tempBytes[temp[w]]]
      /\ tempBytes[temp[w]] = SizeOf[writes[w]]
  BY DEF WriterPublishes, MovesIntoPlace
<1>3. StoredBytes' = StoredBytes - stored[writes[w]] + tempBytes[temp[w]]
  BY <1>1, <1>2, StoredChange DEF IndInv
<1>4. /\ StoredBytes \in Nat /\ BytesOf(temps \ active) \in Nat
      /\ \/ Footprint + tempBytes[temp[w]] <= MaxBytes + stored[writes[w]]
         \/ tempBytes[temp[w]] <= stored[writes[w]]
  BY FootprintOfWriting DEF WriterPublishes
<1>5. Footprint = StoredBytes + BytesOf(temps \ active)
  BY DEF Footprint
<1>6. StoredBytes <= MaxBytes /\ MaxBytes \in Nat
  BY CacheAssumption DEF IndInv, StoredWithinQuota
<1>7. StoredBytes' <= MaxBytes
  <2> DEFINE b == BytesOf(temps \ active)
             n == tempBytes[temp[w]]
             o == stored[writes[w]]
  <2>1. b \in Nat /\ n \in Nat /\ o \in Nat /\ StoredBytes \in Nat
    BY <1>1, <1>4
  <2>2. StoredBytes' = StoredBytes - o + n
    BY <1>3
  <2>3. (StoredBytes + b) + n <= MaxBytes + o \/ n <= o
    BY <1>4, <1>5
  <2> HIDE DEF b, n, o
  <2> QED BY <2>1, <2>2, <2>3, <1>6
<1> QED BY <1>1, <1>2, <1>7

LEMMA FileStep ==
    ASSUME IndInv, [Next]_vars
    PROVE  StoredIsComplete' /\ StoredWithinQuota'
<1>1. CASE UNCHANGED stored
  BY <1>1, StoredFrame DEF IndInv, StoredIsComplete, StoredWithinQuota
<1>2. ASSUME NEW a \in Artifacts, stored' = [stored EXCEPT ![a] = 0]
      PROVE  StoredIsComplete' /\ StoredWithinQuota'
  <2>1. StoredBytes' = StoredBytes - stored[a] + 0
    BY <1>2, StoredChange DEF IndInv
  <2>2. StoredBytes \in Nat /\ stored[a] \in Nat /\ MaxBytes \in Nat
    BY StoredBytesType, CacheAssumption DEF IndInv, TypeOK
  <2>3. StoredWithinQuota'
    BY <2>1, <2>2 DEF IndInv, StoredWithinQuota
  <2> QED BY <1>2, <2>3 DEF IndInv, TypeOK, StoredIsComplete
<1>3. ASSUME NEW w \in Writers, WriterPublishes(w)
      PROVE  StoredIsComplete' /\ StoredWithinQuota'
  BY <1>3, PublishedBytes DEF IndInv, TypeOK, StoredIsComplete, StoredWithinQuota
<1> QED BY <1>1, <1>2, <1>3, StoredSteps

LEMMA Inductive == IndInv /\ [Next]_vars => IndInv'
BY TypeStep, WriterStep, ActiveStep, TempStep, FileStep DEF IndInv

LEMMA Invariance == Spec => []IndInv
BY InitInd, Inductive, PTL DEF Spec
-----------------------------------------------------------------------------
(* Theorems.                                                               *)

\* The variables keep their types.
THEOREM TypeCorrect == Spec => []TypeOK
<1>1. IndInv => TypeOK
  BY DEF IndInv
<1> QED BY <1>1, Invariance, PTL

\* No temporary is lost track of: each is a live worker's or was left by a
\* killed service, and no worker's is taken away while it needs it.
THEOREM NoTemporaryLost == Spec => []TempsAccountedFor
<1>1. IndInv => TempsAccountedFor
  BY DEF IndInv, TempInv
<1> QED BY <1>1, Invariance, PTL

\* What can be downloaded is a whole artifact.
THEOREM ArtifactsAreWhole == Spec => []StoredIsComplete
<1>1. IndInv => StoredIsComplete
  BY DEF IndInv
<1> QED BY <1>1, Invariance, PTL

\* The artifacts never outgrow the quota, however many workers publish.
THEOREM QuotaHolds == Spec => []StoredWithinQuota
<1>1. IndInv => StoredWithinQuota
  BY DEF IndInv
<1> QED BY <1>1, Invariance, PTL

\* Publishing an artifact again is never refused.
THEOREM RepublicationFits == Spec => []KnownArtifactFits
<1>1. ASSUME IndInv PROVE KnownArtifactFits
  <2> SUFFICES ASSUME NEW w \in Writers, Complete(w), stored[writes[w]] # 0
               PROVE  HasRoom(w)
    BY DEF KnownArtifactFits
  <2>1. writerAt[w] = "writing" /\ tempBytes[temp[w]] = SizeOf[writes[w]]
    BY DEF Complete
  <2>2. writes[w] \in Artifacts /\ tempBytes[temp[w]] \in Nat
    BY <1>1, <2>1, WritingTemp, CacheAssumption
  <2>3. stored[writes[w]] = tempBytes[temp[w]]
    BY <1>1, <2>1, <2>2 DEF IndInv, StoredIsComplete
  <2> QED BY <1>1, <2>1, <2>2, <2>3, FootprintOfWriting
<1> QED BY <1>1, Invariance, PTL

\* The quota refuses a publication only for bytes that stay in the directory.
THEOREM RefusalsAreJustified == Spec => []RefusalIsJustified
<1>1. ASSUME IndInv PROVE RefusalIsJustified
  <2> SUFFICES ASSUME NEW w \in Writers, Complete(w), ~HasRoom(w),
                      \A v \in Writers : writerAt[v] \notin {"created", "unlinking"}
               PROVE  StoredBytes + BytesOf(abandoned) + SizeOf[writes[w]]
                          > MaxBytes + stored[writes[w]]
    BY DEF RefusalIsJustified
  <2>1. writerAt[w] = "writing" /\ tempBytes[temp[w]] = SizeOf[writes[w]]
    BY DEF Complete
  <2>2. temps \ active = abandoned
    <3>1. \A t \in temps : t \in abandoned \/ t \in active
      BY <1>1, CacheAssumption DEF IndInv, TypeOK, WriterInv, ActiveInv, TempInv, TempsAccountedFor,
         WriterPlaces
    <3>2. abandoned \subseteq temps /\ abandoned \cap active = {}
      BY <1>1 DEF IndInv, TypeOK, ActiveInv, TempInv, TempsAccountedFor
    <3> QED BY <3>1, <3>2
  <2>3. writes[w] \in Artifacts /\ SizeOf[writes[w]] \in Nat /\ stored[writes[w]] \in Nat
        /\ MaxBytes \in Nat
    BY <1>1, <2>1, WritingTemp, CacheAssumption DEF IndInv, TypeOK
  <2>4. /\ StoredBytes \in Nat /\ BytesOf(abandoned) \in Nat
        /\ ~ (Footprint + SizeOf[writes[w]] <= MaxBytes + stored[writes[w]])
    BY <1>1, <2>1, <2>2, FootprintOfWriting
  <2>5. Footprint = StoredBytes + BytesOf(abandoned)
    BY <2>2 DEF Footprint
  <2> QED BY <2>3, <2>4, <2>5
<1> QED BY <1>1, Invariance, PTL
=============================================================================
