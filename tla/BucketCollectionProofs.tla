------------------------ MODULE BucketCollectionProofs ------------------------
(***************************************************************************)
(* Proofs about BucketCollection, for any buckets, horizons, prices,       *)
(* answers of the venues, delays and limits: a snapshot ends at its        *)
(* bucket's own depth, the history it is taken from is young up to the     *)
(* collection timeout, the diagnostic history is a subsequence of the      *)
(* production one, reports say what was collected, and what is decided was *)
(* read from fresh books.                                                  *)
(***************************************************************************)
EXTENDS BucketCollection, FiniteLemmas, TLAPS

-----------------------------------------------------------------------------
(* Queues. *)

(* A queue with one more point. *)
LEMMA AppendFacts ==
  ASSUME NEW S, NEW queue \in Seq(S), NEW p \in S
  PROVE  /\ Append(queue, p) \in Seq(S)
         /\ Len(Append(queue, p)) = Len(queue) + 1
         /\ DOMAIN Append(queue, p) = 1..(Len(queue) + 1)
         /\ DOMAIN queue = 1..Len(queue) /\ Len(queue) \in Nat
         /\ Append(queue, p)[Len(queue) + 1] = p
         /\ \A i \in DOMAIN queue : Append(queue, p)[i] = queue[i]
OBVIOUS

(* The time of a point is a number. *)
LEMMA TimesTyped ==
  /\ \A p \in Points : p.ts \in Nat
  /\ \A queue \in Seq(Points) : \A i \in DOMAIN queue : queue[i].ts \in Nat
<1>1. ASSUME NEW p \in Points PROVE p.ts \in Nat
  BY DEF Points
<1>2. ASSUME NEW queue \in Seq(Points), NEW i \in DOMAIN queue PROVE queue[i] \in Points
  OBVIOUS
<1> QED BY <1>1, <1>2

(* _prune drops everything before the first young point, and that only. *)
LEMMA PrunedFacts ==
  ASSUME NEW queue \in Seq(Points), NEW at \in Nat
  PROVE  /\ PrunedQueue(queue, at) \in Seq(Points)
         /\ \/ /\ PrunedQueue(queue, at) = <<>>
               /\ \A i \in DOMAIN queue : ~(at - queue[i].ts <= MaxAge)
            \/ \E m \in DOMAIN queue :
                 /\ at - queue[m].ts <= MaxAge
                 /\ \A i \in DOMAIN queue : at - queue[i].ts <= MaxAge => m <= i
                 /\ Len(PrunedQueue(queue, at)) = Len(queue) - m + 1
                 /\ DOMAIN PrunedQueue(queue, at) = 1..(Len(queue) - m + 1)
                 /\ \A i \in 1..(Len(queue) - m + 1) :
                      PrunedQueue(queue, at)[i] = queue[m + i - 1]
<1> DEFINE young == {i \in DOMAIN queue : at - queue[i].ts <= MaxAge}
<1>1. young \subseteq Nat /\ DOMAIN queue = 1..Len(queue) /\ Len(queue) \in Nat
  OBVIOUS
<1>2. CASE young = {}
  BY <1>2 DEF PrunedQueue
<1>3. CASE young # {}
  <2> DEFINE m == Min(young)
  <2>1. m \in young /\ \A i \in young : m <= i
    BY <1>1, <1>3, MinIsLeast
  <2>2. PrunedQueue(queue, at) = SubSeq(queue, m, Len(queue))
    BY <1>3 DEF PrunedQueue
  <2>3. m \in DOMAIN queue /\ at - queue[m].ts <= MaxAge
    BY <2>1
  <2>4. \A i \in DOMAIN queue : at - queue[i].ts <= MaxAge => m <= i
    BY <2>1
  <2> HIDE DEF m, young
  <2>5. m \in 1..Len(queue)
    BY <1>1, <2>3
  <2> DEFINE rest == SubSeq(queue, m, Len(queue))
  <2>6. /\ rest \in Seq(Points) /\ Len(rest) = Len(queue) - m + 1
        /\ \A i \in 1..(Len(queue) - m + 1) : rest[i] = queue[m + i - 1]
    BY <1>1, <2>5
  <2>7. DOMAIN rest = 1..(Len(queue) - m + 1)
    BY <2>6
  <2> QED BY <2>2, <2>3, <2>4, <2>6, <2>7
<1> QED BY <1>2, <1>3

-----------------------------------------------------------------------------
(* Embeddings of one queue in another. *)

(* A point appended to both queues keeps the embedding. *)
LEMMA EmbeddedAppendBoth ==
  ASSUME NEW S, NEW d \in Seq(S), NEW p \in Seq(S), NEW x \in S, Embedded(d, p)
  PROVE  Embedded(Append(d, x), Append(p, x))
<1>1. PICK at \in [DOMAIN d -> DOMAIN p] : EmbedsBy(at, d, p)
  BY DEF Embedded
<1> DEFINE d2 == Append(d, x)
           p2 == Append(p, x)
           at2 == [i \in DOMAIN d2 |-> IF i = Len(d) + 1 THEN Len(p) + 1 ELSE at[i]]
<1>2. /\ DOMAIN d2 = 1..(Len(d) + 1) /\ DOMAIN d = 1..Len(d) /\ Len(d) \in Nat
      /\ d2[Len(d) + 1] = x /\ \A i \in DOMAIN d : d2[i] = d[i]
  BY AppendFacts
<1>3. /\ DOMAIN p2 = 1..(Len(p) + 1) /\ DOMAIN p = 1..Len(p) /\ Len(p) \in Nat
      /\ p2[Len(p) + 1] = x /\ \A i \in DOMAIN p : p2[i] = p[i]
  BY AppendFacts
<1> HIDE DEF d2, p2
<1>4. at2 \in [DOMAIN d2 -> DOMAIN p2]
  BY <1>2, <1>3
<1>5. \A i, j \in DOMAIN d2 : i < j => at2[i] < at2[j]
  BY <1>1, <1>2, <1>3 DEF EmbedsBy
<1>6. \A i \in DOMAIN d2 : d2[i] = p2[at2[i]]
  BY <1>1, <1>2, <1>3 DEF EmbedsBy
<1>7. EmbedsBy(at2, d2, p2)
  BY <1>4, <1>5, <1>6 DEF EmbedsBy
<1> QED BY <1>4, <1>7 DEF Embedded, d2, p2

(* An embedded queue stays embedded when only the other one grows. *)
LEMMA EmbeddedAppendOne ==
  ASSUME NEW S, NEW d \in Seq(S), NEW p \in Seq(S), NEW x \in S, Embedded(d, p)
  PROVE  Embedded(d, Append(p, x))
<1>1. PICK at \in [DOMAIN d -> DOMAIN p] : EmbedsBy(at, d, p)
  BY DEF Embedded
<1> DEFINE p2 == Append(p, x)
<1>2. /\ DOMAIN p2 = 1..(Len(p) + 1) /\ DOMAIN p = 1..Len(p) /\ Len(p) \in Nat
      /\ \A i \in DOMAIN p : p2[i] = p[i]
  BY AppendFacts
<1> HIDE DEF p2
<1>3. at \in [DOMAIN d -> DOMAIN p2]
  BY <1>2
<1>4. EmbedsBy(at, d, p2)
  BY <1>1, <1>2, <1>3 DEF EmbedsBy
<1> QED BY <1>3, <1>4 DEF Embedded, p2

(* Pruning both at one time keeps the one in the other: its first young point is one there. *)
LEMMA EmbeddedPruned ==
  ASSUME NEW d \in Seq(Points), NEW p \in Seq(Points), NEW time \in Nat, Embedded(d, p)
  PROVE  Embedded(PrunedQueue(d, time), PrunedQueue(p, time))
<1>1. PICK at \in [DOMAIN d -> DOMAIN p] : EmbedsBy(at, d, p)
  BY DEF Embedded
<1> DEFINE d2 == PrunedQueue(d, time)
           p2 == PrunedQueue(p, time)
<1>2. DOMAIN d = 1..Len(d) /\ DOMAIN p = 1..Len(p) /\ Len(d) \in Nat /\ Len(p) \in Nat
  OBVIOUS
<1>3. CASE d2 = <<>>
  <2>1. DOMAIN d2 = {}
    BY <1>3
  <2> DEFINE none == [i \in {} |-> 0]
  <2>2. none \in [DOMAIN d2 -> DOMAIN p2] /\ EmbedsBy(none, d2, p2)
    BY <2>1 DEF EmbedsBy
  <2> HIDE DEF none
  <2> QED BY <2>2 DEF Embedded
<1>4. CASE d2 # <<>>
  <2>1. PICK m \in DOMAIN d :
          /\ time - d[m].ts <= MaxAge
          /\ DOMAIN d2 = 1..(Len(d) - m + 1)
          /\ \A i \in 1..(Len(d) - m + 1) : d2[i] = d[m + i - 1]
    BY <1>4, PrunedFacts
  <2>2. at[m] \in DOMAIN p /\ time - p[at[m]].ts <= MaxAge
    BY <1>1, <2>1 DEF EmbedsBy
  <2>3. PICK n \in DOMAIN p :
          /\ n <= at[m]
          /\ DOMAIN p2 = 1..(Len(p) - n + 1)
          /\ \A i \in 1..(Len(p) - n + 1) : p2[i] = p[n + i - 1]
    BY <2>2, PrunedFacts, ZenonT(30)
  <2> HIDE DEF d2, p2
  <2> DEFINE at2 == [i \in DOMAIN d2 |-> at[m + i - 1] - n + 1]
  <2>4. ASSUME NEW i \in DOMAIN d2
        PROVE  /\ m + i - 1 \in DOMAIN d /\ at[m + i - 1] \in n..Len(p)
               /\ at2[i] \in 1..(Len(p) - n + 1) /\ n + at2[i] - 1 = at[m + i - 1]
    <3>1. m + i - 1 \in DOMAIN d /\ (m = m + i - 1 \/ m < m + i - 1)
      BY <1>2, <2>1
    <3>2. at[m] = at[m + i - 1] \/ at[m] < at[m + i - 1]
      BY <1>1, <3>1 DEF EmbedsBy
    <3>3. at[m + i - 1] \in 1..Len(p) /\ at[m] \in 1..Len(p) /\ n \in 1..Len(p)
      BY <1>2, <2>3, <3>1
    <3>4. at[m + i - 1] \in n..Len(p)
      BY <1>2, <2>3, <3>2, <3>3
    <3> QED BY <1>2, <3>1, <3>3, <3>4
  <2>5. at2 \in [DOMAIN d2 -> DOMAIN p2]
    BY <2>3, <2>4
  <2>6. ASSUME NEW i \in DOMAIN d2, NEW j \in DOMAIN d2, i < j PROVE at2[i] < at2[j]
    <3>1. m + i - 1 < m + j - 1
      BY <1>2, <2>1, <2>6
    <3>2. at[m + i - 1] < at[m + j - 1]
      BY <1>1, <2>4, <3>1 DEF EmbedsBy
    <3>3. at[m + i - 1] \in Int /\ at[m + j - 1] \in Int /\ n \in Int
      BY <1>2, <2>3, <2>4
    <3>4. at2[i] = at[m + i - 1] - n + 1 /\ at2[j] = at[m + j - 1] - n + 1
      OBVIOUS
    <3> HIDE DEF at2
    <3> QED BY <3>2, <3>3, <3>4
  <2>7. ASSUME NEW i \in DOMAIN d2 PROVE d2[i] = p2[at2[i]]
    <3>1. d2[i] = d[m + i - 1] /\ d[m + i - 1] = p[at[m + i - 1]]
      BY <1>1, <2>1, <2>4 DEF EmbedsBy
    <3>2. p2[at2[i]] = p[n + at2[i] - 1]
      BY <2>3, <2>4
    <3> QED BY <2>4, <3>1, <3>2
  <2>8. EmbedsBy(at2, d2, p2)
    BY <2>5, <2>6, <2>7 DEF EmbedsBy
  <2> HIDE DEF at2
  <2> QED BY <2>5, <2>8 DEF Embedded, d2, p2
<1> QED BY <1>3, <1>4

-----------------------------------------------------------------------------
(* The greedy matching of SubsequenceOf finds every embedded queue. *)

Greedy(d, p, n, g) ==
  g = [i \in 0..n |-> IF i = 0 THEN 0
                      ELSE IF g[i - 1] < Len(d) /\ d[g[i - 1] + 1] = p[i]
                           THEN g[i - 1] + 1 ELSE g[i - 1]]

(* The walk along a queue exists to any length. *)
LEMMA GreedyExists ==
  ASSUME NEW d, NEW p, NEW n \in Nat
  PROVE  \E g : Greedy(d, p, n, g)
<1> DEFINE T == {m \in Nat : ~(\E g : Greedy(d, p, m, g))}
<1> SUFFICES ASSUME n \in T PROVE FALSE
  OBVIOUS
<1>1. PICK m \in T : \A k \in T : m <= k
  <2>1. T \subseteq Nat /\ T # {}
    OBVIOUS
  <2> HIDE DEF T
  <2> QED BY <2>1, LeastNumber
<1>2. m # 0
  <2> DEFINE g == [i \in 0..0 |-> 0]
  <2>1. Greedy(d, p, 0, g)
    BY DEF Greedy
  <2> QED BY <2>1
<1>3. m - 1 \in Nat /\ m - 1 \notin T
  BY <1>1, <1>2
<1>4. PICK h : Greedy(d, p, m - 1, h)
  BY <1>3
<1> DEFINE last == h[m - 1]
           g == [i \in 0..m |-> IF i < m THEN h[i]
                                ELSE IF last < Len(d) /\ d[last + 1] = p[m] THEN last + 1 ELSE last]
<1>5. \A i \in 0..(m - 1) :
        h[i] = IF i = 0 THEN 0
               ELSE IF h[i - 1] < Len(d) /\ d[h[i - 1] + 1] = p[i] THEN h[i - 1] + 1 ELSE h[i - 1]
  BY <1>4 DEF Greedy
<1>6. ASSUME NEW i \in 0..m
      PROVE  g[i] = IF i = 0 THEN 0
                    ELSE IF g[i - 1] < Len(d) /\ d[g[i - 1] + 1] = p[i]
                         THEN g[i - 1] + 1 ELSE g[i - 1]
  <2>1. CASE i = m
    <3>1. g[m - 1] = last /\ g[i] = IF last < Len(d) /\ d[last + 1] = p[m] THEN last + 1 ELSE last
      BY <1>2, <1>3, <2>1
    <3> QED BY <1>2, <2>1, <3>1
  <2>2. CASE i # m
    <3>1. i \in 0..(m - 1) /\ g[i] = h[i] /\ (i # 0 => g[i - 1] = h[i - 1])
      BY <1>3, <2>2
    <3> QED BY <1>5, <3>1
  <2> QED BY <2>1, <2>2
<1>7. g = [i \in 0..m |-> g[i]]
  OBVIOUS
<1> HIDE DEF g
<1>8. Greedy(d, p, m, g)
  BY <1>6, <1>7 DEF Greedy
<1> QED BY <1>8

(* An embedded queue is a subsequence. *)
LEMMA EmbeddedIsSubsequence ==
  ASSUME NEW S, NEW d \in Seq(S), NEW p \in Seq(S), Embedded(d, p)
  PROVE  SubsequenceOf(d, p)
<1>1. PICK at \in [DOMAIN d -> DOMAIN p] : EmbedsBy(at, d, p)
  BY DEF Embedded
<1>2. DOMAIN d = 1..Len(d) /\ DOMAIN p = 1..Len(p) /\ Len(d) \in Nat /\ Len(p) \in Nat
  OBVIOUS
<1> DEFINE g == CHOOSE h : Greedy(d, p, Len(p), h)
<1>3. Greedy(d, p, Len(p), g)
  BY <1>2, GreedyExists
<1>4. SubsequenceOf(d, p) <=> g[Len(p)] = Len(d)
  BY DEF SubsequenceOf, Greedy
<1> HIDE DEF g
<1>5. \A n \in 0..Len(p) :
        g[n] = IF n = 0 THEN 0
               ELSE IF g[n - 1] < Len(d) /\ d[g[n - 1] + 1] = p[n] THEN g[n - 1] + 1 ELSE g[n - 1]
  BY <1>3 DEF Greedy
<1> DEFINE Fine(n) == g[n] \in 0..Len(d) /\ \A i \in DOMAIN d : at[i] <= n => i <= g[n]
           T == {n \in 0..Len(p) : ~Fine(n)}
<1>6. T = {}
  <2> SUFFICES ASSUME T # {} PROVE FALSE
    OBVIOUS
  <2>1. PICK n \in T : \A m \in T : n <= m
    <3>1. T \subseteq Nat
      BY <1>2
    <3> HIDE DEF T
    <3> QED BY <3>1, LeastNumber
  <2>2. n # 0
    <3>1. \A i \in DOMAIN d : ~(at[i] <= 0)
      BY <1>2
    <3> QED BY <1>2, <1>5, <2>1, <3>1
  <2> DEFINE k == g[n - 1]
  <2>3. n - 1 \in 0..Len(p) /\ n \in 1..Len(p) /\ Fine(n - 1)
    BY <1>2, <2>1, <2>2
  <2>4. k \in 0..Len(d) /\ \A i \in DOMAIN d : at[i] <= n - 1 => i <= k
    BY <2>3
  <2>5. g[n] = IF k < Len(d) /\ d[k + 1] = p[n] THEN k + 1 ELSE k
    BY <1>5, <2>2, <2>3
  <2> HIDE DEF k
  <2>6. g[n] \in 0..Len(d) /\ k <= g[n]
    BY <1>2, <2>4, <2>5
  <2>7. ASSUME NEW i \in DOMAIN d, at[i] <= n PROVE i <= g[n]
    <3>1. at[i] \in 1..Len(p)
      BY <1>2
    <3>2. CASE at[i] <= n - 1
      BY <1>2, <2>4, <2>6, <3>2
    <3>3. CASE at[i] = n
      <4>1. i = 1 \/ (i - 1 \in DOMAIN d /\ at[i - 1] < at[i] /\ at[i - 1] \in 1..Len(p))
        BY <1>1, <1>2 DEF EmbedsBy
      <4>2. i - 1 <= k
        BY <1>2, <2>3, <2>4, <3>3, <4>1
      <4>3. d[i] = p[n]
        BY <1>1, <3>3 DEF EmbedsBy
      <4>4. i <= k \/ (k = i - 1 /\ k < Len(d) /\ k + 1 = i)
        BY <1>2, <2>4, <4>2
      <4> QED BY <1>2, <2>4, <2>5, <2>6, <4>3, <4>4
    <3> QED BY <1>2, <2>3, <2>7, <3>1, <3>2, <3>3
  <2> QED BY <2>1, <2>6, <2>7
<1>7. g[Len(p)] \in 0..Len(d) /\ \A i \in DOMAIN d : i <= g[Len(p)]
  <2>1. Fine(Len(p))
    BY <1>2, <1>6, SMTT(20)
  <2>2. \A i \in DOMAIN d : at[i] <= Len(p)
    BY <1>2
  <2> QED BY <2>1, <2>2
<1>8. Len(d) = 0 \/ Len(d) \in DOMAIN d
  BY <1>2
<1> QED BY <1>2, <1>4, <1>7, <1>8

-----------------------------------------------------------------------------
(* What the constants are, and the order of the fetches. *)

(* What the constants are, one by one. *)
LEMMA ConstantFacts ==
  /\ MaxAge \in Nat \ {0} /\ MinimumPoints \in Nat \ {0, 1}
  /\ Horizon \in [Buckets -> Nat \ {0}]
  /\ Outcomes \in [FetchNames -> SUBSET AllOutcomes]
  /\ \A f \in FetchNames \ MayBeEmpty : "empty" \notin Outcomes[f]
  /\ VenueLag \in [FetchNames -> Nat]
  /\ MaxBookAge \in Nat /\ MaxFeeAge \in Nat /\ MaxPairSkew \in Nat /\ MaxNow \in Nat
  /\ CollectTimeout \in Nat \ {0} /\ Poll \in Nat \ {0}
BY TemporalConstants, CollectionConstants DEF TemporalConstants, CollectionConstants

(* The fetches of a collection (_collect_inputs). *)
LEMMA FetchesFacts ==
  /\ DOMAIN Fetches = 1..8 /\ Len(Fetches) = 8
  /\ Fetches[1] = "GAMMA" /\ Fetches[2] = "OFFICIAL_PTB_RESOLVE"
  /\ Fetches[3] = "CLOB_UP_BOOK" /\ Fetches[4] = "CLOB_DOWN_BOOK"
  /\ Fetches[5] = "FEE_UP" /\ Fetches[6] = "FEE_DOWN"
  /\ Fetches[7] = "BINANCE_DEPTH" /\ Fetches[8] = "BINANCE_TRADE"
  /\ FetchNames = {"GAMMA", "OFFICIAL_PTB_RESOLVE", "CLOB_UP_BOOK", "CLOB_DOWN_BOOK",
                   "FEE_UP", "FEE_DOWN", "BINANCE_DEPTH", "BINANCE_TRADE"}
  /\ \A f \in FetchNames : \E i \in 1..8 : Fetches[i] = f
  /\ \A i \in 1..8 : Fetches[i] \in FetchNames
<1>1. /\ DOMAIN Fetches = 1..8 /\ Len(Fetches) = 8
      /\ Fetches[1] = "GAMMA" /\ Fetches[2] = "OFFICIAL_PTB_RESOLVE"
      /\ Fetches[3] = "CLOB_UP_BOOK" /\ Fetches[4] = "CLOB_DOWN_BOOK"
      /\ Fetches[5] = "FEE_UP" /\ Fetches[6] = "FEE_DOWN"
      /\ Fetches[7] = "BINANCE_DEPTH" /\ Fetches[8] = "BINANCE_TRADE"
  BY DEF Fetches
<1>2. 1..8 = {1, 2, 3, 4, 5, 6, 7, 8}
  OBVIOUS
<1>3. FetchNames = {Fetches[i] : i \in {1, 2, 3, 4, 5, 6, 7, 8}}
  BY <1>1, <1>2 DEF FetchNames, Range
<1>4. FetchNames = {"GAMMA", "OFFICIAL_PTB_RESOLVE", "CLOB_UP_BOOK", "CLOB_DOWN_BOOK",
                   "FEE_UP", "FEE_DOWN", "BINANCE_DEPTH", "BINANCE_TRADE"}
  BY <1>1, <1>3
<1>5. \A f \in FetchNames : \E i \in 1..8 : Fetches[i] = f
  BY <1>2, <1>3
<1>6. \A i \in 1..8 : Fetches[i] \in FetchNames
  BY <1>2, <1>3
<1> QED BY <1>1, <1>4, <1>5, <1>6

(* Values that state predicates compare with. *)
LEMMA NothingTyped ==
  /\ Nothing \in AnswerSets /\ \A f \in FetchNames : Nothing[f] = "none"
  /\ NoTime \in [source : Nat, recv : Nat] /\ NoTimes \in TimeSets
<1>1. Nothing \in AnswerSets /\ \A f \in FetchNames : Nothing[f] = "none"
  BY DEF Nothing, AnswerSets
<1>2. NoTime \in [source : Nat, recv : Nat]
  BY DEF NoTime
<1> QED BY <1>1, <1>2 DEF NoTimes, TimeSets

(* A fetch that is still running has answered nothing. *)
LEMMA NoSampleTyped == NoSample \in Samples
<1>1. Point(0, 0, 0) \in Points
  BY DEF Point, Points
<1> QED BY <1>1 DEF NoSample, Samples

(* The fields of what a collection returns. *)
LEMMA ReturnedFacts ==
  ASSUME NEW kind, NEW answers, NEW at, NEW ts, NEW features
  PROVE  /\ Returned(kind, answers, at, ts, features).kind = kind
         /\ Returned(kind, answers, at, ts, features).got = answers
         /\ Returned(kind, answers, at, ts, features).observed_at = at
         /\ Returned(kind, answers, at, ts, features).times = ts
         /\ Returned(kind, answers, at, ts, features).features = features
BY DEF Returned

-----------------------------------------------------------------------------
(* The part of the invariant about the coroutines. *)

Base == TypeOK /\ CollectedInTime /\ FetchedInOrder /\ SampledInTime

(* The initial states satisfy the base of the invariant. *)
LEMMA InitBase == ASSUME Init PROVE Base
<1> USE NothingTyped, NoSampleTyped, ConstantFacts, FetchesFacts
<1>1. TypeOK
  <2>1. EmptyHistory \in Histories
    BY DEF EmptyHistory, Histories
  <2>2. StateTyped(NotCollected)
    BY ReturnedFacts DEF StateTyped, NotCollected
  <2> QED BY <2>1, <2>2 DEF TypeOK, Init
<1>2. CollectedInTime
  <2>1. NotCollected.observed_at = 0
    BY ReturnedFacts DEF NotCollected
  <2> QED BY <2>1 DEF CollectedInTime, Init, Deadline
<1>3. FetchedInOrder
  <2>1. \A b \in Buckets, i \in 1..8 : ~(i < step[b]) /\ got[b][Fetches[i]] = "none"
    BY DEF Init
  <2> QED BY <2>1 DEF FetchedInOrder, Init
<1>4. SampledInTime
  BY DEF SampledInTime, Init
<1> QED BY <1>1, <1>2, <1>3, <1>4 DEF Base

(* A coroutine that waits for an answer has not seen it yet, nor those behind it. *)
LEMMA RunningFacts ==
  ASSUME Base, NEW b \in Buckets, Running(b)
  PROVE  /\ phase = "collecting" /\ step[b] \in 1..8
         /\ now \in Nat /\ selected_at \in Nat /\ selected_at <= now
         /\ now <= selected_at + CollectTimeout
         /\ Waiting(b) \in FetchNames /\ got[b][Waiting(b)] = "none"
         /\ \A i \in 1..8 : i < step[b] => got[b][Fetches[i]] \in Proper(Fetches[i])
         /\ \A i \in 1..8 : ~(i < step[b]) => got[b][Fetches[i]] = "none"
BY ConstantFacts, FetchesFacts
   DEF Base, TypeOK, CollectedInTime, FetchedInOrder, Running, Waiting, Deadline

(* The end of a coroutine. *)
LEMMA ReturnKeepsBase ==
  ASSUME Base, NEW b \in Buckets, Running(b), NEW s, StateTyped(s), s.kind # "none",
         s.observed_at = now, Return(b, s), production' \in Histories, diagnostic' \in Histories
  PROVE  Base'
<1> USE NothingTyped, NoSampleTyped, ConstantFacts, FetchesFacts DEF Return
<1>1. TypeOK /\ CollectedInTime /\ FetchedInOrder /\ SampledInTime /\ phase = "collecting"
  BY RunningFacts DEF Base
<1>2. /\ \A c \in Buckets : state'[c] = IF c = b THEN s ELSE state[c]
      /\ \A c \in Buckets : step'[c] = IF c = b THEN 0 ELSE step[c]
      /\ \A c \in Buckets : got'[c] = IF c = b THEN Nothing ELSE got[c]
      /\ DOMAIN state' = Buckets
  BY <1>1 DEF TypeOK
<1>3. TypeOK'
  <2>1. /\ step' \in [Buckets -> 0..Len(Fetches)] /\ got' \in [Buckets -> AnswerSets]
        /\ times' \in [Buckets -> TimeSets] /\ sample' \in [Buckets -> Samples]
    BY <1>1 DEF TypeOK
  <2>2. DOMAIN state' = Buckets /\ \A c \in Buckets : StateTyped(state'[c])
    BY <1>1, <1>2 DEF TypeOK
  <2> QED BY <1>1, <2>1, <2>2 DEF TypeOK
<1>4. CollectedInTime'
  <2>1. selected_at <= now /\ now <= Deadline /\ now \in Nat
    BY <1>1 DEF CollectedInTime, TypeOK
  <2>2. \A c \in Buckets : state'[c].observed_at <= now
    BY <1>1, <1>2, <2>1 DEF CollectedInTime
  <2>3. \A c \in Buckets : step'[c] = 0 =>
          state'[c].kind # "none" /\ selected_at <= state'[c].observed_at
    BY <1>1, <1>2, <2>1 DEF CollectedInTime
  <2> QED BY <1>1, <2>1, <2>2, <2>3 DEF CollectedInTime, Deadline
<1>5. FetchedInOrder'
  BY <1>1, <1>2 DEF FetchedInOrder
<1>6. SampledInTime'
  <2>1. ASSUME NEW c \in Buckets, got'[c]["BINANCE_DEPTH"] = "ok"
        PROVE  c # b /\ got[c]["BINANCE_DEPTH"] = "ok" /\ sample'[c] = sample[c]
    BY <1>1, <1>2, <2>1 DEF TypeOK
  <2> QED BY <1>1, <2>1 DEF SampledInTime
<1> QED BY <1>3, <1>4, <1>5, <1>6 DEF Base

(* The next fetch of a coroutine. *)
LEMMA ContinueFacts ==
  ASSUME Base, NEW b \in Buckets, NEW f \in FetchNames, f # "BINANCE_TRADE",
         NEW o \in AllOutcomes \ {"malformed"}, f = "GAMMA" => o = "ok", Continue(b, f, o)
  PROVE  /\ step' \in [Buckets -> 0..Len(Fetches)] /\ got' \in [Buckets -> AnswerSets]
         /\ FetchedInOrder' /\ CollectedInTime'
         /\ \A c \in Buckets : got'[c] = IF c = b THEN [got[b] EXCEPT ![f] = o] ELSE got[c]
         /\ got[b] \in AnswerSets
<1> USE ConstantFacts, FetchesFacts DEF Continue
<1>1. Running(b) /\ Waiting(b) = f /\ o \in Outcomes[f]
  BY DEF Answered
<1>2. step[b] \in 1..8 /\ step[b] # 8 /\ Fetches[step[b]] = f
  BY <1>1, RunningFacts DEF Waiting
<1>3. TypeOK /\ FetchedInOrder /\ CollectedInTime
  BY DEF Base
<1>4. got[b] \in AnswerSets /\ got \in [Buckets -> AnswerSets] /\ step \in [Buckets -> 0..8]
  BY <1>3 DEF TypeOK
<1>5. /\ \A c \in Buckets : step'[c] = IF c = b THEN step[b] + 1 ELSE step[c]
      /\ \A c \in Buckets : got'[c] = IF c = b THEN [got[b] EXCEPT ![f] = o] ELSE got[c]
  BY <1>4 DEF Answers
<1>6. step' \in [Buckets -> 0..8]
  BY <1>2, <1>4
<1>7. got' \in [Buckets -> AnswerSets]
  <2>1. [got[b] EXCEPT ![f] = o] \in AnswerSets
    BY <1>4 DEF AnswerSets
  <2> QED BY <1>4, <2>1 DEF Answers
<1>8. o \in Proper(f)
  BY <1>1 DEF Proper, AllOutcomes
<1>9. FetchedInOrder'
  <2>1. ASSUME NEW c \in Buckets, c # b
        PROVE  step'[c] = step[c] /\ got'[c] = got[c]
    BY <1>5, <2>1
  <2>2. ASSUME NEW i \in 1..8
        PROVE  IF i < step'[b] THEN got'[b][Fetches[i]] \in Proper(Fetches[i])
               ELSE got'[b][Fetches[i]] = "none"
    <3>1. step'[b] = step[b] + 1 /\ got'[b] = [got[b] EXCEPT ![f] = o]
      BY <1>5
    <3>2. CASE i = step[b]
      BY <1>2, <1>4, <1>8, <3>1, <3>2 DEF AnswerSets
    <3>3. CASE i # step[b]
      <4>1. Fetches[i] # f
        BY <1>2, <3>3
      <4>2. got'[b][Fetches[i]] = got[b][Fetches[i]]
        BY <1>4, <3>1, <4>1 DEF AnswerSets
      <4>3. i < step'[b] <=> i < step[b]
        BY <1>2, <3>1, <3>3
      <4> QED BY <1>1, <4>2, <4>3, RunningFacts
    <3> QED BY <3>2, <3>3
  <2>3. step'[b] # 0
    BY <1>2, <1>5
  <2> QED BY <1>3, <2>1, <2>2, <2>3 DEF FetchedInOrder
<1>10. CollectedInTime'
  <2>1. step'[b] # 0 /\ \A c \in Buckets : step'[c] = 0 => step[c] = 0
    BY <1>2, <1>5
  <2>2. phase = "collecting"
    BY <1>1 DEF Running
  <2> QED BY <1>3, <2>1, <2>2 DEF CollectedInTime, Deadline
<1> QED BY <1>4, <1>5, <1>6, <1>7, <1>9, <1>10

(* An answer keeps it. *)
LEMMA FetchKeepsBase ==
  ASSUME Base, NEW b \in Buckets, NEW f \in FetchNames, Fetch(b, f)
  PROVE  Base'
<1> USE NothingTyped, ConstantFacts, FetchesFacts
<1>1. PICK o \in (IF f = "GAMMA" THEN {"ok"} ELSE AllOutcomes \ {"malformed"}) :
        /\ Continue(b, f, o)
        /\ \E lag \in 0..VenueLag[f] :
             /\ lag <= now /\ (o # "ok" => lag = 0)
             /\ times' = [times EXCEPT ![b][f] =
                  IF o = "ok" THEN [source |-> now - lag, recv |-> now] ELSE NoTime]
  BY Zenon DEF Fetch
<1>2. /\ f \notin {"BINANCE_DEPTH", "BINANCE_TRADE"} /\ o \in AllOutcomes \ {"malformed"}
      /\ f = "GAMMA" => o = "ok"
      /\ sample' = sample
  BY <1>1 DEF Fetch, AllOutcomes
<1>3. /\ step' \in [Buckets -> 0..Len(Fetches)] /\ got' \in [Buckets -> AnswerSets]
      /\ FetchedInOrder' /\ CollectedInTime'
      /\ \A c \in Buckets : got'[c] = IF c = b THEN [got[b] EXCEPT ![f] = o] ELSE got[c]
      /\ got[b] \in AnswerSets
  BY <1>1, <1>2, ContinueFacts
<1>4. times' \in [Buckets -> TimeSets]
  <2>1. PICK lag \in 0..VenueLag[f] :
          /\ lag <= now
          /\ times' = [times EXCEPT ![b][f] =
               IF o = "ok" THEN [source |-> now - lag, recv |-> now] ELSE NoTime]
    BY <1>1, ZenonT(30)
  <2>2. VenueLag[f] \in Nat /\ now \in Nat /\ times \in [Buckets -> TimeSets]
    BY DEF Base, TypeOK
  <2>3. [source |-> now - lag, recv |-> now] \in [source : Nat, recv : Nat]
    BY <2>1, <2>2
  <2> QED BY <2>1, <2>2, <2>3 DEF TimeSets
<1>5. TypeOK'
  BY <1>1, <1>2, <1>3, <1>4 DEF TypeOK, Base, Continue
<1>6. SampledInTime'
  <2>1. ASSUME NEW c \in Buckets, got'[c]["BINANCE_DEPTH"] = "ok"
        PROVE  got[c]["BINANCE_DEPTH"] = "ok"
    BY <1>2, <1>3, <2>1 DEF AnswerSets
  <2> QED BY <1>1, <1>2, <2>1 DEF SampledInTime, Continue, Base
<1> QED BY <1>3, <1>5, <1>6 DEF Base

(* So does the answer of the depth, which reads the clock twice. *)
LEMMA FetchDepthKeepsBase ==
  ASSUME Base, NEW b \in Buckets, FetchDepth(b)
  PROVE  Base'
<1> USE ConstantFacts, FetchesFacts
<1>1. PICK o \in AllOutcomes \ {"malformed"} :
        /\ Continue(b, "BINANCE_DEPTH", o)
        /\ \E lag \in 0..VenueLag["BINANCE_DEPTH"] :
             /\ lag <= now
             /\ sample' = [sample EXCEPT ![b] =
                  IF o = "ok"
                  THEN [reference |-> Point(now, Mid[now - lag], now),
                        book |-> Point(now - lag, Mid[now - lag], now),
                        trade |-> <<>>]
                  ELSE NoSample]
  BY ZenonT(30) DEF FetchDepth
<1>2. PICK lag \in 0..VenueLag["BINANCE_DEPTH"] :
        /\ lag <= now
        /\ sample' = [sample EXCEPT ![b] =
             IF o = "ok"
             THEN [reference |-> Point(now, Mid[now - lag], now),
                   book |-> Point(now - lag, Mid[now - lag], now),
                   trade |-> <<>>]
             ELSE NoSample]
  BY <1>1
<1>3. /\ step' \in [Buckets -> 0..Len(Fetches)] /\ got' \in [Buckets -> AnswerSets]
      /\ FetchedInOrder' /\ CollectedInTime'
      /\ \A c \in Buckets :
           got'[c] = IF c = b THEN [got[b] EXCEPT !["BINANCE_DEPTH"] = o] ELSE got[c]
      /\ got[b] \in AnswerSets
  BY <1>1, ContinueFacts
<1>4. now \in 0..MaxNow /\ sample \in [Buckets -> Samples] /\ Running(b)
  BY <1>1 DEF Base, TypeOK, Continue, Answered
<1>5. VenueLag["BINANCE_DEPTH"] \in Nat
  OBVIOUS
<1> DEFINE reference == Point(now, Mid[now - lag], now)
           book == Point(now - lag, Mid[now - lag], now)
<1>6. now - lag \in 0..MaxNow
  BY <1>2, <1>4, <1>5
<1>7. /\ reference \in Points /\ book \in Points
      /\ reference.ts = now /\ book.ts = now
  BY <1>4, <1>6 DEF Points, Point
<1> HIDE DEF reference, book
<1>8. \A c \in Buckets : sample'[c] =
        IF c = b THEN IF o = "ok" THEN [reference |-> reference, book |-> book, trade |-> <<>>]
                      ELSE NoSample
        ELSE sample[c]
  BY <1>2, <1>4 DEF reference, book
<1>9. sample' \in [Buckets -> Samples]
  <2>1. [reference |-> reference, book |-> book, trade |-> <<>>] \in Samples
    BY <1>7 DEF Samples
  <2> QED BY <1>2, <1>4, <2>1, NoSampleTyped DEF reference, book
<1>10. TypeOK'
  BY <1>1, <1>3, <1>9 DEF TypeOK, Base, Continue, FetchDepth
<1>11. SampledInTime'
  <2>1. ASSUME NEW c \in Buckets, got'[c]["BINANCE_DEPTH"] = "ok",
               NEW p \in {sample'[c].reference, sample'[c].book}
        PROVE  selected_at <= p.ts /\ p.ts <= now
    <3>1. CASE c = b
      <4>1. o = "ok"
        BY <1>3, <2>1, <3>1 DEF AnswerSets
      <4>2. p = reference \/ p = book
        BY <1>8, <2>1, <3>1, <4>1, SMTT(20)
      <4> QED BY <1>4, <1>7, <4>2, RunningFacts
    <3>2. CASE c # b
      <4>1. got'[c] = got[c] /\ sample'[c] = sample[c]
        BY <1>3, <1>8, <3>2
      <4> QED BY <2>1, <4>1 DEF Base, SampledInTime
    <3> QED BY <3>1, <3>2
  <2> QED BY <1>1, <2>1 DEF SampledInTime, Continue
<1> QED BY <1>3, <1>10, <1>11 DEF Base

-----------------------------------------------------------------------------
(* The last answer of a coroutine, its parts named. *)

ProxyNow(b) == got[b]["BINANCE_DEPTH"] = "ok"

Added(b, trade) ==
  IF ProxyNow(b) THEN WithSample(production, [sample[b] EXCEPT !.trade = trade]) ELSE production

NewAdded(b, trade) ==
  IF ProxyNow(b) THEN WithNewOf(diagnostic, [sample[b] EXCEPT !.trade = trade]) ELSE diagnostic

BuildsNow(b) == LifecycleReason(b, now) = "OPEN" /\ ProxyNow(b) /\ HasPtb(b)

FeaturesNow(b, trade) ==
  IF LifecycleReason(b, now) # "OPEN" THEN [NoFeatures EXCEPT !.status = LifecycleReason(b, now)]
  ELSE IF ~ProxyNow(b) THEN NoFeatures
  ELSE IF ~HasPtb(b) THEN [NoFeatures EXCEPT !.status = "OFFICIAL_PTB_UNAVAILABLE"]
  ELSE Features(b, Pruned(Added(b, trade), now))

CollectedNow(b, o, trade) ==
  Returned(IF LifecycleReason(b, now) = "OPEN" THEN "collected" ELSE "closed",
           Answers(b, "BINANCE_TRADE", o), now, times[b], FeaturesNow(b, trade))

Trades == {<<>>} \cup {<<p>> : p \in Points}

LastAnswer(b, o, trade) ==
  /\ Answered(b, "BINANCE_TRADE", o)
  /\ production' = IF BuildsNow(b) THEN Pruned(Added(b, trade), now) ELSE Added(b, trade)
  /\ diagnostic' = IF BuildsNow(b) THEN Pruned(NewAdded(b, trade), now) ELSE NewAdded(b, trade)
  /\ Return(b, CollectedNow(b, o, trade))

(* The latest trade is fetched last: its answer ends the collection. *)
LEMMA FetchTradeIsLastAnswer ==
  ASSUME Base, NEW b \in Buckets, FetchTrade(b)
  PROVE  \E o \in AllOutcomes \ {"malformed"}, trade \in Trades : LastAnswer(b, o, trade)
<1>1. PICK o \in AllOutcomes \ {"malformed"}, lag \in 0..VenueLag["BINANCE_TRADE"] :
        FetchTrade(b)!(o, lag)
  BY DEF FetchTrade
<1> DEFINE trade == IF o = "ok" THEN <<Point(now - lag, Mid[now - lag], now - lag)>> ELSE <<>>
<1>2. LastAnswer(b, o, trade)
  BY <1>1 DEF LastAnswer, Added, NewAdded, ProxyNow, BuildsNow, FeaturesNow, CollectedNow
<1>3. trade \in Trades
  <2>1. now \in 0..MaxNow /\ VenueLag["BINANCE_TRADE"] \in Nat /\ lag <= now
    BY <1>1, ConstantFacts, FetchesFacts DEF Base, TypeOK
  <2>2. now - lag \in 0..MaxNow
    BY <2>1, ConstantFacts
  <2>3. Point(now - lag, Mid[now - lag], now - lag) \in Points
    BY <2>2, ConstantFacts DEF Point, Points
  <2> QED BY <2>3 DEF Trades
<1> QED BY <1>2, <1>3

(* What it does to the two histories, queue by queue. *)
GrowsTo(d, p, d2, p2) ==
  \/ d2 = d /\ p2 = p
  \/ \E x \in Points : p2 = Append(p, x) /\ (d2 = d \/ d2 = Append(d, x))

(* What the histories gain from a collection. *)
LEMMA AddedFacts ==
  ASSUME Base, NEW b \in Buckets, NEW trade \in Trades
  PROVE  LET p == Added(b, trade)
             d == NewAdded(b, trade)
         IN /\ GrowsTo(diagnostic.references, production.references, d.references, p.references)
            /\ GrowsTo(diagnostic.books, production.books, d.books, p.books)
            /\ GrowsTo(diagnostic.trades, production.trades, d.trades, p.trades)
            /\ p = [references |-> p.references, books |-> p.books, trades |-> p.trades]
            /\ d = [references |-> d.references, books |-> d.books, trades |-> d.trades]
            /\ p.references = IF ProxyNow(b) THEN Append(production.references, sample[b].reference)
                              ELSE production.references
            /\ p.books = IF ProxyNow(b) THEN Append(production.books, sample[b].book)
                         ELSE production.books
<1> DEFINE s == [sample[b] EXCEPT !.trade = trade]
<1>1. /\ production \in Histories /\ diagnostic \in Histories /\ sample[b] \in Samples
  BY DEF Base, TypeOK
<1>2. /\ s.reference = sample[b].reference /\ s.book = sample[b].book /\ s.trade = trade
      /\ s.reference \in Points /\ s.book \in Points
  BY <1>1 DEF Samples
<1>3. trade = <<>> \/ (trade # <<>> /\ trade[1] \in Points)
  BY DEF Trades
<1>4. /\ production = [references |-> production.references, books |-> production.books,
                       trades |-> production.trades]
      /\ diagnostic = [references |-> diagnostic.references, books |-> diagnostic.books,
                       trades |-> diagnostic.trades]
  BY <1>1 DEF Histories
<1> HIDE DEF s
<1>5. ASSUME NEW d, NEW p, NEW x \in Points
      PROVE  GrowsTo(d, p, Deduplicated(d, x), Appended(p, x))
  BY DEF GrowsTo, Deduplicated, Appended
<1>6. \A d, p : GrowsTo(d, p, d, p)
  BY DEF GrowsTo
<1>7. CASE ~ProxyNow(b)
  BY <1>4, <1>6, <1>7 DEF Added, NewAdded
<1>8. CASE ProxyNow(b)
  <2>1. /\ Added(b, trade) = WithSample(production, s)
        /\ NewAdded(b, trade) = WithNewOf(diagnostic, s)
    BY <1>8 DEF Added, NewAdded, s
  <2>2. GrowsTo(diagnostic.trades, production.trades,
                WithNewOf(diagnostic, s).trades, WithSample(production, s).trades)
    BY <1>2, <1>3, <1>5, <1>6 DEF WithNewOf, WithSample
  <2> QED BY <1>2, <1>5, <1>8, <2>1, <2>2 DEF WithSample, WithNewOf, Appended
<1> QED BY <1>7, <1>8

(* What two queues grow to is typed, and embedded if they were. *)
LEMMA GrowsTyped ==
  ASSUME NEW d \in Seq(Points), NEW p \in Seq(Points), NEW d2, NEW p2, GrowsTo(d, p, d2, p2)
  PROVE  /\ d2 \in Seq(Points) /\ p2 \in Seq(Points)
         /\ Embedded(d, p) => Embedded(d2, p2)
<1>1. CASE d2 = d /\ p2 = p
  BY <1>1
<1>2. CASE \E x \in Points : p2 = Append(p, x) /\ (d2 = d \/ d2 = Append(d, x))
  <2>1. PICK x \in Points : p2 = Append(p, x) /\ (d2 = d \/ d2 = Append(d, x))
    BY <1>2
  <2>2. d2 \in Seq(Points) /\ p2 \in Seq(Points)
    BY <2>1, AppendFacts, SMTT(20)
  <2> QED BY <2>1, <2>2, EmbeddedAppendBoth, EmbeddedAppendOne
<1> QED BY <1>1, <1>2 DEF GrowsTo

(* The histories stay typed and embedded. *)
LEMMA LastAnswerHistories ==
  ASSUME Base, DiagnosticEmbedded, NEW b \in Buckets, NEW o, NEW trade \in Trades,
         LastAnswer(b, o, trade)
  PROVE  production' \in Histories /\ diagnostic' \in Histories /\ DiagnosticEmbedded'
<1> DEFINE p == Added(b, trade)
           d == NewAdded(b, trade)
<1>1. production \in Histories /\ diagnostic \in Histories /\ now \in Nat
  BY ConstantFacts DEF Base, TypeOK
<1>2. /\ production.references \in Seq(Points) /\ production.books \in Seq(Points)
      /\ production.trades \in Seq(Points)
      /\ diagnostic.references \in Seq(Points) /\ diagnostic.books \in Seq(Points)
      /\ diagnostic.trades \in Seq(Points)
  BY <1>1 DEF Histories
<1>3. /\ GrowsTo(diagnostic.references, production.references, d.references, p.references)
      /\ GrowsTo(diagnostic.books, production.books, d.books, p.books)
      /\ GrowsTo(diagnostic.trades, production.trades, d.trades, p.trades)
      /\ p = [references |-> p.references, books |-> p.books, trades |-> p.trades]
      /\ d = [references |-> d.references, books |-> d.books, trades |-> d.trades]
  BY AddedFacts
<1>4. /\ production' = IF BuildsNow(b) THEN Pruned(p, now) ELSE p
      /\ diagnostic' = IF BuildsNow(b) THEN Pruned(d, now) ELSE d
  BY DEF LastAnswer
<1> HIDE DEF p, d
<1>5. /\ p.references \in Seq(Points) /\ d.references \in Seq(Points)
      /\ Embedded(d.references, p.references)
  BY <1>2, <1>3, GrowsTyped DEF DiagnosticEmbedded
<1>6. /\ p.books \in Seq(Points) /\ d.books \in Seq(Points) /\ Embedded(d.books, p.books)
  BY <1>2, <1>3, GrowsTyped DEF DiagnosticEmbedded
<1>7. /\ p.trades \in Seq(Points) /\ d.trades \in Seq(Points) /\ Embedded(d.trades, p.trades)
  BY <1>2, <1>3, GrowsTyped DEF DiagnosticEmbedded
<1>8. p \in Histories /\ d \in Histories
  BY <1>3, <1>5, <1>6, <1>7 DEF Histories
<1>9. ASSUME NEW x \in Seq(Points) PROVE PrunedQueue(x, now) \in Seq(Points)
  BY <1>1, PrunedFacts
<1>10. Pruned(p, now) \in Histories /\ Pruned(d, now) \in Histories
  BY <1>5, <1>6, <1>7, <1>9 DEF Histories, Pruned
<1>11. /\ Embedded(Pruned(d, now).references, Pruned(p, now).references)
       /\ Embedded(Pruned(d, now).books, Pruned(p, now).books)
       /\ Embedded(Pruned(d, now).trades, Pruned(p, now).trades)
  BY <1>1, <1>5, <1>6, <1>7, EmbeddedPruned DEF Pruned
<1>12. CASE BuildsNow(b)
  BY <1>4, <1>10, <1>11, <1>12 DEF DiagnosticEmbedded
<1>13. CASE ~BuildsNow(b)
  BY <1>4, <1>5, <1>6, <1>7, <1>8, <1>13 DEF DiagnosticEmbedded
<1> QED BY <1>12, <1>13

-----------------------------------------------------------------------------
(* Ages. *)

(* A point of this cycle may be added behind any other. *)
LEMMA OrderedAppend ==
  ASSUME NEW queue \in Seq(Points), NEW p \in Points, now \in Nat, selected_at \in Nat,
         NearlyOrdered(queue), selected_at <= p.ts, p.ts <= now,
         now <= selected_at + CollectTimeout
  PROVE  NearlyOrdered(Append(queue, p))
<1> DEFINE q == Append(queue, p)
           n == Len(queue)
<1>1. /\ n \in Nat /\ DOMAIN queue = 1..n /\ DOMAIN q = 1..(n + 1) /\ q[n + 1] = p
      /\ \A i \in 1..n : q[i] = queue[i]
  BY AppendFacts
<1>2. p.ts \in Nat /\ \A i \in 1..n : queue[i].ts \in Nat
  BY <1>1, TimesTyped
<1>3. CollectTimeout \in Nat
  BY ConstantFacts
<1> HIDE DEF q, n
<1>4. ASSUME NEW i \in 1..(n + 1) PROVE q[i].ts <= now
  BY <1>1, <1>4 DEF NearlyOrdered
<1>5. ASSUME NEW i \in 1..(n + 1), NEW j \in 1..(n + 1), i < j
      PROVE  q[i].ts <= q[j].ts + CollectTimeout
  <2>1. i \in 1..n
    BY <1>1, <1>5
  <2>2. CASE j \in 1..n
    BY <1>1, <1>5, <2>1, <2>2 DEF NearlyOrdered
  <2>3. CASE j = n + 1
    <3>1. queue[i].ts <= now
      BY <1>1, <2>1 DEF NearlyOrdered
    <3> QED BY <1>1, <1>2, <1>3, <2>1, <2>3, <3>1
  <2> QED BY <1>1, <2>2, <2>3
<1> QED BY <1>1, <1>4, <1>5 DEF NearlyOrdered, q

(* Pruning keeps the order and leaves nothing too old. *)
LEMMA OrderedPruned ==
  ASSUME NEW queue \in Seq(Points), now \in Nat, NearlyOrdered(queue)
  PROVE  /\ NearlyOrdered(PrunedQueue(queue, now))
         /\ Younger(PrunedQueue(queue, now), MaxAge + CollectTimeout)
<1> DEFINE q == PrunedQueue(queue, now)
<1>1. CollectTimeout \in Nat /\ MaxAge \in Nat
  BY ConstantFacts
<1>2. CASE q = <<>>
  BY <1>2 DEF NearlyOrdered, Younger
<1>3. CASE q # <<>>
  <2>1. PICK m \in DOMAIN queue :
          /\ now - queue[m].ts <= MaxAge
          /\ DOMAIN q = 1..(Len(queue) - m + 1)
          /\ \A i \in 1..(Len(queue) - m + 1) : q[i] = queue[m + i - 1]
    BY <1>3, PrunedFacts
  <2>2. DOMAIN queue = 1..Len(queue) /\ Len(queue) \in Nat /\ m \in 1..Len(queue)
    OBVIOUS
  <2>3. \A i \in DOMAIN queue : queue[i].ts \in Nat
    BY TimesTyped
  <2> HIDE DEF q
  <2>4. ASSUME NEW i \in DOMAIN q
        PROVE  /\ m + i - 1 \in DOMAIN queue /\ q[i] = queue[m + i - 1] /\ i \in Int
               /\ (m = m + i - 1 \/ m < m + i - 1)
    BY <2>1, <2>2
  <2>5. \A i \in DOMAIN q : q[i].ts <= now
    BY <2>4 DEF NearlyOrdered
  <2>6. ASSUME NEW i \in DOMAIN q, NEW j \in DOMAIN q, i < j
        PROVE  q[i].ts <= q[j].ts + CollectTimeout
    <3>1. m + i - 1 < m + j - 1
      BY <2>2, <2>4, <2>6
    <3> QED BY <2>4, <3>1 DEF NearlyOrdered
  <2>7. ASSUME NEW i \in DOMAIN q PROVE now - q[i].ts <= MaxAge + CollectTimeout
    <3>1. queue[m].ts <= q[i].ts + CollectTimeout
      <4>1. CASE m = m + i - 1
        BY <1>1, <2>2, <2>3, <2>4, <4>1
      <4>2. CASE m < m + i - 1
        BY <2>2, <2>4, <4>2 DEF NearlyOrdered
      <4> QED BY <2>4, <4>1, <4>2
    <3>2. queue[m].ts \in Nat /\ q[i].ts \in Nat
      BY <2>2, <2>3, <2>4
    <3>3. now - queue[m].ts <= MaxAge
      BY <2>1
    <3> QED BY <1>1, <3>1, <3>2, <3>3
  <2> QED BY <2>5, <2>6, <2>7 DEF NearlyOrdered, Younger, q
<1> QED BY <1>2, <1>3

(* A history stays young with one more sample of the same collection. *)
LEMMA YoungerAppend ==
  ASSUME NEW queue \in Seq(Points), NEW p \in Points, now \in Nat, selected_at \in Nat,
         Younger(queue, MaxAge + CollectTimeout), selected_at <= p.ts,
         now <= selected_at + CollectTimeout
  PROVE  Younger(Append(queue, p), MaxAge + CollectTimeout)
<1>1. /\ Len(queue) \in Nat /\ DOMAIN queue = 1..Len(queue)
      /\ DOMAIN Append(queue, p) = 1..(Len(queue) + 1) /\ Append(queue, p)[Len(queue) + 1] = p
      /\ \A i \in 1..Len(queue) : Append(queue, p)[i] = queue[i]
  BY AppendFacts
<1>2. p.ts \in Nat /\ CollectTimeout \in Nat /\ MaxAge \in Nat
  BY ConstantFacts DEF Points
<1>3. now - p.ts <= MaxAge + CollectTimeout
  BY <1>2
<1> QED BY <1>1, <1>3 DEF Younger

(* A pruned queue ends where the queue ends, when that is young. *)
LEMMA PrunedKeepsYoungLast ==
  ASSUME NEW queue \in Seq(Points), NEW p \in Points, NEW at \in Nat, at - p.ts <= MaxAge
  PROVE  Last(PrunedQueue(Append(queue, p), at)) = p
<1> DEFINE q == Append(queue, p)
<1>1. /\ q \in Seq(Points) /\ Len(queue) \in Nat /\ Len(q) = Len(queue) + 1
      /\ DOMAIN q = 1..(Len(queue) + 1) /\ q[Len(queue) + 1] = p
  BY AppendFacts
<1> HIDE DEF q
<1>2. Len(q) \in DOMAIN q /\ at - q[Len(q)].ts <= MaxAge
  BY <1>1
<1>3. PICK m \in DOMAIN q :
        /\ Len(PrunedQueue(q, at)) = Len(q) - m + 1
        /\ \A i \in 1..(Len(q) - m + 1) : PrunedQueue(q, at)[i] = q[m + i - 1]
  BY <1>1, <1>2, PrunedFacts
<1>4. PrunedQueue(q, at)[Len(q) - m + 1] = q[Len(q)]
  <2>1. Len(q) - m + 1 \in 1..(Len(q) - m + 1) /\ m + (Len(q) - m + 1) - 1 = Len(q)
    BY <1>1
  <2> QED BY <1>3, <2>1
<1> QED BY <1>1, <1>3, <1>4 DEF Last, q

(* The last answer, again: the histories stay nearly ordered. *)
LEMMA LastAnswerOrdered ==
  ASSUME Base, HistoriesOrdered, HistoryAgeBounded, NEW b \in Buckets, NEW o,
         NEW trade \in Trades, LastAnswer(b, o, trade)
  PROVE  HistoriesOrdered' /\ HistoryAgeBounded'
<1> DEFINE p == Added(b, trade)
           limit == MaxAge + CollectTimeout
<1>1. /\ production.references \in Seq(Points) /\ production.books \in Seq(Points)
      /\ now \in Nat /\ selected_at \in Nat /\ sample[b].reference \in Points
      /\ sample[b].book \in Points
  BY ConstantFacts DEF Base, TypeOK, Histories, Samples
<1>2. Running(b) /\ now' = now /\ phase' = phase /\ phase = "collecting"
  BY DEF LastAnswer, Answered, Return, Running
<1>3. now <= selected_at + CollectTimeout
  BY <1>2, RunningFacts
<1>4. ProxyNow(b) => /\ selected_at <= sample[b].reference.ts /\ sample[b].reference.ts <= now
                     /\ selected_at <= sample[b].book.ts /\ sample[b].book.ts <= now
  BY DEF ProxyNow, Base, SampledInTime
<1>5. /\ p.references = IF ProxyNow(b) THEN Append(production.references, sample[b].reference)
                        ELSE production.references
      /\ p.books = IF ProxyNow(b) THEN Append(production.books, sample[b].book)
                   ELSE production.books
  BY AddedFacts
<1>6. production' = IF BuildsNow(b) THEN Pruned(p, now) ELSE p
  BY DEF LastAnswer
<1> HIDE DEF p
<1>7. NearlyOrdered(production.references) /\ NearlyOrdered(production.books)
  BY DEF HistoriesOrdered
<1>8. p.references \in Seq(Points) /\ NearlyOrdered(p.references)
  <2>1. CASE ProxyNow(b)
    BY <1>1, <1>3, <1>4, <1>5, <1>7, <2>1, OrderedAppend, AppendFacts
  <2> QED BY <1>1, <1>5, <1>7, <2>1
<1>9. p.books \in Seq(Points) /\ NearlyOrdered(p.books)
  <2>1. CASE ProxyNow(b)
    BY <1>1, <1>3, <1>4, <1>5, <1>7, <2>1, OrderedAppend, AppendFacts
  <2> QED BY <1>1, <1>5, <1>7, <2>1
<1>10. CASE BuildsNow(b)
  <2>1. /\ production'.references = PrunedQueue(p.references, now)
        /\ production'.books = PrunedQueue(p.books, now)
    BY <1>6, <1>10 DEF Pruned
  <2>2. /\ NearlyOrdered(production'.references) /\ Younger(production'.references, limit)
        /\ NearlyOrdered(production'.books) /\ Younger(production'.books, limit)
    BY <1>1, <1>8, <1>9, <2>1, OrderedPruned
  <2> QED BY <1>2, <2>2 DEF HistoriesOrdered, HistoryAgeBounded, NearlyOrdered, Younger
<1>11. CASE ~BuildsNow(b)
  <2>1. production'.references = p.references /\ production'.books = p.books
    BY <1>6, <1>11
  <2>2. HistoriesOrdered'
    BY <1>2, <1>8, <1>9, <2>1 DEF HistoriesOrdered, NearlyOrdered
  <2>3. ASSUME JustBuilt' PROVE JustBuilt
    <3>1. PICK c \in Buckets : Built(c)' /\ state'[c].observed_at = now
      BY <1>2, <2>3 DEF JustBuilt
    <3>2. c # b
      <4>1. FeaturesNow(b, trade).snapshot = <<>>
        BY <1>11 DEF FeaturesNow, BuildsNow, NoFeatures
      <4>2. DOMAIN state = Buckets
        BY DEF Base, TypeOK
      <4>3. state'[b] = CollectedNow(b, o, trade)
        BY <4>2 DEF LastAnswer, Return
      <4>4. state'[b].features.snapshot = <<>>
        BY <4>1, <4>3 DEF CollectedNow, Returned
      <4> QED BY <3>1, <4>4 DEF Built
    <3>3. state'[c] = state[c]
      BY <3>2 DEF LastAnswer, Return, Base, TypeOK
    <3> QED BY <1>2, <3>1, <3>3 DEF JustBuilt, Built
  <2>4. ASSUME JustBuilt'
        PROVE  Younger(p.references, limit) /\ Younger(p.books, limit)
    <3>1. Younger(production.references, limit) /\ Younger(production.books, limit)
      BY <2>3, <2>4 DEF HistoryAgeBounded
    <3> QED BY <1>1, <1>3, <1>4, <1>5, <3>1, YoungerAppend
  <2>5. HistoryAgeBounded'
    BY <1>2, <2>1, <2>4 DEF HistoryAgeBounded, Younger
  <2> QED BY <2>2, <2>5
<1> QED BY <1>10, <1>11

-----------------------------------------------------------------------------
(* What a coroutine returns. *)

(* What a collection returns with its last answer. *)
LEMMA LastAnswerState ==
  ASSUME Base, NEW b \in Buckets, NEW o \in AllOutcomes \ {"malformed"}, NEW trade \in Trades,
         LastAnswer(b, o, trade)
  PROVE  /\ StateTyped(CollectedNow(b, o, trade))
         /\ CollectedNow(b, o, trade).kind \in {"collected", "closed"}
         /\ CollectedNow(b, o, trade).observed_at = now
         /\ \A f \in FetchNames \ {"BINANCE_TRADE"} :
              /\ CollectedNow(b, o, trade).got[f] = got[b][f]
              /\ got[b][f] \in Proper(f)
         /\ CollectedNow(b, o, trade).got["BINANCE_TRADE"] = o
<1> DEFINE s == CollectedNow(b, o, trade)
<1>1. /\ s.kind = IF LifecycleReason(b, now) = "OPEN" THEN "collected" ELSE "closed"
      /\ s.got = Answers(b, "BINANCE_TRADE", o) /\ s.observed_at = now /\ s.times = times[b]
  BY ReturnedFacts DEF CollectedNow
<1>2. got[b] \in AnswerSets /\ times[b] \in TimeSets /\ now \in Nat
  BY ConstantFacts DEF Base, TypeOK
<1>3. s.got \in AnswerSets
  BY <1>1, <1>2, FetchesFacts DEF Answers, AnswerSets
<1>4. /\ s.got["BINANCE_TRADE"] = o
      /\ \A f \in FetchNames \ {"BINANCE_TRADE"} : s.got[f] = got[b][f]
  BY <1>1, <1>2, FetchesFacts DEF Answers, AnswerSets
<1>5. Running(b) /\ Fetches[step[b]] = "BINANCE_TRADE"
  BY DEF LastAnswer, Answered, Waiting
<1>6. step[b] = 8 /\ \A i \in 1..7 : got[b][Fetches[i]] \in Proper(Fetches[i])
  <2>1. step[b] \in 1..8 /\ \A i \in 1..8 : i < step[b] => got[b][Fetches[i]] \in Proper(Fetches[i])
    BY <1>5, RunningFacts
  <2>2. step[b] = 8
    BY <1>5, <2>1, FetchesFacts
  <2> QED BY <2>1, <2>2
<1>7. ASSUME NEW f \in FetchNames \ {"BINANCE_TRADE"} PROVE got[b][f] \in Proper(f)
  <2>1. PICK i \in 1..8 : Fetches[i] = f
    BY FetchesFacts
  <2>2. i \in 1..7
    BY <2>1, FetchesFacts
  <2> QED BY <1>6, <2>1, <2>2
<1> HIDE DEF s
<1>8. StateTyped(s) /\ s.kind \in {"collected", "closed"}
  BY <1>1, <1>2, <1>3 DEF StateTyped
<1> QED BY <1>1, <1>4, <1>7, <1>8 DEF s

(* Its snapshot ends at the depth it fetched. *)
LEMMA LastAnswerSnapshot ==
  ASSUME Base, NEW b \in Buckets, NEW o, NEW trade \in Trades, LastAnswer(b, o, trade),
         FeaturesNow(b, trade).snapshot # <<>>
  PROVE  FeaturesNow(b, trade).snapshot[1].newest = FeaturesNow(b, trade).snapshot[1].current
<1> DEFINE h == Pruned(Added(b, trade), now)
           reference == sample[b].reference
<1>1. BuildsNow(b) /\ FeaturesNow(b, trade) = Features(b, h)
  BY DEF BuildsNow, FeaturesNow, NoFeatures
<1>2. /\ production.references \in Seq(Points) /\ reference \in Points /\ now \in Nat
      /\ ProxyNow(b)
  BY <1>1, ConstantFacts DEF Base, TypeOK, Histories, Samples, BuildsNow
<1>3. h.references = PrunedQueue(Append(production.references, reference), now)
  <2>1. Added(b, trade).references = Append(production.references, reference)
    BY <1>2, AddedFacts
  <2> QED BY <2>1 DEF Pruned
<1> HIDE DEF h, reference
<1>4. /\ SnapshotReason(h, reference, now) = "FEATURES_READY"
      /\ Features(b, h).snapshot = <<Snapshot(h, reference)>>
  BY <1>1 DEF Features, reference
<1>5. now - reference.ts <= MaxAge
  <2>1. reference.ts \in Nat /\ MaxAge \in Nat
    BY <1>2, TimesTyped, ConstantFacts
  <2>2. ~(now - reference.ts > MaxAge)
    BY <1>4 DEF SnapshotReason
  <2> QED BY <1>2, <2>1, <2>2
<1>6. Last(h.references) = reference
  BY <1>2, <1>3, <1>5, PrunedKeepsYoungLast
<1>7. /\ Snapshot(h, reference).newest = Last(h.references)
      /\ Snapshot(h, reference).current = reference
  BY DEF Snapshot
<1> QED BY <1>1, <1>4, <1>6, <1>7

(* A report looks at the stages in the order of the fetches. *)
LEMMA FirstFailureFacts ==
  ASSUME NEW s
  PROVE  /\ FirstFailure(s) = "none" => \A f \in FetchNames : ~Failed(s.got[f])
         /\ FirstFailure(s) # "none" =>
              \E i \in 1..8 : /\ FirstFailure(s) = Fetches[i] /\ Failed(s.got[Fetches[i]])
                             /\ \A j \in 1..(i - 1) : ~Failed(s.got[Fetches[j]])
<1> DEFINE failures == {i \in DOMAIN Fetches : Failed(s.got[Fetches[i]])}
<1>1. CASE failures = {}
  <2>1. \A f \in FetchNames : ~Failed(s.got[f])
    BY <1>1, FetchesFacts
  <2>2. FirstFailure(s) = "none"
    BY <1>1 DEF FirstFailure
  <2> QED BY <2>1, <2>2
<1>2. CASE failures # {}
  <2>1. failures \subseteq 1..8 /\ failures \subseteq Nat
    BY FetchesFacts
  <2>2. Min(failures) \in failures /\ \A n \in failures : Min(failures) <= n
    <3> HIDE DEF failures
    <3> QED BY <1>2, <2>1, MinIsLeast
  <2>3. FirstFailure(s) = Fetches[Min(failures)]
    BY <1>2 DEF FirstFailure
  <2>4. PICK m : m = Min(failures)
    OBVIOUS
  <2>5. m \in 1..8 /\ Failed(s.got[Fetches[m]]) /\ FirstFailure(s) = Fetches[m]
    BY <2>1, <2>2, <2>3, <2>4
  <2>6. \A j \in 1..(m - 1) : ~Failed(s.got[Fetches[j]])
    <3>1. ASSUME NEW j \in 1..(m - 1) PROVE j \in 1..8 /\ ~(m <= j)
      BY <2>5
    <3>2. \A j \in 1..8 : Failed(s.got[Fetches[j]]) => m <= j
      BY <2>2, <2>4, FetchesFacts
    <3> QED BY <3>1, <3>2
  <2>7. Fetches[m] \in FetchNames /\ "none" \notin FetchNames
    BY <2>5, FetchesFacts
  <2> QED BY <2>5, <2>6, <2>7
<1> QED BY <1>1, <1>2

(* The status of two fetches reported as one. *)
LEMMA CombinedStatusFacts ==
  ASSUME NEW s, NEW group
  PROVE  CombinedStatus(s, group) = "READY" <=>
           /\ \A f \in group : ~Failed(s.got[f])
           /\ \E f \in group : s.got[f] # "none"
BY DEF CombinedStatus

(* The fields of a report. *)
LEMMA ReportFields ==
  ASSUME NEW b, NEW s
  PROVE  /\ PipelinePayload(b, s).unavailable_reason = UnavailableReason(b, s)
         /\ PipelinePayload(b, s).discovery_status = CombinedStatus(s, {"GAMMA"})
         /\ PipelinePayload(b, s).book_status =
              CombinedStatus(s, {"CLOB_UP_BOOK", "CLOB_DOWN_BOOK"})
         /\ PipelinePayload(b, s).fee_status = CombinedStatus(s, {"FEE_UP", "FEE_DOWN"})
         /\ PipelinePayload(b, s).proxy_status =
              CombinedStatus(s, {"BINANCE_DEPTH", "BINANCE_TRADE"})
         /\ PipelinePayload(b, s).feature_status = s.features.status
BY DEF PipelinePayload

(* Its report says what was fetched. *)
LEMMA LastAnswerReport ==
  ASSUME Base, NEW b \in Buckets, NEW o \in AllOutcomes \ {"malformed"}, NEW trade \in Trades,
         LastAnswer(b, o, trade), CollectedNow(b, o, trade).kind = "collected"
  PROVE  TruthfulReport(b, CollectedNow(b, o, trade))
<1> DEFINE s == CollectedNow(b, o, trade)
           Have(fetches) == \A f \in fetches : Present(s, f)
           Missing(f) == s.got[f] \notin {"ok", "empty"}
           event == PipelinePayload(b, s)
<1>1. \A f \in FetchNames \ {"BINANCE_TRADE"} : s.got[f] = got[b][f] /\ s.got[f] \in Proper(f)
  BY LastAnswerState
<1>2. s.features = FeaturesNow(b, trade)
  BY ReturnedFacts DEF CollectedNow
<1> HIDE DEF s
<1>3. \A f \in FetchNames \ (MayBeEmpty \cup {"GAMMA"}) :
        /\ s.got[f] # "none" /\ (~Failed(s.got[f]) <=> Present(s, f))
  BY <1>1 DEF Proper, MayBeEmpty, Failed, Present
<1>4. s.got["GAMMA"] = "ok" /\ Present(s, "GAMMA")
  BY <1>1, FetchesFacts DEF Proper, Present
<1>5. event.discovery_status = "READY" <=> Have({"GAMMA"})
  BY <1>4, ReportFields, CombinedStatusFacts DEF Failed
<1>6. event.book_status = "READY" <=> Have({"CLOB_UP_BOOK", "CLOB_DOWN_BOOK"})
  <2>1. {"CLOB_UP_BOOK", "CLOB_DOWN_BOOK"} \subseteq FetchNames \ (MayBeEmpty \cup {"GAMMA"})
    BY FetchesFacts DEF MayBeEmpty
  <2> QED BY <1>3, <2>1, ReportFields, CombinedStatusFacts
<1>7. event.fee_status = "READY" <=> Have({"FEE_UP", "FEE_DOWN"})
  <2>1. {"FEE_UP", "FEE_DOWN"} \subseteq FetchNames \ (MayBeEmpty \cup {"GAMMA"})
    BY FetchesFacts DEF MayBeEmpty
  <2> QED BY <1>3, <2>1, ReportFields, CombinedStatusFacts
<1>8. /\ \A f \in FetchNames : Failed(s.got[f]) <=> Missing(f)
      /\ s.got["BINANCE_TRADE"] # "none"
  <2>1. s.got["BINANCE_TRADE"] \in {"ok", "empty", "fetch_fail", "parse_fail"}
    BY LastAnswerState DEF AllOutcomes, s
  <2>2. \A f \in FetchNames \ {"BINANCE_TRADE"} :
          s.got[f] \in {"ok", "empty", "fetch_fail", "parse_fail"}
    BY <1>1 DEF Proper
  <2> QED BY <2>1, <2>2, FetchesFacts DEF Failed
<1>9. event.proxy_status = "READY" <=> Have({"BINANCE_DEPTH"}) /\ ~Missing("BINANCE_TRADE")
  <2>1. /\ {"BINANCE_DEPTH", "BINANCE_TRADE"} \subseteq FetchNames
        /\ "BINANCE_DEPTH" \in FetchNames \ (MayBeEmpty \cup {"GAMMA"})
    BY FetchesFacts DEF MayBeEmpty
  <2> QED BY <1>3, <1>8, <2>1, ReportFields, CombinedStatusFacts
<1>11. /\ event.unavailable_reason = "none" => \A f \in FetchNames : ~Missing(f)
       /\ event.unavailable_reason # "none" =>
            \E i \in DOMAIN Fetches :
              /\ event.unavailable_reason = Fetches[i] /\ Missing(event.unavailable_reason)
              /\ \A j \in 1..(i - 1) : ~Missing(Fetches[j])
  <2>1. event.unavailable_reason = FirstFailure(s)
    BY ReportFields DEF UnavailableReason, s
  <2>2. \A i \in 1..8 : \A j \in 1..(i - 1) : j \in 1..8
    OBVIOUS
  <2> HIDE DEF event, Missing
  <2>3. \A i \in 1..8 : Failed(s.got[Fetches[i]]) <=> Missing(Fetches[i])
    BY <1>8, FetchesFacts
  <2>4. FirstFailure(s) = "none" => \A f \in FetchNames : ~Missing(f)
    BY <1>8, FirstFailureFacts
  <2>5. ASSUME FirstFailure(s) # "none"
        PROVE  \E i \in 1..8 : /\ FirstFailure(s) = Fetches[i] /\ Missing(Fetches[i])
                              /\ \A j \in 1..(i - 1) : ~Missing(Fetches[j])
    BY <2>2, <2>3, <2>5, FirstFailureFacts
  <2> QED BY <2>1, <2>4, <2>5, FetchesFacts
<1>10. event.feature_status = "FEATURES_READY" =>
         Have({"GAMMA", "OFFICIAL_PTB_RESOLVE", "BINANCE_DEPTH"})
  <2> SUFFICES ASSUME FeaturesNow(b, trade).status = "FEATURES_READY"
               PROVE  Present(s, "OFFICIAL_PTB_RESOLVE") /\ Present(s, "BINANCE_DEPTH")
    BY <1>2, <1>4, ReportFields
  <2>1. HasPtb(b) /\ ProxyNow(b)
    BY DEF FeaturesNow, NoFeatures, LifecycleReason
  <2> QED BY <1>1, <2>1, FetchesFacts DEF HasPtb, ProxyNow, Present
<1> QED BY <1>5, <1>6, <1>7, <1>9, <1>10, <1>11 DEF TruthfulReport, s

(* The report of a market that was not discovered says so. *)
LEMMA NotDiscoveredReport ==
  ASSUME NEW b \in Buckets, NEW s, NEW o \in {"fetch_fail", "parse_fail"},
         s.kind = "unavailable", s.features = NoFeatures,
         \A f \in FetchNames : s.got[f] = IF f = "GAMMA" THEN o ELSE "none"
  PROVE  TruthfulReport(b, s)
<1> DEFINE Have(fetches) == \A f \in fetches : Present(s, f)
           Missing(f) == s.got[f] \notin {"ok", "empty"}
           event == PipelinePayload(b, s)
<1>1. Failed(s.got["GAMMA"]) /\ ~Present(s, "GAMMA")
  BY FetchesFacts DEF Failed, Present
<1>2. \A f \in FetchNames \ {"GAMMA"} : s.got[f] = "none" /\ ~Present(s, f)
  BY DEF Present
<1>3. event.discovery_status # "READY" /\ ~Have({"GAMMA"})
  BY <1>1, ReportFields, CombinedStatusFacts
<1>4. event.book_status # "READY" /\ ~Have({"CLOB_UP_BOOK", "CLOB_DOWN_BOOK"})
  BY <1>2, FetchesFacts, ReportFields, CombinedStatusFacts
<1>5. event.fee_status # "READY" /\ ~Have({"FEE_UP", "FEE_DOWN"})
  BY <1>2, FetchesFacts, ReportFields, CombinedStatusFacts
<1>6. event.proxy_status # "READY" /\ Missing("BINANCE_TRADE")
  BY <1>2, FetchesFacts, ReportFields, CombinedStatusFacts
<1>7. event.unavailable_reason = "GAMMA" /\ Missing("GAMMA")
  <2>1. event.unavailable_reason = FirstFailure(s)
    BY ReportFields DEF UnavailableReason
  <2>2. \A i \in 1..8 : Failed(s.got[Fetches[i]]) => Fetches[i] = "GAMMA"
    BY <1>2, FetchesFacts DEF Failed
  <2>3. FirstFailure(s) = "GAMMA"
    BY <1>1, <2>2, FetchesFacts, FirstFailureFacts
  <2> QED BY <1>1, <2>1, <2>3 DEF Failed
<1>8. event.feature_status # "FEATURES_READY"
  BY ReportFields DEF NoFeatures
<1> QED BY <1>3, <1>4, <1>5, <1>6, <1>7, <1>8, FetchesFacts DEF TruthfulReport

(* What is decided on a returned state, at a time the timeout bounds. *)
LEMMA EvaluatedFresh ==
  ASSUME NEW b \in Buckets, NEW s, StateTyped(s), s.kind \notin {"none", "raised"},
         now \in Nat, now - s.observed_at <= CollectTimeout
  PROVE  FreshDecision(Evaluated(b, s))
<1>1. CollectTimeout \in Nat /\ MaxBookAge \in Nat /\ MaxFeeAge \in Nat /\ MaxPairSkew \in Nat
  BY ConstantFacts
<1>2. s.observed_at \in Nat /\ s.times \in TimeSets
  BY DEF StateTyped
<1>3. CASE s.kind \in {"timeout", "unavailable", "closed"}
  <2>1. /\ Evaluated(b, s).structural = "NONE"
        /\ Evaluated(b, s).observed_at = s.observed_at /\ Evaluated(b, s).at = now
    BY <1>3 DEF Evaluated, NoDecision
  <2> QED BY <2>1 DEF FreshDecision
<1>4. CASE s.kind \notin {"timeout", "unavailable", "closed"}
  <2> DEFINE d == Evaluated(b, s)
             up == s.times["CLOB_UP_BOOK"]
             down == s.times["CLOB_DOWN_BOOK"]
             up_fee == s.times["FEE_UP"]
             down_fee == s.times["FEE_DOWN"]
  <2>1. /\ d.structural = StructuralReason(s) /\ d.observed_at = s.observed_at /\ d.at = now
        /\ d.up = up /\ d.down = down /\ d.up_fee = up_fee /\ d.down_fee = down_fee
    BY <1>4 DEF Evaluated
  <2>2. \A t \in {up, down, up_fee, down_fee} : t.source \in Nat /\ t.recv \in Nat
    BY <1>2, FetchesFacts DEF TimeSets
  <2> HIDE DEF d, up, down, up_fee, down_fee
  <2>3. ASSUME StructuralReason(s) = "PRICED"
        PROVE  /\ Synchronized(up, down) = "OK" /\ Priceable(s, up, up_fee) = "OK"
               /\ Priceable(s, down, down_fee) = "OK"
    <3> DEFINE checks == <<Synchronized(up, down), Priceable(s, up, up_fee),
                           Priceable(s, down, down_fee)>>
               failing == {i \in DOMAIN checks : checks[i] # "OK"}
    <3>1. checks[1] # "PRICED" /\ checks[2] # "PRICED" /\ checks[3] # "PRICED"
      BY DEF Synchronized, Priceable
    <3>2. failing = {} \/ checks[Min(failing)] = "PRICED"
      BY <2>3 DEF StructuralReason, up, down, up_fee, down_fee
    <3>3. DOMAIN checks = 1..3
      OBVIOUS
    <3>4. failing # {} => Min(failing) \in 1..3
      <4>1. failing \subseteq 1..3 /\ failing \subseteq Nat
        BY <3>3
      <4> HIDE DEF failing
      <4> QED BY <4>1, MinIsLeast
    <3>5. failing = {}
      <4>1. \A i \in 1..3 : i = 1 \/ i = 2 \/ i = 3
        OBVIOUS
      <4> HIDE DEF failing, checks
      <4> QED BY <3>1, <3>2, <3>4, <4>1
    <3>6. 1 \notin failing /\ 2 \notin failing /\ 3 \notin failing
      BY <3>5
    <3> QED BY <3>3, <3>6
  <2>4. ASSUME StructuralReason(s) = "PRICED"
        PROVE  /\ \A t \in {up, down} : now - t.source <= MaxBookAge + CollectTimeout
               /\ \A t \in {up_fee, down_fee} : now - t.recv <= MaxFeeAge + CollectTimeout
               /\ Distance(up.source, down.source) <= MaxPairSkew
               /\ Distance(up.recv, down.recv) <= MaxPairSkew
    <3>1. BookFresh(s, up) /\ BookFresh(s, down) /\ FeeFresh(s, up_fee) /\ FeeFresh(s, down_fee)
      BY <2>3, <2>4 DEF Priceable
    <3>2. ASSUME NEW t \in {up, down} PROVE now - t.source <= MaxBookAge + CollectTimeout
      <4>1. s.observed_at - t.source <= MaxBookAge /\ t.source \in Nat
        BY <2>2, <3>1 DEF BookFresh, Age
      <4> QED BY <1>1, <1>2, <4>1
    <3>3. ASSUME NEW t \in {up_fee, down_fee} PROVE now - t.recv <= MaxFeeAge + CollectTimeout
      <4>1. s.observed_at - t.recv <= MaxFeeAge /\ t.recv \in Nat
        BY <2>2, <3>1 DEF FeeFresh, Age
      <4> QED BY <1>1, <1>2, <4>1
    <3>4. /\ ~(Distance(up.source, down.source) > MaxPairSkew)
          /\ ~(Distance(up.recv, down.recv) > MaxPairSkew)
      BY <2>3, <2>4 DEF Synchronized
    <3>5. Distance(up.source, down.source) \in Int /\ Distance(up.recv, down.recv) \in Int
      BY <2>2 DEF Distance
    <3> QED BY <1>1, <3>2, <3>3, <3>4, <3>5
  <2> QED BY <2>1, <2>4 DEF FreshDecision, d
<1> QED BY <1>3, <1>4

-----------------------------------------------------------------------------
(* Every step keeps the invariant. *)

(* What depends on the histories and the returned states, and neither changes. *)
LEMMA UnchangedParts ==
  ASSUME IInv, UNCHANGED <<now, phase, state, production, diagnostic, decision>>
  PROVE  /\ HistoriesOrdered' /\ DiagnosticEmbedded' /\ SnapshotEndsAtOwnDepth'
         /\ HistoryAgeBounded' /\ ReportsTruthful' /\ DecisionsFresh'
BY DEF IInv, HistoriesOrdered, NearlyOrdered, DiagnosticEmbedded, SnapshotEndsAtOwnDepth, Built,
       HistoryAgeBounded, JustBuilt, Younger, ReportsTruthful, DecisionsFresh

(* What the end of a coroutine does to the states returned so far. *)
LEMMA ReturnFacts ==
  ASSUME Base, NEW b \in Buckets, NEW s, Return(b, s)
  PROVE  /\ \A c \in Buckets : state'[c] = IF c = b THEN s ELSE state[c]
         /\ now' = now /\ phase' = phase /\ decision' = decision
BY DEF Base, TypeOK, Return

(* A coroutine that ends before its features. *)
LEMMA QuietReturn ==
  ASSUME IInv, NEW b \in Buckets, Running(b), NEW s, StateTyped(s), s.kind # "none",
         s.observed_at = now, s.features = NoFeatures, Return(b, s),
         UNCHANGED <<production, diagnostic>>,
         s.kind \in {"collected", "unavailable"} => TruthfulReport(b, s)
  PROVE  IInv'
<1>1. Base
  BY DEF Base, IInv
<1>2. Base'
  <2>1. production' \in Histories /\ diagnostic' \in Histories
    BY <1>1 DEF Base, TypeOK
  <2> QED BY <1>1, <2>1, ReturnKeepsBase
<1>3. /\ \A c \in Buckets : state'[c] = IF c = b THEN s ELSE state[c]
      /\ now' = now /\ phase' = phase /\ decision' = decision
  BY <1>1, ReturnFacts
<1>4. s.features.snapshot = <<>>
  BY DEF NoFeatures
<1>5. HistoriesOrdered' /\ DiagnosticEmbedded' /\ DecisionsFresh'
  BY <1>3 DEF IInv, HistoriesOrdered, NearlyOrdered, DiagnosticEmbedded, DecisionsFresh
<1>6. SnapshotEndsAtOwnDepth'
  BY <1>3, <1>4 DEF IInv, SnapshotEndsAtOwnDepth, Built
<1>7. HistoryAgeBounded'
  <2>1. JustBuilt' => JustBuilt
    BY <1>3, <1>4 DEF JustBuilt, Built
  <2> QED BY <1>3, <2>1 DEF IInv, HistoryAgeBounded, Younger
<1>8. ReportsTruthful'
  BY <1>3 DEF IInv, ReportsTruthful
<1> QED BY <1>2, <1>5, <1>6, <1>7, <1>8 DEF Base, IInv

(* A collection that ends without its last answer keeps the inductive invariant. *)
LEMMA NoFetchesKeepIInv ==
  ASSUME IInv, NEW b \in Buckets,
         NotDiscovered(b) \/ CollectionTimeout(b) \/ \E f \in FetchNames : AnswerRaises(b, f)
  PROVE  IInv'
<1>1. Base /\ got[b] \in AnswerSets /\ now \in Nat
  BY ConstantFacts DEF Base, IInv, TypeOK
<1>2. ASSUME NEW f \in FetchNames, AnswerRaises(b, f) PROVE IInv'
  <2> DEFINE s == Returned("raised", Answers(b, f, "malformed"), now, NoTimes, NoFeatures)
  <2>1. s.kind = "raised" /\ s.observed_at = now /\ s.features = NoFeatures
        /\ s.got = Answers(b, f, "malformed") /\ s.times = NoTimes
    BY ReturnedFacts
  <2>2. s.got \in AnswerSets
    BY <1>1, <2>1 DEF Answers, AnswerSets, AllOutcomes
  <2>3. Return(b, s) /\ UNCHANGED <<production, diagnostic>> /\ Running(b)
    BY <1>2 DEF AnswerRaises, Answered
  <2> HIDE DEF s
  <2>4. StateTyped(s)
    BY <1>1, <2>1, <2>2, NothingTyped DEF StateTyped
  <2> QED BY <2>1, <2>3, <2>4, QuietReturn
<1>3. CASE NotDiscovered(b)
  <2>1. PICK o \in {"fetch_fail", "parse_fail"} :
          /\ Answered(b, "GAMMA", o)
          /\ Return(b, UnavailableState(Answers(b, "GAMMA", o), now))
    BY <1>3 DEF NotDiscovered
  <2> DEFINE s == UnavailableState(Answers(b, "GAMMA", o), now)
  <2>2. s.kind = "unavailable" /\ s.observed_at = now /\ s.features = NoFeatures
        /\ s.got = Answers(b, "GAMMA", o) /\ s.times = NoTimes
    BY ReturnedFacts DEF UnavailableState
  <2>3. s.got \in AnswerSets
    BY <1>1, <2>2 DEF Answers, AnswerSets, AllOutcomes
  <2>4. Return(b, s) /\ UNCHANGED <<production, diagnostic>> /\ Running(b)
    BY <1>3, <2>1 DEF NotDiscovered, Answered
  <2>5. step[b] = 1
    <3>1. step[b] \in 1..8 /\ Fetches[step[b]] = "GAMMA"
      BY <1>1, <2>1, RunningFacts DEF Answered, Waiting
    <3> QED BY <3>1, FetchesFacts
  <2>6. \A f \in FetchNames : s.got[f] = IF f = "GAMMA" THEN o ELSE "none"
    <3>1. \A i \in 1..8 : got[b][Fetches[i]] = "none"
      <4>1. \A i \in 1..8 : ~(i < step[b])
        BY <2>5
      <4> QED BY <1>1, <2>4, <4>1, RunningFacts
    <3>2. \A f \in FetchNames : got[b][f] = "none"
      BY <3>1, FetchesFacts
    <3> QED BY <1>1, <2>2, <3>2 DEF Answers, AnswerSets
  <2> HIDE DEF s
  <2>7. StateTyped(s)
    BY <1>1, <2>2, <2>3, NothingTyped DEF StateTyped
  <2>8. TruthfulReport(b, s)
    BY <2>2, <2>6, NotDiscoveredReport
  <2> QED BY <2>2, <2>4, <2>7, <2>8, QuietReturn
<1>4. CASE CollectionTimeout(b)
  <2> DEFINE s == Returned("timeout", Nothing, now, NoTimes, NoFeatures)
  <2>1. s.kind = "timeout" /\ s.observed_at = now /\ s.features = NoFeatures
        /\ s.got = Nothing /\ s.times = NoTimes
    BY ReturnedFacts
  <2>2. Return(b, s) /\ UNCHANGED <<production, diagnostic>> /\ Running(b)
    BY <1>4 DEF CollectionTimeout
  <2> HIDE DEF s
  <2>3. StateTyped(s)
    BY <1>1, <2>1, NothingTyped DEF StateTyped
  <2> QED BY <2>1, <2>2, <2>3, QuietReturn
<1> QED BY <1>2, <1>3, <1>4

(* So does the last answer, *)
LEMMA FetchTradeKeepsIInv ==
  ASSUME IInv, NEW b \in Buckets, FetchTrade(b)
  PROVE  IInv'
<1>1. Base
  BY DEF Base, IInv
<1>2. PICK o \in AllOutcomes \ {"malformed"}, trade \in Trades : LastAnswer(b, o, trade)
  BY <1>1, FetchTradeIsLastAnswer
<1> DEFINE s == CollectedNow(b, o, trade)
<1>3. Return(b, s) /\ Running(b)
  BY <1>2 DEF LastAnswer, Answered
<1>4. /\ production' \in Histories /\ diagnostic' \in Histories /\ DiagnosticEmbedded'
      /\ HistoriesOrdered' /\ HistoryAgeBounded'
  BY <1>1, <1>2, LastAnswerHistories, LastAnswerOrdered DEF IInv
<1>5. StateTyped(s) /\ s.kind \in {"collected", "closed"} /\ s.observed_at = now
  BY <1>1, <1>2, LastAnswerState
<1>6. s.features = FeaturesNow(b, trade)
  BY ReturnedFacts DEF CollectedNow
<1>7. s.kind = "collected" => TruthfulReport(b, s)
  BY <1>1, <1>2, LastAnswerReport
<1> HIDE DEF s
<1>8. Base'
  BY <1>1, <1>3, <1>4, <1>5, ReturnKeepsBase
<1>9. /\ \A c \in Buckets : state'[c] = IF c = b THEN s ELSE state[c]
      /\ now' = now /\ phase' = phase /\ decision' = decision
  BY <1>1, <1>3, ReturnFacts
<1>10. SnapshotEndsAtOwnDepth'
  <2>1. s.features.snapshot # <<>> =>
          s.features.snapshot[1].newest = s.features.snapshot[1].current
    BY <1>1, <1>2, <1>6, LastAnswerSnapshot
  <2> QED BY <1>9, <2>1 DEF IInv, SnapshotEndsAtOwnDepth, Built
<1>11. ReportsTruthful'
  BY <1>5, <1>7, <1>9 DEF IInv, ReportsTruthful
<1>12. DecisionsFresh'
  BY <1>9 DEF IInv, DecisionsFresh
<1> QED BY <1>4, <1>8, <1>10, <1>11, <1>12 DEF Base, IInv

(* the evaluation of the cycle, *)
LEMMA EvaluateCycleKeepsIInv ==
  ASSUME IInv, EvaluateCycle
  PROVE  IInv'
<1> USE ConstantFacts DEF EvaluateCycle, Gathered
<1>1. TypeOK /\ CollectedInTime /\ FetchedInOrder /\ SampledInTime
  BY DEF IInv
<1>2. /\ NotCollected.kind = "none" /\ NotCollected.observed_at = 0
      /\ NotCollected.features = NoFeatures /\ StateTyped(NotCollected)
  BY ReturnedFacts, NothingTyped DEF NotCollected, StateTyped
<1>3. state' = [c \in Buckets |-> NotCollected] /\ \A c \in Buckets : state'[c] = NotCollected
  OBVIOUS
<1>4. TypeOK'
  BY <1>1, <1>2, <1>3 DEF TypeOK
<1>5. CollectedInTime'
  BY <1>1, <1>2, <1>3 DEF CollectedInTime, TypeOK
<1>6. FetchedInOrder'
  BY <1>1 DEF FetchedInOrder
<1>7. SampledInTime'
  <2>1. \A c \in Buckets : got[c]["BINANCE_DEPTH"] # "ok"
    <3>1. \A c \in Buckets : got[c] = Nothing
      BY <1>1 DEF FetchedInOrder
    <3> QED BY <3>1, NothingTyped, FetchesFacts
  <2> QED BY <2>1 DEF SampledInTime
<1>8. HistoriesOrdered' /\ DiagnosticEmbedded'
  BY DEF IInv, HistoriesOrdered, NearlyOrdered, DiagnosticEmbedded
<1>9. SnapshotEndsAtOwnDepth'
  BY <1>2, <1>3 DEF SnapshotEndsAtOwnDepth, Built, NoFeatures
<1>10. HistoryAgeBounded'
  BY DEF HistoryAgeBounded, JustBuilt
<1>11. ReportsTruthful'
  BY <1>2, <1>3 DEF ReportsTruthful
<1>12. DecisionsFresh'
  <2>1. ASSUME NEW c \in Buckets PROVE FreshDecision(Evaluated(c, state[c]))
    <3>1. /\ StateTyped(state[c]) /\ state[c].kind \notin {"none", "raised"}
          /\ selected_at <= state[c].observed_at /\ now <= selected_at + CollectTimeout
          /\ now \in Nat /\ selected_at \in Nat
      BY <1>1 DEF TypeOK, CollectedInTime, Deadline
    <3>2. now - state[c].observed_at <= CollectTimeout
      BY <3>1 DEF StateTyped
    <3> QED BY <3>1, <3>2, EvaluatedFresh
  <2>2. \A c \in Buckets : decision'[c] = Evaluated(c, state[c])
    OBVIOUS
  <2> QED BY <2>1, <2>2 DEF DecisionsFresh
<1> QED BY <1>4, <1>5, <1>6, <1>7, <1>8, <1>9, <1>10, <1>11, <1>12 DEF IInv

(* the start of the next one, *)
LEMMA BeginCycleKeepsIInv ==
  ASSUME IInv, BeginCycle
  PROVE  IInv'
<1> USE ConstantFacts, FetchesFacts DEF BeginCycle
<1>1. TypeOK /\ CollectedInTime /\ FetchedInOrder /\ SampledInTime
  BY DEF IInv
<1>2. \A c \in Buckets : step[c] = 0 /\ state[c] = NotCollected /\ got[c] = Nothing /\ step'[c] = 1
  BY <1>1 DEF CollectedInTime, FetchedInOrder
<1>3. /\ NotCollected.kind = "none" /\ NotCollected.features = NoFeatures
  BY ReturnedFacts DEF NotCollected
<1>4. TypeOK'
  BY <1>1 DEF TypeOK
<1>5. CollectedInTime'
  BY <1>1, <1>2 DEF CollectedInTime, Deadline, TypeOK
<1>6. FetchedInOrder'
  <2>1. \A c \in Buckets, i \in 1..8 : got'[c][Fetches[i]] = "none" /\ ~(i < step'[c])
    BY <1>2, NothingTyped
  <2> QED BY <1>2, <2>1 DEF FetchedInOrder
<1>7. SampledInTime'
  <2>1. \A c \in Buckets : got[c]["BINANCE_DEPTH"] # "ok"
    BY <1>2, NothingTyped
  <2> QED BY <2>1 DEF SampledInTime
<1>8. HistoriesOrdered' /\ DiagnosticEmbedded' /\ SnapshotEndsAtOwnDepth' /\ ReportsTruthful'
  BY DEF IInv, HistoriesOrdered, NearlyOrdered, DiagnosticEmbedded, SnapshotEndsAtOwnDepth, Built,
         ReportsTruthful
<1>9. HistoryAgeBounded'
  BY <1>2, <1>3, SMTT(20) DEF HistoryAgeBounded, JustBuilt, Built, NoFeatures
<1>10. DecisionsFresh'
  <2>1. FreshDecision(NoDecision)
    BY DEF FreshDecision, NoDecision
  <2> QED BY <2>1 DEF DecisionsFresh
<1> QED BY <1>4, <1>5, <1>6, <1>7, <1>8, <1>9, <1>10 DEF IInv

(* a tick, *)
LEMMA TickKeepsIInv ==
  ASSUME IInv, Tick
  PROVE  IInv'
<1> USE ConstantFacts DEF Tick
<1>1. TypeOK /\ CollectedInTime /\ FetchedInOrder /\ SampledInTime /\ HistoriesOrdered
  BY DEF IInv
<1>2. now \in Nat /\ now' = now + 1 /\ now' \in 0..MaxNow
  BY <1>1 DEF TypeOK
<1>3. TypeOK'
  BY <1>1, <1>2 DEF TypeOK
<1>4. CollectedInTime'
  <2>1. \A b \in Buckets : state[b].observed_at \in Nat /\ state[b].observed_at <= now
    BY <1>1 DEF CollectedInTime, TypeOK, StateTyped
  <2>2. \A b \in Buckets : state'[b].observed_at <= now'
    BY <1>2, <2>1
  <2>3. selected_at \in Nat
    BY <1>1 DEF TypeOK
  <2>4. phase = "collecting" => selected_at <= now' /\ now' <= Deadline
    BY <1>1, <1>2, <2>3 DEF CollectedInTime, Deadline
  <2> QED BY <1>1, <2>2, <2>4 DEF CollectedInTime, Deadline
<1>5. FetchedInOrder'
  BY <1>1 DEF FetchedInOrder
<1>6. SampledInTime'
  <2>1. ASSUME NEW b \in Buckets, got[b]["BINANCE_DEPTH"] = "ok",
               NEW p \in {sample[b].reference, sample[b].book}
        PROVE  selected_at <= p.ts /\ p.ts <= now + 1
    <3>1. p \in Points
      BY <1>1, <2>1 DEF TypeOK, Samples
    <3>2. p.ts \in Nat
      BY <3>1, TimesTyped
    <3> QED BY <1>1, <1>2, <2>1, <3>2 DEF SampledInTime
  <2> QED BY <1>2, <2>1 DEF SampledInTime
<1>7. HistoriesOrdered'
  <2>1. ASSUME NEW queue \in Seq(Points), NearlyOrdered(queue)
        PROVE  \A i \in DOMAIN queue : queue[i].ts <= now + 1
    BY <1>2, <2>1, TimesTyped DEF NearlyOrdered
  <2>2. production.references \in Seq(Points) /\ production.books \in Seq(Points)
    BY <1>1 DEF TypeOK, Histories
  <2> QED BY <1>1, <1>2, <2>1, <2>2 DEF HistoriesOrdered, NearlyOrdered
<1>8. DiagnosticEmbedded' /\ SnapshotEndsAtOwnDepth' /\ ReportsTruthful' /\ DecisionsFresh'
  BY DEF IInv, DiagnosticEmbedded, SnapshotEndsAtOwnDepth, Built, ReportsTruthful, DecisionsFresh
<1>9. HistoryAgeBounded'
  <2>1. \A b \in Buckets : state[b].observed_at \in Nat /\ state[b].observed_at <= now
    BY <1>1 DEF CollectedInTime, TypeOK, StateTyped
  <2>2. \A b \in Buckets : state'[b].observed_at # now'
    BY <1>2, <2>1
  <2> QED BY <2>2 DEF HistoryAgeBounded, JustBuilt
<1> QED BY <1>3, <1>4, <1>5, <1>6, <1>7, <1>8, <1>9 DEF IInv

(* and the end of the process. *)
LEMMA StopKeepsIInv ==
  ASSUME IInv, StopOnException
  PROVE  IInv'
<1> USE DEF StopOnException, Gathered
<1>1. TypeOK' /\ CollectedInTime' /\ FetchedInOrder' /\ SampledInTime'
  BY DEF IInv, TypeOK, CollectedInTime, FetchedInOrder, SampledInTime
<1>2. /\ HistoriesOrdered' /\ DiagnosticEmbedded' /\ SnapshotEndsAtOwnDepth'
      /\ ReportsTruthful' /\ DecisionsFresh'
  BY DEF IInv, HistoriesOrdered, NearlyOrdered, DiagnosticEmbedded, SnapshotEndsAtOwnDepth, Built,
         ReportsTruthful, DecisionsFresh
<1>3. HistoryAgeBounded'
  BY DEF HistoryAgeBounded, JustBuilt
<1> QED BY <1>1, <1>2, <1>3 DEF IInv

(* The initial states satisfy the inductive invariant. *)
LEMMA InitIInv == ASSUME Init PROVE IInv
<1>1. Base
  BY InitBase
<1>2. HistoriesOrdered
  BY DEF Init, HistoriesOrdered, NearlyOrdered, EmptyHistory
<1>3. DiagnosticEmbedded
  <2> DEFINE none == [i \in {} |-> 0]
  <2>1. none \in [DOMAIN <<>> -> DOMAIN <<>>] /\ EmbedsBy(none, <<>>, <<>>)
    BY DEF EmbedsBy
  <2> HIDE DEF none
  <2>2. Embedded(<<>>, <<>>)
    BY <2>1 DEF Embedded
  <2> QED BY <2>2 DEF Init, DiagnosticEmbedded, EmptyHistory
<1>4. \A b \in Buckets : /\ state[b].kind = "none" /\ state[b].features = NoFeatures
                          /\ decision[b] = NoDecision
  BY ReturnedFacts DEF Init, NotCollected
<1>5. SnapshotEndsAtOwnDepth /\ HistoryAgeBounded
  BY <1>4 DEF SnapshotEndsAtOwnDepth, HistoryAgeBounded, JustBuilt, Built, NoFeatures
<1>6. ReportsTruthful
  BY <1>4 DEF ReportsTruthful
<1>7. DecisionsFresh
  BY <1>4, ConstantFacts DEF DecisionsFresh, FreshDecision, NoDecision
<1> QED BY <1>1, <1>2, <1>3, <1>5, <1>6, <1>7 DEF Base, IInv

(* Every step keeps it. *)
LEMMA NextIInv == ASSUME IInv, [Next]_vars PROVE IInv'
<1>1. Base
  BY DEF Base, IInv
<1>2. ASSUME NEW b \in Buckets, NEW f \in FetchNames, Fetch(b, f) PROVE IInv'
  <2>1. Base'
    BY <1>1, <1>2, FetchKeepsBase
  <2>2. UNCHANGED <<now, phase, state, production, diagnostic, decision>>
    BY <1>2 DEF Fetch, Continue
  <2> QED BY <2>1, <2>2, UnchangedParts DEF Base, IInv
<1>3. ASSUME NEW b \in Buckets, FetchDepth(b) PROVE IInv'
  <2>1. Base'
    BY <1>1, <1>3, FetchDepthKeepsBase
  <2>2. UNCHANGED <<now, phase, state, production, diagnostic, decision>>
    BY <1>3 DEF FetchDepth, Continue
  <2> QED BY <2>1, <2>2, UnchangedParts DEF Base, IInv
<1>4. CASE UNCHANGED vars
  <2>1. Base'
    BY <1>1, <1>4 DEF vars, Base, TypeOK, CollectedInTime, Deadline, FetchedInOrder, SampledInTime
  <2> QED BY <1>4, <2>1, UnchangedParts DEF vars, Base, IInv
<1>5. CASE Next
  BY <1>2, <1>3, <1>5, NoFetchesKeepIInv, FetchTradeKeepsIInv, StopKeepsIInv,
     EvaluateCycleKeepsIInv, BeginCycleKeepsIInv, TickKeepsIInv DEF Next
<1> QED BY <1>4, <1>5

-----------------------------------------------------------------------------
(* The results. *)

(* The inductive invariant holds of collect_bucket, run_once and run_forever. *)
THEOREM CollectionInvariance == Spec => []IInv
<1>1. Init => IInv
  BY InitIInv
<1>2. IInv /\ [Next]_vars => IInv'
  BY NextIInv
<1> QED BY <1>1, <1>2, PTL DEF Spec

(* Types: what collect_bucket returns, samples and keeps. *)
THEOREM CollectionTypes == Spec => []TypeOK
<1>1. IInv => TypeOK
  BY DEF IInv
<1> QED BY <1>1, CollectionInvariance, PTL

(* The deduplicating history that features/temporal.py keeps beside the production one is a
   subsequence of it, however the coroutines interleave and whatever is pruned. *)
THEOREM ComparesDeduplicationAlone == Spec => []DiagnosticIsSubsequence
<1>1. IInv => DiagnosticIsSubsequence
  <2> SUFFICES ASSUME IInv PROVE DiagnosticIsSubsequence
    OBVIOUS
  <2>1. production \in Histories /\ diagnostic \in Histories
    BY DEF IInv, TypeOK
  <2> QED BY <2>1, EmbeddedIsSubsequence
         DEF IInv, DiagnosticEmbedded, DiagnosticIsSubsequence, Histories
<1> QED BY <1>1, CollectionInvariance, PTL

(* _build_directional_features takes its newest return at its own bucket's depth. *)
THEOREM SnapshotsAreOfOwnDepth == Spec => []SnapshotEndsAtOwnDepth
<1>1. IInv => SnapshotEndsAtOwnDepth
  BY DEF IInv
<1> QED BY <1>1, CollectionInvariance, PTL

(* At the time features are built, the history they are built from has no reference and no
   book older than max_age plus the collection timeout (_prune). *)
THEOREM HistoriesAreYoung == Spec => []HistoryAgeBounded
<1>1. IInv => HistoryAgeBounded
  BY DEF IInv
<1> QED BY <1>1, CollectionInvariance, PTL

(* _pipeline_payload says READY of what was parsed, and of nothing else, and
   _first_failure_reason names the first fetch whose data is missing. *)
THEOREM PipelineEventsAreTruthful == Spec => []ReportsTruthful
<1>1. IInv => ReportsTruthful
  BY DEF IInv
<1> QED BY <1>1, CollectionInvariance, PTL

(* _evaluate_structural prices paired books only, although it runs after the gather, and none
   of the books and fees it prices exceeds its maximal age by more than the timeout. *)
THEOREM PricesFreshBooks == Spec => []DecisionsFresh
<1>1. IInv => DecisionsFresh
  BY DEF IInv
<1> QED BY <1>1, CollectionInvariance, PTL
=============================================================================
