-------------------------- MODULE PaperDaemonProofs ---------------------------
(***************************************************************************)
(* Proofs about PaperDaemon, for any buckets, windows, offers, limits,     *)
(* answers of the resolver and number of crashes: a condition is traded    *)
(* directionally at most once, every settlement names the official winner  *)
(* of an ended window, the queue strands no trade, and snapshots match     *)
(* executions.                                                             *)
(***************************************************************************)
EXTENDS PaperDaemon, FiniteLemmas, TLAPS

-----------------------------------------------------------------------------
(* The tables. *)

(* What the constants are, one by one. *)
LEMMA ConstantFacts ==
  /\ BucketOrder \in Seq(Buckets) /\ Len(BucketOrder) \in Nat \ {0}
  /\ \A i, j \in DOMAIN BucketOrder : BucketOrder[i] = BucketOrder[j] => i = j
  /\ DOMAIN BucketOrder = 1..Len(BucketOrder)
  /\ OpensAt \in [Conditions -> Nat] /\ ClosesAt \in [Conditions -> Nat]
  /\ NoRow # Missing /\ Missing \notin Sides
  /\ MaxNow \in Nat
<1>1. BucketOrder \in Seq(Buckets) /\ BucketOrder # <<>> /\ IsInjective(BucketOrder)
  BY DaemonConstants DEF DaemonConstants, Buckets
<1>2. \A i, j \in DOMAIN BucketOrder : BucketOrder[i] = BucketOrder[j] => i = j
  BY <1>1 DEF IsInjective
<1>3. Len(BucketOrder) \in Nat \ {0} /\ DOMAIN BucketOrder = 1..Len(BucketOrder)
  BY <1>1
<1>4. /\ OpensAt \in [Conditions -> Nat] /\ ClosesAt \in [Conditions -> Nat]
      /\ NoRow # Missing /\ Missing \notin Sides /\ MaxNow \in Nat
  BY DaemonConstants DEF DaemonConstants, Sides
<1> QED BY <1>1, <1>2, <1>3, <1>4

(* Delays are natural numbers. *)
LEMMA DelaysAreNaturals == PendingDelay \in Nat /\ RetryDelay \in Nat
BY DaemonConstants DEF DaemonConstants

(* An offer or an opportunity has a positive cost and pays in whole shares. *)
LEMMA CostsArePositive ==
  /\ \A offer \in Offers : /\ offer.side \in Sides
                           /\ EffectiveCost(offer) \in Nat \ {0}
                           /\ PayoutPerCost * EffectiveCost(offer) \in Nat
  /\ StructuralCost \in Nat \ {0} /\ PayoutPerCost * StructuralCost \in Nat
<1>1. Offers \subseteq [cost : Nat \ {0}, side : {"UP", "DOWN"}, baseline : BOOLEAN]
  BY DaemonConstants DEF DaemonConstants
<1>2. StructuralCost \in Nat \ {0} /\ PayoutPerCost \in Nat \ {0} /\ ReducedStake \in Nat \ {0}
  BY DaemonConstants DEF DaemonConstants
<1>3. ASSUME NEW offer \in Offers
      PROVE  offer.side \in Sides /\ EffectiveCost(offer) \in Nat \ {0}
  BY <1>1, <1>2 DEF EffectiveCost, Sides
<1>4. \A x \in Nat \ {0} : PayoutPerCost * x \in Nat
  BY <1>2
<1> QED BY <1>2, <1>3, <1>4

(* Appending a row adds it to the rows. *)
LEMMA RowsOfAppend ==
  ASSUME NEW S, NEW table \in Seq(S), NEW row \in S
  PROVE  /\ Append(table, row) \in Seq(S)
         /\ DOMAIN Append(table, row) = DOMAIN table \cup {Len(table) + 1}
         /\ Len(table) + 1 \notin DOMAIN table
         /\ Append(table, row)[Len(table) + 1] = row
         /\ \A i \in DOMAIN table : Append(table, row)[i] = table[i]
         /\ Rows(Append(table, row)) = Rows(table) \cup {row}
<1>1. /\ Append(table, row) \in Seq(S)
      /\ DOMAIN Append(table, row) = DOMAIN table \cup {Len(table) + 1}
      /\ Len(table) + 1 \notin DOMAIN table
      /\ Append(table, row)[Len(table) + 1] = row
      /\ \A i \in DOMAIN table : Append(table, row)[i] = table[i]
  OBVIOUS
<1> DEFINE longer == Append(table, row)
<1> HIDE DEF longer
<1>2. Rows(longer) = Rows(table) \cup {row}
  BY <1>1 DEF Rows, longer
<1> QED BY <1>1, <1>2 DEF longer

(* An open directional trade is a directional row no settlement belongs to. *)
LEMMA OpenFacts ==
  ASSUME NEW tr, NEW se, NEW t
  PROVE  t \in OpenOf("DIRECTIONAL_EDGE", tr, se) <=>
           /\ t \in Rows(tr) /\ t.strategy = "DIRECTIONAL_EDGE"
           /\ \A s \in Rows(se) : s.trade_id # TradeId(t)
<1>1. StatusOf(t, se) = "OPEN" <=> \A s \in Rows(se) : s.trade_id # TradeId(t)
  BY DEF StatusOf, SettlementOf
<1> QED BY <1>1 DEF OpenOf, OpenTrades

(* The primary key of a snapshot tells its strategy, market and time. *)
LEMMA IdFacts ==
  ASSUME NEW t, NEW u, TradeId(t) = TradeId(u)
  PROVE  t.strategy = u.strategy /\ t.condition_id = u.condition_id
         /\ t.observed_at = u.observed_at
BY DEF TradeId

(* A recorded trade is one on a market, with an id of the table. *)
LEMMA RowsTyped ==
  ASSUME TypeOK, NEW t \in Rows(trades)
  PROVE  /\ t \in Trade /\ t.condition_id \in Conditions
         /\ TradeId(t) \in Id /\ t.shares \in Nat /\ t.cost_basis \in Nat
<1>1. trades \in Seq(Trade)
  BY DEF TypeOK
<1>2. t \in Trade
  BY <1>1 DEF Rows
<1>3. t.condition_id \in Conditions /\ t.strategy \in Strategies /\ t.observed_at \in 0..MaxNow
      /\ t.shares \in Nat /\ t.cost_basis \in Nat
  BY <1>2 DEF Trade
<1> QED BY <1>2, <1>3 DEF TradeId, Id

(* Recording an attempt gives the scanned condition a row and leaves the others alone. *)
LEMMA RecordAttemptFacts ==
  ASSUME TypeOK, scan \in [condition_id : Conditions, now : 0..MaxNow],
         NEW state \in {"PENDING", "BLOCKED_RETRYABLE", "BLOCKED_PERMANENT", "SETTLED"},
         NEW at \in (0..MaxNow) \cup {Missing}, RecordAttempt(state, at)
  PROVE  /\ attempts' \in [Conditions -> Attempt \cup {NoRow}]
         /\ attempts'[scan.condition_id].state = state
         /\ \A c \in Conditions : c # scan.condition_id => attempts'[c] = attempts[c]
<1> DEFINE c == scan.condition_id
           new == [state |-> state, wait |-> Wait(state),
                   last_successful_settlement_at |->
                     IF at # Missing \/ attempts[c] = NoRow THEN at
                     ELSE attempts[c].last_successful_settlement_at]
<1>1. attempts' = [attempts EXCEPT ![c] = new] /\ c \in Conditions
  BY DEF RecordAttempt, Attempted
<1>2. Wait(state) \in 0..(PendingDelay + RetryDelay)
  <2>1. cycle_ticks \in Nat
    BY DEF TypeOK
  <2> QED BY <2>1, DelaysAreNaturals DEF Wait
<1>3. new.last_successful_settlement_at \in (0..MaxNow) \cup {Missing}
  <2>1. attempts[c] \in Attempt \cup {NoRow}
    BY <1>1 DEF TypeOK
  <2> QED BY <2>1 DEF Attempt
<1>4. new \in Attempt
  BY <1>2, <1>3 DEF Attempt
<1>5. new.state = state
  OBVIOUS
<1> HIDE DEF new
<1> QED BY <1>1, <1>4, <1>5 DEF TypeOK

-----------------------------------------------------------------------------
(* Steps that write no trade and no settlement. *)

(* What crashes left behind bounds what lacks a snapshot. *)
LEMMA UnrecordedBound ==
  ASSUME LeftBehind, crashes \in Nat
  PROVE  /\ IsFiniteSet(Unrecorded) /\ Cardinality(Unrecorded) \in Nat
         /\ Cardinality(Unrecorded) <= crashes + (IF pc = "recording" THEN 1 ELSE 0)
<1>1. IsFiniteSet(Unrecorded)
  <2>1. Unrecorded \subseteq executions
    BY DEF Unrecorded
  <2> QED BY <2>1, FS_Subset DEF LeftBehind
<1>2. Cardinality(Unrecorded) \in Nat
  BY <1>1, FS_CardinalityType
<1>3. CASE pc # "recording"
  <2>1. Unrecorded \ BeingRecorded = Unrecorded
    BY <1>3 DEF BeingRecorded
  <2> QED BY <1>1, <1>2, <1>3, <2>1 DEF LeftBehind
<1>4. CASE pc = "recording"
  <2>1. PICK e : BeingRecorded = {e}
    BY <1>4 DEF LeftBehind, BeingRecorded
  <2>2. IsFiniteSet(Unrecorded \ {e}) /\ Cardinality(Unrecorded \ {e}) \in Nat
    BY <1>1, FS_Subset, FS_CardinalityType
  <2>3. Cardinality(Unrecorded \ {e}) <= crashes
    BY <2>1 DEF LeftBehind
  <2>4. Cardinality((Unrecorded \ {e}) \cup {e}) <= Cardinality(Unrecorded \ {e}) + 1
    BY <2>2, FS_AddElement
  <2>5. CASE e \in Unrecorded
    <3>1. (Unrecorded \ {e}) \cup {e} = Unrecorded
      BY <2>5
    <3> QED BY <1>1, <1>2, <1>4, <2>2, <2>3, <2>4, <3>1
  <2>6. CASE e \notin Unrecorded
    <3>1. Unrecorded \ {e} = Unrecorded
      BY <2>6
    <3> QED BY <1>1, <1>2, <1>4, <2>3, <3>1
  <2> QED BY <2>5, <2>6
<1> QED BY <1>3, <1>4

(* The queue and the trades a step leaves alone stay as they were. *)
LEMMA QueueKept ==
  ASSUME IInv, UNCHANGED <<trades, settlements, attempts, now>>
  PROVE  QueuedHasEnded' /\ NoTradeStranded'
         /\ attempts' \in [Conditions -> Attempt \cup {NoRow}]
BY DEF IInv, TypeOK, QueuedHasEnded, NoTradeStranded, DirectionalOpen, OpenOf, OpenTrades,
       StatusOf, SettlementOf

(* A step of the coroutine, or its end, that records no entry. *)
LEMMA CoroutineStep ==
  ASSUME IInv, UNCHANGED <<executions, trades, settlements, official, now>>,
         QueuedHasEnded', NoTradeStranded',
         attempts' \in [Conditions -> Attempt \cup {NoRow}],
         cycle_ticks' \in Nat,
         crashes' = crashes \/ crashes' = crashes + 1,
         pc = "recording" => crashes' = crashes + 1,
         pc' \in {"idle", "resolving", "settling", "collecting", "evaluating"},
         pc' \in {"resolving", "settling"} =>
           /\ scan' \in [condition_id : Conditions, now : 0..MaxNow]
           /\ ClosesAt[scan'.condition_id] <= scan'.now /\ scan'.now <= now,
         pc' = "settling" => official[scan'.condition_id] # Missing,
         observed' \in [Buckets -> Observation \cup {NoRow, Missing}],
         leg' \in 1..(2 * Len(BucketOrder)),
         CollectedBeforeEvaluated'
  PROVE  IInv'
<1> USE DEF IInv
<1>1. TypeOK'
  BY DEF TypeOK
<1>2. ScannedHasEnded'
  BY DEF ScannedHasEnded
<1>3. PendingIsFirst'
  BY DEF PendingIsFirst
<1>4. OneSnapshotPerCondition' /\ SettledByOfficialWinner'
  BY DEF OneSnapshotPerCondition, SettledByOfficialWinner, Rows
<1>5. LeftBehind'
  <2>1. BeingRecorded' = {} /\ Unrecorded' = Unrecorded
    BY DEF BeingRecorded, Unrecorded, Rows
  <2>2. Cardinality(Unrecorded) \in Nat /\ crashes \in Nat
        /\ Cardinality(Unrecorded) <= crashes + (IF pc = "recording" THEN 1 ELSE 0)
    BY UnrecordedBound DEF TypeOK
  <2>3. Cardinality(Unrecorded) <= crashes'
    BY <2>2
  <2>4. Unrecorded' \ BeingRecorded' = Unrecorded
    BY <2>1
  <2>5. Cardinality(Unrecorded' \ BeingRecorded') <= crashes'
    BY <2>3, <2>4
  <2> QED BY <2>5 DEF LeftBehind, Rows
<1> QED BY <1>1, <1>2, <1>3, <1>4, <1>5

(* The start of a cycle, with or without a settlement pass. *)
LEMMA StartCycleKeepsIInv == ASSUME IInv, StartCycle PROVE IInv'
<1> USE DEF IInv
<1>1. UNCHANGED <<tables, official, now, crashes, observed, leg>> /\ cycle_ticks' = 0
      /\ pc = "idle"
  BY DEF StartCycle, SelectMarkets
<1>2. pc' \in {"collecting", "resolving"}
  BY DEF StartCycle, SelectMarkets
<1>3. pc' = "resolving" =>
        /\ scan' \in [condition_id : Conditions, now : 0..MaxNow]
        /\ ClosesAt[scan'.condition_id] <= scan'.now /\ scan'.now <= now
  <2> SUFFICES ASSUME pc' = "resolving"
               PROVE  /\ scan' \in [condition_id : Conditions, now : 0..MaxNow]
                      /\ ClosesAt[scan'.condition_id] <= scan'.now /\ scan'.now <= now
    OBVIOUS
  <2>1. PICK t \in DueTrades : scan' = [condition_id |-> t.condition_id, now |-> now]
    BY DEF StartCycle, SelectMarkets
  <2>2. t \in OpenOf("DIRECTIONAL_EDGE", trades, settlements) /\ Ended(t)
    BY <2>1 DEF DueTrades, Candidates
  <2>3. t \in Rows(trades)
    BY <2>2, OpenFacts
  <2>4. t.condition_id \in Conditions /\ now \in 0..MaxNow
    BY <2>3, RowsTyped DEF TypeOK
  <2> QED BY <2>1, <2>2, <2>4, ConstantFacts DEF Ended
<1>4. observed' \in [Buckets -> Observation \cup {NoRow, Missing}]
      /\ leg' \in 1..(2 * Len(BucketOrder))
  BY <1>1 DEF TypeOK
<1>5. CollectedBeforeEvaluated'
  BY <1>2 DEF CollectedBeforeEvaluated
<1>6. QueuedHasEnded' /\ NoTradeStranded' /\ attempts' \in [Conditions -> Attempt \cup {NoRow}]
  BY <1>1, QueueKept DEF tables
<1> QED BY <1>1, <1>2, <1>3, <1>4, <1>5, <1>6, CoroutineStep DEF tables

(* Going on to collect, with an attempt recorded or not. *)
LEMMA SelectMarketsKeepsIInv ==
  ASSUME IInv, pc \in {"resolving", "settling"}, SelectMarkets,
         UNCHANGED <<executions, trades, settlements, world>>,
         attempts' \in [Conditions -> Attempt \cup {NoRow}],
         QueuedHasEnded', NoTradeStranded'
  PROVE  IInv'
<1> USE DEF IInv
<1>1. pc' = "collecting" /\ UNCHANGED <<observed, leg, official, cycle_ticks, now, crashes>>
  BY DEF SelectMarkets, world
<1>2. observed' \in [Buckets -> Observation \cup {NoRow, Missing}]
      /\ leg' \in 1..(2 * Len(BucketOrder)) /\ cycle_ticks' \in Nat
  BY <1>1 DEF TypeOK
<1>3. CollectedBeforeEvaluated'
  BY <1>1 DEF CollectedBeforeEvaluated
<1> QED BY <1>1, <1>2, <1>3, CoroutineStep

(* An attempt of the pass is about a window that has ended; a SETTLED one strands no trade
   when none is open on its condition. *)
LEMMA AttemptKeepsIInv ==
  ASSUME IInv, pc \in {"resolving", "settling"}, SelectMarkets,
         UNCHANGED <<executions, trades, settlements, world>>,
         NEW state \in {"PENDING", "BLOCKED_RETRYABLE", "BLOCKED_PERMANENT", "SETTLED"},
         NEW at \in {scan.now, Missing}, RecordAttempt(state, at),
         state = "SETTLED" => \A t \in DirectionalOpen : t.condition_id # scan.condition_id
  PROVE  IInv'
<1> USE DEF IInv
<1>1. scan \in [condition_id : Conditions, now : 0..MaxNow] /\ at \in (0..MaxNow) \cup {Missing}
  BY DEF TypeOK
<1>2. /\ attempts' \in [Conditions -> Attempt \cup {NoRow}]
      /\ attempts'[scan.condition_id].state = state
      /\ \A c \in Conditions : c # scan.condition_id => attempts'[c] = attempts[c]
  BY <1>1, RecordAttemptFacts
<1>3. QueuedHasEnded'
  <2>1. ClosesAt[scan.condition_id] <= now
    <3>1. ClosesAt[scan.condition_id] \in Nat /\ scan.now \in Nat /\ now \in Nat
      BY <1>1, ConstantFacts DEF TypeOK
    <3>2. ClosesAt[scan.condition_id] <= scan.now /\ scan.now <= now
      BY DEF ScannedHasEnded
    <3> QED BY <3>1, <3>2
  <2>2. now' = now
    BY DEF world
  <2> QED BY <1>2, <2>1, <2>2 DEF QueuedHasEnded
<1>4. NoTradeStranded'
  <2>1. DirectionalOpen' = DirectionalOpen
    BY DEF DirectionalOpen, OpenOf, OpenTrades, StatusOf, SettlementOf, Rows
  <2>2. \A t \in DirectionalOpen : t.condition_id \in Conditions
    BY OpenFacts, RowsTyped DEF DirectionalOpen
  <2> QED BY <1>2, <2>1, <2>2 DEF NoTradeStranded
<1> QED BY <1>2, <1>3, <1>4, SelectMarketsKeepsIInv

(* The resolver answers without a winner, or the pass is cancelled. *)
LEMMA ResolveKeepsIInv ==
  ASSUME IInv, (\E state \in Answers : ResolveWithoutWinner(state)) \/ ScanTimeout
  PROVE  IInv'
<1>1. ASSUME NEW state \in Answers, ResolveWithoutWinner(state) PROVE IInv'
  <2>1. state \in {"PENDING", "BLOCKED_RETRYABLE", "BLOCKED_PERMANENT"}
    BY DaemonConstants DEF DaemonConstants
  <2>2. /\ pc = "resolving" /\ RecordAttempt(state, Missing) /\ SelectMarkets
        /\ UNCHANGED <<executions, trades, settlements, world>>
    BY <1>1 DEF ResolveWithoutWinner
  <2> QED BY <2>1, <2>2, AttemptKeepsIInv
<1>2. CASE ScanTimeout
  <2>1. pc = "resolving" /\ SelectMarkets /\ UNCHANGED <<tables, world>>
    BY <1>2 DEF ScanTimeout
  <2>2. UNCHANGED <<trades, settlements, attempts, now>>
    BY <2>1 DEF tables, world
  <2>3. QueuedHasEnded' /\ NoTradeStranded'
        /\ attempts' \in [Conditions -> Attempt \cup {NoRow}]
    BY <2>2, QueueKept
  <2> QED BY <2>1, <2>3, SelectMarketsKeepsIInv DEF tables
<1> QED BY <1>1, <1>2

(* The end of a settlement pass. *)
LEMMA FinishSettlementKeepsIInv == ASSUME IInv, FinishSettlement PROVE IInv'
<1>1. /\ pc = "settling" /\ SelectMarkets
      /\ UNCHANGED <<executions, trades, settlements, world>>
      /\ \A t \in DirectionalOpen : t.condition_id # scan.condition_id
  BY DEF FinishSettlement, DirectionalOpen
<1>2. CASE RecordAttempt("SETTLED", scan.now)
  BY <1>1, <1>2, AttemptKeepsIInv
<1>3. CASE RecordAttempt("BLOCKED_RETRYABLE", Missing)
  BY <1>1, <1>3, AttemptKeepsIInv
<1> QED BY <1>2, <1>3 DEF FinishSettlement

(* Collecting a bucket never takes back what is collected. *)
LEMMA CollectBucketKeepsIInv ==
  ASSUME IInv, NEW b \in Buckets, CollectBucket(b)
  PROVE  IInv'
<1> USE DEF IInv
<1>1. /\ pc = "collecting" /\ UNCHANGED <<tables, pc, scan, selected_at, leg, pending, world>>
  BY DEF CollectBucket
<1>2. observed' \in [Buckets -> Observation \cup {NoRow, Missing}]
  <2>1. PICK state \in {Missing} \cup [condition_id : Conditions, observed_at : {now}] :
          observed' = [observed EXCEPT ![b] = state]
    BY DEF CollectBucket
  <2>2. state \in Observation \cup {Missing}
    BY <2>1 DEF Observation, TypeOK
  <2> QED BY <2>1, <2>2 DEF TypeOK
<1>3. CollectedBeforeEvaluated'
  BY <1>1 DEF CollectedBeforeEvaluated
<1>4. UNCHANGED <<executions, trades, settlements, attempts, official, now, crashes, cycle_ticks>>
  BY <1>1 DEF tables, world
<1>5. QueuedHasEnded' /\ NoTradeStranded' /\ attempts' \in [Conditions -> Attempt \cup {NoRow}]
  BY <1>4, QueueKept
<1>6. leg' \in 1..(2 * Len(BucketOrder)) /\ cycle_ticks' \in Nat
  BY <1>1, <1>4 DEF TypeOK
<1> QED BY <1>1, <1>2, <1>3, <1>4, <1>5, <1>6, CoroutineStep

(* When gather returns every bucket has its state, or is known to have none. *)
LEMMA StartEvaluationKeepsIInv == ASSUME IInv, StartEvaluation PROVE IInv'
<1> USE DEF IInv
<1>1. /\ pc = "collecting" /\ pc' = "evaluating" /\ \A b \in Buckets : observed[b] # NoRow
      /\ UNCHANGED <<tables, scan, observed, leg, pending, world>>
  BY DEF StartEvaluation
<1>2. CollectedBeforeEvaluated'
  <2>1. \A k \in DOMAIN BucketOrder : BucketOrder[k] \in Buckets
    BY ConstantFacts
  <2> QED BY <1>1, <2>1 DEF CollectedBeforeEvaluated
<1>3. UNCHANGED <<executions, trades, settlements, attempts, official, now, crashes, cycle_ticks>>
  BY <1>1 DEF tables, world
<1>4. QueuedHasEnded' /\ NoTradeStranded' /\ attempts' \in [Conditions -> Attempt \cup {NoRow}]
  BY <1>3, QueueKept
<1>5. /\ observed' \in [Buckets -> Observation \cup {NoRow, Missing}]
      /\ leg' \in 1..(2 * Len(BucketOrder)) /\ cycle_ticks' \in Nat
  BY <1>1, <1>3 DEF TypeOK
<1> QED BY <1>1, <1>2, <1>3, <1>4, <1>5, CoroutineStep

(* The next evaluation reads a state that was collected. *)
LEMMA NextLegFacts ==
  ASSUME TypeOK, CollectedBeforeEvaluated, pc \in {"evaluating", "recording"}, NextLeg
  PROVE  /\ pc' \in {"idle", "evaluating"}
         /\ leg' \in 1..(2 * Len(BucketOrder))
         /\ observed' \in [Buckets -> Observation \cup {NoRow, Missing}]
         /\ CollectedBeforeEvaluated'
<1> DEFINE N == Len(BucketOrder)
<1>1. leg \in 1..(2 * N) /\ N \in Nat \ {0} /\ DOMAIN BucketOrder = 1..N
  BY ConstantFacts DEF TypeOK
<1>2. leg' = (IF leg = 2 * N THEN 1 ELSE leg + 1)
      /\ pc' = (IF leg = 2 * N THEN "idle" ELSE "evaluating")
  BY DEF NextLeg
<1>3. leg' \in 1..(2 * N) /\ pc' \in {"idle", "evaluating"}
  BY <1>1, <1>2
<1>4. PICK k \in 1..N : leg = 2 * k - 1 \/ leg = 2 * k
  <2>1. (leg + 1) \div 2 \in 1..N
        /\ (leg = 2 * ((leg + 1) \div 2) - 1 \/ leg = 2 * ((leg + 1) \div 2))
    BY <1>1
  <2> QED BY <2>1
<1>5. observed \in [Buckets -> Observation \cup {NoRow, Missing}]
  BY DEF TypeOK
<1>6. CASE leg = 2 * k - 1
  <2>1. Directional
    BY <1>4, <1>6 DEF Directional
  <2>2. observed' = observed
    BY <2>1 DEF NextLeg
  <2>3. ASSUME NEW j \in DOMAIN BucketOrder, leg' <= 2 * j, pc' = "evaluating"
        PROVE  observed[BucketOrder[j]] # NoRow
    <3>1. leg <= 2 * j
      BY <1>1, <1>2, <1>4, <1>6, <2>3
    <3> QED BY <3>1 DEF CollectedBeforeEvaluated
  <2>4. CollectedBeforeEvaluated'
    BY <1>3, <2>2, <2>3 DEF CollectedBeforeEvaluated
  <2> QED BY <1>3, <1>5, <2>2, <2>4
<1>7. CASE leg = 2 * k
  <2>1. ~Directional /\ leg \div 2 = k
    BY <1>4, <1>7 DEF Directional
  <2>2. observed' = [observed EXCEPT ![BucketOrder[k]] = NoRow]
    BY <2>1 DEF NextLeg
  <2>3. ASSUME NEW j \in DOMAIN BucketOrder, leg' <= 2 * j, pc' = "evaluating"
        PROVE  observed'[BucketOrder[j]] # NoRow
    <3>1. leg <= 2 * j /\ j # k
      BY <1>1, <1>2, <1>4, <1>7, <2>3
    <3>2. BucketOrder[j] # BucketOrder[k] /\ BucketOrder[j] \in Buckets
      BY <1>1, <3>1, ConstantFacts
    <3>3. observed'[BucketOrder[j]] = observed[BucketOrder[j]]
      BY <1>5, <2>2, <3>2
    <3> QED BY <3>1, <3>3 DEF CollectedBeforeEvaluated
  <2>4. CollectedBeforeEvaluated'
    BY <1>3, <2>3 DEF CollectedBeforeEvaluated
  <2>5. observed' \in [Buckets -> Observation \cup {NoRow, Missing}]
    BY <1>5, <2>2
  <2> QED BY <1>3, <2>4, <2>5
<1> QED BY <1>4, <1>6, <1>7

(* An abstention, or a process that dies: what is being recorded is left behind. *)
LEMMA AbstainOrCrashKeepsIInv == ASSUME IInv, Abstain \/ Crash PROVE IInv'
<1> USE DEF IInv
<1>1. UNCHANGED <<executions, trades, settlements, attempts, official, now, cycle_ticks>>
  BY DEF Abstain, Crash, tables, world
<1>2. QueuedHasEnded' /\ NoTradeStranded' /\ attempts' \in [Conditions -> Attempt \cup {NoRow}]
      /\ cycle_ticks' \in Nat
  BY <1>1, QueueKept DEF TypeOK
<1>3. CASE Abstain
  <2>1. pc = "evaluating" /\ NextLeg /\ crashes' = crashes
    BY <1>3 DEF Abstain, world
  <2>2. /\ pc' \in {"idle", "evaluating"}
        /\ leg' \in 1..(2 * Len(BucketOrder))
        /\ observed' \in [Buckets -> Observation \cup {NoRow, Missing}]
        /\ CollectedBeforeEvaluated'
    BY <2>1, NextLegFacts
  <2> QED BY <1>1, <1>2, <2>1, <2>2, CoroutineStep
<1>4. CASE Crash
  <2>1. pc' = "idle" /\ leg' = 1 /\ observed' = Uncollected /\ crashes' = crashes + 1
    BY <1>4 DEF Crash
  <2>2. observed' \in [Buckets -> Observation \cup {NoRow, Missing}]
        /\ leg' \in 1..(2 * Len(BucketOrder)) /\ CollectedBeforeEvaluated'
    BY <2>1, ConstantFacts DEF Uncollected, CollectedBeforeEvaluated
  <2> QED BY <1>1, <1>2, <2>1, <2>2, CoroutineStep
<1> QED BY <1>3, <1>4

-----------------------------------------------------------------------------
(* Steps that write a trade or a settlement. *)

(* A settlement is made of the trade, the official winner and the time of the pass. *)
LEMMA SettlementRowFacts ==
  ASSUME TypeOK, NEW t \in Rows(trades), NEW winner \in Sides, scan.now \in 0..MaxNow
  PROVE  /\ SettlementRow(t, winner) \in Settlement
         /\ SettlementRow(t, winner).trade_id = TradeId(t)
         /\ SettlementRow(t, winner).winning_side = winner
         /\ SettlementRow(t, winner).settled_at = scan.now
<1>1. TradeId(t) \in Id /\ t.shares \in Nat /\ t.cost_basis \in Nat
  BY RowsTyped
<1> HIDE DEF TradeId
<1> QED BY <1>1 DEF SettlementRow, Settlement

(* Settling one trade with the winner the venue has published. *)
LEMMA SettleTradeKeepsIInv ==
  ASSUME IInv, NEW c \in Conditions, SettleTrade(c)
  PROVE  IInv'
<1> USE DEF IInv
<1>1. /\ pc \in {"resolving", "settling"} /\ scan.condition_id = c /\ pc' = "settling"
      /\ UNCHANGED <<executions, trades, attempts, scan, selected_at, observed, leg, pending,
                     world>>
  BY DEF SettleTrade
<1>2. official[c] \in Sides
  <2>1. official[c] # Missing
    BY DEF SettleTrade, ScannedHasEnded
  <2> QED BY <2>1 DEF TypeOK
<1>3. scan \in [condition_id : Conditions, now : 0..MaxNow] /\ ClosesAt[c] <= scan.now
      /\ scan.now <= now
  BY <1>1 DEF TypeOK, ScannedHasEnded
<1>4. PICK t \in OpenOf("DIRECTIONAL_EDGE", trades, settlements) :
        t.condition_id = c /\ settlements' = Append(settlements, SettlementRow(t, official[c]))
  BY DEF SettleTrade
<1>5. /\ t \in Rows(trades) /\ t.strategy = "DIRECTIONAL_EDGE"
      /\ \A s \in Rows(settlements) : s.trade_id # TradeId(t)
  BY <1>4, OpenFacts
<1>6. PICK new \in Settlement :
        /\ settlements' = Append(settlements, new)
        /\ new.trade_id = TradeId(t) /\ new.winning_side = official[c]
        /\ new.settled_at = scan.now
  BY <1>2, <1>3, <1>4, <1>5, SettlementRowFacts
<1>7. settlements \in Seq(Settlement)
  BY DEF TypeOK
<1>8. /\ settlements' \in Seq(Settlement)
      /\ DOMAIN settlements' = DOMAIN settlements \cup {Len(settlements) + 1}
      /\ settlements'[Len(settlements) + 1] = new
      /\ \A i \in DOMAIN settlements : settlements'[i] = settlements[i]
      /\ Rows(settlements') = Rows(settlements) \cup {new}
  BY <1>6, <1>7, RowsOfAppend
<1>9. UNCHANGED <<official, now, cycle_ticks, crashes>>
  BY <1>1 DEF world
<1>10. TypeOK'
  BY <1>1, <1>3, <1>8, <1>9 DEF TypeOK
<1>11. CollectedBeforeEvaluated' /\ QueuedHasEnded' /\ PendingIsFirst'
  BY <1>1, <1>9 DEF CollectedBeforeEvaluated, QueuedHasEnded, PendingIsFirst
<1>12. ScannedHasEnded'
  <2>1. \A i \in DOMAIN settlements' : settlements'[i].settled_at <= now
    BY <1>3, <1>6, <1>8 DEF ScannedHasEnded
  <2>2. official[c] # Missing
    BY <1>2, ConstantFacts
  <2> QED BY <1>1, <1>3, <1>9, <2>1, <2>2 DEF ScannedHasEnded
<1>13. LeftBehind'
  <2>1. UNCHANGED <<executions, trades, crashes>> /\ pc # "recording" /\ pc' # "recording"
    BY <1>1, <1>9
  <2>2. Unrecorded' = Unrecorded /\ BeingRecorded' = BeingRecorded
    BY <2>1 DEF Unrecorded, BeingRecorded, Rows
  <2> QED BY <2>1, <2>2 DEF LeftBehind, Rows
<1>14. OneSnapshotPerCondition'
  BY <1>1 DEF OneSnapshotPerCondition
<1>15. SettledByOfficialWinner'
  <2>1. ASSUME NEW s \in Rows(settlements')
        PROVE  \E u \in Rows(trades) :
                 /\ TradeId(u) = s.trade_id /\ u.strategy = "DIRECTIONAL_EDGE"
                 /\ ClosesAt[u.condition_id] <= s.settled_at
                 /\ s.winning_side = official[u.condition_id]
    <3>1. CASE s \in Rows(settlements)
      BY <3>1 DEF SettledByOfficialWinner
    <3>2. CASE s = new
      BY <1>3, <1>4, <1>5, <1>6, <3>2
    <3> QED BY <1>8, <2>1, <3>1, <3>2
  <2>2. \A i \in DOMAIN settlements : settlements[i].trade_id # new.trade_id
    BY <1>5, <1>6 DEF Rows
  <2>3. \A i, j \in DOMAIN settlements' :
          settlements'[i].trade_id = settlements'[j].trade_id => i = j
    BY <1>8, <2>2 DEF SettledByOfficialWinner
  <2>4. Rows(trades') = Rows(trades) /\ official' = official
    BY <1>1, <1>9
  <2>5. \A s \in Rows(settlements') : \E u \in Rows(trades') :
          /\ TradeId(u) = s.trade_id /\ u.strategy = "DIRECTIONAL_EDGE"
          /\ ClosesAt[u.condition_id] <= s.settled_at
          /\ s.winning_side = official'[u.condition_id]
    BY <2>1, <2>4
  <2> QED BY <2>3, <2>5 DEF SettledByOfficialWinner, TradeId, Rows
<1>16. NoTradeStranded'
  <2>1. ASSUME NEW u \in OpenOf("DIRECTIONAL_EDGE", trades', settlements')
        PROVE  u \in DirectionalOpen
    BY <1>1, <1>8, <2>1, OpenFacts DEF DirectionalOpen
  <2>2. ASSUME NEW u \in DirectionalOpen' PROVE u \in DirectionalOpen
    BY <2>1, <2>2 DEF DirectionalOpen
  <2> QED BY <1>1, <2>2 DEF NoTradeStranded
<1> QED BY <1>10, <1>11, <1>12, <1>13, <1>14, <1>15, <1>16

(* What the gateway commits leaves the invariant intact, if a directional entry is the
   first on its condition. *)
LEMMA EnterKeepsIInv ==
  ASSUME IInv, pc = "evaluating", NEW strategy \in Strategies,
         NEW side \in Sides \cup {"BUY_MERGE"},
         NEW c \in Conditions, NEW at \in 0..MaxNow, NEW cost \in Nat \ {0},
         PayoutPerCost * cost \in Nat,
         Enter(strategy, side, Candidate(strategy, c, at, cost), c, at),
         strategy = "DIRECTIONAL_EDGE" =>
           /\ attempts[c] = NoRow
           /\ \A i \in DOMAIN trades : trades[i].strategy = "DIRECTIONAL_EDGE"
                                         => trades[i].condition_id # c
  PROVE  IInv'
<1> USE DEF IInv
<1> DEFINE id == <<strategy, c, at>>
           row == [trade_id |-> id, expires_at |-> ExpiresAt(c, at), committed_at |-> now]
<1>1. UNCHANGED <<trades, settlements, attempts, scan, selected_at, observed, leg,
                  official, cycle_ticks, now, crashes>> /\ pc' = "recording"
  BY DEF Enter, world
<1>2. executions' = IF \E e \in executions : e.trade_id = id THEN executions
                    ELSE executions \cup {row}
  BY DEF Enter, GatewayCommit, Candidate
<1>3. pending' = [strategy |-> strategy, condition_id |-> c, side |-> side,
                  cost_basis |-> cost, shares |-> PayoutPerCost * cost,
                  observed_at |-> at, fill_status |-> "FILLED"]
  BY DEF Enter, Candidate
<1>4. pending' \in Trade /\ TradeId(pending') = id /\ pending'.condition_id = c
      /\ pending'.strategy = strategy
  BY <1>3 DEF Trade, TradeId
<1>5. row \in Execution
  <2>1. id \in Id
    BY DEF Id
  <2>2. ExpiresAt(c, at) \in Nat
    <3>1. CandidateTTL \in Nat
      BY DaemonConstants DEF DaemonConstants
    <3> QED BY <3>1, ConstantFacts DEF ExpiresAt
  <2>3. now \in 0..MaxNow
    BY DEF TypeOK
  <2> HIDE DEF id
  <2> QED BY <2>1, <2>2, <2>3 DEF Execution
<1> HIDE DEF row
<1>6. row.trade_id = id
  BY DEF row
<1> HIDE DEF id
<1>7. TypeOK'
  <2>1. executions' \subseteq Execution
    BY <1>2, <1>5 DEF TypeOK
  <2> QED BY <1>1, <1>4, <2>1 DEF TypeOK
<1>8. CollectedBeforeEvaluated' /\ QueuedHasEnded' /\ ScannedHasEnded'
  BY <1>1 DEF CollectedBeforeEvaluated, QueuedHasEnded, ScannedHasEnded
<1>9. PendingIsFirst'
  BY <1>1, <1>4 DEF PendingIsFirst
<1>10. LeftBehind'
  <2>1. \A e, f \in executions' : e.trade_id = f.trade_id => e = f
    BY <1>2, <1>6 DEF LeftBehind
  <2>2. IsFiniteSet(executions')
    BY <1>2, FS_AddElement DEF LeftBehind
  <2>3. \A t \in Rows(trades) : \E e \in executions' : e.trade_id = TradeId(t)
    BY <1>2 DEF LeftBehind
  <2>4. \E e \in executions' : e.trade_id = id
    BY <1>2, <1>6
  <2>5. BeingRecorded' = {e \in executions' : e.trade_id = id}
    BY <1>1, <1>4 DEF BeingRecorded
  <2>6. BeingRecorded' # {}
    BY <2>4, <2>5
  <2>7. Unrecorded' \ BeingRecorded' \subseteq Unrecorded
    <3>1. Unrecorded' = {e \in executions' : \A t \in Rows(trades) : TradeId(t) # e.trade_id}
      BY <1>1 DEF Unrecorded, TradeId, Rows
    <3>2. Unrecorded = {e \in executions : \A t \in Rows(trades) : TradeId(t) # e.trade_id}
      BY DEF Unrecorded
    <3> QED BY <1>2, <1>6, <2>5, <3>1, <3>2
  <2>8. Cardinality(Unrecorded' \ BeingRecorded') <= crashes
    <3>1. IsFiniteSet(Unrecorded) /\ Cardinality(Unrecorded) \in Nat
          /\ Cardinality(Unrecorded) <= crashes /\ crashes \in Nat
      BY UnrecordedBound DEF TypeOK
    <3>2. Cardinality(Unrecorded' \ BeingRecorded') <= Cardinality(Unrecorded)
          /\ IsFiniteSet(Unrecorded' \ BeingRecorded')
      BY <2>7, <3>1, FS_Subset
    <3>3. Cardinality(Unrecorded' \ BeingRecorded') \in Nat
      BY <3>2, FS_CardinalityType
    <3> QED BY <3>1, <3>2, <3>3
  <2>9. Rows(trades') = Rows(trades) /\ crashes' = crashes
    BY <1>1
  <2> QED BY <2>1, <2>2, <2>3, <2>6, <2>8, <2>9 DEF LeftBehind, TradeId, Rows
<1>11. OneSnapshotPerCondition' /\ SettledByOfficialWinner'
  BY <1>1 DEF OneSnapshotPerCondition, SettledByOfficialWinner, TradeId, Rows
<1>12. NoTradeStranded'
  BY <1>1, QueueKept
<1> QED BY <1>7, <1>8, <1>9, <1>10, <1>11, <1>12

(* The state an evaluation acts on is one that was collected. *)
LEMMA StateIsCollected ==
  ASSUME IInv, pc = "evaluating", State # Missing
  PROVE  State \in Observation
<1> DEFINE N == Len(BucketOrder)
           k == (leg + 1) \div 2
<1>1. leg \in 1..(2 * N) /\ N \in Nat \ {0} /\ DOMAIN BucketOrder = 1..N
  BY ConstantFacts DEF IInv, TypeOK
<1>2. k \in 1..N /\ leg <= 2 * k
  BY <1>1
<1> HIDE DEF k
<1>3. BucketOrder[k] \in Buckets
  BY <1>1, <1>2, ConstantFacts
<1>4. observed[BucketOrder[k]] # NoRow
  BY <1>1, <1>2 DEF IInv, CollectedBeforeEvaluated
<1>5. observed[BucketOrder[k]] \in Observation \cup {NoRow, Missing}
  BY <1>3 DEF IInv, TypeOK
<1>6. State = observed[BucketOrder[k]]
  BY DEF State, k
<1> QED BY <1>4, <1>5, <1>6

(* A window that still runs has no directional trade that was settled, and no row in the
   settlement queue: without an open trade it has none at all. *)
LEMMA RunningIsUntraded ==
  ASSUME IInv, NEW c \in Conditions, LifecycleOpen(c),
         \A t \in DirectionalOpen : t.condition_id # c
  PROVE  /\ attempts[c] = NoRow
         /\ \A i \in DOMAIN trades : trades[i].strategy = "DIRECTIONAL_EDGE"
                                       => trades[i].condition_id # c
<1> USE DEF IInv
<1>1. ClosesAt[c] \in Nat /\ now \in Nat /\ now < ClosesAt[c]
  BY ConstantFacts DEF TypeOK, LifecycleOpen
<1>2. attempts[c] = NoRow
  BY <1>1 DEF QueuedHasEnded
<1>3. ASSUME NEW i \in DOMAIN trades, trades[i].strategy = "DIRECTIONAL_EDGE",
             trades[i].condition_id = c
      PROVE  FALSE
  <2>1. trades[i] \in Rows(trades)
    BY DEF Rows
  <2>2. trades[i] \notin DirectionalOpen
    BY <1>3
  <2>3. PICK s \in Rows(settlements) : s.trade_id = TradeId(trades[i])
    BY <1>3, <2>1, <2>2, OpenFacts DEF DirectionalOpen
  <2>4. PICK t \in Rows(trades) :
              TradeId(t) = s.trade_id /\ ClosesAt[t.condition_id] <= s.settled_at
    BY DEF SettledByOfficialWinner
  <2>5. t.condition_id = c
    BY <1>3, <2>3, <2>4, IdFacts
  <2>6. s.settled_at <= now /\ s.settled_at \in Nat
    <3>1. settlements \in Seq(Settlement) /\ s.settled_at <= now
      BY DEF TypeOK, ScannedHasEnded, Rows
    <3>2. s \in Settlement
      BY <3>1 DEF Rows
    <3> QED BY <3>1, <3>2 DEF Settlement
  <2> QED BY <1>1, <2>4, <2>5, <2>6
<1> QED BY <1>2, <1>3

(* The directional and the structural entry of an evaluation. *)
LEMMA ExecuteKeepsIInv ==
  ASSUME IInv, (\E offer \in Offers : ExecuteDirectionalPaper(offer)) \/ ExecuteStructuralPaper
  PROVE  IInv'
<1> DEFINE c == State.condition_id
           at == State.observed_at
<1>1. pc = "evaluating" /\ State # Missing
  BY DEF ExecuteDirectionalPaper, ExecuteStructuralPaper
<1>2. c \in Conditions /\ at \in 0..MaxNow
  BY <1>1, StateIsCollected DEF Observation
<1>3. ASSUME NEW offer \in Offers, ExecuteDirectionalPaper(offer) PROVE IInv'
  <2>1. /\ LifecycleOpen(c) /\ \A t \in DirectionalOpen : t.condition_id # c
        /\ Enter("DIRECTIONAL_EDGE", offer.side,
                 Candidate("DIRECTIONAL_EDGE", c, at, EffectiveCost(offer)), c, at)
    BY <1>3 DEF ExecuteDirectionalPaper
  <2>2. /\ offer.side \in Sides /\ EffectiveCost(offer) \in Nat \ {0}
        /\ PayoutPerCost * EffectiveCost(offer) \in Nat
    BY CostsArePositive
  <2>3. "DIRECTIONAL_EDGE" \in Strategies
    BY DEF Strategies
  <2> HIDE DEF c, at
  <2>4. /\ attempts[c] = NoRow
        /\ \A i \in DOMAIN trades : trades[i].strategy = "DIRECTIONAL_EDGE"
                                      => trades[i].condition_id # c
    BY <1>2, <2>1, RunningIsUntraded
  <2> QED BY <1>1, <1>2, <2>1, <2>2, <2>3, <2>4, EnterKeepsIInv
<1>4. CASE ExecuteStructuralPaper
  <2>1. Enter("STRUCTURAL_ARBITRAGE", "BUY_MERGE",
              Candidate("STRUCTURAL_ARBITRAGE", c, at, StructuralCost), c, at)
    BY <1>4 DEF ExecuteStructuralPaper
  <2>2. StructuralCost \in Nat \ {0} /\ PayoutPerCost * StructuralCost \in Nat
    BY CostsArePositive
  <2>3. "STRUCTURAL_ARBITRAGE" \in Strategies
    BY DEF Strategies
  <2> HIDE DEF c, at
  <2> QED BY <1>1, <1>2, <2>1, <2>2, <2>3, EnterKeepsIInv
<1> QED BY <1>3, <1>4

(* The snapshot of an entry: the second transaction. *)
LEMMA RecordTradeKeepsIInv == ASSUME IInv, RecordTrade PROVE IInv'
<1> USE DEF IInv
<1>1. /\ pc = "recording" /\ trades' = SaveTradeSnapshot(trades, pending) /\ NextLeg
      /\ UNCHANGED <<executions, settlements, attempts, official, cycle_ticks, now, crashes>>
  BY DEF RecordTrade, world
<1>2. pending \in Trade /\ trades \in Seq(Trade)
  BY <1>1 DEF TypeOK
<1>3. /\ pc' \in {"idle", "evaluating"}
      /\ leg' \in 1..(2 * Len(BucketOrder))
      /\ observed' \in [Buckets -> Observation \cup {NoRow, Missing}]
      /\ CollectedBeforeEvaluated'
  BY <1>1, NextLegFacts
<1>4. /\ trades' \in Seq(Trade)
      /\ Rows(trades) \subseteq Rows(trades')
      /\ Rows(trades') \subseteq Rows(trades) \cup {pending}
      /\ \E t \in Rows(trades') : TradeId(t) = TradeId(pending)
  BY <1>1, <1>2, RowsOfAppend DEF SaveTradeSnapshot
<1>5. TypeOK'
  BY <1>1, <1>3, <1>4 DEF TypeOK
<1>6. QueuedHasEnded' /\ ScannedHasEnded' /\ PendingIsFirst'
  BY <1>1, <1>3 DEF QueuedHasEnded, ScannedHasEnded, PendingIsFirst
<1>7. LeftBehind'
  <2>1. ASSUME NEW t \in Rows(trades') PROVE \E e \in executions : e.trade_id = TradeId(t)
    <3>1. CASE t \in Rows(trades)
      BY <3>1 DEF LeftBehind
    <3>2. CASE t = pending
      BY <1>1, <3>2 DEF LeftBehind, BeingRecorded
    <3> QED BY <1>4, <3>1, <3>2
  <2> DEFINE after == {e \in executions : \A t \in Rows(trades') : TradeId(t) # e.trade_id}
  <2>2. after \subseteq Unrecorded \ BeingRecorded
    BY <1>1, <1>4 DEF Unrecorded, BeingRecorded
  <2>3. IsFiniteSet(Unrecorded \ BeingRecorded)
    BY FS_Subset DEF LeftBehind, Unrecorded
  <2>4. /\ Cardinality(after) <= Cardinality(Unrecorded \ BeingRecorded)
        /\ Cardinality(after) \in Nat /\ Cardinality(Unrecorded \ BeingRecorded) \in Nat
    BY <2>2, <2>3, FS_Subset, FS_CardinalityType
  <2>5. Cardinality(after) <= crashes /\ crashes \in Nat
    BY <2>4 DEF LeftBehind, TypeOK
  <2>6. BeingRecorded' = {} /\ Unrecorded' = after
    BY <1>1, <1>3 DEF BeingRecorded, Unrecorded, TradeId
  <2>7. Cardinality(Unrecorded' \ BeingRecorded') <= crashes'
    <3>1. Unrecorded' \ BeingRecorded' = after
      BY <2>6
    <3> QED BY <1>1, <2>5, <3>1
  <2> QED BY <1>1, <1>3, <2>1, <2>7 DEF LeftBehind, TradeId
<1>8. OneSnapshotPerCondition'
  <2>1. CASE trades' = trades
    BY <2>1 DEF OneSnapshotPerCondition
  <2>2. CASE trades' = Append(trades, pending)
    <3>1. /\ DOMAIN trades' = DOMAIN trades \cup {Len(trades) + 1}
          /\ trades'[Len(trades) + 1] = pending
          /\ \A i \in DOMAIN trades : trades'[i] = trades[i]
      BY <1>2, <2>2, RowsOfAppend
    <3>2. pending.strategy = "DIRECTIONAL_EDGE" =>
            \A i \in DOMAIN trades : trades[i].strategy = "DIRECTIONAL_EDGE"
                                       => trades[i].condition_id # pending.condition_id
      BY <1>1 DEF PendingIsFirst
    <3> QED BY <3>1, <3>2 DEF OneSnapshotPerCondition
  <2> QED BY <1>1, <2>1, <2>2 DEF SaveTradeSnapshot
<1>9. SettledByOfficialWinner'
  <2>1. \A s \in Rows(settlements) : \E t \in Rows(trades') :
          /\ TradeId(t) = s.trade_id /\ t.strategy = "DIRECTIONAL_EDGE"
          /\ ClosesAt[t.condition_id] <= s.settled_at
          /\ s.winning_side = official[t.condition_id]
    BY <1>4 DEF SettledByOfficialWinner
  <2>2. Rows(settlements') = Rows(settlements)
    BY <1>1
  <2> QED BY <1>1, <2>1, <2>2 DEF SettledByOfficialWinner, TradeId
<1>10. NoTradeStranded'
  <2>1. ASSUME NEW t \in OpenOf("DIRECTIONAL_EDGE", trades', settlements'),
               attempts[t.condition_id] # NoRow
        PROVE  attempts[t.condition_id].state # "SETTLED"
    <3>1. /\ t \in Rows(trades') /\ t.strategy = "DIRECTIONAL_EDGE"
          /\ \A s \in Rows(settlements) : s.trade_id # TradeId(t)
      BY <1>1, OpenFacts
    <3>2. t # pending
      BY <1>1, <2>1, <3>1 DEF PendingIsFirst
    <3>3. t \in DirectionalOpen
      BY <1>4, <3>1, <3>2, OpenFacts DEF DirectionalOpen
    <3> QED BY <2>1, <3>3 DEF NoTradeStranded
  <2> QED BY <1>1, <2>1 DEF NoTradeStranded, DirectionalOpen
<1> QED BY <1>3, <1>5, <1>6, <1>7, <1>8, <1>9, <1>10

-----------------------------------------------------------------------------
(* The venue and time. *)

(* A published winner is the first and the last of its window. *)
LEMMA PublishKeepsIInv ==
  ASSUME IInv, NEW c \in Conditions, Publish(c)
  PROVE  IInv'
<1> USE DEF IInv
<1>1. /\ official[c] = Missing
      /\ UNCHANGED <<executions, trades, settlements, attempts, pc, scan, selected_at,
                     observed, leg, pending, cycle_ticks, now, crashes>>
  BY DEF Publish, tables, volatile
<1>2. PICK winner \in Sides : official' = [official EXCEPT ![c] = winner]
  BY DEF Publish
<1>3. official \in [Conditions -> Sides \cup {Missing}]
  BY DEF TypeOK
<1>4. \A d \in Conditions : official[d] # Missing => official'[d] = official[d]
  BY <1>1, <1>2, <1>3
<1>5. TypeOK'
  BY <1>1, <1>2 DEF TypeOK
<1>6. CollectedBeforeEvaluated' /\ QueuedHasEnded' /\ PendingIsFirst'
  BY <1>1 DEF CollectedBeforeEvaluated, QueuedHasEnded, PendingIsFirst
<1>7. ScannedHasEnded'
  <2>1. pc = "settling" => scan.condition_id \in Conditions
    BY DEF TypeOK
  <2>2. pc = "settling" => official'[scan.condition_id] # Missing
    BY <1>4, <2>1 DEF ScannedHasEnded
  <2> QED BY <1>1, <2>2 DEF ScannedHasEnded
<1>8. LeftBehind'
  <2>1. Unrecorded' = Unrecorded /\ BeingRecorded' = BeingRecorded
    BY <1>1 DEF Unrecorded, BeingRecorded, TradeId, Rows
  <2> QED BY <1>1, <2>1 DEF LeftBehind, TradeId, Rows
<1>9. OneSnapshotPerCondition'
  BY <1>1 DEF OneSnapshotPerCondition
<1>10. SettledByOfficialWinner'
  <2>1. ASSUME NEW s \in Rows(settlements)
        PROVE  \E t \in Rows(trades) :
                 /\ TradeId(t) = s.trade_id /\ t.strategy = "DIRECTIONAL_EDGE"
                 /\ ClosesAt[t.condition_id] <= s.settled_at
                 /\ s.winning_side = official'[t.condition_id]
    <3>1. PICK t \in Rows(trades) :
            /\ TradeId(t) = s.trade_id /\ t.strategy = "DIRECTIONAL_EDGE"
            /\ ClosesAt[t.condition_id] <= s.settled_at
            /\ s.winning_side = official[t.condition_id]
      BY DEF SettledByOfficialWinner
    <3>2. settlements \in Seq(Settlement)
      BY DEF TypeOK
    <3>3. s \in Settlement
      BY <3>2 DEF Rows
    <3>4. s.winning_side # Missing
      BY <3>3, ConstantFacts DEF Settlement
    <3>5. t.condition_id \in Conditions
      BY RowsTyped
    <3> QED BY <1>4, <3>1, <3>4, <3>5
  <2>2. Rows(settlements') = Rows(settlements) /\ Rows(trades') = Rows(trades)
    BY <1>1
  <2> QED BY <1>1, <2>1, <2>2 DEF SettledByOfficialWinner, TradeId
<1>11. NoTradeStranded'
  BY <1>1, QueueKept
<1> QED BY <1>5, <1>6, <1>7, <1>8, <1>9, <1>10, <1>11

(* The clock and the waits of the queue. *)
LEMMA TickKeepsIInv == ASSUME IInv, Tick PROVE IInv'
<1> USE DEF IInv
<1>1. /\ cycle_ticks' = cycle_ticks + 1 /\ now' = (IF now < MaxNow THEN now + 1 ELSE now)
      /\ UNCHANGED <<executions, trades, settlements, official, pc, scan, selected_at,
                     observed, leg, pending, crashes>>
  BY DEF Tick, volatile
<1>2. now \in 0..MaxNow /\ MaxNow \in Nat /\ cycle_ticks \in Nat
  BY ConstantFacts DEF TypeOK
<1>3. now' \in 0..MaxNow /\ now <= now' /\ cycle_ticks' \in Nat
  BY <1>1, <1>2
<1>4. ASSUME NEW c \in Conditions
      PROVE  /\ attempts'[c] \in Attempt \cup {NoRow}
             /\ attempts[c] = NoRow => attempts'[c] = NoRow
             /\ attempts[c] # NoRow => attempts'[c].state = attempts[c].state
  <2>1. attempts'[c] = IF attempts[c] # NoRow /\ attempts[c].wait > 0
                       THEN [attempts[c] EXCEPT !.wait = attempts[c].wait - 1] ELSE attempts[c]
    BY DEF Tick
  <2>2. attempts[c] \in Attempt \cup {NoRow}
    BY DEF TypeOK
  <2>3. CASE attempts[c] \in Attempt /\ attempts[c] # NoRow /\ attempts[c].wait > 0
    <3>1. attempts'[c] = [attempts[c] EXCEPT !.wait = attempts[c].wait - 1]
      BY <2>1, <2>3
    <3>2. attempts[c].wait - 1 \in 0..(PendingDelay + RetryDelay)
      BY <2>3, DelaysAreNaturals DEF Attempt
    <3> QED BY <2>3, <3>1, <3>2 DEF Attempt
  <2>4. CASE ~(attempts[c] # NoRow /\ attempts[c].wait > 0)
    BY <2>1, <2>2, <2>4
  <2> QED BY <2>2, <2>3, <2>4
<1>5. attempts' \in [Conditions -> Attempt \cup {NoRow}]
  <2>1. attempts' = [c \in Conditions |-> attempts'[c]]
    BY DEF Tick
  <2> QED BY <1>4, <2>1
<1>6. TypeOK'
  <2>1. executions \subseteq Execution /\ settlements \in Seq(Settlement)
    BY DEF TypeOK
  <2> QED BY <1>1, <1>3, <1>5, <2>1 DEF TypeOK
<1>7. CollectedBeforeEvaluated'
  BY <1>1 DEF CollectedBeforeEvaluated
<1>8. QueuedHasEnded'
  <2>1. ASSUME NEW c \in Conditions, attempts'[c] # NoRow PROVE ClosesAt[c] <= now'
    <3>1. ClosesAt[c] <= now /\ ClosesAt[c] \in Nat
      BY <1>4, <2>1, ConstantFacts DEF QueuedHasEnded
    <3> QED BY <1>2, <1>3, <3>1
  <2> QED BY <2>1 DEF QueuedHasEnded
<1>9. ScannedHasEnded'
  <2>1. ASSUME NEW i \in DOMAIN settlements PROVE settlements[i].settled_at <= now'
    <3>1. settlements \in Seq(Settlement)
      BY DEF TypeOK
    <3>2. settlements[i] \in Settlement
      BY <3>1
    <3>3. settlements[i].settled_at \in Nat /\ settlements[i].settled_at <= now
      BY <3>2 DEF Settlement, ScannedHasEnded
    <3> QED BY <1>2, <1>3, <3>3
  <2>2. pc \in {"resolving", "settling"} => scan.now <= now'
    <3>1. pc \in {"resolving", "settling"} => scan.now \in Nat /\ scan.now <= now
      BY DEF TypeOK, ScannedHasEnded
    <3> QED BY <1>2, <1>3, <3>1
  <2> QED BY <1>1, <2>1, <2>2 DEF ScannedHasEnded
<1>10. PendingIsFirst'
  <2>1. pc = "recording" => pending.condition_id \in Conditions
    BY DEF TypeOK, Trade
  <2> QED BY <1>1, <1>4, <2>1 DEF PendingIsFirst
<1>11. LeftBehind'
  <2>1. Unrecorded' = Unrecorded /\ BeingRecorded' = BeingRecorded
    BY <1>1 DEF Unrecorded, BeingRecorded, TradeId, Rows
  <2> QED BY <1>1, <2>1, ZenonT(30) DEF LeftBehind, TradeId, Rows
<1>12. OneSnapshotPerCondition' /\ SettledByOfficialWinner'
  BY <1>1 DEF OneSnapshotPerCondition, SettledByOfficialWinner, TradeId, Rows
<1>13. NoTradeStranded'
  <2>1. DirectionalOpen' = DirectionalOpen
    BY <1>1 DEF DirectionalOpen, OpenOf, OpenTrades, StatusOf, SettlementOf, Rows
  <2>2. \A t \in DirectionalOpen : t.condition_id \in Conditions
    BY OpenFacts, RowsTyped DEF DirectionalOpen
  <2> QED BY <1>4, <2>1, <2>2 DEF NoTradeStranded
<1> QED BY <1>6, <1>7, <1>8, <1>9, <1>10, <1>11, <1>12, <1>13

-----------------------------------------------------------------------------
(* The initial states satisfy the inductive invariant. *)
THEOREM InitIInv == Init => IInv
<1> SUFFICES ASSUME Init PROVE IInv
  OBVIOUS
<1>1. TypeOK
  <2>1. leg \in 1..(2 * Len(BucketOrder)) /\ now \in 0..MaxNow
    BY ConstantFacts DEF Init
  <2> QED BY <2>1 DEF Init, TypeOK, Uncollected
<1>2. LeftBehind
  <2>1. Unrecorded \ BeingRecorded = {} /\ Rows(trades) = {} /\ executions = {}
    BY DEF Init, Unrecorded, BeingRecorded, Rows
  <2> QED BY <2>1, FS_EmptySet DEF Init, LeftBehind
<1>3. DirectionalOpen = {}
  BY OpenFacts DEF Init, DirectionalOpen, Rows
<1> QED BY <1>1, <1>2, <1>3
        DEF Init, IInv, CollectedBeforeEvaluated, QueuedHasEnded, ScannedHasEnded,
            PendingIsFirst, OneSnapshotPerCondition, SettledByOfficialWinner,
            NoTradeStranded, Rows

(* Every step of the coroutine, every crash, publication and tick keeps the invariant. *)
THEOREM NextIInv == ASSUME IInv, [Next]_vars PROVE IInv'
<1>1. CASE DaemonStep
  BY <1>1, StartCycleKeepsIInv, ResolveKeepsIInv, SettleTradeKeepsIInv,
     FinishSettlementKeepsIInv, CollectBucketKeepsIInv, StartEvaluationKeepsIInv,
     ExecuteKeepsIInv, RecordTradeKeepsIInv, AbstainOrCrashKeepsIInv DEF DaemonStep
<1>2. CASE Crash
  BY <1>2, AbstainOrCrashKeepsIInv
<1>3. CASE \E c \in Conditions : Publish(c)
  BY <1>3, PublishKeepsIInv
<1>4. CASE Tick
  BY <1>4, TickKeepsIInv
<1>5. CASE UNCHANGED vars
  <2>1. UNCHANGED <<executions, trades, settlements, attempts, official, pc, scan, selected_at,
                    observed, leg, pending, cycle_ticks, now, crashes>>
    BY <1>5 DEF vars, tables, volatile, world
  <2>2. TypeOK' /\ CollectedBeforeEvaluated' /\ ScannedHasEnded' /\ PendingIsFirst'
    BY <2>1 DEF IInv, TypeOK, CollectedBeforeEvaluated, ScannedHasEnded, PendingIsFirst
  <2>3. LeftBehind'
    <3>1. Unrecorded' = Unrecorded /\ BeingRecorded' = BeingRecorded
      BY <2>1 DEF Unrecorded, BeingRecorded, TradeId, Rows
    <3> QED BY <2>1, <3>1 DEF IInv, LeftBehind, TradeId, Rows
  <2>4. OneSnapshotPerCondition' /\ SettledByOfficialWinner'
    BY <2>1 DEF IInv, OneSnapshotPerCondition, SettledByOfficialWinner, TradeId, Rows
  <2>5. QueuedHasEnded' /\ NoTradeStranded'
    BY <2>1, QueueKept
  <2> QED BY <2>2, <2>3, <2>4, <2>5 DEF IInv
<1> QED BY <1>1, <1>2, <1>3, <1>4, <1>5 DEF Next

(* The inductive invariant holds in every behaviour. *)
THEOREM Invariance == Spec => []IInv
<1>1. IInv /\ [Next]_vars => IInv'
  BY NextIInv
<1> QED BY <1>1, InitIInv, PTL DEF Spec

(* TypeOK: the tables and what the coroutine holds keep their types. *)
THEOREM TypeCorrect == Spec => []TypeOK
BY Invariance, PTL DEF IInv

(* SettledByOfficialWinner: a settlement belongs to one directional trade of a window that
   had ended, and names its published winner (_settle_trade, save_settlement_once). *)
THEOREM SettlementsAreOfficial == Spec => []SettledByOfficialWinner
BY Invariance, PTL DEF IInv

(* NoTradeStranded: the queue never closes a condition over an open trade
   (PaperSettlementService.run_once, due_settlement_conditions). *)
THEOREM QueueStrandsNoTrade == Spec => []NoTradeStranded
BY Invariance, PTL DEF IInv

(* LedgerMatchesExecutions: every snapshot has its execution, and only crashes leave an
   execution without one (PaperGateway.execute, save_trade_snapshot). *)
THEOREM SnapshotsMatchExecutions == Spec => []LedgerMatchesExecutions
<1>1. IInv => LedgerMatchesExecutions
  <2> SUFFICES ASSUME IInv PROVE LedgerMatchesExecutions
    OBVIOUS
  <2>1. LeftBehind /\ crashes \in Nat
    BY DEF IInv, TypeOK
  <2> QED BY <2>1, UnrecordedBound DEF LedgerMatchesExecutions, LeftBehind
<1> QED BY <1>1, Invariance, PTL

-----------------------------------------------------------------------------
(* The executions of a condition: OrderInv. *)

(* When an execution was decided, and what time it is. *)
LEMMA DecidedTyped ==
  ASSUME IInv
  PROVE  now \in Nat /\ \A e \in executions : DecidedAt(e) \in Nat
<1>1. now \in 0..MaxNow /\ executions \subseteq Execution /\ MaxNow \in Nat
  BY ConstantFacts DEF IInv, TypeOK
<1>2. ASSUME NEW e \in executions PROVE DecidedAt(e) \in Nat
  <2>1. e.trade_id \in Strategies \X Conditions \X (0..MaxNow)
    BY <1>1 DEF Execution, Id
  <2>2. e.trade_id[3] \in 0..MaxNow
    BY <2>1
  <2> QED BY <1>1, <2>2 DEF DecidedAt
<1> QED BY <1>1, <1>2

(* Steps that neither execute, nor record, nor collect. *)
LEMMA OrderUntouched ==
  ASSUME IInv, OrderInv, UNCHANGED executions, now' \in Nat, now <= now',
         Rows(trades') \subseteq Rows(trades)
           \cup (IF pc = "recording" THEN {pending} ELSE {}),
         \A b \in Buckets : observed'[b] \in {observed[b], NoRow, Missing},
         pc' = "recording" => pc = "recording" /\ UNCHANGED pending
  PROVE  OrderInv'
<1>1. now \in Nat /\ \A e \in executions : DecidedAt(e) \in Nat
  BY DecidedTyped
<1>2. \A c : ExecutedOn(c)' = ExecutedOn(c)
  BY DEF ExecutedOn
<1>3. ASSUME NEW e \in executions' PROVE DecidedAt(e) <= now'
  <2>1. DecidedAt(e) <= now
    BY <1>3 DEF OrderInv, ExecutedInOrder
  <2> QED BY <1>1, <2>1
<1>4. ASSUME NEW b \in Buckets, observed'[b] \notin {NoRow, Missing}
      PROVE  /\ BucketOf[observed'[b].condition_id] = b /\ observed'[b].observed_at <= now'
             /\ \A e \in ExecutedOn(observed'[b].condition_id) :
                  DecidedAt(e) <= observed'[b].observed_at
  <2>1. observed'[b] = observed[b]
    BY <1>4
  <2>2. /\ BucketOf[observed[b].condition_id] = b /\ observed[b].observed_at <= now
        /\ \A e \in ExecutedOn(observed[b].condition_id) :
             DecidedAt(e) <= observed[b].observed_at
    BY <1>4, <2>1 DEF OrderInv, ExecutedInOrder
  <2>3. observed[b].observed_at \in Nat
    <3>1. observed[b] \in Observation
      BY <1>4, <2>1 DEF IInv, TypeOK
    <3> QED BY <3>1, ConstantFacts DEF Observation
  <2> QED BY <1>1, <2>1, <2>2, <2>3
<1>5. ExecutedInOrder'
  <2>1. pc' = "recording" /\ pending'.strategy = "DIRECTIONAL_EDGE" =>
          \A e \in ExecutedOn(pending'.condition_id) : DecidedAt(e) <= pending'.observed_at
    BY DEF OrderInv, ExecutedInOrder
  <2> QED BY <1>3, <1>4, <2>1 DEF ExecutedInOrder, ExecutedOn, DecidedAt
<1>6. ASSUME NEW t \in Rows(trades'), t.strategy = "DIRECTIONAL_EDGE"
      PROVE  \A e \in ExecutedOn(t.condition_id) : DecidedAt(e) <= t.observed_at
  <2>1. CASE t \in Rows(trades)
    BY <1>6, <2>1 DEF OrderInv
  <2>2. CASE pc = "recording" /\ t = pending
    BY <1>6, <2>2 DEF OrderInv, ExecutedInOrder
  <2> QED BY <2>1, <2>2
<1> QED BY <1>5, <1>6 DEF OrderInv, ExecutedOn, DecidedAt, Rows

(* What is collected is the present: nothing was decided on a newer state. *)
LEMMA CollectBucketKeepsOrder ==
  ASSUME IInv, OrderInv, NEW b \in Buckets, CollectBucket(b)
  PROVE  OrderInv'
<1>1. UNCHANGED <<executions, trades, pending, pc, now>>
  BY DEF CollectBucket, tables, world
<1>2. PICK state : /\ observed' = [observed EXCEPT ![b] = state]
                   /\ \/ state = Missing
                      \/ \E c \in Conditions : /\ BucketOf[c] = b
                                               /\ state = [condition_id |-> c,
                                                           observed_at |-> now]
  BY DEF CollectBucket
<1>3. /\ observed'[b] = state
      /\ \A d \in Buckets : d # b => observed'[d] = observed[d]
  BY <1>2 DEF IInv, TypeOK
<1>4. now \in Nat /\ \A e \in executions : DecidedAt(e) <= now
  BY DecidedTyped DEF OrderInv, ExecutedInOrder
<1>5. ASSUME NEW d \in Buckets, observed'[d] \notin {NoRow, Missing}
      PROVE  /\ BucketOf[observed'[d].condition_id] = d /\ observed'[d].observed_at <= now
             /\ \A e \in ExecutedOn(observed'[d].condition_id) :
                  DecidedAt(e) <= observed'[d].observed_at
  <2>1. CASE d # b
    BY <1>3, <1>5, <2>1 DEF OrderInv, ExecutedInOrder
  <2>2. CASE d = b
    <3>1. PICK c \in Conditions :
                BucketOf[c] = b /\ observed'[d] = [condition_id |-> c, observed_at |-> now]
      BY <1>2, <1>3, <1>5, <2>2
    <3> QED BY <1>4, <2>2, <3>1 DEF ExecutedOn
  <2> QED BY <2>1, <2>2
<1>6. ExecutedInOrder'
  <2>1. pc' = "recording" /\ pending'.strategy = "DIRECTIONAL_EDGE" =>
          \A e \in ExecutedOn(pending'.condition_id) : DecidedAt(e) <= pending'.observed_at
    BY <1>1 DEF OrderInv, ExecutedInOrder
  <2> QED BY <1>1, <1>4, <1>5, <2>1 DEF ExecutedInOrder, ExecutedOn, DecidedAt
<1> QED BY <1>1, <1>6 DEF OrderInv, ExecutedOn, DecidedAt, Rows

(* An execution is decided on the state its evaluation has in hand, the newest there is of
   its condition; a directional one meets no snapshot. *)
LEMMA EnterKeepsOrder ==
  ASSUME IInv, OrderInv, pc = "evaluating", State # Missing, NEW strategy \in Strategies,
         NEW side, NEW cost,
         Enter(strategy, side, Candidate(strategy, State.condition_id, State.observed_at, cost),
               State.condition_id, State.observed_at),
         strategy = "DIRECTIONAL_EDGE" =>
           \A i \in DOMAIN trades : trades[i].strategy = "DIRECTIONAL_EDGE"
                                      => trades[i].condition_id # State.condition_id
  PROVE  OrderInv'
<1> DEFINE c == State.condition_id
           at == State.observed_at
           id == <<strategy, c, at>>
           row == [trade_id |-> id, expires_at |-> ExpiresAt(c, at), committed_at |-> now]
           b == BucketOrder[(leg + 1) \div 2]
<1>1. UNCHANGED <<trades, observed, now>>
  BY DEF Enter, world
<1>2. executions' \subseteq executions \cup {row}
  BY DEF Enter, GatewayCommit, Candidate
<1>3. pending'.strategy = strategy /\ pending'.condition_id = c /\ pending'.observed_at = at
  BY DEF Enter
<1>4. State \in Observation /\ State = observed[b]
  BY StateIsCollected DEF State
<1>5. b \in Buckets
  <2>1. leg \in 1..(2 * Len(BucketOrder)) /\ Len(BucketOrder) \in Nat \ {0}
    BY ConstantFacts DEF IInv, TypeOK
  <2>2. (leg + 1) \div 2 \in 1..Len(BucketOrder)
    BY <2>1
  <2> QED BY <2>2, ConstantFacts
<1>6. State \notin {NoRow, Missing}
  <2>1. leg \in 1..(2 * Len(BucketOrder)) /\ Len(BucketOrder) \in Nat \ {0}
    BY ConstantFacts DEF IInv, TypeOK
  <2>2. (leg + 1) \div 2 \in DOMAIN BucketOrder /\ leg <= 2 * ((leg + 1) \div 2)
    BY <2>1, ConstantFacts
  <2>3. observed[b] # NoRow
    BY <2>2 DEF IInv, CollectedBeforeEvaluated
  <2> QED BY <1>4, <2>3
<1>7. at \in Nat /\ c \in Conditions
  BY <1>4, ConstantFacts DEF Observation
<1>8. /\ BucketOf[c] = b /\ at <= now
      /\ \A e \in ExecutedOn(c) : DecidedAt(e) <= at
  BY <1>4, <1>5, <1>6 DEF OrderInv, ExecutedInOrder
<1>9. row.trade_id[1] = strategy /\ row.trade_id[2] = c /\ DecidedAt(row) = at
  BY DEF DecidedAt
<1> HIDE DEF c, at, id, row, b
<1>10. ASSUME NEW e \in executions' PROVE DecidedAt(e) <= now
  BY <1>2, <1>8, <1>9, <1>10 DEF OrderInv, ExecutedInOrder
<1>11. ASSUME NEW d \in Buckets, observed[d] \notin {NoRow, Missing},
              NEW e \in ExecutedOn(observed[d].condition_id)'
       PROVE  DecidedAt(e) <= observed[d].observed_at
  <2>1. e \in executions'
    BY <1>11 DEF ExecutedOn
  <2>2. CASE e \in ExecutedOn(observed[d].condition_id)
    BY <1>11, <2>2 DEF OrderInv, ExecutedInOrder
  <2>3. CASE observed[d].condition_id = c /\ DecidedAt(e) = at
    <3>1. d = b
      BY <1>8, <1>11, <2>3 DEF OrderInv, ExecutedInOrder
    <3>2. observed[d].observed_at = at
      BY <1>4, <3>1 DEF at
    <3> QED BY <1>7, <2>3, <3>2
  <2>4. e \in ExecutedOn(observed[d].condition_id)
          \/ (observed[d].condition_id = c /\ DecidedAt(e) = at)
    BY <1>1, <1>2, <1>9, <1>11 DEF ExecutedOn
  <2> QED BY <2>2, <2>3, <2>4
<1>12. ASSUME NEW e \in executions', e.trade_id[1] = "DIRECTIONAL_EDGE", e.trade_id[2] = c
       PROVE  DecidedAt(e) <= at
  BY <1>2, <1>7, <1>8, <1>9, <1>12 DEF ExecutedOn
<1>13. ASSUME NEW t \in Rows(trades), t.strategy = "DIRECTIONAL_EDGE",
              NEW e \in ExecutedOn(t.condition_id)'
       PROVE  DecidedAt(e) <= t.observed_at
  <2>1. t.condition_id # c \/ strategy # "DIRECTIONAL_EDGE"
    BY <1>13 DEF Rows, c
  <2>2. e \in ExecutedOn(t.condition_id)
    BY <1>2, <1>9, <1>13, <2>1 DEF ExecutedOn
  <2> QED BY <1>13, <2>2 DEF OrderInv
<1>14. ExecutedInOrder'
  <2>1. \A e \in executions' : DecidedAt(e) <= now'
    BY <1>1, <1>10
  <2>2. ASSUME NEW d \in Buckets, observed'[d] \notin {NoRow, Missing}
        PROVE  /\ BucketOf[observed'[d].condition_id] = d /\ observed'[d].observed_at <= now'
               /\ \A e \in ExecutedOn(observed[d].condition_id)' :
                    DecidedAt(e) <= observed'[d].observed_at
    BY <1>1, <1>11, <2>2 DEF OrderInv, ExecutedInOrder
  <2>3. \A e \in executions' :
          e.trade_id[1] = "DIRECTIONAL_EDGE" /\ e.trade_id[2] = pending'.condition_id =>
            DecidedAt(e) <= pending'.observed_at
    BY <1>3, <1>12
  <2> QED BY <2>1, <2>2, <2>3 DEF ExecutedInOrder, ExecutedOn, DecidedAt
<1>15. \A t \in Rows(trades)' : t.strategy = "DIRECTIONAL_EDGE" =>
         \A e \in ExecutedOn(t.condition_id)' : DecidedAt(e) <= t.observed_at
  BY <1>1, <1>13 DEF Rows
<1> QED BY <1>14, <1>15 DEF OrderInv, ExecutedOn, DecidedAt

(* Every step keeps the order of the executions. *)
THEOREM NextOrder == ASSUME IInv, OrderInv, [Next]_vars PROVE OrderInv'
<1>1. now \in Nat /\ now <= now /\ observed \in [Buckets -> Observation \cup {NoRow, Missing}]
  BY DecidedTyped DEF IInv, TypeOK
<1>2. ASSUME UNCHANGED <<executions, trades, now>>, pc' # "recording",
             \A b \in Buckets : observed'[b] \in {observed[b], NoRow, Missing}
      PROVE  OrderInv'
  BY <1>1, <1>2, OrderUntouched
<1>3. ASSUME NextLeg, pc \in {"evaluating", "recording"}
      PROVE  /\ pc' # "recording"
             /\ \A b \in Buckets : observed'[b] \in {observed[b], NoRow, Missing}
  <2>1. observed' = observed \/ \E x : observed' = [observed EXCEPT ![x] = NoRow]
    BY <1>3 DEF NextLeg
  <2> QED BY <1>1, <1>3, <2>1 DEF NextLeg
<1>4. CASE StartCycle \/ (\E state \in Answers : ResolveWithoutWinner(state)) \/ ScanTimeout
           \/ (\E c \in Conditions : SettleTrade(c)) \/ FinishSettlement \/ StartEvaluation
  <2>1. UNCHANGED <<executions, trades, now, observed>> /\ pc' # "recording"
    BY <1>4 DEF StartCycle, ResolveWithoutWinner, ScanTimeout, SettleTrade, FinishSettlement,
                StartEvaluation, SelectMarkets, tables, world
  <2> QED BY <1>2, <2>1
<1>5. CASE Abstain
  BY <1>2, <1>3, <1>5 DEF Abstain, tables, world
<1>6. CASE RecordTrade
  <2>1. /\ pc = "recording" /\ trades' = SaveTradeSnapshot(trades, pending) /\ NextLeg
        /\ UNCHANGED <<executions, now>>
    BY <1>6 DEF RecordTrade, world
  <2>2. pending \in Trade /\ trades \in Seq(Trade)
    BY <2>1 DEF IInv, TypeOK
  <2>3. Rows(trades') \subseteq Rows(trades) \cup {pending}
    BY <2>1, <2>2, RowsOfAppend DEF SaveTradeSnapshot
  <2> QED BY <1>1, <1>3, <2>1, <2>3, OrderUntouched
<1>7. CASE Crash
  <2>1. UNCHANGED <<executions, trades, now>> /\ pc' = "idle" /\ observed' = Uncollected
    BY <1>7 DEF Crash, tables
  <2> QED BY <1>2, <2>1 DEF Uncollected
<1>8. CASE (\E c \in Conditions : Publish(c)) \/ UNCHANGED vars
  <2>1. UNCHANGED <<executions, trades, now, observed, pc, pending>>
    BY <1>8 DEF Publish, vars, tables, volatile, world
  <2> QED BY <1>1, <2>1, OrderUntouched
<1>9. CASE Tick
  <2>1. /\ UNCHANGED <<executions, trades, observed, pc, pending>>
        /\ now' = IF now < MaxNow THEN now + 1 ELSE now
    BY <1>9 DEF Tick, volatile
  <2>2. now' \in Nat /\ now <= now'
    BY <1>1, <2>1
  <2> QED BY <2>1, <2>2, OrderUntouched
<1>10. ASSUME NEW offer \in Offers, ExecuteDirectionalPaper(offer) PROVE OrderInv'
  <2>1. /\ pc = "evaluating" /\ State # Missing /\ LifecycleOpen(State.condition_id)
        /\ \A t \in DirectionalOpen : t.condition_id # State.condition_id
        /\ Enter("DIRECTIONAL_EDGE", offer.side,
                 Candidate("DIRECTIONAL_EDGE", State.condition_id, State.observed_at,
                           EffectiveCost(offer)), State.condition_id, State.observed_at)
    BY <1>10 DEF ExecuteDirectionalPaper
  <2>2. State.condition_id \in Conditions
    BY <2>1, StateIsCollected DEF Observation
  <2>3. \A i \in DOMAIN trades : trades[i].strategy = "DIRECTIONAL_EDGE"
                                   => trades[i].condition_id # State.condition_id
    BY <2>1, <2>2, RunningIsUntraded
  <2>4. "DIRECTIONAL_EDGE" \in Strategies
    BY DEF Strategies
  <2> QED BY <2>1, <2>3, <2>4, EnterKeepsOrder
<1>11. CASE ExecuteStructuralPaper
  <2>1. /\ pc = "evaluating" /\ State # Missing
        /\ Enter("STRUCTURAL_ARBITRAGE", "BUY_MERGE",
                 Candidate("STRUCTURAL_ARBITRAGE", State.condition_id, State.observed_at,
                           StructuralCost), State.condition_id, State.observed_at)
    BY <1>11 DEF ExecuteStructuralPaper
  <2>2. "STRUCTURAL_ARBITRAGE" \in Strategies
    BY DEF Strategies
  <2> QED BY <2>1, <2>2, EnterKeepsOrder
<1> QED BY <1>4, <1>5, <1>6, <1>7, <1>8, <1>9, <1>10, <1>11, CollectBucketKeepsOrder
        DEF Next, DaemonStep

(* The executions of a condition are the one with its snapshot or being recorded, and what
   crashes left behind. *)
LEMMA ExecutionsAreCounted ==
  ASSUME IInv, NEW c \in Conditions
  PROVE  Cardinality(ExecutedOn(c)) <= 1 + crashes
<1> USE DEF IInv
<1> DEFINE lost == Unrecorded \ BeingRecorded
           D == ExecutedOn(c)
<1>1. /\ IsFiniteSet(executions) /\ Cardinality(lost) <= crashes /\ crashes \in Nat
      /\ \A e, f \in executions : e.trade_id = f.trade_id => e = f
  BY DEF LeftBehind, TypeOK
<1>2. D \subseteq executions /\ lost \subseteq executions
  BY DEF ExecutedOn, Unrecorded
<1>3. ASSUME NEW e \in D \ lost, NEW f \in D \ lost PROVE e = f
  <2>1. /\ e \in executions /\ e.trade_id[1] = "DIRECTIONAL_EDGE" /\ e.trade_id[2] = c
        /\ f \in executions /\ f.trade_id[1] = "DIRECTIONAL_EDGE" /\ f.trade_id[2] = c
    BY <1>3 DEF ExecutedOn
  <2>2. ASSUME NEW g \in executions, g \notin lost, g.trade_id[1] = "DIRECTIONAL_EDGE",
               g.trade_id[2] = c
        PROVE  \/ \E i \in DOMAIN trades : /\ TradeId(trades[i]) = g.trade_id
                                           /\ trades[i].strategy = "DIRECTIONAL_EDGE"
                                           /\ trades[i].condition_id = c
               \/ /\ pc = "recording" /\ g.trade_id = TradeId(pending)
                  /\ pending.strategy = "DIRECTIONAL_EDGE" /\ pending.condition_id = c
    <3>1. CASE g \in BeingRecorded
      BY <2>2, <3>1 DEF BeingRecorded, TradeId
    <3>2. CASE g \notin Unrecorded
      BY <2>2, <3>2 DEF Unrecorded, Rows, TradeId
    <3> QED BY <2>2, <3>1, <3>2
  <2>3. e.trade_id = f.trade_id
    BY <1>3, <2>1, <2>2 DEF OneSnapshotPerCondition, PendingIsFirst
  <2> QED BY <1>1, <2>1, <2>3
<1>4. IsFiniteSet(lost) /\ Cardinality(lost) \in Nat
  BY <1>1, <1>2, FS_Subset, FS_CardinalityType
<1>5. PICK x : D \subseteq lost \cup {x}
  <2>1. CASE D \ lost = {}
    BY <2>1
  <2>2. CASE D \ lost # {}
    <3>1. PICK x \in D \ lost : TRUE
      BY <2>2
    <3> QED BY <1>3, <3>1
  <2> QED BY <2>1, <2>2
<1> HIDE DEF lost, D
<1>6. IsFiniteSet(lost \cup {x}) /\ Cardinality(lost \cup {x}) <= Cardinality(lost) + 1
  <2>1. /\ IsFiniteSet(lost \cup {x})
        /\ Cardinality(lost \cup {x}) = Cardinality(lost)
             \/ Cardinality(lost \cup {x}) = Cardinality(lost) + 1
    BY <1>4, FS_AddElement
  <2> QED BY <1>4, <2>1
<1>7. /\ Cardinality(D) <= Cardinality(lost \cup {x}) /\ Cardinality(D) \in Nat
      /\ Cardinality(lost \cup {x}) \in Nat
  BY <1>5, <1>6, FS_Subset, FS_CardinalityType
<1>8. Cardinality(D) <= 1 + crashes
  BY <1>1, <1>4, <1>6, <1>7
<1> QED BY <1>8 DEF D

(* OneDirectionalTradePerCondition: a condition has one directional snapshot at most and,
   once it has it, is never executed again; before, every execution but one is the work of a
   crash between the gateway's commit and the snapshot (_execute_directional_paper). *)
THEOREM ConditionsAreTradedOnce == Spec => []OneDirectionalTradePerCondition
<1>1. Init => OrderInv
  BY DEF Init, OrderInv, ExecutedInOrder, ExecutedOn, Uncollected, Rows
<1>2. IInv /\ OrderInv /\ [Next]_vars => OrderInv'
  BY NextOrder
<1>3. IInv /\ OrderInv => OneDirectionalTradePerCondition
  BY ExecutionsAreCounted DEF IInv, OrderInv, OneDirectionalTradePerCondition
<1> QED BY <1>1, <1>2, <1>3, Invariance, PTL DEF Spec

-----------------------------------------------------------------------------
(* The account: sums over the rows of the tables. *)

(* A table has finitely many rows. *)
LEMMA RowsAreFinite ==
  ASSUME NEW S, NEW table \in Seq(S)
  PROVE  IsFiniteSet(Rows(table))
<1>1. Len(table) \in Nat /\ DOMAIN table = 1..Len(table)
  OBVIOUS
<1>2. table \in [1..Len(table) -> Rows(table)]
        /\ \A r \in Rows(table) : \E i \in 1..Len(table) : table[i] = r
  <2>1. table = [i \in 1..Len(table) |-> table[i]]
    OBVIOUS
  <2> QED BY <1>1, <2>1 DEF Rows
<1>3. table \in Surjection(1..Len(table), Rows(table))
  BY <1>2 DEF Surjection
<1> QED BY <1>1, <1>3, FS_Interval, FS_Surjection

(* Open trades are finitely many, and each has what it cost. *)
LEMMA OpenTyped ==
  ASSUME TypeOK
  PROVE  /\ IsFiniteSet(DirectionalOpen) /\ DirectionalOpen \subseteq Rows(trades)
         /\ \A t \in DirectionalOpen : t.cost_basis \in Nat
<1>1. DirectionalOpen \subseteq Rows(trades)
  BY OpenFacts DEF DirectionalOpen
<1>2. IsFiniteSet(Rows(trades))
  BY RowsAreFinite DEF TypeOK
<1>3. \A t \in DirectionalOpen : t.cost_basis \in Nat
  BY <1>1, RowsTyped
<1> QED BY <1>1, <1>2, <1>3, FS_Subset

(* The cost basis of one more open trade, and the result of one more settlement. *)
LEMMA CostBasisFacts ==
  ASSUME NEW open, IsFiniteSet(open), \A t \in open : t.cost_basis \in Nat
  PROVE  /\ CostBasis(open) \in Nat
         /\ \A t : t \notin open /\ t.cost_basis \in Nat
                     => CostBasis(open \cup {t}) = CostBasis(open) + t.cost_basis
<1> DEFINE f == [t \in open |-> t.cost_basis]
<1>1. f \in [open -> Nat]
  OBVIOUS
<1>2. CostBasis(open) \in Nat
  BY <1>1, SumFunctionTyped DEF CostBasis
<1>3. ASSUME NEW t, t \notin open, t.cost_basis \in Nat
      PROVE  CostBasis(open \cup {t}) = CostBasis(open) + t.cost_basis
  <2> DEFINE more == open \cup {t}
             g == [u \in more |-> u.cost_basis]
  <2>1. g \in [more -> Int] /\ f \in [open -> Int] /\ g[t] = t.cost_basis
        /\ \A u \in open : f[u] = g[u]
    BY <1>3
  <2>2. more = open \cup {t}
    OBVIOUS
  <2> HIDE DEF f, g, more
  <2>3. SumFunction(g) = SumFunction(f) + g[t]
    BY <1>3, <2>1, <2>2, SumFunctionAdd
  <2> QED BY <2>1, <2>3 DEF CostBasis, f, g, more
<1> QED BY <1>2, <1>3

(* One more settlement adds its result to the realized one. *)
LEMMA PnlOfOneMore ==
  ASSUME NEW old, IsFiniteSet(old), \A s \in old : s.pnl \in Int
  PROVE  /\ SumFunction([s \in old |-> s.pnl]) \in Int
         /\ \A s : s \notin old /\ s.pnl \in Int
                     => SumFunction([r \in old \cup {s} |-> r.pnl])
                          = SumFunction([r \in old |-> r.pnl]) + s.pnl
<1> DEFINE f == [s \in old |-> s.pnl]
<1>1. SumFunction(f) \in Int
  BY SumFunctionTyped
<1>2. ASSUME NEW s, s \notin old, s.pnl \in Int
      PROVE  SumFunction([r \in old \cup {s} |-> r.pnl]) = SumFunction(f) + s.pnl
  <2> DEFINE more == old \cup {s}
             g == [r \in more |-> r.pnl]
  <2>1. g \in [more -> Int] /\ f \in [old -> Int] /\ g[s] = s.pnl /\ \A r \in old : f[r] = g[r]
    BY <1>2
  <2>2. more = old \cup {s}
    OBVIOUS
  <2> HIDE DEF f, g, more
  <2>3. SumFunction(g) = SumFunction(f) + g[s]
    BY <1>2, <2>1, <2>2, SumFunctionAdd
  <2> QED BY <2>1, <2>3 DEF g, more
<1> QED BY <1>1, <1>2

(* The realized result is a number. *)
LEMMA RealizedPnlFacts ==
  ASSUME NEW table \in Seq(Settlement)
  PROVE  /\ RealizedPnl(table) \in Int
         /\ \A s \in Settlement : s \notin Rows(table)
              => RealizedPnl(Append(table, s)) = RealizedPnl(table) + s.pnl
<1>1. IsFiniteSet(Rows(table)) /\ Rows(table) \subseteq Settlement
  BY RowsAreFinite DEF Rows
<1>2. \A s \in Settlement : s.pnl \in Int
  BY DEF Settlement
<1>3. \A s \in Settlement : Rows(Append(table, s)) = Rows(table) \cup {s}
  BY RowsOfAppend
<1> QED BY <1>1, <1>2, <1>3, PnlOfOneMore DEF RealizedPnl

(* The equity left, as a sum of integers. *)
LEMMA CapitalTyped ==
  ASSUME TypeOK
  PROVE  /\ InitialEquity \in Nat /\ RealizedPnl(settlements) \in Int
         /\ CostBasis(DirectionalOpen) \in Nat
         /\ DirectionalRawAvailableCapital(InitialEquity, trades, settlements)
              = InitialEquity + RealizedPnl(settlements) - CostBasis(DirectionalOpen)
         /\ DirectionalRawAvailableCapital(InitialEquity, trades, settlements) \in Int
<1>1. InitialEquity \in Nat
  BY DaemonConstants DEF DaemonConstants
<1>2. RealizedPnl(settlements) \in Int
  BY RealizedPnlFacts DEF TypeOK
<1>3. CostBasis(DirectionalOpen) \in Nat
  BY OpenTyped, CostBasisFacts
<1> QED BY <1>1, <1>2, <1>3 DEF DirectionalRawAvailableCapital, DirectionalOpen

(* How many directional trades are open, in all and on an asset. *)
OpenOnAsset(t) == {u \in DirectionalOpen : Asset(u) = Asset(t)}

(* The limits of the brake are numbers. *)
LEMMA LimitsTyped == MaxOpen \in Nat /\ MaxOpenPerAsset \in Nat
BY DaemonConstants DEF DaemonConstants

(* The open directional trades are finitely many. *)
LEMMA OpenCounted ==
  ASSUME TypeOK
  PROVE  /\ Cardinality(DirectionalOpen) \in Nat
         /\ \A t : IsFiniteSet(OpenOnAsset(t)) /\ Cardinality(OpenOnAsset(t)) \in Nat
<1>1. IsFiniteSet(DirectionalOpen)
  BY OpenTyped
<1>2. \A t : IsFiniteSet(OpenOnAsset(t))
  BY <1>1, FS_Subset DEF OpenOnAsset
<1> QED BY <1>1, <1>2, FS_CardinalityType

(* A step that writes no trade and no settlement. *)
LEMMA AccountUntouched ==
  ASSUME AccountInv, UNCHANGED <<trades, settlements>>, pc' = "recording" => EntryStillFits'
  PROVE  AccountInv'
<1>1. DirectionalOpen' = DirectionalOpen
  BY DEF DirectionalOpen, OpenOf, OpenTrades, StatusOf, SettlementOf, Rows
<1>2. DirectionalCapitalNeverNegative'
  BY DEF AccountInv, DirectionalCapitalNeverNegative
<1>3. OpenPositionsWithinBrake'
  BY <1>1 DEF AccountInv, OpenPositionsWithinBrake, Asset
<1>4. EntryStillFits'
  BY DEF EntryStillFits
<1> QED BY <1>2, <1>3, <1>4 DEF AccountInv

(* An entry passed the capital gate and the entry brake of the account it is recorded on. *)
LEMMA ExecuteKeepsAccount ==
  ASSUME IInv, AccountInv,
         (\E offer \in Offers : ExecuteDirectionalPaper(offer)) \/ ExecuteStructuralPaper
  PROVE  AccountInv'
<1>1. UNCHANGED <<trades, settlements>>
  BY DEF ExecuteDirectionalPaper, ExecuteStructuralPaper, Enter
<1>2. DirectionalOpen' = DirectionalOpen
  BY <1>1 DEF DirectionalOpen, OpenOf, OpenTrades, StatusOf, SettlementOf, Rows
<1>3. CASE ExecuteStructuralPaper
  <2>1. pending'.strategy = "STRUCTURAL_ARBITRAGE"
    BY <1>3 DEF ExecuteStructuralPaper, Enter
  <2> QED BY <1>1, <2>1, AccountUntouched DEF EntryStillFits
<1>4. ASSUME NEW offer \in Offers, ExecuteDirectionalPaper(offer) PROVE AccountInv'
  <2> DEFINE c == State.condition_id
             cost == EffectiveCost(offer)
             raw == DirectionalRawAvailableCapital(InitialEquity, trades, settlements)
  <2>1. /\ ~BrakeActive(c)
        /\ raw >= Candidate("DIRECTIONAL_EDGE", c, State.observed_at, cost).required_capital
        /\ pending'.cost_basis
             = Candidate("DIRECTIONAL_EDGE", c, State.observed_at, cost).required_capital
        /\ pending'.condition_id = c
    BY <1>4 DEF ExecuteDirectionalPaper, Admitted, CapitalOK, Enter
  <2>2. raw >= pending'.cost_basis
    BY <2>1
  <2>3. Asset(pending') = AssetOf[BucketOf[c]]
    BY <2>1 DEF Asset
  <2>4. /\ ~(Cardinality(DirectionalOpen) >= MaxOpen)
        /\ ~(Cardinality(OpenOnAsset(pending')) >= MaxOpenPerAsset)
    BY <2>1, <2>3 DEF BrakeActive, OpenOnAsset
  <2>5. /\ Cardinality(DirectionalOpen) < MaxOpen
        /\ Cardinality(OpenOnAsset(pending')) < MaxOpenPerAsset
    BY <2>4, OpenCounted, LimitsTyped DEF IInv
  <2>6. EntryStillFits'
    BY <1>1, <1>2, <2>2, <2>5 DEF EntryStillFits, OpenOnAsset, Asset
  <2> QED BY <1>1, <2>6, AccountUntouched
<1> QED BY <1>3, <1>4

(* Recording a directional entry takes what was set aside for it. *)
LEMMA RecordTradeKeepsAccount ==
  ASSUME IInv, AccountInv, RecordTrade
  PROVE  AccountInv'
<1> USE DEF IInv
<1>1. /\ pc = "recording" /\ trades' = SaveTradeSnapshot(trades, pending) /\ NextLeg
      /\ settlements' = settlements
  BY DEF RecordTrade
<1>2. pending \in Trade /\ trades \in Seq(Trade)
  BY <1>1 DEF TypeOK
<1>3. pc' # "recording"
  BY <1>1 DEF NextLeg
<1>4. TypeOK'
  BY RecordTradeKeepsIInv
<1>5. DirectionalOpen' = DirectionalOpen
      \/ /\ DirectionalOpen' = DirectionalOpen \cup {pending}
         /\ pending.strategy = "DIRECTIONAL_EDGE" /\ pending \notin DirectionalOpen
  <2>1. CASE trades' = trades
    BY <1>1, <2>1 DEF DirectionalOpen, OpenOf, OpenTrades, StatusOf, SettlementOf, Rows
  <2>2. CASE trades' = Append(trades, pending)
    <3>1. Rows(trades') = Rows(trades) \cup {pending}
      BY <1>2, <2>2, RowsOfAppend
    <3>2. \A t : t \in DirectionalOpen' <=>
            t \in DirectionalOpen \/ /\ t = pending /\ t.strategy = "DIRECTIONAL_EDGE"
                                     /\ \A s \in Rows(settlements) : s.trade_id # TradeId(t)
      <4>1. DirectionalOpen' = OpenOf("DIRECTIONAL_EDGE", trades', settlements')
        BY DEF DirectionalOpen
      <4>2. DirectionalOpen = OpenOf("DIRECTIONAL_EDGE", trades, settlements)
        BY DEF DirectionalOpen
      <4> QED BY <1>1, <3>1, <4>1, <4>2, OpenFacts
    <3>3. CASE pending \in DirectionalOpen'
      <4>1. pending.strategy = "DIRECTIONAL_EDGE"
        BY <3>2, <3>3, OpenFacts DEF DirectionalOpen
      <4>2. DirectionalOpen' = DirectionalOpen \cup {pending}
        BY <3>2, <3>3
      <4>3. CASE pending \in DirectionalOpen
        BY <4>2, <4>3
      <4> QED BY <4>1, <4>2, <4>3
    <3>4. CASE pending \notin DirectionalOpen'
      BY <3>2, <3>4
    <3> QED BY <3>3, <3>4
  <2> QED BY <1>1, <2>1, <2>2 DEF SaveTradeSnapshot
<1>6. CASE DirectionalOpen' = DirectionalOpen
  <2>1. DirectionalCapitalNeverNegative'
    BY <1>1, <1>6 DEF AccountInv, DirectionalCapitalNeverNegative,
                      DirectionalRawAvailableCapital, DirectionalOpen
  <2>2. OpenPositionsWithinBrake'
    BY <1>6 DEF AccountInv, OpenPositionsWithinBrake, Asset
  <2> QED BY <1>3, <2>1, <2>2 DEF AccountInv, EntryStillFits
<1>7. CASE /\ DirectionalOpen' = DirectionalOpen \cup {pending}
           /\ pending.strategy = "DIRECTIONAL_EDGE" /\ pending \notin DirectionalOpen
  <2>1. /\ DirectionalRawAvailableCapital(InitialEquity, trades, settlements)
             >= pending.cost_basis
        /\ Cardinality(DirectionalOpen) < MaxOpen
        /\ Cardinality(OpenOnAsset(pending)) < MaxOpenPerAsset
    BY <1>1, <1>7 DEF AccountInv, EntryStillFits, OpenOnAsset
  <2>2. pending.cost_basis \in Nat
    BY <1>2 DEF Trade
  <2>3. DirectionalCapitalNeverNegative'
    <3>1. CostBasis(DirectionalOpen \cup {pending})
            = CostBasis(DirectionalOpen) + pending.cost_basis
      BY <1>7, <2>2, OpenTyped, CostBasisFacts
    <3>2. DirectionalRawAvailableCapital(InitialEquity, trades', settlements')
            = InitialEquity + RealizedPnl(settlements) - CostBasis(DirectionalOpen')
      BY <1>1 DEF DirectionalRawAvailableCapital, DirectionalOpen
    <3>3. InitialEquity + RealizedPnl(settlements)
            - (CostBasis(DirectionalOpen) + pending.cost_basis) >= 0
      BY <2>1, <2>2, CapitalTyped
    <3>4. DirectionalRawAvailableCapital(InitialEquity, trades', settlements') >= 0
      BY <1>7, <3>1, <3>2, <3>3
    <3> QED BY <3>4 DEF DirectionalCapitalNeverNegative
  <2>4. Cardinality(DirectionalOpen') <= MaxOpen
    <3>1. Cardinality(DirectionalOpen \cup {pending}) = Cardinality(DirectionalOpen) + 1
      BY <1>7, OpenTyped, FS_AddElement
    <3> QED BY <1>7, <2>1, <3>1, OpenCounted, LimitsTyped
  <2>5. ASSUME NEW t \in DirectionalOpen'
        PROVE  Cardinality({u \in DirectionalOpen' : Asset(u) = Asset(t)}) <= MaxOpenPerAsset
    <3> DEFINE same == {u \in DirectionalOpen' : Asset(u) = Asset(t)}
    <3>1. CASE Asset(t) = Asset(pending)
      <4>1. same = OpenOnAsset(pending) \cup {pending} /\ pending \notin OpenOnAsset(pending)
        BY <1>7, <3>1 DEF OpenOnAsset
      <4>2. Cardinality(same) = Cardinality(OpenOnAsset(pending)) + 1
        BY <4>1, OpenCounted, FS_AddElement
      <4> HIDE DEF same
      <4>3. Cardinality(same) <= MaxOpenPerAsset
        BY <2>1, <4>2, OpenCounted, LimitsTyped
      <4> QED BY <4>3 DEF same
    <3>2. CASE Asset(t) # Asset(pending)
      <4>1. same = {u \in DirectionalOpen : Asset(u) = Asset(t)} /\ t \in DirectionalOpen
        BY <1>7, <2>5, <3>2
      <4> QED BY <4>1 DEF AccountInv, OpenPositionsWithinBrake
    <3> QED BY <3>1, <3>2
  <2>6. OpenPositionsWithinBrake'
    BY <2>4, <2>5 DEF OpenPositionsWithinBrake, Asset
  <2> QED BY <1>3, <2>3, <2>6 DEF AccountInv, EntryStillFits
<1> QED BY <1>5, <1>6, <1>7

(* A settlement closes one trade: its cost comes back as the payout less the loss. *)
LEMMA SettleTradeKeepsAccount ==
  ASSUME IInv, AccountInv, NEW c \in Conditions, SettleTrade(c)
  PROVE  AccountInv'
<1> USE DEF IInv
<1>1. pc' = "settling" /\ trades' = trades /\ pc \in {"resolving", "settling"}
      /\ scan.condition_id = c
  BY DEF SettleTrade
<1>2. official[c] \in Sides
  <2>1. official[c] # Missing
    BY DEF SettleTrade, ScannedHasEnded
  <2> QED BY <2>1 DEF TypeOK
<1>3. PICK t \in DirectionalOpen :
        t.condition_id = c /\ settlements' = Append(settlements, SettlementRow(t, official[c]))
  BY DEF SettleTrade, DirectionalOpen
<1> DEFINE row == SettlementRow(t, official[c])
<1>4. /\ t \in Rows(trades) /\ t.strategy = "DIRECTIONAL_EDGE"
      /\ \A s \in Rows(settlements) : s.trade_id # TradeId(t)
  BY <1>3, OpenFacts DEF DirectionalOpen
<1>5. t.shares \in Nat /\ t.cost_basis \in Nat
  BY <1>4, RowsTyped
<1>6. row.trade_id = TradeId(t) /\ row.pnl \in {t.shares - t.cost_basis, 0 - t.cost_basis}
  BY DEF SettlementRow
<1>7. row \in Settlement
  BY <1>1, <1>2, <1>4, SettlementRowFacts DEF TypeOK
<1> HIDE DEF row
<1>8. row \notin Rows(settlements) /\ settlements \in Seq(Settlement)
      /\ settlements' = Append(settlements, row)
  BY <1>3, <1>4, <1>6 DEF TypeOK, row
<1>9. Rows(settlements') = Rows(settlements) \cup {row}
  BY <1>7, <1>8, RowsOfAppend
<1>10. DirectionalOpen' = DirectionalOpen \ {t}
  <2>1. ASSUME NEW u, u \in DirectionalOpen, TradeId(u) = TradeId(t) PROVE u = t
    <3>1. u \in Rows(trades) /\ u.strategy = "DIRECTIONAL_EDGE"
      BY <2>1, OpenFacts DEF DirectionalOpen
    <3>2. PICK i \in DOMAIN trades, j \in DOMAIN trades : u = trades[i] /\ t = trades[j]
      BY <1>4, <3>1 DEF Rows
    <3>3. u.condition_id = t.condition_id
      BY <2>1, IdFacts
    <3> QED BY <1>4, <3>1, <3>2, <3>3 DEF OneSnapshotPerCondition
  <2>2. \A u : u \in DirectionalOpen' <=> u \in DirectionalOpen /\ TradeId(u) # TradeId(t)
    <3>1. DirectionalOpen' = OpenOf("DIRECTIONAL_EDGE", trades, settlements')
      BY <1>1 DEF DirectionalOpen
    <3>2. DirectionalOpen = OpenOf("DIRECTIONAL_EDGE", trades, settlements)
      BY DEF DirectionalOpen
    <3> QED BY <1>6, <1>9, <3>1, <3>2, OpenFacts
  <2> QED BY <2>1, <2>2
<1>11. DirectionalCapitalNeverNegative'
  <2> DEFINE rest == DirectionalOpen \ {t}
  <2>1. IsFiniteSet(rest) /\ rest \cup {t} = DirectionalOpen /\ t \notin rest
        /\ \A u \in rest : u.cost_basis \in Nat
    BY <1>3, OpenTyped, FS_Subset
  <2> HIDE DEF rest
  <2>2. CostBasis(DirectionalOpen) = CostBasis(rest) + t.cost_basis /\ CostBasis(rest) \in Nat
    <3>1. CostBasis(rest \cup {t}) = CostBasis(rest) + t.cost_basis /\ CostBasis(rest) \in Nat
      BY <1>5, <2>1, CostBasisFacts
    <3> QED BY <2>1, <3>1
  <2>3. RealizedPnl(settlements') = RealizedPnl(settlements) + row.pnl
    BY <1>7, <1>8, RealizedPnlFacts
  <2>4. DirectionalRawAvailableCapital(InitialEquity, trades', settlements')
          = InitialEquity + RealizedPnl(settlements') - CostBasis(DirectionalOpen')
    BY DEF DirectionalRawAvailableCapital, DirectionalOpen
  <2>5. InitialEquity + RealizedPnl(settlements) - CostBasis(DirectionalOpen) >= 0
    BY CapitalTyped DEF AccountInv, DirectionalCapitalNeverNegative
  <2>6. CostBasis(DirectionalOpen') = CostBasis(rest)
    BY <1>10 DEF rest
  <2>7. InitialEquity + (RealizedPnl(settlements) + row.pnl) - CostBasis(rest) >= 0
    BY <1>5, <1>6, <2>2, <2>5, CapitalTyped
  <2>8. DirectionalRawAvailableCapital(InitialEquity, trades', settlements') >= 0
    BY <2>3, <2>4, <2>6, <2>7
  <2> QED BY <2>8 DEF DirectionalCapitalNeverNegative
<1>12. OpenPositionsWithinBrake'
  <2>1. Cardinality(DirectionalOpen') <= MaxOpen
    <3>1. Cardinality(DirectionalOpen \ {t}) <= Cardinality(DirectionalOpen)
          /\ Cardinality(DirectionalOpen \ {t}) \in Nat
      BY OpenTyped, FS_Subset, FS_CardinalityType
    <3>2. Cardinality(DirectionalOpen) <= MaxOpen
      BY DEF AccountInv, OpenPositionsWithinBrake
    <3> QED BY <1>10, <3>1, <3>2, OpenCounted, LimitsTyped
  <2>2. ASSUME NEW u \in DirectionalOpen'
        PROVE  Cardinality({v \in DirectionalOpen' : Asset(v) = Asset(u)}) <= MaxOpenPerAsset
    <3> DEFINE same == {v \in DirectionalOpen' : Asset(v) = Asset(u)}
    <3>1. same \subseteq OpenOnAsset(u) /\ u \in DirectionalOpen
      BY <1>10, <2>2 DEF OpenOnAsset
    <3>2. Cardinality(OpenOnAsset(u)) <= MaxOpenPerAsset
      BY <3>1 DEF AccountInv, OpenPositionsWithinBrake, OpenOnAsset
    <3>3. Cardinality(same) <= Cardinality(OpenOnAsset(u)) /\ Cardinality(same) \in Nat
      BY <3>1, OpenCounted, FS_Subset, FS_CardinalityType
    <3> HIDE DEF same
    <3>4. Cardinality(same) <= MaxOpenPerAsset
      BY <3>2, <3>3, OpenCounted, LimitsTyped
    <3> QED BY <3>4 DEF same
  <2> QED BY <2>1, <2>2 DEF OpenPositionsWithinBrake, Asset
<1> QED BY <1>1, <1>11, <1>12 DEF AccountInv, EntryStillFits

(* The account starts with its equity and nothing open. *)
THEOREM InitAccount == Init => AccountInv
<1> SUFFICES ASSUME Init PROVE AccountInv
  OBVIOUS
<1>1. TypeOK
  BY InitIInv DEF IInv
<1>2. DirectionalOpen = {} /\ Rows(settlements) = {}
  BY OpenFacts DEF Init, DirectionalOpen, Rows
<1>3. CostBasis(DirectionalOpen) = 0 /\ RealizedPnl(settlements) = 0
  BY <1>2, SumFunctionOfNothing DEF CostBasis, RealizedPnl
<1>4. DirectionalCapitalNeverNegative
  BY <1>1, <1>3, CapitalTyped DEF DirectionalCapitalNeverNegative
<1>5. OpenPositionsWithinBrake
  BY <1>2, LimitsTyped, FS_EmptySet DEF OpenPositionsWithinBrake
<1> QED BY <1>4, <1>5 DEF Init, AccountInv, EntryStillFits

(* Every step keeps the account within its capital and its brake. *)
THEOREM NextAccount == ASSUME IInv, AccountInv, [Next]_vars PROVE AccountInv'
<1>1. CASE DaemonStep
  <2>1. CASE \E c \in Conditions : SettleTrade(c)
    BY <2>1, SettleTradeKeepsAccount
  <2>2. CASE (\E offer \in Offers : ExecuteDirectionalPaper(offer)) \/ ExecuteStructuralPaper
    BY <2>2, ExecuteKeepsAccount
  <2>3. CASE RecordTrade
    BY <2>3, RecordTradeKeepsAccount
  <2>4. CASE StartCycle \/ (\E state \in Answers : ResolveWithoutWinner(state)) \/ ScanTimeout
             \/ FinishSettlement \/ StartEvaluation
    <3>1. UNCHANGED <<trades, settlements>> /\ pc' # "recording"
      BY <2>4 DEF StartCycle, ResolveWithoutWinner, ScanTimeout, FinishSettlement,
                  StartEvaluation, SelectMarkets, tables
    <3> QED BY <3>1, AccountUntouched
  <2>5. CASE (\E b \in Buckets : CollectBucket(b)) \/ Abstain
    <3>1. UNCHANGED <<trades, settlements>> /\ pc' # "recording"
      BY <2>5 DEF CollectBucket, Abstain, NextLeg, tables
    <3> QED BY <3>1, AccountUntouched
  <2> QED BY <1>1, <2>1, <2>2, <2>3, <2>4, <2>5 DEF DaemonStep
<1>2. CASE Crash
  <2>1. UNCHANGED <<trades, settlements>> /\ pc' # "recording"
    BY <1>2 DEF Crash, tables
  <2> QED BY <2>1, AccountUntouched
<1>3. CASE (\E c \in Conditions : Publish(c)) \/ Tick \/ UNCHANGED vars
  <2>1. UNCHANGED <<trades, settlements, pc, pending>>
    BY <1>3 DEF Publish, Tick, vars, tables, volatile
  <2>2. DirectionalOpen' = DirectionalOpen
    BY <2>1 DEF DirectionalOpen, OpenOf, OpenTrades, StatusOf, SettlementOf, Rows
  <2>3. EntryStillFits'
    BY <2>1, <2>2 DEF AccountInv, EntryStillFits, Asset
  <2> QED BY <2>1, <2>3, AccountUntouched
<1> QED BY <1>1, <1>2, <1>3 DEF Next

(* The account and the rest of the ledger, in every behaviour. *)
THEOREM AccountInvariance == Spec => []AccountInv
<1>1. IInv /\ AccountInv /\ [Next]_vars => AccountInv'
  BY NextAccount
<1> QED BY <1>1, InitAccount, Invariance, PTL DEF Spec

(* DirectionalCapitalNeverNegative: what the settled results leave of the equity covers the
   cost of everything open, whatever is lost and however late it settles
   (_execute_directional_paper's capital gate, summary's directional capital figures). *)
THEOREM DirectionalTradesArePaidFor == Spec => []DirectionalCapitalNeverNegative
BY AccountInvariance, PTL DEF AccountInv

(* OpenPositionsWithinBrake: the entry brake bounds the ledger, ended and unsettled trades
   included (_paper_directional_entry_brake). *)
THEOREM BrakeHoldsOfLedger == Spec => []OpenPositionsWithinBrake
BY AccountInvariance, PTL DEF AccountInv
=============================================================================
