----------------------------- MODULE PaperDaemon -----------------------------
(***************************************************************************)
(* shadow/daemon.py ShadowDaemon.run_forever with the ledger it trades on  *)
(* and the settlement pass of settlement/official.py.  One cycle of the    *)
(* coroutine is: one settlement pass (at most one condition, one await on  *)
(* the official resolver), a concurrent collection of every bucket, then   *)
(* for each bucket in order a directional and a structural evaluation,     *)
(* each of which may commit an execution and, in a second transaction, the *)
(* trade snapshot.  Time passes and the process may die between any two    *)
(* steps; only the SQLite tables survive.                                  *)
(*                                                                         *)
(* The gateway's commit is one step here (PaperGateway refines it);        *)
(* routing and risk are the operators of Router and RiskEngine.            *)
(*                                                                         *)
(* directional_paper_governance_decision executes only on a promoted       *)
(* model, and the daemon passes it no set of promoted models: as shipped   *)
(* Promoted is {} and only structural executions happen.  The directional  *)
(* path is all there behind that one argument, so Promoted is a parameter. *)
(***************************************************************************)
EXTENDS PaperLedger, Router

CONSTANTS
  BucketOrder,      \* SUPPORTED_MARKET_BUCKETS, a sequence
  AssetOf,          \* bucket -> asset
  Conditions,       \* markets of all windows
  BucketOf,         \* condition -> bucket
  OpensAt, ClosesAt,\* condition -> window_start, window_end
  Promoted,         \* buckets whose directional model is promoted, see below
  Offers,           \* candidates a directional assessment may form: [cost, side, baseline]
  StructuralCost,   \* capital of a structural BUY_MERGE opportunity
  PayoutPerCost,    \* shares bought per unit of capital
  InitialEquity,
  BaselineCap, ReducedStake,          \* stake caps, USDC units
  MaxOpen, MaxOpenPerAsset,           \* open directional positions
  ExposurePercent, DrawdownPercent,   \* of equity
  PerformanceSample, PerformanceLimit,\* settled trades looked at
  MinWinPercent, MaxRecentLoss,
  LossLimit, Cooldown,
  CandidateTTL,                       \* candidate.expires_at - observed_at
  PendingDelay, RetryDelay,           \* time to the next settlement attempt
  CycleTicks,                         \* bound: the clock in one cycle
  Published,                          \* conditions whose official winner appears
  Answers,                            \* what a resolver may answer without a winner
  MaxNow, MaxCrashes                  \* bounds

ASSUME DaemonConstants ==
  /\ BucketOrder \in Seq(Rows(BucketOrder)) /\ BucketOrder # <<>> /\ IsInjective(BucketOrder)
  /\ NoRow # Missing /\ Missing \notin {"UP", "DOWN"}
  /\ Offers \subseteq [cost : Nat \ {0}, side : {"UP", "DOWN"}, baseline : BOOLEAN]
  /\ {StructuralCost, PayoutPerCost, ReducedStake} \subseteq Nat \ {0}
  /\ DOMAIN AssetOf = Rows(BucketOrder) /\ BucketOf \in [Conditions -> Rows(BucketOrder)]
  /\ OpensAt \in [Conditions -> Nat] /\ ClosesAt \in [Conditions -> Nat]
  /\ \A c \in Conditions : OpensAt[c] < ClosesAt[c]
  /\ \A c, d \in Conditions : c # d /\ BucketOf[c] = BucketOf[d] =>
       ClosesAt[c] <= OpensAt[d] \/ ClosesAt[d] <= OpensAt[c]
  /\ Published \subseteq Conditions /\ Promoted \subseteq Rows(BucketOrder)
  /\ Answers \subseteq {"PENDING", "BLOCKED_RETRYABLE", "BLOCKED_PERMANENT"}
  /\ PendingDelay \in Nat /\ RetryDelay \in Nat /\ CycleTicks \in Nat /\ Cooldown \in Nat
  /\ MaxOpen \in Nat /\ MaxOpenPerAsset \in Nat
  /\ CandidateTTL \in Nat /\ InitialEquity \in Nat /\ MaxNow \in Nat /\ MaxCrashes \in Nat

Risk == INSTANCE RiskEngine

Sides == {"UP", "DOWN"}
Strategies == {"DIRECTIONAL_EDGE", "STRUCTURAL_ARBITRAGE"}
Buckets == Rows(BucketOrder)

VARIABLES
  \* SQLite tables
  executions,    \* paper_executions: set of [trade_id, expires_at, committed_at]
  trades, settlements, attempts,
  \* the venue
  official,      \* condition -> official winner, or Missing while it is not final
  \* the coroutine
  pc,
  scan,          \* [condition_id, now] of the settlement pass
  selected_at,   \* market_selection_at
  observed,      \* bucket -> NoRow, Missing (unavailable) or [condition_id, observed_at]
  leg,           \* 2k-1, 2k: directional and structural evaluation of bucket k
  pending,       \* snapshot to be saved after the gateway returned
  cycle_ticks,   \* time since the cycle started
  now, crashes

tables == <<executions, trades, settlements, attempts>>
volatile == <<pc, scan, selected_at, observed, leg, pending>>
world == <<official, cycle_ticks, now, crashes>>
vars == <<tables, volatile, world>>

NoScan == [condition_id |-> Missing, now |-> 0]
Uncollected == [b \in Buckets |-> NoRow]

Init ==
  /\ executions = {} /\ trades = <<>> /\ settlements = <<>>
  /\ attempts = [c \in Conditions |-> NoRow]
  /\ official = [c \in Conditions |-> Missing]
  /\ pc = "idle" /\ scan = NoScan /\ selected_at = 0 /\ observed = Uncollected
  /\ leg = 1 /\ pending = Missing
  /\ cycle_ticks = 0 /\ now = 0 /\ crashes = 0

-----------------------------------------------------------------------------
(* Settlement pass: PaperSettlementService.run_once. *)

(* Mutant: a window counts as ended from its start. *)
EndedOnceOpen(t) == OpensAt[t.condition_id] <= now

(* Unsettled directional trades whose window has ended. *)
Ended(t) == ClosesAt[t.condition_id] <= now
Candidates == {t \in OpenOf("DIRECTIONAL_EDGE", trades, settlements) : Ended(t)}

DueTrades == {t \in Candidates : Due(attempts[t.condition_id])}

(* The coroutine goes on to collect: market_selection_at is read. *)
SelectMarkets ==
  /\ pc' = "collecting"
  /\ scan' = NoScan
  /\ selected_at' = now
  /\ UNCHANGED <<observed, leg, pending>>

(* Newest trade first; between trades of one instant the table decides. *)
StartCycle ==
  /\ pc = "idle"
  /\ cycle_ticks' = 0
  /\ \/ DueTrades = {} /\ SelectMarkets
     \/ \E t \in DueTrades :
          /\ \A u \in DueTrades : u.observed_at <= t.observed_at
          /\ scan' = [condition_id |-> t.condition_id, now |-> now]
          /\ pc' = "resolving"
          /\ UNCHANGED <<selected_at, observed, leg, pending>>
  /\ UNCHANGED <<tables, official, now, crashes>>

(* Mutant: an attempt without a winner is due again at once. *)
WaitForNothing(state) == 0

(* _record_attempt: next_attempt_at counts from the pass's own clock reading. *)
Wait(state) ==
  LET delay == CASE state = "PENDING" -> PendingDelay
                 [] state = "BLOCKED_RETRYABLE" -> RetryDelay
                 [] OTHER -> 0
  IN IF delay > cycle_ticks THEN delay - cycle_ticks ELSE 0

RecordAttempt(state, successful_at) ==
  attempts' = Attempted(attempts, scan.condition_id, state, Wait(state), successful_at)

(* The resolver answers without a winner: not final yet, an answer or an
   exception that blocks, or (identity mismatch) one that blocks for good. *)
ResolveWithoutWinner(state) ==
  /\ pc = "resolving"
  /\ state = "PENDING" => official[scan.condition_id] = Missing
  /\ RecordAttempt(state, Missing)
  /\ SelectMarkets
  /\ UNCHANGED <<executions, trades, settlements, world>>

(* The pass is cancelled at its await: nothing is recorded. *)
ScanTimeout ==
  /\ pc = "resolving"
  /\ SelectMarkets
  /\ UNCHANGED <<tables, world>>

SettlementRow(t, winner) ==
  LET win_loss == IF t.side = winner THEN "WIN" ELSE "LOSS"
      payout == IF win_loss = "WIN" THEN t.shares ELSE 0
  IN [trade_id |-> TradeId(t), winning_side |-> winner, win_loss |-> win_loss,
      pnl |-> payout - t.cost_basis, settled_at |-> scan.now]

(* _settle_trade with save_settlement_once, for one matching trade; the loop
   repeats it while the condition has an unsettled one. *)
SettleTrade(c) ==
  /\ \/ pc = "resolving" /\ official[c] # Missing
     \/ pc = "settling"
  /\ scan.condition_id = c
  /\ \E t \in {u \in OpenOf("DIRECTIONAL_EDGE", trades, settlements) : u.condition_id = c} :
       settlements' = Append(settlements, SettlementRow(t, official[c]))
  /\ pc' = "settling"
  /\ UNCHANGED <<executions, trades, attempts, scan, selected_at, observed, leg, pending, world>>

(* Mutant: the condition is recorded SETTLED before its trades are. *)
FinishOnceResolved ==
  /\ pc \in {"resolving", "settling"} /\ official[scan.condition_id] # Missing
  /\ RecordAttempt("SETTLED", scan.now)
  /\ SelectMarkets
  /\ UNCHANGED <<executions, trades, settlements, world>>

(* After the loop: _label_corpus and the SETTLED attempt, or, when labelling
   raises, a BLOCKED_RETRYABLE one. *)
FinishSettlement ==
  /\ pc = "settling"
  /\ \A t \in OpenOf("DIRECTIONAL_EDGE", trades, settlements) :
       t.condition_id # scan.condition_id
  /\ \/ RecordAttempt("SETTLED", scan.now)
     \/ RecordAttempt("BLOCKED_RETRYABLE", Missing)
  /\ SelectMarkets
  /\ UNCHANGED <<executions, trades, settlements, world>>

-----------------------------------------------------------------------------
(* Collection: one task per bucket, gathered. *)

(* _market_lifecycle_reason is None, at a fresh clock reading. *)
LifecycleOpen(c) == OpensAt[c] <= now /\ now < ClosesAt[c]

(* The market discovered is the bucket's window at market_selection_at; the
   state carries the clock read when its features are built.  Unavailable: no
   market, a collection failure or timeout, or a window that ended meanwhile. *)
CollectBucket(b) ==
  /\ pc = "collecting" /\ observed[b] = NoRow
  /\ \E state \in {Missing} \cup
         {[condition_id |-> c, observed_at |-> now] : c \in
            {d \in Conditions : /\ BucketOf[d] = b
                                /\ OpensAt[d] <= selected_at /\ selected_at < ClosesAt[d]
                                /\ LifecycleOpen(d)}} :
       observed' = [observed EXCEPT ![b] = state]
  /\ UNCHANGED <<tables, pc, scan, selected_at, leg, pending, world>>

(* gather returns.  From here on the coroutine does not await. *)
StartEvaluation ==
  /\ pc = "collecting" /\ \A b \in Buckets : observed[b] # NoRow
  /\ pc' = "evaluating" /\ selected_at' = 0
  /\ UNCHANGED <<tables, scan, observed, leg, pending, world>>

-----------------------------------------------------------------------------
(* Evaluation. *)

Directional == leg % 2 = 1
State == observed[BucketOrder[(leg + 1) \div 2]]
Asset(t) == AssetOf[BucketOf[t.condition_id]]

(* Mutant: only trades waiting for settlement count as open. *)
DirectionalUnsettled == Candidates

DirectionalOpen == OpenOf("DIRECTIONAL_EDGE", trades, settlements)
DirectionalEquity == InitialEquity + RealizedPnl(settlements)

(* Mutant: no limit of its own for an asset. *)
BrakeActiveOnTotals(c) ==
  \/ DirectionalEquity > 0 /\ 100 * CostBasis(DirectionalOpen) >= ExposurePercent * DirectionalEquity
  \/ Cardinality(DirectionalOpen) >= MaxOpen

(* _paper_directional_entry_brake: the reasons that forbid an entry. *)
BrakeActive(c) ==
  \/ DirectionalEquity > 0 /\ 100 * CostBasis(DirectionalOpen) >= ExposurePercent * DirectionalEquity
  \/ Cardinality(DirectionalOpen) >= MaxOpen
  \/ Cardinality({t \in DirectionalOpen : Asset(t) = AssetOf[BucketOf[c]]}) >= MaxOpenPerAsset

(* The latest settled directional trades, by observed_at. *)
RecentSettled ==
  LET settled == {i \in DOMAIN trades : StatusOf(trades[i], settlements) = "SETTLED"}
      before(j, i) == \/ trades[j].observed_at > trades[i].observed_at
                      \/ trades[j].observed_at = trades[i].observed_at /\ j < i
      recent == {i \in settled : Cardinality({j \in settled : before(j, i)}) < PerformanceLimit}
  IN UNION {SettlementOf(trades[i], settlements) : i \in recent}

PoorPerformance ==
  LET wins == {s \in RecentSettled : s.win_loss = "WIN"} IN
  /\ Cardinality(RecentSettled) >= PerformanceSample
  /\ \/ 100 * Cardinality(wins) < MinWinPercent * Cardinality(RecentSettled)
     \/ MapThenSumSet(LAMBDA s : s.pnl, RecentSettled) <= -MaxRecentLoss

(* ... and the ones that reduce the stake. *)
StakeReduced(offer) ==
  \/ 100 * DirectionalEquity <= (100 - DrawdownPercent) * InitialEquity
  \/ PoorPerformance
  \/ offer.baseline /\ offer.cost > BaselineCap

EffectiveCost(offer) ==
  IF StakeReduced(offer) /\ offer.cost > ReducedStake THEN ReducedStake ELSE offer.cost

CapitalOK(raw_available, required) == raw_available > 0 /\ raw_available >= required

(* _router_snapshot_from_paper: filled trades hold no claim. *)
RouterSnapshotFromPaper(at) ==
  [unresolved |-> {},
   claims |-> {[candidate_id |-> TradeId(t), condition_id |-> t.condition_id,
                token_ids |-> {TradeId(t)}, reserved_capital |-> t.cost_basis,
                expires_at |-> ClosesAt[t.condition_id], status |-> "ACTIVE"] :
               t \in {u \in DirectionalOpen : /\ ClosesAt[u.condition_id] > at
                                              /\ u.fill_status # "FILLED"}}]

(* _paper_cooldown_until of the summary's losing streak and queue figures. *)
CooldownUntil ==
  LET open == {t.condition_id : t \in OpenTrades(trades, settlements)}
      last == LastSuccessfulSettlementAt(attempts, open)
  IN IF CurrentLosingStreak(trades, settlements) < LossLimit \/ last = Missing THEN Missing
     ELSE last + Cooldown

(* _portfolio_state_from_paper: every open directional trade is an exposure, an
   ended window's for one more instant. *)
PortfolioStateFromPaper(at, raw_available) ==
  [bankroll_available |-> IF raw_available > 0 THEN raw_available ELSE 0,
   exposures |-> {[position_id |-> TradeId(t), asset |-> Asset(t),
                   horizon |-> BucketOf[t.condition_id], capital_at_risk |-> t.cost_basis,
                   window_end |-> IF ClosesAt[t.condition_id] <= at THEN at + 1
                                  ELSE ClosesAt[t.condition_id]] : t \in DirectionalOpen},
   realized_pnl_today |-> RealizedPnl(settlements),
   drawdown |-> MaximumDrawdown(settlements),
   consecutive_losses |-> CurrentLosingStreak(trades, settlements),
   cooldown_until |-> CooldownUntil,
   kill_switch_active |-> FALSE, ledger_reconciled |-> TRUE, assessed_at |-> at]

(* The policy _risk_decision builds; the paper equity is every capital limit. *)
PaperRiskPolicy ==
  [maximum_positions |-> 20, maximum_total_exposure |-> InitialEquity,
   maximum_per_asset_exposure |-> InitialEquity,
   maximum_per_horizon_exposure |-> InitialEquity,
   maximum_crypto_cluster_exposure |-> InitialEquity,
   maximum_overlapping_positions_per_asset |-> 20,
   maximum_directional_stake |-> 5, maximum_daily_loss |-> InitialEquity,
   maximum_drawdown |-> InitialEquity, consecutive_loss_limit |-> LossLimit,
   maximum_state_age |-> 60, maximum_book_age |-> 60, maximum_spread |-> 1,
   maximum_price_impact |-> 1, minimum_depth_persistence |-> 0,
   minimum_persistence_observations |-> 1]

(* Liquidity evidence of a complete two-sided book (without one, an abstain). *)
PaperLiquidity(at) ==
  [observed_at |-> at, source_age |-> 0, spread |-> 0, depth |-> 1, required_depth |-> 1,
   impact |-> 0, persistence |-> 1, observations |-> 1, healthy |-> TRUE,
   sequence_valid |-> TRUE, fee_available |-> TRUE]

ExpiresAt(c, at) == IF at + CandidateTTL < ClosesAt[c] THEN at + CandidateTTL ELSE ClosesAt[c]

Candidate(strategy, c, at, cost) ==
  [candidate_id |-> <<strategy, c, at>>, strategy |-> strategy, condition_id |-> c,
   token_ids |-> {c}, required_capital |-> cost, quality |-> 1, expires_at |-> ExpiresAt(c, at)]

(* Mutant: admission against the equity the account started with. *)
AdmittedOnInitialEquity(candidate, c, at, raw_available) ==
  /\ CapitalOK(InitialEquity, candidate.required_capital)
  /\ Claimable({candidate}, RouterSnapshotFromPaper(at), InitialEquity, FALSE, at) # {}
  /\ Risk!Approved(candidate, AssetOf[BucketOf[c]], BucketOf[c], PaperLiquidity(at),
                   PortfolioStateFromPaper(at, InitialEquity), PaperRiskPolicy, at)

(* Capital gate, router and risk, all at the state's observed_at. *)
Admitted(candidate, c, at, raw_available) ==
  /\ CapitalOK(raw_available, candidate.required_capital)
  /\ Claimable({candidate}, RouterSnapshotFromPaper(at), raw_available, FALSE, at) # {}
  /\ Risk!Approved(candidate, AssetOf[BucketOf[c]], BucketOf[c], PaperLiquidity(at),
                   PortfolioStateFromPaper(at, raw_available), PaperRiskPolicy, at)

(* PaperGateway.execute at now=observed_at: the first result of the key stays;
   committed_at is when the transaction really commits. *)
GatewayCommit(candidate) ==
  executions' =
    IF \E e \in executions : e.trade_id = candidate.candidate_id THEN executions
    ELSE executions \cup {[trade_id |-> candidate.candidate_id,
                           expires_at |-> candidate.expires_at, committed_at |-> now]}

Enter(strategy, side, candidate, c, at) ==
  /\ GatewayCommit(candidate)
  /\ pending' = [strategy |-> strategy, condition_id |-> c, side |-> side,
                 cost_basis |-> candidate.required_capital,
                 shares |-> PayoutPerCost * candidate.required_capital,
                 observed_at |-> at, fill_status |-> "FILLED"]
  /\ pc' = "recording"
  /\ UNCHANGED <<trades, settlements, attempts, scan, selected_at, observed, leg, world>>

(* _execute_directional_paper up to the gateway's commit. *)
ExecuteDirectionalPaper(offer) ==
  LET c == State.condition_id
      at == State.observed_at
      candidate == Candidate("DIRECTIONAL_EDGE", c, at, EffectiveCost(offer))
  IN
  /\ pc = "evaluating" /\ Directional /\ State # Missing
  /\ BucketOf[c] \in Promoted
  /\ LifecycleOpen(c)
  /\ \A t \in DirectionalOpen : t.condition_id # c
  /\ ~BrakeActive(c)
  /\ Admitted(candidate, c, at, DirectionalRawAvailableCapital(InitialEquity, trades, settlements))
  /\ Enter("DIRECTIONAL_EDGE", offer.side, candidate, c, at)

(* _execute_structural_paper up to the gateway's commit. *)
ExecuteStructuralPaper ==
  LET c == State.condition_id
      at == State.observed_at
      candidate == Candidate("STRUCTURAL_ARBITRAGE", c, at, StructuralCost)
  IN
  /\ pc = "evaluating" /\ ~Directional /\ State # Missing
  /\ LifecycleOpen(c)
  /\ Admitted(candidate, c, at, RawAvailableCapital(InitialEquity, trades, settlements))
  /\ Enter("STRUCTURAL_ARBITRAGE", "BUY_MERGE", candidate, c, at)

(* The next evaluation of the cycle, or its end: a state is read no more once
   its bucket's two evaluations are over. *)
NextLeg ==
  /\ leg' = IF leg = 2 * Len(BucketOrder) THEN 1 ELSE leg + 1
  /\ pc' = IF leg = 2 * Len(BucketOrder) THEN "idle" ELSE "evaluating"
  /\ observed' = IF Directional THEN observed
                 ELSE [observed EXCEPT ![BucketOrder[leg \div 2]] = NoRow]
  /\ UNCHANGED <<scan, selected_at>>

(* Mutant: no snapshot of a market that ended since its execution. *)
RecordTradeWhileOpen ==
  /\ pc = "recording"
  /\ trades' = IF LifecycleOpen(pending.condition_id)
               THEN SaveTradeSnapshot(trades, pending) ELSE trades
  /\ pending' = Missing
  /\ NextLeg
  /\ UNCHANGED <<executions, settlements, attempts, world>>

(* save_trade_snapshot, the second transaction of an entry. *)
RecordTrade ==
  /\ pc = "recording"
  /\ trades' = SaveTradeSnapshot(trades, pending)
  /\ pending' = Missing
  /\ NextLeg
  /\ UNCHANGED <<executions, settlements, attempts, world>>

(* Every other outcome of an evaluation: _record_abstain. *)
Abstain ==
  /\ pc = "evaluating"
  /\ NextLeg
  /\ UNCHANGED <<tables, pending, world>>

-----------------------------------------------------------------------------
(* The process dies -- also on an exception the cycle lets through -- and is
   started again. *)
Crash ==
  /\ crashes < MaxCrashes /\ pc # "idle"
  /\ crashes' = crashes + 1
  /\ pc' = "idle" /\ leg' = 1 /\ observed' = Uncollected /\ scan' = NoScan
  /\ selected_at' = 0 /\ pending' = Missing
  /\ UNCHANGED <<tables, official, cycle_ticks, now>>

(* The venue publishes the winner of a window that has ended (external). *)
Publish(c) ==
  /\ c \in Published /\ ClosesAt[c] <= now /\ official[c] = Missing
  /\ \E winner \in Sides : official' = [official EXCEPT ![c] = winner]
  /\ UNCHANGED <<tables, volatile, cycle_ticks, now, crashes>>

(* Time: the clock stops at MaxNow, when every window has ended, but the waits
   of the settlement queue go on.  The timeouts of the pass and of the gather
   and the poll interval keep a cycle shorter than CycleTicks. *)
Tick ==
  /\ cycle_ticks < CycleTicks
  /\ cycle_ticks' = cycle_ticks + 1
  /\ now' = IF now < MaxNow THEN now + 1 ELSE now
  /\ attempts' = [c \in Conditions |->
       IF attempts[c] # NoRow /\ attempts[c].wait > 0
       THEN [attempts[c] EXCEPT !.wait = @ - 1] ELSE attempts[c]]
  /\ UNCHANGED <<executions, trades, settlements, volatile, official, crashes>>

DaemonStep ==
  \/ StartCycle
  \/ \E state \in Answers : ResolveWithoutWinner(state)
  \/ ScanTimeout
  \/ \E c \in Conditions : SettleTrade(c)
  \/ FinishSettlement
  \/ \E b \in Buckets : CollectBucket(b)
  \/ StartEvaluation
  \/ \E offer \in Offers : ExecuteDirectionalPaper(offer)
  \/ ExecuteStructuralPaper
  \/ RecordTrade
  \/ Abstain

Next ==
  \/ DaemonStep
  \/ Crash
  \/ \E c \in Conditions : Publish(c)
  \/ Tick

Spec == Init /\ [][Next]_vars

(* What the scheduling gives: the coroutine always gets on, the clock runs, a
   published winner appears and the resolver does not time out on one condition
   for ever -- a timeout records no attempt, so the newest due condition would be
   tried in every cycle and starve the rest.  Crashes are not fair. *)
Answered(c) == scan.condition_id = c /\ \E state \in Answers : ResolveWithoutWinner(state)
Fairness ==
  /\ WF_vars(DaemonStep)
  /\ WF_vars(Tick)
  /\ \A c \in Conditions :
       WF_vars(Publish(c)) /\ SF_vars(SettleTrade(c)) /\ SF_vars(Answered(c))

FairSpec == Spec /\ Fairness

-----------------------------------------------------------------------------
Trade == [strategy : Strategies, condition_id : Conditions, side : Sides \cup {"BUY_MERGE"},
          cost_basis : Nat \ {0}, shares : Nat, observed_at : 0..MaxNow,
          fill_status : {"FILLED"}]
Id == Strategies \X Conditions \X (0..MaxNow)
Attempt == [state : {"PENDING", "BLOCKED_RETRYABLE", "BLOCKED_PERMANENT", "SETTLED"},
            wait : 0..(PendingDelay + RetryDelay),
            last_successful_settlement_at : (0..MaxNow) \cup {Missing}]
Settlement == [trade_id : Id, winning_side : Sides, win_loss : {"WIN", "LOSS"},
               pnl : Int, settled_at : 0..MaxNow]

Execution == [trade_id : Id, expires_at : Nat, committed_at : 0..MaxNow]
Observation == [condition_id : Conditions, observed_at : 0..MaxNow]

(* Types of the tables and of what the coroutine holds. *)
TypeOK ==
  /\ now \in 0..MaxNow /\ cycle_ticks \in Nat /\ crashes \in Nat
  /\ executions \subseteq Execution
  /\ trades \in Seq(Trade) /\ settlements \in Seq(Settlement)
  /\ attempts \in [Conditions -> Attempt \cup {NoRow}]
  /\ official \in [Conditions -> Sides \cup {Missing}]
  /\ pc \in {"idle", "resolving", "settling", "collecting", "evaluating", "recording"}
  /\ pc \in {"resolving", "settling"} => scan \in [condition_id : Conditions, now : 0..MaxNow]
  /\ observed \in [Buckets -> Observation \cup {NoRow, Missing}]
  /\ leg \in 1..(2 * Len(BucketOrder))
  /\ pc = "recording" => pending \in Trade

(* The directional account can always pay for what it holds: whatever is open
   and however old the state each entry was decided on, the equity left by the
   settled results covers the open cost basis ("directional_raw_available_
   capital" of the summary). *)
DirectionalCapitalNeverNegative ==
  DirectionalRawAvailableCapital(InitialEquity, trades, settlements) >= 0

(* The entry brake holds of the ledger, not only of one entry: never more than
   MaxOpen directional trades are open, nor MaxOpenPerAsset on one asset, ended
   and unsettled ones included. *)
OpenPositionsWithinBrake ==
  /\ Cardinality(DirectionalOpen) <= MaxOpen
  /\ \A t \in DirectionalOpen :
       Cardinality({u \in DirectionalOpen : Asset(u) = Asset(t)}) <= MaxOpenPerAsset

(* Execution and snapshot are two transactions: every snapshot has its
   execution, and an execution lacks its snapshot only while the entry is being
   recorded or after a crash in between. *)
Unrecorded == {e \in executions : \A t \in Rows(trades) : TradeId(t) # e.trade_id}
LedgerMatchesExecutions ==
  /\ \A t \in Rows(trades) : \E e \in executions : e.trade_id = TradeId(t)
  /\ Cardinality(Unrecorded) <= crashes + (IF pc = "recording" THEN 1 ELSE 0)

(* A condition has at most one directional snapshot. *)
OneSnapshotPerCondition ==
  \A i, j \in DOMAIN trades :
    /\ trades[i].strategy = "DIRECTIONAL_EDGE" /\ trades[j].strategy = "DIRECTIONAL_EDGE"
    /\ trades[i].condition_id = trades[j].condition_id
    => i = j

(* The directional executions on a condition; a plan's key is the instant of the state
   it was decided on. *)
ExecutedOn(c) ==
  {e \in executions : e.trade_id[1] = "DIRECTIONAL_EDGE" /\ e.trade_id[2] = c}
DecidedAt(e) == e.trade_id[3]

(* A condition is traded directionally at most once: it has one snapshot at most, and
   once it has one it is never executed again, settled or not.  What has no snapshot yet
   can be executed again, under a later plan's key, only if the process died between the
   gateway's commit and the snapshot: the executions of a condition exceed one by no more
   than the crashes. *)
OneDirectionalTradePerCondition ==
  /\ OneSnapshotPerCondition
  /\ \A t \in Rows(trades) : t.strategy = "DIRECTIONAL_EDGE" =>
       \A e \in ExecutedOn(t.condition_id) : DecidedAt(e) <= t.observed_at
  /\ \A c \in Conditions : Cardinality(ExecutedOn(c)) <= 1 + crashes

(* PnL comes from the official result only: a settlement belongs to one
   directional trade, was made after its window ended and names the published
   winner; no trade is settled twice. *)
SettledByOfficialWinner ==
  /\ \A s \in Rows(settlements) : \E t \in Rows(trades) :
       /\ TradeId(t) = s.trade_id /\ t.strategy = "DIRECTIONAL_EDGE"
       /\ ClosesAt[t.condition_id] <= s.settled_at
       /\ s.winning_side = official[t.condition_id]
  /\ \A i, j \in DOMAIN settlements : settlements[i].trade_id = settlements[j].trade_id => i = j

(* The queue never closes a condition over an open trade: a SETTLED condition
   is never due again, so a trade left open on it would stay open for good. *)
NoTradeStranded ==
  \A t \in DirectionalOpen :
    attempts[t.condition_id] # NoRow => attempts[t.condition_id].state # "SETTLED"

(* What makes the promises above inductive: what is evaluated was collected, only ended
   windows are in the settlement queue, a settlement pass is about one of them, and the
   trade about to be recorded is the first on its condition. *)
CollectedBeforeEvaluated ==
  pc \in {"evaluating", "recording"} =>
    \A k \in DOMAIN BucketOrder : leg <= 2 * k => observed[BucketOrder[k]] # NoRow

QueuedHasEnded == \A c \in Conditions : attempts[c] # NoRow => ClosesAt[c] <= now

ScannedHasEnded ==
  /\ \A i \in DOMAIN settlements : settlements[i].settled_at <= now
  /\ pc \in {"resolving", "settling"} =>
       ClosesAt[scan.condition_id] <= scan.now /\ scan.now <= now
  /\ pc = "settling" => official[scan.condition_id] # Missing

PendingIsFirst ==
  pc = "recording" /\ pending.strategy = "DIRECTIONAL_EDGE" =>
    /\ attempts[pending.condition_id] = NoRow
    /\ \A i \in DOMAIN trades : /\ trades[i].strategy = "DIRECTIONAL_EDGE"
                                => trades[i].condition_id # pending.condition_id

(* An execution has one row, and those without a snapshot, the one being recorded aside,
   were left behind by crashes. *)
BeingRecorded ==
  IF pc = "recording" THEN {e \in executions : e.trade_id = TradeId(pending)} ELSE {}

LeftBehind ==
  /\ \A e, f \in executions : e.trade_id = f.trade_id => e = f
  /\ IsFiniteSet(executions)
  /\ \A t \in Rows(trades) : \E e \in executions : e.trade_id = TradeId(t)
  /\ pc = "recording" => BeingRecorded # {}
  /\ Cardinality(Unrecorded \ BeingRecorded) <= crashes

(* The inductive invariant. *)
IInv ==
  /\ TypeOK /\ CollectedBeforeEvaluated /\ QueuedHasEnded /\ ScannedHasEnded
  /\ PendingIsFirst /\ LeftBehind
  /\ OneSnapshotPerCondition /\ SettledByOfficialWinner /\ NoTradeStranded

(* What orders the executions of a condition: none was decided on a state newer than the
   one its bucket's evaluation has in hand, or than the entry being recorded. *)
ExecutedInOrder ==
  /\ \A e \in executions : DecidedAt(e) <= now
  /\ \A b \in Buckets : observed[b] \notin {NoRow, Missing} =>
       /\ BucketOf[observed[b].condition_id] = b /\ observed[b].observed_at <= now
       /\ \A e \in ExecutedOn(observed[b].condition_id) : DecidedAt(e) <= observed[b].observed_at
  /\ pc = "recording" /\ pending.strategy = "DIRECTIONAL_EDGE" =>
       \A e \in ExecutedOn(pending.condition_id) : DecidedAt(e) <= pending.observed_at

(* Inductive together with IInv. *)
OrderInv ==
  /\ ExecutedInOrder
  /\ \A t \in Rows(trades) : t.strategy = "DIRECTIONAL_EDGE" =>
       \A e \in ExecutedOn(t.condition_id) : DecidedAt(e) <= t.observed_at

(* The account is looked at when an entry is executed and written when it is recorded:
   in between it must still be able to take the entry. *)
EntryStillFits ==
  pc = "recording" /\ pending.strategy = "DIRECTIONAL_EDGE" =>
    /\ DirectionalRawAvailableCapital(InitialEquity, trades, settlements) >= pending.cost_basis
    /\ Cardinality(DirectionalOpen) < MaxOpen
    /\ Cardinality({t \in DirectionalOpen : Asset(t) = Asset(pending)}) < MaxOpenPerAsset

(* Inductive together with IInv. *)
AccountInv == DirectionalCapitalNeverNegative /\ OpenPositionsWithinBrake /\ EntryStillFits

(* Every directional trade on a market whose winner is published is settled in
   the end, or its condition is blocked for good by an identity mismatch: a
   market that never resolves, and is always the newest in the queue, does not
   starve the others. *)
OpenOn(c) == \E t \in DirectionalOpen : t.condition_id = c
BlockedForGood(c) == attempts[c] # NoRow /\ attempts[c].state = "BLOCKED_PERMANENT"
EveryPublishedTradeSettles ==
  \A c \in Published : OpenOn(c) ~> (~OpenOn(c) \/ BlockedForGood(c))

(* docs/08: "New risk is denied for ... active consecutive-loss cooldown": no
   directional execution while the streak is at the limit and the last loss was
   settled, and its SETTLED attempt recorded, less than Cooldown ago. *)
CoolingDown ==
  /\ CurrentLosingStreak(trades, settlements) >= LossLimit
  /\ LET last == settlements[Len(settlements)] IN
       /\ now < last.settled_at + Cooldown
       /\ attempts[last.trade_id[2]] # NoRow /\ attempts[last.trade_id[2]].state = "SETTLED"
CooldownHonoured ==
  [][ CoolingDown => \A e \in executions' \ executions : e.trade_id[1] # "DIRECTIONAL_EDGE" ]_vars

(* docs/10: the gateway "rejects LIVE or expired plans" at execution time: no
   execution is committed after its plan's expiry. *)
NoExpiredPlanExecuted == \A e \in executions : e.committed_at <= e.expires_at
=============================================================================
