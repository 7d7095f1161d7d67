----------------------------- MODULE RiskEngine -----------------------------
(****************************************************************************)
(* risk/engine.py assess_candidate as an operator: the set of reasons a     *)
(* candidate is denied for, empty when it is approved (approval is for      *)
(* exactly required_capital).  Pure; PaperDaemon calls it with the          *)
(* portfolio of its ledger, RiskPortfolio with one of any caller's.         *)
(*                                                                          *)
(* candidate  [strategy, required_capital, expires_at]                      *)
(* exposure   [position_id, asset, horizon, capital_at_risk, window_end]    *)
(* state      [bankroll_available, exposures, realized_pnl_today, drawdown, *)
(*             consecutive_losses, cooldown_until, kill_switch_active,      *)
(*             ledger_reconciled, assessed_at]; a field the ledger could    *)
(*             not supply is Missing                                        *)
(* liquidity  Missing or [observed_at, source_age, spread, depth,           *)
(*             required_depth, impact, persistence, observations, healthy,  *)
(*             sequence_valid, fee_available]                               *)
(****************************************************************************)
EXTENDS Integers, FiniteSets, Functions

CONSTANT Missing   \* Python's None

CapitalAtRisk(exposures) == SumFunction([x \in exposures |-> x.capital_at_risk])

\* Mutant: the comparison with the assessment time is reversed.
EndedExposures(state, assessed_at) ==
  {x \in state.exposures : x.window_end < assessed_at}

(* Exposures whose window is still running when the candidate is assessed. *)
ActiveExposures(state, assessed_at) ==
  {x \in state.exposures : x.window_end > assessed_at}

Incomplete(state) ==
  Missing \in {state.bankroll_available, state.exposures, state.realized_pnl_today,
               state.drawdown, state.consecutive_losses}

(* _portfolio_reasons *)
PortfolioReasons(candidate, asset, horizon, state, policy, assessed_at) ==
  LET active == ActiveExposures(state, assessed_at)
      same_asset == {x \in active : x.asset = asset}
      requested == candidate.required_capital
      projected(exposures) == CapitalAtRisk(exposures) + requested
      denied == [
        MAXIMUM_POSITIONS |-> Cardinality(active) >= policy.maximum_positions,
        INSUFFICIENT_BANKROLL |-> requested > state.bankroll_available,
        TOTAL_EXPOSURE_LIMIT |-> projected(active) > policy.maximum_total_exposure,
        ASSET_EXPOSURE_LIMIT |-> projected(same_asset) > policy.maximum_per_asset_exposure,
        HORIZON_EXPOSURE_LIMIT |->
          projected({x \in active : x.horizon = horizon}) > policy.maximum_per_horizon_exposure,
        CRYPTO_CLUSTER_EXPOSURE_LIMIT |->
          projected(active) > policy.maximum_crypto_cluster_exposure,
        OVERLAPPING_ASSET_LIMIT |->
          Cardinality(same_asset) >= policy.maximum_overlapping_positions_per_asset,
        DAILY_LOSS_LIMIT |-> state.realized_pnl_today <= -policy.maximum_daily_loss,
        DRAWDOWN_LIMIT |-> state.drawdown >= policy.maximum_drawdown,
        CONSECUTIVE_LOSS_COOLDOWN_ACTIVE |->
          /\ state.consecutive_losses >= policy.consecutive_loss_limit
          /\ state.cooldown_until # Missing
          /\ assessed_at < state.cooldown_until]
  IN {reason \in DOMAIN denied : denied[reason]}

(* _liquidity_reasons *)
LiquidityReasons(liquidity, policy, assessed_at) ==
  LET denied == [
        BOOK_STALE_OR_FUTURE |-> \/ liquidity.observed_at > assessed_at
                                 \/ liquidity.source_age > policy.maximum_book_age,
        BOOK_TRANSPORT_UNHEALTHY |-> ~liquidity.healthy,
        BOOK_SEQUENCE_INVALID |-> ~liquidity.sequence_valid,
        FEE_SCHEDULE_UNAVAILABLE |-> ~liquidity.fee_available,
        SPREAD_TOO_WIDE |-> liquidity.spread > policy.maximum_spread,
        INSUFFICIENT_EXECUTABLE_DEPTH |-> liquidity.depth < liquidity.required_depth,
        PRICE_IMPACT_TOO_HIGH |-> liquidity.impact > policy.maximum_price_impact,
        DEPTH_HISTORY_INSUFFICIENT |->
          liquidity.observations < policy.minimum_persistence_observations,
        TRANSIENT_LIQUIDITY_RISK |->
          /\ liquidity.observations >= policy.minimum_persistence_observations
          /\ liquidity.persistence < policy.minimum_depth_persistence]
  IN IF liquidity = Missing THEN {"LIQUIDITY_EVIDENCE_MISSING"}
     ELSE {reason \in DOMAIN denied : denied[reason]}

(* assess_candidate *)
DenialReasons(candidate, asset, horizon, liquidity, state, policy, assessed_at) ==
  LET age == assessed_at - state.assessed_at
      denied == [
        CANDIDATE_EXPIRED |-> assessed_at > candidate.expires_at,
        PORTFOLIO_STATE_STALE_OR_FUTURE |-> age < 0 \/ age > policy.maximum_state_age,
        GLOBAL_KILL_SWITCH |-> state.kill_switch_active,
        LEDGER_NOT_RECONCILED |-> ~state.ledger_reconciled,
        PORTFOLIO_STATE_INCOMPLETE |-> Incomplete(state),
        DIRECTIONAL_FIXED_STAKE_EXCEEDED |->
          /\ candidate.strategy = "DIRECTIONAL_EDGE"
          /\ candidate.required_capital > policy.maximum_directional_stake]
  IN {reason \in DOMAIN denied : denied[reason]}
       \cup (IF Incomplete(state) THEN {}
             ELSE PortfolioReasons(candidate, asset, horizon, state, policy, assessed_at))
       \cup LiquidityReasons(liquidity, policy, assessed_at)

\* Mutant: the bankroll gate is missing.
ApprovedWithoutBankroll(candidate, asset, horizon, liquidity, state, policy, assessed_at) ==
  DenialReasons(candidate, asset, horizon, liquidity, state, policy, assessed_at)
    \subseteq {"INSUFFICIENT_BANKROLL"}

Approved(candidate, asset, horizon, liquidity, state, policy, assessed_at) ==
  DenialReasons(candidate, asset, horizon, liquidity, state, policy, assessed_at) = {}
=============================================================================
