--------------------------- MODULE MCRouterClaims ---------------------------
(***************************************************************************)
(* RouterClaims for TLC: two routers and five candidates -- two on one     *)
(* condition, one sharing a token with another condition's, one on the     *)
(* unresolved one-leg condition, one DUAL40 -- and a bankroll that cannot  *)
(* hold every disjoint pair.  Beside it the risk engine admits entries to  *)
(* a portfolio (RiskPortfolio): a behaviour belongs to one of the two.     *)
(***************************************************************************)
EXTENDS AdmissionControl, TLC

VARIABLE part

CONSTANTS r1, r2, btc, eth

Opp(id, strategy, condition, tokens, capital, quality, expiry) ==
  [candidate_id |-> id, strategy |-> strategy, condition_id |-> condition,
   token_ids |-> tokens, required_capital |-> capital, quality |-> quality,
   expires_at |-> expiry]

MCOpportunities ==
  { Opp("d1", "DIRECTIONAL_EDGE", "c1", {"t1"}, 2, 1, 2),
    Opp("s1", "STRUCTURAL_ARBITRAGE", "c1", {"t1", "t2"}, 3, 2, 1),
    Opp("d2", "DIRECTIONAL_EDGE", "c2", {"t3"}, 3, 3, 3),
    Opp("x3", "DIRECTIONAL_EDGE", "c3", {"t3", "t4"}, 1, 4, 3),
    Opp("u4", "DIRECTIONAL_EDGE", "c4", {"t5"}, 1, 5, 3),
    Opp("q5", "DUAL40", "c5", {"t6"}, 1, 6, 3) }

MCPriority == [s \in {"STRUCTURAL_ARBITRAGE", "DIRECTIONAL_EDGE", "DUAL40"} |->
  CASE s = "STRUCTURAL_ARBITRAGE" -> 0 [] s = "DIRECTIONAL_EDGE" -> 1 [] OTHER -> 2]

RouterSymmetry == Permutations(Routers) \cup Permutations({btc, eth})

MCPolicy ==
  [maximum_positions |-> 2, maximum_total_exposure |-> 5,
   maximum_per_asset_exposure |-> 4, maximum_per_horizon_exposure |-> 4,
   maximum_crypto_cluster_exposure |-> 5,
   maximum_overlapping_positions_per_asset |-> 2,
   maximum_directional_stake |-> 3, maximum_daily_loss |-> 7, maximum_drawdown |-> 7,
   consecutive_loss_limit |-> 1, maximum_state_age |-> 1, maximum_book_age |-> 1,
   maximum_spread |-> 1, maximum_price_impact |-> 1, minimum_depth_persistence |-> 1,
   minimum_persistence_observations |-> 1]

GoodBook(t) ==
  [observed_at |-> t, source_age |-> 0, spread |-> 0, depth |-> 1, required_depth |-> 1,
   impact |-> 0, persistence |-> 1, observations |-> 1, healthy |-> TRUE,
   sequence_valid |-> TRUE, fee_available |-> TRUE]

MCBooks ==
  [t \in 0..MaxRiskNow |-> {None, GoodBook(t), [GoodBook(t) EXCEPT !.observations = 0]}]

MCInit == part \in {"claims", "risk"} /\ AdmissionInit

MCNext ==
  /\ UNCHANGED part
  /\ \/ part = "claims" /\ Next /\ UNCHANGED risk_vars
     \/ part = "risk" /\ Risk!Next /\ UNCHANGED claim_vars

MCSpec == MCInit /\ [][MCNext]_<<part, claim_vars, risk_vars>>
=============================================================================
