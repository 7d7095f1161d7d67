---------------------------- MODULE RiskPortfolio ----------------------------
(***************************************************************************)
(* assess_candidate over a run of admissions.  A caller like the daemon's *)
(* cycle takes the portfolio state  from its ledger, assesses a candidate  *)
(* with it some time later, and enters what the engine approves; windows   *)
(* end and results settle in between.  The state it assesses with may be   *)
(* old or incomplete.  The policy's limits then have to hold of the        *)
(* portfolio, not of one call.                                             *)
(***************************************************************************)
EXTENDS RiskEngine

CONSTANTS
  Policy,                            \* RiskPolicy
  Books,                             \* instant -> the liquidity evidence there may be
  Assets, Horizons, Stakes, Ends,    \* of candidates
  Profits,                           \* of winning entries
  Equity, Cooldown,
  MaxEntries, MaxNow                 \* bounds

PortfolioConstants ==
  /\ {Policy.maximum_positions, Policy.maximum_total_exposure,
      Policy.maximum_per_asset_exposure, Policy.maximum_per_horizon_exposure,
      Policy.maximum_overlapping_positions_per_asset} \subseteq Nat
  /\ Stakes \subseteq Nat /\ Ends \subseteq Nat /\ Profits \subseteq Nat
  /\ {Equity, MaxEntries, MaxNow} \subseteq Nat

VARIABLES
  exposures,   \* unsettled entries, the ones whose window has ended included
  entries,     \* entries so far: the next position_id
  pnl, losses, \* realised result and current losing streak
  settled_at,  \* time of the last settlement, or Missing
  held,        \* the portfolio state the caller assesses with, or Missing
  now

vars == <<exposures, entries, pnl, losses, settled_at, held, now>>

Raw == Equity + pnl - CapitalAtRisk(exposures)

CooldownUntil ==
  IF losses >= Policy.consecutive_loss_limit THEN settled_at + Cooldown ELSE Missing

LedgerState ==
  [bankroll_available |-> Raw, exposures |-> exposures, realized_pnl_today |-> pnl,
   drawdown |-> IF pnl < 0 THEN -pnl ELSE 0, consecutive_losses |-> losses,
   cooldown_until |-> CooldownUntil,
   kill_switch_active |-> FALSE, ledger_reconciled |-> TRUE, assessed_at |-> now]

Init ==
  /\ exposures = {} /\ entries = 0 /\ pnl = 0 /\ losses = 0
  /\ settled_at = Missing /\ held = Missing /\ now = 0

TakeState ==
  /\ held = Missing
  /\ held' \in {LedgerState, [LedgerState EXCEPT !.exposures = Missing]}
  /\ UNCHANGED <<exposures, entries, pnl, losses, settled_at, now>>

Candidate(stake) ==
  [strategy |-> "DIRECTIONAL_EDGE", required_capital |-> stake, expires_at |-> now]

Enter(asset, horizon, stake, end, book) ==
  /\ held # Missing /\ end > now /\ entries < MaxEntries
  /\ Approved(Candidate(stake), asset, horizon, book, held, Policy, now)
  /\ exposures' = exposures \cup
       {[position_id |-> entries, asset |-> asset, horizon |-> horizon,
         capital_at_risk |-> stake, opened_at |-> now, window_end |-> end]}
  /\ entries' = entries + 1
  /\ held' = Missing
  /\ UNCHANGED <<pnl, losses, settled_at, now>>

GiveUp ==
  /\ held # Missing /\ held' = Missing
  /\ UNCHANGED <<exposures, entries, pnl, losses, settled_at, now>>

(* A window that has ended pays a profit or takes all that was put into it. *)
Settle(x, win, profit) ==
  /\ x.window_end <= now
  /\ exposures' = exposures \ {x}
  /\ pnl' = IF win THEN pnl + profit ELSE pnl - x.capital_at_risk
  /\ losses' = IF win THEN 0 ELSE losses + 1
  /\ settled_at' = now
  /\ UNCHANGED <<entries, held, now>>

Tick ==
  /\ now < MaxNow /\ now' = now + 1
  /\ UNCHANGED <<exposures, entries, pnl, losses, settled_at, held>>

Next ==
  \/ TakeState
  \/ \E a \in Assets, h \in Horizons, s \in Stakes, e \in Ends, book \in Books[now] :
       Enter(a, h, s, e, book)
  \/ GiveUp
  \/ \E x \in exposures, win \in BOOLEAN, profit \in Profits : Settle(x, win, profit)
  \/ Tick

Spec == Init /\ [][Next]_vars

-----------------------------------------------------------------------------
Exposure ==
  [position_id : 0..(entries - 1), asset : Assets, horizon : Horizons,
   capital_at_risk : Stakes, opened_at : 0..now, window_end : Ends]

TypeOK ==
  /\ now \in Nat /\ entries \in Nat /\ pnl \in Int
  /\ IsFiniteSet(exposures) /\ exposures \subseteq Exposure

Running == {x \in exposures : x.window_end > now}
CapitalWhere(x, field) == CapitalAtRisk({y \in Running : y[field] = x[field]})

(* The windows that are still running stay within every exposure and position
   limit of the policy, in whatever order entries, settlements and window ends
   come and however old the state each entry was assessed with. *)
RunningWindowsWithinLimits ==
  /\ Cardinality(Running) <= Policy.maximum_positions
  /\ CapitalAtRisk(Running) <= Policy.maximum_total_exposure
  /\ \A x \in Running :
       /\ CapitalWhere(x, "asset") <= Policy.maximum_per_asset_exposure
       /\ CapitalWhere(x, "horizon") <= Policy.maximum_per_horizon_exposure
       /\ Cardinality({y \in Running : y.asset = x.asset})
            <= Policy.maximum_overlapping_positions_per_asset

(* The exposure limits forget a window once it has ended, the bankroll gate
   does not: whatever is still unsettled can be lost and the account stays
   solvent. *)
SolventWhateverSettles == Raw >= 0

(* A state taken earlier leaves out no exposure there is now, and promises no more
   than there is now: only the caller itself enters, and a settlement only frees. *)
HeldIsCautious ==
  held # Missing =>
    /\ held.exposures = Missing \/ /\ exposures \subseteq held.exposures
                                   /\ IsFiniteSet(held.exposures)
                                   /\ \A x \in held.exposures : x.capital_at_risk \in Nat
    /\ held.bankroll_available \in Int /\ held.bankroll_available <= Raw

(* The inductive invariant. *)
IInv == TypeOK /\ HeldIsCautious /\ RunningWindowsWithinLimits /\ SolventWhateverSettles
=============================================================================
