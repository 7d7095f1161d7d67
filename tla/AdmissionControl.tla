--------------------------- MODULE AdmissionControl ---------------------------
(***************************************************************************)
(* The two gates of an opportunity: the router's claims (RouterClaims) and *)
(* the risk engine's portfolio (RiskPortfolio).  They meet in the          *)
(* candidate that passes both; neither reads or writes what the other one  *)
(* keeps.                                                                  *)
(***************************************************************************)
EXTENDS RouterClaims

CONSTANTS
  Policy, Books, Assets, Horizons, Stakes, Ends, Profits, Equity, Cooldown,
  MaxEntries, MaxRiskNow

VARIABLES exposures, entries, pnl, losses, settled_at, held, risk_now

claim_vars == vars

risk_vars == <<exposures, entries, pnl, losses, settled_at, held, risk_now>>

Risk == INSTANCE RiskPortfolio WITH Missing <- None, MaxNow <- MaxRiskNow, now <- risk_now

ASSUME RiskConstants == Risk!PortfolioConstants

AdmissionInit == Init /\ Risk!Init

AdmissionNext ==
  \/ Next /\ UNCHANGED risk_vars
  \/ Risk!Next /\ UNCHANGED claim_vars

AdmissionSpec == AdmissionInit /\ [][AdmissionNext]_<<claim_vars, risk_vars>>

(* Every limit of the policy holds of the running portfolio (RiskPortfolio). *)
RunningWindowsWithinLimits == Risk!RunningWindowsWithinLimits

(* Whatever is unsettled can be lost (RiskPortfolio). *)
SolventWhateverSettles == Risk!SolventWhateverSettles
=============================================================================
