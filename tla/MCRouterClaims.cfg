SPECIFICATION MCSpec
CONSTANTS
  r1 = r1
  r2 = r2
  btc = btc
  eth = eth
  None = None
  Routers = {r1, r2}
  Opportunities <- MCOpportunities
  Bankroll = 5
  Priority <- MCPriority
  Dual40Enabled = FALSE
  Unresolved = {"c4"}
  MaxNow = 3
  Policy <- MCPolicy
  Books <- MCBooks
  Assets = {btc, eth}
  Horizons = {5, 15}
  Stakes = {2, 3}
  Ends = {2, 5}
  Profits = {1}
  Equity = 6
  Cooldown = 3
  MaxEntries = 3
  MaxRiskNow = 5
SYMMETRY RouterSymmetry
INVARIANTS
  ActiveClaimsAreDisjoint
  CandidateClaimedOnce
  NothingClaimedPastExpiry
  RunningWindowsWithinLimits
  SolventWhateverSettles
PROPERTIES
  ClaimsNeverReopen
CHECK_DEADLOCK FALSE
