SPECIFICATION MCSpec
CONSTANTS
  m5 = m5
  m15 = m15
  Buckets = {m5, m15}
  Horizon <- MCHorizon
  Outcomes <- MCAnswered
  Slow <- MCSlowEnd
  VenueLag <- MCDepthLag
  Mid <- MCMid
  MaxAge = 2
  MinimumPoints = 2
  CollectTimeout = 1
  MaxBookAge = 2
  MaxFeeAge = 1
  MaxPairSkew = 1
  Poll = 1
  MaxNow = 5
INVARIANTS
  DiagnosticIsSubsequence
  SnapshotEndsAtOwnDepth
  HistoryAgeBounded
  ReportsTruthful
  DecisionsFresh
CHECK_DEADLOCK FALSE
