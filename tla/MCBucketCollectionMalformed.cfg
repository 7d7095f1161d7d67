SPECIFICATION MCSpec
CONSTANTS
  m5 = m5
  m15 = m15
  Buckets = {m5}
  Horizon <- MCHorizon
  Outcomes <- MCMalformed
  Slow <- MCSlowEnd
  VenueLag <- MCNoLag
  Mid <- MCMid
  MaxAge = 2
  MinimumPoints = 2
  CollectTimeout = 2
  MaxBookAge = 2
  MaxFeeAge = 2
  MaxPairSkew = 1
  Poll = 1
  MaxNow = 3
INVARIANTS
  MalformedIsContained
CHECK_DEADLOCK FALSE
