SPECIFICATION MCSpec
CONSTANTS
  NoRow = NoRow
  Missing = Missing
  BucketOrder <- MCBucketOrder
  AssetOf <- MCAssetOf
  Conditions = {"b1", "b2", "e1"}
  BucketOf <- MCBucketOf
  OpensAt <- MCOpensAt
  ClosesAt <- MCClosesAt
  Promoted = {"BTC-5m", "ETH-15m"}
  Offers <- MCOffers
  StructuralCost = 9
  PayoutPerCost = 2
  InitialEquity = 3
  BaselineCap = 2
  ReducedStake = 2
  MaxOpen = 2
  MaxOpenPerAsset = 1
  ExposurePercent = 60
  DrawdownPercent = 15
  PerformanceSample = 2
  PerformanceLimit = 2
  MinWinPercent = 35
  MaxRecentLoss = 5
  LossLimit = 1
  Cooldown = 1
  CandidateTTL = 1
  PendingDelay = 2
  RetryDelay = 1
  CycleTicks = 1
  Published = {"b1", "b2", "e1"}
  Answers = {"BLOCKED_RETRYABLE"}
  MaxNow = 3
  MaxCrashes = 0
INVARIANTS
  DirectionalCapitalNeverNegative
  OpenPositionsWithinBrake
  SettledByOfficialWinner
