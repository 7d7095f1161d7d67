SPECIFICATION FairSpec
CONSTANTS
  NoRow = NoRow
  Missing = Missing
  BucketOrder <- MCBucketOrder
  AssetOf <- MCAssetOf
  Conditions = {"b1", "e1"}
  BucketOf <- MCBucketOf
  OpensAt <- MCOpensAt
  ClosesAt <- MCShortClosesAt
  Promoted = {"BTC-5m", "ETH-15m"}
  Offers <- MCOneOffer
  StructuralCost = 2
  PayoutPerCost = 2
  InitialEquity = 2
  BaselineCap = 2
  ReducedStake = 1
  MaxOpen = 2
  MaxOpenPerAsset = 1
  ExposurePercent = 60
  DrawdownPercent = 15
  PerformanceSample = 2
  PerformanceLimit = 2
  MinWinPercent = 35
  MaxRecentLoss = 5
  LossLimit = 1
  Cooldown = 1
  CandidateTTL = 1
  PendingDelay = 3
  RetryDelay = 2
  CycleTicks = 1
  Published = {"b1"}
  Answers = {"PENDING", "BLOCKED_PERMANENT"}
  MaxNow = 2
  MaxCrashes = 1
INVARIANTS
  LedgerMatchesExecutions
  OneDirectionalTradePerCondition
  NoTradeStranded
PROPERTIES
  EveryPublishedTradeSettles
