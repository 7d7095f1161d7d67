SPECIFICATION MCSpec
CONSTANTS
  short = short
  hour = hour
  btc = btc
  eth = eth
  v = v
  None = None
  Markets = {short, hour}
  Collected = {hour}
  Assets = {btc}
  AssetOf <- MCAssetOf
  Hourly = {hour}
  Start <- MCStart
  End <- MCEnd
  Values = {v}
  Tolerance = 1
  MaxSourceAge = 1
  MaxReceiveLatency = 1
  SettleDelay = 0
  RetryInterval = 1
  MaxConcurrency = 1
  PruneAfter = 1
  PublisherTimes = {2}
  HistoryLimit = 1
  MaxNow = 4
  MaxRestarts = 1
  Subscribed = {btc, eth}
  Timestamps = {0}
  MaxAttempts = 2
INVARIANTS
  BoundaryProven
  OnePricePerWindow
  NoSilentWindow
PROPERTIES
  EveryAttemptEnds
  StreamsAgain
CHECK_DEADLOCK FALSE
