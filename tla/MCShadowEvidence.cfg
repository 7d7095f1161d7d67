SPECIFICATION MCSpec
CONSTANTS
  btc = btc
  eth = eth
  legacy = legacy
  complete = complete
  Buckets = {btc, eth}
  Order <- MCOrder
  StartupAttempts = 2
  EventAttempts = 2
  MaxProcesses = 2
  MaxCycles = 1
  Conditions = {legacy, complete}
  Recency <- MCRecency
  Legacy = {legacy}
  InCorpus = {}
  MetadataFaults <- MCMetadataFaults
  GammaFaults <- MCGammaFaults
  ClobFaults <- MCClobFaults
  MaxPerPass = 2
INVARIANTS
  EvidenceReferential
  DecisionsHaveMarketData
  CycleAccounted
  SettledByOwnMarket
PROPERTIES
  CycleEnds
  EveryTradeSettles
CHECK_DEADLOCK FALSE
