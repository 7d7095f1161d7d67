SPECIFICATION FairSpec
CONSTANTS
  legacy = legacy
  complete = complete
  Conditions = {legacy, complete}
  Recency <- MCRecency
  Legacy = {legacy}
  InCorpus = {}
  MetadataFaults <- MCMetadataFails
  GammaFaults <- MCNoFaults
  ClobFaults <- MCNoFaults
  MaxPerPass = 1
PROPERTIES
  LaterConditionNotStarved
CHECK_DEADLOCK FALSE
