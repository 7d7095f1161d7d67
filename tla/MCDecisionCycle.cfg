SPECIFICATION MCSpec
CONSTANTS
  None = None
  c1 = c1
  c2 = c2
  Conditions = {c1, c2}
  Start <- MCStart
  End <- MCEnd
  Identified = {c1}
  Prospective = {c1}
  Winner <- MCWinner
  ClosedAt <- MCEnd
  ResolutionTimes <- MCResolutionTimes
  Targets <- MCTargets
  CheckpointTolerance = 1
  ProspectiveTarget = 1
  Traded = {c1}
  MaxConditions = 1
  RetryDelay = 1
  MaxNow = 5
  MaxRestarts = 1
  Latency = 1
  Snapshots <- MCReplayBooks
  Rate = 100
  Requested = 2
  MaxAge = 1
  MaxEvents = 3
  MaxReplay = 4
  Buckets = {"SOL-5m"}
  Window = 2
  Payloads <- MCPayloads
  Minimum = 2
  Limit = 3
  MinProbability = 40
  MaxProbability = 60
  MaxTraining = 4
  Missing = None
  Opens = 0
  Closes = 2
  BookSnapshots <- MCBookSnapshots
  FeeModes <- MCFeeModes
  Inputs <- MCInputs
  PromotedModels = {"champion"}
  MaxInputAge = 1
  MaxPairSkew = 0
  MaxObservedAt = 2
INVARIANTS
  ReplayMatchesLive
  TrainedOnThePast
  LabelsComplete
  ExecutedSetPaysForItself
  CandidateIsPayable
  AuditExplainsDecision
CHECK_DEADLOCK FALSE
