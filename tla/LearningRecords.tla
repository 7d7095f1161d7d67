---------------------------- MODULE LearningRecords ----------------------------
(***************************************************************************)
(* What the directional strategy learns from: the labelled observations    *)
(* (CorpusLabels), the models trained from such rows and their forecasts   *)
(* (ModelRegistry), and the replay of recorded books (StructuralReplay).   *)
(* The three meet in the database alone: ModelRegistry takes a label as    *)
(* CorpusLabels leaves it, at any time after the window, and a replay      *)
(* reads a finished log.                                                   *)
(***************************************************************************)
EXTENDS CorpusLabels

CONSTANTS
  Latency, Snapshots, Rate, Requested, MaxAge, MaxEvents, MaxReplay,
  Buckets, Window, Payloads, Minimum, Limit, MinProbability, MaxProbability, MaxTraining

VARIABLES
  replay_now, log, held, decision_at, up, live,
  models_now, corpus, official, registry, bucket_forecast

label_vars == vars

replay_vars == <<replay_now, log, held, decision_at, up, live>>

models_vars == <<models_now, corpus, official, registry, bucket_forecast>>

Replay == INSTANCE StructuralReplay WITH
  Missing <- None, MaxNow <- MaxReplay, now <- replay_now

Models == INSTANCE ModelRegistry WITH
  Missing <- None, MaxNow <- MaxTraining, now <- models_now, forecast <- bucket_forecast

ASSUME LearningConstants ==
  CorpusConstants /\ Models!RegistryConstants /\ Replay!ReplayConstants

LearningInit == Init /\ Replay!Init /\ Models!Init

LearningNext ==
  \/ Next /\ UNCHANGED <<replay_vars, models_vars>>
  \/ Replay!Next /\ UNCHANGED <<label_vars, models_vars>>
  \/ Models!Next /\ UNCHANGED <<label_vars, replay_vars>>

LearningSpec == LearningInit /\ [][LearningNext]_<<label_vars, replay_vars, models_vars>>

(* A replay is what an executor with that latency lived through (StructuralReplay). *)
ReplayMatchesLive == Replay!ReplayMatchesLive

(* A trained forecast rests on the past alone (ModelRegistry). *)
TrainedOnThePast == Models!TrainedOnThePast
=============================================================================
