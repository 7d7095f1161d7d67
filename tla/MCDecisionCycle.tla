---------------------------- MODULE MCDecisionCycle ----------------------------
(***************************************************************************)
(* The decisions of one market (DecisionCycle) and what the strategy       *)
(* learns from (LearningRecords), for TLC: a behaviour is one of           *)
(* decisions, replay, models and labels.  The labels are those of two      *)
(* windows: the first one is traded, and its venue reports a closing time  *)
(* within the window, no time, and the resolution; the observations of the *)
(* second one do not identify it.                                          *)
(***************************************************************************)
EXTENDS LearningRecords, DecisionCycle, TLC

CONSTANTS c1, c2

VARIABLE part

Level(price, quantity) == [price |-> price, quantity |-> quantity]

Book(asks, bids, size, age) ==
  [asks |-> asks, bids |-> bids, minimum_order_size |-> size, source_age |-> age]

MCBookSnapshots ==
  {Book(<<Level(40, 1), Level(44, 2)>>, <<Level(39, 2)>>, 2, 0),
   Book(<<Level(45, 1)>>, <<Level(30, 1)>>, 2, 1),
   Book(<<Level(52, 3)>>, <<Level(51, 3)>>, 1, 0),
   Book(<<Level(60, 2)>>, <<Level(57, 2)>>, 2, None),
   Book(<<Level(61, 3)>>, <<Level(58, 2)>>, 2, 0)}

MCFeeModes == {[mode |-> "dynamic", rate |-> 200], [mode |-> "bps", rate |-> 100],
               [mode |-> "dynamic", rate |-> None]}

SignalSet(stability, flip_rate, d_stability, d_flip_rate) ==
  [stability |-> stability, flip_rate |-> flip_rate,
   d_stability |-> d_stability, d_flip_rate |-> d_flip_rate]

Good == SignalSet(70, 20, 80, 20)

Model(p_up, version) == [p_up |-> p_up, version |-> version]

Input(set, model, established) == [features |-> set, forecast |-> model, ptb |-> established]

MCInputs ==
  {Input(None, None, TRUE), Input(Good, None, TRUE),
   Input(Good, Model(90, "champion"), FALSE), Input(Good, Model(90, "champion"), TRUE),
   Input(Good, Model(43, "baseline"), TRUE), Input(Good, Model(10, "baseline"), TRUE),
   Input(Good, Model(50, "baseline"), TRUE),
   Input(SignalSet(69, 10, 90, 10), Model(90, "champion"), TRUE),
   Input(SignalSet(79, 21, None, None), Model(90, "champion"), TRUE),
   Input(SignalSet(None, None, 80, 20), Model(90, "champion"), TRUE)}

MCReplayBooks ==
  {[asks |-> <<Level(40, 1), Level(45, 1)>>, bids |-> <<Level(38, 2)>>, delay |-> 0],
   [asks |-> <<Level(55, 1)>>, bids |-> <<Level(50, 1)>>, delay |-> 1]}

Payload(schema, value, ptb_ready) == [schema |-> schema, value |-> value, ptb |-> ptb_ready]

MCPayloads == {Payload("v1", 1, TRUE), Payload("v1", 2, TRUE), Payload("v2", 1, TRUE),
               Payload(None, 0, TRUE)}

MCStart == c1 :> 0 @@ c2 :> 3

MCEnd == c1 :> 3 @@ c2 :> 4

MCWinner == c1 :> "UP" @@ c2 :> "DOWN"

MCResolutionTimes == c1 :> {2, 4, None} @@ c2 :> {4}

MCTargets == <<3, 1>>

MCInit ==
  /\ part \in {"decisions", "replay", "models", "labels"}
  /\ DecisionInit /\ LearningInit

MCNext ==
  /\ UNCHANGED part
  /\ \/ /\ part = "decisions" /\ DecisionNext
        /\ UNCHANGED <<label_vars, replay_vars, models_vars>>
     \/ /\ part = "replay" /\ Replay!Next
        /\ UNCHANGED <<label_vars, models_vars, decision_vars>>
     \/ /\ part = "models" /\ Models!Next
        /\ UNCHANGED <<label_vars, replay_vars, decision_vars>>
     \/ /\ part = "labels" /\ Next
        /\ UNCHANGED <<replay_vars, models_vars, decision_vars>>

MCSpec ==
  MCInit /\ [][MCNext]_<<part, label_vars, replay_vars, models_vars, decision_vars>>
=============================================================================
