---------------------------- MODULE MCPaperDaemon ----------------------------
(***************************************************************************)
(* PaperDaemon for TLC: a BTC bucket with two consecutive windows and an   *)
(* ETH bucket with one long one, an account of two full stakes, and limits *)
(* scaled so that each brake is reached within a few entries.              *)
(***************************************************************************)
EXTENDS PaperDaemon

MCBucketOrder == <<"BTC-5m", "ETH-15m">>
MCAssetOf == [b \in Buckets |-> IF b = "BTC-5m" THEN "BTC" ELSE "ETH"]
MCBucketOf == [c \in Conditions |-> IF c = "e1" THEN "ETH-15m" ELSE "BTC-5m"]
MCOpensAt == [c \in Conditions |-> IF c = "b2" THEN 1 ELSE 0]
MCClosesAt == [c \in Conditions |-> IF c = "b1" THEN 1 ELSE 3]
MCShortClosesAt == [c \in Conditions |-> IF c = "b1" THEN 1 ELSE 2]
MCOffers == {[cost |-> 3, side |-> "UP", baseline |-> FALSE],
             [cost |-> 1, side |-> "UP", baseline |-> FALSE]}
MCOneOffer == {[cost |-> 1, side |-> "UP", baseline |-> FALSE]}
=============================================================================
