-------------------------- MODULE MCBucketCollection --------------------------
(***************************************************************************)
(* BucketCollection for TLC, two horizons of one asset, in two scenarios   *)
(* that a behaviour chooses between: the coroutines wait for their last    *)
(* answers, so that their samples reach the histories in any order; or any *)
(* kind of fetch fails in any way, and only a book is slow.                *)
(***************************************************************************)
EXTENDS BucketCollection, TLC

CONSTANTS m5, m15

VARIABLE scenario

MCHorizon == [b \in Buckets |-> IF b = m5 THEN 3 ELSE 8]

MCMid == [t \in 0..MaxNow |-> 1 + (t % 2)]

MCAnswered == [f \in FetchNames |-> {"ok"}]

MCFaults == [f \in FetchNames |->
  CASE f = "OFFICIAL_PTB_RESOLVE" -> {"empty"}
    [] f = "GAMMA" -> {"ok", "parse_fail", "malformed"}
    [] f = "CLOB_DOWN_BOOK" -> {"ok", "fetch_fail", "parse_fail"}
    [] f \in {"FEE_UP", "BINANCE_DEPTH"} -> {"ok", "parse_fail"}
    [] OTHER -> {"ok"}]

MCMalformed == [f \in FetchNames |->
  IF f = "CLOB_UP_BOOK" THEN {"ok", "parse_fail", "malformed"} ELSE {"ok"}]

Lagging(late) == [f \in FetchNames |-> IF f = late THEN 1 ELSE 0]

MCDepthLag == Lagging("BINANCE_DEPTH")

MCNoLag == Lagging("none")

MCSlowEnd == {"BINANCE_DEPTH", "BINANCE_TRADE"}

Faulty == INSTANCE BucketCollection WITH
  Outcomes <- MCFaults, Slow <- {"CLOB_DOWN_BOOK"}, VenueLag <- Lagging("CLOB_UP_BOOK"),
  MaxNow <- 3

ASSUME FaultyConstants == Faulty!CollectionConstants

MCInit == Init /\ scenario \in {"answered", "faults"}

MCNext ==
  /\ \/ scenario = "answered" /\ Next
     \/ scenario = "faults" /\ Faulty!Next
  /\ UNCHANGED scenario

MCSpec == MCInit /\ [][MCNext]_<<vars, scenario>>
=============================================================================
