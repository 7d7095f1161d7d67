--------------------------- MODULE MCPriceToBeat ----------------------------
(***************************************************************************)
(* PriceToBeat for TLC: a short window and an hourly one that opens a tick *)
(* later, one permit for the scheduler's two tasks, the daemon's           *)
(* collection of the hourly window racing its task, averages whose receipt *)
(* may be too late, and a restart at any time.  Beside it the Chainlink    *)
(* collector for two assets (ChainlinkFeed): averages that arrive late,    *)
(* repeated, or on the other asset's subscription.  A behaviour is one of  *)
(* the two.                                                                *)
(***************************************************************************)
EXTENDS OfficialPrices, TLC

CONSTANTS short, hour, btc, eth, v

VARIABLE part

MCAssetOf == [m \in Markets |-> btc]

MCStart == [m \in Markets |-> IF m = short THEN 1 ELSE 2]

MCEnd == [m \in Markets |-> IF m = short THEN 3 ELSE 5]

all_vars == <<part, vars, feed_vars>>

MCInit == part \in {"prices", "feed"} /\ PricesInit

Prices(A) == part = "prices" /\ A /\ UNCHANGED <<part, feed_vars>>

Feeds(A) == part = "feed" /\ A /\ UNCHANGED <<part, vars>>

MCNext == Prices(Next) \/ Feeds(Feed!Next)

(* The fairness of each specification, in its own behaviours. *)
MCFairness ==
  /\ WF_all_vars(Prices(Tick))
  /\ \A m \in Markets : WF_all_vars(Prices(SchedulerStep(m)))
  /\ \A a \in Subscribed :
       WF_all_vars(Feeds(Feed!Proceeds(a))) /\ SF_all_vars(Feeds(Feed!Connect(a)))

MCSpec == MCInit /\ [][MCNext]_all_vars /\ MCFairness

(* Each asset's average stream comes back, whatever happens (ChainlinkFeed). *)
StreamsAgain == part = "feed" => Feed!StreamsAgain
=============================================================================
