---------------------------- MODULE OfficialPrices ----------------------------
(***************************************************************************)
(* The prices to beat (PriceToBeat) beside the collector their averages    *)
(* come from (ChainlinkFeed).  PriceToBeat takes an average as it is       *)
(* recorded, with the time of its receipt; ChainlinkFeed follows the       *)
(* connections, tasks and frames that bring it.  Nothing of a price        *)
(* reaches the collector, and any average may be the next one, so that the *)
(* composition interleaves the two.                                        *)
(***************************************************************************)
EXTENDS PriceToBeat

CONSTANTS
  Subscribed,     \* assets the collector has a task for
  Timestamps,     \* publisher timestamps of its frames
  MaxAttempts     \* RetryPolicy.max_attempts

VARIABLES connection, attempt, status, averages, latest

feed_vars == <<connection, attempt, status, averages, latest>>

Feed == INSTANCE ChainlinkFeed WITH Assets <- Subscribed, history <- averages

ASSUME FeedConstants == Feed!FeedConstants /\ Feed!NoneIsNoTwap

PricesInit == Init /\ Feed!Init

PricesNext ==
  \/ Next /\ UNCHANGED feed_vars
  \/ Feed!Next /\ UNCHANGED vars

PricesSpec == PricesInit /\ [][PricesNext]_<<vars, feed_vars>>
=============================================================================
