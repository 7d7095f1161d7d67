---------------------------- MODULE TwapHistory -----------------------------
(***************************************************************************)
(* The bounded per-asset history of Chainlink averages that                *)
(* market_data/official_runtime.py ChainlinkTwapCollector keeps, and how a *)
(* window's opening average is looked up in it.                            *)
(***************************************************************************)
EXTENDS Integers, Sequences

CONSTANT HistoryLimit   \* deque(maxlen=...)

ASSUME HistoryLimitIsPositive == HistoryLimit \in Nat \ {0}

Distance(x, y) == IF x <= y THEN y - x ELSE x - y

(* deque.append: the oldest average makes room. *)
Appended(history, twap) ==
  LET longer == Append(history, twap)
  IN IF Len(longer) > HistoryLimit THEN Tail(longer) ELSE longer

RepeatsLast(history, twap) ==
  /\ history # <<>>
  /\ history[Len(history)].publisher_ts = twap.publisher_ts
  /\ history[Len(history)].value = twap.value

Recorded(history, twap) ==
  IF RepeatsLast(history, twap) THEN history ELSE Appended(history, twap)

(* opening_twap: the oldest of the averages nearest to the boundary, unless even
   that one is outside the tolerance.  A set of at most one element. *)
OpeningTwaps(history, boundary, tolerance) ==
  {history[i] : i \in {n \in DOMAIN history :
     /\ Distance(history[n].publisher_ts, boundary) <= tolerance
     /\ \A k \in DOMAIN history :
          \/ Distance(history[n].publisher_ts, boundary)
               < Distance(history[k].publisher_ts, boundary)
          \/ /\ Distance(history[n].publisher_ts, boundary)
                  = Distance(history[k].publisher_ts, boundary)
             /\ n <= k}}
=============================================================================
