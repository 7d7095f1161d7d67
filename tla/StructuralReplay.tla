--------------------------- MODULE StructuralReplay ---------------------------
(***************************************************************************)
(* replay/structural.py: the purchase of a complete set in two legs,       *)
(* replayed from a log of book events, against an executor (external) that *)
(* lives through the same events: it waits the latency, buys UP on the     *)
(* book it then holds, waits again, buys DOWN, and sells what one leg has  *)
(* in excess of the other.                                                 *)
(***************************************************************************)
EXTENDS Pricing

CONSTANTS
  Latency,              \* ticks of one leg's delay
  Snapshots,            \* [asks, bids, delay]: delay from the source to the receipt
  Rate,                 \* of the fee schedules, in basis points
  Requested,            \* shares
  MaxAge, MaxEvents, MaxNow  \* the policy's age, bounds

Outcomes == {"UP", "DOWN"}

Event ==
  [outcome : Outcomes, asks : {s.asks : s \in Snapshots}, bids : {s.bids : s \in Snapshots},
   source_ts : {n - s.delay : n \in 0..MaxNow, s \in Snapshots}, recv_ts : 0..MaxNow]

ReplayConstants == {Latency, MaxNow} \subseteq Nat /\ Missing \notin Nat \cup Event

VARIABLES
  now,
  log,                  \* every event ever received, in any number
  held,                 \* outcome -> the executor's latest book
  decision_at,
  up, live              \* its first leg, its final result

vars == <<now, log, held, decision_at, up, live>>

Policy == [max_book_age |-> MaxAge, max_fee_age |-> MaxAge, slippage |-> 1, fee_buffer |-> 50]
Fees == [condition_id |-> "market", mode |-> "bps", rate |-> Rate, age |-> 0]

(* A received book as simulate_depth sees it at an instant. *)
Aged(event, at) ==
  [condition_id |-> "market", token_id |-> event.outcome, asks |-> event.asks, bids |-> event.bids,
   minimum_order_size |-> 1, source_age |-> at - event.source_ts, recv_age |-> at - event.recv_ts]

Leg(event, side, quantity, at) ==
  SimulateDepth(Aged(event, at), Fees, side, quantity, IF side = "BUY" THEN 100 ELSE 0, Policy)

Unavailable == [net |-> Missing]

(* Matched sets are redeemed at par; the excess of a leg is sold on its own book. *)
Outcome(up_leg, down_leg, unwind_books, at) ==
  LET excess == IF up_leg.filled > down_leg.filled THEN "UP" ELSE "DOWN"
      exposure == up_leg.filled + down_leg.filled - 2 * Lesser(up_leg.filled, down_leg.filled)
      unwind == Leg(unwind_books[excess], "SELL", exposure, at)
      matched == Lesser(up_leg.filled, down_leg.filled)
      proceeds == IF exposure = 0 THEN 0 ELSE unwind.all_in
  IN IF exposure > 0 /\ ~Priced(unwind) THEN Unavailable
     ELSE [net |-> matched * 100 * Cent * Scale + proceeds - up_leg.all_in - down_leg.all_in,
           matched |-> matched, exposure |-> exposure,
           complete |-> FullyFilled(up_leg) /\ FullyFilled(down_leg),
           unwind_feasible |-> exposure = 0 \/ FullyFilled(unwind)]

-----------------------------------------------------------------------------
(* Mutant: the latest book of the log, known by then or not. *)
AsOfLookahead(events, outcome, available_at) ==
  {e \in ToSet(events) : /\ e.outcome = outcome
                         /\ \A f \in ToSet(events) : f.outcome = outcome => f.recv_ts <= e.recv_ts}

(* _as_of: the latest book of an outcome among those received by then. *)
AsOf(events, outcome, available_at) ==
  LET eligible == {e \in ToSet(events) : e.outcome = outcome /\ e.recv_ts <= available_at}
  IN {e \in eligible : \A f \in eligible : f.recv_ts <= e.recv_ts}

TheBook(books) == CHOOSE e \in books : TRUE

(* The legs on the books of their instants; no book is ReplayUnavailableError. *)
Replayed(up_books, books, first, second) ==
  IF up_books = {} \/ books["DOWN"] = {} THEN Unavailable
  ELSE LET up_leg == Leg(TheBook(up_books), "BUY", Requested, first)
           down_leg == Leg(TheBook(books["DOWN"]), "BUY", Requested, second)
           latest == [outcome \in Outcomes |-> TheBook(books[outcome])]
       IN IF ~Priced(up_leg) \/ ~Priced(down_leg) THEN Unavailable
          ELSE Outcome(up_leg, down_leg, latest, second)

(* replay_buy_merge. *)
ReplayBuyMerge(events, decided) ==
  LET first == decided + Latency
      second == first + Latency
  IN Replayed(AsOf(events, "UP", first),
              [outcome \in Outcomes |-> AsOf(events, outcome, second)], first, second)

-----------------------------------------------------------------------------
Init ==
  /\ now = 0 /\ log = <<>> /\ held = [o \in Outcomes |-> Missing]
  /\ decision_at = Missing /\ up = Missing /\ live = Missing

(* The log is a tuple in no particular order: an event is put at either end. *)
ReceiveBook(outcome, snapshot) ==
  LET event == [outcome |-> outcome, asks |-> snapshot.asks, bids |-> snapshot.bids,
                source_ts |-> now - snapshot.delay, recv_ts |-> now]
  IN /\ Len(log) < MaxEvents
     /\ \A e \in ToSet(log) : e.outcome = outcome => e.recv_ts < now
     /\ \/ log' = Append(log, event)
        \/ log' = <<event>> \o log
     /\ held' = [held EXCEPT ![outcome] = event]
     /\ UNCHANGED <<now, decision_at, up, live>>

Decide ==
  /\ decision_at = Missing
  /\ decision_at' = now
  /\ UNCHANGED <<now, log, held, up, live>>

(* The executor's legs fall at the end of an instant, when its books are in. *)
Trades == decision_at # Missing /\ now = decision_at + Latency
Completes == decision_at # Missing /\ now = decision_at + 2 * Latency

FirstLeg == IF held["UP"] = Missing THEN Unpriced("no book") ELSE Leg(held["UP"], "BUY", Requested, now)

SecondLeg(first) ==
  LET down == Leg(held["DOWN"], "BUY", Requested, now)
  IN IF ~Priced(first) \/ held["DOWN"] = Missing THEN Unavailable
     ELSE IF ~Priced(down) THEN Unavailable
     ELSE Outcome(first, down, held, now)

Tick ==
  /\ now < MaxNow
  /\ now' = now + 1
  /\ up' = IF Trades THEN FirstLeg ELSE up
  /\ live' = IF Completes THEN SecondLeg(up') ELSE live
  /\ UNCHANGED <<log, held, decision_at>>

Next ==
  \/ \E outcome \in Outcomes, snapshot \in Snapshots : ReceiveBook(outcome, snapshot)
  \/ Decide
  \/ Tick

Spec == Init /\ [][Next]_vars

-----------------------------------------------------------------------------
(* The executor's book of an outcome is the latest of the log, which holds one an
   instant. *)
HoldsLatest(outcome) ==
  /\ held[outcome] = Missing => \A e \in ToSet(log) : e.outcome # outcome
  /\ held[outcome] # Missing =>
       /\ held[outcome] \in ToSet(log) /\ held[outcome].outcome = outcome
       /\ \A e \in ToSet(log) :
            e.outcome = outcome => e = held[outcome] \/ e.recv_ts < held[outcome].recv_ts

TypeOK ==
  /\ now \in 0..MaxNow
  /\ log \in Seq(Event) /\ \A e \in ToSet(log) : e.recv_ts <= now
  /\ held \in [Outcomes -> Event \cup {Missing}]
  /\ \A outcome \in Outcomes : HoldsLatest(outcome)
  /\ decision_at # Missing => decision_at \in 0..now

LegOn(books, at) ==
  IF books = {} THEN Unpriced("no book") ELSE Leg(TheBook(books), "BUY", Requested, at)

(* The first leg of the replay. *)
ReplayedLeg == LegOn(AsOf(log, "UP", decision_at + Latency), decision_at + Latency)

(* The inductive invariant: both legs are those of the replay once their time is past. *)
IInv ==
  /\ TypeOK
  /\ decision_at # Missing /\ now > decision_at + Latency => up = ReplayedLeg
  /\ IF decision_at # Missing /\ now > decision_at + 2 * Latency
     THEN live = ReplayBuyMerge(log, decision_at) ELSE live = Missing

(* A replay made at any later time from the whole log is what the executor lived
   through: it uses no book received after the leg that uses it and misses none that
   was there, in whatever order the log keeps them (replay_buy_merge, _as_of). *)
ReplayMatchesLive == live # Missing => ReplayBuyMerge(log, decision_at) = live
=============================================================================
