------------------------------- MODULE Pricing -------------------------------
(*********************************************************************************)
(* pricing/simulation.py and pricing/fees.py: what a quantity costs when it      *)
(* is taken from the levels of a book, with fees and conservative buffers.       *)
(*                                                                               *)
(* Prices are cents, quantities whole shares, money 1e-5 USDC, the quantum to    *)
(* which the program rounds a fee; amounts with buffers are in thousandths of    *)
(* it, so that nothing is lost.  Times are ages: a book or a schedule is older   *)
(* by one at every tick, an age below zero is a timestamp of the future.         *)
(*   book     [condition_id, token_id, asks, bids, source_age, recv_age,         *)
(*             minimum_order_size], levels [price, quantity] with the best first *)
(*   schedule [condition_id, mode, rate, age], rate Missing when the dynamic     *)
(*             formula cannot be evaluated: it has no rate, no exponent, or one    *)
(*             that is not an integer, which quote_fee refuses alike               *)
(*   policy   [max_book_age, max_fee_age, slippage, fee_buffer], in per mille    *)
(*********************************************************************************)
EXTENDS Integers, Sequences, FiniteSets, SequencesExt, FiniteSetsExt

CONSTANT Missing  \* None

Cent == 1000      \* units of money in one cent
Scale == 1000

Lesser(a, b) == IF a < b THEN a ELSE b

(* ROUND_HALF_UP of numerator / denominator, neither negative. *)
RoundHalfUp(numerator, denominator) == (2 * numerator + denominator) \div (2 * denominator)

(* Fee of a taker: a share of the notional in basis points, or the dynamic
   formula shares * rate * (price * (1 - price)) ** exponent.  Of the integer
   exponents only one is modelled, that of the schedules priced in the tests. *)
QuoteFee(schedule, quantity, price) ==
  IF schedule.mode = "bps" THEN RoundHalfUp(quantity * price * schedule.rate, 10)
  ELSE RoundHalfUp(quantity * schedule.rate * price * (100 - price), 1000)

(* Why a book or a schedule cannot be priced (PricingUnavailableError), if so. *)
BookFault(book, policy) ==
  IF book.source_age = Missing THEN "PRICING_UNAVAILABLE"
  ELSE IF book.source_age < 0 THEN "PRICING_UNAVAILABLE"
  ELSE IF book.source_age > policy.max_book_age THEN "BOOK_STALE"
  ELSE IF book.recv_age < 0 \/ book.recv_age > policy.max_book_age THEN "PRICING_UNAVAILABLE"
  ELSE "none"

FeeFault(schedule, condition_id, policy) ==
  IF schedule.condition_id # condition_id \/ schedule.age < 0 THEN "PRICING_UNAVAILABLE"
  ELSE IF schedule.age > policy.max_fee_age THEN "FEE_STALE"
  ELSE "none"

(* Mutant: asks beyond the limit are taken too, and from the worst end. *)
EligibleLevelsWorstFirst(book, side, limit) ==
  IF side = "BUY" THEN Reverse(book.asks)
  ELSE SubSeq(book.bids, 1, Cardinality({i \in DOMAIN book.bids : book.bids[i].price >= limit}))

(* The levels within the limit: the first of a side, which PolymarketBook keeps sorted. *)
EligibleLevels(book, side, limit) ==
  IF side = "BUY"
  THEN SubSeq(book.asks, 1, Cardinality({i \in DOMAIN book.asks : book.asks[i].price <= limit}))
  ELSE SubSeq(book.bids, 1, Cardinality({i \in DOMAIN book.bids : book.bids[i].price >= limit}))

(* One level of the walk: as much of it as is still wanted. *)
Fill(schedule, level, walk) ==
  LET quantity == Lesser(level.quantity, walk.remaining) IN
  IF walk.remaining = 0 THEN walk
  ELSE [remaining |-> walk.remaining - quantity,
        gross |-> walk.gross + level.price * quantity * Cent,
        fee |-> walk.fee + QuoteFee(schedule, quantity, level.price)]

(* What buying costs, or selling brings, with the buffers against it. *)
AllIn(side, walk, policy) ==
  LET buffers == walk.fee * policy.fee_buffer + walk.gross * policy.slippage IN
  IF side = "BUY" THEN Scale * (walk.gross + walk.fee) + buffers
  ELSE Scale * (walk.gross - walk.fee) - buffers

Unpriced(reason) == [fault |-> reason, filled |-> 0, requested |-> 0, all_in |-> 0,
                     token_id |-> Missing, condition_id |-> Missing]

(* The levels are walked from the best on. *)
Walk(schedule, requested, levels) ==
  FoldLeft(LAMBDA walk, level : Fill(schedule, level, walk),
           [remaining |-> requested, gross |-> 0, fee |-> 0], levels)

(* simulate_depth of a taker. *)
SimulateDepth(book, schedule, side, requested, limit, policy) ==
  LET levels == EligibleLevels(book, side, limit)
      walk == Walk(schedule, requested, levels)
      schedule_fault == FeeFault(schedule, book.condition_id, policy)
      fault == IF BookFault(book, policy) # "none" THEN BookFault(book, policy)
               ELSE IF schedule_fault # "none" THEN schedule_fault
               ELSE IF levels # <<>> /\ schedule.rate = Missing THEN "PRICING_UNAVAILABLE"
               ELSE "none"
  IN CASE fault # "none" -> Unpriced(fault)
       [] fault = "none" /\ AllIn(side, walk, policy) < 0 -> Unpriced("PRICING_UNAVAILABLE")
       [] OTHER ->
            [fault |-> "none", filled |-> requested - walk.remaining, requested |-> requested,
             all_in |-> AllIn(side, walk, policy),
             token_id |-> book.token_id, condition_id |-> book.condition_id]

Priced(simulation) == simulation.fault = "none"
FullyFilled(simulation) == Priced(simulation) /\ simulation.filled = simulation.requested

-----------------------------------------------------------------------------
(* Reference: the cheapest way to take a quantity out of the asks, whatever the
   order of taking, with the same fees and buffers; every split is tried. *)
Splits(levels, quantity) ==
  {split \in [DOMAIN levels -> 0..quantity] :
     /\ \A i \in DOMAIN levels : split[i] <= levels[i].quantity
     /\ MapThenSumSet(LAMBDA i : split[i], DOMAIN levels) = quantity}

LevelCost(level, quantity, schedule, policy) ==
  IF quantity = 0 THEN 0
  ELSE (Scale + policy.slippage) * level.price * quantity * Cent
         + (Scale + policy.fee_buffer) * QuoteFee(schedule, quantity, level.price)

SplitCost(levels, split, schedule, policy) ==
  MapThenSumSet(LAMBDA i : LevelCost(levels[i], split[i], schedule, policy), DOMAIN levels)

CheapestCost(levels, quantity, schedule, policy) ==
  Min({SplitCost(levels, split, schedule, policy) : split \in Splits(levels, quantity)})
=============================================================================
