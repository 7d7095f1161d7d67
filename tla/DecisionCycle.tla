---------------------------- MODULE DecisionCycle ----------------------------
(***************************************************************************)
(* The two strategies a cycle evaluates on one market, and what is         *)
(* recorded of them: the directional assessment with its gates, its audit  *)
(* and the model governance (strategies/directional/strategy.py,           *)
(* models/governance.py), the complete-set scan                            *)
(* (strategies/structural_arb/scanner.py) and their callers in             *)
(* shadow/daemon.py.  Books, fees, features and forecasts change and age   *)
(* between evaluations; risk and execution answer in any way (PaperDaemon  *)
(* models them).                                                           *)
(***************************************************************************)
EXTENDS Pricing

CONSTANTS
  Opens, Closes,        \* the market's window
  BookSnapshots,        \* [asks, bids, minimum_order_size, source_age]
  FeeModes,             \* [mode, rate]
  Inputs,               \* [features, forecast, ptb]: features [stability, flip_rate,
                        \* d_stability, d_flip_rate], forecast [p_up, version], or Missing
  PromotedModels,       \* versions with a promotion; the program passes none
  MaxInputAge,          \* max_book_age, max_fee_age
  MaxPairSkew,
  MaxObservedAt         \* bound

(* The values of an input, as contracts.py lets them through, and of a priced depth. *)
BookLevel == [price : 0..100, quantity : Nat \ {0}]

Features ==
  [stability : Int \cup {Missing}, flip_rate : Int \cup {Missing},
   d_stability : Int \cup {Missing}, d_flip_rate : Int \cup {Missing}]

Signals == [stability : Int \cup {Missing}, flip_rate : Int \cup {Missing}]

Simulations ==
  [fault : {"none"}, filled : Nat, requested : Nat, all_in : Int, token_id : {"UP", "DOWN"},
   condition_id : {"market"}]

ASSUME DecisionConstants ==
  /\ Missing \notin Int \cup Signals \cup Simulations
  /\ Opens \in Int /\ Closes \in Int /\ MaxInputAge \in Nat /\ MaxPairSkew \in Nat
  /\ BookSnapshots \subseteq
       [asks : Seq(BookLevel), bids : Seq(BookLevel), minimum_order_size : Nat \ {0},
        source_age : Int \cup {Missing}]
  /\ FeeModes \subseteq [mode : {"bps", "dynamic"}, rate : Nat \cup {Missing}]
  /\ \A input \in Inputs :
       /\ input.features \in Features \cup {Missing} /\ input.ptb \in BOOLEAN
       /\ input.forecast # Missing => input.forecast.p_up \in 0..100

(* The venue (external) quotes a price once and in order; the contract asks for the order. *)
ASSUME OneLevelPerPrice ==
  \A snapshot \in BookSnapshots : \A i, j \in DOMAIN snapshot.asks :
    i < j => snapshot.asks[i].price < snapshot.asks[j].price

(* Dynamic fees stay below 96 percent (external; the contract asks for no bound): a cent
   more of price is never won back by a lower fee. *)
ASSUME FeesBelowPrices ==
  \A fee \in FeeModes : fee.mode = "dynamic" /\ fee.rate # Missing => fee.rate <= 9600

VARIABLES
  observed_at,
  books,                \* side -> book, Missing when none was fetched
  fees,                 \* side -> schedule or Missing
  features, ptb, forecast,
  decision              \* of the last evaluation, or Missing once an input changed

decision_vars == <<observed_at, books, fees, features, ptb, forecast, decision>>

Sides == {"UP", "DOWN"}
Condition == "market"
ThePolicy ==
  [max_book_age |-> MaxInputAge, max_fee_age |-> MaxInputAge, slippage |-> 1, fee_buffer |-> 50]

(* DirectionalPolicy of the daemon, percent; a forecast is generated for the
   cycle's own observed_at, so its age is always zero. *)
MinimumNetEdge == 3
UncertaintyBuffer == 1
MinimumStability == 70
MaximumFlipRate == 20

(* StructuralPolicy of the daemon, in scaled money: 0.01 USDC and 10 basis points. *)
MinimumNetProfit == Scale * Cent
CycleBuffer(shares) == shares * (Cent \div 10) * Scale

Larger(a, b) == IF a > b THEN a ELSE b

DecisionInit ==
  /\ observed_at = 0
  /\ books = [side \in Sides |-> Missing] /\ fees = [side \in Sides |-> Missing]
  /\ features = Missing /\ ptb = FALSE /\ forecast = Missing /\ decision = Missing

-----------------------------------------------------------------------------
(* Directional strategy. *)

(* The quantity both strategies price.  Sizes are whole shares, so that the floor of one
   share of _directional_pricing never binds. *)
MinimumSize == Larger(books["UP"].minimum_order_size, books["DOWN"].minimum_order_size)

Simulated(side) ==
  SimulateDepth(books[side], fees[side], "BUY", MinimumSize, 100, ThePolicy)

(* _directional_pricing: both sides, or neither when one of them fails. *)
DirectionalPricing ==
  IF (\E s \in Sides : books[s] = Missing \/ fees[s] = Missing)
     \/ \E s \in Sides : ~Priced(Simulated(s))
  THEN [s \in Sides |-> Missing]
  ELSE [s \in Sides |-> Simulated(s)]

Probability(side) == IF side = "UP" THEN forecast.p_up ELSE 100 - forecast.p_up

ChosenPricing(side) == DirectionalPricing[side]

(* Percent of the payout left after cost and uncertainty, times the quantity. *)
NetEdge(side, pricing) ==
  (Probability(side) - UncertaintyBuffer) * pricing.filled * Cent * Scale - pricing.all_in

Abstains(reason) == [action |-> "ABSTAIN", reason |-> reason, side |-> Missing]

(* The signal's quality gates, on the features or on their diagnostic copy. *)
SignalFailure(signal) ==
  IF signal.stability = Missing \/ signal.flip_rate = Missing
  THEN "SIGNAL_QUALITY_FEATURES_MISSING"
  ELSE IF signal.stability < MinimumStability THEN "SIGNAL_UNSTABLE"
  ELSE IF signal.flip_rate > MaximumFlipRate THEN "FLIP_RATE_TOO_HIGH"
  ELSE "none"

(* The gates on side and price, once signal and model are accepted. *)
AssessEdge ==
  LET side == IF forecast.p_up > 50 THEN "UP" ELSE "DOWN"
      pricing == ChosenPricing(side)
  IN CASE forecast.p_up = 50 -> Abstains("NO_DIRECTIONAL_SIDE")
       [] forecast.p_up # 50 /\ (IF pricing = Missing THEN TRUE ELSE ~FullyFilled(pricing)) ->
            Abstains("EXECUTABLE_PRICE_UNAVAILABLE")
       [] OTHER ->
            IF pricing.condition_id # Condition \/ pricing.token_id # side
            THEN Abstains("EXECUTABLE_PRICE_IDENTITY_MISMATCH")
            ELSE IF NetEdge(side, pricing) < MinimumNetEdge * pricing.filled * Cent * Scale
            THEN [action |-> "ABSTAIN", reason |-> "NET_EDGE_BELOW_MINIMUM", side |-> side]
            ELSE [action |-> "TRADE", reason |-> "PRE_RISK_CANDIDATE", side |-> side,
                  quantity |-> pricing.filled, required_capital |-> pricing.all_in]

(* assess_directional_edge for one set of signal values.  The market is the one the
   state was built for, so _require_identity never raises here; a bucket without a
   trained model is given the baseline, whose calibration counts as ready. *)
Assess(signal) ==
  CASE observed_at < Opens \/ observed_at >= Closes -> Abstains("MARKET_NOT_ACTIVE")
    [] Opens <= observed_at /\ observed_at < Closes /\ ~ptb -> Abstains("OFFICIAL_PTB_UNAVAILABLE")
    [] OTHER ->
         IF signal = Missing THEN Abstains("FEATURES_UNAVAILABLE")
         ELSE IF forecast = Missing THEN Abstains("MODEL_UNAVAILABLE")
         ELSE IF SignalFailure(signal) # "none" THEN Abstains(SignalFailure(signal))
         ELSE AssessEdge

Signal == IF features = Missing THEN Missing
          ELSE [stability |-> features.stability, flip_rate |-> features.flip_rate]

DiagnosticSignal ==
  IF features = Missing THEN Missing
  ELSE [stability |-> features.d_stability, flip_rate |-> features.d_flip_rate]

(* _diagnostic_decision_impact: the same assessment of the diagnostic features. *)
DiagnosticImpact(assessment) ==
  LET diagnostic == Assess(DiagnosticSignal) IN
  IF features = Missing THEN [evaluated |-> FALSE]
  ELSE [evaluated |-> TRUE,
        same_decision |-> /\ assessment.action = diagnostic.action
                          /\ assessment.reason = diagnostic.reason,
        abstain_to_trade |-> assessment.action # "TRADE" /\ diagnostic.action = "TRADE"]

(* directional_paper_governance_decision: permission only by promotion. *)
GovernancePermits == forecast # Missing /\ forecast.version \in PromotedModels

-----------------------------------------------------------------------------
(* The audit: which gate failed, and what of the others is known. *)

GateOrder ==
  <<"MARKET_GATE", "PTB_GATE", "FEATURE_GATE", "MODEL_GATE", "CALIBRATION_GATE", "IDENTITY_GATE",
    "FORECAST_FRESHNESS_GATE", "SIGNAL_STABILITY_GATE", "FLIP_RATE_GATE", "DIRECTION_GATE",
    "PRICING_GATE", "PRICING_IDENTITY_GATE", "NET_EDGE_GATE", "RISK_GATE", "EXECUTION_GATE">>

ASSUME MissingIsNoGate == Missing \notin Range(GateOrder)

(* Mutant: the reason of a high flip rate is filed under stability. *)
ReasonToGateMerged(reason) ==
  CASE reason = "MARKET_NOT_ACTIVE" -> "MARKET_GATE"
    [] reason = "OFFICIAL_PTB_UNAVAILABLE" -> "PTB_GATE"
    [] reason = "FEATURES_UNAVAILABLE" -> "FEATURE_GATE"
    [] reason = "MODEL_UNAVAILABLE" -> "MODEL_GATE"
    [] reason \in {"SIGNAL_QUALITY_FEATURES_MISSING", "SIGNAL_UNSTABLE", "FLIP_RATE_TOO_HIGH"} ->
         "SIGNAL_STABILITY_GATE"
    [] reason = "NO_DIRECTIONAL_SIDE" -> "DIRECTION_GATE"
    [] reason = "EXECUTABLE_PRICE_UNAVAILABLE" -> "PRICING_GATE"
    [] reason = "EXECUTABLE_PRICE_IDENTITY_MISMATCH" -> "PRICING_IDENTITY_GATE"
    [] reason = "NET_EDGE_BELOW_MINIMUM" -> "NET_EDGE_GATE"
    [] OTHER -> Missing

ReasonToGate(reason) ==
  CASE reason = "MARKET_NOT_ACTIVE" -> "MARKET_GATE"
    [] reason = "OFFICIAL_PTB_UNAVAILABLE" -> "PTB_GATE"
    [] reason = "FEATURES_UNAVAILABLE" -> "FEATURE_GATE"
    [] reason = "MODEL_UNAVAILABLE" -> "MODEL_GATE"
    [] reason \in {"SIGNAL_QUALITY_FEATURES_MISSING", "SIGNAL_UNSTABLE"} -> "SIGNAL_STABILITY_GATE"
    [] reason = "FLIP_RATE_TOO_HIGH" -> "FLIP_RATE_GATE"
    [] reason = "NO_DIRECTIONAL_SIDE" -> "DIRECTION_GATE"
    [] reason = "EXECUTABLE_PRICE_UNAVAILABLE" -> "PRICING_GATE"
    [] reason = "EXECUTABLE_PRICE_IDENTITY_MISMATCH" -> "PRICING_IDENTITY_GATE"
    [] reason = "NET_EDGE_BELOW_MINIMUM" -> "NET_EDGE_GATE"
    [] OTHER -> Missing

Position(gate) == CHOOSE i \in DOMAIN GateOrder : GateOrder[i] = gate

(* _gate_statuses, then what the execution reports of risk and fill. *)
GateStatus(gate, first_failing, execution) ==
  CASE gate = "RISK_GATE" /\ execution.risk_approved # Missing ->
         IF execution.risk_approved THEN "PASS" ELSE "FAIL"
    [] gate = "EXECUTION_GATE" /\ execution.risk_approved # Missing ->
         IF execution.risk_approved /\ execution.fill_status # Missing THEN "PASS"
         ELSE "NOT_REACHED"
    [] gate \in {"RISK_GATE", "EXECUTION_GATE"} /\ execution.risk_approved = Missing ->
         "NOT_REACHED"
    [] OTHER ->
         IF first_failing = Missing \/ Position(gate) < Position(first_failing) THEN "PASS"
         ELSE IF gate = first_failing THEN "FAIL" ELSE "NOT_REACHED"

(* build_directional_decision_audit. *)
DecisionAudit(assessment, execution) ==
  [gate \in Range(GateOrder) |-> GateStatus(gate, ReasonToGate(assessment.reason), execution)]

-----------------------------------------------------------------------------
(* Structural strategy. *)

Skew(a, b) == IF a > b THEN a - b ELSE b - a

(* _require_pair_identity and _require_synchronized. *)
PairFault ==
  IF \E s \in Sides : books[s].condition_id # Condition \/ books[s].token_id # s THEN "RAISES"
  ELSE IF \E s \in Sides : books[s].source_age = Missing
  THEN "PAIRED_BOOK_SOURCE_TIMESTAMP_MISSING"
  ELSE IF Skew(books["UP"].source_age, books["DOWN"].source_age) > MaxPairSkew
  THEN "PAIRED_BOOK_SOURCE_SKEW"
  ELSE IF Skew(books["UP"].recv_age, books["DOWN"].recv_age) > MaxPairSkew
  THEN "PAIRED_BOOK_RECEIVE_SKEW" ELSE "none"

(* Mutant: legs that are filled in part are enough. *)
PairedDepthAny(legs) == \A s \in Sides : legs[s].filled > 0

PairedDepth(legs) == \A s \in Sides : FullyFilled(legs[s])

(* scan_complete_set: a reason, and what an executable set earns. *)
ScanCompleteSet(action) ==
  LET side == IF action = "BUY_MERGE" THEN "BUY" ELSE "SELL"
      limit == IF side = "BUY" THEN 100 ELSE 0
      shares == MinimumSize
      leg == [s \in Sides |-> SimulateDepth(books[s], fees[s], side, shares, limit, ThePolicy)]
      combined == leg["UP"].all_in + leg["DOWN"].all_in
      payout == shares * 100 * Cent * Scale
      gross_profit == IF side = "BUY" THEN payout - combined ELSE combined - payout
      profit == gross_profit - CycleBuffer(shares)
      fault == CASE PairFault # "none" -> PairFault
                 [] PairFault = "none" /\ ~Priced(leg["UP"]) -> leg["UP"].fault
                 [] PairFault = "none" /\ Priced(leg["UP"]) -> leg["DOWN"].fault
  IN CASE fault # "none" -> [reason |-> fault, quality |-> TRUE, profit |-> Missing]
       [] fault = "none" /\ ~PairedDepth(leg) ->
            [reason |-> "INSUFFICIENT_PAIRED_DEPTH", quality |-> FALSE, profit |-> Missing]
       [] OTHER ->
            IF profit < MinimumNetProfit
            THEN [reason |-> "NET_ECONOMICS_BELOW_MINIMUM", quality |-> FALSE, profit |-> Missing]
            ELSE [reason |-> "EXECUTABLE", quality |-> FALSE, profit |-> profit]

(* _evaluate_structural: both scans in order, the first fault ends it; an
   executable sale of a set is research only. *)
EvaluateStructural ==
  LET buy == ScanCompleteSet("BUY_MERGE")
      sell == ScanCompleteSet("SPLIT_SELL")
  IN CASE \E s \in Sides : books[s] = Missing \/ fees[s] = Missing ->
            [reason |-> "STRUCTURAL_INPUTS_UNAVAILABLE", execute |-> FALSE]
       [] OTHER ->
            IF buy.quality THEN [reason |-> buy.reason, execute |-> FALSE]
            ELSE IF sell.quality THEN [reason |-> sell.reason, execute |-> FALSE]
            ELSE IF buy.profit # Missing
            THEN [reason |-> "EXECUTABLE", execute |-> TRUE, shares |-> MinimumSize,
                  profit |-> buy.profit]
            ELSE IF sell.profit # Missing
            THEN [reason |-> "SPLIT_SELL_RESEARCH_ONLY", execute |-> FALSE]
            ELSE [reason |-> "NO_OPPORTUNITY", execute |-> FALSE]

-----------------------------------------------------------------------------
NotExecuted == [risk_approved |-> Missing, fill_status |-> Missing]
Executions ==
  {NotExecuted, [risk_approved |-> FALSE, fill_status |-> Missing],
   [risk_approved |-> TRUE, fill_status |-> Missing],
   [risk_approved |-> TRUE, fill_status |-> "FILLED"]}

(* _evaluate_directional and _evaluate_structural of one cycle: the directional
   candidate is executed only with the governance's permission, whatever risk and
   gateway then answer, and the audit is built after it. *)
Evaluate(execution) ==
  LET assessment == Assess(Signal) IN
  /\ decision = Missing
  /\ execution # NotExecuted => assessment.action = "TRADE" /\ GovernancePermits
  /\ decision' = [assessment |-> assessment, execution |-> execution,
                  gates |-> DecisionAudit(assessment, execution),
                  impact |-> DiagnosticImpact(assessment), structural |-> EvaluateStructural]
  /\ UNCHANGED <<observed_at, books, fees, features, ptb, forecast>>

(* New snapshots (external): a book, a fee schedule, features with their forecast. *)
ReceiveBook(side, snapshot) ==
  /\ books' = [books EXCEPT ![side] =
       [condition_id |-> Condition, token_id |-> side,
        asks |-> snapshot.asks, bids |-> snapshot.bids,
        minimum_order_size |-> snapshot.minimum_order_size,
        source_age |-> snapshot.source_age, recv_age |-> 0]]
  /\ decision' = Missing
  /\ UNCHANGED <<observed_at, fees, features, ptb, forecast>>

ReceiveFees(fee) ==
  /\ fees' = [s \in Sides |->
       [condition_id |-> Condition, mode |-> fee.mode, rate |-> fee.rate, age |-> 0]]
  /\ decision' = Missing
  /\ UNCHANGED <<observed_at, books, features, ptb, forecast>>

BuildFeatures(input) ==
  /\ features' = input.features /\ forecast' = input.forecast /\ ptb' = input.ptb
  /\ decision' = Missing
  /\ UNCHANGED <<observed_at, books, fees>>

(* A moment passes; ages stop counting once they are too old. *)
Older(age) == IF age = Missing \/ age > MaxInputAge THEN age ELSE age + 1
TimePasses ==
  /\ observed_at < MaxObservedAt
  /\ observed_at' = observed_at + 1
  /\ books' = [s \in Sides |-> IF books[s] = Missing THEN Missing ELSE
                 [books[s] EXCEPT !.source_age = Older(@), !.recv_age = Older(@)]]
  /\ fees' = [s \in Sides |-> IF fees[s] = Missing THEN Missing ELSE
                [fees[s] EXCEPT !.age = Older(@)]]
  /\ decision' = Missing
  /\ UNCHANGED <<features, ptb, forecast>>

DecisionNext ==
  \/ \E execution \in Executions : Evaluate(execution)
  \/ \E side \in Sides, snapshot \in BookSnapshots : ReceiveBook(side, snapshot)
  \/ \E fee \in FeeModes : ReceiveFees(fee)
  \/ \E input \in Inputs : BuildFeatures(input)
  \/ TimePasses

DecisionSpec == DecisionInit /\ [][DecisionNext]_decision_vars

-----------------------------------------------------------------------------
(* A complete set is bought only when its real cost, the cheapest way to take both
   legs in full out of the books with fees and buffers, leaves the minimum profit
   after it pays one USDC per share whichever side wins (scan_complete_set). *)
ExecutedSetPaysForItself ==
  (decision # Missing /\ decision.structural.execute) =>
    /\ \A s \in Sides : Splits(books[s].asks, MinimumSize) # {}
    /\ LET cost == CheapestCost(books["UP"].asks, MinimumSize, fees["UP"], ThePolicy)
                   + CheapestCost(books["DOWN"].asks, MinimumSize, fees["DOWN"], ThePolicy)
       IN decision.structural.shares * 100 * Cent * Scale - cost
            - CycleBuffer(decision.structural.shares) >= MinimumNetProfit

(* A directional candidate is on the more probable side, can be bought in full from
   that side's fresh book for the capital it asks for, and keeps its margin over the
   forecast after every cost (assess_directional_edge). *)
CandidateIsPayable ==
  (decision # Missing /\ decision.assessment.action = "TRADE") =>
    LET side == decision.assessment.side
        quantity == decision.assessment.quantity
        cost == CheapestCost(books[side].asks, quantity, fees[side], ThePolicy)
        probability == IF side = "UP" THEN forecast.p_up ELSE 100 - forecast.p_up
    IN /\ probability > 50 /\ quantity = MinimumSize
       /\ books[side].recv_age <= MaxInputAge /\ fees[side].age <= MaxInputAge
       /\ Splits(books[side].asks, quantity) # {}
       /\ decision.assessment.required_capital = cost
       /\ (probability - UncertaintyBuffer - MinimumNetEdge) * quantity * Cent * Scale >= cost

(* What a gate asks of the inputs (docs/06-DIRECTIONAL-EDGE.md, "Decision gates"). *)
Available(side) ==
  /\ \A s \in Sides : books[s] # Missing /\ fees[s] # Missing
  /\ \A s \in Sides : /\ {books[s].source_age, books[s].recv_age} \subseteq 0..MaxInputAge
                      /\ fees[s].age <= MaxInputAge /\ fees[s].rate # Missing
  /\ Splits(books[side].asks, MinimumSize) # {}

Holds(gate) ==
  LET side == IF forecast.p_up > 50 THEN "UP" ELSE "DOWN" IN
  CASE gate = "MARKET_GATE" -> Opens <= observed_at /\ observed_at < Closes
    [] gate = "PTB_GATE" -> ptb
    [] gate = "FEATURE_GATE" -> features # Missing
    [] gate = "MODEL_GATE" -> forecast # Missing
    [] gate = "SIGNAL_STABILITY_GATE" ->
         features.stability # Missing /\ features.flip_rate # Missing
           /\ features.stability >= MinimumStability
    [] gate = "FLIP_RATE_GATE" -> features.flip_rate <= MaximumFlipRate
    [] gate = "DIRECTION_GATE" -> forecast.p_up # 50
    [] gate = "PRICING_GATE" -> Available(side)
    [] gate = "NET_EDGE_GATE" ->
         CheapestCost(books[side].asks, MinimumSize, fees[side], ThePolicy)
           <= ((IF side = "UP" THEN forecast.p_up ELSE 100 - forecast.p_up)
                - UncertaintyBuffer - MinimumNetEdge) * MinimumSize * Cent * Scale
    [] OTHER -> TRUE

(* The audit of a decision tells the truth of its inputs: a passed gate holds, the
   failing one does not, nothing after it claims anything; the risk and execution
   gates are judged only of a permitted trade, and a trade that only the diagnostic
   features would make is never executed (build_directional_decision_audit,
   _gate_statuses, _diagnostic_decision_impact). *)
StrategyGates == Range(GateOrder) \ {"RISK_GATE", "EXECUTION_GATE"}
AuditExplainsDecision ==
  decision # Missing =>
    LET gates == decision.gates IN
    /\ \A g \in StrategyGates : gates[g] = "PASS" => Holds(g)
    /\ \A g \in StrategyGates : gates[g] = "FAIL" => ~Holds(g)
    /\ \A g, h \in StrategyGates :
         gates[g] = "FAIL" /\ Position(h) > Position(g) => gates[h] = "NOT_REACHED"
    /\ (\A g \in StrategyGates : gates[g] = "PASS") <=> decision.assessment.action = "TRADE"
    /\ gates["RISK_GATE"] # "NOT_REACHED" =>
         decision.assessment.action = "TRADE" /\ forecast.version \in PromotedModels
    /\ gates["EXECUTION_GATE"] = "PASS" => gates["RISK_GATE"] = "PASS"
    /\ (decision.impact.evaluated /\ decision.impact.abstain_to_trade) =>
         decision.execution = NotExecuted
=============================================================================
