# A TLA+ development of Direction Engine V3

Direction Engine V3 is a PAPER-trading system for Polymarket's short crypto
markets (BTC, ETH, SOL, XRP; windows of 5 minutes, 15 minutes and 1 hour: twelve
*buckets*). A single daemon collects public market data, forms candidates, routes
and risk-checks them, commits simulated executions to SQLite and settles them from
the venue's official results. No real order is ever sent.

This directory models the parts whose correctness depends on order, time,
concurrency, failures and crashes, checks them with TLC on small instances, and
proves the most important properties for every value of the constants with TLAPS.
Paths below are relative to `src/src/direction_engine_v3/` unless they start with
`src/`.

## 1. Inventory

### Components that keep state

| Component | State | Operations | Hard behaviour | What makes it correct |
|---|---|---|---|---|
| PAPER gateway (`execution/paper.py`, `storage/paper.py` `get`/`save_once`) | `paper_executions`, `audit_events` | `execute`: look up, gates, build, one `BEGIN IMMEDIATE` transaction, re-read | concurrent processes, crash between the steps, retries | one durable result per key; every answer is that result; audit row in step with it; gates hold of what is stored |
| Order lifecycle (`execution/paper.py`) | an `OrderState` | `cancel_order`, `reconcile_order`, `settled_pnl` | late, repeated, foreign and uncertain reports | a valid order, which believes in no more than the venue filled unless a report repeats a fill, and is settled for what its fills paid, cost and were charged |
| PAPER ledger (`storage/paper.py`) | trade snapshots, settlements, condition attempts, identity overlays, label tasks | write-once inserts, upsert of attempts, `summary` | two transactions per entry, crash in between, figures filtered by open conditions | one directional snapshot per condition and no execution after it, settled once, by the official winner |
| Strategy router (`router/engine.py`) | claims and their revision, in a store the caller keeps | `route_opportunities`, `reconcile_claim` | two routers decide on one revision; expiry; restart | no condition or token claimed twice |
| Risk engine (`risk/engine.py`) | none (pure) | `assess_candidate` | a stale portfolio state, settlement between state and assessment | limits hold of the portfolio, not of one call |
| Shadow daemon (`shadow/daemon.py`) | the coroutine: cycle, collected states, feature histories | `run_forever`, `run_once`, `collect_bucket`, the evaluations and paper executions | twelve concurrent collections; states up to 75 s old when used; timeouts; crash anywhere | solvent account, brake limits, decisions on fresh and consistent data, truthful reports |
| Official settlement (`settlement/official.py`) | the attempts queue, overlays | `PaperSettlementService.run_once`, identity recovery, the two-venue resolver | unresolved markets, half-final answers, timeouts, retries | settled by its own market's winner, once, and in the end |
| Directional corpus and labels (`storage/directional_corpus.py`, `DirectionalCheckpointLabeler`) | observations in three tables, label tasks | save once, attach a verified outcome | two labelers, late and conflicting resolution times, a pass cut short | an outcome reaches every observation made before it and none made after it |
| Shadow storage, evidence windows (`shadow/storage.py`, `shadow/reporting.py`) | events, windows, report files | startup, append with retries, degradation | a competing writer, restarts, no transaction over two stores | every event has its window; every cycle accounts for every bucket |
| PTB scheduler and official price to beat (`shadow/ptb_scheduler.py`, `market_data/official_runtime.py`, `ptb_repository.py`) | tasks per window, price records | boundary tasks, `resolve`, retries, pruning | two callers await the same candle; late averages; lost tasks; restarts | one proven price per window, and a recorded reason where there is none |
| Chainlink collector (`market_data/official_runtime.py`, `adapters/public_transport.py`) | connections, histories of averages | connect, reconnect, record | refused, dropped and closed connections; frames late, repeated, misdirected | no history mixes assets, the latest average is the newest, the stream comes back |
| Model registry (`models/paper_runtime.py`, `models/registry.py`) | models per bucket, loaded at process start | select training rows, fit, forecast | labels arrive after the fact; rows of several schemas | a forecast rests on the past alone |

### Components without state of their own

Pricing (`pricing/`), strategies (`strategies/`), features (`features/`), replay
(`replay/`) and governance (`models/governance.py`) are modelled as operators used
by the modules below. Evaluation, pre-live safety, the dashboard, configuration,
observability and deployment are not modelled (section 6).

### How they interact

`run_forever` awaits `run_once`, then sleeps for the poll interval. One
`run_once`, in order:

1. one settlement pass, cancelled after 20 s (`asyncio.wait_for`): a due condition
   is identified and resolved, its trades settled, the corpus labelled, then one
   bounded pass of the labeler;
2. `market_selection_at` is read and the twelve buckets are collected concurrently
   (`asyncio.gather`, 75 s each); each state carries the clock read when its
   features were built. A collection asks `OfficialPriceToBeatService.resolve` for the
   window's price, which the boundary scheduler's tasks may be asking for at the
   same time;
3. without another await, each bucket in turn gets its pipeline event, a directional
   and a structural evaluation (lifecycle at a fresh clock reading, same-condition
   check, entry brake, stake reduction, capital gate, router, risk, plan, gateway,
   snapshot) and its evaluation events; then the cycle event and the two reports.

The gateway and the repository share one SQLite file with whatever other process
opens it; the shadow events and the corpus are in files of their own, and nothing
but the order of the writes ties the three together. Everything the daemon decides
on in step 3 is read from the tables at that moment, except the collected state,
which is as old as the slowest bucket of the gather.

As shipped no directional model is promoted
(`src/docs/P2_0_MODEL_GOVERNANCE_STATUS.md`), so directional candidates are assessed
and recorded but not executed. The governance gate itself is modelled; the set of
promoted buckets or versions is a constant (`Promoted`, `PromotedModels`), so the
executions behind the gate, for which `src/tests/security/test_model_governance.py:120`
keeps a path, are explored too. `paper_daemon_expiry` is run with none promoted.

## 2. Modules

| Module | Models | Kind |
|---|---|---|
| `FirstResultLedger` | what `src/docs/10-PAPER-EXECUTION-LEDGER.md` promises of the ledger: one durable result per key, everyone is told that result | abstract specification |
| `PaperGateway` | `PaperGateway.execute` step by step over the two tables; `ImplementsLedger` is the refinement | detailed specification |
| `OrderLifecycle` | one order under cancellation, reconciliation and settlement | protocol |
| `Router` | `route_opportunities`, `reconcile_claim` | operators |
| `RouterClaims` | concurrent routers over a compare-and-set claim store | protocol |
| `PaperOrders` | `PaperGateway` and `OrderLifecycle` together | composition |
| `RiskEngine` | `assess_candidate` as the set of denial reasons | operators |
| `RiskPortfolio` | a portfolio that takes what `RiskEngine` approves, on states that may be old or incomplete | protocol |
| `AdmissionControl` | the two gates of an opportunity: `RouterClaims` and `RiskPortfolio` | composition |
| `PaperLedger` | what `storage/paper.py` computes from its tables | operators |
| `PaperDaemon` | the daemon's cycle, its entries, the settlement pass, crashes, time; composes `PaperLedger`, `Router` and `RiskEngine` | composition |
| `TwapHistory` | the bounded history of averages and the opening average of a window | operators |
| `PriceToBeat` | boundary scheduler, the cycle's collections and the price repository | composition |
| `ChainlinkFeed` | the collector's tasks, connections and frames | protocol |
| `OfficialPrices` | `PriceToBeat` and `ChainlinkFeed` together | composition |
| `TemporalState` | the feature histories: deduplication, pruning, snapshots | operators |
| `BucketCollection` | the concurrent collection of one asset's buckets and how the cycle evaluates what it got | composition |
| `OfficialIdentity` | identity recovery, the overlay, the two-venue resolver, the classification of answers | protocol |
| `CorpusLabels` | saving observations, settlement's labels and the checkpoint labeler | composition |
| `ModelRegistry` | training rows, the registry loaded at start, forecasts | protocol |
| `Pricing` | fees and depth simulation in exact whole units | operators |
| `DecisionCycle` | both strategies on one market, the governance gate and the audit of a decision | composition |
| `StructuralReplay` | the replay with latency against a live execution | protocol |
| `ShadowEvidence` | the writes of a process and its cycles over the event store, the ledger and the reports | protocol |
| `DaemonRecords` | `ShadowEvidence` and `OfficialIdentity` together | composition |
| `LearningRecords` | `CorpusLabels`, `ModelRegistry` and `StructuralReplay` together | composition |
| `MC*` | constants, bounds, and the behaviours a run puts side by side | checking |
| `FiniteLemmas` | finite sets, least elements, sums over sets and sequences, the cheapest way to take a quantity | lemmas |
| `*Proofs` | theorems about `PaperOrders`, `AdmissionControl`, `PaperDaemon`, `OfficialPrices`, `BucketCollection`, `DaemonRecords`, `LearningRecords` and `DecisionCycle`, and about the modules they compose | proofs |

### State and actions

*PaperGateway.* `paper_executions` and `audit_events` are the tables; `pc`, `call`
and `answer` are per caller. `ReturnExisting`, `Raise` and `Build` are the three
outcomes of the part of `execute` before the transaction (they depend on one
`SELECT`), `SaveOnce` is the transaction, `Reread` the `SELECT` after it. `Crash`
forgets everything but the tables. Evidence is any of the tuples of `Evidence`,
good or bad; money and prices are left out, quantities are whole units.

*OrderLifecycle.* The venue fills the order behind the program's back; a
reconciliation is told of any of the fills so far, fills of other orders among them and
each any number of times, and is final or not. The code only sums its tuple of fills, so
a report is a bag: repetitions count, their order does not. `settled_pnl` sums
whatever fills it is given, with their fees; the model gives it those of the last final
report (`final`), as a caller would. Neither function looks for repetitions, and
`settled_pnl` not for other orders' fills, so `SettlesOwnFills` states what follows under
the caller's two obligations, `RepeatsNoFill` and `NamesNoOther`, and what holds without
them (the order is always one its contract accepts). `UNKNOWN_ORDER_STATE` can be
cancelled without evidence and a cancelled order that is reconciled opens again;
both are the code's behaviour and are in the model.

*RouterClaims.* `Route` and `ReconcileClaim` compute a decision on the snapshot
they read; `CompareAndSet` stores it if the revision has not moved, `Abandon` is a
refused or dead writer. The store itself is not in this repository:
`src/docs/09-STRATEGY-ROUTER.md` says what it does and
`src/scripts/vps_router_smoke.py` persists `revision + 1`, so it is marked external.
The daemon does not use such a store: it hands the router a snapshot made of its
own open trades, which `PaperDaemon.RouterSnapshotFromPaper` models.

*RiskEngine.* One Boolean per reason code; `Approved` is the empty set of reasons.
`RiskPortfolio` drives it the way a caller does: take the portfolio state, assess
later, enter, settle, with states that are stale or incomplete. The portfolio is any
caller's, with a policy whose limits bind; the daemon's own, with its wide policy and
its brake in front of it, is in `PaperDaemon`.

*PaperDaemon.* `executions`, `trades`, `settlements`, `attempts` are the tables;
`scan`, `selected_at`, `observed`, `leg`, `pending` and `pc` are the coroutine.

| Action | Code |
|---|---|
| `StartCycle` | `run_once` up to the first await; `PaperSettlementService.run_once` choosing the newest due condition |
| `ResolveWithoutWinner`, `ScanTimeout` | the await on the resolver returning no winner, raising, or being cancelled |
| `SettleTrade`, `FinishSettlement` | `_settle_trade` per trade, then labelling and the recorded attempt |
| `CollectBucket`, `StartEvaluation` | `collect_bucket` of each bucket, `gather` returning |
| `ExecuteDirectionalPaper`, `ExecuteStructuralPaper` | the two entry functions up to the gateway's commit |
| `RecordTrade` | `save_trade_snapshot`, the second transaction of the entry |
| `Abstain` | every other outcome of an evaluation |
| `Crash` | death or an escaping exception; only the tables survive |
| `Publish`, `Tick` | the venue's official result; time |

Actions between two awaits are still separate steps where the process may die or
the clock may move between them; nothing else interleaves with them because the
coroutine is the only writer. The gateway's commit is one step here because
`PaperGateway` shows that concurrent and repeated calls keep the first row. What a
strategy would offer, what a collection returns and what the resolver answers are
chosen freely; the modules below say what they may be.

A crash between `ExecuteDirectionalPaper` and `RecordTrade` leaves an execution without
a snapshot. The same-condition check reads snapshots, and a plan's key contains
`observed_at`, so after the restart the condition can be executed again:
`OneDirectionalTradePerCondition` does not claim otherwise. It says that there is one
snapshot, that nothing is executed after it (no execution was decided later than the
snapshot was), and that there are at most as many executions beyond the first as there were
crashes.

*PriceToBeat.* A market is one window of one bucket. `call` says where each caller's
`resolve` for a market is (`"queued"`, `"fetching"` and so on); one action runs from
one await to the next, so `Resolve` either answers at once (stored price, short
window from the averages) or suspends before the candle of an hourly one, and
`FinishFetch` looks at the repository again. `RunDueOnce` is the scheduler's poll,
`EndTask` and `LoseTask` a task that returns or raises; a task takes itself out of
the table when it ends, so the poll never sees its exception (`lost`). `Restart`
keeps the repository and the events.

*ChainlinkFeed.* One task per asset; `attempt` counts over the life of a generator,
not per outage. Snapshots and frames that do not parse change counters only and are
left out, and so is the shutdown.

*BucketCollection.* `step[b]` is the fetch the coroutine of `b` waits for; `Fetch`,
`FetchDepth` and `FetchTrade` receive an answer (`ok`, `empty`, `fetch_fail`,
`parse_fail`) and go on to the next, `AnswerRaises` is any other exception and
`CollectionTimeout` the `wait_for`. `FetchTrade` is everything after the last await:
both histories, the lifecycle, pruning, the features. `Gathered` and `EvaluateCycle`
are `gather` and the loop over the buckets, with the pipeline report and the
freshness part of the structural pricing; `StopOnException` is `run_once` raising.
A JSON `null` payload is left out. `ReportsTruthful` compares each stage of a report, and the
reason it gives, with the fetches whose data is there, in both directions.
`HistoryAgeBounded` is about the instant at which features are built, and about references
and books; `DecisionsFresh` about the books and fees of a priced pair, which a
decision may use up to the collection timeout after they were found fresh.

*OfficialIdentity.* One action per await of `run_once`: `EffectiveIdentity`,
`ReceiveMetadata`, `ReceiveGamma`, `ReceiveClob`, `RecordSettled`; each answer may be a
failure, nothing, malformed or about another market (`*Faults`). Time is abstracted
to `waiting`, the conditions whose retry is not due. The overlay and the attempt are two
transactions: `DieAfterOverlay` is a process that dies between them, after which the
stored overlay, a blocker perhaps, decides the next pass.

*CorpusLabels.* `SaveObservations` is what a cycle stores of a market, in up to three
tables. `BeginPass` to `RecordSettled` is settlement labelling what it settled,
`BeginLabeling` to `RecordLabel` the labeler's bounded pass; `Timeout` and `Crash` cut
either between two transactions. An attached outcome contains the time of the
attachment, so a second attachment, even of the same winner, is a conflict.

*ModelRegistry.* `Evaluate` leaves an observation and takes a forecast,
`AttachOutcome` labels a settled condition's rows, `Restart` loads the registry: the oldest
`Limit` labelled rows, then those ready for training, then one schema. The calibrator
has one bin, so a forecast is the share of UP, clamped to `MinProbability` and
`MaxProbability` (`BaseRate`).

*DecisionCycle.* `Evaluate` is one bucket's evaluation: the directional assessment
with all its gates in order, the governance decision, the audit document, and the
complete-set scan with its two actions. Books, fees, features and forecasts change
and age between evaluations. `Pricing` computes in whole units of 1e-8 USDC (1e-5 for
fees, as rounded by the code), so nothing is lost to rounding. `SimulateDepth` walks the
levels in the order `PolymarketBook` demands of them and reports the first fault in the
order of the code: of the book, of the fee schedule, of a missing rate. A rate that is
`Missing` stands for every dynamic schedule that the code refuses to evaluate (no rate, no
exponent, one that is no integer), which all raise the same error; of the integer exponents
only one, that of the tests, is modelled. `MinimumSize` leaves out the
floor of one share, which whole shares never go below.
`executable_depth`, which nothing decides on, is left out. Conditions that overlap
(`SignalFailure`, `PairFault`, `BookFault`, `FeeFault`) are written as `IF` chains, in the order
of the code's early returns. Two assumptions are about the venue: `OneLevelPerPrice` (a
book quotes a price once; the contract asks only for the order) and `FeesBelowPrices` (a
dynamic rate is at most 9600 bps; the contract sets no limit). Without them another
split of the same quantity could be cheaper than the walk, because the fee of each
level is rounded by itself. No run violates them.

*StructuralReplay.* The log keeps every book in any order; `held` is what a live
executor knows. `Tick` lets the executor take its legs at the end of an instant.

*ShadowEvidence.* `pc` walks through the writes of a process: startup (with its
deadline), then per cycle the settlement event, and per bucket pipeline, degraded
mark, evaluations and the two ledger rows, then the cycle event and the files.
Which of a row and its event comes first differs from branch to branch, as in the code:
a directional trade or its refusal is recorded before the evaluation event and an
abstention after it (`AbstainDirectional`); a structural decision follows its event, a
quality fault precedes it (`StructuralFault`, `AppendFault`), and missing inputs have no
event (`StructuralUnavailable`). A closed window is two transactions (`AbstainUnavailable`,
`AbstainClosed`). `AppendEvent` is a write with its bounded retries, given up when busy.

## 3. Runs

Every run ends within five minutes on two workers. Some runs check several
components *side by side*: the MC module chooses in the first state which component
a behaviour belongs to (`part`, `scenario`), and only that one moves. Their state
spaces then add up instead of multiplying; a property of one component is trivially
true of the behaviours of another, and nothing else is shared. The composition modules
(`PaperOrders`, `AdmissionControl`, `OfficialPrices`, `DaemonRecords`,
`LearningRecords`) let such components move in any order instead. The components of a
composition share no variable, so each of its behaviours is one of each component (a
lemma of each, section 4), and the runs do without the interleaving.

| Run | Question | Bounds and why they suffice |
|---|---|---|
| `gateway` (`MCPaperGateway`) | Do racing, crashing callers share the first durable result, and does `execute` implement the ledger? *Beside it:* what does an order believe in and settle, whatever the reports repeat or confuse? | two callers (the race needs two), three plans: one leg, two legs, LIVE; evidence with no fill, partial, full, overfill, repeated id, foreign id; two ticks, so that each plan expires. An order of two shares, three fills of it and of others, two prices and a fee, any of them in a report, once or twice (`MaxCopies`): a repetition, a misdirected and a missing fill fit into one report |
| `router_claims` (`MCRouterClaims`) | Does compare-and-set keep conditions and tokens claimed once? *Beside it:* do the risk limits hold of the portfolio over entries and settlements? | two routers (a stale writer needs two), six candidates with every conflict of `_conflict_reason`, a bankroll too small for all, three ticks, so that claims expire before they are reconciled. Limits reached within three entries; states one tick old are still fresh, two are stale |
| `paper_daemon` (`MCPaperAccount`) | Is the account solvent, within the brake, and settled by official winners? | two buckets of two assets, one with two consecutive windows: an ended, unsettled trade meets a new window of its asset; stakes of 1 and 3 on an equity of 3, so that losses bring the equity below the next (reduced) stake; percentages scaled to it. *directional*: the structural sets are too dear; *shared*: the other extreme, sets cheap enough to share the account with the directional trades of one bucket, over two ticks |
| `paper_daemon_crash` | What can a crash leave behind, may a condition be traded again, and does an unresolvable market keep others from settling? | two buckets (`MCPaperDaemon`), a market each, one never published; one structural set or the directional stakes fit the account; two ticks, which end both windows; one crash anywhere in an entry or a settlement |
| `official_price` (`MCPriceToBeat`) | One proven price per window, a reason for every window without, and every attempt ends? *Beside it:* does every asset's stream come back? | a short and an hourly window, one permit (two tasks must queue), the cycle collecting the hourly one (two callers await one candle), receipts on both sides of the tolerance, one restart. Two assets, two attempts per generator, histories of one average |
| `bucket_collection` (`MCBucketCollection`) | Are features built on the bucket's own data, reports truthful and decisions fresh, whatever fails and however late? | two horizons of one asset over three cycles. *answered*: both last requests slow, depth lagging, timeouts of one tick, so that samples reach the histories in any order. *faults*: each kind of failure at a fetch of each kind, one slow book |
| `records` (`MCShadowEvidence`) | Does the evidence refer to what is stored and account for every bucket, and does a cycle end? *Beside it:* is a trade settled by its own market only, and in the end? | two buckets, two attempts per write (a busy one that succeeds and one given up), two processes. A legacy and a complete trade, every fault of every venue (*venues*); one condition per pass with passing failures (*patience*) |
| `decisions` (`MCDecisionCycle`) | Does what is executed pay, and does the audit say why the rest is not? *Beside it:* does the replay match the live execution, do forecasts rest on the past, are labels complete? | books around every threshold (two levels, too small, too old, crossed pair), fees of both modes and missing, ten sets of features and models around the gates. A replay with a late and an immediate book. Four kinds of rows, limit three, probabilities held between 40 and 60 hundredths, so that the shares of three rows are clamped. Two windows, resolution times too early, right and unknown, one restart |
| `paper_daemon_cooldown` | *violation*: the cooldown of `src/docs/08-UNIFIED-RISK.md` | as `paper_daemon`, loss limit 1, cooldown longer than a cycle |
| `paper_daemon_expiry` | *violation*: expired plans of `src/docs/10-PAPER-EXECUTION-LEDGER.md` | as `paper_daemon`, a cycle longer than a plan's life, no model promoted |
| `official_identity_starved` (`MCOfficialIdentity`) | *violation*: a legacy condition does not starve the later ones | metadata requests for the legacy condition fail, one condition per pass |
| `bucket_collection_malformed` | *violation*: whatever a venue sends is a typed market-data error | one bucket, one book that raises something else |

Bounds have names: `MaxNow`, `MaxCrashes`, `MaxRestarts`, `MaxProcesses`, `MaxCycles`,
`CycleTicks` (the clock within one cycle), `MaxEntries`, `MaxFills`, `MaxCopies`, `MaxRiskNow`,
`MaxReplay`, `MaxTraining`, `MaxEvents`, `Slow`, `VenueLag`. `CHECK_DEADLOCK FALSE` appears where every behaviour
ends at such a bound. In `PaperDaemon` the clock stops at `MaxNow`, when every window
has ended, but the waits of the settlement queue go on, so its cycles never stop.

Two ratios matter more than the sizes. The settlement queue's delays (10 minutes
pending, 5 minutes retryable) exceed a cycle (20 s + 75 s + 30 s of polling), so the
liveness run has `PendingDelay` and `RetryDelay` above `CycleTicks`; with delays
no longer than a cycle TLC finds an older trade that never gets its turn. And a
plan lives 5 s against a cycle of up to 75 s, which is what `paper_daemon_expiry`
needs.

Each property is broken by a mutant of the code's model (`PROJECT.json`
`mutants`), a plausible bug such as a dropped guard, a swapped order or a missing
key column; the mutants are the operators marked `Mutant:` in the modules.

### Fairness

Every MC module that puts behaviours side by side restates the fairness of each
component inside its own behaviours.

* `PaperDaemon`: the coroutine gets on (`WF` of `DaemonStep`; asyncio runs it and
  every await has a timeout), time passes, a published winner appears, and the
  resolver does not time out on one condition for ever (`SF` of an answer or a
  settlement per condition). The last is a real assumption: a timeout cancels the
  pass before it records an attempt, so the newest due condition is tried again in
  every cycle, and without the assumption TLC finds an older trade that never
  settles. Crashes are not fair and are bounded.
* `PriceToBeat`: the clock runs, and an await of a boundary task ends (HTTP has a
  timeout, sleeps expire). Nothing is assumed of the cycle or of the averages.
* `ChainlinkFeed`: a task's timers expire and its connection attempts end one way or
  the other (`WF`), and a server that is tried again and again accepts now and then
  (`SF` of `Connect`).
* `OfficialIdentity`: passes go on, time passes, markets end, and each request that is
  made again and again is answered truthfully some time (`SF` per condition and
  request). `PatientNext` adds that a condition's retry does not come due before those
  already due had their turn, which is the ratio of delays above.
* `ShadowEvidence`: the process gets on (`WF` of `Work`); nothing is assumed of the
  writer it competes with.

### Disagreements with the documents and tests

The first four are runs that expect a violation.

* **Cooldown.** `_paper_cooldown_until` takes the time of the last settlement from
  `summary`, which asks the queue only about the conditions of trades still open.
  After a loss that reaches the limit, with any trade open on another condition,
  the losing condition is filtered out and no cooldown is active. The same figure
  is lost when labelling fails or the process dies after the trades were settled.
* **Expired plans.** The gateway's `now` is the state's `observed_at`, from which
  the plan's expiry was computed; the check cannot fail, although the state may be
  more than a minute old and a plan lives 5 s.
* **Starved settlement.** `_effective_identity` is awaited outside the `try` of the
  loop: a metadata request that raises ends the daemon, records no attempt, and
  meets the same condition first after the restart.
* **Malformed payloads.** A body that is not JSON, a crossed book or a level of size
  zero raises `ValueError`, which the stages do not expect: the daemon stops.
* **Late establishment** (`market_data/official_runtime.py:598`). The time of
  establishment is taken from the average, so a price may be stored at any time of
  the window, where `src/docs/03-CANONICAL-MARKET-REFERENCE.md` asks for establishment within the tolerance.
  `BoundaryProven` says what does hold: effective and received in time.
* **Stale points behind younger ones** (`features/temporal.py`). Concurrent buckets
  append out of order and `_prune` stops at the first young point, so points older
  than the maximal age survive. `HistoryAgeBounded` says by how much.

Smaller observations made on the way, without a document that says otherwise: the
labeler does not look at `next_attempt_at`, so a condition that can never be labelled
stays at the head of a pass of one; a void market is never produced; a first
incomplete identity is blocked permanently, but one whose process died between the
overlay and the attempt is blocked retryably for ever; a late `final` reconciliation
can reopen a cancelled order; fills repeated under one id are counted twice; an
executable complete-set purchase is dropped when the scan of the opposite action has a
quality fault; training takes the oldest labelled rows before it asks which of them
are ready; retries of the shadow database sleep in the event loop; the branch
`CHAINLINK_PARSE_FAILED` of the collector cannot be reached.

## 4. Proofs

Each part of a proof module has the same shape: lemmas about the operators, an
`Init` theorem, one lemma per action or group of actions, a `Next` theorem, the
invariance (`Spec => []IInv`), and the properties read off `IInv`. The inductive
invariants are operators of the component's module (of the proof module for
`OfficialIdentity` and `DecisionCycle`), and TLC can check them too: put `IInv` among
the invariants of a `.cfg`. No theorem bounds callers, assets,
conditions, attempts, crashes or time; where a clock or a counter has a named bound,
it is an arbitrary constant. The assumptions are those named in the modules
(`...Constants`): types, and what the code itself guarantees of its configuration.
They are evaluated by TLC for the constants of every run.

| Component | Theorems | What makes it inductive |
|---|---|---|
| `PaperGateway` (`PaperGatewayProofs`) | `AnswersDurable`, `AuditMirrors`, `StoredResultsHonourPlans`, `RowsArePermanent`, `RefinesLedger`, `TypeCorrect` | `InFlightCalls`: what a call carries between its first `SELECT` and its return is a well-formed result of its plan, and after the transaction its key has a row |
| `OrderLifecycle` (`PaperGatewayProofs`) | `OrdersSettleOwnFills` | `Believed`: the filled quantity and its cost are those of the order's own fills in the last final report. If that report repeats none, being filled by as much as the venue means that it names all of them, every fill being of at least one share |
| `RouterClaims` (`RouterClaimsProofs`) | `ActiveClaimsDisjoint`, `ClaimedAtMostOnce`, `ExpiredClaimsBlock`, `ClaimsStayClosed`, `TypeCorrect` | `DecisionsSound`: a decision taken on the *current* revision stores a safe extension of the current claims; nothing is assumed of older ones, compare-and-set never stores them |
| `RiskPortfolio` (`RouterClaimsProofs`) | `LimitsHoldOfPortfolio`, `AccountStaysSolvent` | `HeldIsCautious`: a state that was taken earlier knows every exposure there is now and promises no more than there is now |
| `PaperDaemon`, the tables (`PaperDaemonProofs`) | `ConditionsAreTradedOnce`, `SettlementsAreOfficial`, `QueueStrandsNoTrade`, `SnapshotsMatchExecutions`, `TypeCorrect` | what is evaluated was collected; only ended windows are in the queue (`QueuedHasEnded`, `ScannedHasEnded`), so no entry can meet a settled condition; the trade about to be recorded is the first on its condition (`PendingIsFirst`); no execution of a condition was decided after its snapshot, after the one about to be recorded, or after the state its bucket's evaluation has in hand (`OrderInv`); executions without a snapshot are the one being recorded and at most one per crash (`LeftBehind`) |
| `PaperDaemon`, the account (`PaperDaemonProofs`) | `DirectionalTradesArePaidFor`, `BrakeHoldsOfLedger` | `EntryStillFits`: between the gateway's commit and the snapshot, when the account was looked at and is not yet written, it can still take the entry |
| `PriceToBeat` (`OfficialPricesProofs`) | `BoundaryIsProven`, `PriceIsShared`, `NoWindowIsSilent`, `PricesArePermanent`, `TypeCorrect` | the three properties together: a call's answer is the stored record because `Given` returns what is stored, and what is stored was proven by whoever stored it |
| `ChainlinkFeed` (`OfficialPricesProofs`) | `LatestIsTheNewest`, `FeedTypeCorrect` | an asset's latest average is its own |
| `BucketCollection` (`BucketCollectionProofs`) | `SnapshotsAreOfOwnDepth`, `HistoriesAreYoung`, `ComparesDeduplicationAlone`, `PipelineEventsAreTruthful`, `PricesFreshBooks`, `CollectionTypes` | what a coroutine has in hand was received in this cycle and in the order of its requests (`SampledInTime`, `FetchedInOrder`); concurrent appends are out of order by no more than the collection timeout (`HistoriesOrdered`); the diagnostic history is embedded in the production one by an increasing map (`DiagnosticEmbedded`), which survives that each is pruned at a place of its own |
| `ShadowEvidence` (`DaemonRecordsProofs`) | `EvidenceIsReferential`, `DecisionsAreBacked`, `ReportedCyclesAreComplete`, `ReportsAreForGood`, `TypeCorrect` | `CycleProgress`: the buckets before the current position are accounted for, those behind it untouched, and what of the current one is stored follows from `pc`; `NotYetReported`: no cycle event before the end, so that whatever is written later is of another cycle |
| `OfficialIdentity` (`DaemonRecordsProofs`) | `SettlementsAreOfficial`, `OverlaysAreOwn`, `ResultsAreForGood`, `IdentityTypeCorrect` | nothing more: the overlay being the condition's own, an answer that passes the identity checks of both venues is about its market, and it shows one winner only once that market is final |
| `CorpusLabels` (`LearningRecordsProofs`) | `LabelsStayComplete`, `OutcomesAgree`, `OutcomesAreForGood`, `TypeCorrect` | `NothingFromTheFuture`: no observation and no cited resolution is later than the clock, so a row saved after an attachment is not before the resolution it cites |
| `ModelRegistry` (`LearningRecordsProofs`) | `ForecastsRestOnThePast` | `TrainedOnRecord`, `ForecastIsLater`: a label, once attached, and the rows that a loaded model was trained on do not change, so what held at the restart holds of every forecast until the next |
| `StructuralReplay` (`LearningRecordsProofs`) | `ReplaysAreFaithful` | what an executor holds is the latest book of the log; a leg is a function of the books received by its instant, which no later event changes (`AsOfIsSettled` in the proofs) |
| `DecisionCycle` (`LearningRecordsProofs`) | `SetsPayForThemselves`, `CandidatesArePayable`, `AuditTellsTheTruth`, `FilledIsCheapest`, `DecisionInvHolds` | `DecisionInv`: a decision is one of the inputs as they are, every change of an input clearing it (`DecisionIsCurrent`); books keep their order and schedules the assumed rates while they age. The rest is about one evaluation (below) |

*Compositions.* `OrdersAreIndependent`, `GatesAreIndependent`,
`PricesAreIndependent`, `RecordsAreIndependent` and `RecordsStayApart` say that every
behaviour of a composition is one of each component. They are bookkeeping, lemmas that
say no more than that the components share no variable, and carry what is proved of a
component to the composition.

*Sums and sequences.* The daemon's account, the risk limits and an order's fills are
sums over finite sets, for which the library has no theorems, and its induction
theorems take the predicate as a parameter that the provers cannot instantiate.
`FiniteLemmas` proves what is needed of `SumFunction` and `SumFunctionOnSet` (they are
well-defined, unfold by one element, grow with their set) by arguments about a
minimal counterexample: the subset relation on a finite set and `<` on naturals are
well-founded, so a set of counterexamples has a minimal member, and no predicate is
passed around. The histories of `TemporalState` are treated in the same way: pruning
is characterised by the first index it keeps.

*What a purchase costs.* The three properties of `DecisionCycle` judge the walk through the
book by the cheapest way to split the quantity over all levels (`CheapestCost`).
`WalkIsClosed` gives the walk, a recursive function, in closed form: a level gives what it
holds or what the levels before it left over. That this is the cheapest split
(`FilledIsCheapest`) is an exchange argument, `InOrderIsCheapest` of `FiniteLemmas`: of all
the splits that would be cheaper take one whose shares lie nearest to the front; moving one
share from a later to an earlier level makes it no dearer, and it lies nearer still. The move is
`LowerPriceFirst`: a cent of price outweighs what the fee of either level can change by,
its rounding included, which is where `FeesBelowPrices` and `OneLevelPerPrice` are needed.
`SetsPayForThemselves` needs neither, because it only compares with the walk from above.
The audit is proved gate by gate: `GateByGate` gives the gates' values from the assessment's
first failure, and `VerdictBeforeEdge`, `VerdictOnEdge` and `VerdictExplains` show that each
failure is of what its gate asks for.

*The account.* Between them `EntryStillFits` and the tables' invariant show why the
capital gate is enough although it is read in one transaction and used in another: in
between there is no await, a crash loses the entry, and a settlement, which could
happen only in the next cycle, takes no more from the account than the open cost had
already reserved.

*Only model-checked.* Liveness and fairness (`EveryPublishedTradeSettles`,
`EveryAttemptEnds`, `StreamsAgain`, `CycleEnds`, `EveryTradeSettles`): TLAPS has no
`ENABLED`. Every other property of a passing run is a theorem. `ReportsStand` and
`ResultsStand` are theorems only; no run lists them.

## 5. Plan

Done: all modules of section 2, and every safety and action property that a run checks
proved. What would come next, in this order:

1. An abstract write-once table that price records, corpus outcomes, settlements and
   identity overlays all implement (`PricesArePermanent`, `OutcomesAreForGood`,
   `ResultsAreForGood`), with the refinement stated as it is for the gateway.
2. `DecisionCycle` without its two assumptions about the venue: how much cheaper than the
   walk another split may then be.
3. The paper-run reset (`storage/paper.py`, `src/scripts/`) as an actor concurrent with
   the daemon.

## 6. Not modelled

* Evaluation (walk-forward split, metrics, the SOL-5m go/no-go report): offline
  statistics over exported rows, without state of their own.
* Pre-live safety, the sequence tracker, the event buffer, the retry schedule and the
  structural lifetime tracker: nothing in the program calls them.
* The corpus' quality and readiness reports, the dashboard, the status and diagnostics
  documents: read-only aggregates and rendering.
* HTTP and WebSocket payload parsing: an input of the models, in every outcome that the
  code tells apart. Real-valued arithmetic of features, fits and calibration: replaced
  by the distinctions the gates make.
* Configuration, logging, metrics, deployment and operator scripts.
* Branches the daemon's own calls cannot take: `CALIBRATION_NOT_READY` and
  `FORECAST_STALE`, the `ValueError`s of identity mismatches between arguments it builds
  from one market, `parse_gamma_official_settlement` and `_winner`, which have no caller.

`PROJECT.json` lists each component with its status.
